----------------------------- MODULE PageCache -----------------------------
(***************************************************************************)
(* Pages for visitors (http.go, posts.go, cache.go).  A request is routed  *)
(* by what the database says of its path; then it asks the cache for the   *)
(* path, and on a miss one request renders the page for all that wait, for *)
(* which it reads the post a second time.  Purging empties the cache; it   *)
(* neither stops nor forgets the calls that are running.                   *)
(***************************************************************************)
EXTENDS PostRows

VARIABLES
  pages,      \* the cache: a page, or None, for every path
  pageLate,   \* history: the page was saved for a request older than a purge
  pageCalls,  \* the running call of every path
  visit       \* the request for a page every client has made

pageVars == <<pages, pageLate, pageCalls, visit>>

Page == [code : {200, 404, 410}, post : Row \cup {None}]

\* late is history: the cache was purged after the request was routed.
NoVisit ==
  [at |-> "idle", path |-> None, handler |-> None, page |-> None,
   call |-> None, late |-> FALSE]

PageRequest ==
  [at : {"idle", "routed", "lookup", "handle", "save", "end", "waiting"},
   path : Paths \cup {None},
   handler : {"post", "gone", "notFound", None},
   page : Page \cup {None},
   call : Clients \cup {None},
   late : BOOLEAN]

PageTypeOK ==
  /\ pages \in [Paths -> Page \cup {None}]
  /\ pageLate \in [Paths -> BOOLEAN]
  /\ pageCalls \in [Paths -> Clients \cup {None}]
  /\ visit \in [Clients -> PageRequest]

PageInit ==
  /\ pages = [path \in Paths |-> None]
  /\ pageLate = [path \in Paths |-> FALSE]
  /\ pageCalls = [path \in Paths |-> None]
  /\ visit = [c \in Clients |-> NoVisit]

-----------------------------------------------------------------------------
\* servePostsAliasesRedirects: which handler answers for the path.
Handler(path) ==
  CASE Exists(path) /\ ~rows[path].deleted -> "post"
    [] Exists(path) /\ rows[path].deleted  -> "gone"
    [] ~Exists(path) /\ path \in gone      -> "gone"
    [] OTHER                               -> "notFound"

NotFoundPage == [code |-> 404, post |-> None]
GonePage     == [code |-> 410, post |-> None]
PostPage(path) ==
  [code |-> IF rows[path].deleted THEN 410 ELSE 200, post |-> rows[path]]

\* What a handler answers: servePost reads the post again.
Rendered(handler, path) ==
  CASE handler = "post" /\ Exists(path) -> PostPage(path)
    [] handler = "gone"                 -> GonePage
    [] OTHER                            -> NotFoundPage

VisitAt(c, at) == visit[c].at = at

Route(c, path) ==
  /\ VisitAt(c, "idle")
  /\ visit' = [visit EXCEPT ![c] =
       [NoVisit EXCEPT !.at = "routed", !.path = path, !.handler = Handler(path)]]
  /\ UNCHANGED <<pages, pageLate, pageCalls>>

\* cacheMiddleware: lead the call of the path, or wait for the one running.
LeadPage(c) ==
  /\ VisitAt(c, "routed") /\ pageCalls[visit[c].path] = None
  /\ pageCalls' = Led(pageCalls, visit[c].path, c)
  /\ visit' = [visit EXCEPT ![c].at = "lookup"]
  /\ UNCHANGED <<pages, pageLate>>

AwaitPage(c) ==
  /\ VisitAt(c, "routed") /\ pageCalls[visit[c].path] # None
  /\ visit' = [visit EXCEPT ![c].at = "waiting",
                            ![c].call = pageCalls[visit[c].path]]
  /\ UNCHANGED <<pages, pageLate, pageCalls>>

\* getOrCreateCache.
PageHit(c) ==
  /\ VisitAt(c, "lookup") /\ pages[visit[c].path] # None
  /\ visit' = [visit EXCEPT ![c].at = "end", ![c].page = pages[visit[c].path]]
  /\ UNCHANGED <<pages, pageLate, pageCalls>>

PageMiss(c) ==
  /\ VisitAt(c, "lookup") /\ pages[visit[c].path] = None
  /\ visit' = [visit EXCEPT ![c].at = "handle"]
  /\ UNCHANGED <<pages, pageLate, pageCalls>>

Handle(c) ==
  /\ VisitAt(c, "handle")
  /\ visit' = [visit EXCEPT ![c].at = "save",
       ![c].page = Rendered(visit[c].handler, visit[c].path)]
  /\ UNCHANGED <<pages, pageLate, pageCalls>>

SavePage(c) ==
  /\ VisitAt(c, "save")
  /\ pages' = [pages EXCEPT ![visit[c].path] = visit[c].page]
  /\ pageLate' = [pageLate EXCEPT ![visit[c].path] = visit[c].late]
  /\ visit' = [visit EXCEPT ![c].at = "end"]
  /\ UNCHANGED pageCalls

\* The call ends: its leader and all who wait for it are served.
ServePage(c) ==
  /\ VisitAt(c, "end")
  /\ pageCalls' = Ended(pageCalls, visit[c].path, c)
  /\ visit' = [v \in Clients |->
                 IF v = c \/ (VisitAt(v, "waiting") /\ visit[v].call = c)
                   THEN NoVisit ELSE visit[v]]
  /\ UNCHANGED <<pages, pageLate>>

VisitStep(c) ==
  \/ LeadPage(c) \/ AwaitPage(c) \/ PageHit(c) \/ PageMiss(c)
  \/ Handle(c) \/ SavePage(c) \/ ServePage(c)

\* Mistake: pages are stored with no duration, which keeps them forever.
ExpirePageNever(path) == FALSE

\* A page leaves the cache by its age of six hours or for lack of space.
ExpirePage(path) ==
  /\ pages[path] # None
  /\ pages' = [pages EXCEPT ![path] = None]
  /\ pageLate' = [pageLate EXCEPT ![path] = FALSE]
  /\ UNCHANGED <<pageCalls, visit>>

PurgeCache ==
  /\ pages' = [path \in Paths |-> None]
  /\ pageLate' = [path \in Paths |-> FALSE]
  /\ visit' = [c \in Clients |->
                 [visit[c] EXCEPT !.late = ~VisitAt(c, "idle")]]
  /\ UNCHANGED pageCalls
=============================================================================
