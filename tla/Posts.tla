------------------------------- MODULE Posts -------------------------------
(***************************************************************************)
(* The life cycle of posts as the program runs it: the handlers of         *)
(* concurrent Micropub and editor requests (micropub.go), the scheduler    *)
(* (postsScheduler.go) and the deleter (postsDeleter.go), all writing      *)
(* through createOrReplacePost, deletePost and undeletePost (postsDb.go).  *)
(*                                                                         *)
(* The mutex pcm protects a write and the reads the writing function does  *)
(* itself; it does not cover the read an update or the scheduler starts    *)
(* from.  A post is read with two queries (row, then parameters), so a     *)
(* reader that does not hold pcm may see a row and parameters of different *)
(* moments.                                                                *)
(***************************************************************************)
EXTENDS PostTypes

CONSTANTS
  Clients,        \* request handlers
  Scheduler,      \* the goroutine of startPostsScheduler
  Deleter,        \* the hourly hook of initPostsDeleter
  Free,           \* nobody holds pcm
  InputStatus,    \* statuses authors write; "" leaves the choice to checkPost
  InputDates,     \* publication dates authors write
  Failing,        \* bound of the model: who may fail to read a post again
  Retention,      \* a deleted post is kept for more ticks than this
  MaxTime,        \* bound of the model: the clock stops here
  MaxRestarts     \* bound of the model: crashes of the process

Procs == Clients \cup {Scheduler, Deleter}

ASSUME PostsAssumption ==
  /\ Scheduler \notin Clients /\ Deleter \notin Clients
  /\ Scheduler # Deleter
  /\ Free \notin Procs
  /\ InputStatus \subseteq Status \cup {""}
  /\ Failing \subseteq Procs
  /\ Retention \in Nat
  /\ MaxTime \in Nat \ {0} /\ Times = 1 .. MaxTime
  /\ InputDates \subseteq Times \cup {NoTime}
  /\ MaxRestarts \in Nat

VARIABLES
  now,        \* the clock
  posts,      \* tables posts and post_parameters, by path
  gone,       \* table deleted
  pcm,        \* the holder of the mutex pcm
  op,         \* the operation every process is in
  due,        \* scheduler: the posts it listed and still has to publish
  expired,    \* deleter: the "deleted" dates it listed and still has to check
  lastHook,   \* history: what the last hooks of a path told of its post
  changed,    \* history: the posts the scheduler holds copies of and whose
              \* rows others have written since it listed them
  restarts    \* crashes so far

table == <<posts, gone, changed>>        \* what a write of a row changes
lists == <<due, expired>>
vars  == <<now, posts, gone, pcm, op, due, expired, lastHook, changed, restarts>>

(***************************************************************************)
(* The operation of a process.  old and new are the path a write finds its *)
(* row by and the path it writes (old = None: isNew), copy the post in     *)
(* memory, asNew whether the post hooks follow instead of the update ones. *)
(***************************************************************************)
LockPC   == {"save", "delete", "undelete"}            \* waiting for pcm
LockedPC == {"saveExec", "deleteExec", "deleteHook",
             "undeleteExec", "undeleteHook"}          \* holding pcm
FreePC   == {"idle", "params", "reload", "hook"}

Op ==
  [pc    : LockPC \cup LockedPC \cup FreePC,
   old   : Paths \cup {None},
   new   : Paths \cup {None},
   copy  : Post \cup {None},
   asNew : BOOLEAN]

Idle == [pc |-> "idle", old |-> None, new |-> None, copy |-> None,
         asNew |-> FALSE]

\* Post, update and undelete hooks tell that a post exists; "untold": a save
\* that should have told it has not.
News == {"none", "exists", "deleted", "untold"}

TypeOK ==
  /\ now \in Times
  /\ posts \in [Paths -> Post \cup {None}]
  /\ gone \subseteq Paths
  /\ pcm \in Procs \cup {Free}
  /\ op \in [Procs -> Op]
  /\ due \in [Paths -> Post \cup {None}]
  /\ expired \in [Paths -> Times \cup {NoTime}]
  /\ lastHook \in [Paths -> News]
  /\ changed \subseteq Paths
  /\ restarts \in 0 .. MaxRestarts

Nothing == [path \in Paths |-> None]
NoDates == [path \in Paths |-> NoTime]

Init ==
  /\ now = 1
  /\ posts = Nothing
  /\ gone = {}
  /\ pcm = Free
  /\ op = [proc \in Procs |-> Idle]
  /\ due = Nothing
  /\ expired = NoDates
  /\ lastHook = [path \in Paths |-> "none"]
  /\ changed = {}
  /\ restarts = 0

-----------------------------------------------------------------------------
(***************************************************************************)
(* Locking.                                                                *)
(***************************************************************************)
At(proc, pc) == op[proc].pc = pc
Lock(proc)   == pcm = Free /\ pcm' = proc
Unlock       == pcm' = Free
Goto(proc, pc) == op' = [op EXCEPT ![proc].pc = pc]
Done(proc)     == op' = [op EXCEPT ![proc] = Idle]

\* The copy in memory is not used any more.
Forget(proc, pc) == op' = [op EXCEPT ![proc].pc = pc, ![proc].copy = None]

\* The scheduler has a copy of the post, in its list or to be written back.
Copied(path) ==
  due[path] # None \/ (op[Scheduler].pc \in {"save", "saveExec"}
                       /\ op[Scheduler].old = path)

\* The history of a write: others change rows the scheduler has copies of.
Noted(proc) ==
  changed' = IF proc = Scheduler THEN changed \ {op[Scheduler].old}
             ELSE changed \cup {path \in Paths : /\ posts'[path] # posts[path]
                                                 /\ Copied(path)}

\* The parameter "deleted" a query of post_parameters returns for a path.
DeletedParam(path) ==
  IF posts[path] = None THEN NoTime ELSE posts[path].deleted

-----------------------------------------------------------------------------
(***************************************************************************)
(* createOrReplacePost: check, save under pcm, reload, trigger hooks.      *)
(***************************************************************************)

\* The condition under which a write counts as the publication of a post.
CountsAsNew(isNew, oldStatus, oldVisibility) ==
  \/ isNew
  \/ oldStatus = "scheduled"
  \/ oldStatus # "published" /\ ~Shared(oldVisibility)

\* savePost takes pcm and reads the parameters of the old path.
SaveLock(proc) ==
  /\ At(proc, "save") /\ Lock(proc)
  /\ Goto(proc, "saveExec")
  /\ UNCHANGED <<now, table, lists, lastHook, restarts>>

\* The row an update matches.
Matched(o) == IF o.old = None THEN None ELSE posts[o.old]

\* insert into posts; the path is the primary key.
Insert(proc) ==
  LET o == op[proc] IN
  /\ o.old = None /\ posts[o.new] = None
  /\ posts' = [posts EXCEPT ![o.new] = o.copy]
  /\ Forget(proc, "reload")

\* Mistake: "update or replace" removes the post that has the new path.
UpdateOrReplace(proc) ==
  LET o == op[proc] IN
  /\ Matched(o) # None
  /\ posts' = [posts EXCEPT ![o.old] = None, ![o.new] = o.copy]
  /\ Forget(proc, "reload")

\* update posts set path = new ... where path = old, and the parameters.
Update(proc) ==
  LET o == op[proc] IN
  /\ Matched(o) # None
  /\ o.new = o.old \/ posts[o.new] = None
  /\ posts' = [posts EXCEPT ![o.old] = None, ![o.new] = o.copy]
  /\ Forget(proc, "reload")

\* The path is taken: the UNIQUE constraint refuses the statement.
Conflict(proc) ==
  LET o == op[proc] IN
  /\ posts[o.new] # None
  /\ o.old = None \/ (o.old # o.new /\ Matched(o) # None)
  /\ Done(proc) /\ UNCHANGED posts

\* The row is gone and nobody has the new path: no row matches, and the
\* parameters, if there are any, have no row to refer to.
NoRow(proc) ==
  LET o == op[proc] IN
  /\ o.old # None /\ Matched(o) = None /\ posts[o.new] = None
  /\ Done(proc) /\ UNCHANGED posts

\* The row is gone and another post has the new path: it gets the parameters.
StrayParameters(proc) ==
  LET o == op[proc] IN
  /\ o.old # None /\ Matched(o) = None /\ posts[o.new] # None
  /\ posts' = [posts EXCEPT ![o.new].deleted =
                 IF @ = NoTime THEN o.copy.deleted ELSE @]
  /\ Forget(proc, "reload")

SaveExec(proc) ==
  /\ At(proc, "saveExec") /\ Unlock
  /\ \/ Insert(proc) \/ Update(proc) \/ Conflict(proc) \/ NoRow(proc)
     \/ StrayParameters(proc)
  /\ Noted(proc)
  /\ UNCHANGED <<now, gone, lists, lastHook, restarts>>

\* Mistake: the post is reloaded from the path it had before.
ReloadOldPath(proc) ==
  /\ At(proc, "reload")
  /\ IF Announceable(Matched(op[proc])) THEN Goto(proc, "hook") ELSE Done(proc)
  /\ UNCHANGED <<now, table, pcm, lists, lastHook, restarts>>

\* getPost of the new path, after pcm was released; the hooks depend on it.
Reload(proc) ==
  /\ At(proc, "reload")
  /\ IF Announceable(posts[op[proc].new]) THEN Goto(proc, "hook")
                                          ELSE Done(proc)
  /\ UNCHANGED <<now, table, pcm, lists, lastHook, restarts>>

\* The post cannot be read again: it is saved, and no hook tells of it if
\* none did before.
ReloadFails(proc) ==
  /\ At(proc, "reload") /\ proc \in Failing
  /\ Announceable(posts[op[proc].new])
  /\ lastHook' = [lastHook EXCEPT ![op[proc].new] = IF @ = "exists" THEN @ ELSE "untold"]
  /\ Done(proc)
  /\ UNCHANGED <<now, table, pcm, lists, restarts>>

SaveHook(proc) ==
  LET o == op[proc] IN
  /\ At(proc, "hook")
  /\ lastHook' = [lastHook EXCEPT ![o.new] = "exists"]
  /\ Done(proc)
  /\ UNCHANGED <<now, table, pcm, lists, restarts>>

-----------------------------------------------------------------------------
(***************************************************************************)
(* deletePost and undeletePost read the post while they hold pcm.          *)
(***************************************************************************)
ReadLocked(proc, pc) ==
  LET p == posts[op[proc].old] IN
  IF p = None
    THEN /\ pcm = Free /\ UNCHANGED pcm /\ Done(proc)
    ELSE /\ Lock(proc)
         /\ op' = [op EXCEPT ![proc].pc = pc, ![proc].copy = p]

DeleteLock(proc) ==
  /\ At(proc, "delete") /\ ReadLocked(proc, "deleteExec")
  /\ UNCHANGED <<now, table, lists, lastHook, restarts>>

\* Mistake: a post is removed at the first deletion.
HardDeleteAnyPost(proc) ==
  LET o == op[proc] IN
  /\ At(proc, "deleteExec")
  /\ posts' = [posts EXCEPT ![o.old] = None]
  /\ gone' = gone \cup {o.old}
  /\ Noted(proc) /\ Unlock /\ Done(proc)
  /\ UNCHANGED <<now, lists, lastHook, restarts>>

\* The post was marked already: remove it and remember the path.
HardDelete(proc) ==
  LET o == op[proc] IN
  /\ At(proc, "deleteExec") /\ Deleted(o.copy)
  /\ posts' = [posts EXCEPT ![o.old] = None]
  /\ gone' = gone \cup {o.old}
  /\ Noted(proc) /\ Unlock /\ Done(proc)
  /\ UNCHANGED <<now, lists, lastHook, restarts>>

\* Mark the post: append the suffix, set the parameter.
SoftDelete(proc) ==
  LET o == op[proc] IN
  /\ At(proc, "deleteExec") /\ ~Deleted(o.copy)
  /\ posts' = [posts EXCEPT ![o.old].status  = o.copy.status,
                            ![o.old].suffix  = TRUE,
                            ![o.old].deleted = now]
  /\ Noted(proc) /\ Forget(proc, "deleteHook")
  /\ UNCHANGED <<now, gone, pcm, lists, lastHook, restarts>>

DeleteHook(proc) ==
  /\ At(proc, "deleteHook")
  /\ lastHook' = [lastHook EXCEPT ![op[proc].old] = "deleted"]
  /\ Unlock /\ Done(proc)
  /\ UNCHANGED <<now, table, lists, restarts>>

UndeleteLock(proc) ==
  /\ At(proc, "undelete") /\ ReadLocked(proc, "undeleteExec")
  /\ UNCHANGED <<now, table, lists, lastHook, restarts>>

\* Mistake: the suffix is not trimmed.
UndeleteKeepsSuffix(proc) ==
  LET o == op[proc] IN
  /\ At(proc, "undeleteExec")
  /\ posts' = [posts EXCEPT ![o.old].deleted = NoTime]
  /\ Noted(proc) /\ Forget(proc, "undeleteHook")
  /\ UNCHANGED <<now, gone, pcm, lists, lastHook, restarts>>

UndeleteExec(proc) ==
  LET o == op[proc] IN
  /\ At(proc, "undeleteExec")
  /\ posts' = [posts EXCEPT ![o.old].status  = o.copy.status,
                            ![o.old].suffix  = FALSE,
                            ![o.old].deleted = NoTime]
  /\ Noted(proc) /\ Forget(proc, "undeleteHook")
  /\ UNCHANGED <<now, gone, pcm, lists, lastHook, restarts>>

UndeleteHook(proc) ==
  /\ At(proc, "undeleteHook")
  /\ lastHook' = [lastHook EXCEPT ![op[proc].old] = "exists"]
  /\ Unlock /\ Done(proc)
  /\ UNCHANGED <<now, table, lists, restarts>>

\* A database error (or, in undeletePost, the panic on a post without any
\* parameter): the deferred Unlock runs, nothing was written.
Fail(proc) ==
  /\ op[proc].pc \in {"saveExec", "deleteExec", "undeleteExec"}
  /\ Unlock /\ Done(proc)
  /\ UNCHANGED <<now, posts, gone, lists, lastHook, restarts>> /\ Noted(proc)

-----------------------------------------------------------------------------
(***************************************************************************)
(* Requests.  A request that is refused before it takes pcm changes        *)
(* nothing and is no step.                                                 *)
(***************************************************************************)
Request(proc, o) ==
  /\ At(proc, "idle")
  /\ op' = [op EXCEPT ![proc] = o]
  /\ UNCHANGED <<now, table, pcm, lists, lastHook, restarts>>

\* micropub.Create and plugins: createPost after checkPost.
BeginCreate(c, path, status, visibility, date, hasSection) ==
  LET published == CheckedDate(date, TRUE, hasSection, now) IN
  Request(c, [pc    |-> "save", old |-> None, new |-> path,
              copy  |-> [status     |-> CheckedStatus(status, published, now),
                         suffix     |-> FALSE,
                         visibility |-> visibility,
                         published  |-> published,
                         deleted    |-> NoTime],
              asNew |-> CountsAsNew(TRUE, "", "")])

\* micropub.Update: getPost reads the row and refuses a deleted post ...
BeginUpdate(c, path) ==
  LET p == posts[path] IN
  /\ p # None /\ ~Deleted(p)
  /\ Request(c, [pc    |-> "params", old |-> path, new |-> path, copy |-> p,
                 asNew |-> CountsAsNew(FALSE, p.status, p.visibility)])

\* ... then the parameters; the request changes the copy, checkPost checks it.
ChangeCopy(c, new, status, visibility, date) ==
  /\ At(c, "params")
  /\ status \in InputStatus \cup {op[c].copy.status}
  /\ date \in InputDates \cup {op[c].copy.published}
  /\ op' = [op EXCEPT
       ![c].pc   = "save",
       ![c].new  = new,
       ![c].copy = [status     |-> CheckedStatus(status, date, now),
                    suffix     |-> FALSE,
                    visibility |-> visibility,
                    published  |-> date,
                    deleted    |-> DeletedParam(op[c].old)]]
  /\ UNCHANGED <<now, table, pcm, lists, lastHook, restarts>>

BeginDelete(proc, path) ==
  Request(proc, [Idle EXCEPT !.pc = "delete", !.old = path])

BeginUndelete(c, path) ==
  Request(c, [Idle EXCEPT !.pc = "undelete", !.old = path])

-----------------------------------------------------------------------------
\* Mistake: the query does not filter by date.
IsDueAnyDate(p) == p # None /\ p.status = "scheduled" /\ ~p.suffix

(***************************************************************************)
(* checkScheduledPosts: list the scheduled posts whose date has passed (an *)
(* empty date sorts before every date), then write each copy back as       *)
(* published.                                                              *)
(***************************************************************************)
IsDue(p) == p # None /\ p.status = "scheduled" /\ ~p.suffix /\ p.published < now

ListDue ==
  /\ At(Scheduler, "idle") /\ due = Nothing
  /\ \E path \in Paths : IsDue(posts[path])
  /\ due' = [path \in Paths |-> IF IsDue(posts[path]) THEN posts[path]
                                                      ELSE None]
  /\ changed' = {}
  /\ Goto(Scheduler, "params")
  /\ UNCHANGED <<now, posts, gone, pcm, expired, lastHook, restarts>>

LoadDueParams ==
  /\ At(Scheduler, "params")
  /\ due' = [path \in Paths |->
               IF due[path] = None THEN None
               ELSE [due[path] EXCEPT !.deleted = DeletedParam(path)]]
  /\ Goto(Scheduler, "idle")
  /\ UNCHANGED <<now, table, pcm, expired, lastHook, restarts>>

\* Mistake: the status of the copy is not changed.
PublishKeepsStatus(path) ==
  LET p == due[path] IN
  /\ At(Scheduler, "idle") /\ p # None
  /\ op' = [op EXCEPT ![Scheduler] =
       [pc |-> "save", old |-> path, new |-> path, copy |-> p, asNew |-> TRUE]]
  /\ due' = [due EXCEPT ![path] = None]
  /\ UNCHANGED <<now, table, pcm, expired, lastHook, restarts>>

PublishNext(path) ==
  LET p == due[path] IN
  /\ At(Scheduler, "idle") /\ p # None
  /\ op' = [op EXCEPT ![Scheduler] =
       [pc    |-> "save", old |-> path, new |-> path,
        copy  |-> [p EXCEPT !.status = "published"],
        asNew |-> CountsAsNew(FALSE, "scheduled", p.visibility)]]
  /\ due' = [due EXCEPT ![path] = None]
  /\ UNCHANGED <<now, table, pcm, expired, lastHook, restarts>>

\* Mistake: only posts that were published are looked for.
IsMarkedPublishedOnly(p) ==
  Deleted(p) /\ p.deleted # NoTime /\ p.status = "published"

(***************************************************************************)
(* checkDeletedPosts: list the posts that have a deleted status and the    *)
(* parameter "deleted"; call deletePost for every path whose date is older *)
(* than the retention time.                                                *)
(***************************************************************************)
IsMarked(p) == Deleted(p) /\ p.deleted # NoTime

ListDeleted ==
  /\ At(Deleter, "idle") /\ expired = NoDates
  /\ \E path \in Paths : IsMarked(posts[path])
  /\ expired' = [path \in Paths |->
                   IF IsMarked(posts[path]) THEN posts[path].deleted ELSE NoTime]
  /\ Goto(Deleter, "params")
  /\ UNCHANGED <<now, table, pcm, due, lastHook, restarts>>

LoadDeletedParams ==
  /\ At(Deleter, "params")
  /\ expired' = [path \in Paths |->
                   IF expired[path] = NoTime THEN NoTime ELSE DeletedParam(path)]
  /\ Goto(Deleter, "idle")
  /\ UNCHANGED <<now, table, pcm, due, lastHook, restarts>>

Overdue(date) == date + Retention < now

PurgeNext(path) ==
  /\ At(Deleter, "idle") /\ expired[path] # NoTime
  /\ expired' = [expired EXCEPT ![path] = NoTime]
  /\ IF Overdue(expired[path])
       THEN op' = [op EXCEPT ![Deleter] =
                     [Idle EXCEPT !.pc = "delete", !.old = path]]
       ELSE UNCHANGED op
  /\ UNCHANGED <<now, table, pcm, due, lastHook, restarts>>

-----------------------------------------------------------------------------
Tick ==
  /\ now < MaxTime /\ now' = now + 1
  /\ UNCHANGED <<table, pcm, op, lists, lastHook, restarts>>

\* The process dies and starts again: the database keeps what was committed.
Restart ==
  /\ restarts < MaxRestarts /\ restarts' = restarts + 1
  /\ pcm' = Free
  /\ op' = [proc \in Procs |-> Idle]
  /\ due' = Nothing /\ expired' = NoDates
  /\ UNCHANGED <<now, table, lastHook>>

ClientRequest(c) ==
  \E path \in Paths :
    \/ BeginUpdate(c, path) \/ BeginDelete(c, path) \/ BeginUndelete(c, path)
    \/ \E s \in InputStatus, v \in Visibilities, d \in InputDates,
          hasSection \in BOOLEAN : BeginCreate(c, path, s, v, d, hasSection)
    \/ \E s \in Status \cup {""}, v \in Visibilities, d \in Times \cup {NoTime} :
          ChangeCopy(c, path, s, v, d)

Save(proc)   == SaveLock(proc) \/ SaveExec(proc) \/ Reload(proc) \/ ReloadFails(proc)
                \/ SaveHook(proc)
Delete(proc) == DeleteLock(proc) \/ HardDelete(proc) \/ SoftDelete(proc)
                \/ DeleteHook(proc)
Restore(proc) == UndeleteLock(proc) \/ UndeleteExec(proc) \/ UndeleteHook(proc)

Next ==
  \/ Tick \/ Restart
  \/ \E c \in Clients : ClientRequest(c)
  \/ \E proc \in Procs : Save(proc) \/ Delete(proc) \/ Restore(proc) \/ Fail(proc)
  \/ ListDue \/ LoadDueParams \/ \E path \in Paths : PublishNext(path)
  \/ ListDeleted \/ LoadDeletedParams \/ \E path \in Paths : PurgeNext(path)

Spec == Init /\ [][Next]_vars

(***************************************************************************)
(* Fairness.  Go's mutexes do not starve a waiter, a process that holds    *)
(* pcm releases it, the tickers keep firing and the database does not      *)
(* refuse a statement for ever.  Nothing is assumed of the requests.       *)
(***************************************************************************)
Acquire(proc)  == SaveLock(proc) \/ DeleteLock(proc)
Write(proc)    == SaveExec(proc) \/ HardDelete(proc) \/ SoftDelete(proc)
Finish(proc)   == Reload(proc) \/ SaveHook(proc) \/ DeleteHook(proc)
                  \/ UndeleteHook(proc)
ListStep ==
  \/ ListDue \/ LoadDueParams \/ \E path \in Paths : PublishNext(path)
PurgeStep ==
  \/ ListDeleted \/ LoadDeletedParams \/ \E path \in Paths : PurgeNext(path)

Fairness ==
  /\ WF_vars(Tick)
  /\ WF_vars(ListStep) /\ WF_vars(PurgeStep)
  /\ \A c \in Clients :
       WF_vars(Write(c) \/ UndeleteExec(c) \/ Fail(c) \/ Finish(c))
  /\ \A proc \in {Scheduler, Deleter} :
       SF_vars(Acquire(proc)) /\ SF_vars(Write(proc)) /\ WF_vars(Finish(proc))

FairSpec == Spec /\ Fairness

-----------------------------------------------------------------------------
(***************************************************************************)
(* Properties.                                                             *)
(***************************************************************************)

\* A process that holds pcm and has read a post still works with the row and
\* the date that are stored: nobody writes between its read and its write.
LockedReadIsCurrent ==
  \A proc \in Procs :
    op[proc].pc \in {"deleteExec", "undeleteExec"} =>
      op[proc].copy = posts[op[proc].old]

\* A post with a deleted status has the parameter "deleted" whatever races
\* wrote it: without it the deleter would never remove the post.
MarkedHasDate ==
  \A path \in Paths : Deleted(posts[path]) => posts[path].deleted # NoTime

\* A row leaves the table only when it was marked as deleted before and its
\* path is remembered (the page answers 410), or when the post moves.
Moves(path) ==
  \E q \in Paths \ {path} : posts[q] = None /\ posts'[q] # None
RowsVanishMarked ==
  [][\A path \in Paths :
       posts[path] # None /\ posts'[path] = None =>
         Moves(path) \/ (Deleted(posts[path]) /\ path \in gone')]_vars

\* When checkScheduledPosts makes a post public, the date the table has for it
\* at that moment has passed - unless somebody wrote the row after the
\* scheduler listed it.  (Then the copy is published as it was listed: an
\* author who postponed the post meanwhile does not stop it.)
NoEarlyPublication ==
  [][SaveExec(Scheduler) =>
       \A path \in Paths \ changed :
         Announceable(posts'[path]) /\ ~Announceable(posts[path]) =>
           posts[path] # None /\ posts[path].published < now]_vars

\* While nobody is about to trigger hooks for it, a shared post is one whose
\* subscribers were told last that it exists, not that it was deleted.
\* (Hooks that were due when the process died are lost, and the hooks of a
\* save that could not read the post again are left out.)
HooksPending(path) ==
  \E proc \in Procs :
    \/ op[proc].pc \in {"reload", "hook"} /\ op[proc].new = path
    \/ op[proc].pc \in {"deleteHook", "undeleteHook"} /\ op[proc].old = path
SharedIsKnown ==
  restarts = 0 =>
    \A path \in Paths :
      Announceable(posts[path]) /\ ~HooksPending(path) =>
        lastHook[path] \in {"exists", "untold"}

\* A scheduled post whose date has passed does not stay scheduled: crashes,
\* failing writes and edits that race with the scheduler only delay it.
DueIsPublished ==
  \A path \in Paths : IsDue(posts[path]) ~> ~IsDue(posts[path])

\* A post that is marked for longer than the retention time does not stay.
ExpiredIsPurged ==
  \A path \in Paths :
    (Deleted(posts[path]) /\ Overdue(posts[path].deleted))
      ~> ~(Deleted(posts[path]) /\ Overdue(posts[path].deleted))

\* Every step is one atomic operation of the store on the rows as they are.
Store == INSTANCE PostStore
ImplementsStore == Store!Spec
=============================================================================
