----------------------------- MODULE PostReads -----------------------------
(***************************************************************************)
(* Writers of posts and readers of their pages and reactions (postsDb.go   *)
(* with PageCache and Reactions).  Writers commit first and then clean the *)
(* caches, in separate steps; deleting and restoring hold the mutex pcm    *)
(* meanwhile, saving does not.  A save reads the post again in between and *)
(* cleans nothing if it does not get it.  The operations of the store are  *)
(* those of PostStore, reduced to what PostRows keeps.                     *)
(***************************************************************************)
EXTENDS PageCache, Reactions

CONSTANTS
  MaxWrites,   \* bound of the model: operations and reactions
  Asked        \* bound of the model: the paths visitors ask for

ASSUME ReadsAssumption == MaxWrites \in Nat /\ Asked \subseteq Paths

VARIABLES
  write,      \* the operation on a post every client is in
  writes,     \* operations and reactions begun so far
  unpurged,   \* history: paths written since the last purge by a save that left it out
  undropped   \* history: paths a save has not dropped the answer of since it was to

skipped == <<unpurged, undropped>>

vars == <<rows, gone, pageVars, reactionVars, write, writes, skipped>>

NoWrite ==
  [at |-> "idle", old |-> None, path |-> None, drops |-> FALSE, locked |-> FALSE]

Operation ==
  [at : {"idle", "reload", "purge", "drop"},
   old : Paths \cup {None}, path : Paths \cup {None},
   drops : BOOLEAN, locked : BOOLEAN]

TypeOK ==
  /\ rows \in [Paths -> Row \cup {None}] /\ gone \subseteq Paths
  /\ PageTypeOK /\ ReactionsTypeOK
  /\ write \in [Clients -> Operation]
  /\ writes \in 0 .. MaxWrites
  /\ unpurged \subseteq Paths /\ undropped \subseteq Paths

\* A post may be there when the program starts; its caches are empty then.
Init ==
  /\ \E path \in Paths, row \in Row \cup {None} :
       rows = [p \in Paths |-> IF p = path THEN row ELSE None]
  /\ gone = {}
  /\ PageInit /\ ReactionsInit
  /\ write = [c \in Clients |-> NoWrite]
  /\ writes = 0
  /\ unpurged = {} /\ undropped = {}

Idle(c) == VisitAt(c, "idle") /\ ReaderAt(c, "idle") /\ write[c] = NoWrite

-----------------------------------------------------------------------------
(***************************************************************************)
(* Writers.                                                                *)
(***************************************************************************)

\* A write of the post at old, which is at path from now on, is committed
\* while nobody holds pcm; drops says whether it will delete the cached
\* reactions, locked whether it keeps pcm until it ends.
Commit(c, at, old, path, drops, locked) ==
  /\ Idle(c) /\ writes < MaxWrites
  /\ \A w \in Clients : ~write[w].locked
  /\ writes' = writes + 1
  /\ write' = [write EXCEPT ![c] =
       [at |-> at, old |-> old, path |-> path, drops |-> drops, locked |-> locked]]
  /\ UNCHANGED <<pageVars, skipped>>

\* A post is created, or replaced by a copy read before.
SavePost(c, path, row) ==
  /\ Commit(c, "reload", path, path, TRUE, FALSE)
  /\ ~row.deleted
  /\ rows' = [rows EXCEPT ![path] = row]
  /\ UNCHANGED <<gone, reactionVars>>

\* Requests for the reactions of a path whose reactions are gone from it:
\* there is nothing any more that they would have to see.
Freed(path) ==
  [r \in Clients |-> IF reader[r].path = path
     THEN [reader[r] EXCEPT !.mine = IF @ = None THEN None ELSE 0, !.least = 0]
     ELSE reader[r]]

\* A post is replaced and gets a path no post is at; its reactions go along,
\* by the foreign key, and nothing says where it was.
MovePost(c, old, path, row) ==
  /\ Exists(old) /\ ~Exists(path)
  /\ Commit(c, "reload", old, path, TRUE, FALSE)
  /\ ~row.deleted
  /\ rows' = [rows EXCEPT ![old] = None, ![path] = row]
  /\ counts' = [counts EXCEPT ![old] = 0, ![path] = counts[old]]
  /\ forgotten' = [forgotten EXCEPT ![old] = 0]
  /\ reader' = Freed(old)
  /\ UNCHANGED <<gone, answers, answerLate, answerCalls>>

MarkDeleted(c, path) ==
  /\ Exists(path) /\ ~rows[path].deleted
  /\ Commit(c, "purge", path, path, FALSE, TRUE)
  /\ rows' = [rows EXCEPT ![path].deleted = TRUE]
  /\ UNCHANGED <<gone, reactionVars>>

\* Reactions go with the post.
RemovePost(c, path) ==
  /\ Exists(path) /\ rows[path].deleted
  /\ Commit(c, "purge", path, path, TRUE, TRUE)
  /\ rows' = [rows EXCEPT ![path] = None]
  /\ gone' = gone \cup {path}
  /\ counts' = [counts EXCEPT ![path] = 0]
  /\ forgotten' = [forgotten EXCEPT ![path] = 0]
  /\ reader' = Freed(path)
  /\ UNCHANGED <<answers, answerLate, answerCalls>>

UndeletePost(c, path) ==
  /\ Exists(path)
  /\ Commit(c, "purge", path, path, FALSE, TRUE)
  /\ rows' = [rows EXCEPT ![path].deleted = FALSE]
  /\ UNCHANGED <<gone, reactionVars>>

\* createOrReplacePost reads what it has saved.
Reload(c) ==
  /\ write[c].at = "reload" /\ Exists(write[c].path)
  /\ write' = [write EXCEPT ![c].at = "purge"]
  /\ UNCHANGED <<rows, gone, pageVars, reactionVars, writes, skipped>>

\* The post was removed or moved meanwhile, and whoever did that purges the
\* cache: the save returns and cleans nothing, not even for the path that the
\* post had before.
ReloadMisses(c) ==
  /\ write[c].at = "reload" /\ ~Exists(write[c].path)
  /\ write' = [write EXCEPT ![c] = NoWrite]
  /\ unpurged' = unpurged \cup ({write[c].old} \ {write[c].path})
  /\ UNCHANGED <<rows, gone, pageVars, reactionVars, writes, undropped>>

\* The read is refused: the save returns likewise, though the post is there.
ReloadFails(c) ==
  /\ write[c].at = "reload"
  /\ write' = [write EXCEPT ![c] = NoWrite]
  /\ unpurged' = unpurged \cup {write[c].old, write[c].path}
  /\ undropped' = undropped \cup {write[c].path}
  /\ UNCHANGED <<rows, gone, pageVars, reactionVars, writes>>

\* Mistake: marking and restoring a post leave the cached pages.
PurgeOnlyDropping(c) ==
  /\ write[c].at = "purge"
  /\ IF write[c].drops THEN PurgeCache /\ unpurged' = {}
                       ELSE UNCHANGED <<pageVars, unpurged>>
  /\ write' = IF write[c].drops THEN [write EXCEPT ![c].at = "drop"]
              ELSE [write EXCEPT ![c] = NoWrite]
  /\ UNCHANGED <<rows, gone, reactionVars, writes, undropped>>

Purge(c) ==
  /\ write[c].at = "purge"
  /\ PurgeCache
  /\ unpurged' = {}
  /\ write' = IF write[c].drops THEN [write EXCEPT ![c].at = "drop"]
              ELSE [write EXCEPT ![c] = NoWrite]
  /\ UNCHANGED <<rows, gone, reactionVars, writes, undropped>>

\* Mistake: writes do not delete the cached reactions.
DropReactionsNot(c) ==
  /\ write[c].at = "drop"
  /\ write' = [write EXCEPT ![c] = NoWrite]
  /\ undropped' = undropped \ {write[c].path}
  /\ UNCHANGED <<rows, gone, pageVars, reactionVars, writes, unpurged>>

\* Only those of the path the post is at now.
DropReactions(c) ==
  /\ write[c].at = "drop"
  /\ DropAnswer(write[c].path)
  /\ reader' = LateReaders(write[c].path)
  /\ write' = [write EXCEPT ![c] = NoWrite]
  /\ undropped' = undropped \ {write[c].path}
  /\ UNCHANGED <<rows, gone, pageVars, counts, answerCalls, forgotten, writes, unpurged>>

-----------------------------------------------------------------------------
BeginWrite(c) ==
  \E path \in Paths :
    \/ \E row \in Row : SavePost(c, path, row)
    \/ \E row \in Row, old \in Paths : MovePost(c, old, path, row)
    \/ MarkDeleted(c, path) \/ RemovePost(c, path) \/ UndeletePost(c, path)

BeginVisit(c) ==
  /\ Idle(c)
  /\ \E path \in Asked : Route(c, path)
  /\ UNCHANGED <<rows, gone, reactionVars, write, writes, skipped>>

BeginReading(c) ==
  /\ Idle(c)
  /\ \E path \in Asked : GetReactions(c, path)
  /\ UNCHANGED <<rows, gone, pageVars, write, writes, skipped>>

BeginReaction(c) ==
  /\ Idle(c) /\ writes < MaxWrites
  /\ writes' = writes + 1
  /\ \E path \in Asked : PostReaction(c, path)
  /\ UNCHANGED <<rows, gone, pageVars, write, skipped>>

\* A client goes on with what it has begun.
Continue(c) ==
  \/ VisitStep(c) /\ UNCHANGED <<rows, gone, reactionVars, write, writes, skipped>>
  \/ ReactionStep(c) /\ UNCHANGED <<rows, gone, pageVars, write, writes, skipped>>
  \/ Reload(c) \/ ReloadMisses(c) \/ ReloadFails(c)
  \/ Purge(c) \/ DropReactions(c)

PageExpires(path) ==
  ExpirePage(path) /\ UNCHANGED <<rows, gone, reactionVars, write, writes, skipped>>
AnswerExpires(path) ==
  ExpireAnswer(path) /\ UNCHANGED <<rows, gone, pageVars, write, writes, skipped>>

Next ==
  \/ \E c \in Clients :
       \/ BeginWrite(c) \/ BeginVisit(c) \/ BeginReading(c) \/ BeginReaction(c)
       \/ Continue(c)
  \/ \E path \in Paths : PageExpires(path) \/ AnswerExpires(path)

Spec == Init /\ [][Next]_vars

\* Handlers run to their end, and what is cached expires after six hours.
Fairness ==
  /\ \A c \in Clients : WF_vars(Continue(c))
  /\ \A path \in Paths :
       WF_vars(PageExpires(path)) /\ WF_vars(AnswerExpires(path))
FairSpec == Spec /\ Fairness

-----------------------------------------------------------------------------
(***************************************************************************)
(* Properties.                                                             *)
(***************************************************************************)

\* Where stale pages come from: if every write that is committed has purged
\* the cache or given it up, a page that was saved for a request routed after
\* the last purge is what this request would get now; except for the paths of
\* a save that could not read what it had saved and left the cache as it was.
StalePageIsLate ==
  (\A c \in Clients : write[c].at \notin {"reload", "purge"}) =>
    \A path \in Paths \ unpurged :
      pages[path] # None /\ ~pageLate[path] =>
        pages[path] = Rendered(Handler(path), path)

\* The same for reactions: the cached answer of a post counts all reactions
\* and knows whether the post shows them, unless a reaction or a write has
\* still to drop it, its query ran before the last drop, or a save could not
\* read what it had saved.  A move leaves the answer of the path the post had;
\* it is not read until a post is there again, and then it was dropped.
StaleAnswerIsLate ==
  \A path \in Paths \ undropped :
    Exists(path) /\ answers[path] # None /\ ~answerLate[path] =>
      \/ answers[path] = Queried(path)
      \/ \E c \in Clients : ReaderAt(c, "drop") /\ reader[c].path = path
      \/ \E c \in Clients : write[c].drops /\ write[c].path = path

\* Whoever does not find the reactions in the cache sees all of those whose
\* senders had forgotten the running call by then.
MissIsFresh ==
  \A c \in Clients :
    ReaderAt(c, "answered") /\ reader[c].answer.on =>
      reader[c].answer.count >= reader[c].least

\* When nobody writes any more, the caches hold only current content in the
\* end, whatever old calls have stored after a purge.
CachesCatchUp ==
  <>[]\A path \in Paths :
       /\ pages[path] \in {None, Rendered(Handler(path), path)}
       /\ answers[path] \in {None, Queried(path)}
=============================================================================
