------------------------------ MODULE Mentions ------------------------------
(***************************************************************************)
(* Webmentions (webmention*.go): they are queued when they arrive, and one *)
(* worker verifies them, one after the other: it requests the target and   *)
(* the source, which takes time, and then stores, changes or deletes the   *)
(* rows of the source.  Whatever goes wrong, the item leaves the queue; it *)
(* stays only when the process dies first.  The administrator approves and *)
(* deletes rows meanwhile.                                                 *)
(***************************************************************************)
EXTENDS InteractionTables

CONSTANT MaxFaults   \* bound of the model

ASSUME FaultsAssumption == MaxFaults \in Nat

VARIABLES
  worker,    \* what the worker does and with which webmention
  faults     \* failed requests and crashes so far

mentionVars == <<worker, faults>>

Resting == [at |-> "idle", source |-> None, final |-> None, version |-> 0, note |-> None]

Verification ==
  [at : {"idle", "target", "source", "remove", "lookup", "update", "insert",
         "dequeue"},
   source : Sources \cup {None}, final : Sources \cup {None},
   version : Version, note : Notes \cup {None}]

MentionsTypeOK ==
  /\ worker \in Verification
  /\ worker.at # "idle" => worker.source \in Sources /\ worker.final \in Sources
  /\ faults \in 0 .. MaxFaults

MentionsInit ==
  /\ worker = Resting
  /\ faults = 0

Fault == faults < MaxFaults /\ faults' = faults + 1

-----------------------------------------------------------------------------
(***************************************************************************)
(* The world and the administrator.                                        *)
(***************************************************************************)
ChangePage(page) ==
  /\ Input /\ Change
  /\ \E is \in {"linking", "silent", "gone", "moved"} :
       /\ is = "moved" => MovedTo[page] # page
       /\ pages' = [pages EXCEPT ![page] = [is |-> is, version |-> changes + 1]]
  /\ UNCHANGED <<comments, lastId, mentions, queue, asked, dropped, mentionVars>>

\* handleWebmention; reverifyWebmentionID queues a stored source just so, and
\* so does sendWebmentions a post of the blog that links here.
HandleWebmention(source) ==
  /\ Input
  /\ Queue(source)
  /\ UNCHANGED <<changes, pages, comments, lastId, mentions, dropped, mentionVars>>

DeleteMention(source) ==
  /\ Input /\ mentions[source] # None
  /\ mentions' = Without({source})
  /\ UNCHANGED <<changes, pages, comments, lastId, queue, asked, dropped,
                 mentionVars>>

-----------------------------------------------------------------------------
(***************************************************************************)
(* The worker: processQueueItem and verifyMention.                         *)
(***************************************************************************)
WorkerAt(at) == worker.at = at
GoOn(at)     == worker' = [worker EXCEPT !.at = at]
Touched      == {worker.source, worker.final}

TakeMention(source) ==
  /\ WorkerAt("idle") /\ queue[source] > 0
  /\ worker' = [Resting EXCEPT !.at = "target", !.source = source, !.final = source]
  /\ dropped' = dropped \ {source}
  /\ UNCHANGED <<inputs, changes, pages, comments, lastId, mentions, queue, asked,
                 faults>>

\* The post may have been deleted or hidden; that is left open here.
RequestTarget ==
  /\ WorkerAt("target")
  /\ GoOn("source") \/ GoOn("remove")
  /\ UNCHANGED <<tables, faults>>

\* The redirect of the source is noted only if the status of the answer is OK;
\* verifyReader requests the target once more for a link to it.
RequestSource ==
  LET final == Final(worker.source) IN
  /\ WorkerAt("source")
  /\ \/ /\ Is(final) = "gone"
        /\ GoOn("remove")
     \/ /\ Is(final) \in {"linking", "silent"}
        /\ worker' = [worker EXCEPT !.at = "remove", !.final = final]
     \/ /\ Is(final) = "linking"
        /\ worker' = [worker EXCEPT !.at = "lookup", !.final = final,
                        !.version = VersionOf(final), !.note = NoteOf(final)]
  /\ UNCHANGED <<tables, faults>>

\* A request fails or takes longer than ten seconds: the error is logged.
RequestFails ==
  /\ WorkerAt("target") \/ WorkerAt("source")
  /\ Fault
  /\ dropped' = dropped \cup {worker.source}
  /\ GoOn("dequeue")
  /\ UNCHANGED <<inputs, changes, pages, comments, lastId, mentions, queue, asked>>

\* Mistake: a source that no longer links to the target keeps its row.
RemoveMentionsNot ==
  /\ WorkerAt("remove")
  /\ GoOn("dequeue")
  /\ UNCHANGED <<tables, faults>>

RemoveMentions ==
  /\ WorkerAt("remove")
  /\ mentions' = Without(Touched)
  /\ GoOn("dequeue")
  /\ UNCHANGED <<inputs, changes, pages, comments, lastId, queue, asked, dropped,
                 faults>>

LookUpMention ==
  /\ WorkerAt("lookup")
  /\ GoOn(IF \E source \in Touched : mentions[source] # None THEN "update" ELSE "insert")
  /\ UNCHANGED <<tables, faults>>

Verified == [version |-> worker.version, note |-> worker.note]

\* updateWebmention gives every row of the source and of the page it leads to
\* the same key: with two of them the statement fails and changes nothing.
UpdateMention ==
  LET stored == {source \in Touched : mentions[source] # None} IN
  /\ WorkerAt("update")
  /\ GoOn("dequeue")
  /\ \/ /\ stored = {}
        /\ UNCHANGED <<mentions, dropped>>
     \/ /\ \E source \in stored : stored = {source}
        /\ mentions' = [Without(stored) EXCEPT ![worker.final] = Verified]
        /\ UNCHANGED dropped
     \/ /\ stored = Touched /\ worker.source # worker.final
        /\ dropped' = dropped \cup {worker.source}
        /\ UNCHANGED mentions
  /\ UNCHANGED <<inputs, changes, pages, comments, lastId, queue, asked,
                 faults>>

InsertMention ==
  /\ WorkerAt("insert")
  /\ mentions' = [mentions EXCEPT ![worker.final] = Verified]
  /\ GoOn("dequeue")
  /\ UNCHANGED <<inputs, changes, pages, comments, lastId, queue, asked, dropped,
                 faults>>

\* Mistake: the item stays in the queue.
DequeueMentionNot ==
  /\ WorkerAt("dequeue")
  /\ worker' = Resting
  /\ UNCHANGED <<tables, faults>>

DequeueMention ==
  /\ WorkerAt("dequeue")
  /\ queue' = [queue EXCEPT ![worker.source] = @ - 1]
  /\ worker' = Resting
  /\ UNCHANGED <<inputs, changes, pages, comments, lastId, mentions, asked, dropped,
                 faults>>

VerifyMention ==
  \/ RequestTarget \/ RequestSource \/ RequestFails \/ RemoveMentions
  \/ LookUpMention \/ UpdateMention \/ InsertMention
  \/ DequeueMention
=============================================================================
