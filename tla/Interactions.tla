---------------------------- MODULE Interactions ----------------------------
(***************************************************************************)
(* Comments and webmentions of one post together: what visitors and the    *)
(* fediverse send, the worker that verifies it, the administrator, and the *)
(* process, which may die at any point.                                    *)
(***************************************************************************)
EXTENDS Mentions, Comments

vars == <<tables, mentionVars, commentVars>>

Init   == TablesInit /\ MentionsInit /\ CommentsInit

\* The worker has read the page of the comment and has still to store it.
HoldsComment(id) == worker.source = id /\ worker.at \in {"lookup", "insert"}

-----------------------------------------------------------------------------
\* The inbox removes a comment whose note was deleted.
DeleteComment(r) ==
  LET id == request[r].id IN
  /\ RequestAt(r, "delete")
  /\ Remove(id, HoldsComment(id))
  /\ Step(r, "deleteMentions")
  /\ UNCHANGED <<inputs, changes, pages, lastId, mentions, queue, asked, dropped,
                 mentionVars, overlapped>>

\* commentsAdminDelete removes only the comment.
AdminDeleteComment(id) ==
  /\ Input /\ comments[id] # None
  /\ Remove(id, TRUE)
  /\ UNCHANGED <<changes, pages, lastId, mentions, queue, asked, dropped,
                 mentionVars, request, overlapped>>

\* The process dies: the worker forgets its webmention, which is still queued,
\* and requests end between two of their statements.
Crash ==
  /\ Fault
  /\ worker' = Resting
  /\ request' = [r \in Requests |-> NoRequest]
  /\ dropped' = dropped \cup
       {id \in Ids : \E r \in Requests : RequestAt(r, "queue") /\ request[r].id = id}
  /\ forsaken' = forsaken \cup
       {id \in Ids : \E r \in Requests :
          /\ RequestAt(r, "deleteMentions")
          /\ mentions[id] # None /\ mentions[id].note = request[r].note}
  /\ UNCHANGED <<inputs, changes, pages, comments, lastId, mentions, queue, asked,
                 overlapped>>

Outside ==
  \/ \E page \in Pages : ChangePage(page)
  \/ \E source \in Sources :
       HandleWebmention(source) \/ DeleteMention(source)

Verifying == \E source \in Sources : TakeMention(source)

Next ==
  \/ (Outside \/ Verifying \/ VerifyMention) /\ UNCHANGED commentVars
  \/ \E r \in Requests :
       \/ CreateComment(r) /\ UNCHANGED mentionVars
       \/ (\E note \in Notes : ReceiveNote(r, note) \/ DeleteNote(r, note))
            /\ UNCHANGED mentionVars
       \/ (\E id \in Ids : EditComment(r, id)) /\ UNCHANGED mentionVars
       \/ HandleRequest(r) /\ UNCHANGED mentionVars
       \/ DeleteComment(r)
  \/ \E id \in Ids : AdminDeleteComment(id)
  \/ Crash

Spec == Init /\ [][Next]_vars

\* Only the worker has to go on: requests end within its timeouts of ten
\* seconds, and the ticker of the queue wakes it every thirty.
FairSpec ==
  /\ Spec
  /\ WF_vars((Verifying \/ VerifyMention) /\ UNCHANGED commentVars)

-----------------------------------------------------------------------------
(***************************************************************************)
(* Properties.                                                             *)
(***************************************************************************)

\* No webmention of the source is under way or was lost.
Settled(source) ==
  queue[source] = 0 /\ worker.source # source /\ source \notin dropped

\* verifyMention: when all that came for a source is verified, its row is at
\* least as new as the source was when the last of it came (or there is none).
MentionFollowsSource ==
  \A source \in Sources :
    Settled(source) /\ mentions[source] # None =>
      mentions[source].version >= asked[source]

\* What a post shows of a comment is the comment as it is now, whatever edits
\* and updates of the note have raced, once their webmentions are verified.
ShownCommentIsCurrent ==
  \A id \in Ids :
    /\ Settled(id) /\ comments[id] # None /\ mentions[id] # None
    /\ \A r \in Requests : ~(RequestAt(r, "queue") /\ request[r].id = id)
    => mentions[id].version = comments[id].version

\* createComment, "Check if comment already exists": a note has two comments
\* only if it came again while it was looked for and inserted.
OneCommentPerNote ==
  \A i, j \in Ids :
    /\ i # j /\ comments[i] # None /\ comments[j] # None
    /\ comments[i].note = comments[j].note /\ comments[i].note # None
    => comments[i].note \in overlapped

\* apHandleInbox deletes the comment of a note and its webmention: a row of a
\* removed comment stays only if the administrator removed the comment, the
\* worker had read it before, or the process died in between.
NoOrphan ==
  \A id \in Ids :
    /\ comments[id] = None /\ mentions[id] # None
    /\ \A r \in Requests :
         ~(RequestAt(r, "deleteMentions") /\ request[r].note = mentions[id].note)
    => id \in forsaken

\* Every webmention that was accepted is verified some day, whatever the remote
\* side does: the queue becomes empty again and again.
QueueDrains == []<>(\A source \in Sources : queue[source] = 0)
=============================================================================
