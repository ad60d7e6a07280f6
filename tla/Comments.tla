------------------------------ MODULE Comments ------------------------------
(***************************************************************************)
(* Comments (comments.go, commentsEditor.go, commentsAdmin.go) and the     *)
(* part of the inbox of ActivityPub that makes and removes them: a reply   *)
(* in the fediverse is a comment whose original is the note.  Whoever      *)
(* changes a comment queues a webmention of its page, so that the post     *)
(* shows it.  Several requests run at once, and the same note may arrive   *)
(* in several inboxes.                                                     *)
(***************************************************************************)
EXTENDS InteractionTables

CONSTANT Requests

VARIABLES
  request,     \* what every request does
  overlapped,  \* history: notes that came again while they were handled
  forsaken     \* history: comments removed although their webmention stays

commentVars == <<request, overlapped, forsaken>>

NoRequest == [at |-> "idle", note |-> None, id |-> None]

Request ==
  [at : {"idle", "find", "insert", "update", "queue", "findDeleted", "delete", "deleteMentions"},
   note : Notes \cup {None}, id : Ids \cup {None}]

CommentsTypeOK ==
  /\ request \in [Requests -> Request]
  /\ \A r \in Requests :
       request[r].at \in {"update", "queue", "delete"} => request[r].id \in Ids
  /\ overlapped \subseteq Notes
  /\ forsaken \subseteq Ids

CommentsInit ==
  /\ request = [r \in Requests |-> NoRequest]
  /\ overlapped = {} /\ forsaken = {}

RequestAt(r, at) == request[r].at = at
Step(r, at)      == request' = [request EXCEPT ![r].at = at]
Known(r, at, id) == request' = [request EXCEPT ![r].at = at, ![r].id = id]
End(r)           == request' = [request EXCEPT ![r] = NoRequest]

WithNote(note) == {id \in Ids : comments[id] # None /\ comments[id].note = note}

-----------------------------------------------------------------------------
Begin(r, at, note, id) ==
  /\ Input /\ RequestAt(r, "idle")
  /\ request' = [request EXCEPT ![r] = [at |-> at, note |-> note, id |-> id]]
  /\ overlapped' = overlapped \cup
       {n \in Notes : n = note /\ at = "find" /\ \E o \in Requests :
                        request[o].at \in {"find", "insert"} /\ request[o].note = n}
  /\ UNCHANGED <<changes, pages, comments, lastId, mentions, queue, asked, dropped,
                 forsaken>>

\* createCommentFromRequest, apOnCreateUpdate, apHandleInbox (a Delete) and the
\* editor of a comment that exists when the request begins.
CreateComment(r)     == Begin(r, "insert", None, None)
ReceiveNote(r, note) == Begin(r, "find", note, None)
DeleteNote(r, note)  == Begin(r, "findDeleted", note, None)
EditComment(r, id)   == comments[id] # None /\ Begin(r, "update", None, id)

\* Mistake: a note is not looked for.
FindCommentNot(r) ==
  /\ RequestAt(r, "find")
  /\ Step(r, "insert")
  /\ UNCHANGED <<tables, overlapped, forsaken>>

\* commentIDByOriginal: any of the rows, should there be several.
FindComment(r) ==
  /\ RequestAt(r, "find")
  /\ LET found == WithNote(request[r].note) IN
     \/ found = {} /\ Step(r, "insert")
     \/ \E id \in found : Known(r, "update", id)
  /\ UNCHANGED <<tables, overlapped, forsaken>>

InsertComment(r) ==
  /\ RequestAt(r, "insert") /\ lastId < MaxComments
  /\ Change
  /\ lastId' = lastId + 1
  /\ comments' = [comments EXCEPT ![lastId + 1] =
                    [note |-> request[r].note, version |-> changes + 1]]
  /\ Known(r, "queue", lastId + 1)
  /\ UNCHANGED <<inputs, pages, mentions, queue, asked, dropped, overlapped, forsaken>>

\* The comment may have been removed since it was found.
UpdateComment(r) ==
  LET id == request[r].id IN
  /\ RequestAt(r, "update")
  /\ Change
  /\ comments' = IF comments[id] = None THEN comments
                 ELSE [comments EXCEPT ![id].version = changes + 1]
  /\ Step(r, "queue")
  /\ UNCHANGED <<inputs, pages, lastId, mentions, queue, asked, dropped, overlapped,
                 forsaken>>

\* Mistake: only a new comment sends a webmention.
QueueNewOnly(r) ==
  /\ RequestAt(r, "queue")
  /\ IF mentions[request[r].id] = None THEN Queue(request[r].id)
     ELSE UNCHANGED <<queue, asked>>
  /\ End(r)
  /\ UNCHANGED <<inputs, changes, pages, comments, lastId, mentions, dropped,
                 overlapped, forsaken>>

QueueComment(r) ==
  /\ RequestAt(r, "queue")
  /\ Queue(request[r].id)
  /\ End(r)
  /\ UNCHANGED <<inputs, changes, pages, comments, lastId, mentions, dropped,
                 overlapped, forsaken>>

FindDeleted(r) ==
  /\ RequestAt(r, "findDeleted")
  /\ LET found == WithNote(request[r].note) IN
     \/ found = {} /\ End(r)
     \/ \E id \in found : Known(r, "delete", id)
  /\ UNCHANGED <<tables, overlapped, forsaken>>

\* The comment goes; stays says that its webmention will not go with it.
Remove(id, stays) ==
  /\ comments' = [comments EXCEPT ![id] = None]
  /\ forsaken' = IF stays THEN forsaken \cup {id} ELSE forsaken

\* Mistake: only the comment is deleted.
DeleteMentionsNot(r) ==
  /\ RequestAt(r, "deleteMentions")
  /\ End(r)
  /\ UNCHANGED <<tables, overlapped, forsaken>>

\* deleteWebmentionUUrl deletes the webmentions of the note by their URL.
DeleteMentions(r) ==
  /\ RequestAt(r, "deleteMentions")
  /\ mentions' = Without({s \in Sources : mentions[s] # None /\ mentions[s].note = request[r].note})
  /\ End(r)
  /\ UNCHANGED <<inputs, changes, pages, comments, lastId, queue, asked, dropped,
                 overlapped, forsaken>>

HandleRequest(r) ==
  \/ FindComment(r) \/ InsertComment(r) \/ UpdateComment(r) \/ QueueComment(r)
  \/ FindDeleted(r) \/ DeleteMentions(r)
=============================================================================
