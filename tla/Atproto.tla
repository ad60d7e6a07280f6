------------------------------ MODULE Atproto -------------------------------
(***************************************************************************)
(* atproto.go: posts as records of an ATProto repository.  Every call      *)
(* first logs in.  A record is never updated.                              *)
(***************************************************************************)
EXTENDS HookJobs

\* Unlike Telegram's, the hook does not look whether the post has a record.
AtHook(event, p) ==
  CASE event \in {"post", "undelete"} /\ IsPublic(p)          -> "atSend"
    [] event = "delete" /\ p.params["atprotouri"] # None      -> "atRemove"
    [] OTHER                                                  -> "none"

\* createAtprotoSession and publishPost.
AtprotoPost(j) ==
  /\ j.at = "atSend"
  /\ \/ sent' = sent + 1 /\ Publishes(j, sent + 1, "atSave")
     \/ Ends(j) /\ FailsFor("unsent") /\ UNCHANGED <<remote, sent>>
  /\ UNCHANGED row

AtprotoSave(j) ==
  /\ j.at = "atSave"
  /\ SaveParam(j, "atprotouri", j.id)
  /\ Ends(j)
  /\ UNCHANGED <<remote, sent>>

AtprotoDelete(j) ==
  /\ j.at = "atRemove"
  /\ \/ Withdraws(j.post.params["atprotouri"]) /\ Goes(j, "atClear")
     \/ UNCHANGED remote /\ Ends(j) /\ Fails  \* no session
  /\ UNCHANGED <<row, sent>>

AtprotoClear(j) ==
  /\ j.at = "atClear"
  /\ SaveParam(j, "atprotouri", None)
  /\ Ends(j)
  /\ UNCHANGED <<remote, sent>>

AtprotoStep(j) ==
  AtprotoPost(j) \/ AtprotoSave(j) \/ AtprotoDelete(j) \/ AtprotoClear(j)
=============================================================================
