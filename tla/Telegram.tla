------------------------------ MODULE Telegram ------------------------------
(***************************************************************************)
(* telegram.go: posts in a Telegram channel.  A message is known by two    *)
(* parameters, which are written one after the other.                      *)
(***************************************************************************)
EXTENDS HookJobs

TgPosted(p) == p.params["telegramchat"] # None /\ p.params["telegrammsg"] # None

\* Mistake: an update of a post that is not in the channel sends it.
TgHookSendsUpdate(event, p) ==
  CASE event # "delete" /\ IsPublic(p) /\ ~TgPosted(p) -> "tgSend"
    [] event = "update" /\ TgPosted(p)                -> "tgEdit"
    [] event = "delete" /\ TgPosted(p)                -> "tgRemove"
    [] OTHER                                          -> "none"

\* Mistake: a restored post is not sent again.
TgHookForgetsRestored(event, p) ==
  CASE event = "post" /\ IsPublic(p) /\ ~TgPosted(p) -> "tgSend"
    [] event = "update" /\ TgPosted(p)              -> "tgEdit"
    [] event = "delete" /\ TgPosted(p)              -> "tgRemove"
    [] OTHER                                        -> "none"

\* The hooks of an event that do not return at once.
TgHook(event, p) ==
  CASE event \in {"post", "undelete"} /\ IsPublic(p) /\ ~TgPosted(p) -> "tgSend"
    [] event = "update" /\ TgPosted(p)                               -> "tgEdit"
    [] event = "delete" /\ TgPosted(p)                               -> "tgRemove"
    [] OTHER                                                         -> "none"

TgSend(j) ==
  /\ j.at = "tgSend"
  /\ \/ sent' = sent + 1 /\ Publishes(j, sent + 1, "tgSaveChat")
     \/ Ends(j) /\ FailsFor("unsent") /\ UNCHANGED <<remote, sent>>
  /\ UNCHANGED row

TgSaveChat(j) ==
  /\ j.at = "tgSaveChat"
  /\ SaveParam(j, "telegramchat", Chat)
  /\ Goes(j, "tgSaveMsg")
  /\ UNCHANGED <<remote, sent>>

TgSaveMsg(j) ==
  /\ j.at = "tgSaveMsg"
  /\ SaveParam(j, "telegrammsg", j.id)
  /\ Ends(j)
  /\ UNCHANGED <<remote, sent>>

\* Mistake: an old message stays as it is.
TgUpdateNot(j) ==
  /\ j.at = "tgEdit"
  /\ Works /\ UNCHANGED remote
  /\ Ends(j)
  /\ UNCHANGED <<row, sent>>

TgUpdate(j) ==
  /\ j.at = "tgEdit"
  /\ \/ /\ remote' = {IF item.id = j.post.params["telegrammsg"]
                      THEN [item EXCEPT !.version = j.post.version] ELSE item :
                      item \in remote}
        /\ Works
     \/ UNCHANGED remote /\ FailsFor("unedited")
  /\ Ends(j)
  /\ UNCHANGED <<row, sent>>

\* Mistake: the parameters of a deleted message stay.
TgDeleteKeepsIds(j) ==
  /\ j.at = "tgRemove"
  /\ Withdraws(j.post.params["telegrammsg"])
  /\ Ends(j)
  /\ UNCHANGED <<row, sent>>

TgDelete(j) ==
  /\ j.at = "tgRemove"
  /\ Withdraws(j.post.params["telegrammsg"])
  /\ Goes(j, "tgClearChat")
  /\ UNCHANGED <<row, sent>>

TgClearChat(j) ==
  /\ j.at = "tgClearChat"
  /\ SaveParam(j, "telegramchat", None)
  /\ Goes(j, "tgClearMsg")
  /\ UNCHANGED <<remote, sent>>

TgClearMsg(j) ==
  /\ j.at = "tgClearMsg"
  /\ SaveParam(j, "telegrammsg", None)
  /\ Ends(j)
  /\ UNCHANGED <<remote, sent>>

TelegramStep(j) ==
  \/ TgSend(j) \/ TgSaveChat(j) \/ TgSaveMsg(j)
  \/ TgUpdate(j)
  \/ TgDelete(j) \/ TgClearChat(j) \/ TgClearMsg(j)
=============================================================================
