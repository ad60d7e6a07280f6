------------------------------- MODULE Speech -------------------------------
(***************************************************************************)
(* tts.go: an audio file for a post, named after its content (so that the  *)
(* version of the text names the file).  Deleting the post deletes the     *)
(* file and leaves the parameter.                                          *)
(***************************************************************************)
EXTENDS HookJobs

\* createOrUpdate; "speak" is the editor's request for a new file.
TtsHook(event, p) ==
  CASE event \in {"post", "update", "undelete"} /\ IsPublic(p) /\ p.params["tts"] = None
                                                        -> "ttsCreate"
    [] event = "delete" /\ p.params["tts"] # None       -> "ttsRemove"
    [] event = "speak"                                  -> "ttsCreate"
    [] OTHER                                            -> "none"

CreateAudio(j) ==
  LET old == j.post.params["tts"]  loc == j.post.version IN
  /\ j.at = "ttsCreate"
  /\ \/ Publishes(j, loc, IF old # None /\ old # loc THEN "ttsReplace" ELSE "ttsSave")
     \/ Ends(j) /\ FailsFor("unsent") /\ UNCHANGED remote
  /\ UNCHANGED <<row, sent>>

ReplaceAudio(j) ==
  /\ j.at = "ttsReplace"
  /\ Withdraws(j.post.params["tts"])
  /\ Goes(j, "ttsSave")
  /\ UNCHANGED <<row, sent>>

SaveAudio(j) ==
  /\ j.at = "ttsSave"
  /\ SaveParam(j, "tts", j.id)
  /\ Ends(j)
  /\ UNCHANGED <<remote, sent>>

DeleteAudio(j) ==
  /\ j.at = "ttsRemove"
  /\ Withdraws(j.post.params["tts"])
  /\ Ends(j)
  /\ UNCHANGED <<row, sent>>

SpeechStep(j) == CreateAudio(j) \/ ReplaceAudio(j) \/ SaveAudio(j) \/ DeleteAudio(j)
=============================================================================
