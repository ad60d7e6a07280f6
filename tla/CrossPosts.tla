----------------------------- MODULE CrossPosts -----------------------------
(***************************************************************************)
(* A post and what a service shows of it: the requests that create,        *)
(* update, move, delete and restore the post, the hooks they start, and    *)
(* the process, which may die.  Requests do not wait for hooks.            *)
(***************************************************************************)
EXTENDS Telegram, Atproto, Speech

VARIABLES
  requests,  \* number of requests so far
  form,      \* the parameters in the text of an open editor
  pending,   \* an update or creation between two of its steps
  announced  \* history: the post was public when it was created or restored

vars == <<hookVars, requests, form, pending, announced>>

Pending == [at : {"save", "reload"}, event : {"post", "update"}, entry : Post, old : Path]

ASSUME PendingAssumption == None \notin Pending \cup Parameters

TypeOK ==
  /\ HooksTypeOK
  /\ requests \in 0 .. MaxRequests
  /\ form \in Parameters \cup {None}
  /\ pending \in Pending \cup {None}
  /\ announced \in BOOLEAN

Init ==
  /\ HooksInit
  /\ requests = 0
  /\ form = None /\ pending = None
  /\ announced = FALSE

NoParameters == [param \in Param |-> None]

-----------------------------------------------------------------------------
Request == requests < MaxRequests /\ requests' = requests + 1

Because(some) == causes' = causes \cup some
If(condition, cause) == IF condition THEN {cause} ELSE {}

Hook(event, p) ==
  CASE service = "telegram" -> TgHook(event, p)
    [] service = "atproto"  -> AtHook(event, p)
    [] service = "tts"      -> TtsHook(event, p)

\* postPostHooks, postUpdateHooks, postDeleteHooks and postUndeleteHooks.
RunHooks(event, p) ==
  IF Hook(event, p) = "none" THEN UNCHANGED jobs ELSE Start(p, Hook(event, p))

\* Jobs that put something on the service or note it, and that remove it.
Adding   ==
  \/ pending # None /\ pending.at = "reload" /\ pending.event = "post"
  \/ \E j \in jobs : j.at \in {"tgSend", "tgSaveChat", "tgSaveMsg", "atSend", "atSave",
                             "ttsCreate", "ttsReplace", "ttsSave"}
Removing == \E j \in jobs : j.at \in
  {"tgRemove", "tgClearChat", "tgClearMsg", "atRemove", "atClear", "ttsRemove"}

-----------------------------------------------------------------------------
\* createPost: the row, written by savePost.
Create(path, visibility) ==
  LET p == [path |-> path, version |-> requests + 1, visibility |-> visibility,
            deleted |-> FALSE, params |-> NoParameters]
  IN
  /\ Request /\ row = None /\ pending = None
  /\ row' = p
  /\ pending' = [at |-> "reload", event |-> "post", entry |-> p, old |-> path]
  /\ Because(If(jobs # {}, "moved"))
  /\ UNCHANGED <<service, jobs, remote, sent, faults, form, announced>>

\* The editor is opened with the parameters of the post in its text.
OpenEditor ==
  /\ row # None /\ form = None
  /\ form' = row.params
  /\ UNCHANGED <<hookVars, requests, pending, announced>>

\* Update reads the post, and the text of the editor replaces the parameters
\* it names.
Update(path, visibility, text) ==
  LET params == [q \in Param |-> IF text[q] # None THEN text[q] ELSE row.params[q]]
      p == [row EXCEPT !.path = path, !.version = requests + 1,
                       !.visibility = visibility, !.params = params]
  IN
  /\ Request /\ row # None /\ pending = None
  /\ ~row.deleted
  /\ pending' = [at |-> "save", event |-> "update", entry |-> p, old |-> row.path]
  /\ form' = IF text = form THEN None ELSE form
  /\ UNCHANGED <<hookVars, announced>>

\* savePost: the row gets what the copy holds, parameters included.  Without a
\* row the statement matches nothing, and the post cannot be reloaded.
SaveUpdate ==
  /\ pending # None /\ pending.at = "save"
  /\ IF row # None /\ row.path = pending.old
     THEN /\ row' = pending.entry
          /\ pending' = [pending EXCEPT !.at = "reload"]
          /\ Because(If(row.deleted \/ row.params # pending.entry.params, "stale")
                     \cup If(row.path # pending.entry.path /\ jobs # {}, "moved"))
     ELSE /\ pending' = None
          /\ UNCHANGED <<row, causes>>
  /\ UNCHANGED <<service, jobs, remote, sent, faults, requests, form, announced>>

\* createOrReplacePost reads the post again and runs the hooks with it, if it
\* is published and visible.
Reload ==
  /\ pending # None /\ pending.at = "reload"
  /\ IF row # None /\ row.path = pending.entry.path /\ ~row.deleted
        /\ row.visibility \in {"public", "unlisted"}
     THEN /\ RunHooks(pending.event, row)
          /\ Because(If(pending.event = "update" /\ jobs # {}, "racing"))
          /\ announced' = \/ announced
                          \/ pending.event = "post" /\ IsPublic(row)
     ELSE UNCHANGED <<jobs, causes, announced>>
  /\ pending' = None
  /\ UNCHANGED <<service, row, remote, sent, faults, requests, form>>

\* deletePost, under pcm: the post is marked, a marked one removed.
Delete ==
  /\ Request /\ row # None
  /\ IF row.deleted
     THEN row' = None /\ UNCHANGED <<jobs, causes>>
     ELSE /\ row' = [row EXCEPT !.deleted = TRUE]
          /\ RunHooks("delete", row')
          /\ Because(If(Adding, "hasty"))
  /\ announced' = FALSE
  /\ UNCHANGED <<service, remote, sent, faults, form, pending>>

\* undeletePost, under pcm.  It does not ask whether the post was deleted.
Undelete ==
  /\ Request /\ row # None
  /\ row' = [row EXCEPT !.deleted = FALSE]
  /\ RunHooks("undelete", row')
  /\ Because(If(Removing, "hasty") \cup If(~row.deleted, "odd")
             \cup If(row.params["tts"] # None, "restored"))
  /\ announced' = IsPublic(row')
  /\ UNCHANGED <<service, remote, sent, faults, form, pending>>

\* The editor asks for a new audio file.
Speak ==
  /\ Request /\ row # None /\ service = "tts"
  /\ RunHooks("speak", row)
  /\ Because(If(row.deleted, "odd") \cup If(jobs # {} \/ pending # None, "racing"))
  /\ UNCHANGED <<service, row, remote, sent, faults, form, pending, announced>>

\* The process dies, and with it what it was doing.
Crash ==
  /\ faults < MaxFaults /\ faults' = faults + 1
  /\ jobs' = {} /\ pending' = None
  /\ Because(If(jobs # {} \/ pending # None, "crash"))
  /\ UNCHANGED <<service, row, remote, sent, requests, form, announced>>

-----------------------------------------------------------------------------
Requests ==
  \/ \E path \in Path, visibility \in Visibility :
       \/ Create(path, visibility)
       \/ Update(path, visibility, NoParameters)
       \/ form # None /\ Update(path, visibility, form)
  \/ OpenEditor
  \/ SaveUpdate \/ Reload
  \/ Delete \/ Undelete \/ Speak

Hooks == \E j \in jobs :
  /\ TelegramStep(j) \/ AtprotoStep(j) \/ SpeechStep(j)
  /\ UNCHANGED <<service, requests, form, pending, announced>>

Next == Requests \/ Hooks \/ Crash

Spec == Init /\ [][Next]_vars

-----------------------------------------------------------------------------
(***************************************************************************)
(* Properties.  Each names the causes that excuse a difference; without    *)
(* them it holds however requests and hooks interleave.                    *)
(***************************************************************************)

Quiet == jobs = {} /\ pending = None

\* What the parameters say the service shows.
Named ==
  IF row = None \/ row.deleted THEN {}
  ELSE CASE service = "telegram" -> IF TgPosted(row) THEN {row.params["telegrammsg"]} ELSE {}
         [] service = "atproto"  -> {row.params["atprotouri"]} \ {None}
         [] service = "tts"      -> {row.params["tts"]} \ {None}

Shown == {item.id : item \in remote}

\* Requests that race with an update's hook do harm to audio files only, and a
\* call that fails without effect leaves service and parameters as they were.
Harmless == {"unsent", "unedited"} \cup If(service # "tts", "racing")
Excused  == causes \ Harmless # {}

\* Constraint of TLC's run: causes are never forgotten, and past a state that
\* is excused the properties say nothing.
NotExcused == ~Excused

\* docs/features.md:279, "Updates, deletions, and undeletions are also synced":
\* when the hooks have ended, the service shows exactly what the live post
\* names, and nothing of a deleted or purged post, unless an update wrote back
\* older parameters, the post was moved or recreated, deleted or restored under
\* a hook that had still to run, or a call failed.
ServiceMatchesPost == Quiet => Shown = Named \/ Excused

\* A post that was public when it was created or restored is on the service.
AnnouncedIsShown == Quiet /\ announced =>
  remote # {} \/ Excused \/ "unsent" \in causes

\* docs/features.md:281, "Editing and republishing updates the existing message
\* instead of sending a new one": at no time are there two messages or records.
NeverTwice == service # "tts" => Cardinality(remote) <= 1 \/ Excused

\* tgUpdate: the message has the text of the last update of a visible post,
\* unless hooks of two events ran at once.
MessageIsCurrent ==
  Quiet /\ service = "telegram" /\ row # None /\ ~row.deleted
        /\ row.visibility # "private"
    => (\A item \in remote : item.version = row.version) \/ causes # {}

=============================================================================
