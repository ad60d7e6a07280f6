-------------------------- MODULE CrossPostsProofs --------------------------
(***************************************************************************)
(* Proofs about CrossPosts.  As long as nothing excuses a difference, one  *)
(* job at a time adds the post to the service or removes it (edits aside), *)
(* and at each of its steps it is known what the service shows and what    *)
(* the post names.                                                         *)
(***************************************************************************)
EXTENDS CrossPosts, FiniteSetTheorems, TLAPS

Key == [telegram |-> "telegrammsg", atproto |-> "atprotouri", tts |-> "tts"]

\* The parameter that names what the service shows of a post.
Name(p) == p.params[Key[service]]

Sends    == {"tgSend", "atSend", "ttsCreate"}
Saves    == {"tgSaveChat", "tgSaveMsg", "atSave", "ttsReplace", "ttsSave"}
Removals == {"tgRemove", "atRemove", "ttsRemove"}
Clears   == {"tgClearChat", "tgClearMsg", "atClear"}
Steps == [telegram |-> {"tgSend", "tgSaveChat", "tgSaveMsg", "tgEdit", "tgRemove", "tgClearChat", "tgClearMsg"},
          atproto  |-> {"atSend", "atSave", "atRemove", "atClear"},
          tts      |-> {"ttsCreate", "ttsReplace", "ttsSave", "ttsRemove"}]

JobTyped(j) ==
  /\ j = [n |-> j.n, post |-> j.post, at |-> j.at, id |-> j.id]
  /\ j.post \in Post /\ j.at \in Steps[service]
  /\ j.at \in Saves => j.id \in Nat

Typed ==
  /\ service \in Service
  /\ row \in Post \cup {None}
  /\ \A j \in jobs : JobTyped(j)
  /\ remote \subseteq Item
  /\ sent \in Nat /\ requests \in Nat
  /\ form \in Parameters \cup {None}
  /\ pending \in Pending \cup {None}

\* Jobs that add or remove something.
Main == {j \in jobs : j.at # "tgEdit"}
Edit == jobs \ Main
Live == row # None /\ ~row.deleted
Chatless(p) == service = "telegram" => p.params["telegramchat"] = None
Unnamed(p) == Name(p) = None /\ Chatless(p)

\* No such job: the service shows what the post names.
AtRest ==
  /\ Shown = IF Live THEN {Name(row)} \ {None} ELSE {}
  /\ row # None => (row.deleted /\ service # "tts" => Name(row) = None)
  /\ row # None /\ service = "telegram" => (Name(row) = None <=> Chatless(row))

Here(j) == row.path = j.post.path
Kept(j) == Live /\ Here(j)
Gone(j) == row = None \/ (row.deleted /\ Here(j))

\* What holds at each step of a job.
Phase(j) ==
  /\ j.at \in {"tgSend", "atSend"} => Kept(j) /\ Unnamed(row) /\ Shown = {}
  /\ j.at = "ttsCreate" => Kept(j) /\ Name(row) = Name(j.post) /\ Shown = {Name(row)} \ {None}
  /\ j.at \in {"tgSaveChat", "atSave"} => Kept(j) /\ Unnamed(row) /\ Shown = {j.id}
  /\ j.at = "tgSaveMsg" => Kept(j) /\ Name(row) = None /\ ~Chatless(row) /\ Shown = {j.id}
  /\ j.at = "ttsReplace" =>
       /\ Kept(j) /\ Name(row) = Name(j.post) /\ Name(j.post) \notin {None, j.id}
       /\ Shown = {Name(j.post), j.id}
  /\ j.at = "ttsSave" => Kept(j) /\ Shown = {j.id}
  /\ j.at \in Removals => Gone(j) /\ Name(j.post) # None /\ Shown = {Name(j.post)}
  /\ j.at \in Clears => Gone(j) /\ Shown = {}
  /\ j.at = "tgClearMsg" /\ row # None => Chatless(row)

Waiting(at) == pending # None /\ pending.at = at
Creating == Waiting("reload") /\ pending.event = "post"

JobsInv ==
  /\ \A i, j \in Main : i = j
  /\ Main = {} => AtRest
  /\ \A j \in Main : Phase(j)

PendingInv ==
  /\ Creating => Main = {} /\ Live /\ Unnamed(row)
  /\ Waiting("reload") /\ row # None => row.path = pending.entry.path
  /\ Waiting("save") => ~pending.entry.deleted /\ pending.event = "update"

AnnouncedInv == announced =>
  /\ Live /\ ~Creating
  /\ "unsent" \in causes \/ Shown # {} \/ \E j \in Main : j.at \in Sends
  /\ \A j \in Main : j.at \notin Removals \cup Clears

\* The service gives every message or record a new name.
NamesInv == service # "tts" =>
  /\ \A item \in remote : item.id <= sent
  /\ \A i, k \in remote : i.id = k.id => i = k
  /\ \A j \in Edit : Name(j.post) \in 0 .. sent

Visible == Live /\ row.visibility # "private"
Edits(j) == j \in Edit /\ Name(j.post) \in Shown

\* A message has the text of the row, or a job will give it that.
CurrentInv == service = "telegram" /\ causes = {} /\ Visible /\ ~(Waiting("reload") /\ pending.event = "update") =>
  /\ \A j \in jobs : j.at = "tgSend" \/ Edits(j) => j.post.version = row.version
  /\ (\A item \in remote : item.version = row.version) \/ \E j \in jobs : Edits(j)

Protocol == JobsInv /\ PendingInv /\ AnnouncedInv /\ NamesInv /\ CurrentInv

IInv == Typed /\ (Excused \/ Protocol)

-----------------------------------------------------------------------------
(***************************************************************************)
(* Types.                                                                  *)
(***************************************************************************)

\* The post stays, with another value of a parameter at most.
SamePost ==
  /\ row' \in Post \cup {None} /\ (row' = None <=> row = None)
  /\ row # None =>
       /\ row'.path = row.path /\ row'.version = row.version
       /\ row'.visibility = row.visibility /\ row'.deleted = row.deleted

LEMMA ParamSet ==
  ASSUME NEW p \in Post, NEW param \in Param, NEW value \in Nat \cup {None},
         param = "telegramchat" => value \in {Chat, None}
  PROVE  LET q == [p EXCEPT !.params[param] = value] IN
         /\ q \in Post /\ q.path = p.path /\ q.version = p.version
         /\ q.visibility = p.visibility /\ q.deleted = p.deleted
         /\ q.params[param] = value
         /\ \A other \in Param \ {param} : q.params[other] = p.params[other]
<1> DEFINE q == [p EXCEPT !.params[param] = value]
           params == [p.params EXCEPT ![param] = value]
<1>1. p.params \in [Param -> Nat \cup {None}] /\ p.params["telegramchat"] \in {Chat, None}
  BY DEF Post, Parameters
<1>2. /\ params \in [Param -> Nat \cup {None}] /\ params[param] = value
      /\ \A other \in Param \ {param} : params[other] = p.params[other]
  BY <1>1
<1>3. params["telegramchat"] \in {Chat, None}
  BY <1>1, <1>2 DEF Param
<1>4. params \in Parameters
  BY <1>2, <1>3 DEF Parameters
<1>5. q = [path |-> p.path, version |-> p.version, visibility |-> p.visibility,
           deleted |-> p.deleted, params |-> params]
  BY DEF Post
<1> HIDE DEF params, q
<1>6. q \in Post
  BY <1>4, <1>5 DEF Post
<1> QED BY <1>2, <1>5, <1>6 DEF q

LEMMA SavedParam ==
  ASSUME row \in Post \cup {None}, NEW j, NEW param \in Param, NEW value \in Nat \cup {None},
         param = "telegramchat" => value \in {Chat, None}, SaveParam(j, param, value)
  PROVE  /\ SamePost /\ causes \subseteq causes'
         /\ "failure" \notin causes' =>
              /\ UNCHANGED causes
              /\ row # None /\ row.path = j.post.path =>
                   /\ row'.params[param] = value
                   /\ \A other \in Param \ {param} : row'.params[other] = row.params[other]
<1>1. CASE UNCHANGED row /\ Fails
  BY <1>1 DEF Fails, FailsFor, SamePost
<1>2. CASE UNCHANGED row /\ Works /\ ~(row # None /\ row.path = j.post.path)
  BY <1>2 DEF Works, SamePost
<1>3. CASE row # None /\ row.path = j.post.path /\ row' = [row EXCEPT !.params[param] = value] /\ Works
  <2>1. row \in Post
    BY <1>3
  <2>2. SamePost /\ row'.params[param] = value /\ \A other \in Param \ {param} : row'.params[other] = row.params[other]
    BY <1>3, <2>1, ParamSet, PostAssumption DEF SamePost
  <2> QED BY <1>3, <2>2 DEF Works
<1> QED BY <1>1, <1>2, <1>3 DEF SaveParam, ReplacePostParam

\* What becomes of the jobs.
LEMMA Moves ==
  ASSUME NEW j, JobTyped(j), NEW at, NEW id
  PROVE  /\ Goes(j, at) => jobs' = (jobs \ {j}) \cup {[n |-> j.n, post |-> j.post, at |-> at, id |-> j.id]}
         /\ Holds(j, id, at) => jobs' = (jobs \ {j}) \cup {[n |-> j.n, post |-> j.post, at |-> at, id |-> id]}
<1>1. PICK n, post, step, had : j = [n |-> n, post |-> post, at |-> step, id |-> had]
  BY DEF JobTyped
<1>2. [j EXCEPT !.at = at] = [n |-> j.n, post |-> j.post, at |-> at, id |-> j.id]
  BY <1>1
<1>3. [j EXCEPT !.at = at, !.id = id] = [n |-> j.n, post |-> j.post, at |-> at, id |-> id]
  <2>1. PICK q : q = [j EXCEPT !.at = at]
    OBVIOUS
  <2>2. q = [n |-> j.n, post |-> j.post, at |-> at, id |-> j.id]
    BY <1>2, <2>1
  <2>3. [q EXCEPT !.id = id] = [n |-> j.n, post |-> j.post, at |-> at, id |-> id]
    BY <2>2
  <2>4. [j EXCEPT !.at = at, !.id = id] = [q EXCEPT !.id = id]
    BY <2>1
  <2> QED BY <2>3, <2>4
<1> QED BY <1>2, <1>3 DEF Goes, Holds

LEMMA TypedJobs ==
  ASSUME Typed, UNCHANGED service, NEW k, NEW p \in Post, NEW n, NEW id, NEW at \in Steps[service],
         at \in Saves => id \in Nat,
         k = [n |-> n, post |-> p, at |-> at, id |-> id], jobs' \subseteq jobs \cup {k}
  PROVE  \A j \in jobs' : JobTyped(j)'
BY DEF Typed, JobTyped

LEMMA HookTyped ==
  ASSUME Typed, NEW event, NEW p \in Post, UNCHANGED service, RunHooks(event, p),
         event = "speak" => service = "tts"
  PROVE  \A j \in jobs' : JobTyped(j)'
<1>1. CASE UNCHANGED jobs
  BY <1>1 DEF Typed, JobTyped
<1>2. CASE Hook(event, p) # "none" /\ Start(p, Hook(event, p))
  <2>1. Hook(event, p) \in Steps[service] \ Saves
    BY <1>2, HooksAssumption DEF Typed, Hook, TgHook, AtHook, TtsHook, Steps, Saves
  <2>2. PICK n : jobs' = jobs \cup {[n |-> n, post |-> p, at |-> Hook(event, p), id |-> None]}
    BY <1>2 DEF Start
  <2> QED BY <2>1, <2>2, TypedJobs
<1> QED BY <1>1, <1>2 DEF RunHooks

\* Every step leaves the service enabled, and no cause is forgotten.
LEMMA JobStep ==
  ASSUME Typed, NEW j \in jobs, TelegramStep(j) \/ AtprotoStep(j) \/ SpeechStep(j),
         UNCHANGED <<service, requests, form, pending, announced>>
  PROVE  Typed' /\ causes \subseteq causes'
<1>1. JobTyped(j) /\ row \in Post \cup {None} /\ remote \subseteq Item /\ sent \in Nat
      /\ j.post.params \in Parameters /\ j.post.version \in Nat
  BY DEF Typed, JobTyped, Post
<1> DEFINE JobsOk == \A i \in jobs' : JobTyped(i)'
<1>2. SUFFICES /\ row' \in Post \cup {None} /\ remote' \subseteq Item /\ sent' \in Nat
               /\ JobsOk /\ causes \subseteq causes'
  BY DEF Typed
<1>3. Ends(j) => JobsOk
  BY DEF Ends, Typed, JobTyped
<1>4. ASSUME NEW at \in Steps[service], Goes(j, at), at \in Saves => j.id \in Nat
      PROVE  JobsOk
  BY <1>1, <1>4, Moves, TypedJobs DEF JobTyped
<1>5. ASSUME NEW at \in Steps[service], NEW id \in Nat, Holds(j, id, at)
      PROVE  JobsOk
  BY <1>1, <1>5, Moves, TypedJobs DEF JobTyped
<1>6. ASSUME NEW id \in Nat, NEW at \in Steps[service], Publishes(j, id, at)
      PROVE  remote' \subseteq Item /\ JobsOk /\ causes \subseteq causes'
  <2>1. remote' \subseteq Item
    BY <1>1, <1>6 DEF Publishes, Item
  <2> QED BY <1>3, <1>5, <1>6, <2>1 DEF Publishes, Works, Fails, FailsFor
<1>7. ASSUME NEW id, Withdraws(id)
      PROVE  remote' \subseteq Item /\ causes \subseteq causes'
  BY <1>1, <1>7 DEF Withdraws, WithoutItem, Works, Fails, FailsFor
<1>8. ASSUME NEW cause, FailsFor(cause)
      PROVE  causes \subseteq causes'
  BY <1>8 DEF FailsFor
<1>9. ASSUME NEW param \in Param, NEW value \in Nat \cup {None}, SaveParam(j, param, value),
             param = "telegramchat" => value \in {Chat, None}
      PROVE  row' \in Post \cup {None} /\ causes \subseteq causes'
  BY <1>1, <1>9, SavedParam DEF SamePost
<1>10. Works => causes \subseteq causes'
  BY DEF Works
<1>11. j.at \in Saves => j.id \in Nat
  BY <1>1 DEF JobTyped
<1>12. Steps[service] = Steps["telegram"] \/ Steps[service] = Steps["atproto"] \/ Steps[service] = Steps["tts"]
  BY HooksAssumption DEF Typed
<1>13. j.at \in Steps[service]
  BY <1>1 DEF JobTyped
<1> HIDE DEF JobsOk
<1>14. CASE TgSend(j)
  BY <1>1, <1>3, <1>6, <1>8, <1>12, <1>13, <1>14 DEF TgSend, Steps
<1>15. CASE AtprotoPost(j)
  BY <1>1, <1>3, <1>6, <1>8, <1>12, <1>13, <1>15 DEF AtprotoPost, Steps
<1>16. CASE CreateAudio(j)
  <2>1. "ttsReplace" \in Steps[service] /\ "ttsSave" \in Steps[service]
    BY <1>12, <1>13, <1>16 DEF CreateAudio, Steps
  <2> QED BY <1>1, <1>3, <1>6, <1>8, <1>16, <2>1 DEF CreateAudio
<1>17. CASE TgSaveChat(j)
  <2>1. "tgSaveMsg" \in Steps[service] /\ j.id \in Nat
    BY <1>11, <1>12, <1>13, <1>17 DEF TgSaveChat, Steps, Saves
  <2>2. "telegramchat" \in Param /\ Chat \in Nat
    BY DEF Param, Chat
  <2> QED BY <1>1, <1>4, <1>9, <1>17, <2>1, <2>2 DEF TgSaveChat
<1>18. CASE TgSaveMsg(j) \/ AtprotoSave(j) \/ SaveAudio(j)
  <2>1. j.id \in Nat
    BY <1>11, <1>18 DEF TgSaveMsg, AtprotoSave, SaveAudio, Saves
  <2>2. /\ "telegrammsg" \in Param /\ "telegrammsg" # "telegramchat"
        /\ "atprotouri" \in Param /\ "atprotouri" # "telegramchat"
        /\ "tts" \in Param /\ "tts" # "telegramchat"
    BY DEF Param
  <2> QED BY <1>1, <1>3, <1>9, <1>18, <2>1, <2>2 DEF TgSaveMsg, AtprotoSave, SaveAudio
<1>19. CASE TgUpdate(j)
  <2>1. remote' \subseteq Item
    BY <1>1, <1>19 DEF TgUpdate, Item
  <2> QED BY <1>1, <1>3, <1>8, <1>10, <1>19, <2>1 DEF TgUpdate
<1>20. CASE TgDelete(j) \/ AtprotoDelete(j) \/ DeleteAudio(j)
  <2>1. TgDelete(j) => "tgClearChat" \in Steps[service] \ Saves
    BY <1>12, <1>13 DEF TgDelete, Steps, Saves
  <2>2. AtprotoDelete(j) => "atClear" \in Steps[service] \ Saves
    BY <1>12, <1>13 DEF AtprotoDelete, Steps, Saves
  <2> QED BY <1>1, <1>3, <1>4, <1>7, <1>8, <1>20, <2>1, <2>2 DEF TgDelete, AtprotoDelete, DeleteAudio, Fails
<1>21. CASE ReplaceAudio(j)
  <2>1. "ttsSave" \in Steps[service] /\ j.id \in Nat
    BY <1>11, <1>12, <1>13, <1>21 DEF ReplaceAudio, Steps, Saves
  <2> QED BY <1>1, <1>4, <1>7, <1>21, <2>1 DEF ReplaceAudio
<1>22. CASE TgClearChat(j)
  <2>1. "tgClearMsg" \in Steps[service] \ Saves /\ "telegramchat" \in Param
    BY <1>12, <1>13, <1>22 DEF TgClearChat, Steps, Saves, Param
  <2> QED BY <1>1, <1>4, <1>9, <1>22, <2>1 DEF TgClearChat
<1>23. CASE TgClearMsg(j) \/ AtprotoClear(j)
  <2>1. /\ "telegrammsg" \in Param /\ "telegrammsg" # "telegramchat"
        /\ "atprotouri" \in Param /\ "atprotouri" # "telegramchat"
    BY DEF Param
  <2> QED BY <1>1, <1>3, <1>9, <1>23, <2>1 DEF TgClearMsg, AtprotoClear
<1> QED BY <1>14, <1>15, <1>16, <1>17, <1>18, <1>19, <1>20, <1>21, <1>22, <1>23
        DEF TelegramStep, AtprotoStep, SpeechStep

LEMMA Marked ==
  ASSUME NEW p \in Post, NEW mark \in BOOLEAN
  PROVE  LET q == [p EXCEPT !.deleted = mark] IN
         /\ q \in Post /\ q # None /\ q.path = p.path /\ q.version = p.version
         /\ q.visibility = p.visibility /\ q.params = p.params /\ q.deleted = mark
BY PostAssumption DEF Post

LEMMA Unmoved ==
  ASSUME Typed, UNCHANGED <<service, jobs>>
  PROVE  \A j \in jobs' : JobTyped(j)'
BY DEF Typed, JobTyped

LEMMA PendingFields ==
  ASSUME NEW change \in Pending
  PROVE  /\ change.at \in {"save", "reload"} /\ change.event \in {"post", "update"}
         /\ change.entry \in Post /\ change.old \in Path /\ change # None
         /\ LET next == [change EXCEPT !.at = "reload"] IN
            /\ next \in Pending /\ next.at = "reload" /\ next.event = change.event
            /\ next.entry = change.entry
BY PendingAssumption DEF Pending

LEMMA CreateTyped ==
  ASSUME NEW path \in Path, NEW visibility \in Visibility, NEW version \in Nat,
         NEW p, p = [path |-> path, version |-> version, visibility |-> visibility,
                     deleted |-> FALSE, params |-> NoParameters]
  PROVE  /\ p \in Post
         /\ [at |-> "reload", event |-> "post", entry |-> p, old |-> path] \in Pending
<1>1. NoParameters \in Parameters
  BY DEF NoParameters, Parameters, Param
<1>2. p \in Post
  BY <1>1 DEF Post
<1> QED BY <1>2 DEF Pending

\* What Update makes of a post.
Merged(p, text) == [q \in Param |-> IF text[q] # None THEN text[q] ELSE p.params[q]]
Edited(p, text, path, visibility, version) ==
  [p EXCEPT !.path = path, !.version = version, !.visibility = visibility,
            !.params = Merged(p, text)]

LEMMA UpdateTyped ==
  ASSUME NEW p \in Post, NEW text \in Parameters, NEW path \in Path, NEW visibility \in Visibility,
         NEW version \in Nat
  PROVE  /\ Edited(p, text, path, visibility, version) \in Post
         /\ Edited(p, text, path, visibility, version).deleted = p.deleted
<1> DEFINE params == Merged(p, text)
           q == Edited(p, text, path, visibility, version)
<1>1. params \in Parameters
  <2>1. text["telegramchat"] \in {Chat, None} /\ p.params["telegramchat"] \in {Chat, None}
    BY DEF Post, Parameters
  <2>2. text \in [Param -> Nat \cup {None}] /\ p.params \in [Param -> Nat \cup {None}]
    BY DEF Post, Parameters
  <2>3. params \in [Param -> Nat \cup {None}]
    BY <2>2 DEF Merged
  <2>4. params["telegramchat"] \in {Chat, None}
    BY <2>1 DEF Param, Merged
  <2> QED BY <2>3, <2>4 DEF Parameters
<1>2. p = [path |-> p.path, version |-> p.version, visibility |-> p.visibility,
           deleted |-> p.deleted, params |-> p.params] /\ p.deleted \in BOOLEAN
  BY DEF Post
<1>3. q = [path |-> path, version |-> version, visibility |-> visibility,
           deleted |-> p.deleted, params |-> params]
  <2>1. PICK a : a = [p EXCEPT !.path = path]
    OBVIOUS
  <2>2. a = [path |-> path, version |-> p.version, visibility |-> p.visibility,
             deleted |-> p.deleted, params |-> p.params]
    BY <1>2, <2>1
  <2>3. PICK b : b = [a EXCEPT !.version = version]
    OBVIOUS
  <2>4. b = [path |-> path, version |-> version, visibility |-> p.visibility,
             deleted |-> p.deleted, params |-> p.params]
    BY <2>2, <2>3
  <2>5. PICK c : c = [b EXCEPT !.visibility = visibility]
    OBVIOUS
  <2>6. c = [path |-> path, version |-> version, visibility |-> visibility,
             deleted |-> p.deleted, params |-> p.params]
    BY <2>4, <2>5
  <2>7. [c EXCEPT !.params = params] =
          [path |-> path, version |-> version, visibility |-> visibility,
           deleted |-> p.deleted, params |-> params]
    BY <2>6
  <2>8. q = [c EXCEPT !.params = params]
    BY <2>1, <2>3, <2>5 DEF Edited
  <2> QED BY <2>7, <2>8
<1> QED BY <1>1, <1>2, <1>3 DEF Post

LEMMA RequestStep ==
  ASSUME Typed, Requests \/ Crash
  PROVE  Typed' /\ UNCHANGED service /\ causes \subseteq causes'
<1>1. /\ row # None => row \in Post
      /\ pending # None => pending \in Pending
      /\ requests + 1 \in Nat
      /\ remote \subseteq Item /\ sent \in Nat /\ service \in Service
      /\ form \in Parameters \cup {None} /\ requests \in Nat
  BY DEF Typed
<1>2. \A some : Because(some) => causes \subseteq causes'
  BY DEF Because
<1>3. ASSUME NEW path \in Path, NEW visibility \in Visibility, Create(path, visibility)
      PROVE  Typed' /\ UNCHANGED service /\ causes \subseteq causes'
  BY <1>1, <1>2, <1>3, CreateTyped, Unmoved DEF Create, Typed, Request
<1>4. ASSUME NEW path \in Path, NEW visibility \in Visibility, NEW text \in Parameters,
             Update(path, visibility, text)
      PROVE  Typed' /\ UNCHANGED service /\ causes \subseteq causes'
  <2>1. PICK p : p = Edited(row, text, path, visibility, requests + 1)
    OBVIOUS
  <2>3. pending' = [at |-> "save", event |-> "update", entry |-> p, old |-> row.path]
    BY <1>4, <2>1 DEF Update, Edited, Merged
  <2>4. row \in Post /\ row.path \in Path
    BY <1>1, <1>4 DEF Update, Post
  <2>5. p \in Post
    BY <1>1, <2>1, <2>4, UpdateTyped
  <2>6. pending' \in Pending
    BY <2>3, <2>4, <2>5 DEF Pending
  <2>7. UNCHANGED hookVars /\ requests' = requests + 1 /\ form' \in {None, form}
    BY <1>4 DEF Update, Request
  <2> QED BY <1>1, <2>6, <2>7, Unmoved DEF Typed, hookVars
<1>5. CASE OpenEditor
  <2>1. form' \in Parameters
    BY <1>1, <1>5 DEF OpenEditor, Post
  <2> QED BY <1>1, <1>5, <2>1, Unmoved DEF OpenEditor, Typed, hookVars
<1>6. CASE SaveUpdate
  <2>1. pending \in Pending
    BY <1>1, <1>6 DEF SaveUpdate
  <2> QED BY <1>1, <1>2, <1>6, <2>1, PendingFields, Unmoved DEF SaveUpdate, Typed
<1>7. CASE Reload
  <2>1. pending \in Pending /\ pending.event \in {"post", "update"}
    BY <1>1, <1>7, PendingFields DEF Reload
  <2>2. /\ \/ row # None /\ RunHooks(pending.event, row)
           \/ UNCHANGED jobs
        /\ pending' = None /\ causes \subseteq causes'
        /\ UNCHANGED <<service, row, remote, sent, requests, form>>
    BY <1>2, <1>7 DEF Reload
  <2>3. \A j \in jobs' : JobTyped(j)'
    BY <1>1, <2>1, <2>2, HookTyped, Unmoved
  <2> QED BY <1>1, <2>2, <2>3 DEF Typed
<1>8. CASE Delete
  <2>1. row \in Post /\ requests' = requests + 1 /\ UNCHANGED <<service, remote, sent, form, pending>>
    BY <1>1, <1>8 DEF Delete, Request
  <2>2. CASE row' = None /\ UNCHANGED <<jobs, causes>>
    BY <1>1, <2>1, <2>2, Unmoved DEF Typed
  <2>3. CASE row' = [row EXCEPT !.deleted = TRUE] /\ RunHooks("delete", row') /\ causes \subseteq causes'
    <3>1. row' \in Post
      BY <2>1, <2>3, Marked
    <3>2. \A j \in jobs' : JobTyped(j)'
      BY <2>1, <2>3, <3>1, HookTyped
    <3> QED BY <1>1, <2>1, <2>3, <3>1, <3>2 DEF Typed
  <2> QED BY <1>2, <1>8, <2>2, <2>3 DEF Delete
<1>9. CASE Undelete
  <2>1. row \in Post /\ requests' = requests + 1 /\ UNCHANGED <<service, remote, sent, form, pending>>
        /\ row' = [row EXCEPT !.deleted = FALSE] /\ RunHooks("undelete", row') /\ causes \subseteq causes'
    BY <1>1, <1>2, <1>9 DEF Undelete, Request
  <2>2. row' \in Post
    BY <2>1, Marked
  <2>3. \A j \in jobs' : JobTyped(j)'
    BY <2>1, <2>2, HookTyped
  <2> QED BY <1>1, <2>1, <2>2, <2>3 DEF Typed
<1>10. CASE Speak
  <2>1. row \in Post /\ service = "tts" /\ requests' = requests + 1 /\ causes \subseteq causes'
        /\ RunHooks("speak", row) /\ UNCHANGED <<service, row, remote, sent, form, pending>>
    BY <1>1, <1>2, <1>10 DEF Speak, Request
  <2>2. \A j \in jobs' : JobTyped(j)'
    BY <2>1, HookTyped
  <2> QED BY <1>1, <2>1, <2>2 DEF Typed
<1>11. CASE Crash
  BY <1>1, <1>2, <1>11 DEF Crash, Typed
<1>12. NoParameters \in Parameters
  BY DEF NoParameters, Parameters, Param
<1>13. form # None => form \in Parameters
  BY <1>1
<1> QED BY <1>3, <1>4, <1>5, <1>6, <1>7, <1>8, <1>9, <1>10, <1>11, <1>12, <1>13 DEF Requests

-----------------------------------------------------------------------------
(***************************************************************************)
(* What a step leaves as it is.                                            *)
(***************************************************************************)

LEMMA Calm ==
  ASSUME UNCHANGED service, causes \subseteq causes', ~Excused'
  PROVE  /\ ~Excused
         /\ {"failure", "crash", "stale", "moved", "hasty", "odd", "restored"} \cap causes' = {}
         /\ service = "tts" => "racing" \notin causes'
BY DEF Excused, Harmless, If

\* The service a step belongs to, and the parameter that names a post there.
LEMMA ServiceOf ==
  ASSUME Typed, NEW j \in jobs
  PROVE  /\ j.at \in Steps["telegram"] <=> service = "telegram"
         /\ j.at \in Steps["atproto"] <=> service = "atproto"
         /\ j.at \in Steps["tts"] <=> service = "tts"
BY HooksAssumption DEF Typed, JobTyped, Steps

LEMMA NameIs ==
  ASSUME NEW p
  PROVE  /\ service = "telegram" => Name(p) = p.params["telegrammsg"]
         /\ service = "atproto" => Name(p) = p.params["atprotouri"] /\ Chatless(p)
         /\ service = "tts" => Name(p) = p.params["tts"] /\ Chatless(p)
BY DEF Name, Key, Chatless

LEMMA MainEnds ==
  ASSUME NEW j \in Main, \A i, k \in Main : i = k, Ends(j)
  PROVE  Main' = {} /\ UNCHANGED Edit
BY DEF Main, Edit, Ends

LEMMA MainBecomes ==
  ASSUME NEW j \in Main, \A i, k \in Main : i = k, NEW k, k.at # "tgEdit",
         jobs' = (jobs \ {j}) \cup {k}
  PROVE  Main' = {k} /\ UNCHANGED Edit
BY DEF Main, Edit

LEMMA MainStarts ==
  ASSUME Main = {}, NEW k, k.at # "tgEdit", jobs' = jobs \cup {k}
  PROVE  Main' = {k} /\ UNCHANGED Edit
BY DEF Main, Edit

LEMMA NamesKept ==
  ASSUME NamesInv, UNCHANGED <<service, sent>>, remote' \subseteq remote, Edit' \subseteq Edit
  PROVE  NamesInv'
BY DEF NamesInv, Name

LEMMA CurrentKept ==
  ASSUME CurrentInv, UNCHANGED <<service, pending, remote, Edit>>, causes \subseteq causes', SamePost,
         \A k \in Main' : k.at # "tgSend" \/ k \in Main
  PROVE  CurrentInv'
<1>1. UNCHANGED Shown
  BY DEF Shown
<1>2. \A k : Edits(k)' = Edits(k)
  BY <1>1 DEF Edits, Name
<1>3. \A k \in jobs' : k.at = "tgSend" => k \in jobs
  BY DEF Main
<1>4. \A k : Edits(k) => k \in jobs
  BY DEF Edits, Edit
<1>5. \A k : Edits(k)' => k \in jobs'
  BY DEF Edits, Edit
<1>6. Visible' => Visible /\ row'.version = row.version
  BY DEF Visible, Live, SamePost
<1> QED BY <1>2, <1>3, <1>4, <1>5, <1>6 DEF CurrentInv, Waiting

\* What a step of a job that adds or removes something has to keep.
LEMMA MainKeeps ==
  ASSUME Protocol, NEW j \in Main, SamePost, UNCHANGED <<service, pending, announced>>,
         causes \subseteq causes', JobsInv', NamesInv', CurrentInv',
         \A k \in Main' : k.at \in Removals \cup Clears => j.at \in Removals \cup Clears,
         announced => "unsent" \in causes' \/ Shown' # {}
  PROVE  Protocol'
<1>1. PendingInv'
  BY DEF Protocol, PendingInv, Creating, Waiting, SamePost
<1>2. AnnouncedInv'
  BY DEF Protocol, PendingInv, AnnouncedInv, Creating, Waiting, SamePost, Live
<1> QED BY <1>1, <1>2 DEF Protocol

-----------------------------------------------------------------------------
(***************************************************************************)
(* The steps of jobs.                                                      *)
(***************************************************************************)

\* A step with nothing that excuses, before or after.
Calmly ==
  /\ Typed /\ Typed' /\ Protocol
  /\ ~Excused' /\ UNCHANGED service /\ causes \subseteq causes'

LEMMA NothingShown ==
  ASSUME Shown = {}
  PROVE  remote = {}
BY DEF Shown

\* A message or a record is sent.
LEMMA SendStep ==
  ASSUME Calmly, NEW j \in Main, TgSend(j) \/ AtprotoPost(j), UNCHANGED <<pending, announced>>
  PROVE  Protocol'
<1>1. /\ JobTyped(j) /\ sent \in Nat /\ j \in jobs /\ j.post.version \in Nat
      /\ \A i, k \in Main : i = k
      /\ j.at \in {"tgSend", "atSend"} /\ UNCHANGED <<row, service>> /\ SamePost
  BY DEF Calmly, Typed, Protocol, JobsInv, JobTyped, Main, TgSend, AtprotoPost, SamePost, Post
<1>2. Kept(j) /\ Unnamed(row) /\ Shown = {} /\ remote = {}
  BY <1>1, NothingShown DEF Calmly, Protocol, JobsInv, Phase
<1>3. ASSUME NEW at \in {"tgSaveChat", "atSave"}, sent' = sent + 1, Publishes(j, sent + 1, at)
      PROVE  Protocol'
  <2>1. PICK item : item = [id |-> sent + 1, version |-> j.post.version]
    OBVIOUS
  <2>2. remote' = {item} /\ Holds(j, sent + 1, at) /\ UNCHANGED causes
    BY <1>2, <1>3, <2>1, Calm DEF Publishes, Fails, FailsFor, Works, Calmly
  <2>3. PICK k : k = [n |-> j.n, post |-> j.post, at |-> at, id |-> sent + 1]
    OBVIOUS
  <2>4. jobs' = (jobs \ {j}) \cup {k}
    BY <1>1, <2>2, <2>3, Moves
  <2>5. Main' = {k} /\ UNCHANGED Edit /\ k.at = at /\ k.id = sent + 1 /\ k.post = j.post
    BY <1>1, <1>3, <2>3, <2>4, MainBecomes
  <2>6. Shown' = {sent + 1}
    BY <2>1, <2>2 DEF Shown
  <2>7. Phase(k)'
    BY <1>1, <1>2, <1>3, <2>5, <2>6
       DEF Phase, Kept, Live, Here, Unnamed, Name, Chatless, Removals, Clears
  <2>8. JobsInv'
    BY <2>5, <2>7 DEF JobsInv
  <2>9. NamesInv'
    <3>1. \A i \in Edit : Name(i.post) = Name(i.post)'
      BY <1>1 DEF Name
    <3> QED BY <1>1, <1>3, <2>1, <2>2, <2>5, <3>1 DEF NamesInv, Calmly, Protocol
  <2>10. CurrentInv'
    <3>1. service = "telegram" => \A i \in jobs' : ~Edits(i)' /\ i.at # "tgSend"
      <4>1. service = "telegram" => \A i \in Edit : Name(i.post)' \in 0 .. sent
        BY <1>1 DEF NamesInv, Calmly, Protocol, Name
      <4> QED BY <1>1, <1>3, <2>5, <2>6, <4>1 DEF Edits, Main, Edit
    <3>2. service = "telegram" => j.at = "tgSend"
      BY <1>1, ServiceOf DEF Calmly, Steps
    <3>3. service = "telegram" /\ causes = {} /\ Visible /\ ~(Waiting("reload") /\ pending.event = "update")
          => j.post.version = row.version
      BY <1>1, <3>2 DEF Calmly, Protocol, CurrentInv
    <3> QED BY <1>1, <2>1, <2>2, <3>1, <3>3 DEF CurrentInv, Visible, Live, Waiting
  <2>11. \A i \in Main' : i.at \notin Removals \cup Clears
    BY <1>3, <2>5 DEF Removals, Clears
  <2> QED BY <1>1, <2>6, <2>8, <2>9, <2>10, <2>11, MainKeeps DEF Calmly
<1>4. CASE Ends(j) /\ FailsFor("unsent") /\ UNCHANGED <<remote, sent>>
  <2>1. Main' = {} /\ UNCHANGED <<Edit, Shown>> /\ "unsent" \in causes'
    BY <1>1, <1>4, MainEnds DEF FailsFor, Shown
  <2>2. AtRest'
    BY <1>1, <1>2, <2>1 DEF AtRest, Live, Kept, Unnamed, Name, Chatless
  <2>3. JobsInv'
    BY <2>1, <2>2 DEF JobsInv
  <2>4. NamesInv' /\ CurrentInv'
    BY <1>1, <1>4, <2>1, NamesKept, CurrentKept DEF Calmly, Protocol
  <2> QED BY <1>1, <2>1, <2>3, <2>4, MainKeeps DEF Calmly
<1> QED BY <1>3, <1>4 DEF TgSend, AtprotoPost

\* A step that changes parameters only, and is not the one that sends.
LEMMA SavedKeeps ==
  ASSUME Calmly, NEW j \in Main, SamePost, UNCHANGED <<pending, announced, remote, sent, Edit>>,
         JobsInv', j.at \notin Sends,
         \A k \in Main' : /\ k.at # "tgSend"
                          /\ k.at \in Removals \cup Clears => j.at \in Removals \cup Clears
  PROVE  Protocol'
<1>1. NamesInv' /\ CurrentInv'
  BY NamesKept, CurrentKept DEF Calmly, Protocol
<1>2. announced => "unsent" \in causes' \/ Shown' # {}
  <2>1. \A i \in Main : i = j
    BY DEF Calmly, Protocol, JobsInv
  <2> QED BY <2>1 DEF Calmly, Protocol, AnnouncedInv, Shown
<1> QED BY <1>1, <1>2, MainKeeps DEF Calmly

\* The first of the two parameters of a message is written.
LEMMA SaveChatStep ==
  ASSUME Calmly, NEW j \in Main, TgSaveChat(j), UNCHANGED <<pending, announced>>
  PROVE  Protocol'
<1>1. /\ JobTyped(j) /\ j \in jobs /\ row \in Post \cup {None} /\ j.at = "tgSaveChat"
      /\ \A i, k \in Main : i = k
      /\ UNCHANGED <<remote, sent>> /\ SaveParam(j, "telegramchat", Chat) /\ Goes(j, "tgSaveMsg")
  BY DEF Calmly, Typed, Protocol, JobsInv, Main, TgSaveChat
<1>2. service = "telegram"
  BY <1>1, ServiceOf DEF Calmly, Steps
<1>3. Kept(j) /\ Unnamed(row) /\ Shown = {j.id}
  BY <1>1 DEF Calmly, Protocol, JobsInv, Phase
<1>4. "telegramchat" \in Param /\ "telegrammsg" \in Param /\ Chat \in Nat /\ Chat # None
  BY HooksAssumption DEF Param, Chat
<1>5. /\ SamePost /\ row'.params["telegramchat"] = Chat
      /\ row'.params["telegrammsg"] = row.params["telegrammsg"]
  BY <1>1, <1>3, <1>4, SavedParam, Calm DEF Calmly, Kept, Live, Here
<1>6. PICK k : k = [n |-> j.n, post |-> j.post, at |-> "tgSaveMsg", id |-> j.id]
  OBVIOUS
<1>7. Main' = {k} /\ UNCHANGED <<Edit, Shown>>
  BY <1>1, <1>6, Moves, MainBecomes DEF Shown
<1>8. Phase(k)'
  <2>1. Name(row)' = None /\ ~Chatless(row)'
    BY <1>2, <1>3, <1>4, <1>5, NameIs DEF Calmly, Unnamed, Name, Chatless, Key
  <2> QED BY <1>3, <1>5, <1>6, <1>7, <2>1 DEF Phase, Kept, Live, Here, SamePost, Removals, Clears
<1>9. JobsInv'
  BY <1>7, <1>8 DEF JobsInv
<1> QED BY <1>1, <1>5, <1>6, <1>7, <1>9, SavedKeeps DEF Sends, Removals, Clears

\* The parameter that names the message, record or file is written.
LEMMA SaveNameStep ==
  ASSUME Calmly, NEW j \in Main, TgSaveMsg(j) \/ AtprotoSave(j) \/ SaveAudio(j),
         UNCHANGED <<pending, announced>>
  PROVE  Protocol'
<1>1. /\ JobTyped(j) /\ j \in jobs /\ row \in Post \cup {None}
      /\ j.at \in {"tgSaveMsg", "atSave", "ttsSave"} /\ j.id \in Nat
      /\ \A i, k \in Main : i = k
      /\ UNCHANGED <<remote, sent>> /\ Ends(j)
  BY DEF Calmly, Typed, Protocol, JobsInv, Main, JobTyped, Saves, TgSaveMsg, AtprotoSave, SaveAudio
<1>2. PICK param \in Param : param = Key[service] /\ SaveParam(j, param, j.id) /\ param # "telegramchat"
  <2>1. service \in {"telegram", "atproto", "tts"}
    BY HooksAssumption DEF Calmly, Typed
  <2>2. CASE TgSaveMsg(j)
    BY <1>1, <2>2, ServiceOf DEF Calmly, Steps, TgSaveMsg, Key, Param
  <2>3. CASE AtprotoSave(j)
    BY <1>1, <2>3, ServiceOf DEF Calmly, Steps, AtprotoSave, Key, Param
  <2>4. CASE SaveAudio(j)
    BY <1>1, <2>4, ServiceOf DEF Calmly, Steps, SaveAudio, Key, Param
  <2> QED BY <2>2, <2>3, <2>4
<1>3. Kept(j) /\ Shown = {j.id} /\ (service = "telegram" => ~Chatless(row))
  <2>1. Kept(j) /\ Shown = {j.id} /\ (j.at = "tgSaveMsg" => ~Chatless(row))
    BY <1>1 DEF Calmly, Protocol, JobsInv, Phase
  <2>2. service = "telegram" => j.at = "tgSaveMsg"
    BY <1>1, ServiceOf DEF Calmly, Steps
  <2> QED BY <2>1, <2>2
<1>4. "telegramchat" \in Param /\ j.id # None
  BY <1>1, HooksAssumption DEF Param
<1>5. SamePost /\ row'.params[param] = j.id /\ row'.params["telegramchat"] = row.params["telegramchat"]
  <2>1. /\ row # None /\ row.path = j.post.path /\ "failure" \notin causes'
        /\ j.id \in Nat \cup {None} /\ param # "telegramchat" /\ SaveParam(j, param, j.id)
    BY <1>1, <1>2, <1>3, Calm DEF Calmly, Kept, Live, Here
  <2>2. /\ SamePost /\ row'.params[param] = j.id
        /\ \A other \in Param \ {param} : row'.params[other] = row.params[other]
    BY <1>1, <2>1, SavedParam
  <2> QED BY <1>4, <2>1, <2>2
<1>6. Main' = {} /\ UNCHANGED <<Edit, Shown>>
  BY <1>1, MainEnds DEF Shown
<1>7. AtRest'
  <2>1. Name(row)' = j.id /\ (service = "telegram" => ~Chatless(row)')
    BY <1>2, <1>3, <1>5 DEF Calmly, Name, Chatless
  <2> QED BY <1>3, <1>4, <1>5, <1>6, <2>1 DEF AtRest, Kept, Live, SamePost, Calmly
<1>8. JobsInv'
  BY <1>6, <1>7 DEF JobsInv
<1> QED BY <1>1, <1>5, <1>6, <1>8, SavedKeeps DEF Sends

\* The message, record or file is removed.
LEMMA RemoveStep ==
  ASSUME Calmly, NEW j \in Main, TgDelete(j) \/ AtprotoDelete(j) \/ DeleteAudio(j),
         UNCHANGED <<pending, announced>>
  PROVE  Protocol'
<1>1. /\ JobTyped(j) /\ j \in jobs /\ j.at \in Removals
      /\ \A i, k \in Main : i = k /\ UNCHANGED <<row, sent>> /\ SamePost
  BY DEF Calmly, Typed, Protocol, JobsInv, Main, Removals, SamePost, TgDelete, AtprotoDelete, DeleteAudio
<1>2. Gone(j) /\ Shown = {Name(j.post)} /\ ~announced
  BY <1>1 DEF Calmly, Protocol, JobsInv, Phase, AnnouncedInv
<1>3. /\ Withdraws(Name(j.post))
      /\ \/ j.at = "tgRemove" /\ Goes(j, "tgClearChat")
         \/ j.at = "atRemove" /\ Goes(j, "atClear")
         \/ j.at = "ttsRemove" /\ Ends(j)
  <2>1. CASE TgDelete(j)
    BY <1>1, <2>1, ServiceOf, NameIs DEF TgDelete, Calmly, Steps
  <2>2. CASE AtprotoDelete(j)
    <3>1. ~Fails
      BY Calm DEF Calmly, Fails, FailsFor
    <3> QED BY <1>1, <2>2, <3>1, ServiceOf, NameIs DEF AtprotoDelete, Calmly, Steps
  <2>3. CASE DeleteAudio(j)
    BY <1>1, <2>3, ServiceOf, NameIs DEF DeleteAudio, Calmly, Steps
  <2> QED BY <2>1, <2>2, <2>3
<1>4. remote' = {} /\ Shown' = {}
  BY <1>2, <1>3, Calm DEF Withdraws, WithoutItem, Fails, FailsFor, Calmly, Shown
<1>5. ASSUME NEW at \in {"tgClearChat", "atClear"}, Goes(j, at)
      PROVE  JobsInv' /\ UNCHANGED Edit
  <2>1. PICK k : k = [n |-> j.n, post |-> j.post, at |-> at, id |-> j.id]
    OBVIOUS
  <2>2. Main' = {k} /\ UNCHANGED Edit
    BY <1>1, <1>5, <2>1, Moves, MainBecomes
  <2>3. Phase(k)'
    BY <1>1, <1>2, <1>4, <1>5, <2>1 DEF Phase, Gone, Here, Removals, Clears
  <2> QED BY <2>2, <2>3 DEF JobsInv
<1>6. CASE j.at = "ttsRemove" /\ Ends(j)
  <2>1. Main' = {} /\ UNCHANGED Edit
    BY <1>1, <1>6, MainEnds
  <2>2. service = "tts"
    BY <1>1, <1>6, ServiceOf DEF Calmly, Steps
  <2>3. AtRest'
    BY <1>1, <1>2, <1>4, <2>2 DEF AtRest, Gone, Live, Calmly
  <2>4. JobsInv'
    BY <2>1, <2>3 DEF JobsInv
  <2>5. NamesInv' /\ CurrentInv'
    BY <1>1, <1>2, <2>2 DEF NamesInv, CurrentInv, Calmly
  <2> QED BY <1>1, <1>2, <2>4, <2>5, MainKeeps DEF Calmly
<1>7. ASSUME JobsInv', UNCHANGED Edit
      PROVE  Protocol'
  <2>1. NamesInv'
    BY <1>1, <1>4, <1>7, NamesKept DEF Calmly, Protocol
  <2>2. CurrentInv'
    BY <1>1, <1>2 DEF CurrentInv, Visible, Live, Gone, Calmly
  <2> QED BY <1>1, <1>2, <1>7, <2>1, <2>2, MainKeeps DEF Calmly
<1> QED BY <1>3, <1>5, <1>6, <1>7

\* The first of the two parameters of a message is removed.
LEMMA ClearChatStep ==
  ASSUME Calmly, NEW j \in Main, TgClearChat(j), UNCHANGED <<pending, announced>>
  PROVE  Protocol'
<1>1. /\ JobTyped(j) /\ j \in jobs /\ row \in Post \cup {None} /\ j.at = "tgClearChat"
      /\ \A i, k \in Main : i = k
      /\ UNCHANGED <<remote, sent>> /\ SaveParam(j, "telegramchat", None) /\ Goes(j, "tgClearMsg")
  BY DEF Calmly, Typed, Protocol, JobsInv, Main, TgClearChat
<1>2. Gone(j) /\ Shown = {}
  BY <1>1 DEF Calmly, Protocol, JobsInv, Phase, Clears
<1>3. "telegramchat" \in Param
  BY DEF Param
<1>4. SamePost /\ (row # None => row'.params["telegramchat"] = None)
  BY <1>1, <1>2, <1>3, SavedParam, Calm DEF Calmly, Gone, Here
<1>5. PICK k : k = [n |-> j.n, post |-> j.post, at |-> "tgClearMsg", id |-> j.id]
  OBVIOUS
<1>6. Main' = {k} /\ UNCHANGED <<Edit, Shown>>
  BY <1>1, <1>5, Moves, MainBecomes DEF Shown
<1>7. Phase(k)'
  BY <1>2, <1>4, <1>5, <1>6 DEF Phase, Gone, Here, SamePost, Removals, Clears, Chatless
<1>8. JobsInv'
  BY <1>6, <1>7 DEF JobsInv
<1> QED BY <1>1, <1>4, <1>5, <1>6, <1>8, SavedKeeps DEF Sends, Removals, Clears

\* The parameter that names the message or record is removed.
LEMMA ClearNameStep ==
  ASSUME Calmly, NEW j \in Main, TgClearMsg(j) \/ AtprotoClear(j), UNCHANGED <<pending, announced>>
  PROVE  Protocol'
<1>1. /\ JobTyped(j) /\ j \in jobs /\ row \in Post \cup {None}
      /\ j.at \in {"tgClearMsg", "atClear"} /\ j.at \notin Sends
      /\ \A i, k \in Main : i = k
      /\ UNCHANGED <<remote, sent>> /\ Ends(j)
  BY DEF Calmly, Typed, Protocol, JobsInv, Main, Sends, TgClearMsg, AtprotoClear
<1>2. PICK param \in Param : param = Key[service] /\ SaveParam(j, param, None) /\ param # "telegramchat"
  <2>1. service \in {"telegram", "atproto", "tts"}
    BY HooksAssumption DEF Calmly, Typed
  <2>2. CASE TgClearMsg(j)
    BY <1>1, <2>2, ServiceOf DEF Calmly, Steps, TgClearMsg, Key, Param
  <2>3. CASE AtprotoClear(j)
    BY <1>1, <2>3, ServiceOf DEF Calmly, Steps, AtprotoClear, Key, Param
  <2> QED BY <2>2, <2>3
<1>3. Gone(j) /\ Shown = {} /\ (service = "telegram" /\ row # None => Chatless(row))
  <2>1. Gone(j) /\ Shown = {} /\ (j.at = "tgClearMsg" /\ row # None => Chatless(row))
    BY <1>1 DEF Calmly, Protocol, JobsInv, Phase, Clears
  <2>2. service = "telegram" => j.at = "tgClearMsg"
    BY <1>1, ServiceOf DEF Calmly, Steps
  <2> QED BY <2>1, <2>2
<1>4. "telegramchat" \in Param
  BY DEF Param
<1>5. /\ SamePost
      /\ row # None => /\ row'.params[param] = None
                       /\ row'.params["telegramchat"] = row.params["telegramchat"]
  <2>1. /\ row # None => row.path = j.post.path
        /\ "failure" \notin causes' /\ None \in Nat \cup {None}
        /\ param # "telegramchat" /\ SaveParam(j, param, None)
    BY <1>1, <1>2, <1>3, Calm DEF Calmly, Gone, Here
  <2>2. /\ SamePost
        /\ row # None => /\ row'.params[param] = None
                         /\ \A other \in Param \ {param} : row'.params[other] = row.params[other]
    BY <1>1, <2>1, SavedParam
  <2> QED BY <1>4, <2>1, <2>2
<1>6. Main' = {} /\ UNCHANGED <<Edit, Shown>>
  BY <1>1, MainEnds DEF Shown
<1>7. AtRest'
  <2>1. row # None => Name(row)' = None /\ (service = "telegram" => Chatless(row)')
    BY <1>2, <1>3, <1>5 DEF Calmly, Name, Chatless
  <2> QED BY <1>3, <1>5, <1>6, <2>1 DEF AtRest, Gone, Live, SamePost, Calmly
<1>8. JobsInv'
  BY <1>6, <1>7 DEF JobsInv
<1> QED BY <1>1, <1>5, <1>6, <1>8, SavedKeeps

\* An audio file is made, instead of the one the post names.
LEMMA CreateAudioStep ==
  ASSUME Calmly, NEW j \in Main, CreateAudio(j), UNCHANGED <<pending, announced>>
  PROVE  Protocol'
<1>1. /\ JobTyped(j) /\ j \in jobs /\ j.at = "ttsCreate" /\ j.post.version \in Nat
      /\ \A i, k \in Main : i = k /\ UNCHANGED <<row, sent>> /\ SamePost
  BY DEF Calmly, Typed, Protocol, JobsInv, Main, SamePost, CreateAudio, JobTyped, Post
<1>2. service = "tts"
  BY <1>1, ServiceOf DEF Calmly, Steps
<1>3. Kept(j) /\ Name(row) = Name(j.post) /\ Shown = {Name(row)} \ {None}
  BY <1>1 DEF Calmly, Protocol, JobsInv, Phase
<1>4. NamesInv' /\ CurrentInv'
  BY <1>2 DEF NamesInv, CurrentInv, Calmly
<1>5. PICK loc \in Nat : loc = j.post.version
  BY <1>1
<1>6. PICK old : old = j.post.params["tts"]
  OBVIOUS
<1>7. Name(j.post) = old
  BY <1>2, <1>6, NameIs
<1>8. PICK at : at = IF old # None /\ old # loc THEN "ttsReplace" ELSE "ttsSave"
  OBVIOUS
<1>9. CASE Publishes(j, loc, at)
  <2>1. /\ remote' = remote \cup {[id |-> loc, version |-> j.post.version]}
        /\ Holds(j, loc, at) /\ UNCHANGED causes
    BY <1>9, Calm DEF Publishes, Fails, FailsFor, Works, Calmly
  <2>2. Shown' = Shown \cup {loc}
    <3>1. PICK item : item = [id |-> loc, version |-> j.post.version]
      OBVIOUS
    <3>2. remote' = remote \cup {item} /\ item.id = loc
      BY <2>1, <3>1
    <3> QED BY <3>2 DEF Shown
  <2>3. PICK k : k = [n |-> j.n, post |-> j.post, at |-> at, id |-> loc]
    OBVIOUS
  <2>4. jobs' = (jobs \ {j}) \cup {k}
    BY <1>1, <2>1, <2>3, Moves
  <2>5. Main' = {k} /\ UNCHANGED Edit /\ k.at = at /\ k.post = j.post /\ k.id = loc
    BY <1>1, <1>8, <2>3, <2>4, MainBecomes
  <2>6. Phase(k)'
    <3>1. Kept(k)' /\ Name(row)' = Name(row) /\ Name(k.post)' = old /\ loc # None
      BY <1>1, <1>3, <1>7, <2>5, HooksAssumption DEF Kept, Live, Here, Name, Calmly
    <3>2. CASE at = "ttsReplace"
      BY <1>3, <1>7, <1>8, <2>2, <2>5, <3>1, <3>2 DEF Phase, Removals, Clears
    <3>3. CASE at = "ttsSave"
      BY <1>3, <1>7, <1>8, <2>2, <2>5, <3>1, <3>3 DEF Phase, Removals, Clears
    <3> QED BY <1>8, <3>2, <3>3
  <2>7. JobsInv'
    BY <2>5, <2>6 DEF JobsInv
  <2>8. k.at \notin Removals \cup Clears /\ Shown' # {}
    BY <1>8, <2>2, <2>5 DEF Removals, Clears
  <2> QED BY <1>1, <1>4, <2>5, <2>7, <2>8, MainKeeps DEF Calmly
<1>10. CASE Ends(j) /\ FailsFor("unsent") /\ UNCHANGED remote
  <2>1. Main' = {} /\ UNCHANGED Shown /\ "unsent" \in causes'
    BY <1>1, <1>10, MainEnds DEF FailsFor, Shown
  <2>2. AtRest'
    BY <1>1, <1>2, <1>3, <2>1 DEF AtRest, Live, Kept, Name, Calmly
  <2>3. JobsInv'
    BY <2>1, <2>2 DEF JobsInv
  <2> QED BY <1>1, <1>4, <2>1, <2>3, MainKeeps DEF Calmly
<1> QED BY <1>5, <1>6, <1>8, <1>9, <1>10 DEF CreateAudio

\* The old file is removed.
LEMMA ReplaceAudioStep ==
  ASSUME Calmly, NEW j \in Main, ReplaceAudio(j), UNCHANGED <<pending, announced>>
  PROVE  Protocol'
<1>1. /\ JobTyped(j) /\ j \in jobs /\ j.at = "ttsReplace"
      /\ \A i, k \in Main : i = k /\ UNCHANGED <<row, sent>> /\ SamePost
      /\ Withdraws(j.post.params["tts"]) /\ Goes(j, "ttsSave")
  BY DEF Calmly, Typed, Protocol, JobsInv, Main, SamePost, ReplaceAudio
<1>2. service = "tts"
  BY <1>1, ServiceOf DEF Calmly, Steps
<1>3. Kept(j) /\ Name(j.post) # j.id /\ Shown = {Name(j.post), j.id}
  BY <1>1 DEF Calmly, Protocol, JobsInv, Phase
<1>4. Name(j.post) = j.post.params["tts"]
  BY <1>2, NameIs
<1>5. NamesInv' /\ CurrentInv'
  BY <1>2 DEF NamesInv, CurrentInv, Calmly
<1>6. Shown' = {j.id}
  <2>1. remote' = {item \in remote : item.id # Name(j.post)}
    BY <1>1, <1>4, Calm DEF Withdraws, WithoutItem, Fails, FailsFor, Calmly
  <2> QED BY <1>3, <2>1 DEF Shown
<1>7. PICK k : k = [n |-> j.n, post |-> j.post, at |-> "ttsSave", id |-> j.id]
  OBVIOUS
<1>8. Main' = {k}
  BY <1>1, <1>7, Moves, MainBecomes
<1>9. Phase(k)'
  BY <1>1, <1>3, <1>6, <1>7 DEF Phase, Kept, Live, Here, Removals, Clears
<1>10. JobsInv'
  BY <1>8, <1>9 DEF JobsInv
<1>11. k.at \notin Removals \cup Clears
  BY <1>7 DEF Removals, Clears
<1> QED BY <1>1, <1>5, <1>6, <1>8, <1>10, <1>11, MainKeeps DEF Calmly

\* Of a visible post the channel has one message at most.
LEMMA OneMessage ==
  ASSUME Typed, JobsInv, NamesInv, service = "telegram", Live,
         NEW a \in remote, NEW b \in remote
  PROVE  a = b
<1>1. PICK name : Shown \subseteq {name}
  <2>1. CASE Main = {}
    BY <2>1 DEF JobsInv, AtRest
  <2>2. CASE Main # {}
    <3>1. PICK j \in Main : TRUE
      BY <2>2
    <3>2. j.at \in {"tgSend", "tgSaveChat", "tgSaveMsg", "tgRemove", "tgClearChat", "tgClearMsg"}
      BY <3>1 DEF Main, Typed, JobTyped, Steps
    <3>3. Phase(j)
      BY <3>1 DEF JobsInv
    <3> QED BY <3>2, <3>3 DEF Phase, Removals, Clears
  <2> QED BY <2>1, <2>2
<1>2. a.id \in Shown /\ b.id \in Shown
  BY DEF Shown
<1> QED BY <1>1, <1>2 DEF NamesInv

\* A message is edited.
LEMMA EditStep ==
  ASSUME Calmly, NEW j \in jobs, TgUpdate(j), UNCHANGED <<pending, announced>>
  PROVE  Protocol'
<1>1. /\ JobTyped(j) /\ j.at = "tgEdit" /\ j \in Edit /\ UNCHANGED <<row, sent>> /\ Ends(j) /\ SamePost
  BY DEF Calmly, Typed, TgUpdate, Main, Edit, SamePost
<1>2. service = "telegram"
  BY <1>1, ServiceOf DEF Calmly, Steps
<1>3. UNCHANGED Main /\ Edit' = Edit \ {j}
  BY <1>1 DEF Main, Edit, Ends
<1>4. PICK new : new = [item \in remote |-> IF item.id = Name(j.post)
                                          THEN [item EXCEPT !.version = j.post.version] ELSE item]
  OBVIOUS
<1>5. \A item \in remote :
        /\ new[item].id = item.id
        /\ item.id = Name(j.post) => new[item].version = j.post.version
        /\ item.id # Name(j.post) => new[item] = item
  BY <1>4 DEF Calmly, Typed, Item
<1>6. \/ remote' = {new[item] : item \in remote} /\ UNCHANGED causes
      \/ UNCHANGED remote /\ "unedited" \in causes'
  BY <1>2, <1>4, NameIs DEF TgUpdate, Works, FailsFor
<1>7. UNCHANGED Shown
  BY <1>5, <1>6 DEF Shown
<1>8. JobsInv'
  <2>1. ASSUME NEW k \in Main
        PROVE  Phase(k)' <=> Phase(k)
    BY <1>1, <1>7 DEF Calmly, Phase, Kept, Live, Here, Gone, Unnamed, Chatless, Name
  <2>2. AtRest' <=> AtRest
    BY <1>1, <1>7 DEF Calmly, AtRest, Live, Chatless, Name
  <2> QED BY <1>3, <2>1, <2>2 DEF Calmly, Protocol, JobsInv
<1>9. PendingInv'
  BY <1>1, <1>3 DEF Calmly, Protocol, PendingInv, Creating, Waiting, Live, Unnamed, Chatless, Name
<1>10. AnnouncedInv'
  BY <1>1, <1>3, <1>7 DEF Calmly, Protocol, AnnouncedInv, Creating, Waiting, Live
<1>11. NamesInv'
  <2>1. CASE UNCHANGED remote
    BY <1>1, <1>3, <2>1, NamesKept DEF Calmly, Protocol
  <2>2. CASE remote' = {new[item] : item \in remote}
    <3>1. \A item \in remote' : item.id <= sent'
      BY <1>1, <1>2, <1>5, <2>2 DEF Calmly, Protocol, NamesInv
    <3>2. \A i, k \in remote' : i.id = k.id => i = k
      BY <1>2, <1>5, <2>2 DEF Calmly, Protocol, NamesInv
    <3>3. \A i \in Edit' : Name(i.post)' \in 0 .. sent'
      BY <1>1, <1>2, <1>3 DEF Calmly, Protocol, NamesInv, Name
    <3> QED BY <3>1, <3>2, <3>3 DEF NamesInv
  <2> QED BY <1>6, <2>1, <2>2
<1>12. CurrentInv'
  <2>1. SUFFICES ASSUME causes' = {}, Visible', ~(Waiting("reload") /\ pending.event = "update")'
                 PROVE  /\ \A i \in jobs' : i.at = "tgSend" \/ Edits(i)' => i.post.version = row.version
                        /\ (\A item \in remote' : item.version = row.version) \/ \E i \in jobs' : Edits(i)'
    BY <1>1 DEF CurrentInv
  <2>2. causes = {} /\ Visible /\ ~(Waiting("reload") /\ pending.event = "update")
    BY <1>1, <2>1 DEF Calmly, Visible, Live, Waiting
  <2>3. /\ \A i \in jobs : i.at = "tgSend" \/ Edits(i) => i.post.version = row.version
        /\ (\A item \in remote : item.version = row.version) \/ \E i \in jobs : Edits(i)
    BY <1>2, <2>2 DEF Calmly, Protocol, CurrentInv
  <2>4. \A i : Edits(i)' <=> Edits(i) /\ i # j
    BY <1>3, <1>7 DEF Edits, Name, Calmly
  <2>5. jobs' = jobs \ {j} /\ remote' = {new[item] : item \in remote}
    BY <1>1, <1>6, <2>1 DEF Ends
  <2>6. CASE Name(j.post) \in Shown
    <3>1. j.post.version = row.version
      BY <1>1, <2>3, <2>6 DEF Edits
    <3>2. \A item \in remote : item.id = Name(j.post)
      <4>1. PICK item \in remote : item.id = Name(j.post)
        BY <2>6 DEF Shown
      <4>2. \A other \in remote : other = item
        BY <1>2, <2>2, <4>1, OneMessage DEF Calmly, Protocol, Visible
      <4> QED BY <4>1, <4>2
    <3> QED BY <1>5, <2>3, <2>4, <2>5, <3>1, <3>2
  <2>7. CASE Name(j.post) \notin Shown
    <3>1. ~Edits(j)
      BY <2>7 DEF Edits
    <3>2. \A item \in remote : new[item] = item
      BY <1>5, <2>7 DEF Shown
    <3>3. remote' = remote
      BY <2>5, <3>2
    <3> QED BY <2>3, <2>4, <2>5, <3>1, <3>3
  <2> QED BY <2>6, <2>7
<1> QED BY <1>8, <1>9, <1>10, <1>11, <1>12 DEF Protocol

\* Each step of each job.
LEMMA HooksStep ==
  ASSUME Calmly, Hooks
  PROVE  Protocol'
<1>1. PICK j \in jobs :
        /\ TelegramStep(j) \/ AtprotoStep(j) \/ SpeechStep(j)
        /\ UNCHANGED <<pending, announced>>
  BY DEF Hooks
<1>2. CASE TgUpdate(j)
  BY <1>1, <1>2, EditStep
<1>3. CASE ~TgUpdate(j)
  <2>1. j \in Main
    BY <1>1, <1>3 DEF Main, TelegramStep, AtprotoStep, SpeechStep, TgSend, TgSaveChat, TgSaveMsg,
       TgDelete, TgClearChat, TgClearMsg, AtprotoPost, AtprotoSave, AtprotoDelete, AtprotoClear,
       CreateAudio, ReplaceAudio, SaveAudio, DeleteAudio
  <2> QED BY <1>1, <1>3, <2>1, SendStep, SaveChatStep, SaveNameStep, RemoveStep, ClearChatStep,
             ClearNameStep, CreateAudioStep, ReplaceAudioStep DEF TelegramStep, AtprotoStep, SpeechStep
<1> QED BY <1>2, <1>3

-----------------------------------------------------------------------------
(***************************************************************************)
(* The requests and the jobs they start.                                   *)
(***************************************************************************)

LEMMA Started ==
  ASSUME NEW event, NEW p, RunHooks(event, p), Hook(event, p) # "none"
  PROVE  \E k : jobs' = jobs \cup {k} /\ k.post = p /\ k.at = Hook(event, p)
<1>1. PICK n : jobs' = jobs \cup {[n |-> n, post |-> p, at |-> Hook(event, p), id |-> None]}
  BY DEF RunHooks, Start
<1>2. PICK k : k = [n |-> n, post |-> p, at |-> Hook(event, p), id |-> None]
  OBVIOUS
<1>3. k.post = p /\ k.at = Hook(event, p)
  BY <1>2
<1> QED BY <1>1, <1>2, <1>3

\* A post that the service does not show is published or restored.
LEMMA StartSends ==
  ASSUME Calmly, Main = {}, Shown = {}, UNCHANGED <<remote, sent>>,
         NEW p \in Post, row' = p, ~p.deleted, Unnamed(p),
         NEW event \in {"post", "undelete"}, RunHooks(event, p)
  PROVE  /\ JobsInv' /\ NamesInv' /\ CurrentInv'
         /\ \A j \in Main' : j.at \in Sends
         /\ IsPublic(p) => Main' # {}
<1>1. service \in {"telegram", "atproto", "tts"} /\ p # None /\ remote = {} /\ Shown' = {}
  BY HooksAssumption, PostAssumption, NothingShown DEF Calmly, Typed, Shown
<1>2. IF IsPublic(p) THEN Hook(event, p) \in Sends ELSE Hook(event, p) = "none"
  BY <1>1, NameIs DEF Hook, TgHook, AtHook, TtsHook, TgPosted, Unnamed, Chatless, Sends
<1>3. Live' /\ Unnamed(row)' /\ Unnamed(p)'
  BY <1>1 DEF Calmly, Live, Unnamed, Name, Chatless
<1>4. CASE ~IsPublic(p)
  <2>1. UNCHANGED <<jobs, Main, Edit>>
    BY <1>2, <1>4 DEF RunHooks, Main, Edit
  <2>2. AtRest'
    BY <1>1, <1>3 DEF AtRest, Unnamed, Live, Calmly
  <2>3. JobsInv'
    BY <2>1, <2>2 DEF JobsInv
  <2>4. NamesInv'
    BY <2>1, NamesKept DEF Calmly, Protocol
  <2>5. CurrentInv'
    <3>1. \A j \in jobs' : j.at # "tgSend"
      BY <2>1 DEF Main
    <3> QED BY <1>1, <3>1 DEF CurrentInv, Edits
  <2> QED BY <1>4, <2>1, <2>3, <2>4, <2>5
<1>5. CASE IsPublic(p)
  <2>1. PICK k : jobs' = jobs \cup {k} /\ k.post = p /\ k.at \in Sends
    BY <1>2, <1>5, Started DEF Sends
  <2>2. Main' = {k} /\ UNCHANGED Edit
    BY <2>1, MainStarts DEF Sends
  <2>3. Phase(k)'
    BY <1>1, <1>3, <2>1 DEF Phase, Kept, Here, Unnamed, Sends, Removals, Clears
  <2>4. JobsInv'
    BY <2>2, <2>3 DEF JobsInv
  <2>5. NamesInv'
    BY <2>2, NamesKept DEF Calmly, Protocol
  <2>6. CurrentInv'
    <3>1. \A j \in jobs' : j.at = "tgSend" => j.post = row'
      BY <2>1 DEF Main
    <3> QED BY <1>1, <3>1 DEF CurrentInv, Edits
  <2> QED BY <2>1, <2>2, <2>4, <2>5, <2>6
<1> QED BY <1>4, <1>5

LEMMA CreateStep ==
  ASSUME Calmly, NEW path \in Path, NEW visibility \in Visibility, Create(path, visibility)
  PROVE  Protocol'
<1>1. /\ row = None /\ jobs = {} /\ row' # None /\ ~row'.deleted
      /\ row'.path = path /\ row'.params = NoParameters
      /\ pending'.at = "reload" /\ pending'.event = "post" /\ pending' # None /\ pending'.entry = row'
      /\ UNCHANGED <<jobs, remote, sent, announced, service>>
  <2>1. jobs = {}
    BY Calm DEF Calmly, Create, Because, If
  <2>2. row' \in Post /\ pending' \in Pending
    <3>1. requests + 1 \in Nat
      BY DEF Calmly, Typed
    <3> QED BY <3>1, CreateTyped DEF Create
  <2> QED BY <2>1, <2>2, PostAssumption, PendingAssumption DEF Create
<1>2. Main = {} /\ Main' = {} /\ Edit = {} /\ Edit' = {} /\ ~Live /\ Live'
  BY <1>1 DEF Main, Edit, Live
<1>3. Shown = {} /\ remote = {} /\ Shown' = {} /\ ~announced
  BY <1>1, <1>2, NothingShown DEF Calmly, Protocol, JobsInv, AtRest, AnnouncedInv, Shown
<1>4. Unnamed(row)'
  <2>1. Key[service] \in Param /\ "telegramchat" \in Param
    BY HooksAssumption DEF Calmly, Typed, Key, Param
  <2> QED BY <1>1, <2>1 DEF Unnamed, Name, Chatless, NoParameters, Calmly
<1>5. JobsInv'
  BY <1>2, <1>3, <1>4 DEF JobsInv, AtRest, Live, Unnamed
<1>6. PendingInv'
  BY <1>1, <1>2, <1>4 DEF PendingInv, Creating, Waiting
<1>7. AnnouncedInv' /\ NamesInv' /\ CurrentInv'
  BY <1>1, <1>2, <1>3 DEF AnnouncedInv, NamesInv, CurrentInv, Edits
<1> QED BY <1>5, <1>6, <1>7 DEF Protocol

\* Steps that change nothing but what waits.
LEMMA WaitingStep ==
  ASSUME Calmly, UNCHANGED <<row, jobs, remote, sent, announced>>, causes' = causes,
         \/ UNCHANGED pending
         \/ ~Waiting("reload") /\ pending' = None
         \/ /\ pending = None /\ pending' # None
            /\ pending'.at = "save" /\ pending'.event = "update" /\ ~pending'.entry.deleted
  PROVE  Protocol'
<1>1. UNCHANGED <<Main, Edit, Shown>>
  BY DEF Main, Edit, Shown
<1>2. JobsInv'
  <2>1. \A k \in Main : Phase(k)' <=> Phase(k)
    BY <1>1 DEF Calmly, Phase, Kept, Live, Here, Gone, Unnamed, Chatless, Name
  <2>2. AtRest' <=> AtRest
    BY <1>1 DEF Calmly, AtRest, Live, Chatless, Name
  <2> QED BY <1>1, <2>1, <2>2 DEF Calmly, Protocol, JobsInv
<1>3. PendingInv'
  BY <1>1 DEF Calmly, Protocol, PendingInv, Creating, Waiting, Live, Unnamed, Chatless, Name
<1>4. AnnouncedInv'
  BY <1>1 DEF Calmly, Protocol, AnnouncedInv, Creating, Waiting, Live
<1>5. NamesInv'
  BY <1>1, NamesKept DEF Calmly, Protocol
<1>6. CurrentInv'
  <2>1. \A k : Edits(k)' <=> Edits(k)
    BY <1>1 DEF Edits, Name, Calmly
  <2> QED BY <1>1, <2>1 DEF Calmly, Protocol, CurrentInv, Waiting, Visible, Live
<1> QED BY <1>2, <1>3, <1>4, <1>5, <1>6 DEF Protocol

LEMMA UpdateStep ==
  ASSUME Calmly, NEW path \in Path, NEW visibility \in Visibility, NEW text \in Parameters,
         Update(path, visibility, text)
  PROVE  Protocol'
<1>1. /\ row \in Post /\ ~row.deleted /\ pending = None /\ requests + 1 \in Nat
      /\ UNCHANGED <<row, jobs, remote, sent, announced, causes>>
  BY DEF Calmly, Typed, Update, hookVars
<1>2. PICK p : p = Edited(row, text, path, visibility, requests + 1)
  OBVIOUS
<1>3. p \in Post /\ ~p.deleted
  BY <1>1, <1>2, UpdateTyped
<1>4. pending' = [at |-> "save", event |-> "update", entry |-> p, old |-> row.path]
  BY <1>2 DEF Update, Edited, Merged
<1>5. pending' # None
  <2>1. pending' \in Pending
    BY <1>1, <1>3, <1>4 DEF Pending, Post
  <2> QED BY <2>1, PendingAssumption
<1> QED BY <1>1, <1>3, <1>4, <1>5, WaitingStep

\* The row gets what the update holds.
LEMMA SaveUpdateStep ==
  ASSUME Calmly, SaveUpdate
  PROVE  Protocol'
<1>1. /\ pending \in Pending /\ pending # None /\ pending.at = "save"
      /\ UNCHANGED <<jobs, remote, sent, announced, service>>
      /\ pending.event = "update" /\ ~pending.entry.deleted /\ pending.entry \in Post
  BY PendingFields DEF Calmly, Typed, SaveUpdate, Protocol, PendingInv, Waiting
<1>2. CASE row # None /\ row.path = pending.old
  <2>1. /\ row' = pending.entry /\ pending' = [pending EXCEPT !.at = "reload"]
        /\ ~row.deleted /\ row.params = row'.params
        /\ row.path = row'.path \/ jobs = {}
    BY <1>2, Calm DEF SaveUpdate, Because, If, Calmly
  <2>2. row' # None /\ ~row'.deleted /\ Live /\ Live'
    BY <1>1, <1>2, <2>1, PostAssumption DEF Live
  <2>3. /\ pending' # None /\ pending'.at = "reload" /\ pending'.event = "update"
        /\ pending'.entry = row'
    BY <1>1, <2>1, PendingFields, PendingAssumption
  <2>4. Name(row)' = Name(row) /\ (Chatless(row)' <=> Chatless(row))
    BY <1>1, <2>1 DEF Name, Chatless
  <2>5. UNCHANGED <<Main, Edit, Shown>>
    BY <1>1 DEF Main, Edit, Shown
  <2>6. JobsInv'
    <3>1. ASSUME NEW k \in Main
          PROVE  Phase(k)'
      <4>1. row'.path = row.path /\ Phase(k) /\ ~Gone(k) /\ Name(k.post)' = Name(k.post)
        BY <1>1, <2>1, <2>2 DEF Main, Calmly, Protocol, JobsInv, Gone, Live, Name
      <4>2. (Kept(k)' <=> Kept(k)) /\ (Unnamed(row)' <=> Unnamed(row))
        BY <2>2, <2>4, <4>1 DEF Kept, Here, Unnamed
      <4>3. k.at \notin Removals \cup Clears
        BY <4>1 DEF Phase
      <4> QED BY <2>4, <2>5, <4>1, <4>2, <4>3 DEF Phase, Removals, Clears
    <3>2. AtRest => AtRest'
      BY <1>1, <2>2, <2>4, <2>5 DEF AtRest, Live
    <3> QED BY <2>5, <3>1, <3>2 DEF Calmly, Protocol, JobsInv
  <2>7. PendingInv'
    BY <2>3 DEF PendingInv, Creating, Waiting
  <2>8. AnnouncedInv'
    BY <1>1, <2>2, <2>3, <2>5 DEF Calmly, Protocol, AnnouncedInv, Creating, Waiting
  <2>9. NamesInv'
    BY <1>1, <2>5, NamesKept DEF Calmly, Protocol
  <2>10. CurrentInv'
    BY <2>3 DEF CurrentInv, Waiting
  <2> QED BY <2>6, <2>7, <2>8, <2>9, <2>10 DEF Protocol
<1>3. CASE ~(row # None /\ row.path = pending.old)
  <2>1. pending' = None /\ UNCHANGED <<row, causes>> /\ ~Waiting("reload")
    BY <1>1, <1>3 DEF SaveUpdate, Waiting
  <2> QED BY <1>1, <2>1, WaitingStep
<1> QED BY <1>2, <1>3

\* The hooks of an update: a message is edited, an audio file may be missing.
LEMMA UpdateHooks ==
  ASSUME Calmly, row \in Post, Live, RunHooks("update", row), pending' = None,
         UNCHANGED <<service, row, remote, sent>>, announced' => announced,
         causes' = causes \cup If(jobs # {}, "racing"), ~Creating
  PROVE  Protocol'
<1>1. Hook("update", row) \in {"none", "tgEdit", "ttsCreate"} /\ SamePost
  BY HooksAssumption DEF Calmly, Typed, Hook, TgHook, AtHook, TtsHook, SamePost
<1>2. /\ Hook("update", row) = "tgEdit" => service = "telegram" /\ TgPosted(row)
      /\ Hook("update", row) = "ttsCreate" => service = "tts" /\ Name(row) = None
      /\ service = "telegram" /\ Hook("update", row) = "none" => ~TgPosted(row)
  BY HooksAssumption, NameIs DEF Calmly, Typed, Hook, TgHook, AtHook, TtsHook
<1>3. jobs = {} \/ "racing" \in causes'
  BY DEF If
<1>4. UNCHANGED <<Shown, Live>> /\ Name(row)' = Name(row) /\ (Chatless(row)' <=> Chatless(row))
  BY DEF Shown, Live, Name, Chatless
<1>5. PendingInv'
  BY DEF PendingInv, Creating, Waiting
<1>6. ASSUME NEW k \in Main
      PROVE  Phase(k)' /\ ~Gone(k)
  BY <1>4 DEF Calmly, Protocol, JobsInv, Phase, Kept, Live, Here, Gone, Unnamed, Chatless, Name
<1>7. AtRest => AtRest'
  BY <1>4 DEF AtRest, Calmly
<1>8. CASE Hook("update", row) = "none"
  <2>1. UNCHANGED <<jobs, Main, Edit>>
    BY <1>8 DEF RunHooks, Main, Edit
  <2>2. JobsInv'
    BY <1>6, <1>7, <2>1 DEF Calmly, Protocol, JobsInv
  <2>3. AnnouncedInv'
    BY <1>4, <2>1 DEF Calmly, Protocol, AnnouncedInv, Creating, Waiting
  <2>4. NamesInv'
    BY <2>1, NamesKept DEF Calmly, Protocol
  <2>5. CurrentInv'
    <3>1. CASE service = "telegram" /\ causes' = {}
      <4>1. jobs = {} /\ Main = {}
        BY <1>3, <3>1 DEF Main
      <4>2. Shown = {}
        <5>1. AtRest
          BY <4>1 DEF Calmly, Protocol, JobsInv
        <5>2. Name(row) = None \/ Chatless(row)
          BY <1>2, <1>8, <3>1, NameIs DEF TgPosted, Chatless
        <5> QED BY <3>1, <5>1, <5>2 DEF AtRest, Live
      <4>3. remote' = {}
        BY <4>2, NothingShown
      <4> QED BY <2>1, <4>1, <4>3 DEF CurrentInv
    <3>2. CASE ~(service = "telegram" /\ causes' = {})
      BY <3>2 DEF CurrentInv
    <3> QED BY <3>1, <3>2
  <2> QED BY <1>5, <2>2, <2>3, <2>4, <2>5 DEF Protocol
<1>9. CASE Hook("update", row) = "tgEdit"
  <2>1. service = "telegram" /\ Name(row) # None /\ ~Chatless(row)
    BY <1>2, <1>9, NameIs DEF TgPosted, Chatless
  <2>2. PICK k : jobs' = jobs \cup {k} /\ k.post = row /\ k.at = "tgEdit"
    BY <1>9, Started
  <2>3. UNCHANGED Main /\ Edit' = Edit \cup {k}
    BY <2>2 DEF Main, Edit
  <2>4. JobsInv'
    BY <1>6, <1>7, <2>3 DEF Calmly, Protocol, JobsInv
  <2>5. AnnouncedInv'
    BY <1>4, <2>3 DEF Calmly, Protocol, AnnouncedInv, Creating, Waiting
  <2>6. Shown = {Name(row)}
    <3>1. ASSUME NEW j \in Main
          PROVE  FALSE
      <4>1. Phase(j) /\ ~Gone(j)
        BY <1>6, <3>1 DEF Calmly, Protocol, JobsInv
      <4>2. j.at \in {"tgSend", "tgSaveChat", "tgSaveMsg", "tgRemove", "tgClearChat", "tgClearMsg"}
        BY <2>1 DEF Calmly, Main, Typed, JobTyped, Steps
      <4> QED BY <2>1, <4>1, <4>2 DEF Phase, Unnamed, Removals, Clears
    <3>2. AtRest
      BY <3>1 DEF Calmly, Protocol, JobsInv
    <3> QED BY <2>1, <3>2 DEF AtRest
  <2>7. NamesInv'
    <3>1. PICK item \in remote : item.id = Name(row)
      BY <2>6 DEF Shown
    <3>2. Name(row) \in 0 .. sent
      BY <2>1, <3>1 DEF Calmly, Typed, Item, Protocol, NamesInv
    <3>3. \A j \in Edit' : Name(j.post)' \in 0 .. sent'
      BY <2>1, <2>2, <2>3, <3>2 DEF Calmly, Protocol, NamesInv, Name
    <3> QED BY <3>3 DEF Calmly, Protocol, NamesInv
  <2>8. CurrentInv'
    <3>1. CASE causes' = {}
      <4>1. jobs = {} /\ jobs' = {k} /\ Edit' = {k}
        BY <1>3, <2>2, <2>3, <3>1 DEF Edit
      <4>2. Edits(k)'
        BY <1>4, <2>2, <2>6, <4>1 DEF Edits
      <4> QED BY <2>2, <4>1, <4>2 DEF CurrentInv
    <3>2. CASE causes' # {}
      BY <3>2 DEF CurrentInv
    <3> QED BY <3>1, <3>2
  <2> QED BY <1>5, <2>4, <2>5, <2>7, <2>8 DEF Protocol
<1>10. CASE Hook("update", row) = "ttsCreate"
  <2>1. service = "tts" /\ Name(row) = None /\ jobs = {} /\ Main = {}
    BY <1>2, <1>3, <1>10, Calm DEF Calmly, Main
  <2>2. PICK k : jobs' = jobs \cup {k} /\ k.post = row /\ k.at = "ttsCreate"
    BY <1>10, Started
  <2>3. Main' = {k}
    BY <2>1, <2>2, MainStarts
  <2>4. Shown = {Name(row)} \ {None}
    BY <2>1 DEF Calmly, Protocol, JobsInv, AtRest
  <2>5. Phase(k)'
    BY <1>4, <2>2, <2>4 DEF Phase, Kept, Here, Removals, Clears
  <2>6. JobsInv'
    BY <2>3, <2>5 DEF JobsInv
  <2>7. AnnouncedInv'
    BY <1>4, <2>2, <2>3 DEF Calmly, Protocol, AnnouncedInv, Creating, Waiting, Sends, Removals, Clears
  <2>8. NamesInv' /\ CurrentInv'
    BY <2>1 DEF NamesInv, CurrentInv
  <2> QED BY <1>5, <2>6, <2>7, <2>8 DEF Protocol
<1> QED BY <1>1, <1>8, <1>9, <1>10

LEMMA ReloadStep ==
  ASSUME Calmly, Reload
  PROVE  Protocol'
<1>1. /\ pending \in Pending /\ pending # None /\ pending.at = "reload"
      /\ pending.event \in {"post", "update"} /\ pending' = None
      /\ UNCHANGED <<row, remote, sent, service>>
  BY PendingFields DEF Calmly, Typed, Reload
<1>2. CASE /\ row # None /\ row.path = pending.entry.path /\ ~row.deleted
           /\ row.visibility \in {"public", "unlisted"}
  <2>1. /\ RunHooks(pending.event, row) /\ Live /\ row \in Post
        /\ causes' = causes \cup If(pending.event = "update" /\ jobs # {}, "racing")
        /\ announced' = (announced \/ (pending.event = "post" /\ IsPublic(row)))
    BY <1>2 DEF Reload, Because, Live, Calmly, Typed
  <2>2. CASE pending.event = "post"
    <3>1. Creating /\ Main = {} /\ Unnamed(row) /\ ~announced
      BY <1>1, <2>2 DEF Creating, Waiting, Calmly, Protocol, PendingInv, AnnouncedInv
    <3>2. Shown = {}
      <4>1. AtRest
        BY <3>1 DEF Calmly, Protocol, JobsInv
      <4> QED BY <2>1, <3>1, <4>1 DEF AtRest, Unnamed
    <3>3. PICK p \in Post : p = row
      BY <2>1
    <3>4. row' = p /\ ~p.deleted /\ Unnamed(p) /\ RunHooks("post", p)
      BY <1>1, <1>2, <2>1, <2>2, <3>1, <3>3
    <3>5. /\ JobsInv' /\ NamesInv' /\ CurrentInv'
          /\ \A j \in Main' : j.at \in Sends
          /\ IsPublic(p) => Main' # {}
      BY <1>1, <3>1, <3>2, <3>4, StartSends
    <3>6. PendingInv'
      BY <1>1 DEF PendingInv, Creating, Waiting
    <3>7. AnnouncedInv'
      <4>1. announced' => Main' # {}
        BY <2>1, <3>1, <3>3, <3>5
      <4>2. Live' /\ ~Creating'
        BY <1>1, <2>1 DEF Live, Creating, Waiting
      <4> QED BY <3>5, <4>1, <4>2 DEF AnnouncedInv, Sends, Removals, Clears
    <3> QED BY <3>5, <3>6, <3>7 DEF Protocol
  <2>3. CASE pending.event = "update"
    <3>1. /\ RunHooks("update", row) /\ causes' = causes \cup If(jobs # {}, "racing")
          /\ announced' => announced
          /\ ~Creating
      BY <2>1, <2>3 DEF Creating, If
    <3> QED BY <1>1, <2>1, <3>1, UpdateHooks
  <2> QED BY <1>1, <2>2, <2>3
<1>3. CASE ~(/\ row # None /\ row.path = pending.entry.path /\ ~row.deleted
             /\ row.visibility \in {"public", "unlisted"})
  <2>1. UNCHANGED <<jobs, causes, announced>> /\ Waiting("reload")
    BY <1>1, <1>3 DEF Reload, Waiting
  <2>2. UNCHANGED <<Main, Edit, Shown>>
    BY <1>1, <2>1 DEF Main, Edit, Shown
  <2>3. JobsInv'
    <3>1. \A k \in Main : Phase(k)' <=> Phase(k)
      BY <1>1, <2>2 DEF Phase, Kept, Live, Here, Gone, Unnamed, Chatless, Name
    <3>2. AtRest' <=> AtRest
      BY <1>1, <2>2 DEF AtRest, Live, Chatless, Name
    <3> QED BY <2>2, <3>1, <3>2 DEF Calmly, Protocol, JobsInv
  <2>4. PendingInv'
    BY <1>1 DEF PendingInv, Creating, Waiting
  <2>5. AnnouncedInv'
    BY <1>1, <2>1, <2>2 DEF Calmly, Protocol, AnnouncedInv, Creating, Waiting, Live
  <2>6. NamesInv'
    BY <1>1, <2>2, NamesKept DEF Calmly, Protocol
  <2>7. CurrentInv'
    <3>1. Visible => row \in Post /\ row.visibility \in {"public", "unlisted"} /\ ~row.deleted
      BY DEF Visible, Live, Calmly, Typed, Post, Visibility
    <3>2. row # None => row.path = pending.entry.path
      BY <2>1 DEF Calmly, Protocol, PendingInv
    <3>3. ~Visible
      BY <1>3, <3>1, <3>2 DEF Visible, Live
    <3> QED BY <1>1, <3>3 DEF CurrentInv, Visible, Live
  <2> QED BY <2>3, <2>4, <2>5, <2>6, <2>7 DEF Protocol
<1> QED BY <1>2, <1>3

LEMMA DeleteStep ==
  ASSUME Calmly, Delete
  PROVE  Protocol'
<1>1. /\ row \in Post /\ row # None /\ announced' = FALSE
      /\ UNCHANGED <<service, remote, sent, pending, Shown>>
  BY DEF Calmly, Typed, Delete, Shown
<1>2. AnnouncedInv'
  BY <1>1 DEF AnnouncedInv
<1>3. CASE row.deleted
  <2>1. row' = None /\ UNCHANGED <<jobs, causes, Main, Edit>> /\ ~Live /\ ~Live'
    BY <1>1, <1>3 DEF Delete, Main, Edit, Live
  <2>2. ASSUME NEW k \in Main
        PROVE  Phase(k)'
    <3>1. Phase(k) /\ ~Kept(k) /\ Gone(k)' /\ Name(k.post)' = Name(k.post)
      BY <1>1, <2>1 DEF Calmly, Protocol, JobsInv, Kept, Gone, Name
    <3> QED BY <1>1, <2>1, <3>1 DEF Phase
  <2>3. AtRest => AtRest'
    BY <1>1, <2>1 DEF AtRest
  <2>4. JobsInv'
    BY <2>1, <2>2, <2>3 DEF Calmly, Protocol, JobsInv
  <2>5. PendingInv'
    BY <1>1, <2>1 DEF Calmly, Protocol, PendingInv, Creating, Waiting
  <2>6. NamesInv'
    BY <1>1, <2>1, NamesKept DEF Calmly, Protocol
  <2>7. CurrentInv'
    BY <2>1 DEF CurrentInv, Visible
  <2> QED BY <1>2, <2>4, <2>5, <2>6, <2>7 DEF Protocol
<1>4. CASE ~row.deleted
  <2>1. /\ row' = [row EXCEPT !.deleted = TRUE] /\ RunHooks("delete", row')
        /\ ~Adding /\ Live
    BY <1>1, <1>4, Calm DEF Delete, Because, If, Calmly, Live
  <2>2. PICK p \in Post :
        /\ p = row' /\ p # None /\ p.deleted
        /\ p.path = row.path /\ p.params = row.params
    BY <1>1, <2>1, Marked
  <2>3. RunHooks("delete", p) /\ ~Live' /\ ~Creating
    BY <1>1, <2>1, <2>2 DEF Live, Adding, Creating, Waiting
  <2>4. Name(p) = Name(row) /\ (Chatless(p) <=> Chatless(row)) /\ Name(row)' = Name(p)
        /\ (Chatless(row)' <=> Chatless(p)) /\ Name(p)' = Name(p)
    BY <1>1, <2>2 DEF Name, Chatless
  <2>5. Main = {}
    <3>1. ASSUME NEW k \in Main
          PROVE  FALSE
      <4>1. Phase(k) /\ ~Gone(k) /\ k \in jobs /\ k.at # "tgEdit"
        BY <2>1 DEF Calmly, Protocol, JobsInv, Gone, Live, Main
      <4>2. k.at \in Removals \cup Clears
        BY <2>1, <4>1, HooksAssumption DEF Adding, Calmly, Typed, JobTyped, Steps, Removals, Clears
      <4> QED BY <4>1, <4>2 DEF Phase
    <3> QED BY <3>1
  <2>6. Shown = {Name(row)} \ {None} /\ (service = "telegram" => (Name(row) = None <=> Chatless(row)))
    BY <1>1, <2>1, <2>5 DEF Calmly, Protocol, JobsInv, AtRest
  <2>7. PendingInv'
    BY <1>1, <2>2, <2>3 DEF Calmly, Protocol, PendingInv, Creating, Waiting
  <2>8. CurrentInv'
    BY <2>3 DEF CurrentInv, Visible
  <2>9. IF Name(p) = None THEN Hook("delete", p) = "none" ELSE Hook("delete", p) \in Removals
    BY <2>4, <2>6, HooksAssumption, NameIs
       DEF Calmly, Typed, Hook, TgHook, AtHook, TtsHook, TgPosted, Chatless, IsPublic, Removals
  <2>10. CASE Name(p) = None
    <3>1. UNCHANGED <<jobs, Main, Edit>>
      BY <2>3, <2>9, <2>10 DEF RunHooks, Main, Edit
    <3>2. AtRest'
      BY <1>1, <2>3, <2>4, <2>6, <2>10 DEF AtRest, Calmly
    <3>3. JobsInv'
      BY <2>5, <3>1, <3>2 DEF JobsInv
    <3>4. NamesInv'
      BY <1>1, <3>1, NamesKept DEF Calmly, Protocol
    <3> QED BY <1>2, <2>7, <2>8, <3>3, <3>4 DEF Protocol
  <2>11. CASE Name(p) # None
    <3>1. PICK k : jobs' = jobs \cup {k} /\ k.post = p /\ k.at \in Removals
      BY <2>3, <2>9, <2>11, Started DEF Removals
    <3>2. Main' = {k} /\ UNCHANGED Edit
      BY <2>5, <3>1, MainStarts DEF Removals
    <3>3. Phase(k)'
      BY <1>1, <2>2, <2>4, <2>6, <2>11, <3>1 DEF Phase, Gone, Here, Removals, Clears
    <3>4. JobsInv'
      BY <3>2, <3>3 DEF JobsInv
    <3>5. NamesInv'
      BY <1>1, <3>2, NamesKept DEF Calmly, Protocol
    <3> QED BY <1>2, <2>7, <2>8, <3>4, <3>5 DEF Protocol
  <2> QED BY <2>10, <2>11
<1> QED BY <1>3, <1>4

LEMMA UndeleteStep ==
  ASSUME Calmly, Undelete
  PROVE  Protocol'
<1>1. /\ row \in Post /\ row # None /\ row.deleted /\ row.params["tts"] = None /\ ~Removing
      /\ row' = [row EXCEPT !.deleted = FALSE] /\ RunHooks("undelete", row')
      /\ announced' = IsPublic(row')
      /\ UNCHANGED <<service, remote, sent, pending>>
  BY Calm DEF Calmly, Typed, Undelete, Because, If
<1>2. PICK p \in Post :
        /\ p = row' /\ p # None /\ ~p.deleted
        /\ p.path = row.path /\ p.params = row.params
  BY <1>1, Marked
<1>3. ~Live /\ Live' /\ ~Creating
  BY <1>1, <1>2 DEF Live, Calmly, Protocol, PendingInv
<1>4. Main = {}
  <2>1. ASSUME NEW k \in Main
        PROVE  FALSE
    <3>1. Phase(k) /\ ~Kept(k) /\ k \in jobs /\ k.at # "tgEdit"
      BY <1>3 DEF Calmly, Protocol, JobsInv, Kept, Main
    <3>2. k.at \notin Removals \cup Clears
      BY <1>1, <3>1 DEF Removing, Removals, Clears
    <3>3. k.at \in {"tgSend", "tgSaveChat", "tgSaveMsg", "atSend", "atSave",
                   "ttsCreate", "ttsReplace", "ttsSave"}
      BY <3>1, <3>2, HooksAssumption DEF Calmly, Typed, JobTyped, Steps, Removals, Clears
    <3> QED BY <3>1, <3>3 DEF Phase
  <2> QED BY <2>1
<1>5. Shown = {} /\ Unnamed(row)
  <2>1. AtRest /\ service \in {"telegram", "atproto", "tts"}
    BY <1>4, HooksAssumption DEF Calmly, Protocol, JobsInv, Typed
  <2>2. Name(row) = None
    BY <1>1, <2>1, NameIs DEF AtRest
  <2>3. Chatless(row)
    BY <1>1, <2>1, <2>2, NameIs DEF AtRest
  <2> QED BY <1>3, <2>1, <2>2, <2>3 DEF AtRest, Unnamed
<1>6. Unnamed(p) /\ RunHooks("undelete", p)
  BY <1>1, <1>2, <1>5 DEF Unnamed, Name, Chatless
<1>7. /\ JobsInv' /\ NamesInv' /\ CurrentInv'
      /\ \A j \in Main' : j.at \in Sends
      /\ IsPublic(p) => Main' # {}
  <2>1. UNCHANGED <<remote, sent>> /\ row' = p
    BY <1>1, <1>2
  <2> QED BY <1>2, <1>4, <1>5, <1>6, <2>1, StartSends
<1>8. PendingInv'
  BY <1>1, <1>2, <1>3 DEF Calmly, Protocol, PendingInv, Creating, Waiting
<1>9. AnnouncedInv'
  BY <1>1, <1>2, <1>3, <1>7 DEF AnnouncedInv, Creating, Waiting, Sends, Removals, Clears
<1> QED BY <1>7, <1>8, <1>9 DEF Protocol

LEMMA SpeakStep ==
  ASSUME Calmly, Speak
  PROVE  Protocol'
<1>1. /\ row \in Post /\ row # None /\ ~row.deleted /\ service = "tts" /\ jobs = {} /\ pending = None
      /\ RunHooks("speak", row) /\ Hook("speak", row) = "ttsCreate"
      /\ UNCHANGED <<service, row, remote, pending, announced, Shown>>
  BY Calm DEF Calmly, Typed, Speak, Because, If, Hook, TtsHook, Shown
<1>2. PICK k : jobs' = jobs \cup {k} /\ k.post = row /\ k.at = "ttsCreate"
  BY <1>1, Started
<1>3. Main = {} /\ Main' = {k} /\ Live /\ Live'
  BY <1>1, <1>2 DEF Main, Live
<1>4. Shown = {Name(row)} \ {None}
  BY <1>3 DEF Calmly, Protocol, JobsInv, AtRest
<1>5. Phase(k)'
  BY <1>1, <1>2, <1>3, <1>4 DEF Phase, Kept, Here, Name, Removals, Clears
<1>6. JobsInv'
  BY <1>3, <1>5 DEF JobsInv
<1>7. PendingInv'
  BY <1>1 DEF PendingInv, Creating, Waiting
<1>8. AnnouncedInv'
  BY <1>1, <1>2, <1>3 DEF AnnouncedInv, Creating, Waiting, Sends, Removals, Clears
<1>9. NamesInv' /\ CurrentInv'
  BY <1>1 DEF NamesInv, CurrentInv
<1> QED BY <1>6, <1>7, <1>8, <1>9 DEF Protocol

\* The process may die when nothing runs; otherwise the crash excuses.
LEMMA CrashStep ==
  ASSUME Calmly, Crash
  PROVE  Protocol'
<1>1. jobs = {} /\ pending = None
  BY Calm DEF Calmly, Crash, Because, If
<1>2. UNCHANGED <<row, jobs, remote, sent, announced, pending>> /\ causes' = causes
  BY <1>1 DEF Crash, Because, If
<1> QED BY <1>2, WaitingStep

-----------------------------------------------------------------------------
(***************************************************************************)
(* The invariant and what follows from it.                                 *)
(***************************************************************************)

LEMMA Initially == Init => IInv
<1> SUFFICES ASSUME Init
             PROVE  Typed /\ Protocol
  BY DEF IInv
<1>1. Typed
  BY HooksAssumption DEF Init, HooksInit, Typed
<1>2. Main = {} /\ Edit = {} /\ Shown = {} /\ row = None /\ remote = {} /\ pending = None /\ ~announced
  BY DEF Init, HooksInit, Main, Edit, Shown
<1>3. JobsInv /\ PendingInv /\ AnnouncedInv /\ NamesInv /\ CurrentInv
  BY <1>2 DEF JobsInv, AtRest, Live, PendingInv, Creating, Waiting, AnnouncedInv, NamesInv,
     CurrentInv, Visible
<1> QED BY <1>1, <1>3 DEF Protocol

LEMMA Inductive == IInv /\ [Next]_vars => IInv'
<1> SUFFICES ASSUME IInv, [Next]_vars
             PROVE  IInv'
  OBVIOUS
<1>1. CASE UNCHANGED vars
  <2>1. UNCHANGED <<service, row, jobs, remote, sent, causes, requests, form, pending, announced>>
    BY <1>1 DEF vars, hookVars
  <2>2. Typed'
    BY <2>1, Unmoved DEF IInv, Typed
  <2>3. CASE Excused
    BY <2>1, <2>2, <2>3 DEF IInv, Excused, Harmless
  <2>4. CASE ~Excused
    <3>1. Calmly
      BY <2>1, <2>2, <2>4 DEF IInv, Calmly, Excused, Harmless
    <3>2. Protocol'
      BY <2>1, <3>1, WaitingStep
    <3> QED BY <2>2, <3>2 DEF IInv
  <2> QED BY <2>3, <2>4
<1>2. CASE Next
  <2>1. Typed' /\ UNCHANGED service /\ causes \subseteq causes'
    <3>1. CASE Hooks
      BY <3>1, JobStep DEF Hooks, IInv
    <3>2. CASE Requests \/ Crash
      BY <3>2, RequestStep DEF IInv
    <3> QED BY <1>2, <3>1, <3>2 DEF Next
  <2>2. CASE Excused'
    BY <2>1, <2>2 DEF IInv
  <2>3. CASE ~Excused'
    <3>1. Calmly
      BY <2>1, <2>3, Calm DEF IInv, Calmly
    <3>2. SUFFICES Protocol'
      BY <2>1 DEF IInv
    <3>3. CASE Requests
      <4>1. NoParameters \in Parameters /\ (form # None => form \in Parameters)
        BY DEF NoParameters, Parameters, Param, IInv, Typed
      <4>2. CASE OpenEditor
        <5>1. UNCHANGED <<row, jobs, remote, sent, announced, pending>> /\ causes' = causes
          BY <4>2 DEF OpenEditor, hookVars
        <5> QED BY <3>1, <5>1, WaitingStep
      <4>3. ASSUME NEW path \in Path, NEW visibility \in Visibility,
                   \/ Create(path, visibility) \/ Update(path, visibility, NoParameters)
                   \/ form # None /\ Update(path, visibility, form)
            PROVE  Protocol'
        <5>1. CASE Create(path, visibility)
          BY <3>1, <5>1, CreateStep
        <5>2. CASE Update(path, visibility, NoParameters)
          BY <3>1, <4>1, <5>2, UpdateStep
        <5>3. CASE form # None /\ Update(path, visibility, form)
          BY <3>1, <4>1, <5>3, UpdateStep
        <5> QED BY <4>3, <5>1, <5>2, <5>3
      <4>4. CASE SaveUpdate
        BY <3>1, <4>4, SaveUpdateStep
      <4>5. CASE Reload
        BY <3>1, <4>5, ReloadStep
      <4>6. CASE Delete
        BY <3>1, <4>6, DeleteStep
      <4>7. CASE Undelete
        BY <3>1, <4>7, UndeleteStep
      <4>8. CASE Speak
        BY <3>1, <4>8, SpeakStep
      <4> QED BY <3>3, <4>2, <4>3, <4>4, <4>5, <4>6, <4>7, <4>8 DEF Requests
    <3>4. CASE Hooks
      BY <3>1, <3>4, HooksStep
    <3>5. CASE Crash
      BY <3>1, <3>5, CrashStep
    <3> QED BY <1>2, <3>3, <3>4, <3>5 DEF Next
  <2> QED BY <2>2, <2>3
<1> QED BY <1>1, <1>2 DEF Next

LEMMA Invariant == Spec => []IInv
<1> QED BY Initially, Inductive, PTL DEF Spec

\* What the service shows once the hooks have ended.
LEMMA RestsNamed ==
  ASSUME Typed, Protocol, Quiet
  PROVE  Main = {} /\ Shown = Named
<1>1. Main = {} /\ AtRest /\ service \in {"telegram", "atproto", "tts"}
  BY HooksAssumption DEF Quiet, Main, Protocol, JobsInv, Typed
<1>2. CASE ~Live
  BY <1>1, <1>2 DEF AtRest, Named, Live
<1>3. CASE Live /\ service = "telegram"
  <2>1. IF TgPosted(row) THEN {Name(row)} \ {None} = {row.params["telegrammsg"]} ELSE {Name(row)} \ {None} = {}
    BY <1>1, <1>3, NameIs DEF AtRest, Live, TgPosted, Chatless
  <2> QED BY <1>1, <1>3, <2>1 DEF AtRest, Named, Live
<1>4. CASE Live /\ service \in {"atproto", "tts"}
  BY <1>1, <1>4, NameIs DEF AtRest, Named, Live
<1> QED BY <1>1, <1>2, <1>3, <1>4

\* However requests, hooks and crashes interleave: once the hooks have ended,
\* the service shows exactly what the live post names, and nothing of a
\* deleted or purged one, unless one of the causes is on record that excuse a
\* difference (telegram.go, atproto.go and tts.go, started by hooks.go).
THEOREM ServiceMatches == Spec => []ServiceMatchesPost
<1>1. IInv => ServiceMatchesPost
  BY RestsNamed DEF IInv, ServiceMatchesPost
<1> QED BY <1>1, Invariant, PTL

\* A post that was public when it was created or restored is on the service
\* when the hooks have ended, unless sending it failed or another cause is on
\* record.
THEOREM AnnouncedShown == Spec => []AnnouncedIsShown
<1>1. IInv => AnnouncedIsShown
  <2> SUFFICES ASSUME Typed, Protocol, Quiet, announced, "unsent" \notin causes
               PROVE  remote # {}
    BY DEF IInv, AnnouncedIsShown
  <2>1. Main = {}
    BY RestsNamed
  <2>2. Shown # {}
    BY <2>1 DEF Protocol, AnnouncedInv
  <2> QED BY <2>2 DEF Shown
<1> QED BY <1>1, Invariant, PTL

\* At no time does the channel or the repository have two messages or records
\* of the post, unless a cause is on record.
THEOREM NeverTwiceShown == Spec => []NeverTwice
<1>1. IInv => NeverTwice
  <2> SUFFICES ASSUME Typed, Protocol, service # "tts"
               PROVE  Cardinality(remote) <= 1
    BY DEF IInv, NeverTwice
  <2>1. PICK name : Shown \subseteq {name}
    <3>1. CASE Main = {}
      BY <3>1 DEF Protocol, JobsInv, AtRest
    <3>2. CASE Main # {}
      <4>1. PICK j \in Main : TRUE
        BY <3>2
      <4>2. j.at \in {"tgSend", "tgSaveChat", "tgSaveMsg", "tgRemove", "tgClearChat", "tgClearMsg",
                     "atSend", "atSave", "atRemove", "atClear"}
        BY <4>1, HooksAssumption DEF Main, Typed, JobTyped, Steps
      <4>3. Phase(j)
        BY <4>1 DEF Protocol, JobsInv
      <4> QED BY <4>2, <4>3 DEF Phase, Removals, Clears
    <3> QED BY <3>1, <3>2
  <2>2. \A a, b \in remote : a = b
    BY <2>1 DEF Shown, Protocol, NamesInv
  <2>3. CASE remote = {}
    BY <2>3, FS_EmptySet
  <2>4. CASE remote # {}
    <3>1. PICK a : remote = {a}
      BY <2>2, <2>4
    <3> QED BY <3>1, FS_Singleton
  <2> QED BY <2>3, <2>4
<1> QED BY <1>1, Invariant, PTL

\* Once the hooks have ended, the message of a visible post has the text of
\* its last update, unless any cause is on record, harmless ones included.
THEOREM MessageCurrent == Spec => []MessageIsCurrent
<1>1. IInv => MessageIsCurrent
  <2> SUFFICES ASSUME Typed, Excused \/ Protocol, Quiet, service = "telegram", causes = {},
                      row # None, ~row.deleted, row.visibility # "private"
               PROVE  \A item \in remote : item.version = row.version
    BY DEF IInv, MessageIsCurrent
  <2>1. Protocol
    BY DEF Excused
  <2>2. Visible /\ ~Waiting("reload") /\ jobs = {}
    BY DEF Visible, Live, Waiting, Quiet
  <2> QED BY <2>1, <2>2 DEF Protocol, CurrentInv
<1> QED BY <1>1, Invariant, PTL
=============================================================================
