------------------------------ MODULE Sessions ------------------------------
(***************************************************************************)
(* The table sessions and the three stores over it (sessions.go): logins   *)
(* "l", solved captchas "c" and passkey ceremonies "wa".  A handler loads  *)
(* the session its browser's cookie names, changes the values and saves    *)
(* them later; meanwhile the row may be deleted or expire.                 *)
(***************************************************************************)
EXTENDS Integers, FiniteSets

CONSTANTS
  None,
  Browsers,     \* cookie jars
  Handlers,     \* requests the server handles at the same time
  Age,          \* lifetime of a session of each kind
  MaxTime,      \* bound of the model: the clock stops here
  MaxRequests,  \* bound of the model: requests and starts of processes
  MaxFaults     \* bound of the model: refused statements and crashes

Kinds == {"l", "c", "wa"}

ASSUME SessionsAssumption ==
  /\ None \notin Nat
  /\ Age \in [Kinds -> Nat \ {0}]
  /\ MaxTime \in Nat /\ MaxRequests \in Nat /\ MaxFaults \in Nat

VARIABLES
  now,       \* the clock; a tick is ten minutes
  uuids,     \* how many random ids have been generated
  sessions,  \* table sessions
  cookie,    \* the session a browser has per kind
  op,        \* what each handler is about to do
  requests,  \* requests and starts so far
  faults,    \* faults so far
  ended      \* history: what was deleted while nobody held a copy of it

sessionVars == <<now, uuids, sessions, cookie>>
boundVars   == <<requests, faults>>

\* op: the next step, the browser, the loaded session, what was read before.
NoOp == [pc |-> "idle", browser |-> None, ses |-> None, arg |-> None]

SessionsInit ==
  /\ now = 0 /\ requests = 0 /\ faults = 0
  /\ op = [h \in Handlers |-> NoOp]

Request == requests < MaxRequests /\ requests' = requests + 1
Fault   == faults < MaxFaults /\ faults' = faults + 1

At(h, pc) == op[h].pc = pc
Goto(h, pc, ses, arg) ==
  op' = [op EXCEPT ![h] = [pc |-> pc, browser |-> @.browser, ses |-> ses, arg |-> arg]]
Respond(h) == op' = [op EXCEPT ![h] = NoOp]
Begin(h, b, pc, ses, arg) ==
  /\ Request /\ At(h, "idle")
  /\ op' = [op EXCEPT ![h] = [pc |-> pc, browser |-> b, ses |-> ses, arg |-> arg]]

Uuid == uuids + 1

-----------------------------------------------------------------------------
(***************************************************************************)
(* dbSessionStore.                                                         *)
(***************************************************************************)

\* New, load: the session of the cookie if its row has not expired.
Loaded(b, kind) == {s \in sessions : s.id = cookie[b][kind] /\ s.expires > now}
LoadedId(b, kind) ==
  IF Loaded(b, kind) = {} THEN None ELSE (CHOOSE s \in Loaded(b, kind) : TRUE).id

\* A handler loads the session of its browser; an error of the read counts as none.
Reads(b, kind) == {LoadedId(b, kind), None}
Reading(b, kind, id) == IF id = LoadedId(b, kind) THEN UNCHANGED faults ELSE Fault

\* checkLoginCookie
LoggedIn(b) == \E s \in Loaded(b, "l") : s.values.login

SetCookie(b, kind, id) == cookie' = [cookie EXCEPT ![b][kind] = id]

\* Mistake: a loaded session is saved like a new one, with insert or replace.
SaveRevives(b, kind, id, values) ==
  LET key == IF id = None THEN Uuid ELSE id IN
  /\ sessions' = {s \in sessions : s.id # key} \cup
                 {[id |-> key, kind |-> kind, values |-> values, expires |-> now + Age[kind]]}
  /\ uuids' = IF id = None THEN Uuid ELSE uuids
  /\ SetCookie(b, kind, key)
  /\ UNCHANGED now

\* Save: a new session is inserted; of a loaded one only the values are updated,
\* if its row is still there, and not the date it expires.
Save(b, kind, id, values) ==
  /\ IF id = None
     THEN /\ uuids' = Uuid
          /\ sessions' = sessions \cup
               {[id |-> Uuid, kind |-> kind, values |-> values, expires |-> now + Age[kind]]}
          /\ SetCookie(b, kind, Uuid)
     ELSE /\ sessions' = {IF s.id = id THEN [s EXCEPT !.values = values] ELSE s : s \in sessions}
          /\ SetCookie(b, kind, id)
          /\ UNCHANGED uuids
  /\ UNCHANGED now

\* Delete: the row and the cookie.
DeleteSession(b, kind, id) ==
  /\ sessions' = {s \in sessions : s.id # id}
  /\ SetCookie(b, kind, None)
  /\ UNCHANGED <<now, uuids>>

-----------------------------------------------------------------------------
\* serveLogout loads the session and deletes it.
Logout(h, b) ==
  /\ \E id \in Reads(b, "l") : Reading(b, "l", id) /\ Begin(h, b, "logout", id, None)
  /\ UNCHANGED <<sessionVars, ended>>

LogoutDelete(h) ==
  LET id == op[h].ses IN
  /\ At(h, "logout")
  /\ DeleteSession(op[h].browser, "l", id)
  /\ Respond(h)
  /\ ended' = ended \cup ({<<"session", id>>} \ {<<"session", None>>})
  /\ UNCHANGED boundVars

\* The hourly hook.
DeleteExpiredSessions ==
  /\ sessions' = {s \in sessions : s.expires >= now}
  /\ ended' = ended \cup {<<"session", id>> : id \in {s.id : s \in sessions} \ {s.id : s \in sessions'}}
  /\ UNCHANGED <<now, uuids, cookie, op, boundVars>>

\* The last steps of a login: checkLogin, finishWebAuthnLogin.
LoadLogin(h) ==
  /\ At(h, "loadlogin")
  /\ \E id \in Reads(op[h].browser, "l") : Reading(op[h].browser, "l", id) /\ Goto(h, "login", id, None)
  /\ UNCHANGED <<sessionVars, requests, ended>>

SaveLogin(h) ==
  /\ At(h, "login")
  /\ Save(op[h].browser, "l", op[h].ses, [login |-> TRUE])
  /\ Respond(h)
  /\ UNCHANGED <<boundVars, ended>>

\* A refused statement: after a logout the cookie is gone and the session is not, which
\* nobody is told; a login is not saved.
SessionFails(h) ==
  /\ Fault
  /\ \/ At(h, "logout") /\ SetCookie(op[h].browser, "l", None)
     \/ At(h, "login") /\ UNCHANGED cookie
  /\ Respond(h)
  /\ UNCHANGED <<now, uuids, sessions, requests, ended>>

Tick ==
  /\ now < MaxTime /\ now' = now + 1
  /\ UNCHANGED <<uuids, sessions, cookie, op, boundVars, ended>>

SessionStep ==
  \/ \E h \in Handlers : LogoutDelete(h) \/ LoadLogin(h) \/ SaveLogin(h) \/ SessionFails(h)
  \/ DeleteExpiredSessions
  \/ Tick

-----------------------------------------------------------------------------
(***************************************************************************)
(* The captcha before comments and contact messages (captcha.go): a        *)
(* session remembers which captcha it was given and whether one was        *)
(* solved; the captchas themselves are in the memory of the server.        *)
(***************************************************************************)
VARIABLES
  captchas,  \* the store: captchas and their digits
  page,      \* the captcha a browser shows
  calm       \* history: what the browser knows when its requests did not overlap and its
             \* session was saved: "asked" it shows a captcha, "solved" it has solved one

captchaVars == <<captchas, page, calm>>

CaptchaInit ==
  /\ captchas = {}
  /\ page = [b \in Browsers |-> None]
  /\ calm = [b \in Browsers |-> "no"]

Asking(h, b) == op[h].browser = b /\ op[h].pc \in {"ask", "show", "solved"}
Alone(h)     == \A g \in Handlers \ {h} : ~Asking(g, op[h].browser)

Settle(h, state) == calm' = [calm EXCEPT ![op[h].browser] = IF Alone(h) THEN state ELSE "no"]

CaptchaValues(b, id) ==
  IF id = None THEN [captcha |-> None, solved |-> FALSE]
  ELSE (CHOOSE s \in Loaded(b, "c") : TRUE).values
Stored(id) == {c \in captchas : c.id = id}
Shown(id) == [id |-> id, digits |-> {c.digits : c \in Stored(id)}]

-----------------------------------------------------------------------------
\* A request that needs a captcha.
Visit(h, b) ==
  /\ Begin(h, b, "ask", None, None)
  /\ calm' = [calm EXCEPT ![b] = IF @ = "solved" THEN @ ELSE "no"]
  /\ UNCHANGED <<sessionVars, faults, ended, captchas, page>>

\* captchaMiddleware: a session that has solved one passes, another one keeps its
\* captcha with new digits or gets a new one.
Ask(h) ==
  LET b == op[h].browser IN
  /\ At(h, "ask")
  /\ \E ses \in Reads(b, "c") :
       LET values == CaptchaValues(b, ses)
           kept == Stored(values.captcha) # {}
           id == IF kept THEN values.captcha ELSE Uuid
       IN
       /\ Reading(b, "c", ses)
       /\ \/ /\ values.solved /\ Respond(h)
             /\ UNCHANGED <<captchas, uuids>>
          \/ /\ ~values.solved
             /\ captchas' = (captchas \ Stored(id)) \cup {[id |-> id, digits |-> Uuid, since |-> now]}
             /\ uuids' = Uuid
             /\ Goto(h, "show", ses, [captcha |-> id, solved |-> FALSE])
  /\ UNCHANGED <<now, sessions, cookie, requests, ended, page, calm>>

\* Mistake: the session is saved only when it is new.
ShowUnsaved(h) ==
  LET b == op[h].browser IN
  /\ At(h, "show")
  /\ page' = [page EXCEPT ![b] = Shown(op[h].arg.captcha)]
  /\ \/ /\ IF op[h].ses = None
           THEN Save(b, "c", None, op[h].arg)
           ELSE UNCHANGED sessionVars
        /\ Settle(h, "asked") /\ UNCHANGED faults
     \/ /\ Fault /\ UNCHANGED sessionVars
        /\ calm' = [calm EXCEPT ![b] = "no"]
  /\ Respond(h)
  /\ UNCHANGED <<requests, ended, captchas>>

\* The session is saved and the page with the picture of the captcha shown, also when
\* the session could not be saved.
Show(h) ==
  LET b == op[h].browser IN
  /\ At(h, "show")
  /\ page' = [page EXCEPT ![b] = Shown(op[h].arg.captcha)]
  /\ \/ /\ Save(b, "c", op[h].ses, op[h].arg)
        /\ Settle(h, "asked") /\ UNCHANGED faults
     \/ /\ Fault /\ UNCHANGED sessionVars
        /\ calm' = [calm EXCEPT ![b] = "no"]
  /\ Respond(h)
  /\ UNCHANGED <<requests, ended, captchas>>

\* checkCaptcha: the digits of the page are verified against the captcha of the
\* session, which is used up.  When they are wrong the request is asked again.
Solve(h, b) ==
  /\ page[b] # None
  /\ \E ses \in Reads(b, "c") :
       LET id == CaptchaValues(b, ses).captcha
           right == \E c \in Stored(id) : page[b].digits = {c.digits}
       IN
       /\ Reading(b, "c", ses)
       /\ Begin(h, b, IF right THEN "solved" ELSE "ask", ses, [captcha |-> id, solved |-> TRUE])
       /\ captchas' = captchas \ Stored(id)
  /\ page' = [page EXCEPT ![b] = None]
  /\ calm' = [calm EXCEPT ![b] = IF @ = "solved" THEN @ ELSE "no"]
  /\ UNCHANGED <<sessionVars, ended>>

\* That it is solved is saved, or the request fails and the captcha is used up.
SaveSolved(h) ==
  /\ At(h, "solved")
  /\ \/ /\ Save(op[h].browser, "c", op[h].ses, op[h].arg)
        /\ Settle(h, "solved") /\ UNCHANGED faults
     \/ Fault /\ UNCHANGED <<sessionVars, calm>>
  /\ Respond(h)
  /\ UNCHANGED <<requests, ended, captchas, page>>

\* The store forgets captchas after ten minutes, when it has to make room.
Forget(c) ==
  /\ c.since < now
  /\ captchas' = captchas \ {c}
  /\ UNCHANGED <<sessionVars, op, boundVars, ended, page, calm>>

CaptchaStep ==
  \/ \E h \in Handlers : Ask(h) \/ Show(h) \/ SaveSolved(h)
  \/ \E c \in captchas : Forget(c)

-----------------------------------------------------------------------------
\* Of a browser whose requests do not overlap, the session has the captcha that the
\* page shows, and the session of who has solved one says so, until it expires; unless
\* the page was shown though its session could not be saved.
CaptchaHolds ==
  \A b \in Browsers : \A s \in Loaded(b, "c") :
    /\ calm[b] = "solved" => s.values.solved
    /\ calm[b] = "asked" =>
         /\ s.values.captcha = page[b].id
         /\ \A c \in Stored(page[b].id) : page[b].digits = {c.digits}
=============================================================================
