--------------------------- MODULE AccountsProofs ---------------------------
(***************************************************************************)
(* Proofs about Accounts.  Basic is what every action needs to know of the *)
(* handlers and of ids: each of them was given out before.  To it come,    *)
(* for each property, what a handler between two of its steps relies on.   *)
(***************************************************************************)
EXTENDS Accounts, FiniteSetTheorems, TLAPS

Ids == (1 .. uuids) \cup {None}

Shaped ==
  op = [h \in Handlers |-> [pc |-> op[h].pc, browser |-> op[h].browser,
                            ses |-> op[h].ses, arg |-> op[h].arg]]

Numbered ==
  \A s \in sessions :
    /\ s = [id |-> s.id, kind |-> s.kind, values |-> s.values, expires |-> s.expires]
    /\ s.id \in 1 .. uuids

Basic ==
  /\ uuids \in Nat
  /\ Shaped
  /\ Numbered
  /\ \A h \in Handlers : op[h].ses \in Ids

\* The next step of h, and nobody else's.
Turns(h, pc, ses, arg) ==
  /\ Shaped'
  /\ op'[h].pc = pc /\ op'[h].ses = ses /\ op'[h].arg = arg
  /\ \A g \in Handlers \ {h} : op'[g] = op[g]

\* Ids only grow, and a session that is new has a new one.
Fresh ==
  /\ uuids' >= uuids
  /\ \A s \in sessions' : s.id \in {r.id : r \in sessions} \/ s.id > uuids

\* Who has moved is at one of the steps pcs.
Moved(pcs) == Fresh /\ \A g \in Handlers : op'[g] = op[g] \/ op'[g].pc \in pcs

\* Steps before which nothing is known that a property depends on.
Plain == {"idle", "logout", "loadlogin", "login", "user", "loadceremony", "challenge", "name",
          "endceremony", "ask", "show", "solved"}

-----------------------------------------------------------------------------
(***************************************************************************)
(* Handlers and ids.                                                       *)
(***************************************************************************)

\* Setting the operation of a handler sets nothing else.
LEMMA Set ==
  ASSUME Shaped, NEW h \in Handlers, NEW pc, NEW b, NEW ses, NEW arg,
         op' = [op EXCEPT ![h] = [pc |-> pc, browser |-> b, ses |-> ses, arg |-> arg]]
  PROVE  Turns(h, pc, ses, arg)
<1>1. op' = [g \in Handlers |-> IF g = h THEN [pc |-> pc, browser |-> b, ses |-> ses, arg |-> arg]
                                ELSE op[g]]
  BY DEF Shaped
<1>2. Shaped'
  BY <1>1 DEF Shaped
<1> QED BY <1>1, <1>2 DEF Turns

\* Begin, Goto and Respond set the operation of one handler.
LEMMA Turning ==
  ASSUME Shaped, NEW h \in Handlers, NEW pc, NEW b, NEW ses, NEW arg
  PROVE  /\ Begin(h, b, pc, ses, arg) => Turns(h, pc, ses, arg)
         /\ Goto(h, pc, ses, arg) => Turns(h, pc, ses, arg)
         /\ Respond(h) => Turns(h, "idle", None, None)
<1>1. Begin(h, b, pc, ses, arg) => Turns(h, pc, ses, arg)
  BY Set DEF Begin
<1>2. Goto(h, pc, ses, arg) => Turns(h, pc, ses, arg)
  BY Set DEF Goto
<1>3. Respond(h) => Turns(h, "idle", None, None)
  BY Set DEF Respond, NoOp
<1> QED BY <1>1, <1>2, <1>3

\* The session of a cookie has an id that was given out.
LEMMA LoadedIds ==
  ASSUME Basic, NEW b, NEW kind
  PROVE  Reads(b, kind) \subseteq Ids
BY DEF Reads, LoadedId, Loaded, Basic, Numbered, Ids

\* Save gives at most one new id out and revives no row.
LEMMA Saving ==
  ASSUME Basic, NEW b, NEW kind, NEW id, NEW values, Save(b, kind, id, values)
  PROVE  uuids' \in Nat /\ Fresh /\ Numbered'
<1>1. CASE id = None
  BY <1>1 DEF Save, Basic, Numbered, Uuid, Fresh
<1>2. CASE id # None
  <2>1. \A s \in sessions' : \E r \in sessions : s = r \/ s = [r EXCEPT !.values = values]
    BY <1>2 DEF Save
  <2>2. \A r \in sessions :
          [r EXCEPT !.values = values]
            = [id |-> r.id, kind |-> r.kind, values |-> values, expires |-> r.expires]
    BY DEF Basic, Numbered
  <2>3. uuids' = uuids
    BY <1>2 DEF Save
  <2> QED BY <2>1, <2>2, <2>3 DEF Basic, Numbered, Fresh
<1> QED BY <1>1, <1>2

LEMMA Deleting ==
  ASSUME Basic, NEW b, NEW kind, NEW id, DeleteSession(b, kind, id)
  PROVE  /\ uuids' = uuids
         /\ Fresh /\ Numbered'
         /\ \A s \in sessions' : s \in sessions /\ s.id # id
BY DEF DeleteSession, Basic, Numbered, Fresh

\* What is left to show of a step: ids only grow, and the session of whoever moved.
LEMMA BasicStep ==
  ASSUME Basic, uuids' \in Nat, Fresh, Shaped', Numbered',
         \A h \in Handlers : op'[h] = op[h] \/ op'[h].ses \in Ids \cup Ids'
  PROVE  Basic'
<1>1. Ids \subseteq Ids'
  BY DEF Ids, Basic, Fresh
<1> QED BY <1>1 DEF Basic, Ids

\* Going to a step with an id that was given out, or responding.
LEMMA BasicGo ==
  ASSUME Basic, uuids' \in Nat, Fresh, Numbered',
         NEW h \in Handlers, NEW pc, NEW b, NEW ses \in Ids, NEW arg,
         Begin(h, b, pc, ses, arg) \/ Goto(h, pc, ses, arg)
  PROVE  Basic' /\ Moved({pc})
<1>1. Turns(h, pc, ses, arg)
  BY Turning DEF Basic
<1>2. Basic'
  BY <1>1, BasicStep DEF Turns
<1> QED BY <1>1, <1>2 DEF Turns, Moved

LEMMA BasicRespond ==
  ASSUME Basic, uuids' \in Nat, Fresh, Numbered', NEW h \in Handlers, Respond(h)
  PROVE  Basic' /\ Moved({"idle"})
<1>1. Turns(h, "idle", None, None) /\ None \in Ids
  BY Turning DEF Basic, Ids
<1>2. Basic'
  BY <1>1, BasicStep DEF Turns
<1> QED BY <1>1, <1>2 DEF Turns, Moved

\* The table of sessions is not touched.
LEMMA SameSessions ==
  ASSUME Basic, UNCHANGED sessions, uuids' \in {uuids, Uuid}
  PROVE  uuids' \in Nat /\ Fresh /\ Numbered'
BY DEF Basic, Numbered, Uuid, Fresh

LEMMA BasicQuiet ==
  ASSUME Basic, UNCHANGED <<sessions, op>>, uuids' \in {uuids, Uuid}
  PROVE  Basic' /\ Moved({})
<1>1. Shaped'
  BY DEF Basic, Shaped
<1> QED BY <1>1, SameSessions, BasicStep DEF Moved

-----------------------------------------------------------------------------
(***************************************************************************)
(* Every action keeps Basic, and most lead to plain steps.                 *)
(***************************************************************************)

LEMMA SessionMoves ==
  ASSUME Basic, NEW h \in Handlers,
         \/ LogoutDelete(h) \/ LoadLogin(h) \/ SaveLogin(h) \/ SessionFails(h)
         \/ \E b \in Browsers : Logout(h, b)
  PROVE  Basic' /\ Moved(Plain)
<1> USE DEF sessionVars
<1>1. ASSUME NEW b \in Browsers, Logout(h, b)
      PROVE  Basic' /\ Moved(Plain)
  <2>1. PICK id \in Ids : Begin(h, b, "logout", id, None)
    BY <1>1, LoadedIds DEF Logout
  <2>2. Basic' /\ Moved({"logout"})
    BY <1>1, <2>1, BasicGo, SameSessions DEF Logout
  <2> QED BY <2>2 DEF Moved, Plain
<1>2. CASE LogoutDelete(h)
  <2>1. uuids' \in Nat /\ Fresh /\ Numbered'
    BY <1>2, Deleting DEF LogoutDelete, Basic
  <2>2. Basic' /\ Moved({"idle"})
    BY <1>2, <2>1, BasicRespond DEF LogoutDelete
  <2> QED BY <2>2 DEF Moved, Plain
<1>3. CASE SaveLogin(h)
  <2>1. uuids' \in Nat /\ Fresh /\ Numbered'
    BY <1>3, Saving DEF SaveLogin
  <2>2. Basic' /\ Moved({"idle"})
    BY <1>3, <2>1, BasicRespond DEF SaveLogin
  <2> QED BY <2>2 DEF Moved, Plain
<1>4. CASE LoadLogin(h)
  <2>1. PICK id \in Ids : Goto(h, "login", id, None)
    BY <1>4, LoadedIds DEF LoadLogin
  <2>2. Basic' /\ Moved({"login"})
    BY <1>4, <2>1, BasicGo, SameSessions DEF LoadLogin
  <2> QED BY <2>2 DEF Moved, Plain
<1>5. CASE SessionFails(h)
  <2>1. Basic' /\ Moved({"idle"})
    BY <1>5, BasicRespond, SameSessions DEF SessionFails
  <2> QED BY <2>1 DEF Moved, Plain
<1> QED BY <1>1, <1>2, <1>3, <1>4, <1>5

\* Steps of no request.
LEMMA ClockMoves ==
  ASSUME Basic, DeleteExpiredSessions \/ Tick \/ \E c \in captchas : Forget(c)
  PROVE  Basic' /\ Moved(Plain)
<1> USE DEF sessionVars
<1>1. CASE DeleteExpiredSessions
  <2>1. Shaped' /\ Numbered' /\ Fresh
    BY <1>1 DEF DeleteExpiredSessions, Basic, Shaped, Numbered, Fresh
  <2> QED BY <1>1, <2>1, BasicStep DEF DeleteExpiredSessions, Basic, Moved
<1>2. CASE Tick
  BY <1>2, BasicQuiet DEF Tick, Basic, Moved
<1>3. CASE \E c \in captchas : Forget(c)
  BY <1>3, BasicQuiet DEF Forget, Basic, Moved
<1> QED BY <1>1, <1>2, <1>3

LEMMA CaptchaMoves ==
  ASSUME Basic, NEW h \in Handlers,
         \/ Ask(h) \/ Show(h) \/ SaveSolved(h)
         \/ \E b \in Browsers : Visit(h, b) \/ Solve(h, b)
  PROVE  Basic' /\ Moved(Plain)
<1> USE DEF sessionVars
<1>1. None \in Ids /\ \A b : Reads(b, "c") \subseteq Ids
  BY LoadedIds DEF Ids
<1>2. ASSUME NEW b \in Browsers, Visit(h, b)
      PROVE  Basic' /\ Moved(Plain)
  <2>1. Basic' /\ Moved({"ask"})
    BY <1>1, <1>2, BasicGo, SameSessions DEF Visit
  <2> QED BY <2>1 DEF Moved, Plain
<1>3. ASSUME NEW b \in Browsers, Solve(h, b)
      PROVE  Basic' /\ Moved(Plain)
  <2>1. PICK pc, ses, arg : pc \in {"ask", "solved"} /\ ses \in Ids /\ Begin(h, b, pc, ses, arg)
    BY <1>1, <1>3 DEF Solve
  <2>2. Basic' /\ Moved({pc})
    BY <1>1, <1>3, <2>1, BasicGo, SameSessions DEF Solve
  <2> QED BY <2>1, <2>2 DEF Moved, Plain
<1>4. CASE Ask(h)
  <2>1. uuids' \in Nat /\ Fresh /\ Numbered'
    BY <1>4, SameSessions DEF Ask
  <2>2. CASE Respond(h)
    BY <2>1, <2>2, BasicRespond DEF Moved, Plain
  <2>3. CASE ~Respond(h)
    <3>1. PICK ses, arg : ses \in Ids /\ Goto(h, "show", ses, arg)
      BY <1>1, <1>4, <2>3 DEF Ask
    <3>2. Basic' /\ Moved({"show"})
      BY <1>1, <2>1, <3>1, BasicGo
    <3> QED BY <3>2 DEF Moved, Plain
  <2> QED BY <2>2, <2>3
<1>5. CASE Show(h) \/ SaveSolved(h)
  <2>1. uuids' \in Nat /\ Fresh /\ Numbered' /\ Respond(h)
    BY <1>5, Saving, SameSessions DEF Show, SaveSolved
  <2>2. Basic' /\ Moved({"idle"})
    BY <2>1, BasicRespond
  <2> QED BY <2>2 DEF Moved, Plain
<1> QED BY <1>2, <1>3, <1>4, <1>5

LEMMA CeremonyMoves ==
  ASSUME Basic, NEW h \in Handlers,
         \/ UserId(h) \/ LoadCeremony(h) \/ Challenge(h) \/ SavePasskey(h) \/ EndCeremony(h)
         \/ CeremonyFails(h) \/ ClearPassword(h)
         \/ \E b \in Browsers : LoginWithPassword(h, b) \/ FinishCeremonyAnew(h, b)
         \/ \E b \in Browsers, ceremony \in {"register", "login"} : BeginCeremony(h, b, ceremony)
  PROVE  Basic' /\ Moved(Plain)
<1> USE DEF sessionVars
<1>1. /\ None \in Ids /\ op[h].ses \in Ids
      /\ \A b, kind : Reads(b, kind) \subseteq Ids
  BY LoadedIds DEF Ids, Basic
<1>2. ASSUME NEW b \in Browsers, LoginWithPassword(h, b)
      PROVE  Basic' /\ Moved(Plain)
  <2>1. Basic' /\ Moved({"loadlogin"})
    BY <1>1, <1>2, BasicGo, SameSessions DEF LoginWithPassword
  <2> QED BY <2>1 DEF Moved, Plain
<1>3. ASSUME NEW b \in Browsers, NEW ceremony, BeginCeremony(h, b, ceremony)
      PROVE  Basic' /\ Moved(Plain)
  <2>1. PICK arg : Begin(h, b, "user", None, arg)
    BY <1>3 DEF BeginCeremony
  <2>2. Basic' /\ Moved({"user"})
    BY <1>1, <1>3, <2>1, BasicGo, SameSessions DEF BeginCeremony
  <2> QED BY <2>2 DEF Moved, Plain
<1>4. CASE UserId(h)
  <2>1. PICK arg : Goto(h, "loadceremony", None, arg)
    BY <1>4 DEF UserId
  <2>2. uuids' \in Nat /\ Fresh /\ Numbered'
    BY <1>4, SameSessions DEF UserId
  <2>3. Basic' /\ Moved({"loadceremony"})
    BY <1>1, <2>1, <2>2, BasicGo
  <2> QED BY <2>3 DEF Moved, Plain
<1>5. CASE Challenge(h)
  <2>1. uuids' \in Nat /\ Fresh /\ Numbered' /\ Respond(h)
    BY <1>5, Saving, SameSessions DEF Challenge
  <2>2. Basic' /\ Moved({"idle"})
    BY <2>1, BasicRespond
  <2> QED BY <2>2 DEF Moved, Plain
<1>6. CASE SavePasskey(h)
  <2>1. Basic' /\ Moved({"endceremony"})
    BY <1>1, <1>6, BasicGo, SameSessions DEF SavePasskey
  <2> QED BY <2>1 DEF Moved, Plain
<1>9. ASSUME uuids' \in Nat, Fresh, Numbered', LoginNext(h)
      PROVE  Basic' /\ Moved(Plain)
  <2>1. CASE Respond(h)
    <3>1. Basic' /\ Moved({"idle"})
      BY <1>9, <2>1, BasicRespond
    <3> QED BY <3>1 DEF Moved, Plain
  <2>2. CASE Goto(h, "loadlogin", None, None)
    <3>1. Basic' /\ Moved({"loadlogin"})
      BY <1>1, <1>9, <2>2, BasicGo
    <3> QED BY <3>1 DEF Moved, Plain
  <2> QED BY <1>9, <2>1, <2>2 DEF LoginNext
<1>7. CASE EndCeremony(h)
  <2>1. uuids' \in Nat /\ Fresh /\ Numbered'
    BY <1>7, Deleting DEF EndCeremony, Basic
  <2> QED BY <1>7, <1>9, <2>1 DEF EndCeremony
<1>8. CASE ClearPassword(h)
  <2>1. Basic' /\ Moved({"idle"})
    BY <1>8, BasicRespond, SameSessions DEF ClearPassword
  <2> QED BY <2>1 DEF Moved, Plain
<1>10. CASE LoadCeremony(h)
  <2>1. PICK id, arg : id \in Ids /\ Goto(h, "challenge", id, arg)
    BY <1>1, <1>10 DEF LoadCeremony
  <2>2. Basic' /\ Moved({"challenge"})
    BY <1>10, <2>1, BasicGo, SameSessions DEF LoadCeremony
  <2> QED BY <2>2 DEF Moved, Plain
<1>11. CASE CeremonyFails(h)
  <2>1. uuids' \in Nat /\ Fresh /\ Numbered'
    BY <1>11, SameSessions DEF CeremonyFails
  <2>2. CASE Goto(h, "endceremony", op[h].ses, op[h].arg)
    <3>1. Basic' /\ Moved({"endceremony"})
      BY <1>1, <2>1, <2>2, BasicGo
    <3> QED BY <3>1 DEF Moved, Plain
  <2>3. CASE Respond(h)
    <3>1. Basic' /\ Moved({"idle"})
      BY <2>1, <2>3, BasicRespond
    <3> QED BY <3>1 DEF Moved, Plain
  <2> QED BY <1>9, <1>11, <2>1, <2>2, <2>3 DEF CeremonyFails
<1>12. ASSUME NEW b \in Browsers, FinishCeremonyAnew(h, b)
      PROVE  Basic' /\ Moved(Plain)
  BY <1>12, BasicQuiet DEF FinishCeremonyAnew, Moved
<1> QED BY <1>2, <1>3, <1>4, <1>5, <1>6, <1>7, <1>8, <1>10, <1>11, <1>12

\* The steps that are not plain, and how they are reached.
LEMMA FinishMoves ==
  ASSUME Basic, NEW h \in Handlers, NEW b \in Browsers, NEW k \in Passkeys, FinishCeremony(h, b, k)
  PROVE  Basic' /\ Moved(Plain \cup {"savekey"})
<1>1. PICK s, pc, arg : s \in Loaded(b, "wa") /\ pc \in {"savekey", "name"} /\ Begin(h, b, pc, s.id, arg)
  BY DEF FinishCeremony
<1>2. s.id \in Ids
  BY <1>1 DEF Loaded, Basic, Numbered, Ids
<1>3. Basic' /\ Moved({pc})
  BY <1>1, <1>2, BasicGo, SameSessions DEF FinishCeremony, sessionVars
<1> QED BY <1>1, <1>3 DEF Moved, Plain

LEMMA NameMoves ==
  ASSUME Basic, NEW h \in Handlers, PasskeyName(h)
  PROVE  Basic' /\ Moved(Plain \cup {"savekey"})
<1>1. PICK pc, arg : pc \in {"savekey", "endceremony"} /\ Goto(h, pc, op[h].ses, arg)
  BY DEF PasskeyName
<1>2. op[h].ses \in Ids
  BY DEF Basic
<1>3. Basic' /\ Moved({pc})
  BY <1>1, <1>2, BasicGo, SameSessions DEF PasskeyName, sessionVars
<1> QED BY <1>1, <1>3 DEF Moved, Plain

LEMMA PasswordMoves ==
  ASSUME Basic, NEW h \in Handlers, NEW b \in Browsers, DeletePassword(h, b)
  PROVE  Basic' /\ Moved(Plain \cup {"nopassword"})
<1>1. None \in Ids
  BY DEF Ids
<1>2. Basic' /\ Moved({"nopassword"})
  BY <1>1, BasicGo, SameSessions DEF DeletePassword, sessionVars
<1> QED BY <1>2 DEF Moved, Plain

\* Changes that are one step.
LEMMA AdministerMoves ==
  ASSUME Basic, NEW h \in Handlers, NEW b \in Browsers,
         \/ UpdatePassword(h, b) \/ SetupTotp(h, b) \/ DeleteTotp(h, b) \/ CreateAppPassword(h, b)
         \/ \E k \in Passkeys : DeletePasskey(h, b, k) \/ RenamePasskey(h, b, k)
         \/ \E row \in appRows : DeleteAppPassword(h, b, row)
  PROVE  Basic' /\ Moved(Plain)
<1>1. UNCHANGED <<sessions, op>> /\ uuids' \in {uuids, Uuid}
  BY DEF UpdatePassword, SetupTotp, DeleteTotp, CreateAppPassword, DeletePasskey, RenamePasskey,
         DeleteAppPassword, Administer, sessionVars
<1>2. Basic' /\ Moved({})
  BY <1>1, BasicQuiet
<1> QED BY <1>2 DEF Moved

LEMMA MigrationMoves ==
  ASSUME Basic, MigrationStep
  PROVE  Basic' /\ Moved(Plain)
<1>1. UNCHANGED <<sessions, op>> /\ uuids' \in {uuids, Uuid}
  BY DEF MigrationStep, Start, StartUnread, MigratePassword, MigrateTotp, MigrateApp, MigrateLegacy,
         MigrateLegacyUnread, SetAuthMigrated, MigrationFails, Setup, Exit, sessionVars
<1>2. Basic' /\ Moved({})
  BY <1>1, BasicQuiet
<1> QED BY <1>2 DEF Moved

LEMMA KilledMoves ==
  ASSUME Basic, NEW p \in Procs, Killed(p)
  PROVE  Basic' /\ Moved(Plain)
<1>1. uuids' \in Nat /\ Fresh /\ Numbered'
  BY SameSessions DEF Killed, sessionVars
<1>2. CASE op' = op
  BY <1>1, <1>2, BasicQuiet DEF Killed, sessionVars, Moved
<1>3. CASE op' = [h \in Handlers |-> NoOp]
  <2>1. Shaped'
    BY <1>3 DEF Shaped, NoOp
  <2>2. Basic'
    BY <1>1, <1>3, <2>1, BasicStep DEF NoOp, Ids
  <2> QED BY <1>1, <1>3, <2>2 DEF Moved, Plain, NoOp
<1> QED BY <1>2, <1>3 DEF Killed

LEMMA CodeMoves ==
  ASSUME Basic, NEW h \in Handlers,
         \/ \E c \in Registered : RegisterClient(c)
         \/ \E b \in Browsers, c \in Registered \cup Sites, scope \in Scopes, pkce \in BOOLEAN :
              Authorize(b, c, scope, pkce)
         \/ \E t \in tokens : Revoke(t)
         \/ InsertToken(h)
  PROVE  Basic' /\ Moved(Plain)
<1> USE DEF sessionVars
<1>1. CASE InsertToken(h)
  <2>1. uuids' \in {uuids, Uuid} /\ UNCHANGED sessions /\ Respond(h)
    BY <1>1 DEF InsertToken
  <2>2. Basic' /\ Moved({"idle"})
    BY <2>1, BasicRespond, SameSessions
  <2> QED BY <2>2 DEF Moved, Plain
<1>2. CASE ~InsertToken(h)
  <2>1. UNCHANGED <<sessions, op>> /\ uuids' \in {uuids, Uuid}
    BY <1>2 DEF RegisterClient, Authorize, Revoke
  <2>2. Basic' /\ Moved({})
    BY <2>1, BasicQuiet
  <2> QED BY <2>2 DEF Moved
<1> QED BY <1>1, <1>2

LEMMA ExchangeMoves ==
  ASSUME Basic, NEW h \in Handlers,
         \/ DropCode(h)
         \/ \E c \in Registered \cup Sites, row \in codes, verified \in BOOLEAN : ReadCode(h, c, row, verified)
  PROVE  Basic' /\ Moved(Plain \cup {"code", "token"})
<1> USE DEF sessionVars
<1>1. None \in Ids
  BY DEF Ids
<1>2. CASE DropCode(h)
  <2>1. uuids' = uuids /\ UNCHANGED sessions
    BY <1>2 DEF DropCode
  <2>2. CASE Respond(h)
    BY <2>1, <2>2, BasicRespond, SameSessions DEF Moved, Plain
  <2>3. CASE Goto(h, "token", None, op[h].arg)
    <3>1. Basic' /\ Moved({"token"})
      BY <1>1, <2>1, <2>3, BasicGo, SameSessions
    <3> QED BY <3>1 DEF Moved
  <2> QED BY <1>2, <2>2, <2>3 DEF DropCode
<1>3. CASE \E c \in Registered \cup Sites, row \in codes, verified \in BOOLEAN : ReadCode(h, c, row, verified)
  <2>1. PICK arg : Begin(h, None, "code", None, arg)
    BY <1>3 DEF ReadCode
  <2>2. Basic' /\ Moved({"code"})
    BY <1>1, <1>3, <2>1, BasicGo, SameSessions DEF ReadCode
  <2> QED BY <2>2 DEF Moved
<1> QED BY <1>2, <1>3

-----------------------------------------------------------------------------
(***************************************************************************)
(* A token comes of one code the owner gave out.                           *)
(***************************************************************************)

Approved(row) == [code |-> row.code, client |-> row.client, scope |-> row.scope] \in approvals

Exchanging(h, pcs) == op[h].pc \in pcs
CodeOf(h) == op[h].arg.row.code

\* The code x is not there any more, and nobody but me exchanges it.
OnlyMine(x, others) ==
  /\ \A r \in codes : r.code # x
  /\ \A g \in others : Exchanging(g, {"code", "token"}) => CodeOf(g) # x

CodesInv ==
  /\ \A r \in codes : r.code \in 1 .. uuids /\ Approved(r)
  /\ \A h \in Handlers :
       Exchanging(h, {"code", "token"}) => CodeOf(h) \in 1 .. uuids /\ Approved(op[h].arg.row)
  /\ \A h \in Handlers :
       Exchanging(h, {"token"}) =>
         /\ op[h].arg.client = op[h].arg.row.client
         /\ CodeOf(h) \in twice \/ (OnlyMine(CodeOf(h), Handlers \ {h}) /\ \A t \in tokens : t.code # CodeOf(h))
  /\ \A t \in tokens :
       /\ t.code \in 1 .. uuids
       /\ [code |-> t.code, client |-> t.client, scope |-> t.scope] \in approvals
       /\ t.code \in twice \/ (OnlyMine(t.code, Handlers) /\ \A u \in tokens \ {t} : u.code # t.code)

LEMMA CodesKept ==
  ASSUME Basic, Basic', CodesInv, UNCHANGED codeVars, Moved(Plain \cup {"savekey", "nopassword"})
  PROVE  CodesInv'
<1>1. 1 .. uuids \subseteq 1 .. uuids'
  BY DEF Basic, Moved, Fresh
<1>2. \A h \in Handlers : Exchanging(h, {"code", "token"})' => op'[h] = op[h]
  BY DEF Moved, Plain, Exchanging
<1>3. \A x : \A S \in SUBSET Handlers : OnlyMine(x, S) => OnlyMine(x, S)'
  BY <1>2 DEF OnlyMine, Exchanging, CodeOf, codeVars
<1>4. \A h \in Handlers : Exchanging(h, {"token"})' => op'[h] = op[h]
  BY DEF Moved, Plain, Exchanging
<1>5. \A r \in codes' : r.code \in 1 .. uuids' /\ Approved(r)'
  BY <1>1 DEF CodesInv, Approved, codeVars
<1>6. \A h \in Handlers :
        Exchanging(h, {"code", "token"})' => CodeOf(h)' \in 1 .. uuids' /\ Approved(op[h].arg.row)'
  BY <1>1, <1>2 DEF CodesInv, Exchanging, CodeOf, Approved, codeVars
<1>7. ASSUME NEW h \in Handlers, Exchanging(h, {"token"})'
      PROVE  /\ op'[h].arg.client = op'[h].arg.row.client
             /\ \/ CodeOf(h)' \in twice'
                \/ OnlyMine(CodeOf(h), Handlers \ {h})' /\ \A t \in tokens' : t.code # CodeOf(h)'
  <2>1. op'[h] = op[h] /\ Exchanging(h, {"token"}) /\ CodeOf(h)' = CodeOf(h)
    BY <1>4, <1>7 DEF Exchanging, CodeOf
  <2>2. /\ op[h].arg.client = op[h].arg.row.client
        /\ CodeOf(h) \in twice \/ (OnlyMine(CodeOf(h), Handlers \ {h}) /\ \A t \in tokens : t.code # CodeOf(h))
    BY <2>1 DEF CodesInv
  <2>3. OnlyMine(CodeOf(h), Handlers \ {h}) => OnlyMine(CodeOf(h), Handlers \ {h})'
    BY <1>2, <2>1 DEF OnlyMine, Exchanging, CodeOf, codeVars
  <2> QED BY <2>1, <2>2, <2>3 DEF codeVars
<1>8. ASSUME NEW t \in tokens
      PROVE  /\ t.code \in 1 .. uuids'
             /\ [code |-> t.code, client |-> t.client, scope |-> t.scope] \in approvals'
             /\ t.code \in twice' \/ (OnlyMine(t.code, Handlers)' /\ \A u \in tokens' \ {t} : u.code # t.code)
  BY <1>1, <1>3 DEF CodesInv, codeVars
<1> QED BY <1>5, <1>6, <1>7, <1>8 DEF CodesInv, codeVars

\* A new code is none of those that were given out before.
LEMMA CodesAuthorize ==
  ASSUME Basic, CodesInv, NEW b, NEW c, NEW scope, NEW pkce, Authorize(b, c, scope, pkce)
  PROVE  CodesInv'
<1> DEFINE new == [code |-> Uuid, client |-> c, scope |-> scope, pkce |-> pkce, since |-> now]
<1>1. /\ uuids \in Nat /\ uuids' = uuids + 1
      /\ codes' = codes \cup {new} /\ new.code = uuids + 1
      /\ approvals \subseteq approvals'
      /\ [code |-> new.code, client |-> new.client, scope |-> new.scope] \in approvals'
      /\ UNCHANGED <<op, tokens, twice>>
  <2>1. uuids \in Nat /\ uuids' = uuids + 1 /\ new.code = uuids + 1
    BY DEF Authorize, Uuid, Basic
  <2>2. codes' = codes \cup {new} /\ UNCHANGED <<op, tokens, twice>>
    BY DEF Authorize
  <2>3. approvals \subseteq approvals' /\ [code |-> Uuid, client |-> c, scope |-> scope] \in approvals'
    BY DEF Authorize
  <2> QED BY <2>1, <2>2, <2>3
<1>2. 1 .. uuids \subseteq 1 .. uuids' /\ uuids + 1 \in 1 .. uuids' /\ uuids + 1 \notin 1 .. uuids
  BY <1>1
<1> HIDE DEF new
<1>3. \A x \in 1 .. uuids : \A S \in SUBSET Handlers : OnlyMine(x, S) => OnlyMine(x, S)'
  BY <1>1, <1>2 DEF OnlyMine, Exchanging, CodeOf
<1>4. \A r \in codes' : r.code \in 1 .. uuids' /\ Approved(r)'
  <2>1. \A r \in codes : r.code \in 1 .. uuids /\ Approved(r)
    BY DEF CodesInv
  <2>2. \A r \in codes : Approved(r)'
    BY <1>1, <2>1 DEF Approved
  <2> QED BY <1>1, <1>2, <2>1, <2>2 DEF Approved
<1>5. \A h \in Handlers :
        Exchanging(h, {"code", "token"})' => CodeOf(h)' \in 1 .. uuids' /\ Approved(op[h].arg.row)'
  BY <1>1, <1>2 DEF CodesInv, Exchanging, CodeOf, Approved
<1>6. ASSUME NEW h \in Handlers, Exchanging(h, {"token"})'
      PROVE  /\ op'[h].arg.client = op'[h].arg.row.client
             /\ \/ CodeOf(h)' \in twice'
                \/ OnlyMine(CodeOf(h), Handlers \ {h})' /\ \A t \in tokens' : t.code # CodeOf(h)'
  <2>1. Exchanging(h, {"token"}) /\ Exchanging(h, {"code", "token"}) /\ CodeOf(h)' = CodeOf(h)
    BY <1>1, <1>6 DEF Exchanging, CodeOf
  <2>2. CodeOf(h) \in 1 .. uuids
    BY <2>1 DEF CodesInv
  <2>3. OnlyMine(CodeOf(h), Handlers \ {h}) => OnlyMine(CodeOf(h), Handlers \ {h})'
    BY <1>1, <1>2, <2>1, <2>2 DEF OnlyMine, Exchanging, CodeOf
  <2> QED BY <1>1, <2>1, <2>3 DEF CodesInv
<1>7. ASSUME NEW t \in tokens
      PROVE  /\ t.code \in 1 .. uuids'
             /\ [code |-> t.code, client |-> t.client, scope |-> t.scope] \in approvals'
             /\ t.code \in twice' \/ (OnlyMine(t.code, Handlers)' /\ \A u \in tokens' \ {t} : u.code # t.code)
  BY <1>1, <1>2, <1>3 DEF CodesInv
<1> QED BY <1>1, <1>4, <1>5, <1>6, <1>7 DEF CodesInv

\* A code that is read is there, so that nobody has exchanged it unless it was read twice.
LEMMA CodesRead ==
  ASSUME Basic, CodesInv, NEW h \in Handlers, NEW c, NEW row \in codes, NEW verified,
         ReadCode(h, c, row, verified)
  PROVE  CodesInv'
<1> DEFINE mine == [row |-> row, client |-> c, verified |-> verified, age |-> now - 1]
<1>1. Turns(h, "code", None, mine) /\ UNCHANGED <<uuids, codeVars>>
  BY Turning DEF ReadCode, sessionVars, Basic
<1>2. row.code \in 1 .. uuids /\ Approved(row)
  BY DEF CodesInv
<1>3. /\ op'[h].pc = "code" /\ CodeOf(h)' = row.code /\ op'[h].arg.row = row
      /\ \A g \in Handlers \ {h} : op'[g] = op[g]
  BY <1>1 DEF Turns, CodeOf
<1>4. \A r \in codes' : r.code \in 1 .. uuids' /\ Approved(r)'
  BY <1>1 DEF CodesInv, Approved, codeVars
<1>5. \A g \in Handlers :
        Exchanging(g, {"code", "token"})' => CodeOf(g)' \in 1 .. uuids' /\ Approved(op[g].arg.row)'
  BY <1>1, <1>2, <1>3 DEF CodesInv, Exchanging, CodeOf, Approved, codeVars
<1>6. ASSUME NEW x, NEW S \in SUBSET Handlers, OnlyMine(x, S)
      PROVE  OnlyMine(x, S)'
  BY <1>1, <1>3, <1>6 DEF OnlyMine, Exchanging, CodeOf, codeVars
<1>7. ASSUME NEW g \in Handlers, Exchanging(g, {"token"})'
      PROVE  /\ op'[g].arg.client = op'[g].arg.row.client
             /\ \/ CodeOf(g)' \in twice'
                \/ OnlyMine(CodeOf(g), Handlers \ {g})' /\ \A t \in tokens' : t.code # CodeOf(g)'
  <2>1. g # h
    BY <1>3, <1>7 DEF Exchanging
  <2>2. op'[g] = op[g] /\ Exchanging(g, {"token"}) /\ CodeOf(g)' = CodeOf(g)
    BY <1>3, <1>7, <2>1 DEF Exchanging, CodeOf
  <2>3. OnlyMine(CodeOf(g), Handlers \ {g}) => OnlyMine(CodeOf(g), Handlers \ {g})'
    BY <1>1, <1>3, <2>2 DEF OnlyMine, Exchanging, CodeOf, codeVars
  <2> QED BY <1>1, <2>2, <2>3 DEF CodesInv, codeVars
<1>8. ASSUME NEW t \in tokens
      PROVE  /\ t.code \in 1 .. uuids'
             /\ [code |-> t.code, client |-> t.client, scope |-> t.scope] \in approvals'
             /\ t.code \in twice' \/ (OnlyMine(t.code, Handlers)' /\ \A u \in tokens' \ {t} : u.code # t.code)
  BY <1>1, <1>6 DEF CodesInv, codeVars
<1> QED BY <1>1, <1>4, <1>5, <1>7, <1>8 DEF CodesInv, codeVars

\* Whoever deletes a code is the only one to exchange it, or it was read twice.
LEMMA CodesDrop ==
  ASSUME Basic, CodesInv, NEW h \in Handlers, DropCode(h)
  PROVE  CodesInv'
<1> SUFFICES ASSUME NEW mine, NEW x, mine = op[h].arg, x = op[h].arg.row.code
             PROVE  CodesInv'
  OBVIOUS
<1>1. /\ Exchanging(h, {"code", "token"}) /\ op[h].pc = "code" /\ CodeOf(h) = x
      /\ UNCHANGED <<uuids, tokens, approvals>>
      /\ codes' \subseteq codes /\ twice \subseteq twice'
  BY DEF DropCode, sessionVars, Exchanging, CodeOf, At
<1>2. \/ Turns(h, "token", None, mine) /\ mine.row.client = mine.client
      \/ Turns(h, "idle", None, None)
  BY Turning DEF DropCode, Granted, Basic
<1>3. /\ Exchanging(h, {"code", "token"})' => op'[h].arg = mine /\ op'[h].pc = "token" /\ mine.row.client = mine.client
      /\ Exchanging(h, {"code", "token"})' => op'[h].arg.row = op[h].arg.row /\ CodeOf(h)' = x
      /\ \A g \in Handlers \ {h} : op'[g] = op[g]
  BY <1>2 DEF Turns, Exchanging, CodeOf
<1>4. ASSUME NEW y, NEW S \in SUBSET Handlers, OnlyMine(y, S)
      PROVE  OnlyMine(y, S)'
  <2>1. \A g \in S : Exchanging(g, {"code", "token"})' => CodeOf(g)' # y
    BY <1>1, <1>3, <1>4 DEF OnlyMine, Exchanging, CodeOf
  <2> QED BY <1>1, <1>4, <2>1 DEF OnlyMine
<1>5. x \in twice' \/ (OnlyMine(x, Handlers \ {h})' /\ \A t \in tokens' : t.code # x)
  <2>1. CASE x \in twice'
    BY <2>1
  <2>2. CASE x \notin twice'
    <3>1. ~ReadElsewhere(h) /\ x \notin twice /\ \A r \in codes' : r.code # x
      BY <1>1, <2>2 DEF DropCode
    <3>2. \A t \in tokens : t.code # x
      BY <1>1, <3>1 DEF CodesInv, OnlyMine
    <3>3. ASSUME NEW g \in Handlers \ {h}, Exchanging(g, {"code", "token"}), CodeOf(g) = x
          PROVE  FALSE
      <4>1. CASE op[g].pc = "code"
        BY <3>1, <3>3, <4>1 DEF ReadElsewhere, At, CodeOf
      <4>2. CASE op[g].pc = "token"
        BY <1>1, <3>1, <3>3, <4>2 DEF CodesInv, OnlyMine, Exchanging
      <4> QED BY <3>3, <4>1, <4>2 DEF Exchanging
    <3>4. \A g \in Handlers \ {h} : Exchanging(g, {"code", "token"})' => CodeOf(g)' # x
      BY <1>3, <3>3 DEF Exchanging, CodeOf
    <3> QED BY <1>1, <3>1, <3>2, <3>4 DEF OnlyMine
  <2> QED BY <2>1, <2>2
<1>6. \A r \in codes' : r.code \in 1 .. uuids' /\ Approved(r)'
  BY <1>1 DEF CodesInv, Approved
<1>7. ASSUME NEW g \in Handlers, Exchanging(g, {"code", "token"})'
      PROVE  CodeOf(g)' \in 1 .. uuids' /\ Approved(op[g].arg.row)'
  <2>1. op'[g].arg.row = op[g].arg.row /\ CodeOf(g)' = CodeOf(g) /\ Exchanging(g, {"code", "token"})
    BY <1>1, <1>3, <1>7 DEF Exchanging, CodeOf
  <2> QED BY <1>1, <2>1 DEF CodesInv, Approved
<1>8. ASSUME NEW g \in Handlers, Exchanging(g, {"token"})'
      PROVE  /\ op'[g].arg.client = op'[g].arg.row.client
             /\ \/ CodeOf(g)' \in twice'
                \/ OnlyMine(CodeOf(g), Handlers \ {g})' /\ \A t \in tokens' : t.code # CodeOf(g)'
  <2>1. CASE g = h
    <3>1. Exchanging(h, {"code", "token"})'
      BY <1>8, <2>1 DEF Exchanging
    <3>2. CodeOf(h)' = x /\ op'[h].arg.client = op'[h].arg.row.client
      BY <1>3, <3>1
    <3>3. OnlyMine(x, Handlers \ {h})' => OnlyMine(CodeOf(h), Handlers \ {h})'
      BY <1>1, <3>2 DEF OnlyMine
    <3> QED BY <1>5, <2>1, <3>2, <3>3
  <2>2. CASE g # h
    <3>1. op'[g] = op[g] /\ Exchanging(g, {"token"}) /\ CodeOf(g)' = CodeOf(g)
      BY <1>3, <1>8, <2>2 DEF Exchanging, CodeOf
    <3>2. \A y : y = CodeOf(g) /\ OnlyMine(y, Handlers \ {g}) => OnlyMine(y, Handlers \ {g})'
      BY <1>4
    <3>3. OnlyMine(CodeOf(g), Handlers \ {g}) => OnlyMine(CodeOf(g), Handlers \ {g})'
      BY <3>1, <3>2 DEF OnlyMine
    <3> QED BY <1>1, <3>1, <3>3 DEF CodesInv
  <2> QED BY <2>1, <2>2
<1>9. ASSUME NEW t \in tokens
      PROVE  /\ t.code \in 1 .. uuids'
             /\ [code |-> t.code, client |-> t.client, scope |-> t.scope] \in approvals'
             /\ t.code \in twice' \/ (OnlyMine(t.code, Handlers)' /\ \A u \in tokens' \ {t} : u.code # t.code)
  BY <1>1, <1>4 DEF CodesInv
<1> QED BY <1>1, <1>6, <1>7, <1>8, <1>9 DEF CodesInv

\* Nobody else has the code that a token is inserted for, unless it was read twice.
LEMMA CodesInsert ==
  ASSUME Basic, Basic', CodesInv, NEW h \in Handlers, InsertToken(h)
  PROVE  CodesInv'
<1> SUFFICES ASSUME NEW mine, NEW x, mine = op[h].arg, x = op[h].arg.row.code
             PROVE  CodesInv'
  OBVIOUS
<1>1. /\ Exchanging(h, {"code", "token"}) /\ Exchanging(h, {"token"}) /\ CodeOf(h) = x
      /\ UNCHANGED <<codes, approvals, twice>>
      /\ uuids \in Nat /\ uuids' \in Nat /\ uuids' >= uuids
  BY DEF InsertToken, Exchanging, CodeOf, At, Basic, Uuid
<1>2. 1 .. uuids \subseteq 1 .. uuids' /\ x \in 1 .. uuids /\ x \in 1 .. uuids'
  BY <1>1 DEF CodesInv
<1>3. PICK new : /\ new.code = x
                 /\ [code |-> new.code, client |-> new.client, scope |-> new.scope] \in approvals
                 /\ tokens' \subseteq tokens \cup {new} /\ tokens \subseteq tokens'
  <2>1. mine.client = mine.row.client /\ Approved(mine.row)
    BY <1>1 DEF CodesInv
  <2>2. CASE UNCHANGED tokens
    <3>1. LET new == [code |-> x, client |-> mine.client, scope |-> mine.row.scope]
          IN  /\ new.code = x
              /\ [code |-> new.code, client |-> new.client, scope |-> new.scope] \in approvals
      BY <2>1 DEF Approved
    <3> QED BY <2>2, <3>1
  <2>3. CASE tokens' # tokens
    <3>1. PICK number :
            tokens' = tokens \cup {[token |-> number, client |-> mine.client,
                                    scope |-> mine.row.scope, code |-> mine.row.code]}
      BY <2>3 DEF InsertToken
    <3>2. LET new == [token |-> number, client |-> mine.client,
                      scope |-> mine.row.scope, code |-> mine.row.code]
          IN  /\ new.code = x
              /\ [code |-> new.code, client |-> new.client, scope |-> new.scope] \in approvals
      BY <2>1 DEF Approved
    <3> QED BY <3>1, <3>2
  <2> QED BY <2>2, <2>3
<1>4. Turns(h, "idle", None, None)
  BY Turning DEF InsertToken, Basic
<1>5. /\ ~Exchanging(h, {"code", "token"})'
      /\ \A g \in Handlers \ {h} : op'[g] = op[g]
  BY <1>4 DEF Turns, Exchanging
<1>6. ASSUME NEW y, NEW S \in SUBSET Handlers, OnlyMine(y, S)
      PROVE  OnlyMine(y, S)'
  BY <1>1, <1>5, <1>6 DEF OnlyMine, Exchanging, CodeOf
<1>7. x \in twice \/ (OnlyMine(x, Handlers)' /\ \A t \in tokens : t.code # x)
  <2>1. x \in twice \/ (OnlyMine(x, Handlers \ {h}) /\ \A t \in tokens : t.code # x)
    BY <1>1 DEF CodesInv
  <2>2. OnlyMine(x, Handlers \ {h}) => OnlyMine(x, Handlers)'
    BY <1>1, <1>5 DEF OnlyMine, Exchanging, CodeOf
  <2> QED BY <2>1, <2>2
<1>8. \A r \in codes' : r.code \in 1 .. uuids' /\ Approved(r)'
  BY <1>1, <1>2 DEF CodesInv, Approved
<1>9. ASSUME NEW g \in Handlers, Exchanging(g, {"code", "token"})'
      PROVE  CodeOf(g)' \in 1 .. uuids' /\ Approved(op[g].arg.row)'
  <2>1. op'[g] = op[g] /\ CodeOf(g)' = CodeOf(g) /\ Exchanging(g, {"code", "token"})
    BY <1>5, <1>9 DEF Exchanging, CodeOf
  <2> QED BY <1>1, <1>2, <2>1 DEF CodesInv, Approved
<1>10. ASSUME NEW g \in Handlers, Exchanging(g, {"token"})'
       PROVE  /\ op'[g].arg.client = op'[g].arg.row.client
              /\ \/ CodeOf(g)' \in twice'
                 \/ OnlyMine(CodeOf(g), Handlers \ {g})' /\ \A t \in tokens' : t.code # CodeOf(g)'
  <2> SUFFICES ASSUME NEW y, y = CodeOf(g)
               PROVE  /\ op'[g].arg.client = op'[g].arg.row.client
                      /\ \/ CodeOf(g)' \in twice'
                         \/ OnlyMine(CodeOf(g), Handlers \ {g})' /\ \A t \in tokens' : t.code # CodeOf(g)'
    OBVIOUS
  <2>1. g # h
    BY <1>5, <1>10 DEF Exchanging
  <2>2. /\ op'[g] = op[g] /\ Exchanging(g, {"token"}) /\ Exchanging(g, {"code", "token"})
        /\ CodeOf(g)' = y
    BY <1>5, <1>10, <2>1 DEF Exchanging, CodeOf
  <2>3. /\ op[g].arg.client = op[g].arg.row.client
        /\ y \in twice \/ (OnlyMine(y, Handlers \ {g}) /\ \A t \in tokens : t.code # y)
    BY <2>2 DEF CodesInv, OnlyMine
  <2>4. y \in twice \/ y # x
    BY <1>1, <2>1, <2>3 DEF OnlyMine
  <2>5. OnlyMine(y, Handlers \ {g}) => OnlyMine(y, Handlers \ {g})'
    BY <1>6
  <2>6. OnlyMine(y, Handlers \ {g})' => OnlyMine(CodeOf(g), Handlers \ {g})'
    BY <2>2 DEF OnlyMine
  <2> QED BY <1>1, <1>3, <2>2, <2>3, <2>4, <2>5, <2>6
<1>11. ASSUME NEW t \in tokens'
       PROVE  /\ t.code \in 1 .. uuids'
              /\ [code |-> t.code, client |-> t.client, scope |-> t.scope] \in approvals'
              /\ t.code \in twice' \/ (OnlyMine(t.code, Handlers)' /\ \A u \in tokens' \ {t} : u.code # t.code)
  <2>1. CASE t \in tokens
    <3>1. /\ t.code \in 1 .. uuids
          /\ [code |-> t.code, client |-> t.client, scope |-> t.scope] \in approvals
          /\ t.code \in twice \/ (OnlyMine(t.code, Handlers) /\ \A u \in tokens \ {t} : u.code # t.code)
      BY <2>1 DEF CodesInv
    <3>2. t.code \in twice \/ t.code # x
      BY <1>1, <3>1 DEF OnlyMine
    <3>3. OnlyMine(t.code, Handlers) => OnlyMine(t.code, Handlers)'
      BY <1>6
    <3> QED BY <1>1, <1>2, <1>3, <3>1, <3>2, <3>3
  <2>2. CASE t \notin tokens
    <3>1. t = new /\ t.code = x
      BY <1>3, <2>2
    <3>2. \A u \in tokens' \ {t} : u \in tokens
      BY <1>3, <3>1
    <3>3. t.code \in twice' \/ (OnlyMine(t.code, Handlers)' /\ \A u \in tokens' \ {t} : u.code # t.code)
      BY <1>1, <1>7, <3>1, <3>2
    <3> QED BY <1>1, <1>2, <1>3, <3>1, <3>3
  <2> QED BY <2>1, <2>2
<1> QED BY <1>8, <1>9, <1>10, <1>11 DEF CodesInv

LEMMA CodesOther ==
  ASSUME Basic, CodesInv, (\E c \in Registered : RegisterClient(c)) \/ (\E t \in tokens : Revoke(t))
  PROVE  CodesInv'
<1>1. UNCHANGED <<uuids, op, codes, approvals, twice>> /\ tokens' \subseteq tokens
  BY DEF RegisterClient, Revoke, sessionVars
<1> QED BY <1>1 DEF CodesInv, OnlyMine, Exchanging, CodeOf, Approved

-----------------------------------------------------------------------------
(***************************************************************************)
(* Processes, and a way to log in.                                         *)
(***************************************************************************)

Stages == {"off", "password", "totp", "apps", "legacy", "unset", "mark", "up"}

ProcsInv ==
  /\ proc \in [Procs -> [pc : Stages, todo : SUBSET Apps]]
  /\ \A p \in Procs : Up(p) => marked

\* Nothing is left to migrate, and nothing is migrated.
Settled == marked /\ ~Migrating

\* What is settled stays so, but for a start that cannot read the mark.
LEMMA ProcsMigrate ==
  ASSUME ProcsInv, MigrationStep
  PROVE  /\ ProcsInv'
         /\ \/ Settled => Settled' /\ UNCHANGED <<passkeys, appRows>>
            \/ \E p \in Procs : StartUnread(p)
<1> USE DEF ProcsInv, Up, Off, Stages, Enter, Stage, settingVars
<1>1. ASSUME NEW p \in Procs, Start(p)
      PROVE  ProcsInv' /\ (Settled => Settled' /\ UNCHANGED <<passkeys, appRows>>)
  BY <1>1 DEF Start, Settled, Migrating
<1>2. ASSUME NEW p \in Procs,
             \/ MigratePassword(p) \/ MigrateTotp(p) \/ MigrateLegacy(p) \/ MigrateLegacyUnread(p)
             \/ SetAuthMigrated(p)
      PROVE  ProcsInv' /\ (Settled => Settled' /\ UNCHANGED <<passkeys, appRows>>)
  <2>1. ~Settled
    BY <1>2 DEF MigratePassword, MigrateTotp, MigrateLegacy, MigrateLegacyUnread, SetAuthMigrated, Settled, Migrating
  <2>2. ProcsInv'
    BY <1>2 DEF MigratePassword, MigrateTotp, MigrateLegacy, MigrateLegacyUnread, SetAuthMigrated
  <2> QED BY <2>1, <2>2
<1>3. ASSUME NEW p \in Procs, MigrateApp(p)
      PROVE  ProcsInv' /\ (Settled => Settled' /\ UNCHANGED <<passkeys, appRows>>)
  <2>1. ~Settled
    BY <1>3 DEF MigrateApp, Settled, Migrating
  <2>2. ProcsInv'
    BY <1>3 DEF MigrateApp
  <2> QED BY <2>1, <2>2
<1>4. ASSUME NEW p \in Procs, MigrationFails(p) \/ Setup(p) \/ Exit(p)
      PROVE  ProcsInv' /\ (Settled => Settled' /\ UNCHANGED <<passkeys, appRows>>)
  <2>1. CASE MigrationFails(p) /\ proc' = [proc EXCEPT ![p] = Off]
    BY <2>1 DEF MigrationFails, Settled, Migrating
  <2>2. CASE MigrationFails(p) /\ proc' = [proc EXCEPT ![p].pc = "mark"]
    BY <2>2 DEF MigrationFails, Settled, Migrating
  <2>3. CASE Setup(p)
    BY <2>3 DEF Setup, Settled, Migrating
  <2>4. CASE Exit(p)
    BY <2>4 DEF Exit, Settled, Migrating
  <2> QED BY <1>4, <2>1, <2>2, <2>3, <2>4 DEF MigrationFails
<1>5. ASSUME NEW p \in Procs, StartUnread(p)
      PROVE  ProcsInv'
  BY <1>5 DEF StartUnread
<1> QED BY <1>1, <1>2, <1>3, <1>4, <1>5 DEF MigrationStep

LEMMA ProcsKilled ==
  ASSUME ProcsInv, NEW p \in Procs, Killed(p)
  PROVE  ProcsInv' /\ (Settled => Settled')
BY DEF Killed, ProcsInv, Up, Off, Stages, Settled, Migrating, settingVars

LEMMA ProcsKept ==
  ASSUME UNCHANGED <<proc, marked>>
  PROVE  /\ ProcsInv => ProcsInv'
         /\ Settled => Settled'
BY DEF ProcsInv, Up, Settled, Migrating

HasKey == DOMAIN passkeys # {} \/ "lastkey" \in causes
HasWay == password \/ HasKey

WayInv ==
  /\ marked \/ (\E p \in Procs : proc[p].pc \notin {"off", "password"}) => HasWay
  /\ \A h \in Handlers : op[h].pc = "nopassword" => HasKey

\* Steps that take no key away nor look for one before the password goes.
LEMMA WayKept ==
  ASSUME WayInv, Moved(Plain \cup {"savekey", "code", "token"}), UNCHANGED <<proc, marked>>,
         HasKey => HasKey', HasWay => HasWay'
  PROVE  WayInv'
BY DEF WayInv, Moved, Plain

LEMMA WayMigrate ==
  ASSUME WayInv, ProcsInv, MigrationStep
  PROVE  WayInv'
<1> USE DEF ProcsInv, Up, Off, Stages, Enter, Stage, settingVars, WayInv, HasWay, HasKey
<1>1. ASSUME NEW p \in Procs, Start(p) \/ StartUnread(p) PROVE WayInv'
  BY <1>1 DEF Start, StartUnread
<1>2. ASSUME NEW p \in Procs, MigratePassword(p) \/ MigrateTotp(p) \/ SetAuthMigrated(p) PROVE WayInv'
  <2>1. CASE MigratePassword(p)
    BY <2>1 DEF MigratePassword
  <2>2. CASE MigrateTotp(p)
    BY <2>2 DEF MigrateTotp
  <2>3. CASE SetAuthMigrated(p)
    BY <2>3 DEF SetAuthMigrated
  <2> QED BY <1>2, <2>1, <2>2, <2>3
<1>3. ASSUME NEW p \in Procs, MigrateLegacy(p) \/ MigrateLegacyUnread(p) PROVE WayInv'
  BY <1>3 DEF MigrateLegacy, MigrateLegacyUnread
<1>4. ASSUME NEW p \in Procs, MigrateApp(p) PROVE WayInv'
  BY <1>4 DEF MigrateApp
<1>5. ASSUME NEW p \in Procs, MigrationFails(p) \/ Setup(p) \/ Exit(p) PROVE WayInv'
  <2>1. CASE MigrationFails(p)
    BY <2>1 DEF MigrationFails
  <2>2. CASE Setup(p)
    BY <2>2 DEF Setup
  <2>3. CASE Exit(p)
    BY <2>3 DEF Exit
  <2> QED BY <1>5, <2>1, <2>2, <2>3
<1> QED BY <1>1, <1>2, <1>3, <1>4, <1>5 DEF MigrationStep

LEMMA WayKilled ==
  ASSUME WayInv, ProcsInv, NEW p \in Procs, Killed(p)
  PROVE  WayInv'
BY DEF Killed, ProcsInv, Off, Stages, settingVars, WayInv, HasWay, HasKey, NoOp

\* The password goes only when there is a passkey, and the last passkey only when there is
\* a password that is not about to go, or that is noted.
LEMMA WayPassword ==
  ASSUME Basic, WayInv, NEW h \in Handlers, NEW b \in Browsers, DeletePassword(h, b)
  PROVE  WayInv'
<1>1. /\ UNCHANGED <<proc, marked, password, passkeys, causes>> /\ HasKey
      /\ Moved(Plain \cup {"nopassword"})
  BY PasswordMoves DEF DeletePassword, credentialVars, settingVars, HasKey
<1> QED BY <1>1 DEF WayInv, HasWay, HasKey, Moved, Plain

LEMMA WayClear ==
  ASSUME Basic, WayInv, NEW h \in Handlers, ClearPassword(h)
  PROVE  WayInv'
<1>1. /\ UNCHANGED <<proc, marked, passkeys, causes>> /\ HasKey
  BY DEF ClearPassword, WayInv, At
<1>2. HasKey' /\ HasWay'
  BY <1>1 DEF HasWay, HasKey
<1> QED BY <1>1, <1>2 DEF WayInv

LEMMA WayKey ==
  ASSUME Basic, WayInv, NEW h \in Handlers, NEW b \in Browsers, NEW k \in Passkeys, DeletePasskey(h, b, k)
  PROVE  WayInv'
<1>1. /\ UNCHANGED <<proc, marked, password, op>> /\ causes \subseteq causes'
      /\ k \in DOMAIN passkeys /\ DOMAIN passkeys' = DOMAIN passkeys \ {k}
      /\ DOMAIN passkeys = {k} /\ (~password \/ \E g \in Handlers : At(g, "nopassword"))
           => "lastkey" \in causes'
  BY DEF DeletePasskey, Administer
<1>2. CASE DOMAIN passkeys # {k}
  BY <1>1, <1>2 DEF WayInv, HasWay, HasKey
<1>3. CASE DOMAIN passkeys = {k}
  BY <1>1, <1>3 DEF WayInv, HasWay, HasKey, At
<1> QED BY <1>2, <1>3

-----------------------------------------------------------------------------
(***************************************************************************)
(* What ended stays ended.                                                 *)
(***************************************************************************)

SessionOver(id) == id \in Ids /\ \A s \in sessions : s.id # id

\* A login that has read the passkey k is about to save it again.
Reviving(h, k) == op[h].pc = "savekey" /\ op[h].arg.key = k /\ op[h].arg.ceremony # "register"

\* Nothing is about to insert k: only the old passkey may be, while it is in the settings.
Apart(k) == k = Legacy /\ legacy => Settled

KeyOver(k) == Apart(k) /\ k \notin DOMAIN passkeys /\ \A h \in Handlers : ~Reviving(h, k)

NameOver(k) ==
  /\ Apart(k)
  /\ k \in DOMAIN passkeys => passkeys[k] # "Passkey"
  /\ \A h \in Handlers : Reviving(h, k) => op[h].arg.name # "Passkey"

AppOver(entry) == (entry \in Apps => Settled) /\ entry # None /\ \A row \in appRows : row.entry # entry

Right(what) ==
  \/ \E id : what = <<"session", id>> /\ SessionOver(id)
  \/ \E k : what = <<"passkey", k>> /\ KeyOver(k)
  \/ \E k : what = <<"oldname", k>> /\ NameOver(k)
  \/ \E entry : what = <<"app", entry>> /\ AppOver(entry)

EndedInv == \A what \in ended : Right(what)

\* A session that is new has a new id.
LEMMA SessionStaysOver ==
  ASSUME Basic, Basic', Fresh, NEW id, SessionOver(id)
  PROVE  SessionOver(id)'
<1>1. uuids \in Nat /\ uuids' \in Nat /\ uuids' >= uuids /\ None \notin Nat
  BY SessionsAssumption DEF Basic, Fresh
<1>2. \A s \in sessions' : s.id \in 1 .. uuids'
  BY DEF Basic, Numbered
<1>3. id \in Ids'
  BY <1>1 DEF SessionOver, Ids
<1>4. \A s \in sessions' : s.id # id
  BY <1>1, <1>2 DEF SessionOver, Ids, Fresh
<1> QED BY <1>3, <1>4 DEF SessionOver

\* One kind after the other.
LEMMA RightSplit ==
  ASSUME Basic, Basic', Fresh, NEW what, Right(what),
         \A k : what = <<"passkey", k>> /\ KeyOver(k) => KeyOver(k)',
         \A k : what = <<"oldname", k>> /\ NameOver(k) => NameOver(k)',
         \A entry : what = <<"app", entry>> /\ AppOver(entry) => AppOver(entry)'
  PROVE  Right(what)'
<1>1. CASE \E id : what = <<"session", id>> /\ SessionOver(id)
  BY <1>1, SessionStaysOver DEF Right
<1>2. CASE ~\E id : what = <<"session", id>> /\ SessionOver(id)
  BY <1>2 DEF Right
<1> QED BY <1>1, <1>2

\* Only the old passkey and app passwords of the configuration are inserted, and those only
\* when they have not ended.
LEMMA RightMigrated ==
  ASSUME Basic, Basic', Fresh, NEW what, Right(what),
         \A h \in Handlers : \A k : Reviving(h, k)' => Reviving(h, k) /\ op'[h] = op[h],
         legacy' => legacy,
         Settled \/ ~legacy => UNCHANGED passkeys,
         \A k \in DOMAIN passkeys \cup DOMAIN passkeys' :
           k = Legacy \/ (k \in DOMAIN passkeys /\ k \in DOMAIN passkeys' /\ passkeys'[k] = passkeys[k]),
         \A row \in appRows' : row \in appRows \/ (row.entry \in Apps /\ ~Settled),
         (Settled => Settled') \/ what \notin Insertable
  PROVE  Right(what)'
<1>1. ASSUME NEW k, what = <<"passkey", k>> \/ what = <<"oldname", k>>, Apart(k)
      PROVE  Apart(k)'
  BY <1>1 DEF Apart, Insertable
<1>2. ASSUME NEW k, Apart(k)
      PROVE  k \in DOMAIN passkeys' => k \in DOMAIN passkeys /\ passkeys'[k] = passkeys[k]
  BY <1>2 DEF Apart
<1>3. \A k : what = <<"passkey", k>> /\ KeyOver(k) => KeyOver(k)'
  BY <1>1, <1>2 DEF KeyOver
<1>4. \A k : what = <<"oldname", k>> /\ NameOver(k) => NameOver(k)'
  BY <1>1, <1>2 DEF NameOver
<1>5. \A entry : what = <<"app", entry>> /\ AppOver(entry) => AppOver(entry)'
  BY DEF AppOver, Insertable
<1> QED BY <1>3, <1>4, <1>5, RightSplit

\* Steps that touch neither passkeys nor app passwords.
LEMMA EndedKept ==
  ASSUME Basic, Basic', EndedInv, Moved(Plain \cup {"nopassword", "code", "token"}),
         UNCHANGED <<proc, marked, passkeys, appRows, legacy>>,
         \A what \in ended' \ ended : Right(what)'
  PROVE  EndedInv'
<1>1. \A h \in Handlers : \A k : Reviving(h, k)' => Reviving(h, k) /\ op'[h] = op[h]
  BY DEF Reviving, Moved, Plain
<1>2. Fresh /\ (Settled => Settled')
  BY ProcsKept DEF Moved
<1>3. \A what \in ended : Right(what)'
  BY <1>1, <1>2, RightMigrated DEF EndedInv
<1> QED BY <1>3 DEF EndedInv

\* The steps of processes.
LEMMA EndedProcess ==
  ASSUME Basic, Basic', ProcsInv, EndedInv, Moved(Plain), MigrationStep \/ \E p \in Procs : Killed(p)
  PROVE  EndedInv'
<1> USE DEF settingVars
<1>1. \A h \in Handlers : \A k : Reviving(h, k)' => Reviving(h, k) /\ op'[h] = op[h]
  BY DEF Reviving, Moved, Plain
<1>2. Fresh
  BY DEF Moved
<1>3. legacy' => legacy
  BY DEF MigrationStep, Start, StartUnread, MigratePassword, MigrateTotp, MigrateApp, MigrateLegacy,
         MigrateLegacyUnread, SetAuthMigrated, MigrationFails, Setup, Exit, Killed
<1>4. /\ ~legacy => UNCHANGED passkeys
      /\ \A k \in DOMAIN passkeys \cup DOMAIN passkeys' :
           k = Legacy \/ (k \in DOMAIN passkeys /\ k \in DOMAIN passkeys' /\ passkeys'[k] = passkeys[k])
  <2>1. \/ UNCHANGED passkeys
        \/ legacy /\ DOMAIN passkeys = {} /\ passkeys' = [k \in {Legacy} |-> "Passkey"]
        \/ legacy /\ passkeys' = [k \in DOMAIN passkeys \cup {Legacy} |-> IF k = Legacy THEN "Passkey" ELSE passkeys[k]]
    BY DEF MigrationStep, Start, StartUnread, MigratePassword, MigrateTotp, MigrateApp, MigrateLegacy,
           MigrateLegacyUnread, SetAuthMigrated, MigrationFails, Setup, Exit, Killed
  <2> QED BY <2>1
<1>5. CASE Settled => Settled' /\ UNCHANGED <<passkeys, appRows>>
  <2>1. \A row \in appRows' : row \in appRows \/ row.entry \in Apps
    <3>1. ASSUME NEW p \in Procs, MigrateApp(p)
          PROVE  \A row \in appRows' : row \in appRows \/ row.entry \in Apps
      BY <3>1 DEF MigrateApp, ProcsInv
    <3> QED BY <3>1 DEF MigrationStep, Start, StartUnread, MigratePassword, MigrateTotp, MigrateLegacy,
           MigrateLegacyUnread, SetAuthMigrated, MigrationFails, Setup, Exit, Killed
  <2>2. \A row \in appRows' : row \in appRows \/ (row.entry \in Apps /\ ~Settled)
    BY <1>5, <2>1
  <2>3. \A what \in ended : Right(what)'
    BY <1>1, <1>2, <1>3, <1>4, <1>5, <2>2, RightMigrated DEF EndedInv
  <2>4. ended' \subseteq ended
    BY DEF MigrationStep, Start, StartUnread, MigratePassword, MigrateTotp, MigrateApp, MigrateLegacy,
           MigrateLegacyUnread, SetAuthMigrated, MigrationFails, Setup, Exit, Killed
  <2> QED BY <2>3, <2>4 DEF EndedInv
<1>6. ASSUME NEW p \in Procs, StartUnread(p)
      PROVE  EndedInv'
  <2>1. UNCHANGED <<passkeys, appRows>> /\ ended' = ended \ Insertable
    BY <1>6 DEF StartUnread
  <2>2. \A what \in ended' : Right(what)'
    BY <1>1, <1>2, <1>3, <2>1, RightMigrated DEF EndedInv
  <2> QED BY <2>2 DEF EndedInv
<1>7. (\E p \in Procs : Killed(p)) => (Settled => Settled' /\ UNCHANGED <<passkeys, appRows>>)
  BY ProcsKilled DEF Killed
<1> QED BY <1>5, <1>6, <1>7, ProcsMigrate

\* A session that is deleted has ended.
LEMMA EndedDelete ==
  ASSUME Basic, Basic', EndedInv, NEW h \in Handlers, LogoutDelete(h) \/ EndCeremony(h),
         Moved(Plain), UNCHANGED <<proc, marked, passkeys, appRows, legacy>>
  PROVE  EndedInv'
<1>2. PICK b, kind, id : DeleteSession(b, kind, id) /\ id = op[h].ses
                         /\ \A what \in ended' \ ended : what = <<"session", id>>
  BY DEF LogoutDelete, EndCeremony
<1>3. id \in Ids /\ \A s \in sessions' : s.id # id
  BY <1>2, Deleting DEF Basic
<1>4. SessionOver(id)'
  BY <1>3 DEF SessionOver, Ids, Basic, Moved, Fresh
<1>5. \A what \in ended' \ ended : Right(what)'
  BY <1>2, <1>4 DEF Right
<1>6. Moved(Plain \cup {"nopassword", "code", "token"})
  BY DEF Moved
<1> QED BY <1>5, <1>6, EndedKept

LEMMA EndedExpire ==
  ASSUME Basic, Basic', EndedInv, DeleteExpiredSessions,
         Moved(Plain), UNCHANGED <<proc, marked, passkeys, appRows, legacy>>
  PROVE  EndedInv'
<1>2. ASSUME NEW what \in ended' \ ended
      PROVE  Right(what)'
  <2>1. PICK id \in {s.id : s \in sessions} \ {s.id : s \in sessions'} : what = <<"session", id>>
    BY <1>2 DEF DeleteExpiredSessions
  <2>2. SessionOver(id)'
    BY <2>1 DEF SessionOver, Ids, Basic, Numbered, DeleteExpiredSessions
  <2> QED BY <2>1, <2>2 DEF Right
<1>3. Moved(Plain \cup {"nopassword", "code", "token"})
  BY DEF Moved
<1> QED BY <1>2, <1>3, EndedKept

\* A passkey that is deleted while no login holds it has ended.
LEMMA EndedKey ==
  ASSUME Basic, Basic', Fresh, ProcsInv, EndedInv, NEW h \in Handlers, NEW b \in Browsers,
         NEW k \in Passkeys, DeletePasskey(h, b, k)
  PROVE  EndedInv'
<1>1. /\ UNCHANGED <<proc, marked, op, appRows, legacy>> /\ Up(Server)
      /\ DOMAIN passkeys' = DOMAIN passkeys \ {k}
      /\ \A j \in DOMAIN passkeys' : passkeys'[j] = passkeys[j]
      /\ \A what \in ended' \ ended : what = <<"passkey", k>> /\ ~Held(k) /\ ~Migrating
  BY DEF DeletePasskey, Administer
<1>2. Settled => Settled'
  BY <1>1, ProcsKept
<1>3. \A j : (KeyOver(j) => KeyOver(j)') /\ (NameOver(j) => NameOver(j)')
  BY <1>1, <1>2 DEF KeyOver, NameOver, Reviving, Apart
<1>4. \A entry : AppOver(entry) => AppOver(entry)'
  BY <1>1, <1>2 DEF AppOver
<1>5. \A what \in ended : Right(what)'
  BY <1>3, <1>4, RightSplit DEF EndedInv
<1>6. ASSUME NEW what \in ended' \ ended
      PROVE  Right(what)'
  <2>1. what = <<"passkey", k>> /\ ~Held(k) /\ Settled
    BY <1>1, <1>6, CredentialsAssumption DEF ProcsInv, Settled
  <2>2. KeyOver(k)'
    BY <1>1, <1>2, <2>1 DEF KeyOver, Reviving, Held, Apart
  <2> QED BY <2>1, <2>2 DEF Right
<1> QED BY <1>5, <1>6 DEF EndedInv

LEMMA EndedRename ==
  ASSUME Basic, Basic', Fresh, ProcsInv, EndedInv, NEW h \in Handlers, NEW b \in Browsers,
         NEW k \in Passkeys, RenamePasskey(h, b, k)
  PROVE  EndedInv'
<1>1. /\ UNCHANGED <<proc, marked, op, appRows, legacy>> /\ Up(Server)
      /\ DOMAIN passkeys' = DOMAIN passkeys /\ passkeys' = [passkeys EXCEPT ![k] = "renamed"]
      /\ \A what \in ended' \ ended : what = <<"oldname", k>> /\ ~Held(k) /\ ~Migrating
  BY DEF RenamePasskey, Administer
<1>2. Settled => Settled'
  BY <1>1, ProcsKept
<1>3. \A j \in DOMAIN passkeys : passkeys'[j] = passkeys[j] \/ passkeys'[j] = "renamed"
  BY <1>1
<1>4. k \in DOMAIN passkeys => passkeys'[k] = "renamed"
  BY <1>1
<1>5. \A j : (KeyOver(j) => KeyOver(j)') /\ (NameOver(j) => NameOver(j)')
  BY <1>1, <1>2, <1>3 DEF KeyOver, NameOver, Reviving, Apart
<1>6. \A entry : AppOver(entry) => AppOver(entry)'
  BY <1>1, <1>2 DEF AppOver
<1>7. \A what \in ended : Right(what)'
  BY <1>5, <1>6, RightSplit DEF EndedInv
<1>8. ASSUME NEW what \in ended' \ ended
      PROVE  Right(what)'
  <2>1. what = <<"oldname", k>> /\ ~Held(k) /\ Settled
    BY <1>1, <1>8, CredentialsAssumption DEF ProcsInv, Settled
  <2>2. NameOver(k)'
    BY <1>1, <1>2, <1>4, <2>1 DEF NameOver, Reviving, Held, Apart
  <2> QED BY <2>1, <2>2 DEF Right
<1> QED BY <1>7, <1>8 DEF EndedInv

\* A ceremony that registers brings a passkey back as one that has not ended; a login
\* that holds an ended one, or its old name, there is not.
LEMMA EndedSave ==
  ASSUME Basic, Basic', Fresh, EndedInv, NEW h \in Handlers, SavePasskey(h)
  PROVE  EndedInv'
<1> SUFFICES ASSUME NEW k, NEW mine, mine = op[h].arg, k = mine.key
             PROVE  EndedInv'
  OBVIOUS
<1>1. /\ UNCHANGED <<proc, marked, appRows, legacy>> /\ op[h].pc = "savekey"
      /\ DOMAIN passkeys' = DOMAIN passkeys \cup {k} /\ passkeys'[k] = mine.name
      /\ \A j \in DOMAIN passkeys \ {k} : passkeys'[j] = passkeys[j]
      /\ ended' \subseteq ended
      /\ mine.ceremony = "register" => <<"passkey", k>> \notin ended' /\ <<"oldname", k>> \notin ended'
  BY DEF SavePasskey, At
<1>2. Settled => Settled'
  BY <1>1, ProcsKept
<1>3. Turns(h, "endceremony", op[h].ses, mine)
  BY Turning DEF SavePasskey, Basic
<1>4. \A g \in Handlers : \A j : Reviving(g, j)' => Reviving(g, j) /\ op'[g] = op[g]
  BY <1>3 DEF Turns, Reviving
<1>5. ASSUME NEW j, j # k \/ mine.ceremony # "register", KeyOver(j)
      PROVE  KeyOver(j)'
  <2>1. j # k
    BY <1>1, <1>5 DEF KeyOver, Reviving
  <2> QED BY <1>1, <1>2, <1>4, <1>5, <2>1 DEF KeyOver, Apart
<1>6. ASSUME NEW j, j # k \/ mine.ceremony # "register", NameOver(j)
      PROVE  NameOver(j)'
  <2>1. CASE j # k
    BY <1>1, <1>2, <1>4, <1>6, <2>1 DEF NameOver, Apart
  <2>2. CASE j = k /\ mine.ceremony # "register"
    <3>1. Reviving(h, k) /\ mine.name # "Passkey"
      BY <1>1, <1>6, <2>2 DEF NameOver, Reviving
    <3> QED BY <1>1, <1>2, <1>4, <1>6, <2>2, <3>1 DEF NameOver, Apart
  <2> QED BY <1>6, <2>1, <2>2
<1>7. \A entry : AppOver(entry) => AppOver(entry)'
  BY <1>1, <1>2 DEF AppOver
<1>8. ASSUME NEW what \in ended'
      PROVE  Right(what)'
  <2>1. Right(what) /\ (mine.ceremony = "register" => what # <<"passkey", k>> /\ what # <<"oldname", k>>)
    BY <1>1, <1>8 DEF EndedInv
  <2>2. \A j : what = <<"passkey", j>> /\ KeyOver(j) => KeyOver(j)'
    BY <1>5, <2>1
  <2>3. \A j : what = <<"oldname", j>> /\ NameOver(j) => NameOver(j)'
    BY <1>6, <2>1
  <2> QED BY <1>7, <2>1, <2>2, <2>3, RightSplit
<1> QED BY <1>8 DEF EndedInv

\* A registration holds no passkey that has ended.
LEMMA EndedFinish ==
  ASSUME Basic, Basic', Fresh, EndedInv, NEW h \in Handlers, NEW b \in Browsers, NEW k \in Passkeys,
         FinishCeremony(h, b, k)
  PROVE  EndedInv'
<1>1. UNCHANGED <<proc, marked, passkeys, appRows, ended, legacy>>
  BY DEF FinishCeremony, credentialVars, settingVars
<1>2. PICK s \in Loaded(b, "wa") :
        Begin(h, b, IF s.values.ceremony = "register" THEN "savekey" ELSE "name", s.id,
              [ceremony |-> s.values.ceremony, key |-> k, name |-> "Passkey"])
  BY DEF FinishCeremony
<1>3. Turns(h, IF s.values.ceremony = "register" THEN "savekey" ELSE "name", s.id,
            [ceremony |-> s.values.ceremony, key |-> k, name |-> "Passkey"])
  BY <1>2, Turning DEF Basic
<1>4. \A j : ~Reviving(h, j)'
  BY <1>3 DEF Turns, Reviving
<1>5. \A g \in Handlers : \A j : Reviving(g, j)' => Reviving(g, j) /\ op'[g] = op[g]
  BY <1>3, <1>4 DEF Turns, Reviving
<1>6. Settled => Settled'
  BY <1>1, ProcsKept
<1>7. \A j : (KeyOver(j) => KeyOver(j)') /\ (NameOver(j) => NameOver(j)')
  BY <1>1, <1>5, <1>6 DEF KeyOver, NameOver, Apart
<1>8. \A entry : AppOver(entry) => AppOver(entry)'
  BY <1>1, <1>6 DEF AppOver
<1> QED BY <1>1, <1>7, <1>8, RightSplit DEF EndedInv

\* A login reads the name a passkey has.
LEMMA EndedName ==
  ASSUME Basic, Basic', Fresh, EndedInv, NEW h \in Handlers, PasskeyName(h)
  PROVE  EndedInv'
<1> SUFFICES ASSUME NEW k, NEW mine, mine = op[h].arg, k = mine.key
             PROVE  EndedInv'
  OBVIOUS
<1>1. UNCHANGED <<proc, marked, passkeys, appRows, ended, legacy>>
  BY DEF PasskeyName, credentialVars, settingVars
<1>2. \/ k \in DOMAIN passkeys /\ Turns(h, "savekey", op[h].ses, [ceremony |-> mine.ceremony, key |-> k, name |-> passkeys[k]])
      \/ Turns(h, "endceremony", op[h].ses, mine)
  BY Turning DEF PasskeyName, Basic
<1>3. \A j : Reviving(h, j)' => j = k /\ k \in DOMAIN passkeys /\ op'[h].arg.name = passkeys[k]
  BY <1>2 DEF Turns, Reviving
<1>4. \A g \in Handlers \ {h} : \A j : Reviving(g, j)' => Reviving(g, j) /\ op'[g] = op[g]
  BY <1>2 DEF Turns, Reviving
<1>5. Settled => Settled'
  BY <1>1, ProcsKept
<1>6. \A j : (KeyOver(j) => KeyOver(j)') /\ (NameOver(j) => NameOver(j)')
  BY <1>1, <1>3, <1>4, <1>5 DEF KeyOver, NameOver, Apart
<1>7. \A entry : AppOver(entry) => AppOver(entry)'
  BY <1>1, <1>5 DEF AppOver
<1> QED BY <1>1, <1>6, <1>7, RightSplit DEF EndedInv

\* An app password that is created is none of the configuration; the last row of one that
\* is deleted has ended.
LEMMA EndedApp ==
  ASSUME Basic, Basic', Fresh, ProcsInv, EndedInv, NEW h \in Handlers, NEW b \in Browsers,
         CreateAppPassword(h, b) \/ \E row \in appRows : DeleteAppPassword(h, b, row)
  PROVE  EndedInv'
<1>1. UNCHANGED <<proc, marked, passkeys, op, legacy>> /\ Up(Server)
  BY DEF CreateAppPassword, DeleteAppPassword, Administer
<1>2. Settled => Settled'
  BY <1>1, ProcsKept
<1>3. \A row \in appRows' : row \in appRows \/ row.entry = None
  <2>1. CASE CreateAppPassword(h, b)
    BY <2>1 DEF CreateAppPassword
  <2>2. CASE \E row \in appRows : DeleteAppPassword(h, b, row)
    BY <2>2 DEF DeleteAppPassword
  <2> QED BY <2>1, <2>2
<1>4. \A j : (KeyOver(j) => KeyOver(j)') /\ (NameOver(j) => NameOver(j)')
  BY <1>1, <1>2 DEF KeyOver, NameOver, Reviving, Apart
<1>5. \A entry : AppOver(entry) => AppOver(entry)'
  BY <1>2, <1>3 DEF AppOver
<1>6. \A what \in ended : Right(what)'
  BY <1>4, <1>5, RightSplit DEF EndedInv
<1>7. ASSUME NEW what \in ended' \ ended
      PROVE  Right(what)'
  <2>1. PICK row \in appRows : DeleteAppPassword(h, b, row)
    BY <1>7 DEF CreateAppPassword
  <2>2. /\ what = <<"app", row.entry>> /\ row.entry # None /\ ~Migrating
        /\ \A r \in appRows' : r.entry # row.entry
    BY <1>7, <2>1 DEF DeleteAppPassword, NotMigrating
  <2>3. Settled
    BY <1>1, <2>2, CredentialsAssumption DEF ProcsInv, Settled
  <2>4. AppOver(row.entry)'
    BY <1>2, <2>2, <2>3 DEF AppOver
  <2> QED BY <2>2, <2>4 DEF Right
<1> QED BY <1>6, <1>7 DEF EndedInv

-----------------------------------------------------------------------------
(***************************************************************************)
(* The inductive invariant.                                                *)
(***************************************************************************)

IInv == Basic /\ ProcsInv /\ CodesInv /\ WayInv /\ EndedInv

LEMMA MovedMore ==
  ASSUME NEW S, NEW T, Moved(S), S \subseteq T
  PROVE  Moved(T)
BY DEF Moved

\* Steps that change nothing the invariant is about but the handlers.
LEMMA Others ==
  ASSUME IInv, Basic', Moved(Plain), UNCHANGED <<codeVars, proc, marked, passkeys, appRows, legacy, ended>>,
         HasKey => HasKey', HasWay => HasWay'
  PROVE  IInv'
<1>1. /\ Moved(Plain \cup {"savekey", "nopassword"})
      /\ Moved(Plain \cup {"savekey", "code", "token"})
      /\ Moved(Plain \cup {"nopassword", "code", "token"})
  BY MovedMore
<1>2. CodesInv'
  BY <1>1, CodesKept DEF IInv
<1>3. WayInv'
  BY <1>1, WayKept DEF IInv
<1>4. ProcsInv'
  BY ProcsKept DEF IInv
<1>5. EndedInv'
  BY <1>1, EndedKept DEF IInv
<1> QED BY <1>2, <1>3, <1>4, <1>5 DEF IInv

LEMMA InitHolds ==
  ASSUME Init
  PROVE  IInv
<1>1. uuids \in Nat /\ Shaped /\ \A h \in Handlers : op[h].ses \in Ids
  BY DEF Init, SessionsInit, CredentialsInit, Unmigrated, Migrated, Shaped, NoOp, Ids
<1>2. Numbered
  <2>1. CASE sessions = {}
    BY <2>1 DEF Numbered
  <2>2. CASE Migrated
    BY <2>2 DEF Migrated, Numbered
  <2> QED BY <2>1, <2>2 DEF Init, CredentialsInit, Unmigrated
<1>3. ProcsInv
  <2>1. CASE Unmigrated
    BY <2>1 DEF Unmigrated, ProcsInv, Up, Off, Stages
  <2>2. CASE Migrated
    BY <2>2 DEF Migrated, ProcsInv, Up, Off, Stages
  <2> QED BY <2>1, <2>2 DEF Init, CredentialsInit
<1>4. CodesInv
  BY DEF Init, CodesInit, SessionsInit, NoOp, CodesInv, Exchanging
<1>5. WayInv
  <2>1. \A h \in Handlers : op[h].pc = "idle"
    BY DEF Init, SessionsInit, NoOp
  <2>2. CASE Unmigrated
    BY <2>1, <2>2 DEF Unmigrated, WayInv, Off
  <2>3. CASE Migrated
    BY <2>1, <2>3 DEF Migrated, WayInv, HasWay, HasKey
  <2> QED BY <2>2, <2>3 DEF Init, CredentialsInit
<1>6. EndedInv
  BY DEF Init, CredentialsInit, EndedInv
<1> QED BY <1>1, <1>2, <1>3, <1>4, <1>5, <1>6 DEF IInv, Basic

LEMMA SessionSteps ==
  ASSUME IInv, UNCHANGED <<credentialVars, codeVars>>,
         \/ DeleteExpiredSessions \/ Tick \/ \E c \in captchas : Forget(c)
         \/ \E h \in Handlers :
              \/ LogoutDelete(h) \/ LoadLogin(h) \/ SaveLogin(h) \/ SessionFails(h)
              \/ Ask(h) \/ Show(h) \/ SaveSolved(h)
              \/ \E b \in Browsers : Logout(h, b) \/ Visit(h, b) \/ Solve(h, b)
  PROVE  IInv'
<1> USE DEF credentialVars, settingVars
<1>1. Basic' /\ Moved(Plain) /\ (HasKey => HasKey') /\ (HasWay => HasWay')
  BY ClockMoves, SessionMoves, CaptchaMoves DEF IInv, HasKey, HasWay
<1>2. CASE UNCHANGED ended
  BY <1>1, <1>2, Others
<1>3. CASE DeleteExpiredSessions \/ \E h \in Handlers : LogoutDelete(h)
  <2>1. EndedInv'
    BY <1>1, <1>3, EndedDelete, EndedExpire DEF IInv
  <2>2. /\ Moved(Plain \cup {"savekey", "nopassword"})
        /\ Moved(Plain \cup {"savekey", "code", "token"})
    BY <1>1, MovedMore
  <2>3. CodesInv' /\ WayInv' /\ ProcsInv'
    BY <1>1, <2>2, CodesKept, WayKept, ProcsKept DEF IInv
  <2> QED BY <1>1, <2>1, <2>3 DEF IInv
<1> QED BY <1>2, <1>3 DEF Logout, LoadLogin, SaveLogin, SessionFails, Tick, Visit, Solve, Ask, Show, SaveSolved, Forget

LEMMA CeremonySteps ==
  ASSUME IInv, UNCHANGED codeVars, NEW h \in Handlers,
         \/ UserId(h) \/ LoadCeremony(h) \/ Challenge(h) \/ SavePasskey(h) \/ EndCeremony(h)
         \/ CeremonyFails(h) \/ ClearPassword(h)
         \/ \E b \in Browsers : LoginWithPassword(h, b) \/ FinishCeremonyAnew(h, b)
         \/ \E b \in Browsers, ceremony \in {"register", "login"} : BeginCeremony(h, b, ceremony)
  PROVE  IInv'
<1> USE DEF credentialVars, settingVars
<1>1. Basic' /\ Moved(Plain) /\ Fresh
  BY CeremonyMoves DEF IInv, Moved
<1>2. CodesInv'
  <2>1. Moved(Plain \cup {"savekey", "nopassword"})
    BY <1>1, MovedMore
  <2> QED BY <1>1, <2>1, CodesKept DEF IInv
<1>3. /\ Moved(Plain \cup {"savekey", "code", "token"})
      /\ Moved(Plain \cup {"nopassword", "code", "token"})
  BY <1>1, MovedMore
<1>4. CASE \/ UserId(h) \/ LoadCeremony(h) \/ Challenge(h) \/ CeremonyFails(h)
           \/ \E b \in Browsers : LoginWithPassword(h, b) \/ FinishCeremonyAnew(h, b)
           \/ \E b \in Browsers, ceremony \in {"register", "login"} : BeginCeremony(h, b, ceremony)
  <2>1. /\ UNCHANGED <<proc, marked, passkeys, appRows, legacy, ended>>
        /\ HasKey => HasKey'
        /\ HasWay => HasWay'
    BY <1>4 DEF LoginWithPassword, UserId, LoadCeremony, Challenge, CeremonyFails, BeginCeremony, FinishCeremonyAnew, HasKey, HasWay
  <2> QED BY <1>1, <2>1, Others
<1>5. CASE SavePasskey(h)
  <2>1. UNCHANGED <<proc, marked, password, causes>> /\ DOMAIN passkeys' # {}
    BY <1>5 DEF SavePasskey
  <2>2. WayInv' /\ ProcsInv'
    BY <1>3, <2>1, WayKept, ProcsKept DEF IInv, HasKey, HasWay
  <2>3. EndedInv'
    BY <1>1, <1>5, EndedSave DEF IInv
  <2> QED BY <1>1, <1>2, <2>2, <2>3 DEF IInv
<1>6. CASE EndCeremony(h)
  <2>1. UNCHANGED <<proc, marked, password, causes, passkeys, appRows, legacy>>
    BY <1>6 DEF EndCeremony
  <2>2. WayInv' /\ ProcsInv'
    BY <1>3, <2>1, WayKept, ProcsKept DEF IInv, HasKey, HasWay
  <2>3. EndedInv'
    BY <1>1, <1>6, <2>1, EndedDelete DEF IInv
  <2> QED BY <1>1, <1>2, <2>2, <2>3 DEF IInv
<1>7. CASE ClearPassword(h)
  <2>1. UNCHANGED <<proc, marked, passkeys, appRows, legacy, ended>>
    BY <1>7 DEF ClearPassword
  <2>2. ProcsInv'
    BY <2>1, ProcsKept DEF IInv
  <2>3. EndedInv'
    BY <1>1, <1>3, <2>1, EndedKept DEF IInv
  <2> QED BY <1>1, <1>2, <1>7, <2>2, <2>3, WayClear DEF IInv
<1> QED BY <1>4, <1>5, <1>6, <1>7

LEMMA HeldSteps ==
  ASSUME IInv, UNCHANGED codeVars, NEW h \in Handlers,
         \/ PasskeyName(h)
         \/ \E b \in Browsers : DeletePassword(h, b)
         \/ \E b \in Browsers, k \in Passkeys : FinishCeremony(h, b, k)
  PROVE  IInv'
<1> USE DEF credentialVars, settingVars
<1>1. CASE PasskeyName(h) \/ \E b \in Browsers, k \in Passkeys : FinishCeremony(h, b, k)
  <2>1. Basic' /\ Moved(Plain \cup {"savekey"}) /\ Fresh
    BY <1>1, FinishMoves, NameMoves DEF IInv, Moved
  <2>2. UNCHANGED <<proc, marked, password, causes, passkeys>>
    BY <1>1 DEF PasskeyName, FinishCeremony
  <2>3. /\ Moved(Plain \cup {"savekey", "nopassword"})
        /\ Moved(Plain \cup {"savekey", "code", "token"})
    BY <2>1, MovedMore
  <2>4. CodesInv' /\ WayInv' /\ ProcsInv'
    BY <2>1, <2>2, <2>3, CodesKept, WayKept, ProcsKept DEF IInv, HasKey, HasWay
  <2>5. EndedInv'
    BY <1>1, <2>1, EndedName, EndedFinish DEF IInv
  <2> QED BY <2>1, <2>4, <2>5 DEF IInv
<1>2. ASSUME NEW b \in Browsers, DeletePassword(h, b)
      PROVE  IInv'
  <2>1. Basic' /\ Moved(Plain \cup {"nopassword"})
    BY <1>2, PasswordMoves DEF IInv
  <2>2. UNCHANGED <<proc, marked, passkeys, appRows, legacy, ended>>
    BY <1>2 DEF DeletePassword
  <2>3. /\ Moved(Plain \cup {"savekey", "nopassword"})
        /\ Moved(Plain \cup {"nopassword", "code", "token"})
    BY <2>1, MovedMore
  <2>4. CodesInv' /\ ProcsInv'
    BY <2>1, <2>2, <2>3, CodesKept, ProcsKept DEF IInv
  <2>5. EndedInv'
    BY <2>1, <2>2, <2>3, EndedKept DEF IInv
  <2>6. WayInv'
    BY <1>2, WayPassword DEF IInv
  <2> QED BY <2>1, <2>4, <2>5, <2>6 DEF IInv
<1> QED BY <1>1, <1>2

LEMMA AdministerSteps ==
  ASSUME IInv, UNCHANGED codeVars, NEW h \in Handlers, NEW b \in Browsers,
         \/ UpdatePassword(h, b) \/ SetupTotp(h, b) \/ DeleteTotp(h, b) \/ CreateAppPassword(h, b)
         \/ \E k \in Passkeys : DeletePasskey(h, b, k) \/ RenamePasskey(h, b, k)
         \/ \E row \in appRows : DeleteAppPassword(h, b, row)
  PROVE  IInv'
<1>1. Basic' /\ Moved(Plain) /\ Fresh /\ UNCHANGED <<proc, marked>>
  BY AdministerMoves DEF IInv, Moved, UpdatePassword, SetupTotp, DeleteTotp, CreateAppPassword,
     DeletePasskey, RenamePasskey, DeleteAppPassword
<1>2. /\ Moved(Plain \cup {"savekey", "nopassword"})
      /\ Moved(Plain \cup {"savekey", "code", "token"})
  BY <1>1, MovedMore
<1>3. CodesInv' /\ ProcsInv'
  BY <1>1, <1>2, CodesKept, ProcsKept DEF IInv
<1>4. CASE UpdatePassword(h, b) \/ SetupTotp(h, b) \/ DeleteTotp(h, b)
  <2>1. UNCHANGED <<passkeys, appRows, legacy, ended>> /\ causes \subseteq causes' /\ (password => password')
    BY <1>4 DEF UpdatePassword, SetupTotp, DeleteTotp
  <2> QED BY <1>1, <2>1, Others DEF HasKey, HasWay
<1>5. CASE CreateAppPassword(h, b) \/ \E row \in appRows : DeleteAppPassword(h, b, row)
  <2>1. UNCHANGED <<passkeys, password, causes>>
    BY <1>5 DEF CreateAppPassword, DeleteAppPassword
  <2>2. WayInv'
    BY <1>1, <1>2, <2>1, WayKept DEF IInv, HasKey, HasWay
  <2> QED BY <1>1, <1>3, <1>5, <2>2, EndedApp DEF IInv
<1>6. ASSUME NEW k \in Passkeys, DeletePasskey(h, b, k)
      PROVE  IInv'
  BY <1>1, <1>3, <1>6, WayKey, EndedKey DEF IInv
<1>7. ASSUME NEW k \in Passkeys, RenamePasskey(h, b, k)
      PROVE  IInv'
  <2>1. DOMAIN passkeys' = DOMAIN passkeys /\ UNCHANGED <<password, causes>>
    BY <1>7 DEF RenamePasskey
  <2>2. WayInv'
    BY <1>1, <1>2, <2>1, WayKept DEF IInv, HasKey, HasWay
  <2> QED BY <1>1, <1>3, <1>7, <2>2, EndedRename DEF IInv
<1> QED BY <1>4, <1>5, <1>6, <1>7

LEMMA CodeSteps ==
  ASSUME IInv, UNCHANGED credentialVars, NEW h \in Handlers,
         DropCode(h) \/ InsertToken(h) \/ \E b \in Browsers : CodeRequest(h, b)
  PROVE  IInv'
<1>1. Basic' /\ Moved(Plain \cup {"code", "token"}) /\ UNCHANGED ended
  <2>1. CASE \/ DropCode(h)
             \/ \E c \in Registered \cup Sites, row \in codes, verified \in BOOLEAN : ReadCode(h, c, row, verified)
    BY <2>1, ExchangeMoves DEF IInv, DropCode, ReadCode
  <2>2. CASE \/ InsertToken(h)
             \/ \E c \in Registered : RegisterClient(c)
             \/ \E b \in Browsers, c \in Registered \cup Sites, scope \in Scopes, pkce \in BOOLEAN :
                  Authorize(b, c, scope, pkce)
             \/ \E t \in tokens : Revoke(t)
    BY <2>2, CodeMoves, MovedMore DEF IInv, InsertToken, RegisterClient, Authorize, Revoke
  <2> QED BY <2>1, <2>2 DEF CodeRequest
<1>2. CodesInv'
  BY <1>1, CodesAuthorize, CodesRead, CodesDrop, CodesInsert, CodesOther DEF IInv, CodeRequest
<1>3. /\ Moved(Plain \cup {"savekey", "code", "token"})
      /\ Moved(Plain \cup {"nopassword", "code", "token"})
  BY <1>1, MovedMore
<1>4. UNCHANGED <<proc, marked, passkeys, appRows, legacy, password, causes>>
  BY DEF credentialVars, settingVars
<1>5. WayInv' /\ ProcsInv'
  BY <1>3, <1>4, WayKept, ProcsKept DEF IInv, HasKey, HasWay
<1>6. EndedInv'
  BY <1>1, <1>3, <1>4, EndedKept DEF IInv
<1> QED BY <1>1, <1>2, <1>5, <1>6 DEF IInv

LEMMA ProcessSteps ==
  ASSUME IInv, UNCHANGED codeVars, MigrationStep \/ \E p \in Procs : Killed(p)
  PROVE  IInv'
<1>1. Basic' /\ Moved(Plain)
  BY MigrationMoves, KilledMoves DEF IInv
<1>2. ProcsInv'
  BY ProcsMigrate, ProcsKilled DEF IInv
<1>3. WayInv'
  BY WayMigrate, WayKilled DEF IInv
<1>4. Moved(Plain \cup {"savekey", "nopassword"})
  BY <1>1, MovedMore
<1>5. CodesInv' /\ EndedInv'
  BY <1>1, <1>4, CodesKept, EndedProcess DEF IInv
<1> QED BY <1>1, <1>2, <1>3, <1>5 DEF IInv

LEMMA NextHolds ==
  ASSUME IInv, [Next]_vars
  PROVE  IInv'
<1>1. ASSUME NEW h \in Handlers, NEW b \in Browsers, Handler(h, b)
      PROVE  IInv'
  BY <1>1, SessionSteps, CeremonySteps, HeldSteps, AdministerSteps, CodeSteps
     DEF Handler, CredentialRequest, Settings
<1>2. ASSUME SessionStep /\ UNCHANGED <<credentialVars, captchaVars, codeVars>>
      PROVE  IInv'
  BY <1>2, SessionSteps DEF SessionStep
<1>3. ASSUME CredentialStep /\ UNCHANGED <<captchaVars, codeVars>>
      PROVE  IInv'
  BY <1>3, CeremonySteps, HeldSteps DEF CredentialStep
<1>4. ASSUME CaptchaStep /\ UNCHANGED <<credentialVars, codeVars>>
      PROVE  IInv'
  BY <1>4, SessionSteps DEF CaptchaStep
<1>5. ASSUME CodeStep /\ UNCHANGED <<credentialVars, captchaVars>>
      PROVE  IInv'
  BY <1>5, CodeSteps DEF CodeStep
<1>6. ASSUME (MigrationStep \/ \E p \in Procs : Killed(p)) /\ UNCHANGED codeVars
      PROVE  IInv'
  BY <1>6, ProcessSteps
<1>7. CASE UNCHANGED vars
  <2>1. Basic' /\ Moved(Plain)
    BY <1>7, BasicQuiet, MovedMore DEF vars, sessionVars, IInv
  <2> QED BY <1>7, <2>1, Others DEF vars, credentialVars, settingVars, HasKey, HasWay
<1> QED BY <1>1, <1>2, <1>3, <1>4, <1>5, <1>6, <1>7 DEF Next

LEMMA Invariance == Spec => []IInv
BY InitHolds, NextHolds, PTL DEF Spec

-----------------------------------------------------------------------------
\* A token comes of one code the owner gave out, for the client and the scope the owner saw,
\* and of one exchange of it, unless two requests have read the code at the same time.
THEOREM TokensApproved == Spec => []TokensAreApproved
<1>1. IInv => TokensAreApproved
  BY DEF IInv, CodesInv, OnlyMine, TokensAreApproved
<1> QED BY <1>1, Invariance, PTL

\* While the server runs there is a password or a passkey to log in with, unless the owner
\* has deleted the last passkey without having a password.
THEOREM OwnerGetsIn == Spec => []WayIn
<1>1. IInv => WayIn
  BY CredentialsAssumption DEF IInv, WayInv, ProcsInv, Up, HasWay, HasKey, WayIn
<1> QED BY <1>1, Invariance, PTL

\* Sessions, passkeys, their old names and app passwords that were ended do not come back,
\* but for those that a start inserts again because it could not read that it need not.
THEOREM EndedIsOver == Spec => []EndedStaysEnded
<1>1. ASSUME IInv, NEW what \in ended
      PROVE  ~Live(what)
  <2>1. Right(what)
    BY <1>1 DEF IInv, EndedInv
  <2>2. ASSUME NEW id, what = <<"session", id>>, SessionOver(id)
        PROVE  ~Live(what)
    BY <2>2 DEF SessionOver, Live
  <2>3. ASSUME NEW k, what = <<"passkey", k>>, KeyOver(k)
        PROVE  ~Live(what)
    BY <2>3 DEF KeyOver, Live
  <2>4. ASSUME NEW k, what = <<"oldname", k>>, NameOver(k)
        PROVE  ~Live(what)
    BY <2>4 DEF NameOver, Live
  <2>5. ASSUME NEW entry, what = <<"app", entry>>, AppOver(entry)
        PROVE  ~Live(what)
    BY <2>5 DEF AppOver, Live
  <2> QED BY <2>1, <2>2, <2>3, <2>4, <2>5 DEF Right
<1>2. IInv => EndedStaysEnded
  BY <1>1 DEF EndedStaysEnded
<1> QED BY <1>2, Invariance, PTL

-----------------------------------------------------------------------------
(***************************************************************************)
(* The migration of the credentials.  What a process has moved stays there *)
(* or was deleted by the owner, so whoever goes on to the next stage knows *)
(* that the earlier ones were done, by itself or by somebody else.         *)
(***************************************************************************)

There(app) == app \in removed \/ \E row \in appRows : row.entry = app
HasTotp == totp \/ "nototp" \in causes
HasLegacy == Legacy \in DOMAIN passkeys \/ Legacy \in removed

\* A handler has something to do only in a server that has migrated.
BusyInv == \A h \in Handlers : op[h].pc # "idle" => marked

\* Some process has come to one of the stages, or one has finished.
Reached(stages) == marked \/ \E p \in Procs : proc[p].pc \in stages

AppsInv ==
  /\ IsFiniteSet(appRows)
  /\ Reached({"legacy", "unset", "mark"}) => \A app \in Apps : There(app)
  /\ \A p \in Procs :
       proc[p].pc \in {"password", "totp", "apps"} => \A app \in Apps \ proc[p].todo : There(app)

TotpInv == Reached({"apps", "legacy", "unset", "mark"}) /\ config => HasTotp

LegacyInv ==
  "old" \in causes =>
    \/ "legacy" \in causes
    \/ /\ DOMAIN passkeys # {} \/ ~legacy \/ (\E p \in Procs : proc[p].pc = "unset") => HasLegacy
       /\ Reached({"mark"}) => ~legacy

\* One process migrates at a time, and none after another one.
OnceInv ==
  \/ causes \cap {"again", "overlap", "unread"} # {}
  \/ /\ \A p, q \in Procs : {proc[p].pc, proc[q].pc} \cap {"off", "up"} = {} => p = q
     /\ marked => ~Migrating
     /\ \A r, s \in appRows : r.entry \in Apps /\ r.entry = s.entry => r = s
     /\ ~marked /\ ~Migrating => \A r \in appRows : r.entry \notin Apps
     /\ \A p \in Procs :
          proc[p].pc \in {"password", "totp", "apps"} => \A r \in appRows : r.entry \notin proc[p].todo

MigrationInv == BusyInv /\ AppsInv /\ TotpInv /\ LegacyInv /\ OnceInv

LEMMA BusyStep ==
  ASSUME ProcsInv, BusyInv, [Next]_vars
  PROVE  BusyInv' /\ (marked => marked')
<1> USE DEF credentialVars, settingVars
<1>1. marked => marked'
  <2>1. ASSUME NEW h \in Handlers, NEW b \in Browsers, Handler(h, b)
        PROVE  UNCHANGED marked
    BY <2>1 DEF Handler, CredentialRequest, LoginWithPassword, BeginCeremony, FinishCeremony, Settings,
         UpdatePassword, DeletePassword, SetupTotp, DeleteTotp, DeletePasskey, RenamePasskey,
         CreateAppPassword, DeleteAppPassword, FinishCeremonyAnew
  <2>2. ASSUME NEW h \in Handlers,
               \/ UserId(h) \/ LoadCeremony(h) \/ Challenge(h) \/ PasskeyName(h)
               \/ SavePasskey(h) \/ EndCeremony(h) \/ CeremonyFails(h) \/ ClearPassword(h)
        PROVE  UNCHANGED marked
    BY <2>2 DEF UserId, LoadCeremony, Challenge, PasskeyName, SavePasskey, EndCeremony, CeremonyFails, ClearPassword
  <2>3. ASSUME MigrationStep
        PROVE  marked' \in {marked, TRUE}
    BY <2>3 DEF MigrationStep, Start, StartUnread, MigratePassword, MigrateTotp, MigrateApp, MigrateLegacy,
         MigrateLegacyUnread, SetAuthMigrated, MigrationFails, Setup, Exit
  <2>4. ASSUME NEW p \in Procs, Killed(p)
        PROVE  UNCHANGED marked
    BY <2>4 DEF Killed
  <2> QED BY <2>1, <2>2, <2>3, <2>4 DEF Next, CredentialStep, vars
<1>2. ASSUME NEW h \in Handlers, NEW b \in Browsers, Handler(h, b)
      PROVE  marked
  BY <1>2, CredentialsAssumption DEF ProcsInv, Handler, CredentialRequest, LoginWithPassword, BeginCeremony, FinishCeremony,
       Settings, UpdatePassword, DeletePassword, SetupTotp, DeleteTotp, DeletePasskey, RenamePasskey,
       CreateAppPassword, DeleteAppPassword, FinishCeremonyAnew, Administer
<1>3. ASSUME SessionStep \/ CredentialStep \/ CaptchaStep \/ CodeStep, ~marked
      PROVE  UNCHANGED op
  BY <1>3 DEF BusyInv, At, SessionStep, LogoutDelete, LoadLogin, SaveLogin, SessionFails, DeleteExpiredSessions,
       Tick, CredentialStep, UserId, LoadCeremony, Challenge, PasskeyName, SavePasskey, EndCeremony, CeremonyFails,
       ClearPassword, CaptchaStep, Ask, Show,
       SaveSolved, Forget, CodeStep, DropCode, InsertToken
<1>4. ASSUME MigrationStep
      PROVE  UNCHANGED op
  BY <1>4 DEF MigrationStep, Start, StartUnread, MigratePassword, MigrateTotp, MigrateApp, MigrateLegacy,
       MigrateLegacyUnread, SetAuthMigrated, MigrationFails, Setup, Exit
<1>5. ASSUME NEW p \in Procs, Killed(p)
      PROVE  BusyInv'
  BY <1>1, <1>5 DEF Killed, BusyInv, NoOp
<1>6. CASE UNCHANGED vars
  BY <1>6 DEF vars, BusyInv
<1>7. CASE UNCHANGED op
  BY <1>1, <1>7 DEF BusyInv
<1>8. CASE marked
  BY <1>1, <1>8 DEF BusyInv
<1> QED BY <1>1, <1>2, <1>3, <1>4, <1>5, <1>6, <1>7, <1>8 DEF Next

-----------------------------------------------------------------------------
(***************************************************************************)
(* Requests: they take nothing away that they do not record as deleted.    *)
(***************************************************************************)

\* What causes say of the migration.
Excuses == causes \cap {"old", "again", "overlap", "unread", "legacy"}

\* Whoever is up may delete what was moved, on the record, and add what is not of the
\* configuration.
Requested ==
  /\ UNCHANGED <<proc, marked, config, legacy, Excuses>>
  /\ HasTotp => HasTotp'
  /\ HasLegacy => HasLegacy'
  /\ DOMAIN passkeys' # {} => DOMAIN passkeys # {} \/ marked
  /\ \A app : There(app) => There(app)'
  /\ IsFiniteSet(appRows) => IsFiniteSet(appRows)'
  /\ \A r \in appRows' : r.entry \in Apps => r \in appRows

LEMMA MigrationRequested ==
  ASSUME AppsInv, TotpInv, LegacyInv, OnceInv, ProcsInv, Requested
  PROVE  AppsInv' /\ TotpInv' /\ LegacyInv' /\ OnceInv'
<1> USE DEF Requested, Excuses
<1>1. \A S : Reached(S)' <=> Reached(S)
  BY DEF Reached
<1>2. AppsInv'
  BY <1>1 DEF AppsInv
<1>3. TotpInv'
  BY <1>1 DEF TotpInv
<1>4. LegacyInv'
  BY <1>1 DEF LegacyInv, Reached
<1>5. OnceInv'
  <2>1. CASE causes \cap {"again", "overlap", "unread"} # {}
    BY <2>1 DEF OnceInv
  <2>2. CASE causes \cap {"again", "overlap", "unread"} = {}
    <3>1. \A p \in Procs : proc[p].todo \subseteq Apps
      BY DEF ProcsInv
    <3> QED BY <2>2, <3>1 DEF OnceInv, Migrating
  <2> QED BY <2>1, <2>2
<1> QED BY <1>2, <1>3, <1>4, <1>5

LEMMA Quiet ==
  ASSUME UNCHANGED <<proc, marked, config, legacy, causes, passkeys, totp, appRows, removed>>
  PROVE  Requested
BY DEF Requested, Excuses, HasTotp, HasLegacy, There

LEMMA CredentialsRequested ==
  ASSUME BusyInv, ProcsInv,
         CredentialStep \/ \E h \in Handlers, b \in Browsers : CredentialRequest(h, b)
  PROVE  Requested
<1> USE DEF credentialVars, settingVars
<1>1. ASSUME NEW h \in Handlers, NEW b \in Browsers,
             \/ LoginWithPassword(h, b) \/ UpdatePassword(h, b) \/ DeletePassword(h, b)
             \/ \E ceremony \in {"register", "login"} : BeginCeremony(h, b, ceremony)
             \/ \E k \in Passkeys : FinishCeremony(h, b, k)
             \/ FinishCeremonyAnew(h, b)
      PROVE  Requested
  BY <1>1, Quiet DEF LoginWithPassword, UpdatePassword, DeletePassword, BeginCeremony, FinishCeremony,
     FinishCeremonyAnew
<1>2. ASSUME NEW h \in Handlers, NEW b \in Browsers, SetupTotp(h, b) \/ DeleteTotp(h, b)
      PROVE  Requested
  BY <1>2 DEF SetupTotp, DeleteTotp, Requested, Excuses, HasTotp, HasLegacy, There
<1>3. ASSUME NEW h \in Handlers, NEW b \in Browsers, NEW k \in Passkeys, DeletePasskey(h, b, k)
      PROVE  Requested
  BY <1>3 DEF DeletePasskey, Requested, Excuses, HasTotp, HasLegacy, There
<1>4. ASSUME NEW h \in Handlers, NEW b \in Browsers, NEW k \in Passkeys, RenamePasskey(h, b, k)
      PROVE  Requested
  BY <1>4 DEF RenamePasskey, Requested, Excuses, HasTotp, HasLegacy, There
<1>5. ASSUME NEW h \in Handlers, NEW b \in Browsers, CreateAppPassword(h, b)
      PROVE  Requested
  <2>1. IsFiniteSet(appRows) => IsFiniteSet(appRows)'
    BY <1>5, FS_AddElement DEF CreateAppPassword
  <2> QED BY <1>5, <2>1, CredentialsAssumption DEF CreateAppPassword, Requested, Excuses, HasTotp, HasLegacy, There
<1>6. ASSUME NEW h \in Handlers, NEW b \in Browsers, NEW row \in appRows, DeleteAppPassword(h, b, row)
      PROVE  Requested
  <2>1. IsFiniteSet(appRows) => IsFiniteSet(appRows)'
    BY <1>6, FS_RemoveElement DEF DeleteAppPassword
  <2> QED BY <1>6, <2>1 DEF DeleteAppPassword, Requested, Excuses, HasTotp, HasLegacy, There
<1>7. ASSUME NEW g \in Handlers, SavePasskey(g)
      PROVE  Requested
  <2>1. marked
    BY <1>7 DEF BusyInv, SavePasskey, At
  <2> QED BY <1>7, <2>1 DEF SavePasskey, Requested, Excuses, HasTotp, HasLegacy, There
<1>8. ASSUME NEW g \in Handlers,
             \/ UserId(g) \/ LoadCeremony(g) \/ Challenge(g) \/ PasskeyName(g) \/ EndCeremony(g)
             \/ CeremonyFails(g)
      PROVE  Requested
  BY <1>8, Quiet DEF UserId, LoadCeremony, Challenge, PasskeyName, EndCeremony, CeremonyFails
<1>9. ASSUME NEW g \in Handlers, ClearPassword(g)
      PROVE  Requested
  BY <1>9 DEF ClearPassword, Requested, Excuses, HasTotp, HasLegacy, There
<1> QED BY <1>1, <1>2, <1>3, <1>4, <1>5, <1>6, <1>7, <1>8, <1>9
     DEF CredentialRequest, Settings, CredentialStep

-----------------------------------------------------------------------------
(***************************************************************************)
(* Processes: stage by stage.                                              *)
(***************************************************************************)

Staged == AppsInv /\ TotpInv /\ LegacyInv /\ OnceInv

\* A process goes to another stage, and nothing that was moved goes away.
Onward(p, pc) ==
  /\ proc' = [proc EXCEPT ![p].pc = pc]
  /\ UNCHANGED <<config, removed>> /\ causes \subseteq causes'
  /\ causes' \cap {"old"} = causes \cap {"old"}

LEMMA StagedStart ==
  ASSUME ProcsInv, Staged, NEW p \in Procs, Start(p) \/ StartUnread(p)
  PROVE  Staged'
<1> USE DEF Start, StartUnread, Stage, settingVars
<1>1. /\ proc' \in [Procs -> [pc : Stages, todo : SUBSET Apps]]
      /\ \A q \in Procs \ {p} : proc'[q] = proc[q]
      /\ proc[p].pc = "off"
      /\ proc'[p].pc = (IF marked THEN "up" ELSE "password") \/ (proc'[p].pc = "password" /\ "unread" \in causes')
      /\ proc'[p].todo = Apps
      /\ UNCHANGED <<marked, config, removed, appRows, totp, passkeys, legacy>>
      /\ causes \subseteq causes' /\ causes' \subseteq causes \cup {"overlap", "unread"}
  BY DEF ProcsInv, Stages
<1>2. \A S \in {{"legacy", "unset", "mark"}, {"apps", "legacy", "unset", "mark"}, {"mark"}} :
        Reached(S)' => Reached(S)
  BY <1>1 DEF Reached
<1>3. AppsInv'
  BY <1>1, <1>2 DEF Staged, AppsInv, There
<1>4. TotpInv'
  BY <1>2 DEF Staged, TotpInv, HasTotp
<1>5. LegacyInv'
  <2>1. \A q \in Procs : proc'[q].pc = "unset" => proc[q].pc = "unset"
    BY <1>1
  <2> QED BY <1>2, <2>1 DEF Staged, LegacyInv, HasLegacy
<1>6. OnceInv'
  <2>1. CASE causes' \cap {"again", "overlap", "unread"} # {}
    BY <2>1 DEF OnceInv
  <2>2. CASE causes' \cap {"again", "overlap", "unread"} = {}
    <3>1. causes \cap {"again", "overlap", "unread"} = {} /\ ~Migrating
      BY <2>2 DEF Staged, OnceInv
    <3>2. \A q \in Procs : proc[q].pc \in {"off", "up"}
      BY <3>1 DEF Migrating
    <3>3. CASE marked
      <4>1. \A q \in Procs : proc'[q].pc \in {"off", "up"}
        BY <1>1, <2>2, <3>2, <3>3
      <4> QED BY <1>1, <3>1, <3>3, <4>1 DEF Staged, OnceInv, Migrating
    <3>4. CASE ~marked
      <4>1. proc'[p].pc = "password" /\ \A r \in appRows : r.entry \notin Apps
        BY <1>1, <3>1, <3>4 DEF Staged, OnceInv
      <4>2. Migrating'
        BY <4>1 DEF Migrating
      <4> QED BY <1>1, <3>1, <3>2, <3>4, <4>1, <4>2 DEF Staged, OnceInv
    <3> QED BY <3>3, <3>4
  <2> QED BY <2>1, <2>2
<1> QED BY <1>3, <1>4, <1>5, <1>6 DEF Staged

\* Stopping before the end of the migration is on record; after it nothing is lost.
LEMMA StagedStop ==
  ASSUME ProcsInv, Staged, NEW p \in Procs,
         proc' = [proc EXCEPT ![p] = Off],
         UNCHANGED <<marked, config, appRows, passkeys, legacy, removed>>,
         totp => totp', causes \subseteq causes',
         causes' \cap {"old"} = causes \cap {"old"},
         Up(p) \/ proc[p].pc = "off" \/ "again" \in causes'
  PROVE  Staged'
<1>1. /\ proc' \in [Procs -> [pc : Stages, todo : SUBSET Apps]]
      /\ \A q \in Procs : proc'[q] = proc[q] \/ proc'[q].pc = "off"
  BY DEF ProcsInv, Stages, Off
<1>2. \A S \in {{"legacy", "unset", "mark"}, {"apps", "legacy", "unset", "mark"}, {"mark"}} :
        Reached(S)' => Reached(S)
  BY <1>1 DEF Reached
<1>3. AppsInv'
  BY <1>1, <1>2 DEF Staged, AppsInv, There
<1>4. TotpInv'
  BY <1>2 DEF Staged, TotpInv, HasTotp
<1>5. LegacyInv'
  <2>1. \A q \in Procs : proc'[q].pc = "unset" => proc[q].pc = "unset"
    BY <1>1
  <2> QED BY <1>2, <2>1 DEF Staged, LegacyInv, HasLegacy
<1>6. OnceInv'
  <2>1. CASE causes' \cap {"again", "overlap", "unread"} # {}
    BY <2>1 DEF OnceInv
  <2>2. CASE causes' \cap {"again", "overlap", "unread"} = {}
    <3>1. causes \cap {"again", "overlap", "unread"} = {} /\ proc[p].pc \in {"up", "off"}
      BY <2>2 DEF Up
    <3>2. \A q \in Procs : proc'[q] = proc[q] \/ {proc'[q].pc, proc[q].pc} \subseteq {"up", "off"}
      BY <3>1 DEF ProcsInv, Off
    <3>3. Migrating' <=> Migrating
      BY <3>2 DEF Migrating
    <3> QED BY <3>1, <3>2, <3>3 DEF Staged, OnceInv
  <2> QED BY <2>1, <2>2
<1> QED BY <1>3, <1>4, <1>5, <1>6 DEF Staged

LEMMA OnceOnward ==
  ASSUME ProcsInv, OnceInv, NEW p \in Procs, NEW pc,
         proc[p].pc \notin {"off", "up"}, pc \notin {"off", "password", "up"},
         proc' = [proc EXCEPT ![p].pc = pc], pc \in Stages,
         pc = "apps" => proc[p].pc = "totp",
         pc = "totp" => proc[p].pc = "password",
         causes \subseteq causes', UNCHANGED <<appRows, marked>>
  PROVE  OnceInv'
<1>1. CASE causes' \cap {"again", "overlap", "unread"} # {}
  BY <1>1 DEF OnceInv
<1>2. CASE causes' \cap {"again", "overlap", "unread"} = {}
  <2>1. causes \cap {"again", "overlap", "unread"} = {}
    BY <1>2
  <2>2. /\ \A q \in Procs \ {p} : proc'[q] = proc[q]
        /\ proc'[p].pc = pc /\ proc'[p].todo = proc[p].todo
    BY DEF ProcsInv
  <2>3. Migrating /\ Migrating'
    BY <2>2 DEF Migrating
  <2>4. \A q \in Procs : proc'[q].pc \in {"off", "up"} => proc[q].pc \in {"off", "up"}
    BY <2>2
  <2>5. \A q \in Procs : proc'[q].pc \in {"password", "totp", "apps"} =>
          proc[q].pc \in {"password", "totp", "apps"} /\ proc'[q].todo = proc[q].todo
    BY <2>2
  <2>6. \A q \in Procs : proc[q].pc \in {"off", "up"} => proc'[q].pc \in {"off", "up"}
    BY <2>2
  <2> QED BY <2>1, <2>3, <2>4, <2>5, <2>6 DEF OnceInv
<1> QED BY <1>1, <1>2

LEMMA StagedPassword ==
  ASSUME ProcsInv, Staged, NEW p \in Procs, MigratePassword(p) \/ MigrateTotp(p)
  PROVE  Staged'
<1> USE DEF MigratePassword, MigrateTotp, Stage, Enter
<1>1. PICK pc : /\ proc' = [proc EXCEPT ![p].pc = pc]
                /\ \/ proc[p].pc = "password" /\ pc = "totp" /\ UNCHANGED totp
                   \/ proc[p].pc = "totp" /\ pc = "apps" /\ totp' = (totp \/ config)
  OBVIOUS
<1>2. /\ \A q \in Procs \ {p} : proc'[q] = proc[q]
      /\ proc'[p].pc = pc /\ proc'[p].todo = proc[p].todo
  BY <1>1 DEF ProcsInv
<1>3. UNCHANGED <<marked, config, causes, removed, appRows, passkeys, legacy>> /\ (totp => totp')
  <2>1. UNCHANGED <<marked, config, causes, removed, appRows, passkeys, legacy>>
    OBVIOUS
  <2>2. totp => totp'
    BY <1>1, Zenon
  <2> QED BY <2>1, <2>2
<1>4. \A S \in {{"legacy", "unset", "mark"}, {"mark"}} : Reached(S)' => Reached(S)
  BY <1>1, <1>2, <1>3 DEF Reached
<1>5. AppsInv'
  BY <1>1, <1>2, <1>3, <1>4 DEF Staged, AppsInv, There
<1>6. TotpInv'
  <2>1. CASE pc = "totp"
    <3>1. Reached({"apps", "legacy", "unset", "mark"})' => Reached({"apps", "legacy", "unset", "mark"})
      BY <1>1, <1>2, <1>3, <2>1 DEF Reached
    <3> QED BY <1>1, <1>3, <2>1, <3>1 DEF Staged, TotpInv, HasTotp
  <2>2. CASE pc = "apps"
    <3>1. config => totp'
      BY <1>1, <2>2
    <3> QED BY <1>3, <3>1 DEF TotpInv, HasTotp
  <2> QED BY <1>1, <2>1, <2>2
<1>7. LegacyInv'
  <2>1. \A q \in Procs : proc'[q].pc = "unset" => proc[q].pc = "unset"
    BY <1>1, <1>2
  <2> QED BY <1>3, <1>4, <2>1 DEF Staged, LegacyInv, HasLegacy
<1>8. OnceInv'
  BY <1>1, <1>3, OnceOnward DEF Staged, Stages
<1> QED BY <1>5, <1>6, <1>7, <1>8 DEF Staged

LEMMA StagedApp ==
  ASSUME ProcsInv, Staged, NEW p \in Procs, MigrateApp(p)
  PROVE  Staged'
<1> USE DEF Stage, Enter
<1>1. /\ UNCHANGED <<marked, config, causes, removed, totp, passkeys, legacy>>
      /\ proc[p].pc = "apps"
  BY DEF MigrateApp
<1>2. CASE proc[p].todo = {} /\ Enter(p, "legacy") /\ UNCHANGED appRows
  <2>1. /\ \A q \in Procs \ {p} : proc'[q] = proc[q]
        /\ proc'[p].pc = "legacy" /\ proc'[p].todo = proc[p].todo
    BY <1>2 DEF ProcsInv
  <2>2. \A S \in {{"apps", "legacy", "unset", "mark"}, {"mark"}} : Reached(S)' => Reached(S)
    BY <1>1, <2>1 DEF Reached
  <2>3. AppsInv'
    <3>1. \A app \in Apps : There(app)
      BY <1>1, <1>2 DEF Staged, AppsInv
    <3>2. \A app \in Apps : There(app)'
      BY <1>1, <1>2, <3>1 DEF There
    <3> QED BY <1>1, <1>2, <3>2 DEF Staged, AppsInv
  <2>4. TotpInv'
    BY <1>1, <2>2 DEF Staged, TotpInv, HasTotp
  <2>5. LegacyInv'
    <3>1. \A q \in Procs : proc'[q].pc = "unset" => proc[q].pc = "unset"
      BY <2>1
    <3> QED BY <1>1, <2>2, <3>1 DEF Staged, LegacyInv, HasLegacy
  <2>6. OnceInv'
    <3>1. proc' = [proc EXCEPT ![p].pc = "legacy"] /\ UNCHANGED <<appRows, marked, causes>>
      BY <1>1, <1>2
    <3>2. /\ "legacy" \in Stages /\ "legacy" \notin {"off", "password", "up", "apps", "totp"}
          /\ proc[p].pc \notin {"off", "up"} /\ OnceInv
      BY <1>1 DEF Staged, Stages
    <3> QED BY <3>1, <3>2, OnceOnward
  <2> QED BY <2>3, <2>4, <2>5, <2>6 DEF Staged
<1>3. ASSUME NEW app \in proc[p].todo,
             appRows' = appRows \cup {[id |-> Uuid, entry |-> app]},
             proc' = [proc EXCEPT ![p].todo = @ \ {app}]
      PROVE  Staged'
  <2> DEFINE row == [id |-> Uuid, entry |-> app]
  <2>1. /\ \A q \in Procs \ {p} : proc'[q] = proc[q]
        /\ proc'[p].pc = "apps" /\ proc'[p].todo = proc[p].todo \ {app}
    BY <1>1, <1>3 DEF ProcsInv
  <2>2. \A S : Reached(S)' <=> Reached(S)
    BY <1>1, <2>1 DEF Reached
  <2>3. app \in Apps /\ row.entry = app /\ appRows' = appRows \cup {row}
    BY <1>3 DEF ProcsInv
  <2> HIDE DEF row
  <2>4. AppsInv'
    <3>1. IsFiniteSet(appRows')
      BY <2>3, FS_AddElement DEF Staged, AppsInv
    <3>2. There(app)' /\ \A other : There(other) => There(other)'
      BY <1>1, <2>3 DEF There
    <3> QED BY <1>1, <2>1, <2>2, <3>1, <3>2 DEF Staged, AppsInv
  <2>5. TotpInv'
    BY <1>1, <2>2 DEF Staged, TotpInv, HasTotp
  <2>6. LegacyInv'
    <3>1. \A q \in Procs : proc'[q].pc = "unset" => proc[q].pc = "unset"
      BY <1>1, <2>1
    <3> QED BY <1>1, <2>2, <3>1 DEF Staged, LegacyInv, HasLegacy
  <2>7. OnceInv'
    <3>1. CASE causes \cap {"again", "overlap", "unread"} # {}
      BY <1>1, <3>1 DEF OnceInv
    <3>2. CASE causes \cap {"again", "overlap", "unread"} = {}
      <4>1. \A r \in appRows : r.entry \notin proc[p].todo
        BY <1>1, <3>2 DEF Staged, OnceInv
      <4>2. \A q \in Procs \ {p} : proc[q].pc \in {"off", "up"}
        BY <1>1, <3>2 DEF Staged, OnceInv
      <4>3. Migrating /\ Migrating'
        BY <1>1, <2>1 DEF Migrating
      <4>4. \A q \in Procs : proc'[q].pc \in {"password", "totp", "apps"} => q = p
        BY <2>1, <4>2
      <4>5. \A r \in appRows' : r.entry \notin proc'[p].todo
        BY <2>1, <2>3, <4>1
      <4>6. \A r, s \in appRows' : r.entry \in Apps /\ r.entry = s.entry => r = s
        BY <1>3, <2>3, <3>2, <4>1 DEF Staged, OnceInv
      <4>7. ~marked
        BY <3>2, <4>3 DEF Staged, OnceInv
      <4>8. \A q, o \in Procs : {proc'[q].pc, proc'[o].pc} \cap {"off", "up"} = {} => q = o
        BY <2>1, <4>2
      <4> QED BY <1>1, <4>3, <4>4, <4>5, <4>6, <4>7, <4>8 DEF OnceInv
    <3> QED BY <3>1, <3>2
  <2> QED BY <2>4, <2>5, <2>6, <2>7 DEF Staged
<1> QED BY <1>2, <1>3 DEF MigrateApp

LEMMA StagedLegacy ==
  ASSUME ProcsInv, Staged, NEW p \in Procs, MigrateLegacy(p) \/ MigrateLegacyUnread(p)
  PROVE  Staged'
<1> USE DEF Stage, Enter
<1>1. PICK pc : /\ proc' = [proc EXCEPT ![p].pc = pc] /\ pc \in {"unset", "mark"}
                /\ pc = "mark" => ~legacy'
                /\ proc[p].pc \in {"legacy", "unset"}
                /\ pc = "unset" => DOMAIN passkeys' # {} /\ UNCHANGED legacy
                /\ legacy' => legacy
  <2>1. CASE Stage(p, "legacy") /\ legacy
    <3>1. DOMAIN passkeys' # {}
      BY <2>1 DEF MigrateLegacy, MigrateLegacyUnread
    <3>2. proc' = [proc EXCEPT ![p].pc = "unset"] /\ UNCHANGED legacy
      BY <2>1 DEF MigrateLegacy, MigrateLegacyUnread
    <3>3. proc[p].pc \in {"legacy", "unset"} /\ (legacy' => legacy) /\ "unset" \in {"unset", "mark"}
      BY <2>1, <3>2
    <3> HIDE DEF Stage, Enter
    <3> QED BY <3>1, <3>2, <3>3
  <2>2. CASE Stage(p, "legacy") /\ ~legacy
    BY <2>2 DEF MigrateLegacy, MigrateLegacyUnread
  <2>3. CASE Stage(p, "unset")
    BY <2>3 DEF MigrateLegacy, MigrateLegacyUnread
  <2> QED BY <2>1, <2>2, <2>3 DEF MigrateLegacy, MigrateLegacyUnread
<1>2. UNCHANGED <<marked, config, causes, removed, appRows, totp>>
  BY DEF MigrateLegacy, MigrateLegacyUnread
<1>3. /\ \A q \in Procs \ {p} : proc'[q] = proc[q]
      /\ proc'[p].pc = pc /\ proc'[p].todo = proc[p].todo
  BY <1>1 DEF ProcsInv
<1>4. \A S \in {{"legacy", "unset", "mark"}, {"apps", "legacy", "unset", "mark"}} : Reached(S)' => Reached(S)
  BY <1>1, <1>2, <1>3 DEF Reached
<1>5. AppsInv'
  BY <1>1, <1>2, <1>3, <1>4 DEF Staged, AppsInv, There
<1>6. TotpInv'
  BY <1>2, <1>4 DEF Staged, TotpInv, HasTotp
<1>7. LegacyInv'
  <2>1. CASE "old" \notin causes \/ "legacy" \in causes
    BY <1>2, <2>1 DEF LegacyInv
  <2>2. CASE "old" \in causes /\ "legacy" \notin causes
    <3>1. passkeys' = passkeys \/ HasLegacy'
      BY DEF MigrateLegacy, MigrateLegacyUnread, HasLegacy
    <3>3. HasLegacy => HasLegacy'
      BY <1>2, <3>1 DEF HasLegacy
    <3>4. DOMAIN passkeys # {} \/ ~legacy \/ proc[p].pc = "unset" => HasLegacy
      BY <2>2 DEF Staged, LegacyInv
    <3>5. DOMAIN passkeys' # {} => HasLegacy'
      BY <3>1, <3>3, <3>4
    <3>6. legacy /\ ~legacy' => proc[p].pc = "unset"
      BY DEF MigrateLegacy, MigrateLegacyUnread
    <3>7. ~legacy' \/ (\E q \in Procs : proc'[q].pc = "unset") => HasLegacy'
      BY <1>1, <1>3, <2>2, <3>3, <3>4, <3>5, <3>6 DEF Staged, LegacyInv
    <3>8. Reached({"mark"})' => ~legacy'
      <4>1. Reached({"mark"}) => ~legacy
        BY <2>2 DEF Staged, LegacyInv
      <4>2. Reached({"mark"})' => Reached({"mark"}) \/ pc = "mark"
        BY <1>2, <1>3 DEF Reached
      <4> QED BY <1>1, <4>1, <4>2
    <3> QED BY <3>5, <3>7, <3>8 DEF LegacyInv
  <2> QED BY <2>1, <2>2
<1>8. OnceInv'
  <2>1. /\ pc \in Stages /\ pc \notin {"off", "password", "up", "apps", "totp"}
        /\ proc[p].pc \notin {"off", "up"} /\ OnceInv
    BY <1>1 DEF Staged, Stages
  <2> QED BY <1>1, <1>2, <2>1, OnceOnward
<1> QED BY <1>5, <1>6, <1>7, <1>8 DEF Staged

LEMMA StagedMark ==
  ASSUME ProcsInv, Staged, NEW p \in Procs, SetAuthMigrated(p)
  PROVE  Staged'
<1> USE DEF SetAuthMigrated, Stage, Enter
<1>1. /\ UNCHANGED <<config, causes, removed, appRows, totp, legacy, passkeys>>
      /\ marked' = TRUE /\ proc[p].pc = "mark"
      /\ \A q \in Procs \ {p} : proc'[q] = proc[q]
      /\ proc'[p].pc = "up" /\ proc'[p].todo = proc[p].todo
  BY DEF ProcsInv
<1>2. \A S \in {{"legacy", "unset", "mark"}, {"apps", "legacy", "unset", "mark"}, {"mark"}} : Reached(S)
  BY <1>1 DEF Reached
<1>3. AppsInv'
  BY <1>1, <1>2 DEF Staged, AppsInv, There
<1>4. TotpInv'
  BY <1>1, <1>2 DEF Staged, TotpInv, HasTotp
<1>5. LegacyInv'
  <2>1. \A q \in Procs : proc'[q].pc = "unset" => proc[q].pc = "unset"
    BY <1>1
  <2> QED BY <1>1, <1>2, <2>1 DEF Staged, LegacyInv, HasLegacy
<1>6. OnceInv'
  <2>1. CASE causes \cap {"again", "overlap", "unread"} # {}
    BY <1>1, <2>1 DEF OnceInv
  <2>2. CASE causes \cap {"again", "overlap", "unread"} = {}
    <3>1. \A q \in Procs \ {p} : proc[q].pc \in {"off", "up"}
      BY <1>1, <2>2 DEF Staged, OnceInv
    <3>2. \A q \in Procs : proc'[q].pc \in {"off", "up"}
      BY <1>1, <3>1
    <3>3. ~Migrating'
      BY <3>2 DEF Migrating
    <3>4. \A r, s \in appRows' : r.entry \in Apps /\ r.entry = s.entry => r = s
      BY <1>1, <2>2 DEF Staged, OnceInv
    <3> QED BY <1>1, <3>2, <3>3, <3>4 DEF OnceInv
  <2> QED BY <2>1, <2>2
<1> QED BY <1>3, <1>4, <1>5, <1>6 DEF Staged

LEMMA StagedFails ==
  ASSUME ProcsInv, Staged, NEW p \in Procs, MigrationFails(p)
  PROVE  Staged'
<1> USE DEF Enter
<1>1. CASE proc[p].pc \notin {"legacy", "unset"}
  BY <1>1, StagedStop DEF MigrationFails, settingVars
<1>2. CASE proc[p].pc \in {"legacy", "unset"}
  <2>1. /\ UNCHANGED <<marked, config, removed, appRows, totp, legacy, passkeys>>
        /\ causes' = causes \cup {"legacy"}
        /\ proc' = [proc EXCEPT ![p].pc = "mark"]
    BY <1>2 DEF MigrationFails, settingVars
  <2>2. /\ \A q \in Procs \ {p} : proc'[q] = proc[q]
        /\ proc'[p].pc = "mark" /\ proc'[p].todo = proc[p].todo
    BY <2>1 DEF ProcsInv
  <2>3. \A S \in {{"legacy", "unset", "mark"}, {"apps", "legacy", "unset", "mark"}} : Reached(S)' => Reached(S)
    BY <1>2, <2>1, <2>2 DEF Reached
  <2>4. AppsInv'
    BY <2>1, <2>2, <2>3 DEF Staged, AppsInv, There
  <2>5. TotpInv' /\ LegacyInv'
    BY <2>1, <2>3 DEF Staged, TotpInv, HasTotp, LegacyInv
  <2>6. OnceInv'
    <3>1. /\ "mark" \in Stages /\ "mark" \notin {"off", "password", "up", "apps", "totp"}
          /\ proc[p].pc \notin {"off", "up"} /\ OnceInv
      BY <1>2 DEF Staged, Stages
    <3> QED BY <2>1, <3>1, OnceOnward
  <2> QED BY <2>4, <2>5, <2>6 DEF Staged
<1> QED BY <1>1, <1>2

LEMMA StagedProcess ==
  ASSUME ProcsInv, Staged, MigrationStep \/ \E p \in Procs : Killed(p)
  PROVE  Staged'
<1>1. ASSUME NEW p \in Procs, Setup(p) \/ Exit(p) \/ Killed(p)
      PROVE  Staged'
  <2>1. /\ proc' = [proc EXCEPT ![p] = Off]
        /\ UNCHANGED <<marked, config, appRows, passkeys, legacy, removed>>
        /\ totp => totp'
    BY <1>1 DEF Setup, Exit, Killed, settingVars
  <2>2. /\ causes \subseteq causes'
        /\ causes' \cap {"old"} = causes \cap {"old"}
        /\ Up(p) \/ "again" \in causes'
    BY <1>1 DEF Setup, Exit, Killed
  <2> QED BY <2>1, <2>2, StagedStop
<1> QED BY <1>1, StagedStart, StagedPassword, StagedApp, StagedLegacy, StagedMark, StagedFails DEF MigrationStep

LEMMA MigrationInitHolds ==
  ASSUME Init
  PROVE  MigrationInv
<1>1. BusyInv
  BY DEF Init, SessionsInit, NoOp, BusyInv
<1>2. CASE Unmigrated
  <2>1. IsFiniteSet(appRows)
    BY <1>2, FS_EmptySet DEF Unmigrated
  <2>2. /\ \A p \in Procs : proc[p].pc = "off" /\ proc[p].todo = {}
        /\ appRows = {} /\ DOMAIN passkeys = {} /\ ~marked
        /\ "old" \in causes => legacy
    BY <1>2 DEF Unmigrated, Off, NoKeys, Init, CredentialsInit
  <2>3. ~Migrating /\ \A S \in {{"legacy", "unset", "mark"}, {"apps", "legacy", "unset", "mark"}, {"mark"}} :
                         ~Reached(S)
    BY <2>2 DEF Migrating, Reached
  <2> QED BY <1>1, <2>1, <2>2, <2>3 DEF MigrationInv, AppsInv, TotpInv, LegacyInv, OnceInv
<1>3. CASE Migrated
  <2>1. IsFiniteSet(appRows)
    <3> DEFINE row == [app \in Apps |-> [id |-> 0, entry |-> app]]
    <3>1. appRows = {[id |-> 0, entry |-> app] : app \in Apps}
      BY <1>3 DEF Migrated
    <3>2. row \in Surjection(Apps, appRows)
      BY <3>1 DEF Surjection, Range
    <3> QED BY <3>2, FS_Surjection, CredentialsAssumption
  <2>2. /\ \A p \in Procs : proc[p].pc \in {"off", "up"}
        /\ appRows = {[id |-> 0, entry |-> app] : app \in Apps} /\ marked /\ ~config
        /\ "old" \notin causes
    BY <1>3 DEF Migrated, Off, Init, CredentialsInit
  <2>3. ~Migrating /\ (\A app \in Apps : There(app))
        /\ \A r, s \in appRows : r.entry = s.entry => r = s
    <3>1. ASSUME NEW app \in Apps
          PROVE  There(app)
      <4>1. [id |-> 0, entry |-> app] \in appRows
        BY <2>2
      <4> QED BY <4>1 DEF There
    <3> QED BY <2>2, <3>1 DEF Migrating
  <2> QED BY <1>1, <2>1, <2>2, <2>3 DEF MigrationInv, AppsInv, TotpInv, LegacyInv, OnceInv
<1> QED BY <1>2, <1>3 DEF Init, CredentialsInit

LEMMA MigrationNextHolds ==
  ASSUME IInv, MigrationInv, [Next]_vars
  PROVE  MigrationInv'
<1>1. BusyInv'
  BY BusyStep DEF IInv, MigrationInv
<1>2. CASE Requested
  BY <1>1, <1>2, MigrationRequested DEF IInv, MigrationInv
<1>3. CASE MigrationStep \/ \E p \in Procs : Killed(p)
  BY <1>1, <1>3, StagedProcess DEF IInv, MigrationInv, Staged
<1>4. ASSUME NEW h \in Handlers, NEW b \in Browsers, Handler(h, b)
      PROVE  Requested
  BY <1>4, CredentialsRequested, Quiet DEF IInv, MigrationInv, Handler, credentialVars, settingVars
<1>5. CASE CredentialStep
  BY <1>2, <1>5, CredentialsRequested DEF IInv, MigrationInv
<1>6. CASE UNCHANGED credentialVars
  BY <1>2, <1>6, Quiet DEF credentialVars, settingVars
<1>7. CASE UNCHANGED vars
  BY <1>6, <1>7 DEF vars
<1> QED BY <1>2, <1>3, <1>4, <1>5, <1>6, <1>7 DEF Next

LEMMA MigrationInvariance == Spec => []MigrationInv
BY MigrationInitHolds, MigrationNextHolds, Invariance, PTL DEF Spec

\* How many rows have the entry.
LEMMA OneCopy ==
  ASSUME NEW app, IsFiniteSet(appRows)
  PROVE  /\ Copies(app) >= 1 <=> \E row \in appRows : row.entry = app
         /\ (\A r, s \in appRows : r.entry = app /\ s.entry = app => r = s) => Copies(app) <= 1
<1> DEFINE rows == {row \in appRows : row.entry = app}
<1>1. IsFiniteSet(rows)
  BY FS_Subset
<1>2. Cardinality(rows) \in Nat /\ (Cardinality(rows) = 0 <=> rows = {})
  BY <1>1, FS_CardinalityType, FS_EmptySet
<1>3. ASSUME \A r, s \in appRows : r.entry = app /\ s.entry = app => r = s
      PROVE  Cardinality(rows) <= 1
  <2>1. CASE rows = {}
    BY <1>2, <2>1
  <2>2. ASSUME NEW row \in rows
        PROVE  Cardinality(rows) <= 1
    <3>1. rows = {row}
      BY <1>3
    <3> QED BY <3>1, FS_Singleton
  <2> QED BY <2>1, <2>2
<1> QED BY <1>2, <1>3 DEF Copies

\* Once the migration is marked as done the owner can log in with what the configuration had:
\* an app password is there once, unless it was deleted, TOTP unless it was turned off, and the
\* old passkey; a start that was cut short or could not read the mark, or another process, may have
\* inserted some twice.
THEOREM MigrationCompletes == Spec => []MigrationIsComplete
<1>1. ASSUME MigrationInv, marked, ~Migrating
      PROVE  /\ \A app \in Apps :
                  /\ app \in removed \/ Copies(app) >= 1
                  /\ Copies(app) <= 1 \/ causes \cap {"again", "overlap", "unread"} # {}
             /\ config => totp \/ "nototp" \in causes
             /\ "old" \in causes => \/ ~legacy /\ (Legacy \in DOMAIN passkeys \/ Legacy \in removed)
                                   \/ "legacy" \in causes
  <2>1. \A S : Reached(S)
    BY <1>1 DEF Reached
  <2>2. ASSUME NEW app \in Apps
        PROVE  /\ app \in removed \/ Copies(app) >= 1
               /\ Copies(app) <= 1 \/ causes \cap {"again", "overlap", "unread"} # {}
    <3>1. IsFiniteSet(appRows) /\ There(app)
      BY <1>1, <2>1 DEF MigrationInv, AppsInv
    <3>2. \/ causes \cap {"again", "overlap", "unread"} # {}
          \/ \A r, s \in appRows : r.entry = app /\ s.entry = app => r = s
      BY <1>1 DEF MigrationInv, OnceInv
    <3> QED BY <3>1, <3>2, OneCopy DEF There
  <2>3. config => HasTotp
    BY <1>1, <2>1 DEF MigrationInv, TotpInv
  <2>4. "old" \in causes => "legacy" \in causes \/ (~legacy /\ HasLegacy)
    <3>1. Reached({"mark"})
      BY <2>1
    <3> QED BY <1>1, <3>1, Zenon DEF MigrationInv, LegacyInv
  <2> QED BY <2>2, <2>3, <2>4 DEF HasTotp, HasLegacy
<1>2. MigrationInv => MigrationIsComplete
  BY <1>1 DEF MigrationIsComplete
<1> QED BY <1>2, MigrationInvariance, PTL

-----------------------------------------------------------------------------
(***************************************************************************)
(* The captcha.  A row of the table is in the hands of one browser and one *)
(* kind: the one whose cookie has its id, and the handlers of that browser *)
(* that loaded it.  A captcha is in the hands of one browser likewise.     *)
(***************************************************************************)

StepsOf == [l |-> {"logout", "login"}, c |-> {"show", "solved"},
            wa |-> {"challenge", "savekey", "name", "endceremony"}]

\* Steps that know their browser, and load its session when they are done.
Waiting == {"user", "loadlogin", "loadceremony"}

\* The handler h has loaded the session of its browser for this kind, and the id of it.
Carries(h, b, kind) == op[h].pc \in StepsOf[kind] /\ op[h].browser = b

Holds(b, kind, id) ==
  \/ cookie[b][kind] = id
  \/ \E h \in Handlers : Carries(h, b, kind) /\ op[h].ses = id

HoldersInv ==
  /\ now \in Nat /\ \A s \in sessions : s.expires \in Nat
  /\ cookie \in [Browsers -> [Kinds -> Ids]]
  /\ \A h \in Handlers, kind \in Kinds : op[h].pc \in StepsOf[kind] => op[h].browser \in Browsers
  /\ \A s \in sessions : \A b, c \in Browsers, k, l \in Kinds :
       Holds(b, k, s.id) /\ Holds(c, l, s.id) => b = c /\ k = l

\* The browser b, or a handler of it, knows the captcha x.
Knows(b, x) ==
  \/ \E s \in sessions : s.id = cookie[b]["c"] /\ s.values.captcha = x
  \/ \E h \in Handlers : Carries(h, b, "c") /\ op[h].arg.captcha = x
  \/ calm[b] = "asked" /\ page[b].id = x

CaptchasInv ==
  /\ \A c \in captchas : c.id \in 1 .. uuids
  /\ \A c, d \in captchas : c.id = d.id => c = d
  /\ \A b \in Browsers : \A x : Knows(b, x) => x \in Ids
  /\ \A b, c \in Browsers : \A x \in 1 .. uuids : Knows(b, x) /\ Knows(c, x) => b = c

CalmInv ==
  /\ DOMAIN calm = Browsers /\ DOMAIN page = Browsers
  /\ \A h \in Handlers : op[h].pc \in Waiting \cup {"ask"} => op[h].browser \in Browsers
  /\ \A h \in Handlers : op[h].pc = "solved" => op[h].arg.solved = TRUE
  /\ \A b \in Browsers : calm[b] = "asked" => \A h \in Handlers : ~Asking(h, b)
  /\ CaptchaHolds

CaptchaInv == HoldersInv /\ CaptchasInv /\ CalmInv

\* The next operation of h, and nobody else's.
Acts(h, pc, b, ses, arg) ==
  /\ op'[h] = [pc |-> pc, browser |-> b, ses |-> ses, arg |-> arg]
  /\ \A g \in Handlers \ {h} : op'[g] = op[g]

LEMMA Acting ==
  ASSUME Basic, NEW h \in Handlers, NEW pc, NEW b, NEW ses, NEW arg
  PROVE  /\ Begin(h, b, pc, ses, arg) => Acts(h, pc, b, ses, arg)
         /\ Goto(h, pc, ses, arg) => Acts(h, pc, op[h].browser, ses, arg)
         /\ Respond(h) => Acts(h, "idle", None, None, None)
<1>1. \E f : op = [g \in Handlers |-> f[g]]
  <2>1. op = [g \in Handlers |-> [pc |-> op[g].pc, browser |-> op[g].browser, ses |-> op[g].ses, arg |-> op[g].arg]]
    BY DEF Basic, Shaped
  <2>2. op = [g \in Handlers |-> op[g]]
    BY <2>1
  <2> QED BY <2>2
<1> QED BY <1>1 DEF Begin, Goto, Respond, NoOp, Acts

\* What h carries next is what its browser has in hands.
Rightly(h) ==
  /\ \A g \in Handlers \ {h} : op'[g] = op[g]
  /\ \A kind \in Kinds : op'[h].pc \in StepsOf[kind] =>
       /\ op'[h].browser \in Browsers
       /\ op'[h].ses = None \/ Holds(op'[h].browser, kind, op'[h].ses)
  /\ op'[h].pc \in Waiting => op'[h].browser \in Browsers

LEMMA LoadedHeld ==
  ASSUME NEW b, NEW kind, NEW id \in Reads(b, kind)
  PROVE  id = None \/ Holds(b, kind, id)
BY DEF Reads, LoadedId, Loaded, Holds

\* Whom a handler answers, or leads to a step that carries nothing.
LEMMA RightlyAway ==
  ASSUME NEW h \in Handlers, NEW pc, NEW b, NEW ses, NEW arg, Acts(h, pc, b, ses, arg),
         pc \notin {"logout", "login", "show", "solved", "challenge", "savekey", "name", "endceremony"},
         pc \in Waiting => b \in Browsers
  PROVE  Rightly(h)
BY DEF Acts, Rightly, StepsOf, Kinds

LEMMA RightlyOn ==
  ASSUME NEW h \in Handlers, NEW pc, NEW b \in Browsers, NEW ses, NEW arg, Acts(h, pc, b, ses, arg),
         NEW kind \in Kinds, pc \in StepsOf[kind], ses = None \/ Holds(b, kind, ses)
  PROVE  Rightly(h)
BY DEF Acts, Rightly, StepsOf, Kinds, Waiting

\* Ids in hands were given out.
LEMMA HeldIds ==
  ASSUME Basic, HoldersInv, NEW b \in Browsers, NEW kind \in Kinds, NEW id, Holds(b, kind, id)
  PROVE  id \in Ids
BY DEF Basic, HoldersInv, Holds

\* No row is new, a cookie is set to what its browser has in hands.
LEMMA HoldersStay ==
  ASSUME Basic, HoldersInv, NEW h \in Handlers, Rightly(h), Fresh, uuids' \in Nat,
         now' = now, \A s \in sessions' : s.expires \in Nat /\ \E r \in sessions : r.id = s.id,
         NEW b \in Browsers, NEW kind \in Kinds, NEW id, id = None \/ Holds(b, kind, id),
         cookie' \in {cookie, [cookie EXCEPT ![b][kind] = id]}
  PROVE  HoldersInv'
<1>1. Ids \subseteq Ids' /\ id \in Ids
  BY HeldIds DEF Basic, Fresh, Ids
<1>2. /\ cookie' \in [Browsers -> [Kinds -> Ids]]
      /\ \A c \in Browsers, l \in Kinds : cookie'[c][l] = cookie[c][l] \/ (c = b /\ l = kind /\ cookie'[c][l] = id)
  BY <1>1 DEF HoldersInv
<1>3. cookie' \in [Browsers -> [Kinds -> Ids']]
  BY <1>1, <1>2
<1>4. \A s \in sessions : s.id # None
  BY SessionsAssumption DEF Basic, Numbered
<1>5. \A s \in sessions : \A c \in Browsers, l \in Kinds : Holds(c, l, s.id)' => Holds(c, l, s.id)
  <2>1. SUFFICES ASSUME NEW s \in sessions, NEW c \in Browsers, NEW l \in Kinds, Holds(c, l, s.id)'
                 PROVE  Holds(c, l, s.id)
    OBVIOUS
  <2>2. CASE cookie'[c][l] = s.id
    BY <1>2, <1>4, <2>2 DEF Holds
  <2>3. ASSUME NEW g \in Handlers, Carries(g, c, l)', op'[g].ses = s.id
        PROVE  Holds(c, l, s.id)
    <3>1. CASE g = h
      BY <1>4, <2>3, <3>1 DEF Rightly, Carries
    <3>2. CASE g # h
      BY <2>3, <3>2 DEF Rightly, Carries, Holds
    <3> QED BY <3>1, <3>2
  <2> QED BY <2>1, <2>2, <2>3 DEF Holds
<1>6. \A g \in Handlers, l \in Kinds : op'[g].pc \in StepsOf[l] => op'[g].browser \in Browsers
  BY DEF Rightly, HoldersInv
<1>7. \A s \in sessions' : \A c, d \in Browsers, k, l \in Kinds :
        Holds(c, k, s.id)' /\ Holds(d, l, s.id)' => c = d /\ k = l
  BY <1>5 DEF HoldersInv
<1> QED BY <1>3, <1>6, <1>7 DEF HoldersInv

\* A new row is in the hands of the browser whose cookie gets its id.
LEMMA HoldersNew ==
  ASSUME Basic, HoldersInv, NEW h \in Handlers, Rightly(h),
         now' = now, uuids' = Uuid,
         NEW row, row.id = Uuid, row.expires \in Nat, sessions' = sessions \cup {row},
         NEW b \in Browsers, NEW kind \in Kinds, cookie' = [cookie EXCEPT ![b][kind] = Uuid]
  PROVE  HoldersInv'
<1>1. Ids \subseteq Ids' /\ Uuid \in Ids' /\ Uuid \notin Ids /\ None \notin 1 .. Uuid
  BY SessionsAssumption DEF Basic, Ids, Uuid
<1>2. /\ cookie' \in [Browsers -> [Kinds -> Ids']]
      /\ \A c \in Browsers, l \in Kinds : cookie'[c][l] = cookie[c][l] \/ (c = b /\ l = kind /\ cookie'[c][l] = Uuid)
  BY <1>1 DEF HoldersInv
<1>3. \A g \in Handlers, c \in Browsers, l \in Kinds :
        Carries(g, c, l)' => op'[g].ses = None \/ Holds(c, l, op'[g].ses)
  <2>1. SUFFICES ASSUME NEW g \in Handlers, NEW c \in Browsers, NEW l \in Kinds, Carries(g, c, l)'
                 PROVE  op'[g].ses = None \/ Holds(c, l, op'[g].ses)
    OBVIOUS
  <2>2. CASE g = h
    BY <2>1, <2>2 DEF Rightly, Carries
  <2>3. CASE g # h
    BY <2>1, <2>3 DEF Rightly, Carries, Holds
  <2> QED BY <2>2, <2>3
<1>4. \A i \in 1 .. Uuid : \A c \in Browsers, l \in Kinds :
        Holds(c, l, i)' => Holds(c, l, i) \/ (c = b /\ l = kind /\ i = Uuid)
  BY <1>1, <1>2, <1>3 DEF Holds
<1>5. \A c \in Browsers, l \in Kinds : ~Holds(c, l, Uuid)
  BY <1>1, HeldIds
<1>6. \A g \in Handlers, l \in Kinds : op'[g].pc \in StepsOf[l] => op'[g].browser \in Browsers
  BY DEF Rightly, HoldersInv
<1>7. \A s \in sessions' : s.id \in 1 .. Uuid /\ (s \in sessions \/ s.id = Uuid)
  BY DEF Basic, Numbered, Uuid
<1>8. \A s \in sessions' : \A c, d \in Browsers, k, l \in Kinds :
        Holds(c, k, s.id)' /\ Holds(d, l, s.id)' => c = d /\ k = l
  <2>1. SUFFICES ASSUME NEW s \in sessions', NEW c \in Browsers, NEW d \in Browsers,
                        NEW k \in Kinds, NEW l \in Kinds, Holds(c, k, s.id)', Holds(d, l, s.id)'
                 PROVE  c = d /\ k = l
    OBVIOUS
  <2>2. CASE s.id = Uuid
    BY <1>4, <1>5, <1>7, <2>1, <2>2
  <2>3. CASE s.id # Uuid
    BY <1>4, <1>7, <2>1, <2>3 DEF HoldersInv
  <2> QED BY <2>2, <2>3
<1> QED BY <1>2, <1>6, <1>8 DEF HoldersInv

\* A handler saves or deletes the session it carries.
LEMMA HoldersSave ==
  ASSUME Basic, HoldersInv, NEW h \in Handlers, Rightly(h), NEW b \in Browsers, NEW kind \in Kinds,
         Carries(h, b, kind), NEW values,
         Save(b, kind, op[h].ses, values) \/ DeleteSession(b, kind, op[h].ses)
  PROVE  HoldersInv'
<1> USE DEF SetCookie
<1>1. Holds(b, kind, op[h].ses)
  BY DEF Holds
<1>2. CASE Save(b, kind, None, values) /\ op[h].ses = None
  <2> DEFINE row == [id |-> Uuid, kind |-> kind, values |-> values, expires |-> now + Age[kind]]
  <2>1. row.expires \in Nat /\ row.id = Uuid
    BY SessionsAssumption DEF HoldersInv
  <2>2. sessions' = sessions \cup {row} /\ now' = now /\ uuids' = Uuid /\ cookie' = [cookie EXCEPT ![b][kind] = Uuid]
    BY <1>2 DEF Save
  <2> HIDE DEF row
  <2> QED BY <2>1, <2>2, HoldersNew
<1>3. CASE Save(b, kind, op[h].ses, values) /\ op[h].ses # None
  <2>1. /\ sessions' = {IF s.id = op[h].ses THEN [s EXCEPT !.values = values] ELSE s : s \in sessions}
        /\ cookie' = [cookie EXCEPT ![b][kind] = op[h].ses] /\ now' = now
    BY <1>3 DEF Save
  <2>2. \A s \in sessions : [s EXCEPT !.values = values]
          = [id |-> s.id, kind |-> s.kind, values |-> values, expires |-> s.expires]
    BY DEF Basic, Numbered
  <2>3. \A s \in sessions' : s.expires \in Nat /\ \E r \in sessions : r.id = s.id
    BY <2>1, <2>2 DEF HoldersInv
  <2>4. Fresh /\ uuids' \in Nat
    BY <1>3, Saving
  <2> QED BY <1>1, <2>1, <2>3, <2>4, HoldersStay
<1>4. CASE DeleteSession(b, kind, op[h].ses)
  <2>1. /\ cookie' = [cookie EXCEPT ![b][kind] = None] /\ now' = now
        /\ \A s \in sessions' : s \in sessions
    BY <1>4 DEF DeleteSession
  <2>2. \A s \in sessions' : s.expires \in Nat /\ \E r \in sessions : r.id = s.id
    BY <2>1 DEF HoldersInv
  <2>3. Fresh /\ uuids' \in Nat
    BY <1>4, Deleting DEF Basic
  <2> QED BY <1>1, <2>1, <2>2, <2>3, HoldersStay
<1> QED BY <1>2, <1>3, <1>4

\* The rows in hands of the browser b for captchas.
RowsOf(b) == {s \in sessions : s.id = cookie[b]["c"]}

\* A row that a handler saves is its browser's: the rows of the others stay.
LEMMA RowsSaved ==
  ASSUME Basic, HoldersInv, NEW h \in Handlers, NEW b \in Browsers, NEW kind \in Kinds,
         Carries(h, b, kind), NEW values,
         Save(b, kind, op[h].ses, values) \/ DeleteSession(b, kind, op[h].ses)
  PROVE  \A c \in Browsers : kind # "c" \/ c # b => RowsOf(c)' \subseteq RowsOf(c)
<1> USE DEF SetCookie
<1>1. \A s \in sessions : [s EXCEPT !.values = values]
        = [id |-> s.id, kind |-> s.kind, values |-> values, expires |-> s.expires]
  BY DEF Basic, Numbered
<1>2. SUFFICES ASSUME NEW c \in Browsers, kind # "c" \/ c # b, NEW s \in sessions', s.id = cookie'[c]["c"]
               PROVE  s \in sessions /\ s.id = cookie[c]["c"]
  BY DEF RowsOf
<1>3. cookie'[c]["c"] = cookie[c]["c"] /\ "c" \in Kinds
  BY <1>2 DEF HoldersInv, Save, DeleteSession, Kinds
<1>4. Holds(c, "c", s.id)
  BY <1>2, <1>3 DEF Holds
<1>5. ASSUME s.id = op[h].ses, \E r \in sessions : r.id = s.id
      PROVE  FALSE
  <2>1. Holds(b, kind, s.id)
    BY <1>5 DEF Holds
  <2> QED BY <1>2, <1>3, <1>4, <1>5, <2>1 DEF HoldersInv
<1>6. CASE Save(b, kind, None, values) /\ op[h].ses = None
  <2>1. s \in sessions \/ s.id = Uuid
    BY <1>6 DEF Save
  <2>2. s.id \in Ids
    BY <1>2, <1>3, <1>4, HeldIds
  <2>3. Uuid \notin Ids
    BY SessionsAssumption DEF Ids, Basic, Uuid
  <2> QED BY <1>2, <1>3, <2>1, <2>2, <2>3
<1>7. CASE Save(b, kind, op[h].ses, values) /\ op[h].ses # None
  <2>1. PICK r \in sessions : s = (IF r.id = op[h].ses THEN [r EXCEPT !.values = values] ELSE r)
    BY <1>7 DEF Save
  <2>2. s.id = r.id
    BY <1>1, <2>1
  <2>3. s = r
    BY <1>5, <2>1, <2>2
  <2> QED BY <1>2, <1>3, <2>3
<1>8. CASE DeleteSession(b, kind, op[h].ses)
  BY <1>2, <1>3, <1>8 DEF DeleteSession
<1> QED BY <1>2, <1>6, <1>7, <1>8

\* What a handler saves is what its browser has then.
LEMMA RowsMine ==
  ASSUME Basic, HoldersInv, NEW h \in Handlers, NEW b \in Browsers, NEW values,
         Save(b, "c", op[h].ses, values)
  PROVE  \A s \in RowsOf(b)' : s.values = values
<1> USE DEF SetCookie, Kinds
<1>1. \A s \in sessions : [s EXCEPT !.values = values]
        = [id |-> s.id, kind |-> s.kind, values |-> values, expires |-> s.expires]
  BY DEF Basic, Numbered
<1>2. CASE op[h].ses = None
  <2>1. cookie'[b]["c"] = Uuid
    BY <1>2 DEF Save, HoldersInv
  <2>2. \A s \in sessions : s.id # Uuid
    BY DEF Basic, Numbered, Uuid
  <2> QED BY <1>2, <2>1, <2>2 DEF Save, RowsOf
<1>3. CASE op[h].ses # None
  <2>1. cookie'[b]["c"] = op[h].ses
    BY <1>3 DEF Save, HoldersInv
  <2>2. sessions' = {IF s.id = op[h].ses THEN [s EXCEPT !.values = values] ELSE s : s \in sessions}
    BY <1>3 DEF Save
  <2> QED BY <1>1, <2>1, <2>2 DEF RowsOf
<1> QED BY <1>2, <1>3

\* Steps of other requests.
Elsewhere ==
  /\ captchas' \subseteq captchas /\ UNCHANGED <<page, calm>>
  /\ \A h \in Handlers : op'[h].pc \in {"ask", "show", "solved"} => op'[h] = op[h]
  /\ \A h \in Handlers : op'[h].pc \in Waiting => op'[h].browser \in Browsers
  /\ \A b \in Browsers : RowsOf(b)' \subseteq RowsOf(b)
  /\ now' \in Nat /\ now' >= now
  /\ uuids' \in Nat /\ uuids' >= uuids

LEMMA LoadedLess ==
  ASSUME HoldersInv, HoldersInv', NEW b \in Browsers, RowsOf(b)' \subseteq RowsOf(b), now' >= now
  PROVE  Loaded(b, "c")' \subseteq Loaded(b, "c")
<1>1. \A s \in sessions : s \in sessions' /\ s.expires > now' => s.expires > now
  BY DEF HoldersInv
<1> QED BY <1>1 DEF Loaded, RowsOf

LEMMA ElsewhereKeeps ==
  ASSUME Basic, CaptchaInv, HoldersInv', Elsewhere
  PROVE  CaptchasInv' /\ CalmInv'
<1>1. \A b \in Browsers : \A x : Knows(b, x)' => Knows(b, x)
  BY DEF Elsewhere, Knows, Carries, StepsOf, RowsOf
<1>2. 1 .. uuids \subseteq 1 .. uuids' /\ Ids \subseteq Ids'
  BY DEF Basic, Elsewhere, Ids
<1>3. CaptchasInv'
  <2>1. \A c \in captchas' : c.id \in 1 .. uuids'
    BY <1>2 DEF CaptchaInv, CaptchasInv, Elsewhere
  <2>2. \A c, d \in captchas' : c.id = d.id => c = d
    BY DEF CaptchaInv, CaptchasInv, Elsewhere
  <2>3. \A b \in Browsers : \A x : Knows(b, x)' => x \in Ids'
    BY <1>1, <1>2 DEF CaptchaInv, CaptchasInv
  <2>4. \A b, c \in Browsers : \A x \in 1 .. uuids' : Knows(b, x)' /\ Knows(c, x)' => b = c
    BY <1>1, SessionsAssumption DEF CaptchaInv, CaptchasInv, Ids, Elsewhere
  <2> QED BY <2>1, <2>2, <2>3, <2>4 DEF CaptchasInv
<1>4. CaptchaHolds'
  <2>1. \A b \in Browsers : Loaded(b, "c")' \subseteq Loaded(b, "c")
    BY LoadedLess DEF Elsewhere, CaptchaInv
  <2>2. \A x : Stored(x)' \subseteq Stored(x)
    BY DEF Stored, Elsewhere
  <2> QED BY <2>1, <2>2 DEF CaptchaHolds, CaptchaInv, CalmInv, Elsewhere
<1>5. \A h \in Handlers, b \in Browsers : Asking(h, b)' => Asking(h, b)
  BY DEF Asking, Elsewhere
<1>6. CalmInv'
  BY <1>4, <1>5 DEF CaptchaInv, CalmInv, Elsewhere
<1> QED BY <1>3, <1>6

\* A handler of another request goes on, and the table is as it was; a cookie of its browser
\* may be gone.
LEMMA ElsewhereDrop ==
  ASSUME Basic, CaptchaInv, NEW h \in Handlers, Rightly(h), op'[h].pc \notin {"ask", "show", "solved"},
         UNCHANGED <<sessions, now, uuids, captchaVars>>,
         NEW b \in Browsers, NEW kind \in Kinds \ {"c"}, SetCookie(b, kind, None)
  PROVE  CaptchaInv'
<1>1. Fresh /\ uuids' \in Nat
  BY SameSessions
<1>2. \A s \in sessions' : s.expires \in Nat /\ \E r \in sessions : r.id = s.id
  BY DEF HoldersInv, CaptchaInv
<1>3. HoldersInv'
  BY <1>1, <1>2, HoldersStay DEF CaptchaInv, SetCookie
<1>4. \A c \in Browsers : cookie'[c]["c"] = cookie[c]["c"]
  BY DEF SetCookie, CaptchaInv, HoldersInv, Kinds
<1>5. Elsewhere
  BY <1>1, <1>4 DEF Elsewhere, Rightly, captchaVars, CaptchaInv, CalmInv, HoldersInv, Fresh, RowsOf
<1> QED BY <1>3, <1>5, ElsewhereKeeps DEF CaptchaInv

LEMMA ElsewhereOn ==
  ASSUME Basic, CaptchaInv, NEW h \in Handlers, Rightly(h), op'[h].pc \notin {"ask", "show", "solved"},
         UNCHANGED <<sessions, cookie, now, captchaVars>>, uuids' \in {uuids, Uuid}
  PROVE  CaptchaInv'
<1>1. uuids' \in Nat /\ Fresh
  BY SameSessions
<1>2. CASE Browsers = {}
  <2>1. HoldersInv'
    BY <1>2 DEF HoldersInv, Rightly, CaptchaInv
  <2>2. Elsewhere
    BY <1>1, <1>2 DEF Elsewhere, Rightly, captchaVars, CaptchaInv, CalmInv, HoldersInv, Fresh
  <2> QED BY <2>1, <2>2, ElsewhereKeeps DEF CaptchaInv
<1>3. ASSUME NEW b \in Browsers
      PROVE  CaptchaInv'
  <2>1. "c" \in Kinds /\ \A s \in sessions' : s.expires \in Nat /\ \E r \in sessions : r.id = s.id
    BY DEF HoldersInv, CaptchaInv, Kinds
  <2>2. HoldersInv'
    BY <1>1, <2>1, HoldersStay DEF CaptchaInv
  <2>3. Elsewhere
    <3>1. \A g \in Handlers : op'[g].pc \in Waiting => op'[g].browser \in Browsers
      BY DEF Rightly, CaptchaInv, CalmInv
    <3>2. \A g \in Handlers : op'[g].pc \in {"ask", "show", "solved"} => op'[g] = op[g]
      BY DEF Rightly
    <3>3. now' \in Nat /\ now' >= now
      BY DEF CaptchaInv, HoldersInv
    <3> QED BY <1>1, <3>1, <3>2, <3>3 DEF Elsewhere, captchaVars, Fresh, RowsOf
  <2> QED BY <2>2, <2>3, ElsewhereKeeps DEF CaptchaInv
<1> QED BY <1>2, <1>3

\* A handler of another request saves or deletes the session it carries.
LEMMA ElsewhereSave ==
  ASSUME Basic, CaptchaInv, NEW h \in Handlers, Rightly(h), op'[h].pc \notin {"ask", "show", "solved"},
         UNCHANGED captchaVars, NEW b \in Browsers, NEW kind \in Kinds \ {"c"}, Carries(h, b, kind),
         NEW values, Save(b, kind, op[h].ses, values) \/ DeleteSession(b, kind, op[h].ses)
  PROVE  CaptchaInv'
<1>1. HoldersInv'
  BY HoldersSave DEF CaptchaInv
<1>2. \A c \in Browsers : RowsOf(c)' \subseteq RowsOf(c)
  BY RowsSaved DEF CaptchaInv
<1>3. uuids' \in Nat /\ Fresh /\ now' = now
  BY Saving, Deleting DEF Basic, Save, DeleteSession
<1>4. Elsewhere
  BY <1>2, <1>3 DEF Elsewhere, Rightly, captchaVars, CaptchaInv, CalmInv, HoldersInv, Fresh
<1> QED BY <1>1, <1>4, ElsewhereKeeps DEF CaptchaInv

\* The handlers do not move.
LEMMA ElsewhereQuiet ==
  ASSUME Basic, CaptchaInv, UNCHANGED <<op, cookie, page, calm>>, captchas' \subseteq captchas,
         sessions' \subseteq sessions, now' \in {now, now + 1}, uuids' \in {uuids, Uuid}
  PROVE  CaptchaInv'
<1>1. uuids' \in Nat /\ uuids' >= uuids /\ Ids \subseteq Ids'
  BY DEF Basic, Uuid, Ids
<1>2. \A b, kind, id : Holds(b, kind, id)' <=> Holds(b, kind, id)
  BY DEF Holds, Carries
<1>3. cookie' \in [Browsers -> [Kinds -> Ids']]
  BY <1>1 DEF HoldersInv, CaptchaInv
<1>4. HoldersInv'
  BY <1>2, <1>3 DEF HoldersInv, CaptchaInv
<1>5. Elsewhere
  BY <1>1 DEF Elsewhere, CaptchaInv, CalmInv, HoldersInv, RowsOf
<1> QED BY <1>4, <1>5, ElsewhereKeeps DEF CaptchaInv

LEMMA LoginSteps ==
  ASSUME Basic, CaptchaInv, UNCHANGED captchaVars, NEW h \in Handlers,
         \/ LogoutDelete(h) \/ LoadLogin(h) \/ SaveLogin(h) \/ SessionFails(h)
         \/ \E b \in Browsers : Logout(h, b)
  PROVE  CaptchaInv'
<1> USE DEF sessionVars
<1>1. ASSUME NEW b \in Browsers, Logout(h, b)
      PROVE  CaptchaInv'
  <2>1. PICK id \in Reads(b, "l") : Acts(h, "logout", b, id, None) /\ UNCHANGED sessionVars
    BY <1>1, Acting DEF Logout
  <2>2. "l" \in Kinds /\ "logout" \in StepsOf["l"]
    BY DEF Kinds, StepsOf
  <2>3. Rightly(h)
    BY <2>1, <2>2, LoadedHeld, RightlyOn
  <2> QED BY <2>1, <2>3, ElsewhereOn DEF Acts
<1>2. ASSUME op[h].pc \in StepsOf["l"], Respond(h),
             NEW values, \/ Save(op[h].browser, "l", op[h].ses, values)
                        \/ DeleteSession(op[h].browser, "l", op[h].ses)
      PROVE  CaptchaInv'
  <2>1. Acts(h, "idle", None, None, None)
    BY <1>2, Acting
  <2>2. Rightly(h) /\ op'[h].pc = "idle"
    BY <2>1, RightlyAway DEF Acts, Waiting
  <2>3. "l" \in Kinds \ {"c"}
    BY DEF Kinds
  <2>4. Carries(h, op[h].browser, "l") /\ op[h].browser \in Browsers
    BY <1>2, <2>3 DEF Carries, CaptchaInv, HoldersInv
  <2> QED BY <1>2, <2>2, <2>3, <2>4, ElsewhereSave
<1>3. CASE LogoutDelete(h) \/ SaveLogin(h)
  BY <1>2, <1>3 DEF LogoutDelete, SaveLogin, At, StepsOf
<1>4. CASE LoadLogin(h)
  <2>1. PICK id \in Reads(op[h].browser, "l") : Acts(h, "login", op[h].browser, id, None) /\ UNCHANGED sessionVars
    BY <1>4, Acting DEF LoadLogin
  <2>2. op[h].browser \in Browsers /\ "l" \in Kinds /\ "login" \in StepsOf["l"]
    BY <1>4 DEF LoadLogin, At, Waiting, CaptchaInv, CalmInv, Kinds, StepsOf
  <2>3. Rightly(h)
    BY <2>1, <2>2, LoadedHeld, RightlyOn
  <2> QED BY <2>1, <2>3, ElsewhereOn DEF Acts
<1>5. CASE SessionFails(h)
  <2>1. Acts(h, "idle", None, None, None) /\ op[h].pc \in StepsOf["l"]
    BY <1>5, Acting DEF SessionFails, At, StepsOf
  <2>2. Rightly(h) /\ op'[h].pc = "idle"
    BY <2>1, RightlyAway DEF Acts, Waiting
  <2>3. "l" \in Kinds \ {"c"} /\ op[h].browser \in Browsers
    BY <2>1 DEF Kinds, CaptchaInv, HoldersInv
  <2>4. UNCHANGED <<now, uuids, sessions>> /\ (SetCookie(op[h].browser, "l", None) \/ UNCHANGED cookie)
    BY <1>5 DEF SessionFails
  <2> QED BY <2>2, <2>3, <2>4, ElsewhereOn, ElsewhereDrop
<1> QED BY <1>1, <1>3, <1>4, <1>5

\* Steps of a ceremony that carry the session of its browser, or none yet.
LEMMA CeremonyCarries ==
  ASSUME Basic, CaptchaInv, UNCHANGED captchaVars, NEW h \in Handlers,
         \/ UserId(h) \/ LoadCeremony(h) \/ PasskeyName(h) \/ SavePasskey(h)
         \/ \E b \in Browsers : LoginWithPassword(h, b)
         \/ \E b \in Browsers, ceremony \in {"register", "login"} : BeginCeremony(h, b, ceremony)
         \/ \E b \in Browsers, k \in Passkeys : FinishCeremony(h, b, k)
  PROVE  CaptchaInv'
<1> USE DEF sessionVars
<1>1. {"l", "wa"} \subseteq Kinds /\ "login" \in StepsOf["l"]
      /\ {"challenge", "savekey", "name", "endceremony"} \subseteq StepsOf["wa"]
  BY DEF Kinds, StepsOf
<1>2. ASSUME NEW b \in Browsers, LoginWithPassword(h, b)
      PROVE  CaptchaInv'
  <2>1. Acts(h, "loadlogin", b, None, None) /\ UNCHANGED sessionVars
    BY <1>2, Acting DEF LoginWithPassword
  <2>2. Rightly(h)
    BY <2>1, RightlyAway
  <2> QED BY <2>1, <2>2, ElsewhereOn DEF Acts
<1>3. ASSUME NEW b \in Browsers, NEW ceremony, BeginCeremony(h, b, ceremony)
      PROVE  CaptchaInv'
  <2>1. PICK arg : Acts(h, "user", b, None, arg) /\ UNCHANGED sessionVars
    BY <1>3, Acting DEF BeginCeremony
  <2>2. Rightly(h)
    BY <2>1, RightlyAway
  <2> QED BY <2>1, <2>2, ElsewhereOn DEF Acts
<1>4. ASSUME NEW b \in Browsers, NEW k \in Passkeys, FinishCeremony(h, b, k)
      PROVE  CaptchaInv'
  <2>1. PICK s, pc, arg : /\ s \in Loaded(b, "wa") /\ pc \in {"savekey", "name"}
                            /\ Begin(h, b, pc, s.id, arg) /\ UNCHANGED sessionVars
    BY <1>4 DEF FinishCeremony
  <2>2. Acts(h, pc, b, s.id, arg) /\ Holds(b, "wa", s.id)
    BY <2>1, Acting DEF Loaded, Holds
  <2>3. Rightly(h)
    BY <1>1, <2>1, <2>2, RightlyOn
  <2> QED BY <2>1, <2>2, <2>3, ElsewhereOn DEF Acts
<1>5. CASE UserId(h)
  <2>1. PICK arg : Goto(h, "loadceremony", None, arg)
    BY <1>5 DEF UserId
  <2>2. UNCHANGED <<sessions, cookie, now>> /\ uuids' \in {uuids, Uuid}
    BY <1>5 DEF UserId
  <2>3. Acts(h, "loadceremony", op[h].browser, None, arg)
    BY <2>1, Acting
  <2>4. op[h].browser \in Browsers
    BY <1>5 DEF UserId, At, CaptchaInv, CalmInv, Waiting
  <2>5. Rightly(h)
    BY <2>3, <2>4, RightlyAway
  <2> QED BY <2>2, <2>3, <2>5, ElsewhereOn DEF Acts
<1>7. CASE LoadCeremony(h)
  <2>1. PICK id \in Reads(op[h].browser, "wa"), arg \in {op[h].arg} :
          Acts(h, "challenge", op[h].browser, id, arg) /\ UNCHANGED sessionVars
    BY <1>7, Acting DEF LoadCeremony
  <2>2. op[h].browser \in Browsers
    BY <1>7 DEF LoadCeremony, At, CaptchaInv, CalmInv, Waiting
  <2>3. Rightly(h)
    BY <1>1, <2>1, <2>2, LoadedHeld, RightlyOn
  <2> QED BY <2>1, <2>3, ElsewhereOn DEF Acts
<1>6. CASE PasskeyName(h) \/ SavePasskey(h)
  <2>1. PICK pc, arg : /\ pc \in {"savekey", "endceremony"}
                        /\ Goto(h, pc, op[h].ses, arg) /\ UNCHANGED sessionVars
    BY <1>6 DEF PasskeyName, SavePasskey
  <2>2. Acts(h, pc, op[h].browser, op[h].ses, arg)
    BY <2>1, Acting
  <2>3. op[h].pc \in StepsOf["wa"]
    BY <1>1, <1>6 DEF PasskeyName, SavePasskey, At
  <2>4. op[h].browser \in Browsers /\ Holds(op[h].browser, "wa", op[h].ses)
    BY <1>1, <2>3 DEF CaptchaInv, HoldersInv, Holds, Carries
  <2>5. Rightly(h)
    BY <1>1, <2>1, <2>2, <2>4, RightlyOn
  <2> QED BY <2>1, <2>2, <2>5, ElsewhereOn DEF Acts
<1> QED BY <1>2, <1>3, <1>4, <1>5, <1>6, <1>7

LEMMA CeremonySaves ==
  ASSUME Basic, CaptchaInv, UNCHANGED captchaVars, NEW h \in Handlers,
         Challenge(h) \/ EndCeremony(h) \/ CeremonyFails(h)
  PROVE  CaptchaInv'
<1>1. {"l", "wa"} \subseteq Kinds /\ "wa" # "c" /\ "endceremony" \in StepsOf["wa"] /\ op[h].pc \in StepsOf["wa"]
  BY DEF Kinds, StepsOf, Challenge, EndCeremony, CeremonyFails, At
<1>2. op[h].browser \in Browsers /\ Carries(h, op[h].browser, "wa") /\ Holds(op[h].browser, "wa", op[h].ses)
  BY <1>1 DEF CaptchaInv, HoldersInv, Carries, Holds
<1>3. \/ \E values : Save(op[h].browser, "wa", op[h].ses, values)
      \/ DeleteSession(op[h].browser, "wa", op[h].ses)
      \/ UNCHANGED <<now, uuids, sessions>> /\ SetCookie(op[h].browser, "wa", None)
      \/ UNCHANGED <<now, uuids, sessions, cookie>>
  BY DEF Challenge, EndCeremony, CeremonyFails, sessionVars
<1>4. Rightly(h) /\ op'[h].pc \in {"idle", "loadlogin", "endceremony"}
  <2>1. CASE Respond(h)
    <3>1. Acts(h, "idle", None, None, None)
      BY <2>1, Acting
    <3> QED BY <3>1, RightlyAway DEF Acts, Waiting
  <2>2. CASE Goto(h, "loadlogin", None, None)
    <3>1. Acts(h, "loadlogin", op[h].browser, None, None)
      BY <2>2, Acting
    <3> QED BY <1>2, <3>1, RightlyAway DEF Acts
  <2>3. CASE Goto(h, "endceremony", op[h].ses, op[h].arg)
    <3>1. Acts(h, "endceremony", op[h].browser, op[h].ses, op[h].arg)
      BY <2>3, Acting
    <3> QED BY <1>1, <1>2, <3>1, RightlyOn DEF Acts
  <2> QED BY <2>1, <2>2, <2>3 DEF Challenge, EndCeremony, CeremonyFails, LoginNext
<1>5. ASSUME NEW values, \/ Save(op[h].browser, "wa", op[h].ses, values)
                         \/ DeleteSession(op[h].browser, "wa", op[h].ses)
      PROVE  CaptchaInv'
  BY <1>1, <1>2, <1>4, <1>5, ElsewhereSave
<1>6. CASE UNCHANGED <<now, uuids, sessions>> /\ SetCookie(op[h].browser, "wa", None)
  BY <1>1, <1>2, <1>4, <1>6, ElsewhereDrop
<1>7. CASE UNCHANGED <<now, uuids, sessions, cookie>>
  BY <1>4, <1>7, ElsewhereOn
<1> QED BY <1>3, <1>5, <1>6, <1>7

\* Requests that carry no session, and those of one step.
LEMMA OtherRequests ==
  ASSUME Basic, CaptchaInv, UNCHANGED captchaVars, NEW h \in Handlers,
         \/ ClearPassword(h) \/ DropCode(h) \/ InsertToken(h)
         \/ \E b \in Browsers : Settings(h, b) \/ CodeRequest(h, b) \/ FinishCeremonyAnew(h, b)
  PROVE  CaptchaInv'
<1> USE DEF sessionVars, captchaVars
<1>1. ASSUME NEW pc \in {"nopassword", "code", "token", "idle"}, NEW b, NEW arg, Acts(h, pc, b, None, arg),
             UNCHANGED <<sessions, cookie, now>>, uuids' \in {uuids, Uuid}
      PROVE  CaptchaInv'
  <2>1. Rightly(h)
    BY <1>1, RightlyAway DEF Waiting
  <2> QED BY <1>1, <2>1, ElsewhereOn DEF Acts
<1>2. CASE UNCHANGED <<op, sessions, cookie, now>> /\ uuids' \in {uuids, Uuid}
  BY <1>2, ElsewhereQuiet
<1>3. CASE Respond(h) /\ UNCHANGED <<sessions, cookie, now>> /\ uuids' \in {uuids, Uuid}
  BY <1>1, <1>3, Acting
<1>4. ASSUME NEW b \in Browsers, Settings(h, b)
      PROVE  CaptchaInv'
  <2>1. CASE DeletePassword(h, b)
    <3>1. Acts(h, "nopassword", b, None, None)
      BY <2>1, Acting DEF DeletePassword
    <3> QED BY <1>1, <2>1, <3>1 DEF DeletePassword
  <2>2. CASE ~DeletePassword(h, b)
    BY <1>2, <1>4, <2>2 DEF Settings, UpdatePassword, SetupTotp, DeleteTotp, DeletePasskey, RenamePasskey,
       CreateAppPassword, DeleteAppPassword, Administer
  <2> QED BY <2>1, <2>2
<1>5. ASSUME NEW b \in Browsers, CodeRequest(h, b)
      PROVE  CaptchaInv'
  <2>1. ASSUME NEW c, NEW row, NEW verified, ReadCode(h, c, row, verified)
        PROVE  CaptchaInv'
    <3>1. PICK arg : Acts(h, "code", None, None, arg)
      BY <2>1, Acting DEF ReadCode
    <3> QED BY <1>1, <2>1, <3>1 DEF ReadCode
  <2> QED BY <1>2, <1>5, <2>1 DEF CodeRequest, RegisterClient, Authorize, Revoke
<1>6. CASE DropCode(h)
  <2>1. UNCHANGED sessionVars
    BY <1>6 DEF DropCode
  <2>2. CASE Goto(h, "token", None, op[h].arg)
    <3>1. Acts(h, "token", op[h].browser, None, op[h].arg)
      BY <2>2, Acting
    <3> QED BY <1>1, <2>1, <3>1
  <2> QED BY <1>3, <1>6, <2>1, <2>2 DEF DropCode
<1>7. CASE ClearPassword(h) \/ InsertToken(h)
  BY <1>3, <1>7 DEF ClearPassword, InsertToken
<1>8. CASE \E b \in Browsers : FinishCeremonyAnew(h, b)
  BY <1>2, <1>8 DEF FinishCeremonyAnew
<1> QED BY <1>4, <1>5, <1>6, <1>7, <1>8

-----------------------------------------------------------------------------
(***************************************************************************)
(* The steps of the captcha itself.                                        *)
(***************************************************************************)

\* Nobody knows more captchas than before, but maybe None.
LEMMA KnownStay ==
  ASSUME Basic, CaptchasInv, \A b \in Browsers : \A x : Knows(b, x)' => Knows(b, x) \/ x = None,
         captchas' \subseteq captchas, uuids' \in Nat, uuids' >= uuids
  PROVE  CaptchasInv'
<1>1. 1 .. uuids \subseteq 1 .. uuids' /\ Ids \subseteq Ids' /\ None \in Ids' /\ None \notin 1 .. uuids'
  BY SessionsAssumption DEF Basic, Ids
<1>2. \A c \in captchas' : c.id \in 1 .. uuids'
  BY <1>1 DEF CaptchasInv
<1>3. \A c, d \in captchas' : c.id = d.id => c = d
  BY DEF CaptchasInv
<1>4. \A b \in Browsers : \A x : Knows(b, x)' => x \in Ids'
  BY <1>1 DEF CaptchasInv
<1>5. \A b, c \in Browsers : \A x \in 1 .. uuids' : Knows(b, x)' /\ Knows(c, x)' => b = c
  BY <1>1 DEF CaptchasInv, Ids
<1> QED BY <1>2, <1>3, <1>4, <1>5 DEF CaptchasInv

LEMMA VisitKeeps ==
  ASSUME Basic, CaptchaInv, NEW h \in Handlers, NEW b \in Browsers, Visit(h, b)
  PROVE  CaptchaInv'
<1>1. /\ Acts(h, "ask", b, None, None)
      /\ UNCHANGED <<now, uuids, sessions, cookie, captchas, page>>
      /\ calm' = [calm EXCEPT ![b] = IF @ = "solved" THEN @ ELSE "no"]
  BY Acting DEF Visit, sessionVars
<1>2. Rightly(h) /\ Fresh /\ uuids' \in Nat
  BY <1>1, RightlyAway DEF Basic, Fresh, Waiting
<1>3. HoldersInv'
  <2>1. "c" \in Kinds /\ \A s \in sessions' : s.expires \in Nat /\ \E r \in sessions : r.id = s.id
    BY <1>1 DEF HoldersInv, CaptchaInv, Kinds
  <2> QED BY <1>1, <1>2, <2>1, HoldersStay DEF CaptchaInv
<1>4. /\ DOMAIN calm' = Browsers /\ calm'[b] # "asked"
      /\ \A c \in Browsers : calm'[c] = "solved" => calm[c] = "solved"
      /\ \A c \in Browsers : calm'[c] = "asked" => calm[c] = "asked" /\ c # b
  BY <1>1 DEF CaptchaInv, CalmInv
<1>5. \A c \in Browsers : \A x : Knows(c, x)' => Knows(c, x)
  BY <1>1, <1>4 DEF Knows, Carries, StepsOf, Acts
<1>6. CaptchasInv'
  BY <1>1, <1>2, <1>5, KnownStay DEF CaptchaInv, Fresh
<1>7. CalmInv'
  <2>1. CaptchaHolds'
    BY <1>1, <1>4 DEF CaptchaHolds, Loaded, Stored, CaptchaInv, CalmInv
  <2>2. \A c \in Browsers, g \in Handlers : c # b /\ Asking(g, c)' => Asking(g, c)
    BY <1>1 DEF Asking, Acts
  <2>3. \A g \in Handlers : op'[g].pc \in Waiting \cup {"ask"} => op'[g].browser \in Browsers
    BY <1>1 DEF Acts, CaptchaInv, CalmInv
  <2>4. \A g \in Handlers : op'[g].pc = "solved" => op'[g].arg.solved = TRUE
    BY <1>1 DEF Acts, CaptchaInv, CalmInv
  <2> QED BY <1>1, <1>4, <2>1, <2>2, <2>3, <2>4 DEF CalmInv, CaptchaInv
<1> QED BY <1>3, <1>6, <1>7 DEF CaptchaInv

\* The session's captcha is one its browser knows.
LEMMA ValuesKnown ==
  ASSUME NEW b, NEW ses \in Reads(b, "c")
  PROVE  CaptchaValues(b, ses).captcha = None \/ Knows(b, CaptchaValues(b, ses).captcha)
<1>1. CASE ses = None
  BY <1>1 DEF CaptchaValues
<1>2. CASE ses # None
  <2>1. PICK s \in Loaded(b, "c") : CaptchaValues(b, ses) = s.values
    BY <1>2 DEF CaptchaValues, Reads, LoadedId
  <2> QED BY <2>1 DEF Loaded, Knows
<1> QED BY <1>1, <1>2

LEMMA AskKeeps ==
  ASSUME Basic, CaptchaInv, NEW h \in Handlers, Ask(h)
  PROVE  CaptchaInv'
<1>0. PICK ses \in Reads(op[h].browser, "c") :
        LET values == CaptchaValues(op[h].browser, ses)
            id == IF Stored(values.captcha) # {} THEN values.captcha ELSE Uuid
        IN  \/ Respond(h) /\ UNCHANGED <<captchas, uuids>>
            \/ /\ captchas' = (captchas \ Stored(id)) \cup {[id |-> id, digits |-> Uuid, since |-> now]}
               /\ uuids' = Uuid
               /\ Goto(h, "show", ses, [captcha |-> id, solved |-> FALSE])
  BY DEF Ask
<1> DEFINE b == op[h].browser
           values == CaptchaValues(b, ses)
           kept == Stored(values.captcha) # {}
           id == IF kept THEN values.captcha ELSE Uuid
<1>1. /\ b \in Browsers /\ op[h].pc = "ask" /\ Asking(h, b)
      /\ UNCHANGED <<now, sessions, cookie, page, calm>>
  BY DEF Ask, At, CaptchaInv, CalmInv, Asking
<1>2. CASE Respond(h) /\ UNCHANGED <<captchas, uuids>>
  <2>1. Acts(h, "idle", None, None, None)
    BY <1>2, Acting
  <2>2. Rightly(h) /\ op'[h].pc = "idle"
    BY <2>1, RightlyAway DEF Acts, Waiting
  <2> QED BY <1>1, <1>2, <2>2, ElsewhereOn DEF captchaVars
<1>3. CASE /\ captchas' = (captchas \ Stored(id)) \cup {[id |-> id, digits |-> Uuid, since |-> now]}
           /\ uuids' = Uuid
           /\ Goto(h, "show", ses, [captcha |-> id, solved |-> FALSE])
  <2>1. Acts(h, "show", b, ses, [captcha |-> id, solved |-> FALSE])
    BY <1>3, Acting
  <2>2. "c" \in Kinds /\ "show" \in StepsOf["c"]
    BY DEF Kinds, StepsOf
  <2>3. Rightly(h) /\ Fresh /\ uuids' \in Nat /\ uuids' >= uuids
    BY <1>0, <1>1, <1>3, <2>1, <2>2, LoadedHeld, RightlyOn DEF Basic, Fresh, Uuid
  <2>4. HoldersInv'
    <3>1. \A s \in sessions' : s.expires \in Nat /\ \E r \in sessions : r.id = s.id
      BY <1>1 DEF HoldersInv, CaptchaInv
    <3> QED BY <1>1, <2>2, <2>3, <3>1, HoldersStay DEF CaptchaInv
  <2>5. id \in 1 .. Uuid /\ (id = Uuid \/ (Knows(b, id) /\ id \in 1 .. uuids))
    <3>1. CASE kept
      <4>1. PICK c \in captchas : c.id = values.captcha
        BY <3>1 DEF Stored
      <4>2. values.captcha \in 1 .. uuids /\ values.captcha # None
        BY <4>1, SessionsAssumption DEF CaptchaInv, CaptchasInv, Basic
      <4> QED BY <3>1, <4>2, ValuesKnown DEF Basic, Uuid
    <3>2. CASE ~kept
      BY <3>2 DEF Basic, Uuid
    <3> QED BY <3>1, <3>2
  <2>6. \A c \in Browsers : ~Knows(c, Uuid)
    BY SessionsAssumption DEF CaptchaInv, CaptchasInv, Ids, Basic, Uuid
  <2>7. \A c \in Browsers \ {b} : ~Knows(c, id)
    BY <1>1, <2>5, <2>6 DEF CaptchaInv, CaptchasInv
  <2>8. captchas' = (captchas \ Stored(id)) \cup {[id |-> id, digits |-> Uuid, since |-> now]}
    BY <1>3
  <2>9. op'[h].pc = "show" /\ op'[h].browser = b /\ op'[h].arg.captcha = id /\ \A g \in Handlers \ {h} : op'[g] = op[g]
    BY <2>1 DEF Acts
  <2> HIDE DEF id, b
  <2>10. \A c \in Browsers : \A x : Knows(c, x)' => Knows(c, x) \/ (c = b /\ x = id)
    BY <1>1, <2>9 DEF Knows, Carries, StepsOf
  <2>11. CaptchasInv'
    <3>1. 1 .. uuids \subseteq 1 .. uuids' /\ Ids \subseteq Ids' /\ uuids' = Uuid
      BY <1>3, <2>3 DEF Basic, Ids
    <3>2. \A c \in captchas' : c.id \in 1 .. uuids'
      BY <2>5, <2>8, <3>1 DEF CaptchaInv, CaptchasInv
    <3>3. \A c, d \in captchas' : c.id = d.id => c = d
      BY <2>8 DEF CaptchaInv, CaptchasInv, Stored
    <3>4. \A c \in Browsers : \A x : Knows(c, x)' => x \in Ids'
      BY <2>5, <2>10, <3>1 DEF CaptchaInv, CaptchasInv, Ids
    <3>5. \A c, d \in Browsers : \A x \in 1 .. uuids' : Knows(c, x)' /\ Knows(d, x)' => c = d
      BY <2>6, <2>7, <2>10, <3>1 DEF CaptchaInv, CaptchasInv, Ids, Basic, Uuid
    <3> QED BY <3>2, <3>3, <3>4, <3>5 DEF CaptchasInv
  <2>12. CalmInv'
    <3>1. \A c \in Browsers : calm[c] = "asked" => c # b
      BY <1>1 DEF CaptchaInv, CalmInv
    <3>2. CaptchaHolds'
      <4>1. SUFFICES ASSUME NEW c \in Browsers, NEW s \in Loaded(c, "c")
                     PROVE  /\ calm[c] = "solved" => s.values.solved
                            /\ calm[c] = "asked" =>
                                 /\ s.values.captcha = page[c].id
                                 /\ \A d \in Stored(page[c].id)' : page[c].digits = {d.digits}
        BY <1>1 DEF CaptchaHolds, Loaded
      <4>2. ASSUME calm[c] = "asked"
            PROVE  Stored(page[c].id)' \subseteq Stored(page[c].id)
        <5>1. Knows(c, page[c].id)
          BY <4>2 DEF Knows
        <5>2. page[c].id # id
          BY <2>7, <3>1, <4>2, <5>1
        <5> QED BY <1>1, <2>8, <5>2 DEF Stored
      <4> QED BY <4>2 DEF CaptchaInv, CalmInv, CaptchaHolds
    <3>3. \A c \in Browsers, g \in Handlers : Asking(g, c)' => Asking(g, c)
      BY <1>1, <2>9 DEF Asking
    <3>4. \A g \in Handlers : op'[g].pc \in Waiting \cup {"ask"} => op'[g].browser \in Browsers
      BY <2>9 DEF Waiting, CaptchaInv, CalmInv
    <3>5. \A g \in Handlers : op'[g].pc = "solved" => op'[g].arg.solved = TRUE
      BY <2>9 DEF CaptchaInv, CalmInv
    <3> QED BY <1>1, <3>2, <3>3, <3>4, <3>5 DEF CalmInv, CaptchaInv
  <2> QED BY <2>4, <2>11, <2>12 DEF CaptchaInv
<1> QED BY <1>0, <1>2, <1>3

\* The session of the browser of h could not be saved.
LEMMA UnsavedKeeps ==
  ASSUME Basic, CaptchaInv, NEW h \in Handlers, At(h, "show") \/ At(h, "solved"), Respond(h),
         UNCHANGED <<sessionVars, captchas>>, DOMAIN calm' = Browsers, DOMAIN page' = Browsers,
         \A c \in Browsers : \/ calm'[c] = calm[c] /\ page'[c] = page[c]
                             \/ calm'[c] = "no"
  PROVE  CaptchaInv'
<1> USE DEF sessionVars
<1>1. Acts(h, "idle", None, None, None)
  BY Acting
<1>2. Rightly(h) /\ op'[h].pc = "idle" /\ \A g \in Handlers \ {h} : op'[g] = op[g]
  BY <1>1, RightlyAway DEF Acts, Waiting
<1>3. "c" \in Kinds /\ op[h].browser \in Browsers
  BY DEF At, Kinds, StepsOf, CaptchaInv, HoldersInv
<1>4. Fresh /\ uuids' \in Nat /\ \A s \in sessions' : s.expires \in Nat /\ \E r \in sessions : r.id = s.id
  BY SameSessions DEF CaptchaInv, HoldersInv
<1>5. HoldersInv'
  BY <1>2, <1>3, <1>4, HoldersStay DEF CaptchaInv
<1>6. \A c \in Browsers : \A x : Knows(c, x)' => Knows(c, x)
  BY <1>2 DEF Knows, Carries, StepsOf
<1>7. CaptchasInv'
  BY <1>4, <1>6, KnownStay DEF CaptchaInv, Fresh
<1>8. CalmInv'
  <2>1. CaptchaHolds'
    BY DEF CaptchaHolds, Loaded, Stored, CaptchaInv, CalmInv
  <2>2. \A c \in Browsers, g \in Handlers : Asking(g, c)' => Asking(g, c)
    BY <1>2 DEF Asking
  <2>3. \A g \in Handlers : op'[g].pc \in Waiting \cup {"ask"} => op'[g].browser \in Browsers
    BY <1>2 DEF CaptchaInv, CalmInv, Waiting
  <2>4. \A g \in Handlers : op'[g].pc = "solved" => op'[g].arg.solved = TRUE
    BY <1>2 DEF CaptchaInv, CalmInv
  <2> QED BY <2>1, <2>2, <2>3, <2>4 DEF CalmInv, CaptchaInv
<1> QED BY <1>5, <1>7, <1>8 DEF CaptchaInv

\* The handler h saves what it has as the session of its browser, and answers.
LEMMA SavedKeeps ==
  ASSUME Basic, CaptchaInv, NEW h \in Handlers, Show(h) \/ SaveSolved(h),
         Save(op[h].browser, "c", op[h].ses, op[h].arg),
         \/ At(h, "show") /\ Settle(h, "asked")
         \/ At(h, "solved") /\ Settle(h, "solved")
  PROVE  CaptchaInv'
<1>0. PICK b : b = op[h].browser
  OBVIOUS
<1>1. /\ "c" \in Kinds /\ Carries(h, b, "c") /\ b \in Browsers
      /\ Save(b, "c", op[h].ses, op[h].arg) /\ Respond(h) /\ UNCHANGED captchas
  BY <1>0 DEF Show, SaveSolved, At, Kinds, StepsOf, Carries, CaptchaInv, HoldersInv
<1>2. Acts(h, "idle", None, None, None)
  BY <1>1, Acting
<1>3. Rightly(h) /\ op'[h].pc = "idle" /\ \A g \in Handlers \ {h} : op'[g] = op[g]
  BY <1>2, RightlyAway DEF Acts, Waiting
<1>4. HoldersInv'
  BY <1>1, <1>3, HoldersSave DEF CaptchaInv
<1>5. \A c \in Browsers \ {b} : RowsOf(c)' \subseteq RowsOf(c)
  BY <1>1, RowsSaved DEF CaptchaInv
<1>6. \A s \in RowsOf(b)' : s.values = op[h].arg
  BY <1>1, RowsMine DEF CaptchaInv
<1>7. uuids' \in Nat /\ uuids' >= uuids /\ now' = now
  BY <1>1, Saving DEF Fresh, Save
<1>8. /\ DOMAIN calm' = Browsers /\ DOMAIN page' = Browsers
      /\ \A c \in Browsers \ {b} : calm'[c] = calm[c] /\ page'[c] = page[c]
  BY <1>0 DEF Show, SaveSolved, Settle, CaptchaInv, CalmInv
<1>9. \/ calm'[b] = "no"
      \/ calm'[b] = "asked" /\ Alone(h) /\ page'[b].id = op[h].arg.captcha
         /\ page'[b].digits = {c.digits : c \in Stored(op[h].arg.captcha)}
      \/ calm'[b] = "solved" /\ op[h].arg.solved = TRUE
  <2>1. CASE At(h, "show") /\ Settle(h, "asked")
    <3>1. page' = [page EXCEPT ![b] = Shown(op[h].arg.captcha)]
      BY <1>0, <2>1 DEF Show, SaveSolved, At
    <3> QED BY <1>0, <1>1, <2>1, <3>1 DEF Settle, Shown, CaptchaInv, CalmInv
  <2>2. CASE At(h, "solved") /\ Settle(h, "solved")
    BY <1>0, <1>1, <2>2 DEF Settle, CaptchaInv, CalmInv, At
  <2> QED BY <2>1, <2>2
<1>10. Knows(b, op[h].arg.captcha)
  BY <1>1 DEF Knows
<1>11. \A c \in Browsers : \A x : Knows(c, x)' => Knows(c, x)
  <2>1. ASSUME NEW x, Knows(b, x)'
        PROVE  Knows(b, x)
    BY <1>3, <1>6, <1>9, <1>10, <2>1 DEF Knows, Carries, StepsOf, RowsOf
  <2>2. ASSUME NEW c \in Browsers \ {b}, NEW x, Knows(c, x)'
        PROVE  Knows(c, x)
    BY <1>3, <1>5, <1>8, <2>2 DEF Knows, Carries, StepsOf, RowsOf
  <2> QED BY <2>1, <2>2
<1>12. CaptchasInv'
  BY <1>1, <1>7, <1>11, KnownStay DEF CaptchaInv
<1>13. CaptchaHolds'
  <2>1. ASSUME NEW s \in Loaded(b, "c")'
        PROVE  /\ calm'[b] = "solved" => s.values.solved
               /\ calm'[b] = "asked" =>
                    /\ s.values.captcha = page'[b].id
                    /\ \A c \in Stored(page'[b].id) : page'[b].digits = {c.digits}
    <3>1. s.values = op[h].arg
      BY <1>6, <2>1 DEF Loaded, RowsOf
    <3>2. \A c \in Stored(op[h].arg.captcha) : {d.digits : d \in Stored(op[h].arg.captcha)} = {c.digits}
      BY DEF Stored, CaptchaInv, CaptchasInv
    <3> QED BY <1>9, <3>1, <3>2
  <2>2. \A c \in Browsers \ {b} : Loaded(c, "c")' \subseteq Loaded(c, "c")
    BY <1>4, <1>5, <1>7, LoadedLess DEF CaptchaInv, HoldersInv
  <2>3. \A x : Stored(x)' = Stored(x)
    BY <1>1 DEF Stored
  <2> QED BY <1>8, <2>1, <2>2, <2>3 DEF CaptchaHolds, CaptchaInv, CalmInv
<1>14. CalmInv'
  <2>1. \A c \in Browsers, g \in Handlers : Asking(g, c)' => Asking(g, c) /\ g # h
    BY <1>3 DEF Asking
  <2>2. \A c \in Browsers : calm'[c] = "asked" => \A g \in Handlers : ~Asking(g, c)'
    BY <1>0, <1>8, <1>9, <2>1 DEF Alone, CaptchaInv, CalmInv
  <2>3. \A g \in Handlers : op'[g].pc \in Waiting \cup {"ask"} => op'[g].browser \in Browsers
    BY <1>3 DEF CaptchaInv, CalmInv, Waiting
  <2>4. \A g \in Handlers : op'[g].pc = "solved" => op'[g].arg.solved = TRUE
    BY <1>3 DEF CaptchaInv, CalmInv
  <2> QED BY <1>8, <1>13, <2>2, <2>3, <2>4 DEF CalmInv
<1> QED BY <1>4, <1>12, <1>14 DEF CaptchaInv

LEMMA SaveKeeps ==
  ASSUME Basic, CaptchaInv, NEW h \in Handlers, Show(h) \/ SaveSolved(h)
  PROVE  CaptchaInv'
<1>1. UNCHANGED captchas /\ Respond(h) /\ (At(h, "show") \/ At(h, "solved"))
  BY DEF Show, SaveSolved
<1>2. CASE /\ Save(op[h].browser, "c", op[h].ses, op[h].arg)
           /\ \/ At(h, "show") /\ Settle(h, "asked")
              \/ At(h, "solved") /\ Settle(h, "solved")
  BY <1>2, SavedKeeps
<1>3. CASE UNCHANGED sessionVars /\ (UNCHANGED <<calm, page>> \/ calm' = [calm EXCEPT ![op[h].browser] = "no"])
  <2>1. DOMAIN calm = Browsers /\ DOMAIN page = Browsers
    BY DEF CaptchaInv, CalmInv
  <2>2. page' = page \/ \E new : page' = [page EXCEPT ![op[h].browser] = new]
    BY DEF Show, SaveSolved
  <2>3. /\ DOMAIN calm' = Browsers /\ DOMAIN page' = Browsers
        /\ \A c \in Browsers : \/ calm'[c] = calm[c] /\ page'[c] = page[c]
                               \/ calm'[c] = "no"
    BY <1>3, <2>1, <2>2
  <2> QED BY <1>1, <1>3, <2>3, UnsavedKeeps
<1> QED BY <1>2, <1>3 DEF Show, SaveSolved

LEMMA SolveKeeps ==
  ASSUME Basic, CaptchaInv, NEW h \in Handlers, NEW b \in Browsers, Solve(h, b)
  PROVE  CaptchaInv'
<1>1. PICK ses, pc : /\ ses \in Reads(b, "c") /\ pc \in {"solved", "ask"}
                     /\ Begin(h, b, pc, ses, [captcha |-> CaptchaValues(b, ses).captcha, solved |-> TRUE])
                     /\ captchas' \subseteq captchas
  BY DEF Solve
<1>2. /\ UNCHANGED <<now, uuids, sessions, cookie>> /\ captchas' \subseteq captchas
      /\ page' = [page EXCEPT ![b] = None]
      /\ calm' = [calm EXCEPT ![b] = IF @ = "solved" THEN @ ELSE "no"]
  BY <1>1 DEF Solve, sessionVars
<1>3. Acts(h, pc, b, ses, [captcha |-> CaptchaValues(b, ses).captcha, solved |-> TRUE])
  BY <1>1, Acting
<1>4. "c" \in Kinds /\ "solved" \in StepsOf["c"]
  BY DEF Kinds, StepsOf
<1>5. Rightly(h)
  <2>1. CASE pc = "solved"
    BY <1>1, <1>3, <1>4, <2>1, LoadedHeld, RightlyOn
  <2>2. CASE pc = "ask"
    BY <1>3, <2>2, RightlyAway
  <2> QED BY <1>1, <2>1, <2>2
<1>6. HoldersInv'
  <2>1. Fresh /\ uuids' \in Nat /\ \A s \in sessions' : s.expires \in Nat /\ \E r \in sessions : r.id = s.id
    BY <1>2 DEF HoldersInv, CaptchaInv, Basic, Fresh
  <2> QED BY <1>2, <1>4, <1>5, <2>1, HoldersStay DEF CaptchaInv
<1>7. /\ DOMAIN calm' = Browsers /\ DOMAIN page' = Browsers /\ calm'[b] # "asked"
      /\ \A c \in Browsers : calm'[c] = "solved" => calm[c] = "solved"
      /\ \A c \in Browsers : calm'[c] = "asked" => calm[c] = "asked" /\ c # b /\ page'[c] = page[c]
  BY <1>2 DEF CaptchaInv, CalmInv
<1>8. \A c \in Browsers : \A x : Knows(c, x)' => Knows(c, x) \/ x = None
  <2>1. CaptchaValues(b, ses).captcha = None \/ Knows(b, CaptchaValues(b, ses).captcha)
    BY <1>1, ValuesKnown
  <2>2. /\ op'[h].browser = b /\ op'[h].arg.captcha = CaptchaValues(b, ses).captcha
        /\ \A g \in Handlers \ {h} : op'[g] = op[g]
    BY <1>3 DEF Acts
  <2>3. SUFFICES ASSUME NEW c \in Browsers, NEW x, Knows(c, x)'
                 PROVE  Knows(c, x) \/ x = None
    OBVIOUS
  <2>4. CASE \E g \in Handlers : Carries(g, c, "c")' /\ op'[g].arg.captcha = x
    BY <2>1, <2>2, <2>4 DEF Knows, Carries
  <2>5. CASE ~\E g \in Handlers : Carries(g, c, "c")' /\ op'[g].arg.captcha = x
    BY <1>2, <1>7, <2>3, <2>5 DEF Knows
  <2> QED BY <2>4, <2>5
<1>9. CaptchasInv'
  BY <1>2, <1>8, KnownStay DEF CaptchaInv, Basic
<1>10. CalmInv'
  <2>1. CaptchaHolds'
    BY <1>2, <1>7 DEF CaptchaHolds, Loaded, Stored, CaptchaInv, CalmInv
  <2>2. \A c \in Browsers, g \in Handlers : c # b /\ Asking(g, c)' => Asking(g, c)
    BY <1>3 DEF Asking, Acts
  <2>3. \A g \in Handlers : op'[g].pc \in Waiting \cup {"ask"} => op'[g].browser \in Browsers
    BY <1>3 DEF Acts, CaptchaInv, CalmInv
  <2>4. \A g \in Handlers : op'[g].pc = "solved" => op'[g].arg.solved = TRUE
    BY <1>3 DEF Acts, CaptchaInv, CalmInv
  <2> QED BY <1>7, <2>1, <2>2, <2>3, <2>4 DEF CalmInv, CaptchaInv
<1> QED BY <1>6, <1>9, <1>10 DEF CaptchaInv

\* The server dies, and its captchas with it.
LEMMA CaptchaKilled ==
  ASSUME Basic, CaptchaInv, NEW p \in Procs, Killed(p), captchas' \subseteq captchas, UNCHANGED <<page, calm>>
  PROVE  CaptchaInv'
<1>1. UNCHANGED <<now, uuids, sessions, cookie>> /\ \A h \in Handlers : op'[h].pc = "idle" \/ op' = op
  BY DEF Killed, sessionVars, NoOp
<1>2. HoldersInv'
  <2>1. \A b, kind, id : Holds(b, kind, id)' => kind \notin Kinds \/ Holds(b, kind, id)
    BY <1>1 DEF Holds, Carries, StepsOf, Kinds
  <2>2. \A h \in Handlers, kind \in Kinds : op'[h].pc \in StepsOf[kind] => op'[h].browser \in Browsers
    BY <1>1 DEF CaptchaInv, HoldersInv, StepsOf, Kinds
  <2>3. cookie' \in [Browsers -> [Kinds -> Ids']]
    BY <1>1 DEF CaptchaInv, HoldersInv, Ids
  <2> QED BY <1>1, <2>1, <2>2, <2>3 DEF CaptchaInv, HoldersInv
<1>3. Elsewhere
  BY <1>1 DEF Elsewhere, RowsOf, Basic, CaptchaInv, CalmInv, HoldersInv, Waiting
<1> QED BY <1>2, <1>3, ElsewhereKeeps DEF CaptchaInv

LEMMA CaptchaInitHolds ==
  ASSUME Init
  PROVE  CaptchaInv
<1>1. \A h \in Handlers : op[h].pc = "idle"
  BY DEF Init, SessionsInit, NoOp
<1>2. /\ now = 0 /\ captchas = {} /\ page = [b \in Browsers |-> None] /\ calm = [b \in Browsers |-> "no"]
  BY DEF Init, SessionsInit, CaptchaInit
<1>3. \A s \in sessions : s.id = 2 /\ s.expires \in Nat /\ s.values = [login |-> TRUE]
  <2>1. Age["l"] \in Nat
    BY SessionsAssumption DEF Kinds
  <2>2. CASE Unmigrated
    BY <2>2 DEF Unmigrated
  <2>3. CASE Migrated
    <3>1. sessions = {[id |-> 2, kind |-> "l", values |-> [login |-> TRUE], expires |-> Age["l"]]}
      BY <2>3 DEF Migrated
    <3> QED BY <2>1, <3>1
  <2> QED BY <2>2, <2>3 DEF Init, CredentialsInit
<1>4. /\ cookie \in [Browsers -> [Kinds -> Ids]]
      /\ \A b \in Browsers : cookie[b]["c"] = None
      /\ \A b, c \in Browsers, k, l \in Kinds : cookie[b][k] = 2 /\ cookie[c][l] = 2 => b = c /\ k = l
  <2>1. 2 # None
    BY SessionsAssumption
  <2>2. CASE Unmigrated
    BY <2>1, <2>2 DEF Unmigrated, Ids, Kinds
  <2>3. CASE Migrated
    BY <2>1, <2>3 DEF Migrated, Ids, Kinds
  <2> QED BY <2>2, <2>3 DEF Init, CredentialsInit
<1>5. HoldersInv
  BY <1>1, <1>2, <1>3, <1>4 DEF HoldersInv, Holds, Carries, StepsOf, Kinds
<1>6. \A b \in Browsers : \A x : ~Knows(b, x)
  <2>1. 2 # None
    BY SessionsAssumption
  <2> QED BY <1>1, <1>2, <1>3, <1>4, <2>1 DEF Knows, Carries, StepsOf
<1>7. CaptchasInv /\ CalmInv
  BY <1>1, <1>2, <1>6 DEF CaptchasInv, CalmInv, CaptchaHolds, Waiting
<1> QED BY <1>5, <1>7 DEF CaptchaInv

LEMMA CaptchaNextHolds ==
  ASSUME IInv, CaptchaInv, [Next]_vars
  PROVE  CaptchaInv'
<1>1. Basic
  BY DEF IInv
<1> USE DEF sessionVars, captchaVars
<1>2. ASSUME NEW h \in Handlers, NEW b \in Browsers, Handler(h, b)
      PROVE  CaptchaInv'
  BY <1>1, <1>2, LoginSteps, CeremonyCarries, OtherRequests, VisitKeeps, SolveKeeps DEF Handler, CredentialRequest
<1>3. CASE SessionStep /\ UNCHANGED captchaVars
  BY <1>1, <1>3, LoginSteps, ElsewhereQuiet DEF SessionStep, DeleteExpiredSessions, Tick
<1>4. CASE CredentialStep /\ UNCHANGED captchaVars
  BY <1>1, <1>4, CeremonyCarries, CeremonySaves, OtherRequests DEF CredentialStep
<1>5. CASE CaptchaStep
  BY <1>1, <1>5, AskKeeps, SaveKeeps, ElsewhereQuiet DEF CaptchaStep, Forget
<1>6. CASE CodeStep /\ UNCHANGED captchaVars
  BY <1>1, <1>6, OtherRequests DEF CodeStep
<1>7. CASE MigrationStep /\ UNCHANGED captchaVars
  <2>1. UNCHANGED <<op, sessions, cookie, now>> /\ uuids' \in {uuids, Uuid}
    BY <1>7 DEF MigrationStep, Start, StartUnread, MigratePassword, MigrateTotp, MigrateApp, MigrateLegacy,
       MigrateLegacyUnread, SetAuthMigrated, MigrationFails, Setup, Exit
  <2> QED BY <1>1, <1>7, <2>1, ElsewhereQuiet
<1>8. ASSUME NEW p \in Procs, Killed(p), captchas' = IF p = Server THEN {} ELSE captchas, UNCHANGED <<page, calm>>
      PROVE  CaptchaInv'
  BY <1>1, <1>8, CaptchaKilled
<1>9. CASE UNCHANGED vars
  BY <1>1, <1>9, ElsewhereQuiet DEF vars
<1> QED BY <1>2, <1>3, <1>4, <1>5, <1>6, <1>7, <1>8, <1>9 DEF Next

LEMMA CaptchaInvariance == Spec => []CaptchaInv
BY CaptchaInitHolds, CaptchaNextHolds, Invariance, PTL DEF Spec

\* Of a browser whose requests do not overlap the session has the captcha its page shows, with
\* the digits it shows, and who has solved one is not asked again until the session expires;
\* unless the page was shown though its session could not be saved.
THEOREM CaptchasHold == Spec => []CaptchaHolds
<1>1. CaptchaInv => CaptchaHolds
  BY DEF CaptchaInv, CalmInv
<1> QED BY <1>1, CaptchaInvariance, PTL
=============================================================================
