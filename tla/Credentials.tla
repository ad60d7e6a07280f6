----------------------------- MODULE Credentials -----------------------------
(***************************************************************************)
(* What the owner logs in with (authDb.go): the password and the TOTP      *)
(* secret (settings), app passwords and passkeys (tables), the requests    *)
(* that use and change them (authentication.go, webAuthn.go, settings.go), *)
(* and the migration of credentials from the configuration, which runs at  *)
(* the start of every process, also of a command, until it has finished;   *)
(* a start that cannot read the mark that it has does it all again.        *)
(***************************************************************************)
EXTENDS Sessions

CONSTANTS
  Passkeys,   \* credentials of authenticators
  Legacy,     \* the passkey the settings kept before there was a table
  Apps,       \* app passwords in the configuration
  Procs, Server

ASSUME CredentialsAssumption ==
  Legacy \in Passkeys /\ Server \in Procs /\ None \notin Apps /\ IsFiniteSet(Apps)

VARIABLES
  password,   \* a password is set
  totp,       \* a TOTP secret is set
  appRows,    \* table app_passwords: id and configured entry
  passkeys,   \* table passkeys: the names by key
  legacy,     \* the setting of the old passkey is there
  handle,     \* setting webauthnid
  marked,     \* setting auth_migrated
  config,     \* the configuration has a TOTP secret
  proc,       \* what each process does, and the app passwords it still has to insert
  causes,     \* history: what excuses a property
  removed     \* history: passkeys and app passwords that were deleted

settingVars == <<password, totp, appRows, passkeys, legacy, handle, marked>>
credentialVars == <<settingVars, config, proc, causes, removed>>

Off == [pc |-> "off", todo |-> {}]
Up(p) == proc[p].pc = "up"
Names == {"Passkey", "renamed"}
NoKeys == [k \in {} |-> "Passkey"]

\* An installation that is new or comes from a version without the tables.
Unmigrated ==
  /\ password = FALSE /\ totp = FALSE /\ appRows = {} /\ passkeys = NoKeys
  /\ legacy \in BOOLEAN /\ config \in BOOLEAN /\ handle = None /\ marked = FALSE
  /\ proc = [p \in Procs |-> Off]
  /\ uuids = 0 /\ sessions = {} /\ cookie = [b \in Browsers |-> [k \in Kinds |-> None]]

\* A running one, with the app passwords of the configuration, a passkey and the owner
\* logged in.
Migrated ==
  /\ password = TRUE /\ totp = FALSE /\ appRows = {[id |-> 0, entry |-> app] : app \in Apps}
  /\ passkeys = [k \in {Legacy} |-> "Passkey"]
  /\ legacy = FALSE /\ config = FALSE /\ handle = 1 /\ marked = TRUE
  /\ proc = [p \in Procs |-> [Off EXCEPT !.pc = IF p = Server THEN "up" ELSE "off"]]
  /\ uuids = 2
  /\ \E b \in Browsers :
       /\ sessions = {[id |-> 2, kind |-> "l", values |-> [login |-> TRUE], expires |-> Age["l"]]}
       /\ cookie = [c \in Browsers |-> [k \in Kinds |-> IF c = b /\ k = "l" THEN 2 ELSE None]]

CredentialsInit ==
  /\ Unmigrated \/ Migrated
  /\ causes = IF legacy THEN {"old"} ELSE {}
  /\ ended = {} /\ removed = {}

\* A request for which the owner has to be logged in.
Administer(h, b) == Up(Server) /\ LoggedIn(b) /\ Request /\ At(h, "idle") /\ UNCHANGED op

-----------------------------------------------------------------------------
(***************************************************************************)
(* Logging in.                                                             *)
(***************************************************************************)

\* checkLogin: the password (with TOTP) is compared.
LoginWithPassword(h, b) ==
  /\ Up(Server) /\ password
  /\ Begin(h, b, "loadlogin", None, None)
  /\ UNCHANGED <<sessionVars, faults, ended, credentialVars>>

\* beginWebAuthnRegistration (logged in), beginWebAuthnLogin (with a passkey): the
\* id of the user is read, an error counts as none.
BeginCeremony(h, b, ceremony) ==
  /\ Up(Server)
  /\ IF ceremony = "register" THEN LoggedIn(b) ELSE DOMAIN passkeys # {}
  /\ \E id \in {handle, None} :
       /\ IF id = handle THEN UNCHANGED faults ELSE Fault
       /\ Begin(h, b, "user", None, [ceremony |-> ceremony, handle |-> id])
  /\ UNCHANGED <<sessionVars, ended, credentialVars>>

\* WebAuthnID makes the id up when it has none, and goes on with it though it may not
\* be saved.
UserId(h) ==
  LET mine == op[h].arg IN
  /\ At(h, "user")
  /\ IF mine.handle = None
     THEN /\ uuids' = Uuid
          /\ \/ handle' = Uuid /\ UNCHANGED faults
             \/ Fault /\ UNCHANGED handle
     ELSE UNCHANGED <<handle, uuids, faults>>
  /\ Goto(h, "loadceremony", None, [mine EXCEPT !.handle = IF @ = None THEN Uuid ELSE @])
  /\ UNCHANGED <<now, sessions, cookie, requests, ended, password, totp, appRows, passkeys, legacy, marked,
                 config, proc, causes, removed>>

\* completeWebAuthnBegin: the ceremony goes to the session of the browser; when it could
\* not be saved the browser is asked all the same.
LoadCeremony(h) ==
  /\ At(h, "loadceremony")
  /\ \E id \in Reads(op[h].browser, "wa") :
       Reading(op[h].browser, "wa", id) /\ Goto(h, "challenge", id, op[h].arg)
  /\ UNCHANGED <<sessionVars, requests, ended, credentialVars>>

Challenge(h) ==
  /\ At(h, "challenge")
  /\ \/ Save(op[h].browser, "wa", op[h].ses, op[h].arg) /\ UNCHANGED faults
     \/ Fault /\ UNCHANGED sessionVars
  /\ Respond(h)
  /\ UNCHANGED <<requests, ended, credentialVars>>

\* finishWebAuthnRegistration, finishWebAuthnLogin: the session's ceremony and user id
\* are checked, and for a login that the passkey is there.
FinishCeremony(h, b, k) ==
  /\ Up(Server)
  /\ \E s \in Loaded(b, "wa") :
       /\ s.values.handle = handle
       /\ IF s.values.ceremony = "register" THEN LoggedIn(b) /\ k \notin DOMAIN passkeys ELSE k \in DOMAIN passkeys
       /\ Begin(h, b, IF s.values.ceremony = "register" THEN "savekey" ELSE "name", s.id,
                [ceremony |-> s.values.ceremony, key |-> k, name |-> "Passkey"])
  /\ UNCHANGED <<sessionVars, faults, ended, credentialVars>>

\* When the id of the user is not there, or not read, another one is made up and saved,
\* and the ceremony refused.
FinishCeremonyAnew(h, b) ==
  /\ Up(Server) /\ Loaded(b, "wa") # {} /\ Request /\ At(h, "idle")
  /\ IF handle = None THEN UNCHANGED faults ELSE Fault
  /\ handle' = Uuid /\ uuids' = Uuid
  /\ UNCHANGED <<now, sessions, cookie, op, ended, password, totp, appRows, passkeys, legacy, marked,
                 config, proc, causes, removed>>

\* getPasskey: the login saves the passkey again, with the name read here, unless it
\* is gone.
PasskeyName(h) ==
  LET k == op[h].arg.key IN
  /\ At(h, "name")
  /\ IF k \in DOMAIN passkeys
     THEN Goto(h, "savekey", op[h].ses, [ceremony |-> op[h].arg.ceremony, key |-> k, name |-> passkeys[k]])
     ELSE Goto(h, "endceremony", op[h].ses, op[h].arg)
  /\ UNCHANGED <<sessionVars, boundVars, ended, credentialVars>>

\* savePasskey inserts, or sets name and credential of the row.
SavePasskey(h) ==
  LET k == op[h].arg.key IN
  /\ At(h, "savekey")
  /\ passkeys' = [j \in DOMAIN passkeys \cup {k} |-> IF j = k THEN op[h].arg.name ELSE passkeys[j]]
  /\ Goto(h, "endceremony", op[h].ses, op[h].arg)
  /\ ended' = IF op[h].arg.ceremony = "register" THEN ended \ {<<"passkey", k>>, <<"oldname", k>>} ELSE ended
  /\ UNCHANGED <<sessionVars, boundVars, password, totp, appRows, legacy, handle, marked, config, proc, causes, removed>>

LoginNext(h) ==
  IF op[h].arg.ceremony = "register" THEN Respond(h) ELSE Goto(h, "loadlogin", None, None)

\* The session of the ceremony is deleted; a login goes on to the login session.
EndCeremony(h) ==
  LET b == op[h].browser IN
  /\ At(h, "endceremony")
  /\ DeleteSession(b, "wa", op[h].ses)
  /\ LoginNext(h)
  /\ ended' = ended \cup {<<"session", op[h].ses>>}
  /\ UNCHANGED <<boundVars, credentialVars>>

\* A refused statement: a login does without the passkey and its update, a registration
\* fails; the cookie of the ceremony is gone though its session is not.
CeremonyFails(h) ==
  /\ Fault
  /\ \/ /\ At(h, "name") \/ (At(h, "savekey") /\ op[h].arg.ceremony # "register")
        /\ Goto(h, "endceremony", op[h].ses, op[h].arg)
        /\ UNCHANGED cookie
     \/ At(h, "savekey") /\ op[h].arg.ceremony = "register" /\ Respond(h) /\ UNCHANGED cookie
     \/ At(h, "endceremony") /\ LoginNext(h) /\ SetCookie(op[h].browser, "wa", None)
  /\ UNCHANGED <<now, uuids, sessions, requests, ended, credentialVars>>

-----------------------------------------------------------------------------
(***************************************************************************)
(* Changing credentials.                                                   *)
(***************************************************************************)
Held(k) == \E h \in Handlers : op[h].pc = "savekey" /\ op[h].arg.key = k
Migrating == \E p \in Procs : proc[p].pc \notin {"off", "up"}
NotMigrating(what) == IF Migrating THEN {} ELSE {what}

UpdatePassword(h, b) ==
  /\ Administer(h, b)
  /\ password' = TRUE
  /\ UNCHANGED <<sessionVars, faults, ended, totp, appRows, passkeys, legacy, handle, marked, config, proc, causes, removed>>

\* Mistake: passkeys are not required.
DeletePasswordAnyway(h, b) ==
  /\ Up(Server) /\ LoggedIn(b)
  /\ Begin(h, b, "nopassword", None, None)
  /\ UNCHANGED <<sessionVars, faults, ended, credentialVars>>

\* settingsDeletePassword: a passkey is required and looked for first.
DeletePassword(h, b) ==
  /\ Up(Server) /\ LoggedIn(b) /\ DOMAIN passkeys # {}
  /\ Begin(h, b, "nopassword", None, None)
  /\ UNCHANGED <<sessionVars, faults, ended, credentialVars>>

ClearPassword(h) ==
  /\ At(h, "nopassword")
  /\ \/ password' = FALSE /\ UNCHANGED faults
     \/ Fault /\ UNCHANGED password
  /\ Respond(h)
  /\ UNCHANGED <<sessionVars, requests, ended, causes, totp, appRows, passkeys, legacy, handle, marked, config, proc, removed>>

\* settingsDeletePasskey does not ask whether there is a password.
DeletePasskey(h, b, k) ==
  /\ Administer(h, b) /\ k \in DOMAIN passkeys
  /\ passkeys' = [j \in DOMAIN passkeys \ {k} |-> passkeys[j]]
  /\ ended' = ended \cup (IF Held(k) \/ Migrating THEN {} ELSE {<<"passkey", k>>})
  /\ removed' = removed \cup {k}
  /\ causes' = causes \cup
       (IF DOMAIN passkeys = {k} /\ (~password \/ \E g \in Handlers : At(g, "nopassword"))
        THEN {"lastkey"} ELSE {})
  /\ UNCHANGED <<sessionVars, faults, password, totp, appRows, legacy, handle, marked, config, proc>>

\* settingsRenamePasskey; a login that has read the name writes it back.
RenamePasskey(h, b, k) ==
  /\ Administer(h, b) /\ k \in DOMAIN passkeys
  /\ passkeys' = [passkeys EXCEPT ![k] = "renamed"]
  /\ ended' = ended \cup (IF Held(k) \/ Migrating THEN {} ELSE {<<"oldname", k>>})
  /\ UNCHANGED <<sessionVars, faults, password, totp, appRows, legacy, handle, marked, config, proc, causes, removed>>

SetupTotp(h, b) ==
  /\ Administer(h, b)
  /\ totp' = TRUE
  /\ UNCHANGED <<sessionVars, faults, ended, password, appRows, passkeys, legacy, handle, marked, config, proc, causes, removed>>

DeleteTotp(h, b) ==
  /\ Administer(h, b)
  /\ totp' = FALSE
  /\ causes' = causes \cup {"nototp"}
  /\ UNCHANGED <<sessionVars, faults, ended, password, appRows, passkeys, legacy, handle, marked, config, proc, removed>>

CreateAppPassword(h, b) ==
  /\ Administer(h, b)
  /\ appRows' = appRows \cup {[id |-> Uuid, entry |-> None]} /\ uuids' = Uuid
  /\ UNCHANGED <<now, sessions, cookie, faults, ended, password, totp, passkeys, legacy, handle, marked, config, proc, causes, removed>>

DeleteAppPassword(h, b, row) ==
  /\ Administer(h, b) /\ row \in appRows
  /\ appRows' = appRows \ {row}
  /\ ended' = ended \cup (IF row.entry \in {None} \cup {r.entry : r \in appRows'} THEN {} ELSE NotMigrating(<<"app", row.entry>>))
  /\ removed' = removed \cup {row.entry}
  /\ UNCHANGED <<sessionVars, faults, password, totp, passkeys, legacy, handle, marked, config, proc, causes>>

Settings(h, b) ==
  \/ UpdatePassword(h, b) \/ DeletePassword(h, b)
  \/ SetupTotp(h, b) \/ DeleteTotp(h, b)
  \/ \E k \in Passkeys : DeletePasskey(h, b, k) \/ RenamePasskey(h, b, k)
  \/ CreateAppPassword(h, b)
  \/ \E row \in appRows : DeleteAppPassword(h, b, row)

CredentialRequest(h, b) ==
  \/ LoginWithPassword(h, b)
  \/ \E ceremony \in {"register", "login"} : BeginCeremony(h, b, ceremony)
  \/ \E k \in Passkeys : FinishCeremony(h, b, k)
  \/ FinishCeremonyAnew(h, b)
  \/ Settings(h, b)

CredentialStep ==
  \E h \in Handlers :
    \/ UserId(h) \/ LoadCeremony(h) \/ Challenge(h) \/ PasskeyName(h) \/ SavePasskey(h) \/ EndCeremony(h)
    \/ CeremonyFails(h) \/ ClearPassword(h)

-----------------------------------------------------------------------------
\* While the server runs the owner can log in: there is a password or a passkey,
\* unless the last passkey was deleted when there was no password, or none any more.
WayIn == Up(Server) => password \/ DOMAIN passkeys # {} \/ "lastkey" \in causes

-----------------------------------------------------------------------------
(***************************************************************************)
(* The start of a process (config.go, authDb.go): unless it is marked as   *)
(* done, the credentials of the configuration are moved to the database,   *)
(* statement by statement, and marked as moved at the end.  The server     *)
(* goes on to serve; the command setup sets the credentials and exits.     *)
(***************************************************************************)
Stage(p, pc) == proc[p].pc = pc
Enter(p, pc) == proc' = [proc EXCEPT ![p].pc = pc]

Start(p) ==
  /\ Request /\ Stage(p, "off")
  /\ proc' = [proc EXCEPT ![p] = [pc |-> IF marked THEN "up" ELSE "password", todo |-> Apps]]
  /\ causes' = causes \cup (IF Migrating /\ ~marked THEN {"overlap"} ELSE {})
  /\ UNCHANGED <<sessionVars, op, faults, ended, settingVars, config, removed>>

\* What a migration would insert: all app passwords, the old passkey if it is still in
\* the settings.
Insertable == ({"app"} \X Apps) \cup (IF legacy THEN {"passkey", "oldname"} \X {Legacy} ELSE {})

\* isAuthMigrated ignores an error of reading the mark: the migration is done again.
StartUnread(p) ==
  /\ Request /\ Fault /\ Stage(p, "off") /\ marked
  /\ proc' = [proc EXCEPT ![p] = [pc |-> "password", todo |-> Apps]]
  /\ causes' = causes \cup {"unread"}
  /\ ended' = ended \ Insertable
  /\ UNCHANGED <<sessionVars, op, settingVars, config, removed>>

\* The password of the configuration or a generated one, unless there is one.
MigratePassword(p) ==
  /\ Stage(p, "password")
  /\ password' = TRUE /\ Enter(p, "totp")
  /\ UNCHANGED <<sessionVars, op, boundVars, ended, totp, appRows, passkeys, legacy, handle, marked, config, causes, removed>>

MigrateTotp(p) ==
  /\ Stage(p, "totp")
  /\ totp' = (totp \/ config) /\ Enter(p, "apps")
  /\ UNCHANGED <<sessionVars, op, boundVars, ended, password, appRows, passkeys, legacy, handle, marked, config, causes, removed>>

\* Mistake: an entry is inserted and the migration marked as done with the first one.
MigrateAppOnce(p) ==
  /\ Stage(p, "apps")
  /\ \E app \in proc[p].todo :
       /\ appRows' = appRows \cup {[id |-> Uuid, entry |-> app]} /\ uuids' = Uuid
       /\ proc' = [proc EXCEPT ![p] = [pc |-> "legacy", todo |-> {}]]
  /\ UNCHANGED <<now, sessions, cookie, op, boundVars, ended, password, totp, passkeys, legacy, handle, marked, config, causes, removed>>

\* The app passwords are inserted one by one, whatever the table has already.
MigrateApp(p) ==
  /\ Stage(p, "apps")
  /\ \/ /\ proc[p].todo = {} /\ Enter(p, "legacy")
        /\ UNCHANGED <<uuids, appRows>>
     \/ \E app \in proc[p].todo :
          /\ appRows' = appRows \cup {[id |-> Uuid, entry |-> app]} /\ uuids' = Uuid
          /\ proc' = [proc EXCEPT ![p].todo = @ \ {app}]
  /\ UNCHANGED <<now, sessions, cookie, op, boundVars, ended, password, totp, passkeys, legacy, handle, marked, config, causes, removed>>

\* migrateLegacyPasskey: the passkey of the settings goes to an empty table, then the
\* setting is deleted.
MigrateLegacy(p) ==
  /\ \/ /\ Stage(p, "legacy") /\ legacy
        /\ passkeys' = IF DOMAIN passkeys = {} THEN [k \in {Legacy} |-> "Passkey"] ELSE passkeys
        /\ Enter(p, "unset")
        /\ UNCHANGED legacy
     \/ /\ Stage(p, "legacy") /\ ~legacy
        /\ Enter(p, "mark")
        /\ UNCHANGED <<passkeys, legacy>>
     \/ /\ Stage(p, "unset")
        /\ legacy' = FALSE /\ Enter(p, "mark")
        /\ UNCHANGED passkeys
  /\ UNCHANGED <<sessionVars, op, boundVars, ended, password, totp, appRows, handle, marked, config, causes, removed>>

SetAuthMigrated(p) ==
  /\ Stage(p, "mark")
  /\ marked' = TRUE /\ Enter(p, "up")
  /\ UNCHANGED <<sessionVars, op, boundVars, ended, password, totp, appRows, passkeys, legacy, handle, config, causes, removed>>

\* hasPasskeys is not read: the table counts as empty.
MigrateLegacyUnread(p) ==
  /\ Fault /\ Stage(p, "legacy") /\ legacy
  /\ passkeys' = [k \in DOMAIN passkeys \cup {Legacy} |-> IF k = Legacy THEN "Passkey" ELSE passkeys[k]]
  /\ Enter(p, "unset")
  /\ UNCHANGED <<sessionVars, op, requests, ended, password, totp, appRows, legacy, handle, marked, config, causes, removed>>

\* A refused statement ends the process, the legacy passkey's is only logged.
MigrationFails(p) ==
  /\ Fault /\ proc[p].pc \notin {"off", "up"}
  /\ IF proc[p].pc \in {"legacy", "unset"}
     THEN Enter(p, "mark") /\ causes' = causes \cup {"legacy"}
     ELSE proc' = [proc EXCEPT ![p] = Off] /\ causes' = causes \cup {"again"}
  /\ UNCHANGED <<sessionVars, op, requests, ended, settingVars, config, removed>>

\* The command setup sets nick, password and maybe TOTP and ends; another one just ends.
Setup(p) ==
  /\ p # Server /\ Up(p)
  /\ password' = TRUE
  /\ totp' = TRUE \/ UNCHANGED totp
  /\ proc' = [proc EXCEPT ![p] = Off]
  /\ UNCHANGED <<sessionVars, op, boundVars, ended, appRows, passkeys, legacy, handle, marked, config, causes, removed>>

Exit(p) ==
  /\ p # Server /\ Up(p)
  /\ proc' = [proc EXCEPT ![p] = Off]
  /\ UNCHANGED <<sessionVars, op, boundVars, ended, settingVars, config, causes, removed>>

\* A process is killed; the requests the server handled are gone with it.
Killed(p) ==
  /\ Fault /\ proc[p].pc # "off"
  /\ proc' = [proc EXCEPT ![p] = Off]
  /\ op' = IF p = Server THEN [h \in Handlers |-> NoOp] ELSE op
  /\ causes' = causes \cup (IF Up(p) THEN {} ELSE {"again"})
  /\ UNCHANGED <<sessionVars, requests, ended, settingVars, config, removed>>

MigrationStep ==
  \E p \in Procs :
    \/ Start(p) \/ StartUnread(p)
    \/ MigratePassword(p) \/ MigrateTotp(p) \/ MigrateApp(p) \/ MigrateLegacy(p) \/ MigrateLegacyUnread(p)
    \/ SetAuthMigrated(p) \/ MigrationFails(p) \/ Setup(p) \/ Exit(p)

-----------------------------------------------------------------------------
\* Once it is marked, the owner can log in with what the configuration had: every app
\* password is there once unless it was deleted, TOTP unless it was turned off, and the
\* old passkey; an app password may have been inserted twice when a start was cut short,
\* another process migrated at the same time, or a later start could not read the mark.
Copies(app) == Cardinality({row \in appRows : row.entry = app})
MigrationIsComplete ==
  marked /\ ~Migrating =>
    /\ \A app \in Apps :
         /\ app \in removed \/ Copies(app) >= 1
         /\ Copies(app) <= 1 \/ causes \cap {"again", "overlap", "unread"} # {}
    /\ config => totp \/ "nototp" \in causes
    /\ "old" \in causes => \/ ~legacy /\ (Legacy \in DOMAIN passkeys \/ Legacy \in removed)
                          \/ "legacy" \in causes
=============================================================================
