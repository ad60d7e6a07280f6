------------------------------- MODULE Accounts -------------------------------
(***************************************************************************)
(* Sessions, captchas, credentials with their migration, and the IndieAuth *)
(* server, over one database: the requests of a few browsers, the hourly   *)
(* hook, the starts and deaths of the server and of commands.  Of the      *)
(* IndieAuth server (oauth.go) there are the registered clients, the codes *)
(* (table indieauthauth) and the tokens (table indieauthtoken); a code is  *)
(* read, deleted and turned into a token by three statements.              *)
(***************************************************************************)
EXTENDS Credentials

CONSTANTS
  Registered,  \* clients that can be registered
  Sites,       \* clients whose id is a URL
  Scopes

VARIABLES
  clients,     \* table fediverseapps
  codes,       \* table indieauthauth
  tokens,      \* table indieauthtoken, and the code of each token as history
  approvals,   \* history: codes as the owner gave them out
  twice        \* history: codes read twice, or not deleted

codeVars == <<clients, codes, tokens, approvals, twice>>

CodesInit ==
  /\ clients = {} /\ codes = {} /\ tokens = {}
  /\ approvals = {} /\ twice = {}

Known(c) == c \in clients \cup Sites

-----------------------------------------------------------------------------
\* oauthCreateApp
RegisterClient(c) ==
  /\ Request /\ c \in Registered
  /\ clients' = clients \cup {c}
  /\ UNCHANGED <<sessionVars, op, faults, ended, codes, tokens, approvals, twice>>

\* oauthHandleAuthorize: by the owner, for a known client, with PKCE for a site.
Authorize(b, c, scope, pkce) ==
  /\ Request /\ LoggedIn(b) /\ Known(c) /\ (c \in Sites => pkce)
  /\ uuids' = Uuid
  /\ codes' = codes \cup {[code |-> Uuid, client |-> c, scope |-> scope, pkce |-> pkce, since |-> now]}
  /\ approvals' = approvals \cup {[code |-> Uuid, client |-> c, scope |-> scope]}
  /\ UNCHANGED <<now, sessions, cookie, op, faults, ended, clients, tokens, twice>>

\* oauthToken, oauthGetAuthRequest: the client is checked, the code read if it is at
\* most ten minutes old.  A request has the verifier of the code or not.
ReadCode(h, c, row, verified) ==
  /\ Known(c) /\ row.since >= now - 1
  /\ Begin(h, None, "code", None, [row |-> row, client |-> c, verified |-> verified, age |-> now - 1])
  /\ UNCHANGED <<sessionVars, faults, ended, codeVars>>

ReadElsewhere(h) == \E g \in Handlers \ {h} : At(g, "code") /\ op[g].arg.row.code = op[h].arg.row.code

\* oauthTokenAuthorizationCode: the code has to be the client's and the verifier right.
Granted(mine) ==
  /\ mine.row.client = mine.client
  /\ (mine.client \in Sites \/ mine.row.pkce) => mine.verified

\* Mistake: the client is not compared.
DropCodeUnchecked(h) ==
  LET mine == op[h].arg IN
  /\ At(h, "code")
  /\ codes' = {r \in codes : r.code # mine.row.code /\ r.since >= mine.age}
  /\ twice' = IF ReadElsewhere(h) THEN twice \cup {mine.row.code} ELSE twice
  /\ faults' = faults
  /\ IF mine.verified THEN Goto(h, "token", None, mine) ELSE Respond(h)
  /\ UNCHANGED <<sessionVars, requests, ended, clients, tokens, approvals>>

\* The code is deleted with the old ones, also when it is then refused; an error of
\* the deletion is ignored.
DropCode(h) ==
  LET mine == op[h].arg IN
  /\ At(h, "code")
  /\ \/ /\ codes' = {r \in codes : r.code # mine.row.code /\ r.since >= mine.age}
        /\ twice' = IF ReadElsewhere(h) THEN twice \cup {mine.row.code} ELSE twice
        /\ faults' = faults
     \/ /\ Fault
        /\ twice' = twice \cup {mine.row.code}
        /\ UNCHANGED codes
  /\ IF Granted(mine) THEN Goto(h, "token", None, mine) ELSE Respond(h)
  /\ UNCHANGED <<sessionVars, requests, ended, clients, tokens, approvals>>

\* The token is inserted, or the request fails and the code is used up.
InsertToken(h) ==
  LET mine == op[h].arg IN
  /\ At(h, "token")
  /\ \/ /\ uuids' = Uuid
        /\ tokens' = tokens \cup {[token |-> Uuid, client |-> mine.client, scope |-> mine.row.scope,
                                   code |-> mine.row.code]}
        /\ faults' = faults
     \/ Fault /\ UNCHANGED <<uuids, tokens>>
  /\ Respond(h)
  /\ UNCHANGED <<now, sessions, cookie, requests, ended, clients, codes, approvals, twice>>

\* oauthRevoke, checkOAuth
Revoke(t) ==
  /\ Request
  /\ tokens' = tokens \ {t}
  /\ UNCHANGED <<sessionVars, op, faults, ended, clients, codes, approvals, twice>>

CodeRequest(h, b) ==
  \/ \E c \in Registered : RegisterClient(c)
  \/ \E c \in Registered \cup Sites, scope \in Scopes, pkce \in BOOLEAN : Authorize(b, c, scope, pkce)
  \/ \E c \in Registered \cup Sites, row \in codes, verified \in BOOLEAN : ReadCode(h, c, row, verified)
  \/ \E t \in tokens : Revoke(t)

CodeStep == \E h \in Handlers : DropCode(h) \/ InsertToken(h)

-----------------------------------------------------------------------------
\* A token has the client and the scope of a code the owner gave out, and no other
\* token came of that code, which is not there any more; unless two requests read the
\* code at the same time or it could not be deleted.
TokensAreApproved ==
  \A t \in tokens :
    /\ [code |-> t.code, client |-> t.client, scope |-> t.scope] \in approvals
    /\ \/ t.code \in twice
       \/ (\A u \in tokens \ {t} : u.code # t.code) /\ (\A r \in codes : r.code # t.code)

-----------------------------------------------------------------------------
(* The server as a whole. *)

Init == SessionsInit /\ CredentialsInit /\ CaptchaInit /\ CodesInit

Handler(h, b) ==
  \/ Logout(h, b) /\ Up(Server) /\ UNCHANGED <<credentialVars, captchaVars, codeVars>>
  \/ CredentialRequest(h, b) /\ UNCHANGED <<captchaVars, codeVars>>
  \/ Up(Server) /\ (Visit(h, b) \/ Solve(h, b)) /\ UNCHANGED <<credentialVars, codeVars>>
  \/ Up(Server) /\ CodeRequest(h, b) /\ UNCHANGED <<credentialVars, captchaVars>>

Next ==
  \/ \E h \in Handlers, b \in Browsers : Handler(h, b)
  \/ SessionStep /\ UNCHANGED <<credentialVars, captchaVars, codeVars>>
  \/ CredentialStep /\ UNCHANGED <<captchaVars, codeVars>>
  \/ CaptchaStep /\ UNCHANGED <<credentialVars, codeVars>>
  \/ CodeStep /\ UNCHANGED <<credentialVars, captchaVars>>
  \/ MigrationStep /\ UNCHANGED <<captchaVars, codeVars>>
  \/ \E p \in Procs :
       /\ Killed(p) /\ UNCHANGED codeVars
       /\ captchas' = IF p = Server THEN {} ELSE captchas
       /\ UNCHANGED <<page, calm>>

vars == <<sessionVars, op, boundVars, ended, credentialVars, captchaVars, codeVars>>

Spec == Init /\ [][Next]_vars

-----------------------------------------------------------------------------
Live(what) ==
  CASE what[1] = "session" -> \E s \in sessions : s.id = what[2]
    [] what[1] = "passkey" -> what[2] \in DOMAIN passkeys
    [] what[1] = "oldname" -> what[2] \in DOMAIN passkeys /\ passkeys[what[2]] = "Passkey"
    [] what[1] = "app"     -> \E row \in appRows : row.entry = what[2]

\* What was deleted or renamed stays so: a session that was logged out or expired, a
\* passkey and its old name, an app password of the configuration; if no request was
\* about to save a copy of it and no process about to insert it, and until a start that
\* cannot read that the migration is done inserts it again.
EndedStaysEnded == \A what \in ended : ~Live(what)
=============================================================================
