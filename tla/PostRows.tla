------------------------------ MODULE PostRows ------------------------------
(***************************************************************************)
(* What the handlers of visitors read of the database.  Of the content of  *)
(* a post only the parameter "reactions" is kept: it decides whether the   *)
(* page shows reactions and whether they can be read, and it tells two     *)
(* versions of a post apart.  Posts that are not published or not visible  *)
(* to everybody are served without the caches and are left out.            *)
(***************************************************************************)
CONSTANTS None, Clients, Paths

VARIABLES
  rows,   \* tables posts and post_parameters
  gone    \* table deleted

Row == [deleted : BOOLEAN, reactions : BOOLEAN]

ASSUME RowsAssumption == None \notin Clients /\ None \notin Row

Exists(path) == rows[path] # None

-----------------------------------------------------------------------------
(* The library singleflightx, as cache.go and reactions.go use it: callers *)
(* that ask for a key while a call of the key is running wait for the      *)
(* result of this call.  A call is named by the client that leads it.      *)

\* Do: the client leads the call of the key if none is running.
Led(calls, key, client) == [calls EXCEPT ![key] = client]

\* Forget: the next caller starts a new call although the old one runs on.
Forgotten(calls, key) == [calls EXCEPT ![key] = None]

\* The end of a call: it may have been forgotten, and another may be running.
Ended(calls, key, client) ==
  IF calls[key] = client THEN Forgotten(calls, key) ELSE calls
=============================================================================
