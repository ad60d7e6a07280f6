----------------------------- MODULE MCAccounts -----------------------------
(***************************************************************************)
(* Accounts with two browsers, two requests at a time, the server and a    *)
(* command.  A tick is ten minutes: ceremonies last one, captchas and      *)
(* logins are shortened to one.                                            *)
(***************************************************************************)
EXTENDS Accounts, TLC

SessionAge == [l |-> 1, c |-> 1, wa |-> 1]
Symmetry == Permutations(Handlers) \cup Permutations(Browsers) \cup Permutations(Apps)
=============================================================================
