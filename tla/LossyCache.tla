----------------------------- MODULE LossyCache -----------------------------
(***************************************************************************)
(* What the users of pkgs/cache may rely on: a key has no value or the one *)
(* that was set last.  Values disappear at any time, alone or with others, *)
(* and come back only when they are set again.                             *)
(***************************************************************************)
CONSTANTS Keys, Values, None

VARIABLES
  store,    \* what the cache answers for every key
  latest    \* what was set last, unless it was deleted

Init ==
  /\ store = [k \in Keys |-> None]
  /\ latest = [k \in Keys |-> None]

Lose(k) == store'[k] \in {store[k], None} /\ latest'[k] = latest[k]

Set(key, value) ==
  /\ latest'[key] = value /\ store'[key] \in {value, None}
  /\ \A k \in Keys \ {key} : Lose(k)

Delete(key) ==
  /\ latest'[key] = None /\ store'[key] = None
  /\ \A k \in Keys \ {key} : Lose(k)

Clear ==
  /\ store' = [k \in Keys |-> None]
  /\ latest' = [k \in Keys |-> None]

Next ==
  /\ store' \in [Keys -> Values \cup {None}]
  /\ latest' \in [Keys -> Values \cup {None}]
  /\ \/ \A k \in Keys : Lose(k)
     \/ \E key \in Keys : Delete(key) \/ \E value \in Values : Set(key, value)
     \/ Clear

Spec == Init /\ [][Next]_<<store, latest>>
=============================================================================
