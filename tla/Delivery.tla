------------------------------ MODULE Delivery ------------------------------
(***************************************************************************)
(* What the ActivityPub delivery promises: an activity that was accepted   *)
(* for an inbox is kept until the inbox has received it at least once or   *)
(* MaxTry attempts have failed.                                            *)
(***************************************************************************)
EXTENDS Integers

CONSTANTS
  Sends,      \* one activity for one inbox each
  MaxTry      \* failing attempts after which an activity is given up

VARIABLES
  accepted,   \* sends the delivery took over
  pending,    \* sends it still keeps
  received,   \* how often the inbox got the activity
  failed      \* how many attempts failed, as far as the sender knows

vars == <<accepted, pending, received, failed>>

TypeOK ==
  /\ accepted \subseteq Sends /\ pending \subseteq Sends
  /\ received \in [Sends -> Nat] /\ failed \in [Sends -> Nat]

Init ==
  /\ accepted = {} /\ pending = {}
  /\ received = [s \in Sends |-> 0] /\ failed = [s \in Sends |-> 0]

Accept(s) ==
  /\ s \notin accepted
  /\ accepted' = accepted \cup {s} /\ pending' = pending \cup {s}
  /\ UNCHANGED <<received, failed>>

\* An attempt is answered, fails, or arrives although it seems to fail.
Attempt(s) ==
  /\ s \in accepted
  /\ \E got, lost \in {0, 1} :
       /\ got + lost > 0
       /\ received' = [received EXCEPT ![s] = @ + got]
       /\ failed' = [failed EXCEPT ![s] = @ + lost]
  /\ UNCHANGED <<accepted, pending>>

Settled(s) == received[s] > 0 \/ failed[s] >= MaxTry

Retire(s) ==
  /\ s \in pending /\ Settled(s)
  /\ pending' = pending \ {s}
  /\ UNCHANGED <<accepted, received, failed>>

Next == \E s \in Sends : Accept(s) \/ Attempt(s) \/ Retire(s)

Spec == Init /\ [][Next]_vars
=============================================================================
