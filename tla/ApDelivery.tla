----------------------------- MODULE ApDelivery -----------------------------
(***************************************************************************)
(* Delivery of ActivityPub activities: goroutines put one row per inbox    *)
(* into the queue "ap" (activityPub.go), a worker per process sends the    *)
(* rows that are due, tries again later when that fails and gives up after *)
(* MaxTry failures (activityPubSending.go, queue.go).                      *)
(*                                                                         *)
(* A process is the server or a command such as `activitypub               *)
(* move-followers` (main.go), which opens the same database and runs a     *)
(* worker of its own.  Processes crash, and they shut down: the functions  *)
(* registered with the shutdowner run side by side, so the database may be *)
(* closed while the worker ends its item and while goroutines that still   *)
(* have to write a row are running; nobody waits for the latter.           *)
(*                                                                         *)
(* A tick is ten minutes, the unit of the delays; an attempt (at most one  *)
(* minute) may still outlast any number of ticks here.                     *)
(***************************************************************************)
EXTENDS Queue, FiniteSets

CONSTANTS
  Sends,      \* one activity for one inbox each; also the id of its row
  Procs,      \* processes on the database
  None,
  MaxTry,     \* failures after which an activity is given up (20)
  MaxTime,    \* bound of the model: the clock stops here
  MaxFaults,  \* bound of the model: stops, crashes, refused statements and
              \* lost answers
  MaxFailed   \* bound of the model: failing attempts per send

ASSUME ApAssumption ==
  /\ Procs \cap {"new", "over"} = {}
  /\ MaxTry \in Nat \ {0}
  /\ MaxTime \in Nat \ {0}
  /\ MaxFaults \in Nat /\ MaxFailed \in Nat

VARIABLES
  now,        \* the clock
  queue,      \* rows "ap" of the table queue; the content is the try count
  goroutine,  \* the process in which a send still has to be queued, or
              \* "new" before and "over" after that
  queuedAt,   \* history: when the row of a send was written (0: it was not)
  phase,      \* what a process does
  worker,     \* the worker of each process and the item it peeked
  received,   \* history: how often the inbox got the activity
  failed,     \* history: how many attempts failed for the sender
  faults      \* faults so far

sending == <<received, failed>>
vars == <<now, queue, goroutine, queuedAt, phase, worker, sending, faults>>

Rows  == Row(Sends, 0 .. MaxTry - 1)
Phase == {"up", "stopping", "closed", "down"}

\* worker.pc: what it does next with the item it peeked.
Idle == [pc |-> "idle", item |-> None]
Busy == [pc : {"send", "reschedule", "dequeue"}, item : Rows]

TypeOK ==
  /\ now \in 1 .. MaxTime
  /\ queue \subseteq Rows
  /\ goroutine \in [Sends -> Procs \cup {"new", "over"}]
  /\ queuedAt \in [Sends -> 0 .. MaxTime]
  /\ phase \in [Procs -> Phase]
  /\ worker \in [Procs -> Busy \cup {Idle}]
  /\ received \in [Sends -> Nat] /\ failed \in [Sends -> Nat]
  /\ faults \in 0 .. MaxFaults

Init ==
  /\ now = 1
  /\ queue = {}
  /\ goroutine = [s \in Sends |-> "new"]
  /\ queuedAt = [s \in Sends |-> 0]
  /\ phase = [p \in Procs |-> "up"]
  /\ worker = [p \in Procs |-> Idle]
  /\ received = [s \in Sends |-> 0] /\ failed = [s \in Sends |-> 0]
  /\ faults = 0

Fault == faults < MaxFaults /\ faults' = faults + 1
DbOpen(p) == phase[p] \in {"up", "stopping"}

-----------------------------------------------------------------------------
(***************************************************************************)
(* Queueing.                                                               *)
(***************************************************************************)

\* apSendTo returns when it has started a goroutine per inbox.
Announce(p, some) ==
  /\ phase[p] = "up" /\ some # {} /\ \A s \in some : goroutine[s] = "new"
  /\ goroutine' = [s \in Sends |-> IF s \in some THEN p ELSE goroutine[s]]
  /\ UNCHANGED <<now, queue, queuedAt, phase, worker, sending, faults>>

Enqueue(s) ==
  /\ queue' = Enqueued(queue, [id |-> s, content |-> 0, schedule |-> now])
  /\ queuedAt' = [queuedAt EXCEPT ![s] = now]
  /\ goroutine' = [goroutine EXCEPT ![s] = "over"]

\* The goroutine writes its row; it ignores an error.
QueueSend(s) ==
  /\ goroutine[s] \in Procs /\ DbOpen(goroutine[s])
  /\ Enqueue(s)
  /\ UNCHANGED <<now, phase, worker, sending, faults>>

QueueSendFails(s) ==
  /\ goroutine[s] \in Procs
  /\ IF DbOpen(goroutine[s]) THEN Fault ELSE UNCHANGED faults
  /\ goroutine' = [goroutine EXCEPT ![s] = "over"]
  /\ UNCHANGED <<now, queue, queuedAt, phase, worker, sending>>

\* A domain move and the answer to a follow request write the row themselves.
QueueDirectly(p, s) ==
  /\ phase[p] = "up" /\ goroutine[s] = "new"
  /\ Enqueue(s)
  /\ UNCHANGED <<now, phase, worker, sending, faults>>

-----------------------------------------------------------------------------
(***************************************************************************)
(* The worker: processQueueItem and the function of initAPSendQueue.       *)
(***************************************************************************)
At(p, pc) == worker[p].pc = pc
Sending(p) == worker[p].item.id
Goto(p, pc) ==
  worker' = [worker EXCEPT ![p] = [pc |-> pc, item |-> worker[p].item]]
Done(p)    == worker' = [worker EXCEPT ![p] = Idle]

\* Without a due row the worker waits; a failing query changes nothing either.
Peek(p) ==
  /\ phase[p] = "up" /\ At(p, "idle")
  /\ \E r \in Heads(queue, now) :
       worker' = [worker EXCEPT ![p] = [pc |-> "send", item |-> r]]
  /\ UNCHANGED <<now, queue, goroutine, queuedAt, phase, sending, faults>>

Received(s) == received' = [received EXCEPT ![s] = @ + 1]
Failed(s) ==
  /\ failed[s] < MaxFailed
  /\ failed' = [failed EXCEPT ![s] = @ + 1]

\* Mistake: an attempt counts twice.
AfterFailureTwice(p) ==
  Goto(p, IF worker[p].item.content + 2 < MaxTry THEN "reschedule" ELSE "dequeue")

\* r.Try++; r.Try < 20 decides whether the row stays.
AfterFailure(p) ==
  Goto(p, IF worker[p].item.content + 1 < MaxTry THEN "reschedule" ELSE "dequeue")

SendSucceeds(p) ==
  /\ At(p, "send")
  /\ Received(Sending(p)) /\ Goto(p, "dequeue")
  /\ UNCHANGED <<now, queue, goroutine, queuedAt, phase, failed, faults>>

SendFails(p) ==
  /\ At(p, "send")
  /\ Failed(Sending(p)) /\ AfterFailure(p)
  /\ UNCHANGED <<now, queue, goroutine, queuedAt, phase, received, faults>>

\* The inbox takes the activity, but the answer is late, lost or an error.
AnswerLost(p) ==
  /\ At(p, "send") /\ Fault
  /\ Received(Sending(p)) /\ Failed(Sending(p)) /\ AfterFailure(p)
  /\ UNCHANGED <<now, queue, goroutine, queuedAt, phase>>

Reschedule(p) ==
  /\ At(p, "reschedule") /\ DbOpen(p)
  /\ LET item == worker[p].item
     IN  queue' = Rescheduled(queue, item, item.content + 1, item.content + 1)
  /\ Done(p)
  /\ UNCHANGED <<now, goroutine, queuedAt, phase, sending, faults>>

Dequeue(p) ==
  /\ At(p, "dequeue") /\ DbOpen(p)
  /\ queue' = Dequeued(queue, Sending(p))
  /\ Done(p)
  /\ UNCHANGED <<now, goroutine, queuedAt, phase, sending, faults>>

\* Mistake: an error of the database ends the worker.
StatementFailsEnds(p) ==
  /\ worker[p].pc \in {"reschedule", "dequeue"}
  /\ IF DbOpen(p) THEN Fault ELSE UNCHANGED faults
  /\ worker' = [worker EXCEPT ![p] = [pc |-> "ended", item |-> None]]
  /\ UNCHANGED <<now, queue, goroutine, queuedAt, phase, sending>>

\* A statement that fails is logged; the row stays as it is.
StatementFails(p) ==
  /\ worker[p].pc \in {"reschedule", "dequeue"}
  /\ IF DbOpen(p) THEN Fault ELSE UNCHANGED faults
  /\ Done(p)
  /\ UNCHANGED <<now, queue, goroutine, queuedAt, phase, sending>>

-----------------------------------------------------------------------------
(***************************************************************************)
(* Processes.                                                              *)
(***************************************************************************)
EndGoroutines(p) ==
  goroutine' = [s \in Sends |-> IF goroutine[s] = p THEN "over" ELSE goroutine[s]]

\* A signal, or the end of a command: the worker's context is cancelled.
Stop(p) ==
  /\ phase[p] = "up" /\ Fault
  /\ phase' = [phase EXCEPT ![p] = "stopping"]
  /\ UNCHANGED <<now, queue, goroutine, queuedAt, worker, sending>>

CloseDb(p) ==
  /\ phase[p] = "stopping"
  /\ phase' = [phase EXCEPT ![p] = "closed"]
  /\ UNCHANGED <<now, queue, goroutine, queuedAt, worker, sending, faults>>

\* The shutdown waits for the worker and for the database.
Exit(p) ==
  /\ phase[p] = "closed" /\ At(p, "idle")
  /\ phase' = [phase EXCEPT ![p] = "down"]
  /\ EndGoroutines(p)
  /\ UNCHANGED <<now, queue, queuedAt, worker, sending, faults>>

Crash(p) ==
  /\ phase[p] # "down" /\ Fault
  /\ phase' = [phase EXCEPT ![p] = "down"]
  /\ EndGoroutines(p) /\ Done(p)
  /\ UNCHANGED <<now, queue, queuedAt, sending>>

Start(p) ==
  /\ phase[p] = "down"
  /\ phase' = [phase EXCEPT ![p] = "up"]
  /\ UNCHANGED <<now, queue, goroutine, queuedAt, worker, sending, faults>>

Tick ==
  /\ now < MaxTime /\ now' = now + 1
  /\ UNCHANGED <<queue, goroutine, queuedAt, phase, worker, sending, faults>>

Queueing ==
  \/ \E p \in Procs, some \in SUBSET Sends : Announce(p, some)
  \/ \E p \in Procs, s \in Sends : QueueDirectly(p, s)
  \/ \E s \in Sends : QueueSend(s) \/ QueueSendFails(s)

Work(p) ==
  \/ Peek(p)
  \/ SendSucceeds(p) \/ SendFails(p) \/ AnswerLost(p)
  \/ Reschedule(p) \/ Dequeue(p) \/ StatementFails(p)

Live(p) == Stop(p) \/ CloseDb(p) \/ Exit(p) \/ Crash(p) \/ Start(p)

Next == Tick \/ Queueing \/ \E p \in Procs : Work(p) \/ Live(p)

Spec == Init /\ [][Next]_vars

(***************************************************************************)
(* Fairness: time passes, a worker takes its next step (an attempt ends    *)
(* within its timeout of a minute), a shutdown ends, and who runs the      *)
(* program starts it again.  Nothing is assumed of the remote side.        *)
(***************************************************************************)
Fairness ==
  /\ WF_vars(Tick)
  /\ \A p \in Procs :
       WF_vars(Work(p)) /\ WF_vars(CloseDb(p) \/ Exit(p) \/ Start(p))

FairSpec == Spec /\ Fairness

-----------------------------------------------------------------------------
(***************************************************************************)
(* Properties.                                                             *)
(***************************************************************************)
Kept(s) == \E r \in queue : r.id = s

\* Whatever crashes, fails or runs twice: an activity whose row was written is
\* still in the queue, was received, or has failed MaxTry times.
NothingLost ==
  \A s \in Sends :
    queuedAt[s] # 0 => Kept(s) \/ received[s] > 0 \/ failed[s] >= MaxTry

\* The delays between MaxTry attempts add up to 1 + 2 + ... + (MaxTry - 1).
DelaysPassed(s) ==
  LET age == now - queuedAt[s] IN age + age >= (MaxTry - 1) * MaxTry

\* An activity nobody has received is given up only after all the delays
\* between MaxTry attempts, also when a second worker writes old counts back.
GivesUpLate ==
  [][\A s \in Sends :
       Kept(s) /\ ~Kept(s)' /\ received[s] = 0 => DelaysPassed(s)]_vars

\* An activity does not stay in the queue for ever: once the delays of its
\* tries have passed (the clock may end before that), it leaves.
IsSettled ==
  \A s \in Sends : (Kept(s) /\ DelaysPassed(s)) ~> ~Kept(s)

\* Every step is one of the abstract delivery, or invisible to it.
Promise ==
  INSTANCE Delivery WITH
    accepted <- {s \in Sends : queuedAt[s] # 0},
    pending  <- {r.id : r \in queue}
ImplementsDelivery == Promise!Spec

\* docs/indieweb-fediverse.md: move-followers "sends a Move activity to all
\* your followers".  A process that was not killed has queued what it announced.
AnnouncedIsQueued ==
  [][\A p \in Procs : Exit(p) => \A s \in Sends : goroutine[s] # p]_vars
=============================================================================
