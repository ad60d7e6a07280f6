-------------------------- MODULE ApDeliveryProofs --------------------------
(***************************************************************************)
(* Proofs about ApDelivery.  The inductive invariant says of every copy of *)
(* a row, stored or in the hands of a worker, that its try count was       *)
(* really used up and that its schedule is the one of that count, and of   *)
(* every decision of a worker that it still holds when it is carried out.  *)
(***************************************************************************)
EXTENDS ApDelivery, TLAPS

\* A copy of a row, however old.
Genuine(r) ==
  /\ queuedAt[r.id] # 0
  /\ r.content <= failed[r.id]
  /\ 2 * (r.schedule - queuedAt[r.id]) = r.content * (r.content + 1)

\* The item a worker holds was due.
Held(p) ==
  worker[p].pc # "idle" =>
    Genuine(worker[p].item) /\ worker[p].item.schedule <= now

\* What a worker is about to write.
Decided(p) ==
  LET item == worker[p].item
  IN  /\ worker[p].pc = "reschedule" =>
           item.content + 1 < MaxTry /\ item.content + 1 <= failed[item.id]
      /\ worker[p].pc = "dequeue" =>
           \/ received[item.id] > 0
           \/ item.content + 1 = MaxTry /\ MaxTry <= failed[item.id]

IInv ==
  /\ TypeOK
  /\ \A r \in queue : Genuine(r)
  /\ \A p \in Procs : Held(p) /\ Decided(p)
  /\ \A s \in Sends : goroutine[s] # "over" => queuedAt[s] = 0
  /\ NothingLost

-----------------------------------------------------------------------------
(***************************************************************************)
(* Type correctness.                                                       *)
(***************************************************************************)

\* What a worker holds is a row unless it is idle.
LEMMA ItemType ==
  ASSUME TypeOK, NEW p \in Procs, worker[p].pc # "idle"
  PROVE  /\ worker[p].item \in Rows
         /\ worker[p].pc \in {"send", "reschedule", "dequeue"}
         /\ worker[p].item.id \in Sends
         /\ worker[p].item.content \in 0 .. MaxTry - 1
         /\ worker[p].item.schedule \in Nat
  BY DEF TypeOK, Busy, Idle, Rows, Row

\* The statements of queue.go keep the rows well formed.
LEMMA QueueTypes ==
  ASSUME ApAssumption, queue \subseteq Rows
  PROVE  /\ \A s \in Sends, t \in Nat :
              Enqueued(queue, [id |-> s, content |-> 0, schedule |-> t])
                \subseteq Rows
         /\ \A s \in Sends : Dequeued(queue, s) \subseteq Rows
         /\ \A item \in Rows, c \in 0 .. MaxTry - 1, d \in Nat :
              /\ Later(item, c, d) \in Rows
              /\ Rescheduled(queue, item, c, d) \subseteq Rows
<1>1. 0 \in 0 .. MaxTry - 1
  BY DEF ApAssumption
<1>2. \A s \in Sends, t \in Nat :
        Enqueued(queue, [id |-> s, content |-> 0, schedule |-> t]) \subseteq Rows
  BY <1>1 DEF Enqueued, Rows, Row
<1>3. \A s \in Sends : Dequeued(queue, s) \subseteq Rows
  BY DEF Dequeued
<1>4. \A item \in Rows, c \in 0 .. MaxTry - 1, d \in Nat :
        Later(item, c, d) \in Rows
  BY DEF Later, Rows, Row
<1>5. \A item \in Rows, c \in 0 .. MaxTry - 1, d \in Nat :
        Rescheduled(queue, item, c, d) \subseteq Rows
  BY <1>4 DEF Rescheduled
<1> QED BY <1>2, <1>3, <1>4, <1>5

LEMMA TypeStep ==
  ASSUME ApAssumption, TypeOK, \A p \in Procs : Decided(p), [Next]_vars
  PROVE  TypeOK'
<1> USE DEF sending
<1>1. CASE Tick
  BY <1>1 DEF Tick, TypeOK, ApAssumption
<1>2. ASSUME NEW p \in Procs, NEW some \in SUBSET Sends, Announce(p, some)
      PROVE  TypeOK'
  BY <1>2 DEF Announce, TypeOK
<1>3. ASSUME NEW s \in Sends, Enqueue(s),
             UNCHANGED <<now, phase, worker, sending, faults>>
      PROVE  TypeOK'
  <2>1. now \in Nat
    BY DEF TypeOK
  <2>2. queue' \subseteq Rows
    BY <1>3, <2>1, QueueTypes DEF Enqueue, TypeOK
  <2> QED BY <1>3, <2>2 DEF Enqueue, TypeOK
<1>4. ASSUME NEW s \in Sends, QueueSendFails(s) PROVE TypeOK'
  BY <1>4 DEF QueueSendFails, Fault, TypeOK, ApAssumption
<1>5. ASSUME NEW p \in Procs, Peek(p) PROVE TypeOK'
  <2>1. PICK r \in queue :
          worker' = [worker EXCEPT ![p] = [pc |-> "send", item |-> r]]
    BY <1>5 DEF Peek, Heads, Due
  <2>2. [pc |-> "send", item |-> r] \in Busy
    BY <2>1 DEF TypeOK, Busy
  <2> QED BY <1>5, <2>1, <2>2 DEF Peek, TypeOK
<1>6. ASSUME NEW p \in Procs, NEW pc \in {"reschedule", "dequeue"},
             At(p, "send"), Goto(p, pc)
      PROVE  worker' \in [Procs -> Busy \cup {Idle}]
  BY <1>6 DEF At, Goto, TypeOK, Busy, Idle
<1>7. ASSUME NEW p \in Procs, Done(p)
      PROVE  worker' \in [Procs -> Busy \cup {Idle}]
  BY <1>7 DEF Done, TypeOK
<1>8. ASSUME NEW p \in Procs, At(p, "send")
      PROVE  Sending(p) \in Sends
  BY <1>8, ItemType DEF At, Sending
<1>9. ASSUME NEW p \in Procs, SendSucceeds(p) PROVE TypeOK'
  BY <1>9, <1>6, <1>8 DEF SendSucceeds, Received, TypeOK
<1>10. ASSUME NEW p \in Procs, SendFails(p) PROVE TypeOK'
  BY <1>10, <1>6, <1>8 DEF SendFails, Failed, AfterFailure, TypeOK
<1>11. ASSUME NEW p \in Procs, AnswerLost(p) PROVE TypeOK'
  BY <1>11, <1>6, <1>8
  DEF AnswerLost, Received, Failed, AfterFailure, Fault, TypeOK, ApAssumption
<1>12. ASSUME NEW p \in Procs, Reschedule(p) PROVE TypeOK'
  <2> DEFINE item == worker[p].item
  <2>1. item \in Rows /\ item.content \in 0 .. MaxTry - 1
    BY <1>12, ItemType DEF Reschedule, At
  <2>2. item.content + 1 < MaxTry
    BY <1>12 DEF Reschedule, At, Decided
  <2>3. item.content + 1 \in 0 .. MaxTry - 1 /\ item.content + 1 \in Nat
    BY <2>1, <2>2 DEF ApAssumption
  <2>4. queue' = Rescheduled(queue, item, item.content + 1, item.content + 1)
    BY <1>12 DEF Reschedule
  <2>5. queue' \subseteq Rows
    <3> HIDE DEF item
    <3> QED BY <2>1, <2>3, <2>4, QueueTypes DEF TypeOK
  <2> QED BY <1>12, <1>7, <2>5 DEF Reschedule, TypeOK
<1>13. ASSUME NEW p \in Procs, Dequeue(p) PROVE TypeOK'
  <2>1. Sending(p) \in Sends
    BY <1>13, ItemType DEF Dequeue, At, Sending
  <2>2. queue' \subseteq Rows
    BY <1>13, <2>1, QueueTypes DEF Dequeue, TypeOK
  <2> QED BY <1>13, <1>7, <2>2 DEF Dequeue, TypeOK
<1>14. ASSUME NEW p \in Procs, StatementFails(p) PROVE TypeOK'
  BY <1>14, <1>7 DEF StatementFails, Fault, TypeOK, ApAssumption
<1>15. ASSUME NEW p \in Procs, Live(p) PROVE TypeOK'
  <2>1. CASE Stop(p) \/ CloseDb(p) \/ Start(p)
    BY <2>1 DEF Stop, CloseDb, Start, Fault, TypeOK, Phase, ApAssumption
  <2>2. CASE Exit(p)
    BY <2>2 DEF Exit, EndGoroutines, TypeOK, Phase
  <2>3. CASE Crash(p)
    BY <2>3, <1>7 DEF Crash, EndGoroutines, Fault, TypeOK, Phase, ApAssumption
  <2> QED BY <1>15, <2>1, <2>2, <2>3 DEF Live
<1>16. CASE UNCHANGED vars
  BY <1>16 DEF vars, TypeOK
<1>17. CASE Queueing
  BY <1>17, <1>2, <1>3, <1>4 DEF Queueing, QueueSend, QueueDirectly
<1>18. ASSUME NEW p \in Procs, Work(p) PROVE TypeOK'
  BY <1>18, <1>5, <1>9, <1>10, <1>11, <1>12, <1>13, <1>14 DEF Work
<1> QED BY <1>1, <1>15, <1>16, <1>17, <1>18 DEF Next

-----------------------------------------------------------------------------
(***************************************************************************)
(* Every step keeps the invariant.  A copy stays genuine because the time  *)
(* a row was written never changes and failures are only ever added.       *)
(***************************************************************************)

\* What the histories can do to a copy, a decision and to NothingLost.
Grows ==
  /\ \A s \in Sends : received[s] <= received'[s] /\ failed[s] <= failed'[s]
  /\ now <= now'

LEMMA GenuineStays ==
  ASSUME TypeOK, TypeOK', Grows, NEW r \in Rows, Genuine(r),
         queuedAt'[r.id] = queuedAt[r.id]
  PROVE  Genuine(r)'
<1>1. r.id \in Sends /\ r.content \in Int
  BY DEF Rows, Row
<1>2. failed[r.id] \in Int /\ failed'[r.id] \in Int
  BY <1>1 DEF TypeOK
<1>3. r.content <= failed[r.id] /\ failed[r.id] <= failed'[r.id]
  BY <1>1 DEF Genuine, Grows
<1>4. r.content <= failed'[r.id]
  BY ONLY <1>1, <1>2, <1>3
<1> QED BY <1>4 DEF Genuine

\* A worker that does nothing keeps what it holds and what it decided.
LEMMA WorkerStays ==
  ASSUME TypeOK, TypeOK', Grows, NEW p \in Procs, Held(p), Decided(p),
         worker'[p] = worker[p],
         \A s \in Sends : queuedAt[s] # 0 => queuedAt'[s] = queuedAt[s]
  PROVE  Held(p)' /\ Decided(p)'
<1> DEFINE item == worker[p].item
<1>1. CASE worker[p].pc = "idle"
  BY <1>1 DEF Held, Decided
<1>2. CASE worker[p].pc # "idle"
  <2>1. item \in Rows /\ item.id \in Sends /\ item.schedule \in Int
        /\ item.content \in Int
    BY <1>2, ItemType
  <2>2. Genuine(item) /\ item.schedule <= now
    BY <1>2 DEF Held
  <2>3. Genuine(item)'
    BY <2>1, <2>2, GenuineStays DEF Genuine
  <2>4. /\ now \in Int /\ now' \in Int /\ now <= now'
        /\ received[item.id] \in Int /\ received'[item.id] \in Int
        /\ received[item.id] <= received'[item.id]
        /\ failed[item.id] \in Int /\ failed'[item.id] \in Int
        /\ failed[item.id] <= failed'[item.id]
        /\ MaxTry \in Int
    BY <2>1, ApAssumption DEF TypeOK, Grows, ApAssumption
  <2>5. item.schedule <= now'
    BY ONLY <2>1, <2>2, <2>4
  <2>6. Held(p)'
    BY <2>3, <2>5 DEF Held
  <2>7. ASSUME worker[p].pc = "reschedule"
        PROVE  item.content + 1 < MaxTry /\ item.content + 1 <= failed'[item.id]
    <3>1. item.content + 1 < MaxTry /\ item.content + 1 <= failed[item.id]
      BY <2>7 DEF Decided
    <3> QED BY ONLY <2>1, <2>4, <3>1
  <2>8. ASSUME worker[p].pc = "dequeue"
        PROVE  \/ received'[item.id] > 0
               \/ item.content + 1 = MaxTry /\ MaxTry <= failed'[item.id]
    <3>1. \/ received[item.id] > 0
          \/ item.content + 1 = MaxTry /\ MaxTry <= failed[item.id]
      BY <2>8 DEF Decided
    <3> QED BY ONLY <2>1, <2>4, <3>1
  <2> QED BY <2>6, <2>7, <2>8 DEF Decided
<1> QED BY <1>1, <1>2

\* Nothing is lost as long as the rows stay.
LEMMA LossStays ==
  ASSUME TypeOK, TypeOK', Grows, NothingLost,
         \A s \in Sends : queuedAt'[s] # 0 =>
           \/ queuedAt[s] # 0 /\ (Kept(s) => Kept(s)')
           \/ Kept(s)'
           \/ received'[s] > 0 \/ failed'[s] >= MaxTry,
         ApAssumption
  PROVE  NothingLost'
<1> SUFFICES ASSUME NEW s \in Sends, queuedAt'[s] # 0
             PROVE  Kept(s)' \/ received'[s] > 0 \/ failed'[s] >= MaxTry
  BY DEF NothingLost
<1>1. /\ received[s] \in Int /\ received'[s] \in Int
      /\ failed[s] \in Int /\ failed'[s] \in Int /\ MaxTry \in Int
      /\ received[s] <= received'[s] /\ failed[s] <= failed'[s]
  BY DEF TypeOK, Grows, ApAssumption
<1>2. CASE queuedAt[s] # 0 /\ (Kept(s) => Kept(s)')
  <2>1. Kept(s)' \/ received[s] > 0 \/ failed[s] >= MaxTry
    BY <1>2 DEF NothingLost
  <2> QED BY ONLY <1>1, <2>1
<1> QED BY <1>2

\* A step that touches neither the rows nor the histories; a worker may drop
\* its item.
LEMMA QuietStep ==
  ASSUME ApAssumption, IInv, TypeOK', UNCHANGED <<queue, queuedAt, sending>>,
         now <= now',
         \A p \in Procs : worker'[p] = worker[p] \/ worker'[p].pc = "idle",
         \A s \in Sends : goroutine'[s] # "over" => queuedAt[s] = 0
  PROVE  IInv'
<1>1. Grows
  BY DEF IInv, TypeOK, Grows, sending
<1>2. \A r \in queue' : Genuine(r)'
  BY DEF IInv, Genuine, sending
<1>3. \A p \in Procs : Held(p)' /\ Decided(p)'
  <2> TAKE p \in Procs
  <2>1. CASE worker'[p].pc = "idle"
    BY <2>1 DEF Held, Decided
  <2>2. CASE worker'[p] = worker[p]
    BY <2>2, <1>1, WorkerStays DEF IInv
  <2> QED BY <2>1, <2>2
<1>4. NothingLost'
  BY DEF IInv, NothingLost, Kept, sending
<1> QED BY <1>2, <1>3, <1>4 DEF IInv

\* Writing the row of a send.
LEMMA EnqueueStep ==
  ASSUME ApAssumption, IInv, TypeOK', NEW s \in Sends,
         goroutine[s] # "over", Enqueue(s), UNCHANGED <<now, worker, sending>>
  PROVE  IInv'
<1> DEFINE row == [id |-> s, content |-> 0, schedule |-> now]
<1>1. queuedAt[s] = 0 /\ queuedAt'[s] = now /\ now # 0
      /\ \A t \in Sends : t # s => queuedAt'[t] = queuedAt[t]
  BY DEF IInv, TypeOK, Enqueue
<1>2. Grows
  BY DEF IInv, TypeOK, Grows, sending
<1>3. \A t \in Sends : queuedAt[t] # 0 => queuedAt'[t] = queuedAt[t]
  BY <1>1
<1>4. Genuine(row)'
  <2>1. now \in Int /\ failed'[s] \in Nat
    BY DEF IInv, TypeOK
  <2> QED BY <1>1, <2>1 DEF Genuine
<1>5. \A r \in queue' : Genuine(r)'
  <2> TAKE r \in queue'
  <2>1. CASE r = row
    BY <1>4, <2>1
  <2>2. CASE r \in queue
    <3>1. r \in Rows /\ r.id \in Sends /\ Genuine(r)
      BY <2>2 DEF IInv, TypeOK, Rows, Row
    <3> QED BY <1>2, <1>3, <3>1, GenuineStays DEF IInv, Genuine
  <2> QED BY <2>1, <2>2 DEF Enqueue, Enqueued
<1>6. \A p \in Procs : Held(p)' /\ Decided(p)'
  BY <1>2, <1>3, WorkerStays DEF IInv
<1>7. \A t \in Sends : goroutine'[t] # "over" => queuedAt'[t] = 0
  BY <1>1 DEF IInv, TypeOK, Enqueue
<1>8. \A t \in Sends : Kept(t) => Kept(t)'
  BY DEF Kept, Enqueue, Enqueued
<1>9. Kept(s)'
  <2>1. row \in queue' /\ row.id = s
    BY DEF Enqueue, Enqueued
  <2> QED BY <2>1 DEF Kept
<1>10. NothingLost'
  BY <1>1, <1>2, <1>8, <1>9, LossStays DEF IInv
<1> QED BY <1>5, <1>6, <1>7, <1>10 DEF IInv

\* Taking a due row.
LEMMA PeekStep ==
  ASSUME ApAssumption, IInv, TypeOK', NEW p \in Procs, Peek(p)
  PROVE  IInv'
<1>1. PICK r \in queue :
        /\ r.schedule <= now
        /\ worker' = [worker EXCEPT ![p] = [pc |-> "send", item |-> r]]
  BY DEF Peek, Heads, Due
<1>2. UNCHANGED <<now, queue, goroutine, queuedAt, received, failed>>
  BY DEF Peek, sending
<1>3. \A q \in Procs : Held(q)' /\ Decided(q)'
  <2> TAKE q \in Procs
  <2>1. CASE q = p
    <3>1. worker'[q] = [pc |-> "send", item |-> r]
      BY <1>1, <2>1 DEF IInv, TypeOK
    <3>2. Genuine(r)'
      BY <1>2 DEF IInv, Genuine
    <3> QED BY <1>1, <1>2, <3>1, <3>2 DEF Held, Decided
  <2>2. CASE q # p
    <3>1. worker'[q] = worker[q]
      BY <1>1, <2>2 DEF IInv, TypeOK
    <3>2. Held(q) /\ Decided(q)
      BY DEF IInv
    <3> QED BY <1>2, <3>1, <3>2 DEF Held, Decided, Genuine
  <2> QED BY <2>1, <2>2
<1> QED BY <1>2, <1>3 DEF IInv, Genuine, NothingLost, Kept

\* An attempt: received and failed count it, and a worker that has seen it
\* fail counts it in the item it writes back or gives the activity up.
LEMMA SendStep ==
  ASSUME ApAssumption, IInv, TypeOK', NEW p \in Procs,
         SendSucceeds(p) \/ SendFails(p) \/ AnswerLost(p)
  PROVE  IInv'
<1> DEFINE item == worker[p].item
<1>1. /\ item \in Rows /\ item.id \in Sends
      /\ item.content \in 0 .. MaxTry - 1 /\ item.schedule \in Nat
      /\ Sending(p) = item.id /\ worker[p].pc = "send"
  BY ItemType DEF IInv, SendSucceeds, SendFails, AnswerLost, At, Sending
<1>2. UNCHANGED <<now, queue, goroutine, queuedAt>>
  BY DEF SendSucceeds, SendFails, AnswerLost
<1>3. Grows
  BY <1>1, <1>2 DEF IInv, TypeOK, Grows, SendSucceeds, SendFails, AnswerLost,
                    Received, Failed
<1>4. Genuine(item) /\ item.schedule <= now
  BY <1>1 DEF IInv, Held
<1>5. PICK same \in Rows : same = item /\ Genuine(same)'
  BY <1>1, <1>2, <1>3, <1>4, GenuineStays DEF IInv
<1>6. \A q \in Procs \ {p} : worker'[q] = worker[q]
  <2>1. CASE SendSucceeds(p)
    BY <2>1 DEF SendSucceeds, Goto, IInv, TypeOK
  <2>2. CASE AfterFailure(p)
    BY <2>2 DEF AfterFailure, Goto, IInv, TypeOK
  <2> QED BY <2>1, <2>2 DEF SendFails, AnswerLost
<1>7. PICK pc \in {"dequeue", "reschedule"} :
        worker'[p] = [pc |-> pc, item |-> item]
  <2>1. CASE SendSucceeds(p)
    BY <2>1 DEF SendSucceeds, Goto, IInv, TypeOK
  <2>2. CASE AfterFailure(p)
    BY <2>2 DEF AfterFailure, Goto, IInv, TypeOK
  <2> QED BY <2>1, <2>2 DEF SendFails, AnswerLost
<1>8. Held(p)'
  BY <1>2, <1>4, <1>5, <1>7 DEF Held
<1>9. Decided(p)'
  <2>1. CASE SendSucceeds(p)
    <3>1. worker'[p] = [pc |-> "dequeue", item |-> item]
      BY <2>1 DEF SendSucceeds, Goto, IInv, TypeOK
    <3>2. received'[item.id] > 0
      BY <2>1, <1>1 DEF SendSucceeds, Received, IInv, TypeOK
    <3> QED BY <3>1, <3>2 DEF Decided
  <2>2. CASE SendFails(p) \/ AnswerLost(p)
    <3>1. failed'[item.id] = failed[item.id] + 1 /\ failed[item.id] \in Nat
      BY <2>2, <1>1 DEF SendFails, AnswerLost, Failed, IInv, TypeOK
    <3>2. worker'[p] =
            [pc |-> IF item.content + 1 < MaxTry THEN "reschedule" ELSE "dequeue",
             item |-> item]
      BY <2>2 DEF SendFails, AnswerLost, AfterFailure, Goto, IInv, TypeOK
    <3>3. item.content <= failed[item.id] /\ item.content \in 0 .. MaxTry - 1
          /\ MaxTry \in Nat
      BY <1>1, <1>4, ApAssumption DEF Genuine, ApAssumption
    <3>4. CASE item.content + 1 < MaxTry
      <4>1. item.content + 1 <= failed'[item.id]
        BY ONLY <3>1, <3>3
      <4> QED BY <3>2, <3>4, <4>1 DEF Decided
    <3>5. CASE ~(item.content + 1 < MaxTry)
      <4>1. item.content + 1 = MaxTry /\ MaxTry <= failed'[item.id]
        BY ONLY <3>1, <3>3, <3>5
      <4> QED BY <3>2, <3>5, <4>1 DEF Decided
    <3> QED BY <3>4, <3>5
  <2> QED BY <2>1, <2>2
<1>10. \A q \in Procs : Held(q)' /\ Decided(q)'
  BY <1>2, <1>3, <1>6, <1>8, <1>9, WorkerStays DEF IInv
<1>11. \A r \in queue' : Genuine(r)'
  <2> TAKE r \in queue'
  <2>1. r \in Rows /\ Genuine(r)
    BY <1>2 DEF IInv, TypeOK
  <2> QED BY <2>1, <1>2, <1>3, GenuineStays DEF IInv
<1>12. NothingLost'
  BY <1>2, <1>3, LossStays DEF IInv, Kept
<1> QED BY <1>2, <1>10, <1>11, <1>12 DEF IInv

\* Writing a failed item back: its count and its schedule move on together.
LEMMA RescheduleStep ==
  ASSUME ApAssumption, IInv, TypeOK', NEW p \in Procs, Reschedule(p)
  PROVE  IInv'
<1> DEFINE item == worker[p].item
           later == Later(item, item.content + 1, item.content + 1)
<1>1. /\ item \in Rows /\ item.id \in Sends
      /\ item.content \in 0 .. MaxTry - 1 /\ item.schedule \in Nat
      /\ worker[p].pc = "reschedule"
  BY ItemType DEF IInv, Reschedule, At
<1>2. UNCHANGED <<now, goroutine, queuedAt, received, failed>>
  BY DEF Reschedule, sending
<1>3. queue' = {IF r.id = item.id THEN later ELSE r : r \in queue}
  BY DEF Reschedule, Rescheduled
<1>4. Genuine(later)
  <2>1. /\ queuedAt[item.id] # 0
        /\ 2 * (item.schedule - queuedAt[item.id]) = item.content * (item.content + 1)
    BY <1>1 DEF IInv, Held, Genuine
  <2>2. item.content + 1 <= failed[item.id]
    BY <1>1 DEF IInv, Decided
  <2>3. queuedAt[item.id] \in Int /\ item.content \in Int /\ item.schedule \in Int
    BY <1>1 DEF IInv, TypeOK
  <2>4. 2 * ((item.schedule + (item.content + 1)) - queuedAt[item.id])
          = (item.content + 1) * ((item.content + 1) + 1)
    <3> DEFINE c == item.content
               d == item.schedule - queuedAt[item.id]
    <3>1. c \in Int /\ d \in Int /\ 2 * d = c * (c + 1)
      BY <2>1, <2>3
    <3>2. (item.schedule + (c + 1)) - queuedAt[item.id] = d + (c + 1)
      BY <2>3
    <3>3. \A i, j \in Int :
            2 * j = i * (i + 1) => 2 * (j + (i + 1)) = (i + 1) * ((i + 1) + 1)
      OBVIOUS
    <3> QED BY <3>1, <3>2, <3>3
  <2> QED BY <2>1, <2>2, <2>4 DEF Genuine, Later
<1>5. \A r \in queue' : Genuine(r)'
  <2> TAKE r \in queue'
  <2>1. Genuine(r)
    BY <1>3, <1>4 DEF IInv
  <2> QED BY <2>1, <1>2 DEF Genuine
<1>6. \A q \in Procs : worker'[q] = worker[q] \/ worker'[q].pc = "idle"
  BY DEF Reschedule, Done, Idle, IInv, TypeOK
<1>7. \A q \in Procs : Held(q)' /\ Decided(q)'
  BY <1>2, <1>6 DEF IInv, Held, Decided, Genuine
<1>8. \A s \in Sends : Kept(s) => Kept(s)'
  <2> SUFFICES ASSUME NEW s \in Sends, NEW r \in queue, r.id = s
               PROVE  Kept(s)'
    BY DEF Kept
  <2>1. later.id = item.id
    BY DEF Later
  <2>2. (IF r.id = item.id THEN later ELSE r).id = s
    BY <2>1
  <2>3. (IF r.id = item.id THEN later ELSE r) \in queue'
    BY <1>3
  <2> QED BY <2>2, <2>3 DEF Kept
<1>9. NothingLost'
  BY <1>2, <1>8 DEF IInv, NothingLost
<1> QED BY <1>2, <1>5, <1>7, <1>9 DEF IInv

\* Removing a row whose fate is decided.
LEMMA DequeueStep ==
  ASSUME ApAssumption, IInv, TypeOK', NEW p \in Procs, Dequeue(p)
  PROVE  IInv'
<1> DEFINE item == worker[p].item
<1>1. item.id \in Sends /\ worker[p].pc = "dequeue" /\ Sending(p) = item.id
  BY ItemType DEF IInv, Dequeue, At, Sending
<1>2. UNCHANGED <<now, goroutine, queuedAt, received, failed>>
  BY DEF Dequeue, sending
<1>3. queue' = {r \in queue : r.id # item.id}
  BY <1>1 DEF Dequeue, Dequeued
<1>4. received[item.id] > 0 \/ failed[item.id] >= MaxTry
  <2>1. received[item.id] > 0 \/ MaxTry <= failed[item.id]
    BY <1>1 DEF IInv, Decided
  <2>2. failed[item.id] \in Int /\ MaxTry \in Int
    BY <1>1 DEF IInv, TypeOK, ApAssumption
  <2> QED BY ONLY <2>1, <2>2
<1>5. \A r \in queue' : Genuine(r)'
  BY <1>2, <1>3 DEF IInv, Genuine
<1>6. \A q \in Procs : worker'[q] = worker[q] \/ worker'[q].pc = "idle"
  BY DEF Dequeue, Done, Idle, IInv, TypeOK
<1>7. \A q \in Procs : Held(q)' /\ Decided(q)'
  BY <1>2, <1>6 DEF IInv, Held, Decided, Genuine
<1>8. \A s \in Sends : Kept(s) => Kept(s)' \/ s = item.id
  BY <1>3 DEF Kept
<1>9. NothingLost'
  BY <1>2, <1>4, <1>8 DEF IInv, NothingLost
<1> QED BY <1>2, <1>5, <1>7, <1>9 DEF IInv

LEMMA InitInv == Init => IInv
<1> SUFFICES ASSUME Init PROVE IInv
  OBVIOUS
<1> USE ApAssumption
<1>1. TypeOK
  BY DEF Init, TypeOK, Phase, ApAssumption
<1>2. \A p \in Procs : Held(p) /\ Decided(p)
  BY DEF Init, Idle, Held, Decided
<1>3. NothingLost
  BY DEF Init, NothingLost
<1> QED BY <1>1, <1>2, <1>3 DEF Init, IInv

LEMMA NextInv == IInv /\ [Next]_vars => IInv'
<1> SUFFICES ASSUME IInv, [Next]_vars PROVE IInv'
  OBVIOUS
<1> USE ApAssumption
<1>1. TypeOK'
  BY TypeStep DEF IInv
<1>2. now \in Int /\ now <= now
  BY DEF IInv, TypeOK
<1>3. \A p \in Procs : "over" # p
  BY DEF ApAssumption
<1>4. CASE Tick
  <2>1. now <= now'
    BY <1>2, <1>4 DEF Tick
  <2> QED BY <1>1, <1>4, <2>1, QuietStep DEF Tick, IInv
<1>5. CASE Queueing
  <2>1. ASSUME NEW p \in Procs, NEW some \in SUBSET Sends, Announce(p, some)
        PROVE  IInv'
    <3>1. \A s \in Sends : goroutine'[s] # "over" => goroutine[s] # "over"
      BY <2>1 DEF Announce, IInv, TypeOK
    <3> QED BY <1>1, <1>2, <2>1, <3>1, QuietStep DEF Announce, IInv
  <2>2. ASSUME NEW s \in Sends, QueueSendFails(s) PROVE IInv'
    <3>1. \A t \in Sends : goroutine'[t] # "over" => goroutine[t] # "over"
      BY <2>2 DEF QueueSendFails, IInv, TypeOK
    <3> QED BY <1>1, <1>2, <2>2, <3>1, QuietStep DEF QueueSendFails, IInv
  <2>3. ASSUME NEW s \in Sends, QueueSend(s) PROVE IInv'
    BY <1>1, <1>3, <2>3, EnqueueStep DEF QueueSend
  <2>4. ASSUME NEW p \in Procs, NEW s \in Sends, QueueDirectly(p, s) PROVE IInv'
    BY <1>1, <2>4, EnqueueStep DEF QueueDirectly
  <2> QED BY <1>5, <2>1, <2>2, <2>3, <2>4 DEF Queueing
<1>6. ASSUME NEW p \in Procs, Work(p) PROVE IInv'
  <2>1. CASE StatementFails(p)
    <3>1. \A q \in Procs : worker'[q] = worker[q] \/ worker'[q].pc = "idle"
      BY <2>1 DEF StatementFails, Done, Idle, IInv, TypeOK
    <3> QED BY <1>1, <1>2, <2>1, <3>1, QuietStep DEF StatementFails, IInv
  <2> QED BY <1>1, <1>6, <2>1, PeekStep, SendStep, RescheduleStep, DequeueStep
          DEF Work
<1>7. ASSUME NEW p \in Procs, Live(p) PROVE IInv'
  <2>1. UNCHANGED <<now, queue, queuedAt, sending>>
    BY <1>7 DEF Live, Stop, CloseDb, Exit, Crash, Start
  <2>2. \A q \in Procs : worker'[q] = worker[q] \/ worker'[q].pc = "idle"
    BY <1>7 DEF Live, Stop, CloseDb, Exit, Crash, Start, Done, Idle, IInv, TypeOK
  <2>3. \A s \in Sends : goroutine'[s] # "over" => goroutine[s] # "over"
    BY <1>7 DEF Live, Stop, CloseDb, Exit, Crash, Start, EndGoroutines, IInv, TypeOK
  <2> QED BY <1>1, <1>2, <2>1, <2>2, <2>3, QuietStep DEF IInv
<1>8. CASE UNCHANGED vars
  BY <1>1, <1>2, <1>8, QuietStep DEF vars, IInv
<1> QED BY <1>4, <1>5, <1>6, <1>7, <1>8 DEF Next

LEMMA Invariance == Spec => []IInv
BY InitInv, NextInv, PTL DEF Spec

-----------------------------------------------------------------------------
(***************************************************************************)
(* The theorems.                                                           *)
(***************************************************************************)

\* Every variable keeps its type; in particular no try count that is stored
\* reaches MaxTry.
THEOREM TypeCorrect == Spec => []TypeOK
<1>1. IInv => TypeOK
  BY DEF IInv
<1> QED BY <1>1, Invariance, PTL

\* For any number of processes, sends, crashes, refused statements and lost
\* answers: what was queued is kept until it was received or failed MaxTry
\* times (the worker of initAPSendQueue on top of queue.go).
THEOREM NothingIsLost == Spec => []NothingLost
<1>1. IInv => NothingLost
  BY DEF IInv
<1> QED BY <1>1, Invariance, PTL

\* A row leaves the queue by a worker that has decided so.
LEMMA OnlyDequeueRemoves ==
  ASSUME ApAssumption, IInv, [Next]_vars, NEW s \in Sends, Kept(s), ~Kept(s)'
  PROVE  \E p \in Procs : Dequeue(p) /\ Sending(p) = s
<1>1. PICK r \in queue : r.id = s
  BY DEF Kept
<1>2. r \notin queue'
  BY <1>1 DEF Kept
<1>3. CASE Tick \/ UNCHANGED vars
  BY <1>2, <1>3 DEF Tick, vars
<1>4. CASE Queueing
  BY <1>2, <1>4 DEF Queueing, Announce, QueueSend, QueueSendFails, QueueDirectly,
                    Enqueue, Enqueued
<1>5. ASSUME NEW p \in Procs, Live(p) PROVE FALSE
  BY <1>2, <1>5 DEF Live, Stop, CloseDb, Exit, Crash, Start
<1>6. ASSUME NEW p \in Procs, Work(p) PROVE Dequeue(p) /\ Sending(p) = s
  <2>1. CASE Reschedule(p)
    <3> DEFINE item == worker[p].item
               copy == IF r.id = item.id
                         THEN Later(item, item.content + 1, item.content + 1) ELSE r
    <3>1. copy \in queue'
      BY <1>1, <2>1 DEF Reschedule, Rescheduled
    <3>2. copy.id = s
      BY <1>1 DEF Later
    <3> QED BY <3>1, <3>2 DEF Kept
  <2>2. CASE Dequeue(p)
    BY <1>1, <1>2, <2>2 DEF Dequeue, Dequeued
  <2> QED BY <1>2, <1>6, <2>1, <2>2
          DEF Work, Peek, SendSucceeds, SendFails, AnswerLost, StatementFails
<1> QED BY <1>2, <1>3, <1>4, <1>5, <1>6 DEF Next

\* No activity is given up early: whoever writes old counts back, the row is
\* due again only after the delays that belong to its count (initAPSendQueue).
THEOREM NoneGivenUpEarly == Spec => GivesUpLate
<1> USE ApAssumption
<1>1. ASSUME IInv, [Next]_vars
      PROVE  [\A s \in Sends : Kept(s) /\ ~Kept(s)' /\ received[s] = 0
                => DelaysPassed(s)]_vars
  <2> SUFFICES ASSUME NEW s \in Sends, Kept(s), ~Kept(s)', received[s] = 0
               PROVE  DelaysPassed(s)
    OBVIOUS
  <2>1. PICK p \in Procs : Dequeue(p) /\ Sending(p) = s
    BY <1>1, OnlyDequeueRemoves
  <2> DEFINE item == worker[p].item
  <2>2. item.id = s /\ worker[p].pc = "dequeue" /\ item.schedule \in Nat
        /\ item.content \in 0 .. MaxTry - 1
    BY <1>1, <2>1, ItemType DEF Dequeue, At, Sending, IInv
  <2>3. item.content + 1 = MaxTry
    BY <1>1, <2>2 DEF IInv, Decided
  <2>4. /\ 2 * (item.schedule - queuedAt[s]) = item.content * (item.content + 1)
        /\ item.schedule <= now
    BY <1>1, <2>2 DEF IInv, Held, Genuine
  <2>5. item.content = MaxTry - 1 /\ MaxTry \in Int
    BY <2>2, <2>3 DEF ApAssumption
  <2>6. 2 * (item.schedule - queuedAt[s]) = (MaxTry - 1) * MaxTry
    BY <2>3, <2>4, <2>5
  <2>7. queuedAt[s] \in Int /\ now \in Int /\ item.schedule \in Int
    BY <1>1, <2>2 DEF IInv, TypeOK
  <2>8. (now - queuedAt[s]) + (now - queuedAt[s])
          >= 2 * (item.schedule - queuedAt[s])
    BY ONLY <2>4, <2>7
  <2> QED BY <2>6, <2>8 DEF DelaysPassed
<1> QED BY <1>1, Invariance, PTL DEF Spec, GivesUpLate

-----------------------------------------------------------------------------
(***************************************************************************)
(* ApDelivery implements Delivery.                                         *)
(***************************************************************************)
LEMMA InitRefines == Init => Promise!Init
BY DEF Init, Promise!Init

\* What the statements do to the set of kept sends.
LEMMA PendingOf ==
  ASSUME IInv
  PROVE  /\ \A r : {q.id : q \in Enqueued(queue, r)} = {q.id : q \in queue} \cup {r.id}
         /\ \A s : {q.id : q \in Dequeued(queue, s)} = {q.id : q \in queue} \ {s}
         /\ \A item, c, d :
              {q.id : q \in Rescheduled(queue, item, c, d)} = {q.id : q \in queue}
<1>1. \A r : {q.id : q \in Enqueued(queue, r)} = {q.id : q \in queue} \cup {r.id}
  BY DEF Enqueued
<1>2. \A s : {q.id : q \in Dequeued(queue, s)} = {q.id : q \in queue} \ {s}
  BY DEF Dequeued
<1>3. ASSUME NEW item, NEW c, NEW d
      PROVE  {q.id : q \in Rescheduled(queue, item, c, d)} = {q.id : q \in queue}
  <2>1. Later(item, c, d).id = item.id
    BY DEF Later
  <2>2. \A q \in queue :
          (IF q.id = item.id THEN Later(item, c, d) ELSE q).id = q.id
    BY <2>1
  <2> QED BY <2>2 DEF Rescheduled
<1> QED BY <1>1, <1>2, <1>3

LEMMA NextRefines == IInv /\ [Next]_vars => [Promise!Next]_Promise!vars
<1> SUFFICES ASSUME IInv, [Next]_vars PROVE [Promise!Next]_Promise!vars
  OBVIOUS
<1> USE ApAssumption
<1>1. ASSUME NEW s \in Sends, goroutine[s] # "over", Enqueue(s),
             UNCHANGED sending
      PROVE  Promise!Accept(s)
  <2>1. queuedAt[s] = 0 /\ now # 0 /\ queuedAt' = [queuedAt EXCEPT ![s] = now]
    BY <1>1 DEF IInv, TypeOK, Enqueue
  <2>2. {t \in Sends : queuedAt'[t] # 0} = {t \in Sends : queuedAt[t] # 0} \cup {s}
    BY <2>1 DEF IInv, TypeOK
  <2>3. {r.id : r \in queue'} = {r.id : r \in queue} \cup {s}
    BY <1>1, PendingOf DEF Enqueue
  <2> QED BY <1>1, <2>1, <2>2, <2>3 DEF Promise!Accept, sending
<1>2. ASSUME NEW p \in Procs, SendSucceeds(p) \/ SendFails(p) \/ AnswerLost(p)
      PROVE  Sending(p) \in Sends /\ Promise!Attempt(Sending(p))
  <2> DEFINE s == Sending(p)
  <2>1. s \in Sends /\ queuedAt[s] # 0 /\ UNCHANGED <<queue, queuedAt>>
    BY <1>2, ItemType
    DEF IInv, Held, Genuine, Sending, At, SendSucceeds, SendFails, AnswerLost
  <2>2. received[s] \in Int /\ failed[s] \in Int
    BY <2>1 DEF IInv, TypeOK
  <2>3. CASE SendSucceeds(p)
    <3>1. received' = [received EXCEPT ![s] = @ + 1]
          /\ failed' = [failed EXCEPT ![s] = @ + 0]
      BY <2>1, <2>2, <2>3 DEF SendSucceeds, Received, IInv, TypeOK
    <3> QED BY <2>1, <3>1 DEF Promise!Attempt
  <2>4. CASE SendFails(p)
    <3>1. received' = [received EXCEPT ![s] = @ + 0]
          /\ failed' = [failed EXCEPT ![s] = @ + 1]
      BY <2>1, <2>2, <2>4 DEF SendFails, Failed, IInv, TypeOK
    <3> QED BY <2>1, <3>1 DEF Promise!Attempt
  <2>5. CASE AnswerLost(p)
    <3>1. received' = [received EXCEPT ![s] = @ + 1]
          /\ failed' = [failed EXCEPT ![s] = @ + 1]
      BY <2>5 DEF AnswerLost, Received, Failed
    <3> QED BY <2>1, <3>1 DEF Promise!Attempt
  <2> QED BY <1>2, <2>1, <2>3, <2>4, <2>5
<1>3. ASSUME NEW p \in Procs, Dequeue(p) PROVE [Promise!Next]_Promise!vars
  <2> DEFINE s == Sending(p)
  <2>1. s \in Sends /\ UNCHANGED <<queuedAt, received, failed>>
    BY <1>3, ItemType DEF IInv, Sending, At, Dequeue, sending
  <2>2. {r.id : r \in queue'} = {r.id : r \in queue} \ {s}
    BY <1>3, PendingOf DEF Dequeue
  <2>3. received[s] > 0 \/ failed[s] >= MaxTry
    <3>1. received[s] > 0 \/ MaxTry <= failed[s]
      BY <1>3 DEF IInv, Decided, Dequeue, At, Sending
    <3>2. failed[s] \in Int /\ MaxTry \in Int
      BY <2>1 DEF IInv, TypeOK, ApAssumption
    <3> QED BY ONLY <3>1, <3>2
  <2>4. CASE s \in {r.id : r \in queue}
    BY <2>1, <2>2, <2>3, <2>4 DEF Promise!Next, Promise!Retire, Promise!Settled
  <2>5. CASE s \notin {r.id : r \in queue}
    BY <2>1, <2>2, <2>5 DEF Promise!vars
  <2> QED BY <2>4, <2>5
<1>4. ASSUME NEW p \in Procs, Reschedule(p) PROVE UNCHANGED Promise!vars
  BY <1>4, PendingOf DEF Reschedule, Promise!vars, sending
<1>5. ASSUME UNCHANGED <<queue, queuedAt, sending>> PROVE UNCHANGED Promise!vars
  BY <1>5 DEF Promise!vars, sending
<1>6. CASE Queueing
  <2>1. ASSUME NEW s \in Sends, QueueSend(s) PROVE Promise!Accept(s)
    BY <1>1, <2>1 DEF QueueSend, ApAssumption
  <2>2. ASSUME NEW s \in Sends, NEW p \in Procs, QueueDirectly(p, s)
        PROVE  Promise!Accept(s)
    BY <1>1, <2>2 DEF QueueDirectly
  <2> QED BY <1>5, <1>6, <2>1, <2>2
          DEF Queueing, Announce, QueueSendFails, Promise!Next
<1>7. ASSUME NEW p \in Procs, Work(p) PROVE [Promise!Next]_Promise!vars
  BY <1>2, <1>3, <1>4, <1>5, <1>7
  DEF Work, Peek, StatementFails, Promise!Next
<1>8. ASSUME NEW p \in Procs, Live(p) PROVE UNCHANGED Promise!vars
  BY <1>5, <1>8 DEF Live, Stop, CloseDb, Exit, Crash, Start
<1>9. CASE Tick \/ UNCHANGED vars
  BY <1>5, <1>9 DEF Tick, vars
<1> QED BY <1>6, <1>7, <1>8, <1>9 DEF Next

\* The worker, the queue and the processes together do what Delivery says:
\* an activity leaves only when it was received or has failed MaxTry times.
THEOREM Refinement == Spec => ImplementsDelivery
BY InitRefines, NextRefines, Invariance, PTL
DEF Spec, ImplementsDelivery, Promise!Spec
=============================================================================
