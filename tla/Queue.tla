------------------------------- MODULE Queue -------------------------------
(***************************************************************************)
(* The table queue (queue.go) as a set of rows of one queue name, and what *)
(* the statements of queue.go do with it.  Several workers, of several     *)
(* processes, may run on one table: nothing marks a row as taken.          *)
(*                                                                         *)
(* schedule is counted in ticks.  The program stores it as text with       *)
(* trailing zeros cut off (time.RFC3339Nano), so that the texts of one     *)
(* second do not sort by time; rows of one tick are equal here and any of  *)
(* them may come first.                                                    *)
(***************************************************************************)
EXTENDS Integers

Row(Ids, Contents) == [id : Ids, content : Contents, schedule : Nat]

\* The rows peekQueue may return at a time: due, and none due is earlier.
Due(queue, time) == {r \in queue : r.schedule <= time}
Heads(queue, time) ==
  {r \in Due(queue, time) : \A o \in Due(queue, time) : r.schedule <= o.schedule}

Enqueued(queue, row) == queue \cup {row}
Dequeued(queue, id)  == {r \in queue : r.id # id}

\* Mistake: the delay does not grow with the tries.
LaterConstant(item, content, dur) ==
  [id |-> item.id, content |-> content, schedule |-> item.schedule + 1]

\* The row of an item gets new content and is due dur after it was due before
\* (not dur from now); the statement changes nothing when the row is gone.
Later(item, content, dur) ==
  [id |-> item.id, content |-> content, schedule |-> item.schedule + dur]
\* Mistake: the row is inserted again when another worker has removed it.
RescheduledUpsert(queue, item, content, dur) ==
  {r \in queue : r.id # item.id} \cup {Later(item, content, dur)}

Rescheduled(queue, item, content, dur) ==
  {IF r.id = item.id THEN Later(item, content, dur) ELSE r : r \in queue}
=============================================================================
