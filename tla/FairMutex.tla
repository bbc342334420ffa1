------------------------------ MODULE FairMutex ------------------------------
(* tokio::sync::Mutex: a queue of those that asked for the lock, its head   *)
(* being the holder.  A waiter whose future is dropped leaves the queue.    *)
EXTENDS Sequences, SequencesExt

Holds(queue, a) == queue # <<>> /\ Head(queue) = a
Waits(queue, a) == a \in Range(queue) /\ ~Holds(queue, a)
Asks(queue, a)  == Append(queue, a)
Releases(queue, a) == IF Holds(queue, a) THEN Tail(queue) ELSE queue
Drops(queue, a) == SelectSeq(queue, LAMBDA b : b # a)
=============================================================================
