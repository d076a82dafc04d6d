------------------------------ MODULE ByteFifo ------------------------------
(***************************************************************************)
(* What a ByteQueue promises: a bounded first-in first-out queue between   *)
(* an interrupt handler, which drops what does not fit, and a task.        *)
(* InputQueue.tla is shown to implement this module.                       *)
(***************************************************************************)
EXTENDS Sequences, Naturals

CONSTANTS
  Bytes,
  NoByte,    \* the result of a pop that finds the queue empty
  Capacity

VARIABLES
  queue,
  popped     \* the result of the last pop

vars == <<queue, popped>>

Init == queue = <<>> /\ popped = NoByte

(* A push to a full queue is dropped: it changes nothing. *)
Push ==
  /\ Len(queue) < Capacity
  /\ \E b \in Bytes : queue' = Append(queue, b)
  /\ UNCHANGED popped

Pop ==
  /\ queue # <<>>
  /\ popped' = Head(queue) /\ queue' = Tail(queue)

FindsNone == queue = <<>> /\ popped' = NoByte /\ UNCHANGED queue

Next == Push \/ Pop \/ FindsNone

Spec == Init /\ [][Next]_vars
=============================================================================
