----------------------------- MODULE InputQueue -----------------------------
(***************************************************************************)
(* ByteQueue of interrupts.rs: the ring buffer between the keyboard or     *)
(* mouse interrupt handler, its only producer, and the input server, its   *)
(* only consumer.  There is one processor: a push is one step, since no    *)
(* handler is interrupted, and comes between any two memory accesses of a  *)
(* pop.  Only pop writes read_pos, so that it matters not when pop loads   *)
(* it.                                                                     *)
(***************************************************************************)
EXTENDS Naturals

CONSTANTS
  QSize,     \* length of the ring (256)
  Bytes,
  NoByte     \* None

ASSUME InputQueueAssumption == QSize \in Nat /\ QSize >= 2 /\ NoByte \notin Bytes

Positions == 0 .. QSize - 1

VARIABLES
  buffer, write_pos, read_pos,
  pc,        \* where pop is: "idle", "reads" or "advances"
  byte,      \* its local
  result     \* what it returned last

vars == <<buffer, write_pos, read_pos, pc, byte, result>>

After(p) == (p + 1) % QSize

Init ==
  /\ buffer = [p \in Positions |-> NoByte]    \* zeroes in the code, never read
  /\ write_pos = 0 /\ read_pos = 0
  /\ pc = "idle" /\ byte = NoByte /\ result = NoByte

(* Faulty: overwrites the oldest byte of a full ring. *)
PushFaulty(b) ==
  /\ buffer' = [buffer EXCEPT ![write_pos] = b]
  /\ write_pos' = After(write_pos)
  /\ UNCHANGED <<read_pos, pc, byte, result>>

(* A full ring, of QSize - 1 bytes, drops the byte. *)
Push(b) ==
  /\ After(write_pos) # read_pos
  /\ buffer' = [buffer EXCEPT ![write_pos] = b]
  /\ write_pos' = After(write_pos)
  /\ UNCHANGED <<read_pos, pc, byte, result>>

PopLooks ==
  /\ pc = "idle"
  /\ IF read_pos = write_pos
       THEN result' = NoByte /\ UNCHANGED pc
       ELSE pc' = "reads" /\ UNCHANGED result
  /\ UNCHANGED <<buffer, write_pos, read_pos, byte>>

PopReads ==
  /\ pc = "reads"
  /\ byte' = buffer[read_pos] /\ pc' = "advances"
  /\ UNCHANGED <<buffer, write_pos, read_pos, result>>

(* Faulty: returns without freeing the slot. *)
PopAdvancesFaulty ==
  /\ pc = "advances"
  /\ result' = byte /\ byte' = NoByte /\ pc' = "idle"
  /\ UNCHANGED <<buffer, write_pos, read_pos>>

PopAdvances ==
  /\ pc = "advances"
  /\ read_pos' = After(read_pos)
  /\ result' = byte /\ byte' = NoByte /\ pc' = "idle"
  /\ UNCHANGED <<buffer, write_pos>>

Pop  == PopLooks \/ PopReads \/ PopAdvances

Next == Pop \/ \E b \in Bytes : Push(b)

(* The input server drains the queue each time round its loop, and every   *)
(* runnable task runs.                                                     *)
Spec == Init /\ [][Next]_vars /\ WF_vars(Pop)
-----------------------------------------------------------------------------
(* Properties.                                                             *)

Length == (write_pos + QSize - read_pos) % QSize

Queue == [i \in 1 .. Length |-> buffer[(read_pos + i - 1) % QSize]]

(* Every variable has its type, and the byte pop has read is still the     *)
(* oldest one: no push overwrote it since. *)
TypeOK ==
  /\ buffer \in [Positions -> Bytes \union {NoByte}]
  /\ write_pos \in Positions /\ read_pos \in Positions
  /\ pc \in {"idle", "reads", "advances"}
  /\ byte \in Bytes \union {NoByte} /\ result \in Bytes \union {NoByte}
  /\ pc # "idle" => read_pos # write_pos
  /\ pc = "advances" => byte = buffer[read_pos] /\ byte # NoByte

(* However pushes fall between the steps of pops, and wherever in the ring *)
(* the positions are, bytes come out in the order they went in, each once, *)
(* and only a push to QSize - 1 waiting bytes is dropped.                  *)
Fifo == INSTANCE ByteFifo WITH
          Capacity <- QSize - 1, queue <- Queue, popped <- result

ImplementsFifo == Fifo!Spec

(* A byte the ring accepted is handed to the input server in the end,      *)
(* though interrupts never cease. *)
Waiting(p) == \E i \in 0 .. Length - 1 : p = (read_pos + i) % QSize

BytesAreTaken == \A p \in Positions : Waiting(p) ~> (read_pos = After(p))
=============================================================================
