----------------------------- MODULE Rendezvous -----------------------------
(***************************************************************************)
(* What the kernel's IPC promises its programs, without slots, stacks,     *)
(* interrupts or a scheduler: synchronous message passing.  A send and a   *)
(* receive meet; whoever comes first waits; the message goes over exactly  *)
(* once, with the true sender in it, in the step that releases both.       *)
(* Kernel.tla is shown to implement this module.                           *)
(***************************************************************************)
EXTENDS Messages

CONSTANTS
  Programs,  \* identifiers of the programs
  Bodies,    \* the type and data words of a message, taken as one value
  Dests      \* values a program may pass as the destination of a send

VARIABLES
  op,    \* op[p]: what p is doing: Ready, or the call it is waiting in
  buf,   \* buf[p]: the message p received last
  ret    \* ret[p]: the result register of p

vars == <<op, buf, ret>>

AllMessages == [sender : Programs, body : Bodies]

Init ==
  /\ op  = [p \in Programs |-> Ready]
  /\ buf = [p \in Programs |-> NoMsg]
  /\ ret = [p \in Programs |-> "val"]
-----------------------------------------------------------------------------
(* p sends body b to a program d that waits for it: both calls return. *)
SendMeets(p, d, b) ==
  /\ op[p] = Ready /\ AwaitsMessageOf(op[d], p)
  /\ op'  = [op EXCEPT ![d] = Ready]
  /\ buf' = [buf EXCEPT ![d] = Message(p, b)]
  /\ ret' = [ret EXCEPT ![d] = "ok", ![p] = "ok"]

(* p sends to a program that does not wait for it: p waits. *)
SendWaits(p, d, b) ==
  /\ op[p] = Ready /\ ~AwaitsMessageOf(op[d], p)
  /\ op'  = [op EXCEPT ![p] = Sending(d, Message(p, b))]
  /\ ret' = [ret EXCEPT ![p] = "call"]
  /\ UNCHANGED buf

(* p takes the message of a program q that waits to send to it. *)
RecvMeets(p, f, q) ==
  /\ op[p] = Ready /\ OffersMessageTo(op[q], p) /\ Passes(f, q)
  /\ op'  = [op EXCEPT ![q] = Ready]
  /\ buf' = [buf EXCEPT ![p] = op[q].msg]
  /\ ret' = [ret EXCEPT ![p] = "ok", ![q] = "ok"]

(* Nobody whose id passes the filter waits to send to p: p waits. *)
RecvWaits(p, f) ==
  /\ op[p] = Ready
  /\ \A q \in Programs : Passes(f, q) => ~OffersMessageTo(op[q], p)
  /\ op'  = [op EXCEPT ![p] = Receiving(f)]
  /\ ret' = [ret EXCEPT ![p] = "call"]
  /\ UNCHANGED buf

(* Everything else a program does, the calls that fail and the poll that   *)
(* finds no message included, changes no more than its own result.         *)
Works(p) ==
  /\ op[p] = Ready
  /\ \E v \in RaxValues : ret' = [ret EXCEPT ![p] = v]
  /\ UNCHANGED <<op, buf>>

Next ==
  \E p \in Programs :
    \/ Works(p)
    \/ \E d \in Programs \cap Dests, b \in Bodies : SendMeets(p, d, b) \/ SendWaits(p, d, b)
    \/ \E f \in {Anybody} \union Programs :
         RecvWaits(p, f) \/ \E q \in Programs : RecvMeets(p, f, q)

Spec == Init /\ [][Next]_vars
=============================================================================
