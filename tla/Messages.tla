------------------------------ MODULE Messages ------------------------------
(***************************************************************************)
(* Messages and task states: the vocabulary shared by the kernel           *)
(* (Kernel.tla) and by the specification of what its IPC promises          *)
(* (Rendezvous.tla).  Source: kernel/src/task.rs.                          *)
(*                                                                         *)
(* Task identifiers are 1, 2, ...; 0 is no task, and as a receive filter   *)
(* it is "from anybody", as in sys_recv.                                   *)
(***************************************************************************)
EXTENDS Naturals

CONSTANT
  NoMsg     \* what a buffer holds before any message was written to it

Anybody == 0

(* A message as the kernel delivers it: the sender field is written by the *)
(* kernel, the rest is the sender's.                                       *)
Message(sender, body) == [sender |-> sender, body |-> body]

(* enum TaskState.  Its variant Running is never constructed.  The buffer  *)
(* pointer of Receiving is the receiver's one message buffer.              *)
Ready              == [kind |-> "ready",     peer |-> 0,       msg |-> NoMsg]
Sending(dest, msg) == [kind |-> "sending",   peer |-> dest,    msg |-> msg]
Receiving(src)     == [kind |-> "receiving", peer |-> src,     msg |-> NoMsg]

Kinds == {"ready", "sending", "receiving"}

(* Does a task in state st wait for a message of task p? *)
AwaitsMessageOf(st, p) == st.kind = "receiving" /\ st.peer \in {Anybody, p}

(* Does a task in state st offer a message to task p?  That is the message *)
(* a receive of p with filter f takes, when the task's id passes f.        *)
OffersMessageTo(st, p) == st.kind = "sending" /\ st.peer = p

Passes(f, p) == f \in {Anybody, p}

(* What the slot of rax holds: the number of a call that has not returned, *)
(* the results 0 and -1, or any other value.                               *)
RaxValues == {"call", "ok", "err", "val"}
=============================================================================
