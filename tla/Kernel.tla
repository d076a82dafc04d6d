------------------------------- MODULE Kernel -------------------------------
(***************************************************************************)
(* The kernel core of RelizOS: the task table and round-robin scheduler    *)
(* (task.rs), the IPC system calls (syscall.rs) and the timer interrupt    *)
(* that switches tasks (interrupts.rs), on the one processor there is.     *)
(*                                                                         *)
(* Every kernel entry is one atomic step: the system call entry clears the *)
(* interrupt flag (IA32_FMASK and cli), the interrupt gates clear it too,  *)
(* and only the iretq that leaves the kernel sets it again.                *)
(*                                                                         *)
(* A context is a record [of, rax]: whose registers these are, and what    *)
(* its rax holds.  A kernel entry pushes the context in the processor on a *)
(* kernel stack, and the exit pops the context found at the saved stack    *)
(* pointer of the task selected to run.  A stack pointer is abstracted to  *)
(* the stack it points into: all frames have one size and each is pushed   *)
(* at the top of its stack, so that a stack holds one frame.  Stack 0 is   *)
(* the boot stack (and SYSCALL_STACK, which no program's call ever uses),  *)
(* stack p the kernel stack of the task with identifier p.                 *)
(***************************************************************************)
EXTENDS Messages

CONSTANTS
  NSlots,       \* length of the task table (8)
  NTasks,       \* tasks kernel_main spawns (5)
  Bodies,       \* the type and data words of a message, taken as one value
  Dests,        \* values programs pass as the destination of a send
  AllMayBlock   \* may the last runnable task make a blocking call?

ASSUME KernelAssumption ==
  /\ NSlots \in Nat /\ NTasks \in 1 .. NSlots
  /\ Dests \subseteq Nat
  /\ AllMayBlock \in BOOLEAN

Slots    == 0 .. NSlots - 1
Programs == 1 .. NTasks
Stacks   == 0 .. NTasks
None     == 0                    \* the id of an empty slot

VARIABLES
  phase,    \* "boot" until start_first_task, then "run"; in the end "off" or "panic"
  spawned,  \* how many of its tasks kernel_main has spawned
  id,       \* id[s]: identifier of the task in slot s, or None
  state,    \* state[s]: its TaskState
  rsp,      \* rsp[s]: its saved stack pointer
  ktop,     \* ktop[s]: its kernel_stack_top
  current,  \* current_task_idx
  kstack,   \* CURRENT_KERNEL_STACK: where a system call pushes its frame
  rsp0,     \* TSS.rsp0: where an interrupt of ring 3 pushes its frame
  frame,    \* frame[k]: the context at the top of stack k
  cpu,      \* the context in the processor
  buf       \* buf[p]: the message buffer of program p

table  == <<phase, spawned, id, ktop>>
sched  == <<state, rsp, current, kstack, rsp0>>
vars   == <<table, sched, frame, cpu, buf>>

Contexts == [of : {None} \union Programs, rax : RaxValues]

Init ==
  /\ phase = "boot" /\ spawned = 0
  /\ id    = [s \in Slots |-> None]
  /\ state = [s \in Slots |-> Ready]
  /\ rsp   = [s \in Slots |-> 0]
  /\ ktop  = [s \in Slots |-> 0]
  /\ current = 0
  /\ kstack = 0 /\ rsp0 = 0
  /\ frame = [k \in Stacks |-> [of |-> None, rax |-> "val"]]
  /\ cpu   = [of |-> None, rax |-> "val"]
  /\ buf   = [p \in Programs |-> NoMsg]
-----------------------------------------------------------------------------
(* The scheduler.                                                          *)

Occupied(s) == id[s] # None

(* Faulty: takes every task for runnable, whatever its state. *)
RunnableFaulty(st, s) == Occupied(s)

(* Task::is_runnable, of the task in slot s in states st. *)
Runnable(st, s) == Occupied(s) /\ st[s].kind = "ready"

(* Faulty: the search for the next task starts at slot 0. *)
DistanceFaulty(s) == s

(* How far slot s is from the current one, going round the table. *)
Distance(s) == IF s > current THEN s - current ELSE s + NSlots - current

(* select_next_task: slot n is the one it selects.  When no other task is  *)
(* runnable the current one stays, runnable or not.                        *)
IsNextTask(st, n) ==
  LET others == {s \in Slots \ {current} : Runnable(st, s)}
  IN  IF others = {} THEN n = current
                     ELSE n \in others /\ \A s \in others : Distance(n) <= Distance(s)

(* Faulty: TSS.rsp0 is left alone. *)
SwitchFromFaulty(stack, st, fr) ==
  /\ state' = st /\ frame' = fr
  /\ rsp' = [rsp EXCEPT ![current] = stack]
  /\ \E n \in Slots :
       /\ IsNextTask(st, n)
       /\ current' = n
       /\ kstack' = ktop[n] /\ UNCHANGED rsp0
       /\ cpu' = fr[rsp'[n]]
  /\ UNCHANGED table

(* The common end of the calls that switch and of the timer interrupt:     *)
(* save_current_rsp, select_next_task and get_current_rsp, then TSS.rsp0   *)
(* and CURRENT_KERNEL_STACK, and the pops and iretq that load the context. *)
(* (The boot stack's main_task_rsp is never used: the first interrupt      *)
(* comes when slot 0 is occupied.)                                         *)
SwitchFrom(stack, st, fr) ==
  /\ state' = st /\ frame' = fr
  /\ rsp' = [rsp EXCEPT ![current] = stack]
  /\ \E n \in Slots :
       /\ IsNextTask(st, n)
       /\ current' = n
       /\ kstack' = ktop[n] /\ rsp0' = ktop[n]
       /\ cpu' = fr[rsp'[n]]
  /\ UNCHANGED table

(* Return to the program that made the call, with st and fr written to the *)
(* task table and the stacks. *)
ReturnWith(v, st, fr) ==
  /\ state' = st /\ frame' = fr
  /\ cpu' = [of |-> cpu.of, rax |-> v]
  /\ UNCHANGED <<table, rsp, current, kstack, rsp0>>
-----------------------------------------------------------------------------
(* Faulty: any free slot will do. *)
SpawnFaulty(s) ==
  LET p == spawned + 1
  IN  /\ phase = "boot" /\ spawned < NTasks
      /\ ~Occupied(s)
      /\ spawned' = p
      /\ id'    = [id EXCEPT ![s] = p]
      /\ state' = [state EXCEPT ![s] = Ready]
      /\ rsp'   = [rsp EXCEPT ![s] = p]
      /\ ktop'  = [ktop EXCEPT ![s] = p]
      /\ frame' = [frame EXCEPT ![p] = [of |-> p, rax |-> "val"]]
      /\ UNCHANGED <<phase, current, kstack, rsp0, cpu, buf>>

(* Boot: kernel_main builds and spawns its tasks, each in the first free   *)
(* slot, and starts the one in slot 0.                                     *)
Spawn(s) ==
  LET p == spawned + 1
  IN  /\ phase = "boot" /\ spawned < NTasks
      /\ ~Occupied(s) /\ \A t \in Slots : t < s => Occupied(t)
      /\ spawned' = p
      /\ id'    = [id EXCEPT ![s] = p]
      /\ state' = [state EXCEPT ![s] = Ready]
      /\ rsp'   = [rsp EXCEPT ![s] = p]
      /\ ktop'  = [ktop EXCEPT ![s] = p]
      /\ frame' = [frame EXCEPT ![p] = [of |-> p, rax |-> "val"]]
      /\ UNCHANGED <<phase, current, kstack, rsp0, cpu, buf>>

StartFirstTask ==
  /\ phase = "boot" /\ spawned = NTasks /\ Occupied(0)
  /\ phase' = "run"
  /\ current' = 0
  /\ rsp0' = ktop[0] /\ kstack' = ktop[0]
  /\ cpu' = frame[rsp[0]]
  /\ UNCHANGED <<spawned, id, ktop, state, rsp, frame, buf>>
-----------------------------------------------------------------------------
(* System calls.  syscall_handler pushes the caller's context, its rax the *)
(* number of the call, on CURRENT_KERNEL_STACK.                            *)
Pushed == [frame EXCEPT ![kstack] = [of |-> cpu.of, rax |-> "call"]]

(* Frames fr with v in the rax slot of the one at stack pointer k. *)
WithRax(fr, k, v) == [fr EXCEPT ![k] = [of |-> @.of, rax |-> v]]

Me == current + 1    \* sys_send, sys_recv: "Task ID is index + 1"

(* sys_send rejects a destination that is beyond the table or not there... *)
TaskExists(d) == d \in {s + 1 : s \in {t \in Slots : Occupied(t)}}

(* ... but destination 0 underflows dest_id - 1 first: the kernel panics.  *)
SendPanics ==
  /\ phase = "run" /\ 0 \in Dests
  /\ phase' = "panic"
  /\ frame' = Pushed
  /\ UNCHANGED <<spawned, id, ktop, sched, cpu, buf>>

SendInvalid(d) ==
  /\ phase = "run" /\ d > 0 /\ ~TaskExists(d)
  /\ ReturnWith("err", state, WithRax(Pushed, kstack, "err"))
  /\ UNCHANGED buf

(* Faulty: delivers to a receiver without a look at its filter. *)
SendMeetsFaulty(d, b) ==
  /\ phase = "run" /\ TaskExists(d) /\ state[d - 1].kind = "receiving"
  /\ buf' = [buf EXCEPT ![id[d - 1]] = Message(Me, b)]
  /\ ReturnWith("ok", [state EXCEPT ![d - 1] = Ready],
                WithRax(WithRax(Pushed, rsp[d - 1], "ok"), kstack, "ok"))

(* sys_send to a task that receives from us or from anybody. *)
SendMeets(d, b) ==
  /\ phase = "run" /\ TaskExists(d) /\ AwaitsMessageOf(state[d - 1], Me)
  /\ buf' = [buf EXCEPT ![id[d - 1]] = Message(Me, b)]
  /\ ReturnWith("ok", [state EXCEPT ![d - 1] = Ready],
                WithRax(WithRax(Pushed, rsp[d - 1], "ok"), kstack, "ok"))

(* The programs' side of the bargain: unless AllMayBlock, a program makes  *)
(* a call that may block only when another task can run.  (Servers.tla     *)
(* shows that the five programs of this system keep it.)                   *)
MayBlock ==
  AllMayBlock \/ \E s \in Slots \ {current} : Runnable(state, s)

(* sys_send to any other task: block in Sending. *)
SendBlocks(d, b) ==
  /\ phase = "run" /\ TaskExists(d) /\ ~AwaitsMessageOf(state[d - 1], Me)
  /\ MayBlock
  /\ SwitchFrom(kstack, [state EXCEPT ![current] = Sending(d, Message(Me, b))], Pushed)
  /\ UNCHANGED buf

(* Faulty: does not know that filter 0 is anybody. *)
OffersFaulty(s, f) ==
  Occupied(s) /\ OffersMessageTo(state[s], Me) /\ id[s] = f

(* The scan of sys_recv and sys_try_recv: s is the first slot whose task   *)
(* is blocked sending to us and passes the filter f.                       *)
Offers(s, f) ==
  Occupied(s) /\ OffersMessageTo(state[s], Me) /\ Passes(f, id[s])

IsFirstSender(s, f) ==
  Offers(s, f) /\ \A t \in Slots : t < s => ~Offers(t, f)

NoSender(f) == \A s \in Slots : ~Offers(s, f)

(* Faulty: the released sender's call keeps the number as its result. *)
RecvMeetsFaulty(f, s) ==
  /\ phase = "run" /\ IsFirstSender(s, f)
  /\ buf' = [buf EXCEPT ![cpu.of] = state[s].msg]
  /\ ReturnWith("ok", [state EXCEPT ![s] = Ready], WithRax(Pushed, kstack, "ok"))

(* sys_recv and sys_try_recv that find a sender. *)
RecvMeets(f, s) ==
  /\ phase = "run" /\ IsFirstSender(s, f)
  /\ buf' = [buf EXCEPT ![cpu.of] = state[s].msg]
  /\ ReturnWith("ok", [state EXCEPT ![s] = Ready],
                WithRax(WithRax(Pushed, rsp[s], "ok"), kstack, "ok"))

(* sys_recv without a sender: block in Receiving. *)
RecvBlocks(f) ==
  /\ phase = "run" /\ NoSender(f) /\ MayBlock
  /\ SwitchFrom(kstack, [state EXCEPT ![current] = Receiving(f)], Pushed)
  /\ UNCHANGED buf

(* sys_try_recv without a sender: return -1. *)
TryRecvMisses(f) ==
  /\ phase = "run" /\ NoSender(f)
  /\ ReturnWith("err", state, WithRax(Pushed, kstack, "err"))
  /\ UNCHANGED buf

(* Call 2.  The result is written to the caller's frame, not to the frame  *)
(* of the task that runs next. *)
SysYield ==
  /\ phase = "run"
  /\ SwitchFrom(kstack, state, WithRax(Pushed, kstack, "ok"))
  /\ UNCHANGED buf

(* The calls that touch neither the scheduler nor the IPC: print, memory,  *)
(* task and GOP info, uptime, demo and blit return a result; an unknown    *)
(* number returns -1; reboot pulses the reset line and returns with rax as *)
(* it was. *)
SysOther(v) ==
  /\ phase = "run"
  /\ ReturnWith(v, state, WithRax(Pushed, kstack, v))
  /\ UNCHANGED buf

(* Call 10: ports written, then hlt for ever with interrupts disabled. *)
SysShutdown ==
  /\ phase = "run"
  /\ phase' = "off"
  /\ frame' = Pushed
  /\ UNCHANGED <<spawned, id, ktop, sched, cpu, buf>>
-----------------------------------------------------------------------------
(* What happens in ring 3 between kernel entries. *)
Compute ==
  /\ phase = "run" /\ cpu.rax # "val"
  /\ cpu' = [of |-> cpu.of, rax |-> "val"]
  /\ UNCHANGED <<table, sched, frame, buf>>

(* IRQ0: the processor and timer_interrupt_handler push the context on     *)
(* TSS.rsp0, handle_timer_interrupt switches tasks.                        *)
TimerInterrupt ==
  /\ phase = "run"
  /\ SwitchFrom(rsp0, state, [frame EXCEPT ![rsp0] = cpu])
  /\ UNCHANGED buf

(* keyboard_isr and mouse_isr: run on TSS.rsp0 and return to the same      *)
(* program, leaving what they pushed behind.                               *)
DeviceInterrupt ==
  /\ phase = "run"
  /\ frame' = [frame EXCEPT ![rsp0] = cpu]
  /\ UNCHANGED <<table, sched, cpu, buf>>
-----------------------------------------------------------------------------
(* Anybody, or a program.  A filter that names no task is left out: nobody *)
(* ever meets it, so that such a receive blocks, or misses, and that is all.*)
Filters == {Anybody} \union Programs

Send == SendPanics \/ \E d \in Dests : SendInvalid(d) \/ \E b \in Bodies : SendMeets(d, b) \/ SendBlocks(d, b)

Receive ==
  \E f \in Filters :
    \/ RecvBlocks(f)
    \/ TryRecvMisses(f)
    \/ \E s \in Slots : RecvMeets(f, s)

Next ==
  \/ \E s \in Slots : Spawn(s)
  \/ StartFirstTask
  \/ Send
  \/ Receive
  \/ SysYield
  \/ \E v \in RaxValues : SysOther(v)
  \/ SysShutdown
  \/ Compute
  \/ TimerInterrupt
  \/ DeviceInterrupt

(* kernel_main does not stop half-way, and the PIT runs at 200 Hz for ever: *)
(* between two ticks a program makes finitely many steps.                   *)
Fairness ==
  /\ WF_vars((\E s \in Slots : Spawn(s)) \/ StartFirstTask)
  /\ WF_vars(TimerInterrupt)

Spec == Init /\ [][Next]_vars /\ Fairness
-----------------------------------------------------------------------------
(* Properties.                                                             *)

TaskStates ==
  [kind : {"ready"}, peer : {0}, msg : {NoMsg}]
    \union [kind : {"sending"}, peer : Nat, msg : [sender : Programs, body : Bodies]]
    \union [kind : {"receiving"}, peer : Filters, msg : {NoMsg}]

(* Every variable holds a value the kernel's types allow, and the task     *)
(* with identifier p sits in slot p - 1, as the arithmetic on identifiers  *)
(* of sys_send and sys_recv takes for granted.                             *)
TypeOK ==
  /\ phase \in {"boot", "run", "off", "panic"}
  /\ spawned \in 0 .. NTasks
  /\ id \in [Slots -> {None} \union Programs]
  /\ \A s \in Slots : id[s] = IF s < spawned THEN s + 1 ELSE None
  /\ state \in [Slots -> TaskStates]
  /\ rsp \in [Slots -> Stacks] /\ ktop \in [Slots -> Stacks]
  /\ current \in Slots
  /\ kstack \in Stacks /\ rsp0 \in Stacks
  /\ frame \in [Stacks -> Contexts]
  /\ cpu \in Contexts
  /\ buf \in [Programs -> [sender : Programs, body : Bodies] \union {NoMsg}]

(* The strengthening of TypeOK and of the properties below that every step *)
(* preserves, whatever the programs do: an empty slot is as it was made; a *)
(* task's saved stack pointer and kernel_stack_top are its own stack's;    *)
(* once programs run all are spawned, and both places that name the stack  *)
(* of the next kernel entry name the running task's.                       *)
StacksInv ==
  /\ \A s \in Slots : ~Occupied(s) => state[s] = Ready
  /\ \A s \in Slots : rsp[s] = id[s] /\ ktop[s] = id[s]
  /\ \A s \in Slots : state[s].kind = "sending" => state[s].msg.sender = id[s]
  /\ phase = "boot" =>
       /\ cpu.of = None
       /\ \A s \in Slots : state[s] = Ready
       /\ \A s \in Slots : Occupied(s) => frame[id[s]] = [of |-> id[s], rax |-> "val"]
  /\ phase # "boot" =>
       /\ spawned = NTasks
       /\ Occupied(current)
       /\ cpu.of = id[current]
       /\ kstack = id[current] /\ rsp0 = id[current]
       /\ \A s \in Slots \ {current} : Occupied(s) => frame[id[s]].of = id[s]

(* ... and what is true besides when the programs never all block: the     *)
(* running task can run, and the frame of a blocked one awaits its result. *)
BlockingInv ==
  phase # "boot" =>
    /\ state[current] = Ready
    /\ \A s \in Slots : state[s].kind # "ready" => frame[id[s]] = [of |-> id[s], rax |-> "call"]

(* No context is ever lost or mixed up: the processor runs the registers   *)
(* of the task current_task_idx names, and every other task's saved stack  *)
(* pointer leads to its own registers, however calls, ticks and device     *)
(* interrupts pushed frames on the stacks CURRENT_KERNEL_STACK and TSS.rsp0 *)
(* named at the time.                                                      *)
ContextIntegrity ==
  phase = "run" =>
    /\ cpu.of = id[current]
    /\ \A s \in Slots \ {current} : Occupied(s) => frame[rsp[s]].of = id[s]

(* A blocked task's call has not returned: the task is not running and the *)
(* rax slot of its saved frame, which a later sender or receiver will set, *)
(* still holds the number of the call.                                     *)
BlockedCallPending ==
  \A s \in Slots :
    phase = "run" /\ state[s].kind # "ready" =>
      s # current /\ frame[rsp[s]] = [of |-> id[s], rax |-> "call"]

(* No rendezvous is missed: never does one task block sending to another   *)
(* while that one blocks receiving from it or from anybody.                *)
NoMissedRendezvous ==
  \A s, t \in Slots :
    OffersMessageTo(state[s], t + 1) => ~AwaitsMessageOf(state[t], s + 1)

(* A blocked task is released only by the message it waits for changing    *)
(* hands, between it and the running task: a sender when its message,      *)
(* signed with its identifier, is in the buffer of the task it named; a    *)
(* receiver when a message signed by the running task, which its filter    *)
(* passes, is in its own.  In any other step it stays as it is.            *)
ReleasedByDelivery ==
  [][phase = "run" =>
      \A s \in Slots :
        state[s].kind # "ready" /\ state'[s] # state[s] =>
          /\ state'[s] = Ready
          /\ state[s].kind = "sending" =>
               /\ state[s].peer = id[current] /\ state[s].msg.sender = id[s]
               /\ buf'[id[current]] = state[s].msg
          /\ state[s].kind = "receiving" =>
               /\ Passes(state[s].peer, id[current])
               /\ buf'[id[s]].sender = id[current]]_vars

(* The kernel gives its programs synchronous message passing, and          *)
(* preemption is invisible: seen by its buffer and its result register, a  *)
(* program takes no step but its own and the one that completes its call.  *)
R == INSTANCE Rendezvous WITH
       op  <- [p \in Programs |-> state[p - 1]],
       buf <- buf,
       ret <- [p \in Programs |->
                 IF ~Occupied(p - 1) THEN "val"
                 ELSE IF cpu.of = p THEN cpu.rax
                 ELSE frame[rsp[p - 1]].rax]

ImplementsRendezvous == R!Spec

(* Round robin starves nobody: a task that can run gets the processor,     *)
(* unless the machine is shut down or panics.                              *)
RoundRobin ==
  \A s \in Slots : (phase = "run" /\ Runnable(state, s)) ~> (current = s \/ phase \in {"off", "panic"})

(* sys_send, sys_recv: a call that cannot be completed blocks its task, so *)
(* the running task is always one that can run.                            *)
RunningIsRunnable == phase = "run" => Runnable(state, current)

(* sys_send answers an invalid destination with -1: no argument of a send  *)
(* makes the kernel panic.                                                 *)
InvalidDestinationReturns == phase # "panic"
=============================================================================
