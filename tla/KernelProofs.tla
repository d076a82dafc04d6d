---------------------------- MODULE KernelProofs ----------------------------
(***************************************************************************)
(* Theorems about Kernel.tla, for every size of the task table, every      *)
(* number of tasks and every set of destinations and message bodies.  In   *)
(* three parts: what holds whatever programs do; what needs them to keep   *)
(* their side of the bargain (MayBlock): they never all block; and that    *)
(* under it the kernel implements Rendezvous.tla.                          *)
(***************************************************************************)
EXTENDS Kernel, TLAPS

USE DEF Slots, Programs, Stacks, None, Anybody

(* What every reachable state satisfies, whatever the programs do. *)
Inv == TypeOK /\ StacksInv

(* The task states st and stacks fr a step may leave behind. *)
LegalStates(st) ==
  /\ st \in [Slots -> TaskStates]
  /\ \A s \in Slots : ~Occupied(s) => st[s] = Ready
  /\ \A s \in Slots : st[s].kind = "sending" => st[s].msg.sender = id[s]

LegalFrames(fr) ==
  /\ fr \in [Stacks -> Contexts]
  /\ \A k \in Stacks : fr[k].of = IF k = kstack THEN cpu.of ELSE frame[k].of

Buffers == [Programs -> [sender : Programs, body : Bodies] \union {NoMsg}]
-----------------------------------------------------------------------------
(* The running program is the one in the current slot. *)
LEMMA RunningProgram ==
  ASSUME Inv, phase = "run"
  PROVE  /\ Me \in Programs /\ Me = id[current] /\ Me = cpu.of
         /\ kstack = Me /\ rsp0 = Me /\ ktop[current] = Me
  BY KernelAssumption DEF Inv, TypeOK, StacksInv, Me, Occupied

(* Pushing a context on the kernel stack disturbs no other stack. *)
LEMMA PushedIsLegal ==
  ASSUME Inv, phase = "run"
  PROVE  /\ LegalFrames(Pushed)
         /\ \A v \in RaxValues : LegalFrames(WithRax(Pushed, kstack, v))
         /\ LegalFrames([frame EXCEPT ![rsp0] = cpu])
         /\ \A v, w \in RaxValues, s \in Slots :
              Occupied(s) => LegalFrames(WithRax(WithRax(Pushed, rsp[s], v), kstack, w))
  <1>1. "call" \in RaxValues /\ kstack = rsp0 /\ kstack \in Stacks
        /\ cpu \in Contexts /\ frame \in [Stacks -> Contexts]
        /\ \A s \in Slots : rsp[s] \in Stacks
    BY RunningProgram DEF Inv, TypeOK, RaxValues
  <1>2. LegalFrames(Pushed)
    BY <1>1 DEF LegalFrames, Pushed, Contexts
  <1>3. \A fr, k, v : LegalFrames(fr) /\ k \in Stacks /\ v \in RaxValues
                        => LegalFrames(WithRax(fr, k, v))
    BY <1>1 DEF LegalFrames, WithRax, Contexts
  <1>4. LegalFrames([frame EXCEPT ![rsp0] = cpu])
    BY <1>1 DEF LegalFrames, Contexts
  <1> QED
    BY <1>1, <1>2, <1>3, <1>4

(* The states a step leaves behind: one task set to Ready, or the running  *)
(* one set to Sending or Receiving.                                        *)
LEMMA UpdatedIsLegal ==
  ASSUME Inv, phase = "run"
  PROVE  /\ LegalStates(state)
         /\ \A s \in Slots : LegalStates([state EXCEPT ![s] = Ready])
         /\ \A d \in Nat, b \in Bodies :
              LegalStates([state EXCEPT ![current] = Sending(d, Message(Me, b))])
         /\ \A f \in Filters : LegalStates([state EXCEPT ![current] = Receiving(f)])
  <1>1. LegalStates(state) /\ current \in Slots /\ Occupied(current)
    BY DEF Inv, TypeOK, StacksInv, LegalStates
  <1>2. Ready \in TaskStates /\ Ready.kind # "sending"
    BY DEF TaskStates, Ready
  <1>3. \A s \in Slots : LegalStates([state EXCEPT ![s] = Ready])
    BY <1>1, <1>2 DEF LegalStates
  <1>4. ASSUME NEW d \in Nat, NEW b \in Bodies
        PROVE  LegalStates([state EXCEPT ![current] = Sending(d, Message(Me, b))])
    <2>1. Sending(d, Message(Me, b)) \in TaskStates
      BY RunningProgram DEF TaskStates, Sending, Message
    <2>2. Sending(d, Message(Me, b)).msg.sender = id[current]
      BY RunningProgram DEF Sending, Message
    <2> QED
      BY <1>1, <2>1, <2>2 DEF LegalStates
  <1>5. ASSUME NEW f \in Filters
        PROVE  LegalStates([state EXCEPT ![current] = Receiving(f)])
    <2>1. Receiving(f) \in TaskStates /\ Receiving(f).kind # "sending"
      BY DEF TaskStates, Receiving
    <2> QED
      BY <1>1, <2>1 DEF LegalStates
  <1> QED
    BY <1>1, <1>3, <1>4, <1>5

(* Messages that a step may write to a buffer keep the buffers well typed. *)
LEMMA DeliveryIsLegal ==
  ASSUME Inv, phase = "run"
  PROVE  /\ \A p, b : b \in Bodies => [buf EXCEPT ![p] = Message(Me, b)] \in Buffers
         /\ \A p : \A s \in Slots : state[s].kind = "sending" =>
              [buf EXCEPT ![p] = state[s].msg] \in Buffers
  <1>1. buf \in Buffers
    BY DEF Inv, TypeOK, Buffers
  <1>2. \A b \in Bodies : Message(Me, b) \in [sender : Programs, body : Bodies]
    BY RunningProgram DEF Message
  <1>3. \A s \in Slots : state[s].kind = "sending" =>
          state[s].msg \in [sender : Programs, body : Bodies]
    BY DEF Inv, TypeOK, TaskStates
  <1> QED
    BY <1>1, <1>2, <1>3 DEF Buffers
-----------------------------------------------------------------------------
(* A call that returns to its caller preserves the invariant. *)
LEMMA ReturnPreservesInv ==
  ASSUME Inv, phase = "run", NEW v \in RaxValues, NEW st, NEW fr,
         LegalStates(st), LegalFrames(fr), buf' \in Buffers, ReturnWith(v, st, fr)
  PROVE  Inv'
  <1> USE DEF ReturnWith, table, sched
  <1>1. cpu' \in Contexts /\ cpu'.of = cpu.of
    BY DEF Inv, TypeOK, Contexts
  <1>2. TypeOK'
    BY <1>1 DEF Inv, TypeOK, LegalStates, LegalFrames, Buffers
  <1>3. StacksInv'
    BY <1>1, RunningProgram, ZenonT(40) DEF Inv, TypeOK, StacksInv, LegalStates, LegalFrames, Occupied
  <1> QED
    BY <1>2, <1>3 DEF Inv

(* A switch to the next task preserves the invariant. *)
LEMMA SwitchPreservesInv ==
  ASSUME Inv, phase = "run", NEW st, NEW fr, NEW stack \in {kstack, rsp0},
         LegalStates(st), LegalFrames(fr), buf' \in Buffers, SwitchFrom(stack, st, fr)
  PROVE  Inv'
  <1>1. PICK n \in Slots : /\ IsNextTask(st, n)
                           /\ current' = n
                           /\ kstack' = ktop[n] /\ rsp0' = ktop[n]
                           /\ cpu' = fr[rsp'[n]]
    BY DEF SwitchFrom
  <1>2. Occupied(n)
    BY <1>1 DEF IsNextTask, Runnable, Inv, StacksInv
  <1>3. /\ state' = st /\ frame' = fr
        /\ UNCHANGED <<phase, spawned, id, ktop>>
        /\ rsp' = rsp
    BY RunningProgram DEF SwitchFrom, table, Inv, TypeOK, StacksInv
  <1>4. cpu' \in Contexts /\ cpu'.of = id[n]
    <2>1. rsp[n] = id[n] /\ id[n] \in Stacks
      BY DEF Inv, TypeOK, StacksInv
    <2>2. CASE n = current
      BY <1>1, <1>3, <2>1, <2>2, RunningProgram DEF LegalFrames
    <2>3. CASE n # current
      <3>1. id[n] # kstack
        BY <2>3, RunningProgram, <1>2 DEF Inv, TypeOK, Occupied
      <3> QED
        BY <1>1, <1>2, <1>3, <2>1, <2>3, <3>1 DEF LegalFrames, Inv, StacksInv
    <2> QED
      BY <2>2, <2>3
  <1>5. TypeOK'
    BY <1>1, <1>3, <1>4 DEF Inv, TypeOK, LegalStates, LegalFrames, Buffers
  <1>6. StacksInv'
    <2>1. \A s \in Slots : Occupied(s) => fr[id[s]].of = id[s]
      BY RunningProgram DEF Inv, TypeOK, StacksInv, LegalFrames, Occupied
    <2> QED
      BY <1>1, <1>2, <1>3, <1>4, <2>1 DEF Inv, TypeOK, StacksInv, LegalStates, Occupied
  <1> QED
    BY <1>5, <1>6 DEF Inv
-----------------------------------------------------------------------------
LEMMA InitInv == Init => Inv
  <1> SUFFICES ASSUME Init PROVE Inv
    OBVIOUS
  <1>1. TypeOK
    BY KernelAssumption DEF Init, TypeOK, TaskStates, Ready, Contexts, RaxValues
  <1>2. StacksInv
    BY KernelAssumption DEF Init, StacksInv, Occupied, Ready
  <1> QED
    BY <1>1, <1>2 DEF Inv

(* The tasks are spawned in the order of their slots. *)
LEMMA SpawnSlot ==
  ASSUME Inv, NEW s \in Slots, Spawn(s)
  PROVE  s = spawned /\ spawned' = s + 1 /\ s + 1 \in Programs
  <1>1. spawned \in Slots /\ spawned < NTasks
    BY KernelAssumption DEF Spawn, Inv, TypeOK
  <1>2. ~Occupied(spawned) /\ ~(s < spawned)
    BY <1>1 DEF Spawn, Inv, TypeOK, Occupied
  <1>3. ~(spawned < s)
    BY <1>1, <1>2 DEF Spawn
  <1> QED
    BY <1>1, <1>2, <1>3, KernelAssumption DEF Spawn

LEMMA SpawnInv == ASSUME Inv, NEW s \in Slots, Spawn(s) PROVE Inv'
  <1>1. s = spawned /\ spawned' = s + 1 /\ s + 1 \in Programs
    BY SpawnSlot
  <1>2. Ready \in TaskStates /\ Ready.kind # "sending" /\ "val" \in RaxValues
    BY DEF Ready, TaskStates, RaxValues
  <1>3. TypeOK'
    BY <1>1, <1>2 DEF Spawn, Inv, TypeOK, Contexts
  <1>4. StacksInv'
    BY <1>1, <1>2 DEF Spawn, Inv, TypeOK, StacksInv, Occupied
  <1> QED
    BY <1>3, <1>4 DEF Inv

LEMMA NextInv == Inv /\ [Next]_vars => Inv'
  <1> SUFFICES ASSUME Inv, [Next]_vars PROVE Inv'
    OBVIOUS
  <1> USE DEF table, sched
  <1>buf. buf \in Buffers
    BY DEF Inv, TypeOK, Buffers
  <1>1. ASSUME NEW s \in Slots, Spawn(s) PROVE Inv'
    BY <1>1, SpawnInv
  <1>2. ASSUME StartFirstTask PROVE Inv'
    <2>1. rsp[0] = id[0] /\ frame[rsp[0]] = [of |-> id[0], rax |-> "val"] /\ 0 \in Slots
      BY <1>2, KernelAssumption DEF StartFirstTask, Inv, TypeOK, StacksInv
    <2>2. TypeOK'
      BY <1>2, <2>1 DEF StartFirstTask, Inv, TypeOK
    <2>3. ASSUME NEW s \in Slots, Occupied(s) PROVE frame[id[s]].of = id[s]
      <3>1. frame[id[s]] = [of |-> id[s], rax |-> "val"]
        BY <1>2, <2>3 DEF StartFirstTask, Inv, StacksInv
      <3> QED
        BY <3>1
    <2>4. cpu'.of = id[0] /\ ktop[0] = id[0]
      BY <1>2, <2>1 DEF StartFirstTask, Inv, StacksInv
    <2>5. StacksInv'
      BY <1>2, <2>1, <2>3, <2>4 DEF StartFirstTask, Inv, StacksInv, Occupied
    <2> QED
      BY <2>2, <2>5 DEF Inv
  <1>3. ASSUME SendPanics \/ SysShutdown PROVE Inv'
    <2>1. phase = "run" /\ phase' \in {"off", "panic"} /\ frame' = Pushed
          /\ UNCHANGED <<spawned, id, ktop, sched, cpu, buf>>
      BY <1>3 DEF SendPanics, SysShutdown
    <2>2. LegalFrames(Pushed)
      BY <2>1, PushedIsLegal
    <2>3. TypeOK'
      BY <2>1, <2>2 DEF Inv, TypeOK, LegalFrames
    <2>4. StacksInv'
      BY <2>1, <2>2 DEF Inv, TypeOK, StacksInv, LegalFrames, Occupied
    <2> QED
      BY <2>3, <2>4 DEF Inv
  <1>4. ASSUME NEW d \in Dests, SendInvalid(d) PROVE Inv'
    BY <1>4, <1>buf, ReturnPreservesInv, PushedIsLegal, UpdatedIsLegal
       DEF SendInvalid, RaxValues
  <1>5. ASSUME NEW d \in Dests, NEW b \in Bodies, SendMeets(d, b) PROVE Inv'
    <2>1. phase = "run" /\ d - 1 \in Slots /\ Occupied(d - 1)
      BY <1>5 DEF SendMeets, TaskExists
    <2>2. buf' \in Buffers
      BY <1>5, <2>1, DeliveryIsLegal DEF SendMeets
    <2> QED
      BY <1>5, <2>1, <2>2, ReturnPreservesInv, PushedIsLegal, UpdatedIsLegal
         DEF SendMeets, RaxValues
  <1>6. ASSUME NEW d \in Dests, NEW b \in Bodies, SendBlocks(d, b) PROVE Inv'
    BY <1>6, <1>buf, SwitchPreservesInv, PushedIsLegal, UpdatedIsLegal, KernelAssumption
       DEF SendBlocks
  <1>7. ASSUME NEW f \in Filters, RecvBlocks(f) PROVE Inv'
    BY <1>7, <1>buf, SwitchPreservesInv, PushedIsLegal, UpdatedIsLegal DEF RecvBlocks
  <1>8. ASSUME NEW f \in Filters, TryRecvMisses(f) PROVE Inv'
    BY <1>8, <1>buf, ReturnPreservesInv, PushedIsLegal, UpdatedIsLegal
       DEF TryRecvMisses, RaxValues
  <1>9. ASSUME NEW f \in Filters, NEW s \in Slots, RecvMeets(f, s) PROVE Inv'
    <2>1. phase = "run" /\ Occupied(s) /\ state[s].kind = "sending"
      BY <1>9 DEF RecvMeets, IsFirstSender, Offers, OffersMessageTo
    <2>2. buf' \in Buffers
      BY <1>9, <2>1, DeliveryIsLegal DEF RecvMeets
    <2> QED
      BY <1>9, <2>1, <2>2, ReturnPreservesInv, PushedIsLegal, UpdatedIsLegal
         DEF RecvMeets, RaxValues
  <1>10. ASSUME SysYield PROVE Inv'
    BY <1>10, <1>buf, SwitchPreservesInv, PushedIsLegal, UpdatedIsLegal DEF SysYield, RaxValues
  <1>11. ASSUME NEW v \in RaxValues, SysOther(v) PROVE Inv'
    BY <1>11, <1>buf, ReturnPreservesInv, PushedIsLegal, UpdatedIsLegal DEF SysOther
  <1>12. ASSUME Compute PROVE Inv'
    BY <1>12 DEF Compute, Inv, TypeOK, StacksInv, Contexts, RaxValues, Occupied
  <1>13. ASSUME TimerInterrupt PROVE Inv'
    BY <1>13, <1>buf, SwitchPreservesInv, PushedIsLegal, UpdatedIsLegal DEF TimerInterrupt
  <1>14. ASSUME DeviceInterrupt PROVE Inv'
    <2>1. LegalFrames(frame')
      BY <1>14, PushedIsLegal DEF DeviceInterrupt
    <2> QED
      BY <1>14, <2>1 DEF DeviceInterrupt, LegalFrames, Inv, TypeOK, StacksInv, Occupied
  <1>15. ASSUME UNCHANGED vars PROVE Inv'
    BY <1>15 DEF vars, Inv, TypeOK, StacksInv, Occupied
  <1> QED
    BY <1>1, <1>2, <1>3, <1>4, <1>5, <1>6, <1>7, <1>8, <1>9, <1>10, <1>11, <1>12,
       <1>13, <1>14, <1>15 DEF Next, Send, Receive

(* The kernel's data are always well formed, and every task's kernel stack *)
(* is where the scheduler and the processor look for it. *)
THEOREM TypeCorrect == Spec => [](TypeOK /\ StacksInv)
  <1>1. Inv => TypeOK /\ StacksInv
    BY DEF Inv
  <1> QED
    BY <1>1, InitInv, NextInv, PTL DEF Spec

(* No system call, tick or device interrupt loses or mixes up a context,   *)
(* whatever calls the programs make: SwitchFrom moves CURRENT_KERNEL_STACK *)
(* and TSS.rsp0 with current_task_idx, so that no frame is pushed over a   *)
(* frame still needed.                                                     *)
THEOREM ContextsPreserved == Spec => []ContextIntegrity
  <1>1. Inv => ContextIntegrity
    BY DEF Inv, TypeOK, StacksInv, ContextIntegrity, Occupied
  <1> QED
    BY <1>1, InitInv, NextInv, PTL DEF Spec
-----------------------------------------------------------------------------
(* A step that releases a task, or touches no task state, misses nothing. *)
LEMMA ReleaseMissesNothing ==
  ASSUME Inv, NoMissedRendezvous,
         \/ state' = state
         \/ \E s \in Slots : state' = [state EXCEPT ![s] = Ready]
  PROVE  NoMissedRendezvous'
  <1>1. Ready.kind = "ready" /\ state \in [Slots -> TaskStates]
    BY DEF Ready, Inv, TypeOK
  <1>2. \A s \in Slots : state'[s] = state[s] \/ state'[s].kind = "ready"
    BY <1>1
  <1> QED
    BY <1>2 DEF NoMissedRendezvous, OffersMessageTo, AwaitsMessageOf

LEMMA NextMissesNothing ==
  Inv /\ NoMissedRendezvous /\ [Next]_vars => NoMissedRendezvous'
  <1> SUFFICES ASSUME Inv, NoMissedRendezvous, [Next]_vars PROVE NoMissedRendezvous'
    OBVIOUS
  <1>t. state \in [Slots -> TaskStates] /\ current \in Slots
    BY DEF Inv, TypeOK
  <1>1. ASSUME NEW d \in Dests, NEW b \in Bodies, SendBlocks(d, b)
        PROVE  NoMissedRendezvous'
    <2>1. /\ state' = [state EXCEPT ![current] = Sending(d, Message(Me, b))]
          /\ ~AwaitsMessageOf(state[d - 1], Me)
      BY <1>1 DEF SendBlocks, SwitchFrom
    <2>2. ~AwaitsMessageOf(state'[d - 1], current + 1)
      BY <2>1, <1>t DEF AwaitsMessageOf, Sending, Me
    <2>3. ASSUME NEW s \in Slots, NEW t \in Slots,
                 OffersMessageTo(state'[s], t + 1), AwaitsMessageOf(state'[t], s + 1)
          PROVE  FALSE
      <3>1. t # current /\ state'[t] = state[t]
        BY <2>1, <2>3, <1>t DEF AwaitsMessageOf, Sending
      <3>2. CASE s = current
        BY <2>1, <2>2, <2>3, <3>2, <1>t DEF OffersMessageTo, Sending
      <3>3. CASE s # current
        BY <2>1, <2>3, <3>1, <3>3, <1>t DEF NoMissedRendezvous
      <3> QED
        BY <3>2, <3>3
    <2> QED
      BY <2>3 DEF NoMissedRendezvous
  <1>2. ASSUME NEW f \in Filters, RecvBlocks(f)
        PROVE  NoMissedRendezvous'
    <2>1. state' = [state EXCEPT ![current] = Receiving(f)] /\ NoSender(f)
      BY <1>2 DEF RecvBlocks, SwitchFrom
    <2>2. ASSUME NEW s \in Slots, NEW t \in Slots,
                 OffersMessageTo(state'[s], t + 1), AwaitsMessageOf(state'[t], s + 1)
          PROVE  FALSE
      <3>1. s # current /\ state'[s] = state[s]
        BY <2>1, <2>2, <1>t DEF OffersMessageTo, Receiving
      <3>2. CASE t = current
        <4>1. Occupied(s) /\ id[s] = s + 1
          BY <2>2, <3>1 DEF OffersMessageTo, Ready, Inv, TypeOK, StacksInv, Occupied
        <4>2. Passes(f, s + 1)
          BY <2>1, <2>2, <3>2, <1>t DEF AwaitsMessageOf, Receiving, Passes
        <4>3. OffersMessageTo(state[s], Me)
          BY <2>2, <3>1, <3>2 DEF Me
        <4> QED
          BY <2>1, <4>1, <4>2, <4>3 DEF NoSender, Offers
      <3>3. CASE t # current
        BY <2>1, <2>2, <3>1, <3>3, <1>t DEF NoMissedRendezvous
      <3> QED
        BY <3>2, <3>3
    <2> QED
      BY <2>2 DEF NoMissedRendezvous
  <1>3. ASSUME NEW d \in Dests, NEW b \in Bodies, SendMeets(d, b)
        PROVE  \E s \in Slots : state' = [state EXCEPT ![s] = Ready]
    <2>1. d - 1 \in Slots
      BY <1>3 DEF SendMeets, TaskExists
    <2> QED
      BY <1>3, <2>1 DEF SendMeets, ReturnWith
  <1>4. ASSUME NEW s \in Slots, Spawn(s) \/ \E f \in Filters : RecvMeets(f, s)
        PROVE  \E t \in Slots : state' = [state EXCEPT ![t] = Ready]
    BY <1>4 DEF Spawn, RecvMeets, ReturnWith
  <1>5. ASSUME \/ StartFirstTask \/ SendPanics \/ SysShutdown \/ SysYield \/ Compute
               \/ TimerInterrupt \/ DeviceInterrupt \/ UNCHANGED vars
               \/ \E d \in Dests : SendInvalid(d)
               \/ \E f \in Filters : TryRecvMisses(f)
               \/ \E v \in RaxValues : SysOther(v)
        PROVE  state' = state
    BY <1>5 DEF StartFirstTask, SendPanics, SysShutdown, SysYield, Compute, TimerInterrupt,
       DeviceInterrupt, vars, SendInvalid, TryRecvMisses, SysOther, ReturnWith, SwitchFrom, sched
  <1> QED
    BY <1>1, <1>2, <1>3, <1>4, <1>5, ReleaseMissesNothing DEF Next, Send, Receive

(* A message never waits for a receiver that waits for it: the test of     *)
(* sys_send and the scan of sys_recv between them leave no such pair, and  *)
(* no switch, tick or release makes one, whatever the programs do.         *)
THEOREM NothingMissed == Spec => []NoMissedRendezvous
  <1>1. Init => NoMissedRendezvous
    BY DEF Init, NoMissedRendezvous, OffersMessageTo, Ready
  <1> QED
    BY <1>1, InitInv, NextInv, NextMissesNothing, PTL DEF Spec

-----------------------------------------------------------------------------
(***************************************************************************)
(* Programs that never all block (MayBlock).                               *)
(***************************************************************************)

Answered(stack) == WithRax(WithRax(Pushed, stack, "ok"), kstack, "ok")

(* There is one state of kind "ready". *)
LEMMA ReadyIsReady ==
  ASSUME NEW st \in TaskStates
  PROVE  st.kind = "ready" <=> st = Ready
  BY DEF TaskStates, Ready

(* What a kernel entry leaves on the stacks of the tasks that do not run. *)
LEMMA FramesElsewhere ==
  ASSUME Inv, phase = "run", NEW s \in Slots, Occupied(s), s # current
  PROVE  /\ id[s] \in Programs /\ id[s] # kstack
         /\ Pushed[id[s]] = frame[id[s]]
         /\ \A v : WithRax(Pushed, kstack, v)[id[s]] = frame[id[s]]
         /\ [frame EXCEPT ![rsp0] = cpu][id[s]] = frame[id[s]]
         /\ \A t \in Slots : Occupied(t) /\ t # s => Answered(rsp[t])[id[s]] = frame[id[s]]
         /\ s # current => Answered(rsp[s])[id[s]] = [of |-> id[s], rax |-> "ok"]
  <1>1. /\ id[s] = s + 1 /\ id[s] \in Programs /\ id[s] # kstack /\ kstack = rsp0
        /\ kstack \in Stacks /\ frame \in [Stacks -> Contexts] /\ id[s] \in Stacks
    BY RunningProgram DEF Inv, TypeOK, Occupied, Me
  <1>2. \A v : /\ Pushed[id[s]] = frame[id[s]]
               /\ WithRax(Pushed, kstack, v)[id[s]] = frame[id[s]]
               /\ [frame EXCEPT ![rsp0] = cpu][id[s]] = frame[id[s]]
    BY <1>1 DEF Pushed, WithRax
  <1>3. ASSUME NEW t \in Slots, Occupied(t), t # s
        PROVE  Answered(rsp[t])[id[s]] = frame[id[s]]
    <2>1. rsp[t] # id[s]
      BY <1>1, <1>3 DEF Inv, TypeOK, StacksInv, Occupied
    <2> QED
      BY <1>1, <2>1 DEF Answered, Pushed, WithRax
  <1>4. Answered(rsp[s])[id[s]] = [of |-> id[s], rax |-> "ok"]
    <2>1. rsp[s] = id[s] /\ frame[id[s]].of = id[s]
      BY DEF Inv, StacksInv
    <2> QED
      BY <1>1, <2>1 DEF Answered, Pushed, WithRax
  <1> QED
    BY <1>1, <1>2, <1>3, <1>4

(* The caller's own stack after a call that blocks, and after a yield. *)
LEMMA FrameHere ==
  ASSUME Inv, phase = "run"
  PROVE  /\ Pushed[kstack] = [of |-> Me, rax |-> "call"]
         /\ \A v : WithRax(Pushed, kstack, v)[kstack] = [of |-> Me, rax |-> v]
         /\ [frame EXCEPT ![rsp0] = cpu][kstack] = cpu
  BY RunningProgram DEF Pushed, WithRax, Inv, TypeOK
-----------------------------------------------------------------------------
LEMMA ReturnPreservesBlocking ==
  ASSUME Inv, BlockingInv, phase = "run", NEW v, NEW st, NEW fr,
         ReturnWith(v, st, fr), st[current] = Ready,
         \A s \in Slots : st[s].kind # "ready" => st[s] = state[s] /\ fr[id[s]] = frame[id[s]]
  PROVE  BlockingInv'
  BY DEF ReturnWith, BlockingInv, table

LEMMA SwitchPreservesBlocking ==
  ASSUME Inv, BlockingInv, phase = "run", NEW st, NEW fr, NEW stack,
         LegalStates(st), SwitchFrom(stack, st, fr),
         st[current] = Ready \/ \E s \in Slots \ {current} : Runnable(st, s),
         \A s \in Slots : st[s].kind # "ready" => fr[id[s]] = [of |-> id[s], rax |-> "call"]
  PROVE  BlockingInv'
  <1>1. PICK n \in Slots : IsNextTask(st, n) /\ current' = n
    BY DEF SwitchFrom
  <1>2. st[n] = Ready
    <2>1. CASE \E s \in Slots \ {current} : Runnable(st, s)
      <3>1. st[n].kind = "ready"
        BY <1>1, <2>1 DEF IsNextTask, Runnable
      <3> QED
        BY <3>1, ReadyIsReady DEF LegalStates
    <2>2. CASE ~\E s \in Slots \ {current} : Runnable(st, s)
      BY <1>1, <2>2 DEF IsNextTask
    <2> QED
      BY <2>1, <2>2
  <1> QED
    BY <1>1, <1>2 DEF SwitchFrom, BlockingInv, table

LEMMA NextBlocking ==
  ASSUME AllMayBlock = FALSE
  PROVE  Inv /\ BlockingInv /\ [Next]_vars => BlockingInv'
  <1> SUFFICES ASSUME Inv, BlockingInv, [Next]_vars PROVE BlockingInv'
    OBVIOUS
  <1> USE DEF table, sched
  <1>t. state \in [Slots -> TaskStates] /\ current \in Slots
    BY DEF Inv, TypeOK
  (* A blocked task is not the running one and its slot is not empty. *)
  <1>b. ASSUME phase # "boot", NEW s \in Slots, state[s].kind # "ready"
        PROVE  /\ s # current /\ Occupied(s)
               /\ frame[id[s]] = [of |-> id[s], rax |-> "call"]
    BY <1>b DEF BlockingInv, Inv, StacksInv, Ready
  <1>c. phase = "run" => state[current] = Ready
    BY DEF BlockingInv
  <1>1. ASSUME (\E s \in Slots : Spawn(s)) \/ StartFirstTask PROVE BlockingInv'
    <2>1. phase = "boot"
      BY <1>1 DEF Spawn, StartFirstTask
    <2>2. CASE \E s \in Slots : Spawn(s)
      BY <2>1, <2>2 DEF Spawn, BlockingInv
    <2>3. CASE StartFirstTask
      <3>1. \A s \in Slots : state'[s] = Ready
        BY <2>1, <2>3 DEF StartFirstTask, Inv, StacksInv
      <3> QED
        BY <2>3, <3>1, KernelAssumption DEF StartFirstTask, BlockingInv, Ready
    <2> QED
      BY <1>1, <2>2, <2>3
  <1>2. ASSUME SendPanics \/ SysShutdown \/ DeviceInterrupt PROVE BlockingInv'
    <2>1. phase = "run" /\ frame' \in {Pushed, [frame EXCEPT ![rsp0] = cpu]}
          /\ UNCHANGED <<state, id, current>>
      BY <1>2 DEF SendPanics, SysShutdown, DeviceInterrupt
    <2>2. ASSUME NEW s \in Slots, state[s].kind # "ready"
          PROVE  frame'[id[s]] = frame[id[s]]
      BY <2>1, <2>2, <1>b, FramesElsewhere
    <2> QED
      BY <2>1, <2>2, <1>b, <1>c DEF BlockingInv
  <1>3. ASSUME NEW v, ReturnWith(v, state, WithRax(Pushed, kstack, v)), phase = "run"
        PROVE  BlockingInv'
    <2>1. \A s \in Slots : state[s].kind # "ready" =>
            WithRax(Pushed, kstack, v)[id[s]] = frame[id[s]]
      BY <1>3, <1>b, FramesElsewhere
    <2> QED
      BY <1>3, <1>c, <2>1, ReturnPreservesBlocking
  <1>4. ASSUME NEW t \in Slots, t # current, Occupied(t), phase = "run",
               ReturnWith("ok", [state EXCEPT ![t] = Ready], Answered(rsp[t]))
        PROVE  BlockingInv'
    <2> DEFINE st == [state EXCEPT ![t] = Ready]
    <2>1. st[current] = Ready
      BY <1>4, <1>t, <1>c
    <2>2. ASSUME NEW s \in Slots, st[s].kind # "ready"
          PROVE  st[s] = state[s] /\ Answered(rsp[t])[id[s]] = frame[id[s]]
      <3>1. s # t /\ st[s] = state[s]
        BY <2>2, <1>t DEF Ready
      <3> QED
        BY <1>4, <2>2, <3>1, <1>b, FramesElsewhere
    <2> HIDE DEF st
    <2> QED
      BY <1>4, <2>1, <2>2, ReturnPreservesBlocking DEF st
  <1>5. ASSUME NEW st, NEW fr \in {Pushed}, phase = "run", MayBlock, st.kind # "ready",
               LegalStates([state EXCEPT ![current] = st]),
               SwitchFrom(kstack, [state EXCEPT ![current] = st], fr)
        PROVE  BlockingInv'
    <2> DEFINE sts == [state EXCEPT ![current] = st]
    <2>1. \E s \in Slots \ {current} : Runnable(sts, s)
      BY <1>5, <1>t DEF MayBlock, Runnable
    <2>2. ASSUME NEW s \in Slots, sts[s].kind # "ready"
          PROVE  fr[id[s]] = [of |-> id[s], rax |-> "call"]
      <3>1. CASE s = current
        BY <1>5, <3>1, FrameHere, RunningProgram
      <3>2. CASE s # current
        BY <1>5, <2>2, <3>2, <1>t, <1>b, FramesElsewhere
      <3> QED
        BY <3>1, <3>2
    <2> HIDE DEF sts
    <2> QED
      BY <1>5, <2>1, <2>2, SwitchPreservesBlocking DEF sts
  <1>6. ASSUME NEW fr \in {WithRax(Pushed, kstack, "ok"), [frame EXCEPT ![rsp0] = cpu]},
               NEW stack, phase = "run", SwitchFrom(stack, state, fr)
        PROVE  BlockingInv'
    <2>1. ASSUME NEW s \in Slots, state[s].kind # "ready"
          PROVE  fr[id[s]] = [of |-> id[s], rax |-> "call"]
      <3>1. s # current /\ Occupied(s) /\ frame[id[s]] = [of |-> id[s], rax |-> "call"]
        BY <1>6, <2>1, <1>b
      <3>2. /\ WithRax(Pushed, kstack, "ok")[id[s]] = frame[id[s]]
            /\ [frame EXCEPT ![rsp0] = cpu][id[s]] = frame[id[s]]
        BY <1>6, <3>1, FramesElsewhere
      <3>3. fr = WithRax(Pushed, kstack, "ok") \/ fr = [frame EXCEPT ![rsp0] = cpu]
        BY <1>6
      <3> QED
        BY <3>1, <3>2, <3>3
    <2> QED
      BY <1>6, <2>1, <1>c, UpdatedIsLegal, SwitchPreservesBlocking
  <1>7. ASSUME NEW d \in Dests, SendInvalid(d) PROVE BlockingInv'
    BY <1>7, <1>3 DEF SendInvalid
  <1>8. ASSUME NEW d \in Dests, NEW b \in Bodies, SendMeets(d, b) PROVE BlockingInv'
    <2>1. d - 1 \in Slots /\ Occupied(d - 1) /\ phase = "run"
      BY <1>8 DEF SendMeets, TaskExists
    <2>2. d - 1 # current
      BY <1>8, <2>1, <1>c DEF SendMeets, AwaitsMessageOf, Ready
    <2> QED
      BY <1>8, <2>1, <2>2, <1>4 DEF SendMeets, Answered
  <1>9. ASSUME NEW d \in Dests, NEW b \in Bodies, SendBlocks(d, b) PROVE BlockingInv'
    BY <1>9, <1>5, UpdatedIsLegal, KernelAssumption DEF SendBlocks, Sending
  <1>10. ASSUME NEW f \in Filters, RecvBlocks(f) PROVE BlockingInv'
    BY <1>10, <1>5, UpdatedIsLegal DEF RecvBlocks, Receiving
  <1>11. ASSUME NEW f \in Filters, TryRecvMisses(f) PROVE BlockingInv'
    BY <1>11, <1>3 DEF TryRecvMisses
  <1>12. ASSUME NEW f \in Filters, NEW s \in Slots, RecvMeets(f, s) PROVE BlockingInv'
    <2>1. Occupied(s) /\ phase = "run" /\ s # current
      BY <1>12, <1>c DEF RecvMeets, IsFirstSender, Offers, OffersMessageTo, Ready
    <2> QED
      BY <1>12, <2>1, <1>4 DEF RecvMeets, Answered
  <1>13. ASSUME NEW v \in RaxValues, SysOther(v) PROVE BlockingInv'
    BY <1>13, <1>3 DEF SysOther
  <1>14. ASSUME SysYield \/ TimerInterrupt PROVE BlockingInv'
    BY <1>14, <1>6 DEF SysYield, TimerInterrupt
  <1>15. ASSUME Compute \/ UNCHANGED vars PROVE BlockingInv'
    BY <1>15 DEF Compute, vars, BlockingInv
  <1> QED
    BY <1>1, <1>2, <1>7, <1>8, <1>9, <1>10, <1>11, <1>12, <1>13, <1>14, <1>15
       DEF Next, Send, Receive
-----------------------------------------------------------------------------
(* Until its rendezvous a blocked task's call stays open: the task does    *)
(* not run, and the frame the rendezvous will write 0 to is its own, with  *)
(* the number of the call in it.                                           *)
THEOREM BlockedCallsPending ==
  ASSUME AllMayBlock = FALSE
  PROVE  Spec => []BlockedCallPending
  <1>1. Init => BlockingInv
    BY DEF Init, BlockingInv
  <1>2. Inv /\ BlockingInv => BlockedCallPending
    BY DEF Inv, StacksInv, BlockingInv, BlockedCallPending, Ready
  <1> QED
    BY <1>1, <1>2, InitInv, NextInv, NextBlocking, PTL DEF Spec

(* Under the bargain the kernel never runs a task that is blocked. *)
THEOREM RunningAlwaysRunnable ==
  ASSUME AllMayBlock = FALSE
  PROVE  Spec => []RunningIsRunnable
  <1>1. Init => BlockingInv
    BY DEF Init, BlockingInv
  <1>2. Inv /\ BlockingInv => RunningIsRunnable
    BY DEF Inv, StacksInv, BlockingInv, RunningIsRunnable, Runnable, Ready
  <1> QED
    BY <1>1, <1>2, InitInv, NextInv, NextBlocking, PTL DEF Spec
-----------------------------------------------------------------------------
(* What ReleasedByDelivery says of one step, of one slot. *)
Released(s) ==
  state[s].kind # "ready" /\ state'[s] # state[s] =>
    /\ state'[s] = Ready
    /\ state[s].kind = "sending" =>
         /\ state[s].peer = id[current] /\ state[s].msg.sender = id[s]
         /\ buf'[id[current]] = state[s].msg
    /\ state[s].kind = "receiving" =>
         /\ Passes(state[s].peer, id[current])
         /\ buf'[id[s]].sender = id[current]

LEMMA NextReleases ==
  ASSUME Inv, BlockingInv, phase = "run", [Next]_vars
  PROVE  \A s \in Slots : Released(s)
  <1> USE DEF table, sched
  <1>t. /\ state \in [Slots -> TaskStates] /\ current \in Slots /\ state[current].kind = "ready"
        /\ buf \in [Programs -> [sender : Programs, body : Bodies] \union {NoMsg}]
        /\ id[current] = Me /\ Me \in Programs /\ cpu.of = Me
        /\ \A s \in Slots : state[s].kind # "ready" => id[s] = s + 1 /\ id[s] \in Programs
    BY RunningProgram DEF Inv, TypeOK, StacksInv, BlockingInv, Ready, Occupied
  <1>1. ASSUME state' = state PROVE \A s \in Slots : Released(s)
    BY <1>1 DEF Released
  <1>2. ASSUME NEW st, state' = [state EXCEPT ![current] = st]
        PROVE  \A s \in Slots : Released(s)
    BY <1>2, <1>t DEF Released
  <1>3. ASSUME NEW d \in Dests, NEW b \in Bodies, SendMeets(d, b)
        PROVE  \A s \in Slots : Released(s)
    <2>1. /\ d - 1 \in Slots
          /\ state[d - 1].kind = "receiving" /\ state[d - 1].peer \in {0, Me}
          /\ state' = [state EXCEPT ![d - 1] = Ready]
          /\ buf' = [buf EXCEPT ![id[d - 1]] = Message(Me, b)]
      BY <1>3 DEF SendMeets, TaskExists, AwaitsMessageOf, ReturnWith
    <2>2. buf'[id[d - 1]].sender = Me
      BY <2>1, <1>t DEF Message
    <2> QED
      BY <2>1, <2>2, <1>t DEF Released, Passes
  <1>4. ASSUME NEW f \in Filters, NEW t \in Slots, RecvMeets(f, t)
        PROVE  \A s \in Slots : Released(s)
    <2>1. /\ state[t].kind = "sending" /\ state[t].peer = Me
          /\ state' = [state EXCEPT ![t] = Ready]
          /\ buf' = [buf EXCEPT ![Me] = state[t].msg]
      BY <1>4, <1>t DEF RecvMeets, IsFirstSender, Offers, OffersMessageTo, ReturnWith
    <2>2. buf'[Me] = state[t].msg /\ state[t].msg.sender = id[t]
      BY <2>1, <1>t DEF Inv, StacksInv
    <2> QED
      BY <2>1, <2>2, <1>t DEF Released
  <1>5. ASSUME \/ SendPanics \/ SysShutdown \/ SysYield \/ Compute
               \/ TimerInterrupt \/ DeviceInterrupt \/ UNCHANGED vars
               \/ \E d \in Dests : SendInvalid(d)
               \/ \E f \in Filters : TryRecvMisses(f)
               \/ \E v \in RaxValues : SysOther(v)
        PROVE  state' = state
    BY <1>5 DEF SendPanics, SysShutdown, SysYield, Compute,
       TimerInterrupt, DeviceInterrupt, vars, SendInvalid, TryRecvMisses, SysOther,
       ReturnWith, SwitchFrom
  <1>6. ASSUME \/ \E d \in Dests, b \in Bodies : SendBlocks(d, b)
               \/ \E f \in Filters : RecvBlocks(f)
        PROVE  \E st : state' = [state EXCEPT ![current] = st]
    BY <1>6 DEF SendBlocks, RecvBlocks, SwitchFrom
  <1>7. ~StartFirstTask /\ ~\E s \in Slots : Spawn(s)
    BY DEF StartFirstTask, Spawn
  <1> QED
    BY <1>1, <1>2, <1>3, <1>4, <1>5, <1>6, <1>7 DEF Next, Send, Receive

(* Nothing but the message it waits for releases a blocked task. *)
THEOREM ReleaseIsDelivery ==
  ASSUME AllMayBlock = FALSE
  PROVE  Spec => ReleasedByDelivery
  <1>1. Init => BlockingInv
    BY DEF Init, BlockingInv
  <1>2. Inv /\ BlockingInv /\ [Next]_vars =>
          [phase = "run" => \A s \in Slots : Released(s)]_vars
    BY NextReleases
  <1> QED
    BY <1>1, <1>2, InitInv, NextInv, NextBlocking, PTL DEF Spec, ReleasedByDelivery, Released

-----------------------------------------------------------------------------
(***************************************************************************)
(* The kernel implements Rendezvous.tla: every step of a program is a step *)
(* of that specification or a stutter, and so are ticks, switches, device  *)
(* interrupts and the boot.                                                *)
(***************************************************************************)

(* The refinement mapping of R, by name. *)
Op  == [p \in Programs |-> state[p - 1]]
Ret == [p \in Programs |->
          IF ~Occupied(p - 1) THEN "val"
          ELSE IF cpu.of = p THEN cpu.rax
          ELSE frame[rsp[p - 1]].rax]

(* While programs run every one has its slot, and its result register is   *)
(* in the processor or on its own stack. *)
LEMMA RunningMap ==
  ASSUME Inv, phase = "run"
  PROVE  /\ \A p \in Programs : p - 1 \in Slots /\ Occupied(p - 1) /\ id[p - 1] = p /\ rsp[p - 1] = p
         /\ Ret = [p \in Programs |-> IF p = Me THEN cpu.rax ELSE frame[p].rax]
  <1>1. \A p \in Programs :
          p - 1 \in Slots /\ Occupied(p - 1) /\ id[p - 1] = p /\ rsp[p - 1] = p
    BY KernelAssumption DEF Inv, TypeOK, StacksInv, Occupied
  <1> QED
    BY <1>1, RunningProgram DEF Ret

LEMMA ReturnMap ==
  ASSUME Inv, phase = "run", NEW v, NEW st, NEW fr, ReturnWith(v, st, fr)
  PROVE  /\ Op' = [p \in Programs |-> st[p - 1]]
         /\ Ret' = [p \in Programs |-> IF p = Me THEN v ELSE fr[p].rax]
  <1> USE DEF ReturnWith, table
  <1>1. \A p \in Programs : id'[p - 1] = p /\ rsp'[p - 1] = p
    BY RunningMap
  <1> QED
    BY <1>1, RunningProgram DEF Op, Ret, Occupied

LEMMA SwitchMap ==
  ASSUME Inv, phase = "run", NEW st, NEW fr, NEW stack \in {kstack, rsp0},
         LegalFrames(fr), SwitchFrom(stack, st, fr)
  PROVE  /\ Op' = [p \in Programs |-> st[p - 1]]
         /\ Ret' = [p \in Programs |-> fr[p].rax]
  <1>1. UNCHANGED <<phase, id, rsp>> /\ state' = st /\ frame' = fr
    BY RunningProgram DEF SwitchFrom, table, Inv, TypeOK, StacksInv
  <1>2. PICK n \in Slots : IsNextTask(st, n) /\ current' = n /\ cpu' = fr[rsp'[n]]
    BY DEF SwitchFrom
  <1>3. Occupied(n)
    BY <1>2 DEF IsNextTask, Runnable, Inv, StacksInv
  <1>4. rsp'[n] = n + 1 /\ n + 1 \in Programs
    BY <1>1, <1>2, <1>3, RunningMap, KernelAssumption DEF Inv, TypeOK, StacksInv, Occupied
  <1>5. cpu'.of = n + 1
    <2>1. id[n] = n + 1 /\ cpu' = fr[id[n]] /\ id[n] \in Stacks
      BY <1>1, <1>2, <1>3, <1>4 DEF Inv, TypeOK, StacksInv, Occupied
    <2>2. CASE n = current
      BY <2>1, <2>2, RunningProgram DEF LegalFrames
    <2>3. CASE n # current
      <3>1. id[n] # kstack /\ frame[id[n]].of = id[n]
        BY <1>3, <2>3, FramesElsewhere DEF Inv, StacksInv
      <3> QED
        BY <2>1, <3>1 DEF LegalFrames
    <2> QED
      BY <2>2, <2>3
  <1> QED
    BY <1>1, <1>2, <1>4, <1>5, RunningMap DEF Op, Ret, Occupied
-----------------------------------------------------------------------------
LEMMA BootMaps ==
  ASSUME Inv, (\E s \in Slots : Spawn(s)) \/ StartFirstTask
  PROVE  UNCHANGED <<Op, buf, Ret>>
  <1>1. CASE \E s \in Slots : Spawn(s)
    <2>1. PICK s \in Slots : Spawn(s)
      BY <1>1
    <2>2. /\ ~Occupied(s) /\ phase = "boot" /\ cpu.of = 0 /\ state[s] = Ready
          /\ state \in [Slots -> TaskStates] /\ id \in [Slots -> {0} \union Programs]
          /\ rsp \in [Slots -> Stacks] /\ frame \in [Stacks -> Contexts]
          /\ \A t \in Slots : rsp[t] = id[t]
          /\ \A t \in Slots : id[t] = IF t < spawned THEN t + 1 ELSE 0
      BY <2>1 DEF Spawn, Inv, TypeOK, StacksInv
    <2>3. s = spawned /\ s + 1 \in Programs
      BY <2>1, SpawnSlot
    <2>4. UNCHANGED <<Op, buf>>
      BY <2>1, <2>2 DEF Spawn, Op
    <2>5. ASSUME NEW p \in Programs PROVE Ret'[p] = Ret[p]
      <3>1. CASE p - 1 = s
        BY <2>1, <2>2, <2>3, <2>5, <3>1 DEF Spawn, Ret, Occupied
      <3>2. CASE p - 1 # s
        <4>1. p - 1 \in Slots /\ id'[p - 1] = id[p - 1] /\ rsp'[p - 1] = rsp[p - 1] /\ cpu' = cpu
          BY <2>1, <2>2, <3>2, KernelAssumption DEF Spawn
        <4>2. Occupied(p - 1) => rsp[p - 1] = p /\ p # spawned + 1
          BY <2>2, <2>3, <3>2, <4>1 DEF Occupied
        <4>3. Occupied(p - 1) => frame'[p] = frame[p]
          BY <2>1, <2>2, <4>2 DEF Spawn
        <4> QED
          BY <4>1, <4>2, <4>3 DEF Ret, Occupied
      <3> QED
        BY <3>1, <3>2
    <2>6. Ret' = Ret
      BY <2>5 DEF Ret
    <2> QED
      BY <2>4, <2>6
  <1>2. CASE StartFirstTask
    <2>1. /\ cpu.of = 0 /\ cpu' = frame[rsp[0]] /\ cpu'.of = 1 /\ rsp[0] = 1
          /\ UNCHANGED <<state, buf, id, rsp, frame>>
          /\ \A p \in Programs : rsp[p - 1] = p
      <3>1. 0 \in Slots /\ id[0] = 1 /\ rsp[0] = 1 /\ Occupied(0)
        BY <1>2, KernelAssumption DEF StartFirstTask, Inv, TypeOK, StacksInv, Occupied
      <3>3. frame[id[0]] = [of |-> id[0], rax |-> "val"]
        BY <1>2, <3>1 DEF StartFirstTask, Inv, StacksInv
      <3>2. \A p \in Programs : rsp[p - 1] = p
        BY <1>2, KernelAssumption DEF StartFirstTask, Inv, TypeOK, StacksInv
      <3> QED
        BY <1>2, <3>1, <3>2, <3>3 DEF StartFirstTask, Inv, StacksInv
    <2> QED
      BY <1>2, <2>1 DEF Op, Ret, Occupied
  <1> QED
    BY <1>1, <1>2
-----------------------------------------------------------------------------
(* Steps that move frames about and change nothing a program can see. *)
LEMMA InvisibleMaps ==
  ASSUME Inv, SendPanics \/ SysShutdown \/ DeviceInterrupt \/ TimerInterrupt
  PROVE  UNCHANGED <<Op, buf, Ret>>
  <1>1. CASE SendPanics \/ SysShutdown \/ DeviceInterrupt
    <2>1. /\ phase = "run" /\ UNCHANGED <<id, state, rsp, current, cpu, buf>>
          /\ frame' \in {Pushed, [frame EXCEPT ![rsp0] = cpu]}
      BY <1>1 DEF SendPanics, SysShutdown, DeviceInterrupt, table, sched
    <2>2. ASSUME NEW p \in Programs, p # Me PROVE frame'[p] = frame[p]
      <3>1. p # kstack /\ p # rsp0 /\ frame \in [Stacks -> Contexts] /\ p \in Stacks
        BY <2>1, <2>2, RunningProgram DEF Inv, TypeOK
      <3>2. Pushed[p] = frame[p] /\ [frame EXCEPT ![rsp0] = cpu][p] = frame[p]
        BY <3>1 DEF Pushed
      <3> QED
        BY <2>1, <3>2
    <2>3. /\ Ret = [p \in Programs |-> IF p = Me THEN cpu.rax ELSE frame[p].rax]
          /\ \A p \in Programs : id'[p - 1] = p /\ rsp'[p - 1] = p
      BY <2>1, RunningMap
    <2>4. Ret' = [p \in Programs |-> IF p = Me THEN cpu.rax ELSE frame'[p].rax]
      BY <2>1, <2>3, RunningProgram DEF Ret, Occupied
    <2> QED
      BY <2>1, <2>2, <2>3, <2>4 DEF Op
  <1>2. CASE TimerInterrupt
    <2> DEFINE fr == [frame EXCEPT ![rsp0] = cpu]
    <2>1. phase = "run" /\ SwitchFrom(rsp0, state, fr) /\ LegalFrames(fr) /\ buf' = buf
      BY <1>2, PushedIsLegal DEF TimerInterrupt
    <2>2. \A p \in Programs : fr[p] = IF p = Me THEN cpu ELSE frame[p]
      BY <2>1, RunningProgram DEF Inv, TypeOK
    <2> HIDE DEF fr
    <2>3. Op' = Op /\ Ret' = [p \in Programs |-> fr[p].rax]
      BY <2>1, SwitchMap DEF Op
    <2>4. Ret = [p \in Programs |-> IF p = Me THEN cpu.rax ELSE frame[p].rax]
      BY <2>1, RunningMap
    <2>5. \A p \in Programs : fr[p].rax = IF p = Me THEN cpu.rax ELSE frame[p].rax
      BY <2>2
    <2> QED
      BY <2>1, <2>3, <2>4, <2>5
  <1> QED
    BY <1>1, <1>2

LEMMA WorkMaps ==
  ASSUME Inv, BlockingInv, phase = "run",
         \/ Compute \/ SysYield
         \/ \E d \in Dests : SendInvalid(d)
         \/ \E f \in Filters : TryRecvMisses(f)
         \/ \E v \in RaxValues : SysOther(v)
  PROVE  R!Works(Me)
  <1>0. /\ Me \in Programs /\ Me - 1 = current
        /\ Op[Me] = R!Ready
    BY RunningProgram DEF BlockingInv, Me, Op, Ready, R!Ready, Inv, TypeOK
  <1>1. SUFFICES /\ UNCHANGED <<Op, buf>>
                 /\ \E v \in RaxValues : Ret' = [Ret EXCEPT ![Me] = v]
    BY <1>0 DEF R!Works, R!RaxValues, RaxValues, Op, Ret
  <1>2. ASSUME NEW v \in RaxValues, ReturnWith(v, state, WithRax(Pushed, kstack, v))
        PROVE  Op' = Op /\ Ret' = [Ret EXCEPT ![Me] = v]
    <2>1. \A p \in Programs : p # Me => WithRax(Pushed, kstack, v)[p] = frame[p]
      BY RunningProgram DEF WithRax, Pushed, Inv, TypeOK
    <2>2. /\ Op' = Op
          /\ Ret' = [p \in Programs |-> IF p = Me THEN v ELSE WithRax(Pushed, kstack, v)[p].rax]
      BY <1>2, ReturnMap DEF Op
    <2>3. Ret = [p \in Programs |-> IF p = Me THEN cpu.rax ELSE frame[p].rax]
      BY RunningMap
    <2> QED
      BY <2>1, <2>2, <2>3
  <1>3. CASE \/ \E d \in Dests : SendInvalid(d)
             \/ \E f \in Filters : TryRecvMisses(f)
             \/ \E v \in RaxValues : SysOther(v)
    <2>1. PICK v \in RaxValues : ReturnWith(v, state, WithRax(Pushed, kstack, v)) /\ buf' = buf
      BY <1>3 DEF SendInvalid, TryRecvMisses, SysOther, RaxValues
    <2> QED
      BY <1>2, <2>1
  <1>4. CASE SysYield
    <2> DEFINE fr == WithRax(Pushed, kstack, "ok")
    <2>1. SwitchFrom(kstack, state, fr) /\ LegalFrames(fr) /\ buf' = buf /\ "ok" \in RaxValues
      BY <1>4, PushedIsLegal DEF SysYield, RaxValues
    <2>2. \A p \in Programs : fr[p].rax = IF p = Me THEN "ok" ELSE frame[p].rax
      BY RunningProgram DEF WithRax, Pushed, Inv, TypeOK
    <2> HIDE DEF fr
    <2>3. Ret' = [Ret EXCEPT ![Me] = "ok"] /\ Op' = Op
      <3>1. Op' = Op /\ Ret' = [p \in Programs |-> fr[p].rax]
        BY <2>1, SwitchMap DEF Op
      <3>2. Ret = [p \in Programs |-> IF p = Me THEN cpu.rax ELSE frame[p].rax]
        BY RunningMap
      <3> QED
        BY <2>2, <3>1, <3>2
    <2> QED
      BY <2>1, <2>3
  <1>5. CASE Compute
    <2>1. /\ UNCHANGED <<phase, id, state, rsp, frame, buf>> /\ cpu'.of = Me /\ cpu'.rax = "val"
          /\ "val" \in RaxValues
      BY <1>5, RunningProgram DEF Compute, table, sched, RaxValues
    <2>2. Ret' = [Ret EXCEPT ![Me] = "val"]
      <3>1. Ret' = [p \in Programs |-> IF p = Me THEN "val" ELSE frame[p].rax]
        BY <2>1, RunningMap DEF Ret, Occupied
      <3>2. Ret = [p \in Programs |-> IF p = Me THEN cpu.rax ELSE frame[p].rax]
        BY RunningMap
      <3> QED
        BY <3>1, <3>2
    <2> QED
      BY <2>1, <2>2 DEF Op
  <1> QED
    BY <1>3, <1>4, <1>5
-----------------------------------------------------------------------------
(* The vocabulary of Rendezvous.tla, seen through R, is that of Messages.  *)
LEMMA SameWords ==
  /\ R!Ready = Ready
  /\ \A d, m : R!Sending(d, m) = Sending(d, m)
  /\ \A f : R!Receiving(f) = Receiving(f)
  /\ \A p, b : R!Message(p, b) = Message(p, b)
  /\ \A st, p : (R!AwaitsMessageOf(st, p) <=> AwaitsMessageOf(st, p))
                /\ (R!OffersMessageTo(st, p) <=> OffersMessageTo(st, p))
  /\ \A f, p : R!Passes(f, p) <=> Passes(f, p)
  BY DEF R!Ready, Ready, R!Sending, Sending, R!Receiving, Receiving, R!Message, Message,
     R!AwaitsMessageOf, AwaitsMessageOf, R!OffersMessageTo, OffersMessageTo,
     R!Passes, Passes, R!Anybody

(* The result registers after a rendezvous with the program in slot t. *)
LEMMA MeetingMaps ==
  ASSUME Inv, BlockingInv, phase = "run", NEW t \in Slots, Occupied(t), t # current,
         ReturnWith("ok", [state EXCEPT ![t] = Ready], Answered(rsp[t]))
  PROVE  /\ t + 1 \in Programs /\ id[t] = t + 1 /\ t + 1 # Me
         /\ Op' = [Op EXCEPT ![t + 1] = Ready]
         /\ Ret' = [Ret EXCEPT ![t + 1] = "ok", ![Me] = "ok"]
  <1> DEFINE st == [state EXCEPT ![t] = Ready]
             fr == Answered(rsp[t])
  <1>1. t + 1 \in Programs /\ id[t] = t + 1 /\ t + 1 # Me /\ Me \in Programs
    BY RunningProgram DEF Inv, TypeOK, Occupied, Me
  <1>2. ReturnWith("ok", st, fr)
    OBVIOUS
  <1>3. \A p \in Programs : st[p - 1] = IF p = t + 1 THEN Ready ELSE Op[p]
    <2>1. state \in [Slots -> TaskStates]
      BY DEF Inv, TypeOK
    <2>2. \A p \in Programs : p - 1 \in Slots /\ Op[p] = state[p - 1] /\ (p - 1 = t <=> p = t + 1)
      BY RunningMap DEF Op
    <2> QED
      BY <2>1, <2>2
  <1>4. ASSUME NEW p \in Programs, p # Me
        PROVE  fr[p].rax = IF p = t + 1 THEN "ok" ELSE frame[p].rax
    <2>1. p - 1 \in Slots /\ Occupied(p - 1) /\ id[p - 1] = p
      BY <1>4, RunningMap
    <2>2. p - 1 # current
      BY <1>4, <2>1, RunningProgram
    <2>3. CASE p = t + 1
      <3>1. fr[id[t]] = [of |-> id[t], rax |-> "ok"]
        BY FramesElsewhere
      <3> QED
        BY <1>1, <2>3, <3>1
    <2>4. CASE p # t + 1
      <3>1. t # p - 1
        BY <1>1, <2>1, <2>4
      <3>2. fr[id[p - 1]] = frame[id[p - 1]]
        BY <2>1, <2>2, <3>1, FramesElsewhere
      <3> QED
        BY <2>1, <2>4, <3>2
    <2> QED
      BY <2>3, <2>4
  <1>5. Ret = [p \in Programs |-> IF p = Me THEN cpu.rax ELSE frame[p].rax]
    BY RunningMap
  <1> HIDE DEF st, fr
  <1>6. Op' = [p \in Programs |-> st[p - 1]]
        /\ Ret' = [p \in Programs |-> IF p = Me THEN "ok" ELSE fr[p].rax]
    BY <1>2, ReturnMap
  <1>7. Op' = [Op EXCEPT ![t + 1] = Ready]
    BY <1>3, <1>6 DEF Op
  <1>8. Ret' = [Ret EXCEPT ![t + 1] = "ok", ![Me] = "ok"]
    BY <1>1, <1>4, <1>5, <1>6
  <1> QED
    BY <1>1, <1>7, <1>8

(* The result registers after a call that blocks. *)
LEMMA BlockingMaps ==
  ASSUME Inv, phase = "run", NEW st,
         SwitchFrom(kstack, [state EXCEPT ![current] = st], Pushed)
  PROVE  /\ Op' = [Op EXCEPT ![Me] = st]
         /\ Ret' = [Ret EXCEPT ![Me] = "call"]
  <1> DEFINE sts == [state EXCEPT ![current] = st]
  <1>1. Me \in Programs /\ Me - 1 = current /\ state \in [Slots -> TaskStates]
    BY RunningProgram DEF Me, Inv, TypeOK
  <1>2. \A p \in Programs : sts[p - 1] = IF p = Me THEN st ELSE Op[p]
    <2>1. \A p \in Programs : p - 1 \in Slots /\ Op[p] = state[p - 1] /\ (p - 1 = current <=> p = Me)
      BY <1>1, RunningMap DEF Op
    <2> QED
      BY <1>1, <2>1
  <1>3. \A p \in Programs : Pushed[p].rax = IF p = Me THEN "call" ELSE frame[p].rax
    BY RunningProgram DEF Pushed, Inv, TypeOK
  <1>4. Ret = [p \in Programs |-> IF p = Me THEN cpu.rax ELSE frame[p].rax]
    BY RunningMap
  <1>5. SwitchFrom(kstack, sts, Pushed)
    OBVIOUS
  <1> HIDE DEF sts
  <1>6. /\ Op' = [p \in Programs |-> sts[p - 1]]
        /\ Ret' = [p \in Programs |-> Pushed[p].rax]
    BY <1>5, SwitchMap, PushedIsLegal
  <1> QED
    BY <1>1, <1>2, <1>3, <1>4, <1>6 DEF Op

LEMMA SendMaps ==
  ASSUME Inv, BlockingInv, phase = "run", NEW d \in Dests, NEW b \in Bodies
  PROVE  /\ SendMeets(d, b) => d \in Programs /\ R!SendMeets(Me, d, b)
         /\ SendBlocks(d, b) => d \in Programs /\ R!SendWaits(Me, d, b)
  <1>0. Me \in Programs /\ Op[Me] = R!Ready /\ state[current] = Ready
    BY RunningProgram, SameWords DEF BlockingInv, Me, Op, Inv, TypeOK
  <1>1. TaskExists(d) => d \in Programs /\ d - 1 \in Slots /\ Occupied(d - 1) /\ Op[d] = state[d - 1]
                         /\ id[d - 1] = d
    <2>1. TaskExists(d) => d - 1 \in Slots /\ Occupied(d - 1)
      BY DEF TaskExists
    <2>2. TaskExists(d) => d \in Programs /\ id[d - 1] = d
      BY <2>1, KernelAssumption DEF Inv, TypeOK, Occupied
    <2> QED
      BY <2>1, <2>2 DEF Op
  <1>2. ASSUME SendMeets(d, b) PROVE d \in Programs /\ R!SendMeets(Me, d, b)
    <2>1. /\ TaskExists(d) /\ AwaitsMessageOf(state[d - 1], Me)
          /\ ReturnWith("ok", [state EXCEPT ![d - 1] = Ready], Answered(rsp[d - 1]))
          /\ buf' = [buf EXCEPT ![id[d - 1]] = Message(Me, b)]
      BY <1>2 DEF SendMeets, Answered
    <2>2. d - 1 # current
      BY <1>0, <2>1 DEF AwaitsMessageOf, Ready
    <2>3. (d - 1) + 1 = d
      BY <1>1, <2>1
    <2>4. Op' = [Op EXCEPT ![d] = Ready] /\ Ret' = [Ret EXCEPT ![d] = "ok", ![Me] = "ok"]
      BY <1>1, <2>1, <2>2, <2>3, MeetingMaps
    <2>5. R!AwaitsMessageOf(Op[d], Me) /\ buf' = [buf EXCEPT ![d] = R!Message(Me, b)]
      BY <1>1, <2>1, SameWords
    <2> QED
      BY <1>0, <1>1, <2>1, <2>4, <2>5, SameWords DEF R!SendMeets, Op, Ret
  <1>3. ASSUME SendBlocks(d, b) PROVE d \in Programs /\ R!SendWaits(Me, d, b)
    <2>1. /\ TaskExists(d) /\ ~AwaitsMessageOf(state[d - 1], Me) /\ buf' = buf
          /\ SwitchFrom(kstack, [state EXCEPT ![current] = Sending(d, Message(Me, b))], Pushed)
      BY <1>3 DEF SendBlocks
    <2>2. Op' = [Op EXCEPT ![Me] = Sending(d, Message(Me, b))] /\ Ret' = [Ret EXCEPT ![Me] = "call"]
      BY <2>1, BlockingMaps
    <2>3. ~R!AwaitsMessageOf(Op[d], Me) /\ R!Sending(d, R!Message(Me, b)) = Sending(d, Message(Me, b))
      BY <1>1, <2>1, SameWords
    <2> QED
      BY <1>0, <1>1, <2>1, <2>2, <2>3 DEF R!SendWaits, Op, Ret
  <1> QED
    BY <1>2, <1>3

LEMMA RecvMaps ==
  ASSUME Inv, BlockingInv, phase = "run", NEW f \in Filters
  PROVE  /\ \A s \in Slots : RecvMeets(f, s) => s + 1 \in Programs /\ R!RecvMeets(Me, f, s + 1)
         /\ RecvBlocks(f) => R!RecvWaits(Me, f)
  <1>0. Me \in Programs /\ Op[Me] = R!Ready /\ state[current] = Ready /\ cpu.of = Me
    BY RunningProgram, SameWords DEF BlockingInv, Me, Op, Inv, TypeOK
  <1>1. ASSUME NEW s \in Slots, RecvMeets(f, s)
        PROVE  s + 1 \in Programs /\ R!RecvMeets(Me, f, s + 1)
    <2>1. /\ Occupied(s) /\ OffersMessageTo(state[s], Me) /\ Passes(f, id[s])
          /\ ReturnWith("ok", [state EXCEPT ![s] = Ready], Answered(rsp[s]))
          /\ buf' = [buf EXCEPT ![Me] = state[s].msg]
      BY <1>0, <1>1 DEF RecvMeets, IsFirstSender, Offers, Answered
    <2>2. s # current
      BY <1>0, <2>1 DEF OffersMessageTo, Ready
    <2>3. /\ s + 1 \in Programs /\ id[s] = s + 1
          /\ Op' = [Op EXCEPT ![s + 1] = Ready]
          /\ Ret' = [Ret EXCEPT ![s + 1] = "ok", ![Me] = "ok"]
      BY <2>1, <2>2, MeetingMaps
    <2>4. Op[s + 1] = state[s]
      BY <2>3 DEF Op
    <2>5. [Ret EXCEPT ![s + 1] = "ok", ![Me] = "ok"] = [Ret EXCEPT ![Me] = "ok", ![s + 1] = "ok"]
      BY <1>0, <2>3 DEF Ret
    <2>6. R!OffersMessageTo(Op[s + 1], Me) /\ R!Passes(f, s + 1)
      BY <2>1, <2>3, <2>4, SameWords
    <2> QED
      BY <1>0, <2>1, <2>3, <2>4, <2>5, <2>6, SameWords DEF R!RecvMeets, Op, Ret
  <1>2. ASSUME RecvBlocks(f) PROVE R!RecvWaits(Me, f)
    <2>1. /\ NoSender(f) /\ buf' = buf
          /\ SwitchFrom(kstack, [state EXCEPT ![current] = Receiving(f)], Pushed)
      BY <1>2 DEF RecvBlocks
    <2>2. Op' = [Op EXCEPT ![Me] = Receiving(f)] /\ Ret' = [Ret EXCEPT ![Me] = "call"]
      BY <2>1, BlockingMaps
    <2>3. ASSUME NEW q \in Programs, R!Passes(f, q) PROVE ~R!OffersMessageTo(Op[q], Me)
      <3>1. q - 1 \in Slots /\ Occupied(q - 1) /\ id[q - 1] = q /\ Op[q] = state[q - 1]
        BY RunningMap DEF Op
      <3> QED
        BY <2>1, <2>3, <3>1, SameWords DEF NoSender, Offers
    <2> QED
      BY <1>0, <2>1, <2>2, <2>3, SameWords DEF R!RecvWaits, Op, Ret
  <1> QED
    BY <1>1, <1>2
-----------------------------------------------------------------------------
LEMMA InitMaps == Init => R!Init
  <1> SUFFICES ASSUME Init PROVE R!Init
    OBVIOUS
  <1>1. \A p \in Programs : p - 1 \in Slots
    BY KernelAssumption
  <1> QED
    BY <1>1, SameWords DEF Init, R!Init, Occupied

LEMMA NextMaps ==
  Inv /\ BlockingInv /\ [Next]_vars => [R!Next]_(R!vars)
  <1> SUFFICES ASSUME Inv, BlockingInv, [Next]_vars
               PROVE  R!Next \/ UNCHANGED <<Op, buf, Ret>>
    BY DEF R!vars, Op, Ret
  <1>1. ASSUME (\E s \in Slots : Spawn(s)) \/ StartFirstTask PROVE UNCHANGED <<Op, buf, Ret>>
    BY <1>1, BootMaps
  <1>2. ASSUME SendPanics \/ SysShutdown \/ DeviceInterrupt \/ TimerInterrupt
        PROVE  UNCHANGED <<Op, buf, Ret>>
    BY <1>2, InvisibleMaps
  <1>3. ASSUME UNCHANGED vars PROVE UNCHANGED <<Op, buf, Ret>>
    BY <1>3 DEF vars, table, sched, Op, Ret, Occupied
  <1>4. ASSUME \/ Compute \/ SysYield
               \/ \E d \in Dests : SendInvalid(d)
               \/ \E f \in Filters : TryRecvMisses(f)
               \/ \E v \in RaxValues : SysOther(v)
        PROVE  R!Next
    <2>1. phase = "run"
      BY <1>4 DEF Compute, SysYield, SendInvalid, TryRecvMisses, SysOther
    <2>2. R!Works(Me)
      BY <1>4, <2>1, WorkMaps
    <2>3. Me \in Programs
      BY <2>1, RunningProgram
    <2>4. PICK p \in Programs : p = Me
      BY <2>3
    <2> QED
      BY <2>2, <2>4 DEF R!Next, R!Works
  <1>5. ASSUME NEW d \in Dests, NEW b \in Bodies, SendMeets(d, b) \/ SendBlocks(d, b)
        PROVE  R!Next
    <2>1. phase = "run"
      BY <1>5 DEF SendMeets, SendBlocks
    <2>2. d \in Programs /\ (R!SendMeets(Me, d, b) \/ R!SendWaits(Me, d, b))
      BY <1>5, <2>1, SendMaps
    <2> QED
      BY <2>1, <2>2, RunningProgram DEF R!Next
  <1>6. ASSUME NEW f \in Filters, RecvBlocks(f) \/ \E s \in Slots : RecvMeets(f, s)
        PROVE  R!Next
    <2>1. phase = "run"
      BY <1>6 DEF RecvMeets, RecvBlocks
    <2>2. R!RecvWaits(Me, f) \/ \E q \in Programs : R!RecvMeets(Me, f, q)
      BY <1>6, <2>1, RecvMaps
    <2> QED
      BY <2>1, <2>2, RunningProgram DEF R!Next, Filters, R!Anybody
  <1> QED
    BY <1>1, <1>2, <1>3, <1>4, <1>5, <1>6 DEF Next, Send, Receive

(* The kernel gives its programs the synchronous message passing of        *)
(* Rendezvous.tla: a message is delivered once, to a task that asked for   *)
(* it, with its true sender, in the step that completes both calls; and    *)
(* preemption, switches and interrupts are invisible to programs.          *)
THEOREM KernelImplementsRendezvous ==
  ASSUME AllMayBlock = FALSE
  PROVE  Spec => ImplementsRendezvous
  <1>1. Init => BlockingInv
    BY DEF Init, BlockingInv
  <1> QED
    BY <1>1, InitInv, NextInv, NextBlocking, InitMaps, NextMaps, PTL
       DEF Spec, ImplementsRendezvous, R!Spec
=============================================================================
