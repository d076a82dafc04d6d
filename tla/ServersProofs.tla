---------------------------- MODULE ServersProofs ----------------------------
(***************************************************************************)
(* Proofs about the five programs of Servers.tla, for any owners of the    *)
(* windows among the shell and the two servers, any number of input events *)
(* and any number of directory entries.                                    *)
(*                                                                         *)
(* The invariant says where each program can be and what it can be blocked *)
(* in there (Places, Waits), that a send and a receive that match are not  *)
(* both waiting (NoneMissed), and the heart of it, InStep: a server has a  *)
(* request of p exactly while p awaits that server's reply.                *)
(***************************************************************************)
EXTENDS Servers, TLAPS

USE DEF Shell, Fs, Ata, Input, Gui, Programs, Clients, Anybody

Replies == {Body("ok"), Body("err")}
AtaRequests == {AtaRead(lba) : lba \in Sectors}
RequestsTo(s) == IF s = Fs THEN {Body("list"), Body("read")} ELSE AtaRequests

(* The labels each program can be at. *)
Places ==
  /\ pc \in [Programs -> Labels]
  /\ pc[Shell] \in {"loop", "got", "ask", "wait", "back"}
  /\ pc[Fs] \in {"loop", "got", "ask", "wait", "back", "scan", "answer"}
  /\ pc[Ata] \in {"loop", "got", "answer"}
  /\ pc[Input] = "loop"
  /\ pc[Gui] \in {"loop", "polled"}

(* What a blocked program waits for, by its place. *)
ShellBlocked ==
  \/ pc[Shell] = "got"  /\ op[Shell] = Receiving(Anybody)
  \/ pc[Shell] = "wait" /\ op[Shell] = Sending(job.to, Message(Shell, job.body))
  \/ pc[Shell] = "back" /\ op[Shell] = Receiving(job.to)

FsBlocked ==
  \/ pc[Fs] = "got"  /\ op[Fs] = Receiving(Anybody)
  \/ pc[Fs] = "wait" /\ op[Fs] = Sending(Ata, Message(Fs, AtaRead(want)))
  \/ pc[Fs] = "back" /\ op[Fs] = Receiving(Ata)
  \/ pc[Fs] = "loop" /\ \E b \in Replies : op[Fs] = Sending(Shell, Message(Fs, b))

AtaBlocked ==
  \/ pc[Ata] = "got"  /\ op[Ata] = Receiving(Anybody)
  \/ /\ pc[Ata] = "loop"
     /\ \E c \in Clients, b \in Replies : op[Ata] = Sending(c, Message(Ata, b))

InputBlocked == \E b \in InputBodies : op[Input] = Sending(Gui, Message(Input, b))

GuiBlocked ==
  /\ pc[Gui] = "loop"
  /\ \E d \in Owners, k \in Keys : op[Gui] = Sending(d, Message(Gui, Key(k)))

Waits ==
  /\ op[Shell] # Ready => ShellBlocked
  /\ op[Fs] # Ready => FsBlocked
  /\ op[Ata] # Ready => AtaBlocked
  /\ op[Input] # Ready => InputBlocked
  /\ op[Gui] # Ready => GuiBlocked

(* No send and receive that match are both waiting. *)
NoneMissed ==
  \A p, q \in Programs : OffersMessageTo(op[p], q) => ~AwaitsMessageOf(op[q], p)

(* A server is at work on a request. *)
Working == {"ask", "wait", "back", "scan", "answer"}

(* Server s has a request of p: it has received it, works on it, or waits  *)
(* to send its reply. *)
HasRequestOf(s, p) ==
  \/ At(s, "got") /\ Got(s) \in RequestsTo(s) /\ buf[s].sender = p
  \/ pc[s] \in Working /\ client[s] = p
  \/ pc[s] = "loop" /\ OffersMessageTo(op[s], p)

InStep ==
  \A s \in {Fs, Ata}, p \in Programs : HasRequestOf(s, p) <=> AwaitsReplyOf(p, s)

(* A server that received a message received a request or a key; the GUI   *)
(* an input event.                                                         *)
Letters ==
  /\ \A s \in {Fs, Ata} : At(s, "got") =>
       \E q \in Programs : \E b \in RequestsTo(s) \union {Key(k) : k \in Keys} : buf[s] = Message(q, b)
  /\ pc[Gui] = "polled" /\ ret[Gui] = "ok" =>
       \E b \in InputBodies : buf[Gui] = Message(Input, b)

(* The shell asks a server for what that server does. *)
JobOK == job.to \in {Fs, Ata} /\ job.body \in RequestsTo(job.to)

(* TypeOK in two parts: the kernel's variables and the programs'. *)
CallTypes ==
  /\ op \in [Programs -> [kind : Kinds, peer : 0 .. 5, msg : Ipc!AllMessages \union {NoMsg}]]
  /\ buf \in [Programs -> Ipc!AllMessages \union {NoMsg}]
  /\ ret \in [Programs -> RaxValues]

DataTypes ==
  /\ job \in [to : {Fs, Ata}, body : Bodies]
  /\ client \in [{Fs, Ata} -> Clients]
  /\ task \in {"list", "read"} /\ want \in Sectors \ {"mbr"}
  /\ entries \in 0 .. MaxEntries
  /\ outcome \in [{Fs, Ata} -> BOOLEAN] /\ ioError \in BOOLEAN
  /\ mem \in [Clients -> Contents]
  /\ events \in 0 .. MaxEvents
  /\ active \in Owners \union {0}

Inv ==
  /\ CallTypes /\ DataTypes /\ Places /\ Waits /\ NoneMissed /\ InStep /\ Letters /\ JobOK

(* The invariant holds the types of every variable. *)
LEMMA TypesSplit == Inv => TypeOK
BY DEF Inv, CallTypes, DataTypes, Places, TypeOK

(* Init: every program is at the start of its loop, no call is pending and *)
(* no request is on its way.                                               *)
LEMMA InitInv == Init => Inv
<1> SUFFICES ASSUME Init PROVE Inv
  OBVIOUS
<1> USE DEF Init, Ipc!Init, Ipc!Ready, Ready
<1>1. \A p \in Programs : op[p] = Ready /\ pc[p] = "loop"
  OBVIOUS
<1>2. CallTypes /\ DataTypes
  <2>1. Ready \in [kind : Kinds, peer : 0 .. 5, msg : Ipc!AllMessages \union {NoMsg}]
    BY DEF Ready, Kinds
  <2>2. op \in [Programs -> [kind : Kinds, peer : 0 .. 5, msg : Ipc!AllMessages \union {NoMsg}]]
    BY <2>1
  <2>3. job \in [to : {Fs, Ata}, body : Bodies]
    BY DEF NoJob, Bodies, Body
  <2>4. ret \in [Programs -> RaxValues] /\ pc \in [Programs -> Labels]
    BY DEF RaxValues, Labels
  <2>5. want \in Sectors \ {"mbr"} /\ mem \in [Clients -> Contents]
    BY DEF Sectors, Contents
  <2>6. entries \in 0 .. MaxEntries /\ events \in 0 .. MaxEvents
    BY ServersAssumption
  <2> QED
    BY <2>2, <2>3, <2>4, <2>5, <2>6 DEF CallTypes, DataTypes
<1>3. Places
  BY DEF Places, Labels
<1>4. Waits /\ NoneMissed
  BY <1>1 DEF Waits, NoneMissed, Ready, OffersMessageTo
<1>5. InStep
  <2>1. \A s \in {Fs, Ata}, p \in Programs : ~HasRequestOf(s, p)
    BY <1>1 DEF HasRequestOf, At, Ready, OffersMessageTo, Working
  <2>2. \A s \in {Fs, Ata}, p \in Programs : ~AwaitsReplyOf(p, s)
    BY <1>1 DEF AwaitsReplyOf, At
  <2> QED
    BY <2>1, <2>2 DEF InStep
<1>6. Letters /\ JobOK
  BY DEF Letters, JobOK, At, NoJob, RequestsTo, Body
<1> QED
  BY <1>2, <1>3, <1>4, <1>5, <1>6 DEF Inv

(* In a state of the invariant where all five are blocked, the ATA server  *)
(* can only be waiting for a request, hence so is the file system server,  *)
(* hence the shell waits for a key; but then the GUI, which sends to one   *)
(* of them, would have been received.                                      *)
LEMMA InvSomeone == Inv => SomeoneCanRun
<1> SUFFICES ASSUME Inv, \A p \in Programs : op[p] # Ready PROVE FALSE
  BY DEF SomeoneCanRun
<1> USE DEF Inv
<1>1. AtaBlocked /\ FsBlocked /\ ShellBlocked /\ GuiBlocked
  BY DEF Waits
<1>2. op[Ata] = Receiving(Anybody) /\ pc[Ata] = "got"
  <2> SUFFICES ASSUME pc[Ata] = "loop", NEW c \in Clients, NEW b \in Replies,
                      op[Ata] = Sending(c, Message(Ata, b))
               PROVE  FALSE
    BY <1>1 DEF AtaBlocked
  <2>1. HasRequestOf(Ata, c) /\ OffersMessageTo(op[Ata], c)
    BY DEF HasRequestOf, OffersMessageTo, Sending
  <2>2. AwaitsReplyOf(c, Ata)
    BY <2>1 DEF InStep
  <2>3. AwaitsMessageOf(op[c], Ata)
    BY <2>2 DEF AwaitsReplyOf, At, AwaitsMessageOf, Receiving
  <2> QED
    BY <2>1, <2>3 DEF NoneMissed
<1>3. op[Fs] = Receiving(Anybody) /\ pc[Fs] = "got"
  <2>1. CASE pc[Fs] = "wait" /\ op[Fs] = Sending(Ata, Message(Fs, AtaRead(want)))
    BY <1>2, <2>1 DEF NoneMissed, OffersMessageTo, AwaitsMessageOf, Sending, Receiving
  <2>2. CASE pc[Fs] = "back" /\ op[Fs] = Receiving(Ata)
    <3>1. AwaitsReplyOf(Fs, Ata)
      BY <2>2 DEF AwaitsReplyOf
    <3>2. HasRequestOf(Ata, Fs)
      BY <3>1 DEF InStep
    <3> QED
      BY <1>2, <3>2 DEF HasRequestOf, At, Working
  <2>3. ASSUME pc[Fs] = "loop", NEW b \in Replies, op[Fs] = Sending(Shell, Message(Fs, b))
        PROVE  FALSE
    <3>1. HasRequestOf(Fs, Shell) /\ OffersMessageTo(op[Fs], Shell)
      BY <2>3 DEF HasRequestOf, OffersMessageTo, Sending
    <3>2. AwaitsReplyOf(Shell, Fs)
      BY <3>1 DEF InStep
    <3>3. AwaitsMessageOf(op[Shell], Fs)
      BY <3>2 DEF AwaitsReplyOf, At, AwaitsMessageOf, Receiving
    <3> QED
      BY <3>1, <3>3 DEF NoneMissed
  <2> QED
    BY <1>1, <2>1, <2>2, <2>3 DEF FsBlocked
<1>4. op[Shell] = Receiving(Anybody)
  <2>1. CASE pc[Shell] = "wait" /\ op[Shell] = Sending(job.to, Message(Shell, job.body))
    BY <1>2, <1>3, <2>1 DEF JobOK, NoneMissed, OffersMessageTo, AwaitsMessageOf, Sending, Receiving
  <2>2. CASE pc[Shell] = "back" /\ op[Shell] = Receiving(job.to)
    <3>1. AwaitsReplyOf(Shell, job.to) /\ job.to \in {Fs, Ata}
      BY <2>2 DEF AwaitsReplyOf, JobOK
    <3>2. HasRequestOf(job.to, Shell)
      BY <3>1 DEF InStep
    <3> QED
      BY <1>2, <1>3, <3>1, <3>2 DEF HasRequestOf, At, Working
  <2> QED
    BY <1>1, <2>1, <2>2 DEF ShellBlocked
<1>5. PICK d \in Owners, k \in Keys : op[Gui] = Sending(d, Message(Gui, Key(k)))
  BY <1>1 DEF GuiBlocked
<1>6. d \in {Shell, Fs, Ata} /\ op[d] = Receiving(Anybody)
  BY <1>2, <1>3, <1>4, ServersAssumption
<1>7. OffersMessageTo(op[Gui], d) /\ AwaitsMessageOf(op[d], Gui)
  BY <1>5, <1>6 DEF OffersMessageTo, AwaitsMessageOf, Sending, Receiving
<1> QED
  BY <1>6, <1>7 DEF NoneMissed

-----------------------------------------------------------------------------
(* The two outcomes of a send and of a receive. *)
Delivers(p, d, b) ==
  /\ op[p] = Ready /\ AwaitsMessageOf(op[d], p)
  /\ op'  = [op EXCEPT ![d] = Ready]
  /\ buf' = [buf EXCEPT ![d] = Message(p, b)]
  /\ ret' = [ret EXCEPT ![d] = "ok", ![p] = "ok"]

SendBlocks(p, d, b) ==
  /\ op[p] = Ready /\ ~AwaitsMessageOf(op[d], p)
  /\ op'  = [op EXCEPT ![p] = Sending(d, Message(p, b))]
  /\ ret' = [ret EXCEPT ![p] = "call"]
  /\ buf' = buf

Takes(p, f, q) ==
  /\ op[p] = Ready /\ OffersMessageTo(op[q], p) /\ Passes(f, q)
  /\ op'  = [op EXCEPT ![q] = Ready]
  /\ buf' = [buf EXCEPT ![p] = op[q].msg]
  /\ ret' = [ret EXCEPT ![p] = "ok", ![q] = "ok"]

RecvBlocks(p, f) ==
  /\ op[p] = Ready
  /\ \A q \in Programs : Passes(f, q) => ~OffersMessageTo(op[q], p)
  /\ op'  = [op EXCEPT ![p] = Receiving(f)]
  /\ ret' = [ret EXCEPT ![p] = "call"]
  /\ buf' = buf

(* A send meets a receiver that waits, or blocks the sender (sys_send). *)
LEMMA SendOutcomes ==
  \A p, d, b : Send(p, d, b) => Delivers(p, d, b) \/ SendBlocks(p, d, b)
BY DEF Send, Ipc!SendMeets, Ipc!SendWaits, Delivers, SendBlocks, Ipc!Ready, Ready,
       Ipc!AwaitsMessageOf, AwaitsMessageOf, Ipc!Message, Message, Ipc!Sending, Sending, Ipc!Anybody

(* A receive takes the message of a waiting sender, or blocks the receiver *)
(* (sys_recv).                                                             *)
LEMMA RecvOutcomes ==
  \A p, f : Recv(p, f) => (\E q \in Programs : Takes(p, f, q)) \/ RecvBlocks(p, f)
BY DEF Recv, TakeFirst, Candidates, Ipc!RecvMeets, Ipc!RecvWaits, Takes, RecvBlocks, Ipc!Ready, Ready,
       Ipc!OffersMessageTo, OffersMessageTo, Ipc!Passes, Passes, Ipc!Receiving, Receiving, Ipc!Anybody

(* A poll (sys_try_recv) takes a message or returns an error, and blocks   *)
(* in neither case.                                                        *)
LEMMA PollOutcomes ==
  \A p, f : TryRecv(p, f) => \/ \E q \in Programs : Takes(p, f, q)
                             \/ UNCHANGED <<op, buf>> /\ ret' = [ret EXCEPT ![p] = "err"]
BY DEF TryRecv, TakeFirst, Candidates, Ipc!RecvMeets, Takes, Ipc!Ready, Ready,
       Ipc!OffersMessageTo, OffersMessageTo, Ipc!Passes, Passes, Ipc!Anybody

USE DEF At, Got, Goto, Forget, Sending, Receiving, Ready, Message, OffersMessageTo, AwaitsMessageOf, Passes,
        ShellBlocked, FsBlocked, AtaBlocked, InputBlocked, GuiBlocked

(* A send keeps the types, and leaves no matching send and receive that    *)
(* both wait.                                                              *)
LEMMA SendSafe ==
  ASSUME Inv, NEW p \in Programs, NEW d \in Programs, NEW b \in Bodies,
         Delivers(p, d, b) \/ SendBlocks(p, d, b)
  PROVE  CallTypes' /\ NoneMissed'
<1> USE DEF Inv, CallTypes, Ipc!AllMessages, Kinds, RaxValues
<1>1. CASE Delivers(p, d, b)
  <2>1. CallTypes'
    BY <1>1 DEF Delivers
  <2>2. NoneMissed'
    BY <1>1 DEF Delivers, NoneMissed
  <2> QED
    BY <2>1, <2>2
<1>2. CASE SendBlocks(p, d, b)
  <2>1. CallTypes'
    BY <1>2 DEF SendBlocks
  <2>2. NoneMissed'
    BY <1>2 DEF SendBlocks, NoneMissed
  <2> QED
    BY <2>1, <2>2
<1> QED
  BY <1>1, <1>2

(* So does a receive. *)
LEMMA RecvSafe ==
  ASSUME Inv, NEW p \in Programs, NEW f \in 0 .. 5, NEW q \in Programs,
         Takes(p, f, q) \/ RecvBlocks(p, f)
  PROVE  CallTypes' /\ NoneMissed'
<1> USE DEF Inv, CallTypes, Ipc!AllMessages, Kinds, RaxValues
<1>1. CASE Takes(p, f, q)
  <2>1. CallTypes'
    BY <1>1 DEF Takes
  <2>2. NoneMissed'
    BY <1>1 DEF Takes, NoneMissed
  <2> QED
    BY <2>1, <2>2
<1>2. CASE RecvBlocks(p, f)
  <2>1. CallTypes'
    BY <1>2 DEF RecvBlocks
  <2>2. NoneMissed'
    BY <1>2 DEF RecvBlocks, NoneMissed
  <2> QED
    BY <2>1, <2>2
<1> QED
  BY <1>1, <1>2

(* Only the shell has requests with the file system server, and only it    *)
(* and the shell with the ATA server.                                      *)
LEMMA WhoAsks ==
  ASSUME Inv
  PROVE  /\ \A p \in Programs : HasRequestOf(Fs, p) => p = Shell
         /\ \A p \in Programs : HasRequestOf(Ata, p) => p \in Clients
BY DEF Inv, InStep, AwaitsReplyOf, Places

(* What requests, replies and input events look like. *)
LEMMA Bodily ==
  /\ AtaRequests \subseteq Bodies /\ Replies \subseteq Bodies /\ InputBodies \subseteq Bodies
  /\ \A k \in Keys : Key(k) \in Bodies
  /\ RequestsTo(Fs) \subseteq Bodies /\ RequestsTo(Ata) = AtaRequests
  /\ \A b \in RequestsTo(Fs) : b.type \in {"list", "read"}
  /\ \A b \in RequestsTo(Ata) : b.type = "ata" /\ b.arg \in Sectors
  /\ \A k \in Keys : Key(k).type = "key"
  /\ \A b \in InputBodies : b = Body("mouse") \/ \E k \in Keys : b = Key(k)
  /\ Body("mouse").type = "mouse"
  /\ \A lba \in Sectors : AtaRead(lba) \in AtaRequests
  /\ \A good : Status(good) \in Replies
BY DEF AtaRequests, AtaRead, Replies, InputBodies, Key, Body, Bodies, RequestsTo, Status

(* What a server that waits for a request may be sent: requests, and keys  *)
(* of the window it owns.                                                  *)
LEMMA OfferedLetters ==
  ASSUME Inv, NEW s \in {Fs, Ata}, At(s, "loop"), NEW q \in Programs, OffersMessageTo(op[q], s)
  PROVE  \E b \in RequestsTo(s) \union {Key(k) : k \in Keys} : op[q].msg = Message(q, b)
<1> USE DEF Inv
<1>1. op[q] # Ready
  OBVIOUS
<1>2. ~(s = Fs /\ q = Ata)
  <2> SUFFICES ASSUME s = Fs, q = Ata PROVE FALSE
    OBVIOUS
  <2>1. HasRequestOf(Ata, Fs)
    BY <1>1 DEF Waits, HasRequestOf
  <2> QED
    BY <2>1 DEF InStep, AwaitsReplyOf
<1>3. q \notin {Ata, Input}
  <2>1. ASSUME q = Input PROVE FALSE
    <3>1. PICK b \in InputBodies : op[Input] = Sending(Gui, Message(Input, b))
      BY <1>1, <2>1 DEF Waits
    <3> QED
      BY <2>1, <3>1
  <2>2. ASSUME q = Ata PROVE FALSE
    <3>1. PICK c \in Clients, b \in Replies : op[Ata] = Sending(c, Message(Ata, b))
      BY <1>1, <2>2 DEF Waits
    <3>2. s = c
      BY <2>2, <3>1
    <3> QED
      BY <1>2, <2>2, <3>2
  <2> QED
    BY <2>1, <2>2
<1>4. CASE q = Shell
  <2>1. op[q] = Sending(job.to, Message(Shell, job.body))
    BY <1>1, <1>4 DEF Waits
  <2> QED
    BY <1>4, <2>1 DEF JobOK
<1>5. CASE q = Fs
  <2>1. op[Fs].kind = "sending" /\ op[Fs].peer = s
    BY <1>5
  <2>2. FsBlocked
    BY <1>1, <1>5 DEF Waits
  <2>3. ASSUME NEW b \in Replies, op[Fs] = Sending(Shell, Message(Fs, b)) PROVE FALSE
    BY <2>1, <2>3
  <2>4. op[Fs] # Receiving(Anybody) /\ op[Fs] # Receiving(Ata)
    BY <2>1
  <2>5. op[q] = Sending(Ata, Message(Fs, AtaRead(want)))
    BY <1>5, <2>2, <2>3, <2>4
  <2>6. s = Ata
    BY <2>5
  <2>7. AtaRead(want) \in RequestsTo(Ata)
    BY Bodily DEF DataTypes
  <2> QED
    BY <1>5, <2>5, <2>6, <2>7
<1>6. CASE q = Gui
  <2>1. PICK d \in Owners, k \in Keys : op[q] = Sending(d, Message(Gui, Key(k)))
    BY <1>1, <1>6 DEF Waits
  <2>2. op[q].msg = Message(q, Key(k))
    BY <1>6, <2>1
  <2>3. Key(k) \in {Key(j) : j \in Keys}
    OBVIOUS
  <2> QED
    BY <2>2, <2>3
<1>7. q \in {Shell, Fs, Gui}
  BY <1>3
<1> QED
  BY <1>4, <1>5, <1>6, <1>7

(* A step that brings no server a message leaves their letters as they are. *)
LEMMA LettersKept ==
  ASSUME Letters,
         \A s \in {Fs, Ata} : At(s, "got")' => At(s, "got") /\ buf'[s] = buf[s],
         pc'[Gui] = "polled" => pc[Gui] = "polled" /\ ret'[Gui] = ret[Gui] /\ buf'[Gui] = buf[Gui]
  PROVE  Letters'
BY DEF Letters

-----------------------------------------------------------------------------
(* One lemma per action: it keeps the invariant. *)

(* Steps of the shell without a system call that blocks. *)
LEMMA ShellAloneOK ==
  ASSUME Inv,
         ShellEdits \/ ShellStartsCommand \/ ShellGoesOn
  PROVE  Inv'
<1> USE DEF Inv, ShellEdits, ShellStartsCommand, ShellGoesOn, fsVars, ipcVars
<1>1. Places'
  BY DEF Places, Labels
<1>2. Waits'
  BY DEF Waits, Places, CallTypes
<1>3. NoneMissed'
  BY DEF NoneMissed
<1>4. InStep'
  BY DEF InStep, HasRequestOf, AwaitsReplyOf, Places, CallTypes, Working
<1>5. Letters'
  <2>1. \A s \in {Fs, Ata} : At(s, "got")' => At(s, "got") /\ buf'[s] = buf[s]
    BY DEF Places, CallTypes
  <2>2. pc'[Gui] = "polled" => pc[Gui] = "polled" /\ ret'[Gui] = ret[Gui] /\ buf'[Gui] = buf[Gui]
    BY DEF Places, CallTypes
  <2> QED
    BY <2>1, <2>2, LettersKept
<1>6. JobOK'
  BY Bodily DEF JobOK, Requests, NoJob, RequestsTo, Sectors
<1>7. DataTypes'
  BY Bodily, ServersAssumption DEF DataTypes, Sectors, Contents, Requests, NoJob, RequestsTo, AtaRequests
<1>8. CallTypes'
  BY DEF CallTypes, RaxValues
<1> QED
  BY <1>1, <1>2, <1>3, <1>4, <1>5, <1>6, <1>7, <1>8

(* The file system server goes on to the next directory entry. *)
LEMMA FsScansEntryOK ==
  ASSUME Inv,
         FsScansEntry
  PROVE  Inv'
<1> USE DEF Inv, FsScansEntry, fsVars, ipcVars
<1>1. Places'
  BY DEF Places, Labels
<1>2. Waits'
  BY DEF Waits, Places, CallTypes
<1>3. NoneMissed'
  BY DEF NoneMissed
<1>4. InStep'
  BY DEF InStep, HasRequestOf, AwaitsReplyOf, Places, CallTypes, Working
<1>5. Letters'
  <2>1. \A s \in {Fs, Ata} : At(s, "got")' => At(s, "got") /\ buf'[s] = buf[s]
    BY DEF Places, CallTypes
  <2>2. pc'[Gui] = "polled" => pc[Gui] = "polled" /\ ret'[Gui] = ret[Gui] /\ buf'[Gui] = buf[Gui]
    BY DEF Places, CallTypes
  <2> QED
    BY <2>1, <2>2, LettersKept
<1>6. JobOK'
  BY DEF JobOK
<1>7. DataTypes'
  BY ServersAssumption DEF DataTypes, Sectors, Contents
<1>8. CallTypes'
  BY DEF CallTypes, RaxValues
<1> QED
  BY <1>1, <1>2, <1>3, <1>4, <1>5, <1>6, <1>7, <1>8

(* The ATA server drops a message that is no request. *)
LEMMA AtaDropsOK ==
  ASSUME Inv,
         AtaDrops
  PROVE  Inv'
<1> USE DEF Inv, AtaDrops, fsVars, ipcVars
<1>1. Places'
  BY DEF Places, Labels
<1>2. Waits'
  BY DEF Waits, Places, CallTypes
<1>3. NoneMissed'
  BY DEF NoneMissed
<1>4. InStep'
  BY Bodily DEF InStep, HasRequestOf, AwaitsReplyOf, Places, CallTypes, Letters, Working, JobOK
<1>5. Letters'
  <2>1. \A s \in {Fs, Ata} : At(s, "got")' => At(s, "got") /\ buf'[s] = buf[s]
    BY DEF Places, CallTypes
  <2>2. pc'[Gui] = "polled" => pc[Gui] = "polled" /\ ret'[Gui] = ret[Gui] /\ buf'[Gui] = buf[Gui]
    BY DEF Places, CallTypes
  <2> QED
    BY <2>1, <2>2, LettersKept
<1>6. JobOK'
  BY DEF JobOK
<1>7. DataTypes'
  BY DEF DataTypes
<1>8. CallTypes'
  BY DEF CallTypes, RaxValues
<1> QED
  BY <1>1, <1>2, <1>3, <1>4, <1>5, <1>6, <1>7, <1>8

(* The input server without a send, and the interrupt handlers. *)
LEMMA InputAloneOK ==
  ASSUME Inv,
         InputSkips \/ InputYields \/ Interrupt
  PROVE  Inv'
<1> USE DEF Inv, InputSkips, InputYields, Interrupt, fsVars, ipcVars
<1>1. Places'
  BY DEF Places, Labels
<1>2. Waits'
  BY DEF Waits, Places, CallTypes
<1>3. NoneMissed'
  BY DEF NoneMissed
<1>4. InStep'
  BY DEF InStep, HasRequestOf, AwaitsReplyOf, Places, CallTypes, Working
<1>5. Letters'
  <2>1. \A s \in {Fs, Ata} : At(s, "got")' => At(s, "got") /\ buf'[s] = buf[s]
    BY DEF Places, CallTypes
  <2>2. pc'[Gui] = "polled" => pc[Gui] = "polled" /\ ret'[Gui] = ret[Gui] /\ buf'[Gui] = buf[Gui]
    BY DEF Places, CallTypes
  <2> QED
    BY <2>1, <2>2, LettersKept
<1>6. JobOK'
  BY DEF JobOK
<1>7. DataTypes'
  BY ServersAssumption DEF DataTypes, Sectors, Contents
<1>8. CallTypes'
  BY DEF CallTypes, RaxValues
<1> QED
  BY <1>1, <1>2, <1>3, <1>4, <1>5, <1>6, <1>7, <1>8

(* The GUI server between two calls. *)
LEMMA GuiAloneOK ==
  ASSUME Inv,
         GuiSwitchesWindow \/ GuiHasNoWindow \/ GuiDraws
  PROVE  Inv'
<1> USE DEF Inv, GuiSwitchesWindow, GuiHasNoWindow, GuiDraws, fsVars, ipcVars
<1>1. Places'
  BY DEF Places, Labels
<1>2. Waits'
  BY DEF Waits, Places, CallTypes
<1>3. NoneMissed'
  BY DEF NoneMissed
<1>4. InStep'
  BY DEF InStep, HasRequestOf, AwaitsReplyOf, Places, CallTypes, Working
<1>5. Letters'
  <2>1. \A s \in {Fs, Ata} : At(s, "got")' => At(s, "got") /\ buf'[s] = buf[s]
    BY DEF Places, CallTypes
  <2>2. pc'[Gui] = "polled" => pc[Gui] = "polled" /\ ret'[Gui] = ret[Gui] /\ buf'[Gui] = buf[Gui]
    BY DEF Places, CallTypes
  <2> QED
    BY <2>1, <2>2, LettersKept
<1>6. JobOK'
  BY DEF JobOK
<1>7. DataTypes'
  BY DEF DataTypes
<1>8. CallTypes'
  BY DEF CallTypes, RaxValues
<1> QED
  BY <1>1, <1>2, <1>3, <1>4, <1>5, <1>6, <1>7, <1>8

(* The file system server uses a sector, gives up on one, or ends its      *)
(* scan; its client, in whose buffer it may write, is the shell.           *)
LEMMA FsReadingOK == ASSUME Inv, FsHasSector \/ FsHasError \/ FsScanEnds PROVE Inv'
<1> USE DEF Inv, FsHasSector, FsHasError, FsScanEnds, fsVars, ipcVars, FsReads, FsEnds, FsScans, FsWrites
<1>1. Places'
  BY DEF Places, Labels
<1>2. Waits'
  BY DEF Waits, Places, CallTypes
<1>3. NoneMissed'
  BY DEF NoneMissed
<1>4. InStep'
  BY DEF InStep, HasRequestOf, AwaitsReplyOf, Places, CallTypes, Working
<1>5. Letters'
  <2>1. \A s \in {Fs, Ata} : At(s, "got")' => At(s, "got") /\ buf'[s] = buf[s]
    BY DEF Places, CallTypes
  <2>2. pc'[Gui] = "polled" => pc[Gui] = "polled" /\ ret'[Gui] = ret[Gui] /\ buf'[Gui] = buf[Gui]
    BY DEF Places, CallTypes
  <2> QED
    BY <2>1, <2>2, LettersKept
<1>6. JobOK'
  BY DEF JobOK
<1>7. CallTypes'
  BY DEF CallTypes, RaxValues
<1>8. client[Fs] = Shell
  BY WhoAsks DEF HasRequestOf, DataTypes, Working
<1>9. mem' \in [Clients -> Contents] /\ outcome' \in [{Fs, Ata} -> BOOLEAN]
  <2>1. \A v \in Contents : [[mem EXCEPT ![Fs] = "blank"] EXCEPT ![Shell] = v] \in [Clients -> Contents]
    BY DEF DataTypes, Contents
  <2>2. mem \in [Clients -> Contents] /\ {"listing", "file"} \subseteq Contents
    BY DEF DataTypes, Contents
  <2>3. outcome' = outcome \/ \E v \in BOOLEAN : outcome' = [outcome EXCEPT ![Fs] = v]
    OBVIOUS
  <2>4. outcome' \in [{Fs, Ata} -> BOOLEAN]
    <3>1. outcome \in [{Fs, Ata} -> BOOLEAN]
      BY DEF DataTypes
    <3> QED
      BY ONLY <2>3, <3>1
  <2> DEFINE v == IF pc'[Fs] # "answer" THEN mem[Shell]
                  ELSE IF task = "list" THEN "listing"
                  ELSE IF outcome'[Fs] THEN "file" ELSE mem[Shell]
  <2>5. v \in Contents
    BY <2>2
  <2>6. mem' = [[mem EXCEPT ![Fs] = "blank"] EXCEPT ![Shell] = v]
    BY <1>8, <2>2
  <2> HIDE DEF v
  <2>7. [[mem EXCEPT ![Fs] = "blank"] EXCEPT ![Shell] = v] \in [Clients -> Contents]
    BY ONLY <2>1, <2>5
  <2> QED
    BY <2>4, <2>6, <2>7
<1>10. DataTypes'
  BY <1>9 DEF DataTypes, Sectors
<1> QED
  BY <1>1, <1>2, <1>3, <1>4, <1>5, <1>6, <1>7, <1>10

(* The file system server takes a request, or drops a key: the sender of a *)
(* request is the shell, which awaits the reply.                           *)
LEMMA FsTakesRequestOK == ASSUME Inv, FsTakesRequest PROVE Inv'
<1> USE DEF Inv, FsTakesRequest, fsVars, ipcVars
<1>1. Places'
  BY DEF Places, Labels
<1>2. Waits'
  BY DEF Waits, Places, CallTypes
<1>3. NoneMissed'
  BY DEF NoneMissed
<1>4. InStep'
  BY Bodily DEF InStep, HasRequestOf, AwaitsReplyOf, Places, CallTypes, DataTypes,
         Waits, Letters, Working, JobOK
<1>5. Letters'
  <2>1. \A s \in {Fs, Ata} : At(s, "got")' => At(s, "got") /\ buf'[s] = buf[s]
    BY DEF Places, CallTypes
  <2>2. pc'[Gui] = "polled" => pc[Gui] = "polled" /\ ret'[Gui] = ret[Gui] /\ buf'[Gui] = buf[Gui]
    BY DEF Places, CallTypes
  <2> QED
    BY <2>1, <2>2, LettersKept
<1>6. JobOK'
  BY DEF JobOK
<1>7. CallTypes'
  BY DEF CallTypes, RaxValues
<1>8. Got(Fs).type \in {"list", "read"} => buf[Fs].sender \in Programs /\ Got(Fs) \in RequestsTo(Fs)
  <2>1. PICK q \in Programs, b \in RequestsTo(Fs) \union {Key(k) : k \in Keys} : buf[Fs] = Message(q, b)
    BY DEF Letters
  <2>2. b \in RequestsTo(Fs) \/ b.type = "key"
    BY Bodily
  <2> QED
    BY <2>1, <2>2
<1>9. Got(Fs).type \in {"list", "read"} => HasRequestOf(Fs, buf[Fs].sender)
  BY <1>8 DEF HasRequestOf
<1>10. DataTypes'
  BY <1>8, <1>9, WhoAsks, Bodily DEF DataTypes, Contents
<1> QED
  BY <1>1, <1>2, <1>3, <1>4, <1>5, <1>6, <1>7, <1>10

(* The ATA server reads for the sender of the request it received. *)
LEMMA AtaReadsOK == ASSUME Inv, NEW good \in BOOLEAN, AtaReads(good) PROVE Inv'
<1> USE DEF Inv, AtaReads, fsVars, ipcVars
<1>1. Places'
  BY DEF Places, Labels
<1>2. Waits'
  BY DEF Waits, Places, CallTypes
<1>3. NoneMissed'
  BY DEF NoneMissed
<1>4. InStep'
  BY Bodily DEF InStep, HasRequestOf, AwaitsReplyOf, Places, CallTypes, DataTypes,
         Waits, Letters, Working, JobOK
<1>5. Letters'
  <2>1. \A s \in {Fs, Ata} : At(s, "got")' => At(s, "got") /\ buf'[s] = buf[s]
    BY DEF Places, CallTypes
  <2>2. pc'[Gui] = "polled" => pc[Gui] = "polled" /\ ret'[Gui] = ret[Gui] /\ buf'[Gui] = buf[Gui]
    BY DEF Places, CallTypes
  <2> QED
    BY <2>1, <2>2, LettersKept
<1>6. JobOK'
  BY DEF JobOK
<1>7. CallTypes'
  BY DEF CallTypes, RaxValues
<1>8. Got(Ata).type = "ata" => buf[Ata].sender \in Programs /\ Got(Ata) \in RequestsTo(Ata)
  <2>1. PICK q \in Programs, b \in RequestsTo(Ata) \union {Key(k) : k \in Keys} : buf[Ata] = Message(q, b)
    BY DEF Letters
  <2>2. b \in RequestsTo(Ata) \/ b.type = "key"
    BY Bodily
  <2> QED
    BY <2>1, <2>2
<1>9. Got(Ata).type = "ata" => HasRequestOf(Ata, buf[Ata].sender)
  BY <1>8 DEF HasRequestOf
<1>10. DataTypes'
  BY <1>8, <1>9, WhoAsks, Bodily DEF DataTypes, Contents
<1> QED
  BY <1>1, <1>2, <1>3, <1>4, <1>5, <1>6, <1>7, <1>10

(* The shell waits for a key. *)
LEMMA ShellWaitsForKeyOK == ASSUME Inv, ShellWaitsForKey PROVE Inv'
<1> USE DEF ShellWaitsForKey, fsVars
<1>1. Places'
  BY DEF Inv, Places, Labels
<1>2. JobOK'
  BY DEF Inv, JobOK
<1>3. DataTypes'
  BY DEF Inv, DataTypes
<1>4. Anybody \in 0 .. 5
  OBVIOUS
<1>5. PICK q \in Programs : Takes(Shell, Anybody, q) \/ RecvBlocks(Shell, Anybody)
  BY RecvOutcomes
<1>6. CallTypes' /\ NoneMissed'
  BY <1>4, <1>5, RecvSafe
<1> USE <1>4, <1>5, Bodily DEF Takes, RecvBlocks, Inv
<1>7. Waits'
  BY DEF Waits, Places, CallTypes
<1>8. InStep'
  BY DEF InStep, HasRequestOf, AwaitsReplyOf, Places, CallTypes, Waits, Working, JobOK
<1>9. Letters'
  BY SMTT(20) DEF Letters, Places, CallTypes, Waits
<1> QED
  BY <1>1, <1>2, <1>3, <1>6, <1>7, <1>8, <1>9

(* The shell sends its request: it, and nobody else, now has a request     *)
(* with that server.                                                       *)
LEMMA ShellAsksOK == ASSUME Inv, ShellAsks PROVE Inv'
<1> USE DEF ShellAsks, fsVars
<1>1. Places'
  BY DEF Inv, Places, Labels
<1>2. JobOK'
  BY DEF Inv, JobOK
<1>3. DataTypes'
  BY DEF Inv, DataTypes, Sectors, Contents
<1>4. job.to \in {Fs, Ata} /\ job.body \in Bodies /\ job.body \in RequestsTo(job.to)
  BY DEF Inv, DataTypes, JobOK
<1>5. Delivers(Shell, job.to, job.body) \/ SendBlocks(Shell, job.to, job.body)
  BY SendOutcomes
<1>6. CallTypes' /\ NoneMissed'
  BY <1>4, <1>5, SendSafe
<1>7. Letters'
  <2>1. CASE Delivers(Shell, job.to, job.body)
    BY <1>4, <2>1, Bodily DEF Inv, Delivers, Letters, Places, CallTypes, DataTypes, Waits, JobOK
  <2>2. CASE SendBlocks(Shell, job.to, job.body)
    BY <1>4, <2>2, Bodily DEF Inv, SendBlocks, Letters, Places, CallTypes, DataTypes, Waits, JobOK
  <2> QED
    BY <1>5, <2>1, <2>2
<1> USE <1>4, <1>5, Bodily DEF Delivers, SendBlocks, Inv
<1>8. Waits'
  BY DEF Waits, Places, CallTypes
<1>9. InStep'
  BY DEF InStep, HasRequestOf, AwaitsReplyOf, Places, CallTypes, Waits, Working, JobOK
<1> QED
  BY <1>1, <1>2, <1>3, <1>6, <1>7, <1>8, <1>9

(* The shell receives the reply of the server it asked, and then has no    *)
(* request with it any more.                                               *)
LEMMA ShellWaitsForReplyOK == ASSUME Inv, ShellWaitsForReply PROVE Inv'
<1> USE DEF ShellWaitsForReply, fsVars
<1>1. Places'
  BY DEF Inv, Places, Labels
<1>2. JobOK'
  BY DEF Inv, JobOK
<1>3. DataTypes'
  BY DEF Inv, DataTypes
<1>4. job.to \in {Fs, Ata}
  BY DEF Inv, JobOK
<1>5. PICK q \in Programs : Takes(Shell, job.to, q) \/ RecvBlocks(Shell, job.to)
  BY RecvOutcomes
<1>6. CallTypes' /\ NoneMissed'
  BY <1>4, <1>5, RecvSafe
<1> USE <1>4, <1>5, Bodily DEF Takes, RecvBlocks, Inv
<1>7. Waits'
  BY DEF Waits, Places, CallTypes
<1>8. InStep'
  BY DEF InStep, HasRequestOf, AwaitsReplyOf, Places, CallTypes, Waits, Working, JobOK
<1>9. Letters'
  BY DEF Letters, Places, CallTypes, Waits
<1> QED
  BY <1>1, <1>2, <1>3, <1>6, <1>7, <1>8, <1>9

(* The file system server waits for a message. *)
LEMMA FsWaitsForRequestOK == ASSUME Inv, FsWaitsForRequest PROVE Inv'
<1> USE DEF FsWaitsForRequest, fsVars
<1>1. Places'
  BY DEF Inv, Places, Labels
<1>2. JobOK'
  BY DEF Inv, JobOK
<1>3. DataTypes'
  BY DEF Inv, DataTypes
<1>4. Anybody \in 0 .. 5
  OBVIOUS
<1>5. PICK q \in Programs : Takes(Fs, Anybody, q) \/ RecvBlocks(Fs, Anybody)
  BY RecvOutcomes
<1>6. CallTypes' /\ NoneMissed'
  BY <1>4, <1>5, RecvSafe
<1>7. Letters'
  <2>1. CASE Takes(Fs, Anybody, q)
    <3>1. PICK b \in RequestsTo(Fs) \union {Key(k) : k \in Keys} : op[q].msg = Message(q, b)
      BY <2>1, OfferedLetters DEF Takes
    <3>2. buf' = [buf EXCEPT ![Fs] = Message(q, b)] /\ op' = [op EXCEPT ![q] = Ready]
      BY <2>1, <3>1 DEF Takes
    <3>3. q # Ata => op'[Ata] = op[Ata]
      BY <3>2 DEF Inv, CallTypes
    <3>4. At(Ata, "got")' => At(Ata, "got") /\ buf'[Ata] = buf[Ata]
      BY <2>1, <3>2 DEF Inv, CallTypes, Places, Waits, Takes
    <3>5. pc'[Gui] = "polled" => pc[Gui] = "polled" /\ ret'[Gui] = ret[Gui] /\ buf'[Gui] = buf[Gui]
      BY <2>1 DEF Inv, CallTypes, Places, Waits, Takes
    <3>6. buf'[Fs] = Message(q, b)
      BY <3>2 DEF Inv, CallTypes
    <3> QED
      BY <3>4, <3>5, <3>6, ZenonT(40) DEF Inv, Letters
  <2>2. CASE RecvBlocks(Fs, Anybody)
    BY <1>4, <2>2, Bodily DEF Inv, RecvBlocks, Letters, Places, CallTypes, DataTypes, Waits, JobOK
  <2> QED
    BY <1>5, <2>1, <2>2
<1> USE <1>4, <1>5, Bodily DEF Takes, RecvBlocks, Inv
<1>8. Waits'
  BY DEF Waits, Places, CallTypes
<1>9. InStep'
  BY DEF InStep, HasRequestOf, AwaitsReplyOf, Places, CallTypes, Waits, Working, JobOK
<1> QED
  BY <1>1, <1>2, <1>3, <1>6, <1>7, <1>8, <1>9

(* fs_read_sector sends its request to the ATA server. *)
LEMMA FsAsksOK == ASSUME Inv, FsAsks PROVE Inv'
<1> USE DEF FsAsks, fsVars
<1>1. Places'
  BY DEF Inv, Places, Labels
<1>2. JobOK'
  BY DEF Inv, JobOK
<1>3. DataTypes'
  BY DEF Inv, DataTypes, Sectors, Contents
<1>4. AtaRead(want) \in AtaRequests /\ AtaRead(want) \in Bodies
  BY Bodily DEF Inv, DataTypes
<1>5. Delivers(Fs, Ata, AtaRead(want)) \/ SendBlocks(Fs, Ata, AtaRead(want))
  BY SendOutcomes
<1>6. CallTypes' /\ NoneMissed'
  BY <1>4, <1>5, SendSafe
<1> USE <1>4, <1>5, Bodily DEF Delivers, SendBlocks, Inv
<1>7. Waits'
  BY DEF Waits, Places, CallTypes
<1>8. InStep'
  BY DEF InStep, HasRequestOf, AwaitsReplyOf, Places, CallTypes, Waits, Working, JobOK
<1>9. Letters'
  BY DEF Letters, Places, CallTypes
<1> QED
  BY <1>1, <1>2, <1>3, <1>6, <1>7, <1>8, <1>9

(* fs_read_sector receives the reply, of task 3 only. *)
LEMMA FsWaitsForSectorOK == ASSUME Inv, FsWaitsForSector PROVE Inv'
<1> USE DEF FsWaitsForSector, fsVars
<1>1. Places'
  BY DEF Inv, Places, Labels
<1>2. JobOK'
  BY DEF Inv, JobOK
<1>3. DataTypes'
  BY DEF Inv, DataTypes
<1>4. Ata \in 0 .. 5
  OBVIOUS
<1>5. PICK q \in Programs : Takes(Fs, Ata, q) \/ RecvBlocks(Fs, Ata)
  BY RecvOutcomes
<1>6. CallTypes' /\ NoneMissed'
  BY <1>4, <1>5, RecvSafe
<1> USE <1>4, <1>5, Bodily DEF Takes, RecvBlocks, Inv
<1>7. Waits'
  BY DEF Waits, Places, CallTypes
<1>8. InStep'
  BY DEF InStep, HasRequestOf, AwaitsReplyOf, Places, CallTypes, Waits, Working, JobOK
<1>9. Letters'
  BY DEF Letters, Places, CallTypes, Waits
<1> QED
  BY <1>1, <1>2, <1>3, <1>6, <1>7, <1>8, <1>9

(* The file system server replies to the shell, which awaits it. *)
LEMMA FsAnswersOK == ASSUME Inv, FsAnswers PROVE Inv'
<1> USE DEF FsAnswers, fsVars
<1>1. Places'
  BY DEF Inv, Places, Labels
<1>2. JobOK'
  BY DEF Inv, JobOK
<1>3. DataTypes'
  <2>1. task' \in {"list", "read"} /\ want' \in Sectors \ {"mbr"} /\ ioError' \in BOOLEAN
    BY DEF Sectors
  <2>2. entries' \in 0 .. MaxEntries
    BY ServersAssumption
  <2>3. client' \in [{Fs, Ata} -> Clients] /\ outcome' \in [{Fs, Ata} -> BOOLEAN]
    BY DEF Inv, DataTypes
  <2> QED
    BY <2>1, <2>2, <2>3 DEF Inv, DataTypes
<1>4. client[Fs] = Shell /\ Status(outcome[Fs]) \in Replies /\ Status(outcome[Fs]) \in Bodies
  <2>1. client[Fs] = Shell
    BY WhoAsks DEF Inv, HasRequestOf, DataTypes, Working
  <2> QED
    BY <2>1, Bodily
<1>5. Delivers(Fs, client[Fs], Status(outcome[Fs])) \/ SendBlocks(Fs, client[Fs], Status(outcome[Fs]))
  BY SendOutcomes
<1>6. CallTypes' /\ NoneMissed'
  BY <1>4, <1>5, SendSafe
<1> USE <1>4, <1>5, Bodily DEF Delivers, SendBlocks, Inv
<1>7. Waits'
  BY DEF Waits, Places, CallTypes
<1>8. InStep'
  BY DEF InStep, HasRequestOf, AwaitsReplyOf, Places, CallTypes, Working
<1>9. Letters'
  BY DEF Letters, Places, CallTypes
<1> QED
  BY <1>1, <1>2, <1>3, <1>6, <1>7, <1>8, <1>9

(* The ATA server waits for a message. *)
LEMMA AtaWaitsForRequestOK == ASSUME Inv, AtaWaitsForRequest PROVE Inv'
<1> USE DEF AtaWaitsForRequest, fsVars
<1>1. Places'
  BY DEF Inv, Places, Labels
<1>2. JobOK'
  BY DEF Inv, JobOK
<1>3. DataTypes'
  BY DEF Inv, DataTypes
<1>4. Anybody \in 0 .. 5
  OBVIOUS
<1>5. PICK q \in Programs : Takes(Ata, Anybody, q) \/ RecvBlocks(Ata, Anybody)
  BY RecvOutcomes
<1>6. CallTypes' /\ NoneMissed'
  BY <1>4, <1>5, RecvSafe
<1> USE <1>4, <1>5, Bodily DEF Takes, RecvBlocks, Inv
<1>7. Waits'
  BY DEF Waits, Places, CallTypes
<1>8. InStep'
  BY DEF InStep, HasRequestOf, AwaitsReplyOf, Places, CallTypes, DataTypes,
         Waits, Letters, Working, JobOK
<1>9. Letters'
  BY DEF Letters, Places, CallTypes, DataTypes, Waits, JobOK
<1> QED
  BY <1>1, <1>2, <1>3, <1>6, <1>7, <1>8, <1>9

(* The ATA server replies to its client, which awaits it. *)
LEMMA AtaAnswersOK == ASSUME Inv, AtaAnswers PROVE Inv'
<1> USE DEF AtaAnswers, fsVars
<1>1. Places'
  BY DEF Inv, Places, Labels
<1>2. JobOK'
  BY DEF Inv, JobOK
<1>3. DataTypes'
  BY DEF Inv, DataTypes
<1>4. client[Ata] \in Clients /\ Status(outcome[Ata]) \in Replies /\ Status(outcome[Ata]) \in Bodies
  BY Bodily DEF Inv, DataTypes
<1>5. Delivers(Ata, client[Ata], Status(outcome[Ata])) \/ SendBlocks(Ata, client[Ata], Status(outcome[Ata]))
  BY SendOutcomes
<1>6. CallTypes' /\ NoneMissed'
  BY <1>4, <1>5, SendSafe
<1>7. Letters'
  <2>1. CASE Delivers(Ata, client[Ata], Status(outcome[Ata]))
    BY <1>4, <2>1, Bodily DEF Inv, Delivers, Letters, Places, CallTypes, DataTypes,
       InStep, HasRequestOf, AwaitsReplyOf, Working
  <2>2. CASE SendBlocks(Ata, client[Ata], Status(outcome[Ata]))
    BY <1>4, <2>2, Bodily DEF Inv, SendBlocks, Letters, Places, CallTypes, DataTypes, Waits, JobOK
  <2> QED
    BY <1>5, <2>1, <2>2
<1> USE <1>4, <1>5, Bodily DEF Delivers, SendBlocks, Inv
<1>8. Waits'
  BY DEF Waits, Places, CallTypes
<1>9. InStep'
  BY DEF InStep, HasRequestOf, AwaitsReplyOf, Places, CallTypes, Working
<1> QED
  BY <1>1, <1>2, <1>3, <1>6, <1>7, <1>8, <1>9

(* The input server passes an event to the GUI. *)
LEMMA InputSendsOK == ASSUME Inv, NEW b \in InputBodies, InputSends(b) PROVE Inv'
<1> USE DEF InputSends, fsVars
<1>1. Places'
  BY DEF Inv, Places, Labels
<1>2. JobOK'
  BY DEF Inv, JobOK
<1>3. DataTypes'
  BY ServersAssumption DEF Inv, DataTypes, Sectors, Contents
<1>4. b \in Bodies
  BY Bodily
<1>5. Delivers(Input, Gui, b) \/ SendBlocks(Input, Gui, b)
  BY SendOutcomes
<1>6. CallTypes' /\ NoneMissed'
  BY <1>4, <1>5, SendSafe
<1>7. Letters'
  <2>1. CASE Delivers(Input, Gui, b)
    BY <1>4, <2>1, Bodily DEF Inv, Delivers, Letters, Places, CallTypes, DataTypes, Waits, JobOK
  <2>2. CASE SendBlocks(Input, Gui, b)
    BY <1>4, <2>2, Bodily DEF Inv, SendBlocks, Letters, Places, CallTypes, DataTypes, Waits, JobOK
  <2> QED
    BY <1>5, <2>1, <2>2
<1> USE <1>4, <1>5, Bodily DEF Delivers, SendBlocks, Inv
<1>8. Waits'
  BY DEF Waits, Places, CallTypes
<1>9. InStep'
  BY DEF InStep, HasRequestOf, AwaitsReplyOf, Places, CallTypes, Working
<1> QED
  BY <1>1, <1>2, <1>3, <1>6, <1>7, <1>8, <1>9

(* The GUI passes a key to the owner of the active window, one of the      *)
(* shell and the two servers.                                              *)
LEMMA GuiForwardsOK == ASSUME Inv, GuiForwards PROVE Inv'
<1> USE DEF GuiForwards, fsVars
<1>1. Places'
  BY DEF Inv, Places, Labels
<1>2. JobOK'
  BY DEF Inv, JobOK
<1>3. DataTypes'
  BY DEF Inv, DataTypes
<1>4. /\ active \in Owners /\ active \in {Shell, Fs, Ata}
      /\ Got(Gui) \in Bodies /\ \E k \in Keys : Got(Gui) = Key(k)
      /\ Got(Gui) \in {Key(k) : k \in Keys}
  <2>1. active \in Owners
    BY DEF Inv, DataTypes
  <2>2. active \in {Shell, Fs, Ata}
    BY <2>1, ServersAssumption
  <2>3. PICK b \in InputBodies : buf[Gui] = Message(Input, b)
    BY DEF Inv, Letters
  <2>4. PICK k \in Keys : b = Key(k)
    BY <2>3, Bodily
  <2> QED
    BY <2>1, <2>2, <2>3, <2>4, Bodily
<1>5. Delivers(Gui, active, Got(Gui)) \/ SendBlocks(Gui, active, Got(Gui))
  BY SendOutcomes
<1>6. CallTypes' /\ NoneMissed'
  BY <1>4, <1>5, SendSafe
<1>7. Letters'
  <2>1. CASE Delivers(Gui, active, Got(Gui))
    <3>1. buf'[active] = Message(Gui, Got(Gui)) /\ pc'[Gui] = "loop" /\ Gui \in Programs
      BY <1>4, <2>1 DEF Inv, Places, CallTypes, Delivers
    <3>2. \A s \in {Fs, Ata} : s # active => buf'[s] = buf[s] /\ op'[s] = op[s]
      BY <1>4, <2>1 DEF Inv, CallTypes, Delivers
    <3>3. \A s \in {Fs, Ata} : pc'[s] = pc[s] /\ op[active] # Ready
      BY <2>1 DEF Inv, Places, Delivers
    <3>4. \A s \in {Fs, Ata} : At(s, "got")' =>
            \E q \in Programs : \E b \in RequestsTo(s) \union {Key(k) : k \in Keys} : buf'[s] = Message(q, b)
      <4> TAKE s \in {Fs, Ata}
      <4>1. CASE s = active
        BY <1>4, <2>1, <3>1, <4>1
      <4>2. CASE s # active
        <5>1. At(s, "got")' => At(s, "got")
          BY <3>2, <3>3, <4>2
        <5>2. buf'[s] = buf[s]
          BY <3>2, <4>2
        <5> QED
          BY <5>1, <5>2 DEF Inv, Letters
      <4> QED
        BY <4>1, <4>2
    <3> QED
      BY <3>1, <3>4 DEF Letters, RequestsTo, AtaRequests
  <2>2. CASE SendBlocks(Gui, active, Got(Gui))
    BY <1>4, <2>2, Bodily DEF Inv, SendBlocks, Letters, Places, CallTypes, DataTypes, Waits, JobOK
  <2> QED
    BY <1>5, <2>1, <2>2
<1> USE <1>4, <1>5, Bodily DEF Delivers, SendBlocks, Inv
<1>8. Waits'
  BY DEF Waits, Places, CallTypes
<1>9. InStep'
  BY DEF InStep, HasRequestOf, AwaitsReplyOf, Places, CallTypes, Waits, Working, JobOK
<1> QED
  BY <1>1, <1>2, <1>3, <1>6, <1>7, <1>8, <1>9

(* Whom a blocked program waits for. *)
LEMMA Peers ==
  ASSUME Inv
  PROVE  /\ op[Shell] # Ready => op[Shell].peer \in {Anybody, Fs, Ata}
         /\ op[Fs] # Ready => op[Fs].peer \in {Anybody, Ata, Shell}
         /\ op[Ata] # Ready => op[Ata].peer \in {Anybody, Shell, Fs}
         /\ op[Input] # Ready => op[Input].peer = Gui
         /\ op[Gui] # Ready => op[Gui].peer \in {Shell, Fs, Ata}
<1> USE DEF Inv, Waits
<1>1. op[Shell] # Ready => op[Shell].peer \in {Anybody, Fs, Ata}
  BY DEF JobOK
<1>2. ASSUME op[Fs] # Ready PROVE op[Fs].peer \in {Anybody, Ata, Shell}
  <2>1. CASE \/ op[Fs] = Receiving(Anybody) \/ op[Fs] = Receiving(Ata)
             \/ op[Fs] = Sending(Ata, Message(Fs, AtaRead(want)))
    BY <2>1
  <2>2. CASE \E b \in Replies : op[Fs] = Sending(Shell, Message(Fs, b))
    <3>1. PICK b \in Replies : op[Fs] = Sending(Shell, Message(Fs, b))
      BY <2>2
    <3> QED
      BY <3>1
  <2>3. FsBlocked
    BY <1>2
  <2> QED
    BY <2>1, <2>2, <2>3
<1>3. ASSUME op[Ata] # Ready PROVE op[Ata].peer \in {Anybody, Shell, Fs}
  <2>1. CASE op[Ata] = Receiving(Anybody)
    BY <2>1
  <2>2. CASE \E c \in Clients, b \in Replies : op[Ata] = Sending(c, Message(Ata, b))
    <3>1. PICK c \in Clients, b \in Replies : op[Ata] = Sending(c, Message(Ata, b))
      BY <2>2
    <3> QED
      BY <3>1
  <2>3. AtaBlocked
    BY <1>3
  <2> QED
    BY <2>1, <2>2, <2>3
<1>4. ASSUME op[Input] # Ready PROVE op[Input].peer = Gui
  <2>1. PICK b \in InputBodies : op[Input] = Sending(Gui, Message(Input, b))
    BY <1>4
  <2> QED
    BY <2>1
<1>5. ASSUME op[Gui] # Ready PROVE op[Gui].peer \in {Shell, Fs, Ata}
  <2>1. PICK d \in Owners, k \in Keys : op[Gui] = Sending(d, Message(Gui, Key(k)))
    BY <1>5
  <2>2. op[Gui].peer = d
    BY <2>1
  <2> QED
    BY <2>2, ServersAssumption
<1> QED
  BY <1>1, <1>2, <1>3, <1>4, <1>5

(* Nobody but the input server sends to the GUI. *)
LEMMA OnlyInputCallsGui ==
  ASSUME Inv, NEW q \in Programs, OffersMessageTo(op[q], Gui)
  PROVE  q = Input /\ \E b \in InputBodies : op[q] = Sending(Gui, Message(Input, b))
<1>1. op[q] # Ready /\ op[q].peer = Gui
  OBVIOUS
<1>2. q = Input
  BY <1>1, Peers
<1> QED
  BY <1>1, <1>2 DEF Inv, Waits

(* The GUI polls for an event. *)
LEMMA GuiPollsOK == ASSUME Inv, GuiPolls PROVE Inv'
<1> USE DEF GuiPolls, fsVars
<1>1. Places'
  BY DEF Inv, Places, Labels
<1>2. JobOK' /\ DataTypes'
  BY DEF Inv, JobOK, DataTypes
<1>3. CASE UNCHANGED <<op, buf>> /\ ret' = [ret EXCEPT ![Gui] = "err"]
  <2> USE <1>3 DEF Inv
  <2>1. CallTypes' /\ NoneMissed' /\ Waits'
    BY DEF CallTypes, RaxValues, NoneMissed, Waits, Places
  <2>2. InStep'
    BY DEF InStep, HasRequestOf, AwaitsReplyOf, Places, Working
  <2>3. Letters'
    BY DEF Letters, Places, CallTypes
  <2> QED
    BY <1>1, <1>2, <2>1, <2>2, <2>3
<1>4. ASSUME NEW q \in Programs, Takes(Gui, Anybody, q) PROVE Inv'
  <2>1. CallTypes' /\ NoneMissed'
    BY <1>4, RecvSafe
  <2>2. PICK b \in InputBodies : op[q] = Sending(Gui, Message(Input, b))
    BY <1>4, OnlyInputCallsGui DEF Takes
  <2>3. q = Input
    BY <1>4, OnlyInputCallsGui DEF Takes
  <2> USE <1>4, <2>2, <2>3 DEF Inv, Takes
  <2>4. Waits'
    BY DEF Waits, Places, CallTypes
  <2>5. InStep'
    BY DEF InStep, HasRequestOf, AwaitsReplyOf, Places, CallTypes, Working
  <2>6. buf'[Gui] = Message(Input, b)
    BY DEF CallTypes
  <2>7. \A s \in {Fs, Ata} : At(s, "got")' => At(s, "got") /\ buf'[s] = buf[s]
    BY DEF Places, CallTypes
  <2>8. Letters'
    BY <2>6, <2>7, ZenonT(40) DEF Letters
  <2> QED
    BY <1>1, <1>2, <2>1, <2>4, <2>5, <2>8
<1>5. \/ \E q \in Programs : Takes(Gui, Anybody, q)
      \/ UNCHANGED <<op, buf>> /\ ret' = [ret EXCEPT ![Gui] = "err"]
  BY PollOutcomes
<1> QED
  BY <1>3, <1>4, <1>5

(* Every step keeps the invariant. *)
LEMMA NextOK == Inv /\ [Next]_vars => Inv'
<1> SUFFICES ASSUME Inv, [Next]_vars PROVE Inv'
  OBVIOUS
<1>1. CASE ShellStep
  BY <1>1, ShellAloneOK, ShellWaitsForKeyOK, ShellAsksOK, ShellWaitsForReplyOK DEF ShellStep
<1>2. CASE FsStep
  BY <1>2, FsScansEntryOK, FsReadingOK, FsTakesRequestOK, FsWaitsForRequestOK, FsAsksOK,
     FsWaitsForSectorOK, FsAnswersOK DEF FsStep
<1>3. CASE AtaStep
  BY <1>3, AtaDropsOK, AtaReadsOK, AtaWaitsForRequestOK, AtaAnswersOK DEF AtaStep
<1>4. CASE InputStep
  BY <1>4, InputAloneOK, InputSendsOK DEF InputStep
<1>5. CASE GuiStep
  BY <1>5, GuiAloneOK, GuiPollsOK, GuiForwardsOK DEF GuiStep
<1>6. CASE Interrupt
  BY <1>6, InputAloneOK
<1>7. CASE UNCHANGED vars
  <2> USE <1>7 DEF vars, ipcVars, shellVars, fsVars, Inv
  <2>1. CallTypes' /\ DataTypes' /\ Places' /\ JobOK'
    BY DEF CallTypes, DataTypes, Places, JobOK
  <2>2. Waits' /\ NoneMissed' /\ Letters'
    BY ZenonT(40) DEF Waits, NoneMissed, Letters
  <2>3. InStep'
    BY DEF InStep, HasRequestOf, AwaitsReplyOf
  <2> QED
    BY <2>1, <2>2, <2>3
<1> QED
  BY <1>1, <1>2, <1>3, <1>4, <1>5, <1>6, <1>7 DEF Next

(* The invariant holds in every reachable state. *)
LEMMA SpecInv == Spec => []Inv
BY InitInv, NextOK, PTL DEF Spec

-----------------------------------------------------------------------------
(* What follows from the invariant. *)

(* Every variable has its type, for any number of events and directory     *)
(* entries.                                                                *)
THEOREM ServersTypes == Spec => []TypeOK
BY SpecInv, TypesSplit, PTL

(* Some program can always run: select_next_task, which lets a blocked     *)
(* task go on when there is no other, is never brought to that by these    *)
(* five programs, for any owners of the windows among the shell and the    *)
(* two servers.                                                            *)
THEOREM SomeProgramCanRun == Spec => []SomeoneCanRun
BY SpecInv, InvSomeone, PTL

(* A blocked program waits for another blocked one only in the order input *)
(* server, GUI, shell, file system, ATA server: a server that has a reply  *)
(* to send finds its client ready to receive it, or about to be.           *)
LEMMA WhoWaits ==
  ASSUME Inv, NEW p \in Programs, NEW q \in Programs, WaitsFor(p, q), op[q] # Ready
  PROVE  \/ p = Input /\ q = Gui
         \/ p = Gui   /\ q \in {Shell, Fs, Ata}
         \/ p = Shell /\ q \in {Fs, Ata}
         \/ p = Fs    /\ q = Ata
<1> USE DEF WaitsFor, Inv
<1>1. op[p] # Ready
  OBVIOUS
<1>2. CASE p = Input
  BY <1>1, <1>2, Peers
<1>3. CASE p = Gui
  BY <1>1, <1>3, Peers
<1>4. CASE p = Shell
  BY <1>1, <1>4, Peers
<1>5. CASE p = Fs
  <2>1. ASSUME NEW b \in Replies, op[Fs] = Sending(Shell, Message(Fs, b)), pc[Fs] = "loop"
        PROVE  FALSE
    <3>1. HasRequestOf(Fs, Shell) /\ OffersMessageTo(op[Fs], Shell) /\ q = Shell
      BY <1>5, <2>1 DEF HasRequestOf
    <3>2. AwaitsReplyOf(Shell, Fs)
      BY <3>1 DEF InStep
    <3>3. AwaitsMessageOf(op[Shell], Fs)
      BY <3>1, <3>2 DEF AwaitsReplyOf
    <3> QED
      BY <3>1, <3>3 DEF NoneMissed
  <2>2. op[Fs] # Receiving(Anybody)
    BY <1>5
  <2>3. FsBlocked
    BY <1>1, <1>5 DEF Waits
  <2>4. op[Fs] = Receiving(Ata) \/ op[Fs] = Sending(Ata, Message(Fs, AtaRead(want)))
    BY <2>1, <2>2, <2>3
  <2>5. q = Ata
    BY <1>5, <2>4
  <2> QED
    BY <1>5, <2>5
<1>6. CASE p = Ata
  <2>1. ASSUME NEW c \in Clients, NEW b \in Replies, op[Ata] = Sending(c, Message(Ata, b)), pc[Ata] = "loop"
        PROVE  FALSE
    <3>1. HasRequestOf(Ata, c) /\ OffersMessageTo(op[Ata], c) /\ q = c
      BY <1>6, <2>1 DEF HasRequestOf
    <3>2. AwaitsReplyOf(c, Ata)
      BY <3>1 DEF InStep
    <3>3. AwaitsMessageOf(op[c], Ata)
      BY <3>1, <3>2 DEF AwaitsReplyOf
    <3> QED
      BY <3>1, <3>3 DEF NoneMissed
  <2>2. op[Ata] # Receiving(Anybody)
    BY <1>6
  <2>3. AtaBlocked
    BY <1>1, <1>6 DEF Waits
  <2> QED
    BY <2>1, <2>2, <2>3
<1> QED
  BY <1>2, <1>3, <1>4, <1>5, <1>6

(* So the last of a set of programs in that order waits for none of the set. *)
LEMMA InvNoCircle == Inv => NoCircularWait
<1> SUFFICES ASSUME Inv, NEW S \in SUBSET Programs, S # {}
             PROVE  \E p \in S : \A q \in S : ~WaitsFor(p, q)
  BY DEF NoCircularWait
<1>1. CASE \E p \in S : op[p] = Ready
  BY <1>1 DEF WaitsFor
<1>2. CASE \A p \in S : op[p] # Ready
  <2>1. \A p, q \in S : WaitsFor(p, q) =>
          \/ p = Input /\ q = Gui
          \/ p = Gui   /\ q \in {Shell, Fs, Ata}
          \/ p = Shell /\ q \in {Fs, Ata}
          \/ p = Fs    /\ q = Ata
    BY <1>2, WhoWaits
  <2>2. S # {} /\ S \subseteq {Shell, Fs, Ata, Input, Gui}
    <3>1. Programs = {Shell, Fs, Ata, Input, Gui}
      OBVIOUS
    <3>2. S \in SUBSET Programs /\ S # {}
      OBVIOUS
    <3> HIDE DEF Programs
    <3> QED
      BY <3>1, <3>2
  <2> HIDE DEF WaitsFor
  <2>3. CASE Ata \in S
    BY <2>1, <2>3
  <2>4. CASE Ata \notin S /\ Fs \in S
    BY <2>1, <2>4
  <2>5. CASE Ata \notin S /\ Fs \notin S /\ Shell \in S
    BY <2>1, <2>5
  <2>6. CASE Ata \notin S /\ Fs \notin S /\ Shell \notin S /\ Gui \in S
    BY <2>1, <2>6
  <2>7. CASE S = {Input}
    BY <2>1, <2>7
  <2> QED
    BY <2>2, <2>3, <2>4, <2>5, <2>6, <2>7
<1> QED
  BY <1>1, <1>2

(* The five programs never wait for each other in a circle (task_shell,    *)
(* task_fs_server, task_ata_server, task_input_server, task_gui_server).   *)
THEOREM WaitsNeverClose == Spec => []NoCircularWait
BY SpecInv, InvNoCircle, PTL

(* A working server has a request of its client, so the client awaits the  *)
(* reply.                                                                  *)
LEMMA InvServes == Inv => ServesWaitingClient
<1> SUFFICES ASSUME Inv, NEW s \in {Fs, Ata}, pc[s] \in Working
             PROVE  AwaitsReplyOf(client[s], s)
  BY DEF ServesWaitingClient, Working
<1>1. HasRequestOf(s, client[s]) /\ client[s] \in Programs
  BY DEF Inv, HasRequestOf, DataTypes
<1> QED
  BY <1>1 DEF Inv, InStep

(* Requests and replies are never out of step: a server that works on a    *)
(* request does so for a client that awaits its reply.                     *)
THEOREM ServersServeWaiting == Spec => []ServesWaitingClient
BY SpecInv, InvServes, PTL

(* A step writes the buffer of p only if p has lent it. *)
Lent(p) == mem'[p] \notin {mem[p], "blank"} => \E s \in {Fs, Ata} : AwaitsReplyOf(p, s)

(* task_ata_server writes the sector to the buffer of the client it read   *)
(* it for.                                                                 *)
LEMMA AtaWritesLent ==
  ASSUME Inv, NEW good \in BOOLEAN, AtaReads(good), NEW p \in Clients PROVE Lent(p)
<1>1. PICK q \in Programs, b \in RequestsTo(Ata) \union {Key(k) : k \in Keys} : buf[Ata] = Message(q, b)
  BY DEF AtaReads, Inv, Letters
<1>2. b \in RequestsTo(Ata) \/ b.type = "key"
  BY Bodily
<1>3. HasRequestOf(Ata, q)
  BY <1>1, <1>2 DEF AtaReads, HasRequestOf
<1>4. AwaitsReplyOf(q, Ata)
  BY <1>3 DEF Inv, InStep
<1>5. p # q => mem'[p] = mem[p]
  BY <1>1 DEF AtaReads, Inv, DataTypes
<1> QED
  BY <1>4, <1>5 DEF Lent

(* task_fs_server writes to the buffer of the client it serves, and to its *)
(* own.                                                                    *)
LEMMA FsWritesLent ==
  ASSUME Inv, FsHasSector \/ FsHasError \/ FsScanEnds, NEW p \in Clients PROVE Lent(p)
<1>1. pc[Fs] \in Working /\ FsWrites
  BY DEF FsHasSector, FsHasError, FsScanEnds, Working
<1>2. AwaitsReplyOf(client[Fs], Fs)
  BY <1>1, InvServes DEF ServesWaitingClient, Working
<1>3. p # client[Fs] => mem'[p] \in {mem[p], "blank"}
  BY <1>1 DEF FsWrites, Inv, DataTypes
<1> QED
  BY <1>2, <1>3 DEF Lent

(* No server writes into the stack of a program that has not lent it a     *)
(* buffer for the reply it now awaits: ata_read_sectors, fs_read_sector    *)
(* and the ls and cat of the shell.                                        *)
THEOREM BuffersAreLent == Spec => BufferLent
<1>1. ASSUME Inv, [Next]_vars, NEW p \in Clients PROVE Lent(p)
  <2>1. CASE mem'[p] \in {mem[p], "blank"}
    BY <2>1 DEF Lent
  <2>2. CASE \E good \in BOOLEAN : AtaReads(good)
    BY <1>1, <2>2, AtaWritesLent
  <2>3. CASE FsHasSector \/ FsHasError \/ FsScanEnds
    BY <1>1, <2>3, FsWritesLent
  <2>4. CASE ShellStep \/ GuiStep \/ InputStep \/ Interrupt \/ UNCHANGED vars
    <3>1. mem' = mem \/ mem' = [mem EXCEPT ![Shell] = "blank"]
      BY <2>4 DEF ShellStep, ShellWaitsForKey, ShellEdits, ShellStartsCommand, ShellAsks, ShellWaitsForReply,
           ShellGoesOn, GuiStep, GuiPolls, GuiForwards, GuiSwitchesWindow, GuiHasNoWindow, GuiDraws,
           InputStep, InputSends, InputSkips, InputYields, Interrupt, vars
    <3> QED
      BY <1>1, <2>1, <3>1 DEF Inv, DataTypes
  <2>5. CASE \/ FsWaitsForRequest \/ FsTakesRequest \/ FsAsks \/ FsWaitsForSector
             \/ FsScansEntry \/ FsAnswers \/ AtaWaitsForRequest \/ AtaDrops \/ AtaAnswers
    <3>1. mem' = mem \/ mem' = [mem EXCEPT ![Fs] = "blank"]
      BY <2>5 DEF FsWaitsForRequest, FsTakesRequest, FsAsks, FsWaitsForSector, FsScansEntry, FsAnswers,
           AtaWaitsForRequest, AtaDrops, AtaAnswers
    <3> QED
      BY <1>1, <2>1, <3>1 DEF Inv, DataTypes
  <2> QED
    BY <1>1, <2>2, <2>3, <2>4, <2>5 DEF Next, FsStep, AtaStep
<1>2. Inv /\ [Next]_vars => [\A p \in Clients : mem'[p] \notin {mem[p], "blank"}
                                => \E s \in {Fs, Ata} : AwaitsReplyOf(p, s)]_vars
  BY <1>1 DEF Lent
<1> QED
  BY <1>2, SpecInv, PTL DEF Spec, BufferLent

-----------------------------------------------------------------------------
(* What the buffers hold.  The second invariant, Content, follows the data *)
(* from the request to the buffer: InStep keeps anything else from coming  *)
(* between.                                                                *)

(* What client c has asked for: the request, the sector in it, and what the *)
(* file system server makes of it for the shell.                           *)
Request(c) == IF c = Fs THEN AtaRead(want) ELSE job.body
Sector(c) == IF c = Fs THEN want ELSE job.body.arg
Product == IF job.body.type = "list" THEN "listing" ELSE "file"

(* A request arrives as its client made it. *)
Carried ==
  /\ At(Ata, "got") /\ Got(Ata).type = "ata" => Got(Ata) = Request(buf[Ata].sender)
  /\ At(Fs, "got") /\ Got(Fs).type \in {"list", "read"} => Got(Fs) = job.body
  /\ pc[Fs] \in Working => task = job.body.type

(* A server that is to say, or says, ok has written the buffer. *)
AtaDelivers ==
  /\ pc[Ata] = "answer" /\ outcome[Ata] => mem[client[Ata]] = Sector(client[Ata])
  /\ \A c \in Clients : op[Ata] = Sending(c, Message(Ata, Body("ok"))) => mem[c] = Sector(c)

FsDelivers ==
  /\ pc[Fs] = "answer" /\ outcome[Fs] => mem[Shell] = Product
  /\ op[Fs] = Sending(Shell, Message(Fs, Body("ok"))) => mem[Shell] = Product

(* A client that was told ok finds what it asked for. *)
FsFinds == At(Fs, "back") /\ Got(Fs).type = "ok" => mem[Fs] = want

ShellFinds ==
  At(Shell, "back") /\ Got(Shell).type = "ok" =>
    mem[Shell] = IF job.to = Fs THEN Product ELSE Sector(Shell)

Content == Carried /\ AtaDelivers /\ FsDelivers /\ FsFinds /\ ShellFinds

(* A reply that says ok is the reply of a success. *)
LEMMA RepliesTell ==
  /\ \A b \in Replies : b.type = "ok" => b = Body("ok")
  /\ \A good \in BOOLEAN : Status(good) = Body("ok") => good
BY DEF Replies, Body, Status

(* What a server sends to a client is a reply. *)
LEMMA ReplyOffered ==
  ASSUME Inv, NEW s \in {Fs, Ata}, NEW c \in Clients, OffersMessageTo(op[s], c)
  PROVE  \E b \in Replies : op[s] = Sending(c, Message(s, b))
<1> USE DEF Inv
<1>1. CASE s = Fs
  <2>1. op[Fs] # Ready /\ op[Fs].kind = "sending" /\ op[Fs].peer = c
    BY <1>1
  <2>2. FsBlocked
    BY <2>1 DEF Waits
  <2>3. /\ op[Fs] # Receiving(Anybody) /\ op[Fs] # Receiving(Ata)
        /\ op[Fs] # Sending(Ata, Message(Fs, AtaRead(want)))
    BY <2>1
  <2>4. PICK b \in Replies : op[Fs] = Sending(Shell, Message(Fs, b))
    BY <2>2, <2>3
  <2>5. c = Shell
    BY <2>1, <2>4
  <2> QED
    BY <1>1, <2>4, <2>5
<1>2. CASE s = Ata
  <2>1. op[Ata] # Ready /\ op[Ata].kind = "sending" /\ op[Ata].peer = c
    BY <1>2
  <2>2. AtaBlocked
    BY <2>1 DEF Waits
  <2>3. op[Ata] # Receiving(Anybody)
    BY <2>1
  <2>4. PICK d \in Clients, b \in Replies : op[Ata] = Sending(d, Message(Ata, b))
    BY <2>2, <2>3
  <2>5. c = d
    BY <2>1, <2>4
  <2> QED
    BY <1>2, <2>4, <2>5
<1> QED
  BY <1>1, <1>2

(* When the file system server ends a request successfully it has written  *)
(* what the shell asked for to its buffer.                                 *)
LEMMA FsWritesProduct ==
  ASSUME Inv, Content, pc[Fs] \in Working, FsWrites, pc'[Fs] = "answer", outcome'[Fs]
  PROVE  mem'[Shell] = Product
<1>1. client[Fs] = Shell
  BY WhoAsks DEF Inv, HasRequestOf, DataTypes
<1>2. task = job.body.type
  BY DEF Content, Carried
<1>3. mem \in [Clients -> Contents]
  BY DEF Inv, DataTypes
<1> QED
  BY <1>1, <1>2, <1>3 DEF FsWrites, Product, Inv, DataTypes

(* Editing the line leaves the requests alone. *)
LEMMA ShellEditsKeeps ==
  ASSUME Inv, Content, ShellEdits
  PROVE  Content'
<1> USE DEF Inv, Content, ShellEdits, fsVars, ipcVars
<1>1. Carried'
  BY DEF Carried, Request, Places, CallTypes
<1>2. AtaDelivers'
  BY DEF AtaDelivers, Sector, Places, CallTypes
<1>3. FsDelivers'
  BY DEF FsDelivers, Product, Places, CallTypes
<1>4. FsFinds'
  BY DEF FsFinds, Places, CallTypes
<1>5. ShellFinds'
  BY DEF ShellFinds, Sector, Product, Places, CallTypes
<1> QED
  BY <1>1, <1>2, <1>3, <1>4, <1>5 DEF Content

(* A new command: no server has a request of the shell at that time. *)
LEMMA ShellStartsCommandKeeps ==
  ASSUME Inv, Content, ShellStartsCommand
  PROVE  Content'
<1> USE DEF Inv, Content, ShellStartsCommand, fsVars, ipcVars
<1>1. Carried'
  BY Bodily DEF Carried, Places, CallTypes, DataTypes, Waits,
         InStep, HasRequestOf, AwaitsReplyOf, Working, Letters, JobOK, Request, Sector, Product
<1>2. AtaDelivers'
  BY DEF AtaDelivers, Sector, Places, CallTypes, DataTypes, Waits,
         InStep, HasRequestOf, AwaitsReplyOf, Working, Letters, JobOK
<1>3. FsDelivers'
  BY DEF FsDelivers, Product, Places, CallTypes, DataTypes, Waits,
         InStep, HasRequestOf, AwaitsReplyOf, Working, Letters, JobOK
<1>4. FsFinds'
  BY DEF FsFinds, Places, CallTypes
<1>5. ShellFinds'
  BY DEF ShellFinds, Sector, Product, Places, CallTypes
<1> QED
  BY <1>1, <1>2, <1>3, <1>4, <1>5 DEF Content

(* The reply has been used; diskinfo asks again. *)
LEMMA ShellGoesOnKeeps ==
  ASSUME Inv, Content, ShellGoesOn
  PROVE  Content'
<1> USE DEF Inv, Content, ShellGoesOn, fsVars, ipcVars
<1>1. Carried'
  BY Bodily DEF Carried, Places, CallTypes, DataTypes, Waits,
         InStep, HasRequestOf, AwaitsReplyOf, Working, Letters, JobOK, Request, Sector, Product
<1>2. AtaDelivers'
  BY DEF AtaDelivers, Sector, Places, CallTypes, DataTypes, Waits,
         InStep, HasRequestOf, AwaitsReplyOf, Working, Letters, JobOK
<1>3. FsDelivers'
  BY DEF FsDelivers, Product, Places, CallTypes, DataTypes, Waits,
         InStep, HasRequestOf, AwaitsReplyOf, Working, Letters, JobOK
<1>4. FsFinds'
  BY DEF FsFinds, Places, CallTypes
<1>5. ShellFinds'
  BY DEF ShellFinds, Sector, Product, Places, CallTypes
<1> QED
  BY <1>1, <1>2, <1>3, <1>4, <1>5 DEF Content

(* A key is no reply. *)
LEMMA ShellWaitsForKeyKeeps ==
  ASSUME Inv, Content, ShellWaitsForKey
  PROVE  Content'
<1>1. PICK q \in Programs : Takes(Shell, Anybody, q) \/ RecvBlocks(Shell, Anybody)
  BY RecvOutcomes DEF ShellWaitsForKey
<1> USE DEF Inv, Content, ShellWaitsForKey, fsVars, ipcVars, Takes, RecvBlocks
<1>2. Carried'
  BY <1>1 DEF Carried, Request, Places, CallTypes, DataTypes, Waits
<1>3. AtaDelivers'
  BY <1>1 DEF AtaDelivers, Sector, Places, CallTypes
<1>4. FsDelivers'
  BY <1>1 DEF FsDelivers, Product, Places, CallTypes
<1>5. FsFinds'
  BY <1>1 DEF FsFinds, Places, CallTypes, DataTypes, Waits
<1>6. ShellFinds'
  BY <1>1 DEF ShellFinds, Sector, Product, Places, CallTypes
<1> QED
  BY <1>2, <1>3, <1>4, <1>5, <1>6 DEF Content

(* The request carries the shell's job; its buffer is blank and nobody     *)
(* writes it yet.                                                          *)
LEMMA ShellAsksKeeps ==
  ASSUME Inv, Content, ShellAsks
  PROVE  Content'
<1>1. Delivers(Shell, job.to, job.body) \/ SendBlocks(Shell, job.to, job.body)
  BY SendOutcomes DEF ShellAsks
<1> USE DEF Inv, Content, ShellAsks, fsVars, ipcVars, Delivers, SendBlocks
<1>2. Carried'
  BY <1>1 DEF Carried, Request, Places, CallTypes
<1>3. AtaDelivers'
  BY <1>1 DEF AtaDelivers, Sector, Places, CallTypes, Waits, InStep, HasRequestOf, AwaitsReplyOf, Working
<1>4. FsDelivers'
  BY <1>1 DEF FsDelivers, Product, Places, CallTypes, DataTypes, Waits,
         InStep, HasRequestOf, AwaitsReplyOf, Working, Letters, JobOK
<1>5. FsFinds'
  BY <1>1 DEF FsFinds, Places, CallTypes, DataTypes, Waits
<1>6. ShellFinds'
  BY <1>1 DEF ShellFinds, Sector, Product, Places, CallTypes
<1> QED
  BY <1>2, <1>3, <1>4, <1>5, <1>6 DEF Content

(* The reply the shell receives is that of the server it asked, which has  *)
(* written the buffer when it says ok.                                     *)
LEMMA ShellWaitsForReplyKeeps ==
  ASSUME Inv, Content, ShellWaitsForReply
  PROVE  Content'
<1>1. PICK q \in Programs : Takes(Shell, job.to, q) \/ RecvBlocks(Shell, job.to)
  BY RecvOutcomes DEF ShellWaitsForReply
<1> USE DEF Inv, Content, ShellWaitsForReply, fsVars, ipcVars, Takes, RecvBlocks
<1>2. Carried'
  BY <1>1 DEF Carried, Request, Places, CallTypes, DataTypes, Waits
<1>3. AtaDelivers'
  BY <1>1 DEF AtaDelivers, Sector, Places, CallTypes
<1>4. FsDelivers'
  BY <1>1 DEF FsDelivers, Product, Places, CallTypes
<1>5. FsFinds'
  BY <1>1 DEF FsFinds, Places, CallTypes, DataTypes, Waits
<1>6. ShellFinds'
  <2>1. CASE Takes(Shell, job.to, q)
    <3>1. q = job.to /\ q \in {Fs, Ata} /\ OffersMessageTo(op[q], Shell)
      BY <2>1 DEF JobOK
    <3>2. PICK b \in Replies : op[q] = Sending(Shell, Message(q, b))
      BY <3>1, ReplyOffered
    <3>3. buf'[Shell] = Message(q, b)
      BY <2>1, <3>2 DEF CallTypes
    <3>4. b.type = "ok" => mem[Shell] = IF job.to = Fs THEN Product ELSE Sector(Shell)
      BY <3>1, <3>2, RepliesTell DEF AtaDelivers, FsDelivers
    <3> QED
      BY <3>3, <3>4 DEF ShellFinds, Product, Sector
  <2>2. CASE RecvBlocks(Shell, job.to)
    BY <2>2 DEF ShellFinds, CallTypes
  <2> QED
    BY <1>1, <2>1, <2>2
<1> QED
  BY <1>2, <1>3, <1>4, <1>5, <1>6 DEF Content

(* The next sector is chosen while no request is with the ATA server. *)
LEMMA FsScansEntryKeeps ==
  ASSUME Inv, Content, FsScansEntry
  PROVE  Content'
<1> USE DEF Inv, Content, FsScansEntry, fsVars, ipcVars
<1>1. Carried'
  BY Bodily DEF Carried, Places, CallTypes, DataTypes, Waits,
         InStep, HasRequestOf, AwaitsReplyOf, Working, Letters, JobOK, Request, Sector, Product
<1>2. AtaDelivers'
  BY DEF AtaDelivers, Sector, Places, CallTypes, Waits, InStep, HasRequestOf, AwaitsReplyOf, Working
<1>3. FsDelivers'
  BY DEF FsDelivers, Product, Places, CallTypes
<1>4. FsFinds'
  BY DEF FsFinds, Places, CallTypes
<1>5. ShellFinds'
  BY DEF ShellFinds, Sector, Product, Places, CallTypes
<1> QED
  BY <1>1, <1>2, <1>3, <1>4, <1>5 DEF Content

(* The sector is used; the buffer of the shell is written when the request *)
(* ends.                                                                   *)
LEMMA FsHasSectorKeeps ==
  ASSUME Inv, Content, FsHasSector
  PROVE  Content'
<1> USE DEF Inv, Content, FsHasSector, fsVars, ipcVars, FsReads, FsEnds, FsScans, FsWrites
<1>1. Carried'
  BY Bodily DEF Carried, Places, CallTypes, DataTypes, Waits,
         InStep, HasRequestOf, AwaitsReplyOf, Working, Letters, JobOK, Request, Sector, Product
<1>2. AtaDelivers'
  BY DEF AtaDelivers, Sector, Places, CallTypes, DataTypes, Waits,
         InStep, HasRequestOf, AwaitsReplyOf, Working, Letters, JobOK
<1>3. FsDelivers'
  <2>1. pc[Fs] \in Working /\ op'[Fs] = Ready /\ job' = job
    BY DEF Working
  <2>2. pc'[Fs] = "answer" /\ outcome'[Fs] => mem'[Shell] = Product
    BY <2>1, FsWritesProduct
  <2> QED
    BY <2>1, <2>2 DEF FsDelivers, Product
<1>4. FsFinds'
  BY DEF FsFinds, Places, CallTypes
<1>5. ShellFinds'
  BY DEF ShellFinds, Sector, Product, Places, CallTypes, DataTypes, Waits,
         InStep, HasRequestOf, AwaitsReplyOf, Working, Letters, JobOK
<1> QED
  BY <1>1, <1>2, <1>3, <1>4, <1>5 DEF Content

(* A failed read ends the request or is passed over. *)
LEMMA FsHasErrorKeeps ==
  ASSUME Inv, Content, FsHasError
  PROVE  Content'
<1> USE DEF Inv, Content, FsHasError, fsVars, ipcVars, FsReads, FsEnds, FsScans, FsWrites
<1>1. Carried'
  BY DEF Carried, Request, Places, CallTypes, InStep, HasRequestOf, AwaitsReplyOf, Working
<1>2. AtaDelivers'
  BY DEF AtaDelivers, Sector, Places, CallTypes, DataTypes, Waits,
         InStep, HasRequestOf, AwaitsReplyOf, Working, Letters, JobOK
<1>3. FsDelivers'
  <2>1. pc[Fs] \in Working /\ op'[Fs] = Ready /\ job' = job
    BY DEF Working
  <2>2. pc'[Fs] = "answer" /\ outcome'[Fs] => mem'[Shell] = Product
    BY <2>1, FsWritesProduct
  <2> QED
    BY <2>1, <2>2 DEF FsDelivers, Product
<1>4. FsFinds'
  BY DEF FsFinds, Places, CallTypes
<1>5. ShellFinds'
  BY DEF ShellFinds, Sector, Product, Places, CallTypes, DataTypes, Waits,
         InStep, HasRequestOf, AwaitsReplyOf, Working, Letters, JobOK
<1> QED
  BY <1>1, <1>2, <1>3, <1>4, <1>5 DEF Content

(* The scan ends: the listing goes to the shell, or the file was not found. *)
LEMMA FsScanEndsKeeps ==
  ASSUME Inv, Content, FsScanEnds
  PROVE  Content'
<1> USE DEF Inv, Content, FsScanEnds, fsVars, ipcVars, FsEnds, FsWrites
<1>1. Carried'
  BY DEF Carried, Request, Places, CallTypes, InStep, HasRequestOf, AwaitsReplyOf, Working
<1>2. AtaDelivers'
  BY DEF AtaDelivers, Sector, Places, CallTypes, DataTypes, Waits,
         InStep, HasRequestOf, AwaitsReplyOf, Working, Letters, JobOK
<1>3. FsDelivers'
  <2>1. pc[Fs] \in Working /\ op'[Fs] = Ready /\ job' = job
    BY DEF Working
  <2>2. pc'[Fs] = "answer" /\ outcome'[Fs] => mem'[Shell] = Product
    BY <2>1, FsWritesProduct
  <2> QED
    BY <2>1, <2>2 DEF FsDelivers, Product
<1>4. FsFinds'
  BY DEF FsFinds, Places, CallTypes
<1>5. ShellFinds'
  BY DEF ShellFinds, Sector, Product, Places, CallTypes, DataTypes, Waits,
         InStep, HasRequestOf, AwaitsReplyOf, Working, Letters, JobOK
<1> QED
  BY <1>1, <1>2, <1>3, <1>4, <1>5 DEF Content

(* The server works on the task of the shell's job. *)
LEMMA FsTakesRequestKeeps ==
  ASSUME Inv, Content, FsTakesRequest
  PROVE  Content'
<1> USE DEF Inv, Content, FsTakesRequest, fsVars, ipcVars
<1>1. Carried'
  BY DEF Carried, Request, Places, CallTypes, InStep, HasRequestOf, AwaitsReplyOf, Working
<1>2. AtaDelivers'
  BY DEF AtaDelivers, Sector, Places, CallTypes, DataTypes, Waits
<1>3. FsDelivers'
  BY DEF FsDelivers, Product, Places, CallTypes
<1>4. FsFinds'
  BY DEF FsFinds, Places, CallTypes
<1>5. ShellFinds'
  BY DEF ShellFinds, Sector, Product, Places, CallTypes
<1> QED
  BY <1>1, <1>2, <1>3, <1>4, <1>5 DEF Content

(* A request the server receives is the shell's job. *)
LEMMA FsWaitsForRequestKeeps ==
  ASSUME Inv, Content, FsWaitsForRequest
  PROVE  Content'
<1>1. PICK q \in Programs : Takes(Fs, Anybody, q) \/ RecvBlocks(Fs, Anybody)
  BY RecvOutcomes DEF FsWaitsForRequest
<1> USE DEF Inv, Content, FsWaitsForRequest, fsVars, ipcVars, Takes, RecvBlocks
<1>2. Carried'
  BY <1>1, Bodily DEF Carried, Places, CallTypes, DataTypes, Waits,
         InStep, HasRequestOf, AwaitsReplyOf, Working, Letters, JobOK, Request, Sector, Product
<1>3. AtaDelivers'
  BY <1>1 DEF AtaDelivers, Sector, Places, CallTypes
<1>4. FsDelivers'
  BY <1>1 DEF FsDelivers, Product, Places, CallTypes
<1>5. FsFinds'
  BY <1>1 DEF FsFinds, Places, CallTypes
<1>6. ShellFinds'
  BY <1>1 DEF ShellFinds, Sector, Product, Places, CallTypes, DataTypes, Waits
<1> QED
  BY <1>2, <1>3, <1>4, <1>5, <1>6 DEF Content

(* The request names the sector wanted. *)
LEMMA FsAsksKeeps ==
  ASSUME Inv, Content, FsAsks
  PROVE  Content'
<1>1. Delivers(Fs, Ata, AtaRead(want)) \/ SendBlocks(Fs, Ata, AtaRead(want))
  BY SendOutcomes DEF FsAsks
<1> USE DEF Inv, Content, FsAsks, fsVars, ipcVars, Delivers, SendBlocks
<1>2. Carried'
  BY <1>1 DEF Carried, Request, Places, CallTypes, InStep, HasRequestOf, AwaitsReplyOf, Working
<1>3. AtaDelivers'
  BY <1>1 DEF AtaDelivers, Sector, Places, CallTypes, Waits, InStep, HasRequestOf, AwaitsReplyOf, Working
<1>4. FsDelivers'
  BY <1>1 DEF FsDelivers, Product, Places, CallTypes
<1>5. FsFinds'
  BY <1>1 DEF FsFinds, Places, CallTypes
<1>6. ShellFinds'
  BY <1>1 DEF ShellFinds, Sector, Product, Places, CallTypes
<1> QED
  BY <1>2, <1>3, <1>4, <1>5, <1>6 DEF Content

(* The reply comes from the ATA server, which has written the sector when  *)
(* it says ok.                                                             *)
LEMMA FsWaitsForSectorKeeps ==
  ASSUME Inv, Content, FsWaitsForSector
  PROVE  Content'
<1>1. PICK q \in Programs : Takes(Fs, Ata, q) \/ RecvBlocks(Fs, Ata)
  BY RecvOutcomes DEF FsWaitsForSector
<1> USE DEF Inv, Content, FsWaitsForSector, fsVars, ipcVars, Takes, RecvBlocks
<1>2. Carried'
  BY <1>1 DEF Carried, Request, Places, CallTypes, InStep, HasRequestOf, AwaitsReplyOf, Working
<1>3. AtaDelivers'
  BY <1>1 DEF AtaDelivers, Sector, Places, CallTypes
<1>4. FsDelivers'
  BY <1>1 DEF FsDelivers, Product, Places, CallTypes
<1>5. FsFinds'
  <2>1. CASE Takes(Fs, Ata, q)
    <3>1. q = Ata /\ OffersMessageTo(op[Ata], Fs)
      BY <2>1
    <3>2. PICK b \in Replies : op[Ata] = Sending(Fs, Message(Ata, b))
      BY <3>1, ReplyOffered
    <3>3. buf'[Fs] = Message(Ata, b)
      BY <2>1, <3>1, <3>2 DEF CallTypes
    <3>4. b.type = "ok" => mem[Fs] = want
      BY <3>2, RepliesTell DEF AtaDelivers, Sector
    <3> QED
      BY <3>3, <3>4 DEF FsFinds
  <2>2. CASE RecvBlocks(Fs, Ata)
    BY <2>2 DEF FsFinds, CallTypes
  <2> QED
    BY <1>1, <2>1, <2>2
<1>6. ShellFinds'
  BY <1>1 DEF ShellFinds, Sector, Product, Places, CallTypes
<1> QED
  BY <1>2, <1>3, <1>4, <1>5, <1>6 DEF Content

(* The reply tells the outcome. *)
LEMMA FsAnswersKeeps ==
  ASSUME Inv, Content, FsAnswers
  PROVE  Content'
<1>1. Delivers(Fs, client[Fs], Status(outcome[Fs])) \/ SendBlocks(Fs, client[Fs], Status(outcome[Fs]))
  BY SendOutcomes DEF FsAnswers
<1> USE DEF Inv, Content, FsAnswers, fsVars, ipcVars, Delivers, SendBlocks
<1>2. Carried'
  BY <1>1, Bodily DEF Carried, Places, CallTypes, DataTypes, Waits,
         InStep, HasRequestOf, AwaitsReplyOf, Working, Letters, JobOK, Request, Sector, Product
<1>3. AtaDelivers'
  BY <1>1 DEF AtaDelivers, Sector, Places, CallTypes, Waits, InStep, HasRequestOf, AwaitsReplyOf, Working
<1>4. FsDelivers'
  <2>1. client[Fs] = Shell /\ outcome[Fs] \in BOOLEAN
    BY WhoAsks DEF HasRequestOf, DataTypes, Working
  <2>2. op'[Fs] = Sending(Shell, Message(Fs, Body("ok"))) => Status(outcome[Fs]) = Body("ok")
    BY <1>1, <2>1 DEF CallTypes
  <2>3. op'[Fs] = Sending(Shell, Message(Fs, Body("ok"))) => mem[Shell] = Product
    BY <2>1, <2>2, RepliesTell DEF FsDelivers
  <2> QED
    BY <2>3 DEF FsDelivers, Product, Places
<1>5. FsFinds'
  BY <1>1 DEF FsFinds, Places, CallTypes
<1>6. ShellFinds'
  <2>1. client[Fs] = Shell /\ outcome[Fs] \in BOOLEAN /\ AwaitsReplyOf(Shell, Fs)
    BY WhoAsks DEF HasRequestOf, DataTypes, Working, InStep
  <2>2. job.to = Fs /\ job' = job /\ mem' = mem
    BY <2>1 DEF AwaitsReplyOf
  <2>3. CASE Delivers(Fs, Shell, Status(outcome[Fs]))
    <3>1. buf'[Shell] = Message(Fs, Status(outcome[Fs]))
      BY <2>3 DEF CallTypes
    <3>2. Status(outcome[Fs]).type = "ok" => mem[Shell] = Product
      BY <2>1, RepliesTell, Bodily DEF FsDelivers
    <3> QED
      BY <2>2, <3>1, <3>2 DEF ShellFinds, Product
  <2>4. CASE SendBlocks(Fs, Shell, Status(outcome[Fs]))
    BY <2>1, <2>2, <2>4 DEF ShellFinds, AwaitsReplyOf, Product, Sector, CallTypes
  <2> QED
    BY <1>1, <2>1, <2>3, <2>4
<1> QED
  BY <1>2, <1>3, <1>4, <1>5, <1>6 DEF Content

(* A dropped message was no request. *)
LEMMA AtaDropsKeeps ==
  ASSUME Inv, Content, AtaDrops
  PROVE  Content'
<1> USE DEF Inv, Content, AtaDrops, fsVars, ipcVars
<1>1. Carried'
  BY DEF Carried, Request, Places, CallTypes
<1>2. AtaDelivers'
  BY DEF AtaDelivers, Sector, Places, CallTypes
<1>3. FsDelivers'
  BY DEF FsDelivers, Product, Places, CallTypes
<1>4. FsFinds'
  BY DEF FsFinds, Places, CallTypes
<1>5. ShellFinds'
  BY DEF ShellFinds, Sector, Product, Places, CallTypes
<1> QED
  BY <1>1, <1>2, <1>3, <1>4, <1>5 DEF Content

(* The sector read is the one its client wants. *)
LEMMA AtaReadsKeeps ==
  ASSUME Inv, Content, NEW good \in BOOLEAN, AtaReads(good)
  PROVE  Content'
<1> USE DEF Inv, Content, AtaReads, fsVars, ipcVars
<1>1. Carried'
  BY DEF Carried, Request, Places, CallTypes
<1>2. AtaDelivers'
  <2>1. Got(Ata).type = "ata" /\ Got(Ata) = Request(buf[Ata].sender)
    BY DEF Carried
  <2>2. PICK c \in Programs, b \in RequestsTo(Ata) \union {Key(k) : k \in Keys} : buf[Ata] = Message(c, b)
    BY DEF Letters
  <2>3. b \in RequestsTo(Ata)
    BY <2>1, <2>2, Bodily
  <2>4. c \in Clients /\ client'[Ata] = c /\ outcome'[Ata] = good
    BY <2>2, <2>3, WhoAsks DEF HasRequestOf, DataTypes
  <2>5. Got(Ata).arg = Sector(c)
    BY <2>1, <2>2, <2>4 DEF Request, Sector, AtaRead
  <2>6. good => mem'[c] = Sector(c)
    BY <2>2, <2>4, <2>5 DEF DataTypes
  <2> QED
    BY <2>4, <2>6 DEF AtaDelivers, Sector
<1>3. FsDelivers'
  BY Bodily DEF FsDelivers, Places, CallTypes, DataTypes, Waits,
         InStep, HasRequestOf, AwaitsReplyOf, Working, Letters, JobOK, Request, Sector, Product
<1>4. FsFinds'
  BY Bodily DEF FsFinds, Places, CallTypes, DataTypes, Waits,
         InStep, HasRequestOf, AwaitsReplyOf, Working, Letters, JobOK, Request, Sector, Product
<1>5. ShellFinds'
  BY Bodily DEF ShellFinds, Places, CallTypes, DataTypes, Waits,
         InStep, HasRequestOf, AwaitsReplyOf, Working, Letters, JobOK, Request, Sector, Product
<1> QED
  BY <1>1, <1>2, <1>3, <1>4, <1>5 DEF Content

(* A request the server receives names the sector its client wants. *)
LEMMA AtaWaitsForRequestKeeps ==
  ASSUME Inv, Content, AtaWaitsForRequest
  PROVE  Content'
<1>1. PICK q \in Programs : Takes(Ata, Anybody, q) \/ RecvBlocks(Ata, Anybody)
  BY RecvOutcomes DEF AtaWaitsForRequest
<1> USE DEF Inv, Content, AtaWaitsForRequest, fsVars, ipcVars, Takes, RecvBlocks
<1>2. Carried'
  BY <1>1, Bodily DEF Carried, Places, CallTypes, DataTypes, Waits,
         InStep, HasRequestOf, AwaitsReplyOf, Working, Letters, JobOK, Request, Sector, Product
<1>3. AtaDelivers'
  BY <1>1 DEF AtaDelivers, Sector, Places, CallTypes
<1>4. FsDelivers'
  BY <1>1 DEF FsDelivers, Product, Places, CallTypes
<1>5. FsFinds'
  BY <1>1 DEF FsFinds, Places, CallTypes, DataTypes, Waits
<1>6. ShellFinds'
  BY <1>1 DEF ShellFinds, Sector, Product, Places, CallTypes, DataTypes, Waits
<1> QED
  BY <1>2, <1>3, <1>4, <1>5, <1>6 DEF Content

(* The reply tells the outcome to the client of the read. *)
LEMMA AtaAnswersKeeps ==
  ASSUME Inv, Content, AtaAnswers
  PROVE  Content'
<1>1. Delivers(Ata, client[Ata], Status(outcome[Ata])) \/ SendBlocks(Ata, client[Ata], Status(outcome[Ata]))
  BY SendOutcomes DEF AtaAnswers
<1> USE DEF Inv, Content, AtaAnswers, fsVars, ipcVars, Delivers, SendBlocks
<1>2. Carried'
  BY <1>1 DEF Carried, Request, Places, CallTypes, InStep, HasRequestOf, AwaitsReplyOf, Working
<1>3. AtaDelivers'
  <2>1. client[Ata] \in Clients /\ outcome[Ata] \in BOOLEAN
    BY DEF DataTypes
  <2>2. \A c \in Clients : op'[Ata] = Sending(c, Message(Ata, Body("ok"))) =>
          c = client[Ata] /\ Status(outcome[Ata]) = Body("ok")
    BY <1>1, <2>1 DEF CallTypes
  <2>3. \A c \in Clients : op'[Ata] = Sending(c, Message(Ata, Body("ok"))) => mem[c] = Sector(c)
    BY <2>1, <2>2, RepliesTell DEF AtaDelivers
  <2> QED
    BY <2>3 DEF AtaDelivers, Sector, Places
<1>4. FsDelivers'
  BY <1>1 DEF FsDelivers, Product, Places, CallTypes
<1>5. FsFinds'
  <2>1. client[Ata] \in Clients /\ outcome[Ata] \in BOOLEAN /\ AwaitsReplyOf(client[Ata], Ata)
    BY DEF HasRequestOf, DataTypes, Working, InStep
  <2>2. mem' = mem /\ job' = job /\ want' = want /\ pc'[Fs] = pc[Fs]
    BY DEF Places
  <2>3. CASE client[Ata] = Fs /\ Delivers(Ata, Fs, Status(outcome[Ata]))
    <3>1. buf'[Fs] = Message(Ata, Status(outcome[Ata]))
      BY <2>3 DEF CallTypes
    <3>2. Status(outcome[Ata]).type = "ok" => mem[Fs] = Sector(Fs)
      BY <2>1, <2>3, RepliesTell, Bodily DEF AtaDelivers
    <3> QED
      BY <2>1, <2>2, <2>3, <3>1, <3>2 DEF FsFinds, Sector, AwaitsReplyOf
  <2>4. CASE client[Ata] # Fs \/ SendBlocks(Ata, client[Ata], Status(outcome[Ata]))
    <3>1. At(Fs, "back")' => At(Fs, "back") /\ buf'[Fs] = buf[Fs]
      BY <1>1, <2>1, <2>2, <2>4 DEF CallTypes
    <3> QED
      BY <2>2, <3>1 DEF FsFinds, Product, Sector
  <2> QED
    BY <1>1, <2>3, <2>4
<1>6. ShellFinds'
  <2>1. client[Ata] \in Clients /\ outcome[Ata] \in BOOLEAN /\ AwaitsReplyOf(client[Ata], Ata)
    BY DEF HasRequestOf, DataTypes, Working, InStep
  <2>2. mem' = mem /\ job' = job /\ want' = want /\ pc'[Shell] = pc[Shell]
    BY DEF Places
  <2>3. CASE client[Ata] = Shell /\ Delivers(Ata, Shell, Status(outcome[Ata]))
    <3>1. buf'[Shell] = Message(Ata, Status(outcome[Ata]))
      BY <2>3 DEF CallTypes
    <3>2. Status(outcome[Ata]).type = "ok" => mem[Shell] = Sector(Shell)
      BY <2>1, <2>3, RepliesTell, Bodily DEF AtaDelivers
    <3> QED
      BY <2>1, <2>2, <2>3, <3>1, <3>2 DEF ShellFinds, Sector, AwaitsReplyOf
  <2>4. CASE client[Ata] # Shell \/ SendBlocks(Ata, client[Ata], Status(outcome[Ata]))
    <3>1. At(Shell, "back")' => At(Shell, "back") /\ buf'[Shell] = buf[Shell]
      BY <1>1, <2>1, <2>2, <2>4 DEF CallTypes
    <3> QED
      BY <2>2, <3>1 DEF ShellFinds, Product, Sector
  <2> QED
    BY <1>1, <2>3, <2>4
<1> QED
  BY <1>2, <1>3, <1>4, <1>5, <1>6 DEF Content

(* An event for the GUI is no reply. *)
LEMMA InputSendsKeeps ==
  ASSUME Inv, Content, NEW b \in InputBodies, InputSends(b)
  PROVE  Content'
<1>1. Delivers(Input, Gui, b) \/ SendBlocks(Input, Gui, b)
  BY SendOutcomes DEF InputSends
<1> USE DEF Inv, Content, InputSends, fsVars, ipcVars, Delivers, SendBlocks
<1>2. Carried'
  BY <1>1 DEF Carried, Request, Places, CallTypes
<1>3. AtaDelivers'
  BY <1>1 DEF AtaDelivers, Sector, Places, CallTypes
<1>4. FsDelivers'
  BY <1>1 DEF FsDelivers, Product, Places, CallTypes
<1>5. FsFinds'
  BY <1>1 DEF FsFinds, Places, CallTypes
<1>6. ShellFinds'
  BY <1>1 DEF ShellFinds, Sector, Product, Places, CallTypes
<1> QED
  BY <1>2, <1>3, <1>4, <1>5, <1>6 DEF Content

(* A key for a server or the shell is neither request nor reply. *)
LEMMA GuiForwardsKeeps ==
  ASSUME Inv, Content, GuiForwards
  PROVE  Content'
<1>1. Delivers(Gui, active, Got(Gui)) \/ SendBlocks(Gui, active, Got(Gui))
  BY SendOutcomes DEF GuiForwards
<1> USE DEF Inv, Content, GuiForwards, fsVars, ipcVars, Delivers, SendBlocks
<1>2. Carried'
  BY <1>1 DEF Carried, Request, Places, CallTypes
<1>3. AtaDelivers'
  BY <1>1 DEF AtaDelivers, Sector, Places, CallTypes
<1>4. FsDelivers'
  BY <1>1 DEF FsDelivers, Product, Places, CallTypes
<1>5. FsFinds'
  BY <1>1 DEF FsFinds, Places, CallTypes
<1>6. ShellFinds'
  BY <1>1 DEF ShellFinds, Sector, Product, Places, CallTypes
<1> QED
  BY <1>2, <1>3, <1>4, <1>5, <1>6 DEF Content

(* Steps of the input server, the GUI and the interrupt handlers that send *)
(* nothing touch no request, reply or buffer.                              *)
LEMMA ElsewhereKeeps ==
  ASSUME Inv, Content,
         \/ InputSkips \/ InputYields \/ GuiPolls \/ GuiSwitchesWindow \/ GuiHasNoWindow
         \/ GuiDraws \/ Interrupt \/ UNCHANGED vars
  PROVE  Content'
<1>1. UNCHANGED <<job, client, fsVars, outcome, mem>>
  BY DEF InputSkips, InputYields, GuiPolls, GuiSwitchesWindow, GuiHasNoWindow, GuiDraws, Interrupt,
         vars, shellVars
<1>2. \A p \in {Shell, Fs, Ata} : pc'[p] = pc[p] /\ op'[p] = op[p] /\ buf'[p] = buf[p]
  <2>1. CASE \/ InputSkips \/ InputYields \/ GuiSwitchesWindow \/ GuiHasNoWindow
             \/ GuiDraws \/ Interrupt \/ UNCHANGED vars
    BY <2>1 DEF InputSkips, InputYields, GuiSwitchesWindow, GuiHasNoWindow, GuiDraws, Interrupt,
             vars, ipcVars, Inv, Places, CallTypes
  <2>2. CASE GuiPolls
    <3>1. CASE \E q \in Programs : Takes(Gui, Anybody, q)
      <4>1. PICK q \in Programs : Takes(Gui, Anybody, q)
        BY <3>1
      <4>2. q = Input
        BY <4>1, OnlyInputCallsGui DEF Takes
      <4> QED
        BY <2>2, <4>1, <4>2 DEF GuiPolls, Takes, Inv, Places, CallTypes
    <3>2. CASE UNCHANGED <<op, buf>>
      BY <2>2, <3>2 DEF GuiPolls, Inv, Places
    <3> QED
      BY <2>2, <3>1, <3>2, PollOutcomes DEF GuiPolls
  <2> QED
    BY <2>1, <2>2
<1>3. Carried' /\ AtaDelivers' /\ FsDelivers'
  BY <1>1, <1>2 DEF Content, Carried, AtaDelivers, FsDelivers, Request, Sector, Product, fsVars
<1>4. FsFinds' /\ ShellFinds'
  BY <1>1, <1>2 DEF Content, FsFinds, ShellFinds, Sector, Product, fsVars
<1> QED
  BY <1>3, <1>4 DEF Content

(* Nothing is on its way at first. *)
LEMMA ContentInit == Init => Content
BY DEF Init, Content, Carried, AtaDelivers, FsDelivers, FsFinds, ShellFinds, Ipc!Init, Ipc!Ready, Working

(* Every step keeps what is said of requests, replies and buffers. *)
LEMMA ContentKept == Inv /\ Content /\ [Next]_vars => Content'
<1> SUFFICES ASSUME Inv, Content, [Next]_vars PROVE Content'
  OBVIOUS
<1>1. CASE ShellStep
  BY <1>1, ShellEditsKeeps, ShellStartsCommandKeeps, ShellGoesOnKeeps, ShellWaitsForKeyKeeps, ShellAsksKeeps,
     ShellWaitsForReplyKeeps DEF ShellStep
<1>2. CASE FsStep
  BY <1>2, FsScansEntryKeeps, FsHasSectorKeeps, FsHasErrorKeeps, FsScanEndsKeeps, FsTakesRequestKeeps,
     FsWaitsForRequestKeeps, FsAsksKeeps, FsWaitsForSectorKeeps, FsAnswersKeeps DEF FsStep
<1>3. CASE AtaStep
  BY <1>3, AtaDropsKeeps, AtaReadsKeeps, AtaWaitsForRequestKeeps, AtaAnswersKeeps DEF AtaStep
<1>4. CASE \E b \in InputBodies : InputSends(b)
  BY <1>4, InputSendsKeeps
<1>5. CASE GuiForwards
  BY <1>5, GuiForwardsKeeps
<1>6. CASE \/ InputSkips \/ InputYields \/ GuiPolls \/ GuiSwitchesWindow \/ GuiHasNoWindow
           \/ GuiDraws \/ Interrupt \/ UNCHANGED vars
  BY <1>6, ElsewhereKeeps
<1> QED
  BY <1>1, <1>2, <1>3, <1>4, <1>5, <1>6 DEF Next, InputStep, GuiStep

(* What the shell and the file system server find is what the property says. *)
LEMMA ContentMatches == Inv /\ Content => RepliesMatchRequests
<1> SUFFICES ASSUME Inv, Content PROVE RepliesMatchRequests
  OBVIOUS
<1>1. At(Fs, "back") /\ Got(Fs).type = "ok" => mem[Fs] = want
  BY DEF Content, FsFinds
<1>2. /\ job.to = Fs => job.body.type \in {"list", "read"}
      /\ job.to = Ata => job.body.type = "ata"
      /\ job.to \in {Fs, Ata}
  BY Bodily DEF Inv, JobOK
<1>3. ASSUME At(Shell, "back"), Got(Shell).type = "ok"
      PROVE  mem[Shell] = CASE job.body.type = "list" -> "listing"
                            [] job.body.type = "read" -> "file"
                            [] OTHER -> job.body.arg
  <2>1. mem[Shell] = IF job.to = Fs THEN Product ELSE Sector(Shell)
    BY <1>3 DEF Content, ShellFinds
  <2> QED
    BY <1>2, <2>1 DEF Product, Sector
<1> QED
  BY <1>1, <1>3 DEF RepliesMatchRequests

(* A reply that says success finds in the client's buffer what the client  *)
(* asked for last: the sector it named, the listing or the file, although  *)
(* the reply names no request and the buffers are shared memory.           *)
THEOREM RepliesTrue == Spec => []RepliesMatchRequests
BY SpecInv, ContentInit, ContentKept, ContentMatches, PTL DEF Spec
=============================================================================
