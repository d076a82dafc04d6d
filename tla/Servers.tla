------------------------------- MODULE Servers -------------------------------
(***************************************************************************)
(* The five programs kernel_main spawns, as state machines over the IPC of *)
(* Rendezvous.tla: the shell (shell.rs), the file system, ATA and input    *)
(* servers (main.rs) and the GUI server (gui/mod.rs).  A step of a program *)
(* is one system call with the computation before it, or one decision      *)
(* between two calls; programs interleave freely, as under preemption.     *)
(*                                                                         *)
(* The programs share one address space: a request carries the address of  *)
(* a buffer on the client's stack and the server writes the data there, so *)
(* that the reply message says no more than how it went.                   *)
(***************************************************************************)
EXTENDS Messages

CONSTANTS
  Owners,      \* tasks that own windows: where the GUI may send keys
  MaxEvents,   \* bound on the input events queued by the interrupt handlers
  MaxEntries   \* bound on the directory entries in use (16 in the code)

ASSUME ServersAssumption ==
  /\ Owners \subseteq 1 .. 3 /\ Owners # {}
  /\ MaxEvents \in Nat \ {0} /\ MaxEntries \in Nat \ {0}

Shell == 1   Fs == 2   Ata == 3   Input == 4   Gui == 5

Programs == 1 .. 5

(* Message types: 20 and 30 to the GUI (20 goes on to a window's owner), 10 *)
(* and 11 to the file system, 1 to the ATA server, replies 0 and 999.      *)
Keys     == {"char", "newline"}
Sectors  == {"mbr", "super", "inode", "dir", "entry", "data"}
Bodies   == [type : {"key"}, arg : Keys]
              \union [type : {"mouse", "list", "read", "ok", "err"}, arg : {"none"}]
              \union [type : {"ata"}, arg : Sectors]

Body(type)   == [type |-> type, arg |-> "none"]
Key(k)       == [type |-> "key", arg |-> k]
AtaRead(lba) == [type |-> "ata", arg |-> lba]
Status(good) == Body(IF good THEN "ok" ELSE "err")

VARIABLES
  op, buf, ret,   \* what the kernel keeps for the programs: Rendezvous.tla
  pc,        \* pc[p]: where program p is between calls
  job,       \* the shell's request: [to, body]
  client,    \* client[p]: whom server p is serving, Fs or Ata
  task,      \* what the file system server is doing: "list" or "read"
  want,      \* the sector it reads next
  entries,   \* how many directory entries it has looked up
  outcome,   \* outcome[p]: did the request server p is serving succeed?
  ioError,   \* (history) did a disk read fail in the request Fs serves?
  mem,       \* mem[p]: what the buffer p passed in its request holds
  events,    \* input events queued by the interrupt handlers
  active     \* owner of the GUI's active window, 0 without one

ipcVars   == <<op, buf, ret>>
shellVars == <<job>>
fsVars    == <<task, want, entries, ioError>>
vars      == <<ipcVars, pc, shellVars, client, fsVars, outcome, mem, events, active>>

Ipc == INSTANCE Rendezvous WITH Dests <- Programs

Clients  == {Shell, Fs}
Contents == Sectors \union {"blank", "listing", "file"}

NoJob == [to |-> Fs, body |-> Body("list")]

Init ==
  /\ Ipc!Init
  /\ pc = [p \in Programs |-> "loop"]
  /\ job = NoJob
  /\ client = [p \in {Fs, Ata} |-> Shell]
  /\ task = "list" /\ want = "super" /\ entries = 0
  /\ outcome = [p \in {Fs, Ata} |-> FALSE]
  /\ ioError = FALSE
  /\ mem = [p \in Clients |-> "blank"]
  /\ events = 0
  /\ active \in Owners
-----------------------------------------------------------------------------
(* System calls, as the kernel serves them: a receive takes the message of *)
(* the waiting sender with the lowest identifier.                          *)
Send(p, d, b) == Ipc!SendMeets(p, d, b) \/ Ipc!SendWaits(p, d, b)

Candidates(p, f) == {q \in Programs : OffersMessageTo(op[q], p) /\ Passes(f, q)}

(* Faulty: the highest identifier. *)
TakeFirstFaulty(p, f) ==
  \E q \in Candidates(p, f) :
    (\A r \in Candidates(p, f) : q >= r) /\ Ipc!RecvMeets(p, f, q)

TakeFirst(p, f) ==
  \E q \in Candidates(p, f) :
    (\A r \in Candidates(p, f) : q <= r) /\ Ipc!RecvMeets(p, f, q)

Recv(p, f) == TakeFirst(p, f) \/ Ipc!RecvWaits(p, f)

TryRecv(p, f) ==
  \/ TakeFirst(p, f)
  \/ Candidates(p, f) = {} /\ ret' = [ret EXCEPT ![p] = "err"] /\ UNCHANGED <<op, buf>>

(* p is at label l of its program, with no call pending... *)
At(p, l) == pc[p] = l /\ op[p] = Ready

(* ... and goes on to label m. *)
Goto(p, m) == pc' = [pc EXCEPT ![p] = m]

(* The message p received last.  Once p has read it, it is forgotten, as   *)
(* locals are when a request is done with: no state differs from another   *)
(* only in a value that is never read again.                               *)
Got(p)    == buf[p].body
Forget(p) == buf' = [buf EXCEPT ![p] = NoMsg] /\ UNCHANGED <<op, ret>>
-----------------------------------------------------------------------------
(* task_shell.  The commands that use IPC are ls and cat (to the file      *)
(* system server), dump and diskinfo (to the ATA server); the others end   *)
(* in system calls that do not block, and so does editing the line.        *)
Requests ==
  {[to |-> Fs, body |-> Body("list")], [to |-> Fs, body |-> Body("read")],
   [to |-> Ata, body |-> AtaRead("data")], [to |-> Ata, body |-> AtaRead("mbr")]}

ShellWaitsForKey ==
  /\ At(Shell, "loop") /\ Recv(Shell, Anybody) /\ Goto(Shell, "got")
  /\ UNCHANGED <<job, client, fsVars, outcome, mem, events, active>>

ShellEdits ==
  /\ At(Shell, "got") /\ Forget(Shell) /\ Goto(Shell, "loop")
  /\ UNCHANGED <<job, client, fsVars, outcome, mem, events, active>>

ShellStartsCommand ==
  /\ At(Shell, "got") /\ Got(Shell) = Key("newline")
  /\ job' \in Requests /\ Forget(Shell) /\ Goto(Shell, "ask")
  /\ UNCHANGED <<client, fsVars, outcome, mem, events, active>>

ShellAsks ==
  /\ At(Shell, "ask")
  /\ Send(Shell, job.to, job.body) /\ Goto(Shell, "wait")
  /\ mem' = [mem EXCEPT ![Shell] = "blank"]
  /\ UNCHANGED <<job, client, fsVars, outcome, events, active>>

ShellWaitsForReply ==
  /\ At(Shell, "wait") /\ Recv(Shell, job.to) /\ Goto(Shell, "back")
  /\ UNCHANGED <<job, client, fsVars, outcome, mem, events, active>>

(* diskinfo reads the superblock after the MBR, whatever the first reply. *)
ShellGoesOn ==
  /\ At(Shell, "back") /\ Forget(Shell)
  /\ mem' = [mem EXCEPT ![Shell] = "blank"]
  /\ IF job.body = AtaRead("mbr")
       THEN job' = [to |-> Ata, body |-> AtaRead("super")] /\ Goto(Shell, "ask")
       ELSE job' = NoJob /\ Goto(Shell, "loop")
  /\ UNCHANGED <<client, fsVars, outcome, events, active>>

ShellStep ==
  \/ ShellWaitsForKey \/ ShellEdits \/ ShellStartsCommand
  \/ ShellAsks \/ ShellWaitsForReply \/ ShellGoesOn
-----------------------------------------------------------------------------
(* task_fs_server. *)
FsWaitsForRequest ==
  /\ At(Fs, "loop") /\ Recv(Fs, Anybody) /\ Goto(Fs, "got")
  /\ UNCHANGED <<job, client, fsVars, outcome, mem, events, active>>

(* Faulty: takes every message for a request. *)
FsTakesRequestFaulty ==
  /\ At(Fs, "got") /\ Forget(Fs)
  /\ client' = [client EXCEPT ![Fs] = buf[Fs].sender]
  /\ task' = Got(Fs).type
  /\ Goto(Fs, "ask")
  /\ UNCHANGED <<job, want, entries, ioError, outcome, mem, events, active>>

(* Messages of any other type, a key say, are dropped. *)
FsTakesRequest ==
  /\ At(Fs, "got") /\ Forget(Fs)
  /\ IF Got(Fs).type \in {"list", "read"}
       THEN /\ client' = [client EXCEPT ![Fs] = buf[Fs].sender]
            /\ task' = Got(Fs).type
            /\ Goto(Fs, "ask")
       ELSE Goto(Fs, "loop") /\ UNCHANGED <<client, task>>
  /\ UNCHANGED <<job, want, entries, ioError, outcome, mem, events, active>>

(* fs_read_sector: a zeroed buffer, the request, the reply of task 3 only. *)
FsAsks ==
  /\ At(Fs, "ask")
  /\ Send(Fs, Ata, AtaRead(want)) /\ Goto(Fs, "wait")
  /\ mem' = [mem EXCEPT ![Fs] = "blank"]
  /\ UNCHANGED <<job, client, fsVars, outcome, events, active>>

(* Faulty: takes any message for the answer. *)
FsWaitsForSectorFaulty ==
  /\ At(Fs, "wait") /\ Recv(Fs, Anybody) /\ Goto(Fs, "back")
  /\ UNCHANGED <<job, client, fsVars, outcome, mem, events, active>>

FsWaitsForSector ==
  /\ At(Fs, "wait") /\ Recv(Fs, Ata) /\ Goto(Fs, "back")
  /\ UNCHANGED <<job, client, fsVars, outcome, mem, events, active>>

FsReads(lba) ==
  want' = lba /\ Goto(Fs, "ask") /\ UNCHANGED <<entries, outcome>>

(* The end of a request: a listing, however much of it there is, is copied *)
(* to the client and is a success; a file is one if its data was read.     *)
FsEnds(found) ==
  /\ outcome' = [outcome EXCEPT ![Fs] = (task = "list") \/ found]
  /\ Goto(Fs, "answer")
  /\ UNCHANGED <<entries, want>>

FsScans == Goto(Fs, "scan") /\ UNCHANGED <<entries, want, outcome>>

(* The sector has been used; at the end of a request the client's buffer   *)
(* is written.                                                             *)
FsWrites ==
  mem' = [[mem EXCEPT ![Fs] = "blank"] EXCEPT ![client[Fs]] =
            IF pc'[Fs] # "answer" THEN @
            ELSE IF task = "list" THEN "listing"
            ELSE IF outcome'[Fs] THEN "file" ELSE @]

(* Superblock, root inode and root directory, then the entries; an entry   *)
(* that was read is listed, or leads to the file's data.                   *)
FsHasSector ==
  /\ At(Fs, "back") /\ Got(Fs).type = "ok" /\ Forget(Fs)
  /\ CASE want = "super" -> FsReads("inode")
       [] want = "inode" -> FsReads("dir")
       [] want = "entry" /\ task = "read" -> FsReads("data")
       [] want = "data"  -> FsEnds(TRUE)
       [] OTHER -> FsScans
  /\ FsWrites
  /\ UNCHANGED <<job, client, task, ioError, events, active>>

(* A listing goes on after an entry that cannot be read. *)
FsHasError ==
  /\ At(Fs, "back") /\ Got(Fs).type # "ok" /\ Forget(Fs)
  /\ IF want = "entry" /\ task = "list" THEN FsScans ELSE FsEnds(FALSE)
  /\ FsWrites
  /\ ioError' = TRUE
  /\ UNCHANGED <<job, client, task, events, active>>

(* The next entry in use, or the one with the name sought, if there is one. *)
FsScansEntry ==
  /\ At(Fs, "scan") /\ entries < MaxEntries
  /\ entries' = entries + 1
  /\ want' = "entry" /\ Goto(Fs, "ask")
  /\ UNCHANGED <<ipcVars, job, client, task, ioError, outcome, mem, events, active>>

FsScanEnds ==
  /\ At(Fs, "scan") /\ FsEnds(FALSE) /\ FsWrites
  /\ UNCHANGED <<ipcVars, job, client, task, ioError, events, active>>

FsAnswers ==
  /\ At(Fs, "answer")
  /\ Send(Fs, client[Fs], Status(outcome[Fs])) /\ Goto(Fs, "loop")
  /\ client' = [client EXCEPT ![Fs] = Shell]
  /\ outcome' = [outcome EXCEPT ![Fs] = FALSE]
  /\ task' = "list" /\ want' = "super" /\ entries' = 0 /\ ioError' = FALSE
  /\ UNCHANGED <<job, mem, events, active>>

FsStep ==
  \/ FsWaitsForRequest \/ FsTakesRequest \/ FsAsks \/ FsWaitsForSector
  \/ FsHasSector \/ FsHasError \/ FsScansEntry \/ FsScanEnds \/ FsAnswers
-----------------------------------------------------------------------------
(* task_ata_server: one read per request of type 1, copied to the client's *)
(* buffer before the reply; other messages are dropped.                    *)
AtaWaitsForRequest ==
  /\ At(Ata, "loop") /\ Recv(Ata, Anybody) /\ Goto(Ata, "got")
  /\ UNCHANGED <<job, client, fsVars, outcome, mem, events, active>>

(* Faulty: reports success for a read that failed. *)
AtaReadsBlindly(good) ==
  /\ At(Ata, "got") /\ Got(Ata).type = "ata" /\ Forget(Ata)
  /\ client'  = [client EXCEPT ![Ata] = buf[Ata].sender]
  /\ outcome' = [outcome EXCEPT ![Ata] = TRUE]
  /\ mem' = IF good THEN [mem EXCEPT ![buf[Ata].sender] = Got(Ata).arg] ELSE mem
  /\ Goto(Ata, "answer")
  /\ UNCHANGED <<job, fsVars, events, active>>

(* Faulty: no reply to a read that failed. *)
AtaReadsSilently(good) ==
  /\ At(Ata, "got") /\ Got(Ata).type = "ata" /\ Forget(Ata)
  /\ client'  = [client EXCEPT ![Ata] = buf[Ata].sender]
  /\ outcome' = [outcome EXCEPT ![Ata] = good]
  /\ mem' = IF good THEN [mem EXCEPT ![buf[Ata].sender] = Got(Ata).arg] ELSE mem
  /\ Goto(Ata, IF good THEN "answer" ELSE "loop")
  /\ UNCHANGED <<job, fsVars, events, active>>

(* read_sector fills the client's buffer or fails.  That after a timeout it *)
(* may succeed with another sector is the subject of AtaPio and RelizFS.   *)
AtaReads(good) ==
  /\ At(Ata, "got") /\ Got(Ata).type = "ata" /\ Forget(Ata)
  /\ client'  = [client EXCEPT ![Ata] = buf[Ata].sender]
  /\ outcome' = [outcome EXCEPT ![Ata] = good]
  /\ mem' = IF good THEN [mem EXCEPT ![buf[Ata].sender] = Got(Ata).arg] ELSE mem
  /\ Goto(Ata, "answer")
  /\ UNCHANGED <<job, fsVars, events, active>>

AtaDrops ==
  /\ At(Ata, "got") /\ Got(Ata).type # "ata" /\ Forget(Ata) /\ Goto(Ata, "loop")
  /\ UNCHANGED <<job, client, fsVars, outcome, mem, events, active>>

AtaAnswers ==
  /\ At(Ata, "answer")
  /\ Send(Ata, client[Ata], Status(outcome[Ata])) /\ Goto(Ata, "loop")
  /\ client' = [client EXCEPT ![Ata] = Shell]
  /\ outcome' = [outcome EXCEPT ![Ata] = FALSE]
  /\ UNCHANGED <<job, fsVars, mem, events, active>>

AtaStep ==
  AtaWaitsForRequest \/ AtaReads(TRUE) \/ AtaReads(FALSE) \/ AtaDrops \/ AtaAnswers
-----------------------------------------------------------------------------
(* task_input_server: takes an event off its queues and sends it to the    *)
(* GUI, or makes nothing of it (a release, a repeat, part of a packet), or *)
(* yields when there is none.                                              *)
InputSends(b) ==
  /\ At(Input, "loop") /\ events > 0
  /\ events' = events - 1
  /\ Send(Input, Gui, b)
  /\ UNCHANGED <<pc, job, client, fsVars, outcome, mem, active>>

InputSkips ==
  /\ At(Input, "loop") /\ events > 0
  /\ events' = events - 1
  /\ UNCHANGED <<ipcVars, pc, job, client, fsVars, outcome, mem, active>>

InputYields ==
  /\ At(Input, "loop") /\ events = 0
  /\ ret' = [ret EXCEPT ![Input] = "ok"]
  /\ UNCHANGED <<op, buf, pc, job, client, fsVars, outcome, mem, events, active>>

InputBodies == {Key(k) : k \in Keys} \union {Body("mouse")}

InputStep == InputSkips \/ InputYields \/ \E b \in InputBodies : InputSends(b)
-----------------------------------------------------------------------------
(* task_gui_server: polls for messages until there is none, then draws and *)
(* yields.  A key goes to the owner of the active window, a mouse click    *)
(* changes the active window.  (The tab key would, too, but no scancode is *)
(* mapped to it, and no program sends the messages 40 and 41 that create   *)
(* and close windows.)                                                     *)
GuiPolls ==
  /\ At(Gui, "loop") /\ TryRecv(Gui, Anybody) /\ Goto(Gui, "polled")
  /\ UNCHANGED <<job, client, fsVars, outcome, mem, events, active>>

(* Faulty: sends the key back to where it came from. *)
GuiForwardsBack ==
  /\ At(Gui, "polled") /\ ret[Gui] = "ok"
  /\ Got(Gui).type = "key" /\ active # 0
  /\ Send(Gui, buf[Gui].sender, Got(Gui)) /\ Goto(Gui, "loop")
  /\ UNCHANGED <<job, client, fsVars, outcome, mem, events, active>>

(* Faulty: sends the key to the GUI itself. *)
GuiForwardsToItself ==
  /\ At(Gui, "polled") /\ ret[Gui] = "ok"
  /\ Got(Gui).type = "key" /\ active # 0
  /\ Send(Gui, Gui, Got(Gui)) /\ Goto(Gui, "loop")
  /\ UNCHANGED <<job, client, fsVars, outcome, mem, events, active>>

GuiForwards ==
  /\ At(Gui, "polled") /\ ret[Gui] = "ok"
  /\ Got(Gui).type = "key" /\ active # 0
  /\ Send(Gui, active, Got(Gui)) /\ Goto(Gui, "loop")
  /\ UNCHANGED <<job, client, fsVars, outcome, mem, events, active>>

GuiSwitchesWindow ==
  /\ At(Gui, "polled") /\ ret[Gui] = "ok" /\ Forget(Gui)
  /\ Got(Gui) = Body("mouse")
  /\ active' \in Owners \union {0}
  /\ Goto(Gui, "loop")
  /\ UNCHANGED <<job, client, fsVars, outcome, mem, events>>

GuiHasNoWindow ==
  /\ At(Gui, "polled") /\ ret[Gui] = "ok" /\ Forget(Gui)
  /\ Got(Gui).type = "key" /\ active = 0
  /\ Goto(Gui, "loop")
  /\ UNCHANGED <<job, client, fsVars, outcome, mem, events, active>>

GuiDraws ==
  /\ At(Gui, "polled") /\ ret[Gui] # "ok"
  /\ buf' = [buf EXCEPT ![Gui] = NoMsg]
  /\ ret' = [ret EXCEPT ![Gui] = "ok"] /\ Goto(Gui, "loop")
  /\ UNCHANGED <<op, job, client, fsVars, outcome, mem, events, active>>

GuiStep == GuiPolls \/ GuiForwards \/ GuiSwitchesWindow \/ GuiHasNoWindow \/ GuiDraws
-----------------------------------------------------------------------------
(* keyboard_isr and mouse_isr queue an event. *)
Interrupt ==
  /\ events < MaxEvents
  /\ events' = events + 1
  /\ UNCHANGED <<ipcVars, pc, job, client, fsVars, outcome, mem, active>>

Next == ShellStep \/ FsStep \/ AtaStep \/ InputStep \/ GuiStep \/ Interrupt

(* A program that can run does run (RoundRobin in Kernel.tla), and none of *)
(* its computations between two calls goes on for ever: the disk is polled *)
(* a bounded number of times.                                              *)
Fairness ==
  WF_vars(ShellStep) /\ WF_vars(FsStep) /\ WF_vars(AtaStep)
    /\ WF_vars(InputStep) /\ WF_vars(GuiStep)

Spec == Init /\ [][Next]_vars /\ Fairness
-----------------------------------------------------------------------------
(* Properties.                                                             *)

Labels == {"loop", "got", "ask", "wait", "back", "scan", "answer", "polled"}

(* Every variable holds a value of its type, and no program receives a     *)
(* message it has no code for other than to drop it. *)
TypeOK ==
  /\ op \in [Programs -> [kind : Kinds, peer : 0 .. 5, msg : Ipc!AllMessages \union {NoMsg}]]
  /\ buf \in [Programs -> Ipc!AllMessages \union {NoMsg}]
  /\ ret \in [Programs -> RaxValues]
  /\ pc \in [Programs -> Labels]
  /\ job \in [to : {Fs, Ata}, body : Bodies]
  /\ client \in [{Fs, Ata} -> Clients]
  /\ task \in {"list", "read"} /\ want \in Sectors \ {"mbr"}
  /\ entries \in 0 .. MaxEntries
  /\ outcome \in [{Fs, Ata} -> BOOLEAN] /\ ioError \in BOOLEAN
  /\ mem \in [Clients -> Contents]
  /\ events \in 0 .. MaxEvents
  /\ active \in Owners \union {0}

(* Some program can always run.  This is what Kernel.tla asks of programs  *)
(* that block (MayBlock there): the idle case of select_next_task, which   *)
(* lets a blocked task go on, is never reached by these five.              *)
SomeoneCanRun == \E p \in Programs : op[p] = Ready

(* p cannot go on before q takes a step: p is blocked sending to q, or     *)
(* receiving from q only. *)
WaitsFor(p, q) == op[p].kind # "ready" /\ op[p].peer = q

(* Programs never wait for each other in a circle: the GUI for a window's  *)
(* owner, the shell for the file system, that for the disk, and the input  *)
(* server for the GUI, but never back.  So in every set of programs there  *)
(* is one that waits for none of the set.                                  *)
NoCircularWait ==
  \A S \in SUBSET Programs : S # {} => \E p \in S : \A q \in S : ~WaitsFor(p, q)

(* Program p's request is with server s and not answered: p is about to    *)
(* receive the answer, or blocked in that call. *)
AwaitsReplyOf(p, s) ==
  /\ s = IF p = Shell THEN job.to ELSE Ata
  /\ At(p, "wait") \/ (pc[p] = "back" /\ op[p] = Receiving(s))

(* A server works for a client that waits for its answer: request and      *)
(* reply are never out of step, though the reply names no request and      *)
(* asking and awaiting the answer are two system calls.                    *)
ServesWaitingClient ==
  \A s \in {Fs, Ata} :
    pc[s] \in {"ask", "wait", "back", "scan", "answer"} => AwaitsReplyOf(client[s], s)

(* A buffer on a client's stack is written by a server only while the      *)
(* client is in the function that lent it and awaits the answer, not when  *)
(* the stack may be in use for something else. *)
BufferLent ==
  [][\A p \in Clients :
       mem'[p] \notin {mem[p], "blank"} => \E s \in {Fs, Ata} : AwaitsReplyOf(p, s)]_vars

(* What a client finds in its buffer when the reply says success is what   *)
(* it asked for last: the very sector, the listing or the file.            *)
RepliesMatchRequests ==
  /\ At(Fs, "back") /\ Got(Fs).type = "ok" => mem[Fs] = want
  /\ At(Shell, "back") /\ Got(Shell).type = "ok" =>
       mem[Shell] = CASE job.body.type = "list" -> "listing"
                      [] job.body.type = "read" -> "file"
                      [] OTHER -> job.body.arg

(* A command's request to the servers is answered, whatever keys and mouse *)
(* events come meanwhile. *)
CommandsEnd == pc[Shell] = "wait" ~> At(Shell, "back")

(* The input server and the GUI, which block when they pass an event on,   *)
(* do not stay blocked. *)
EventsPassOn ==
  \A p \in {Input, Gui} : op[p].kind = "sending" ~> op[p] = Ready

(* ls fails when the directory cannot be read: a listing is reported as a  *)
(* success only if every disk read it is made of succeeded.                *)
ListErrorReported ==
  At(Fs, "answer") /\ task = "list" /\ outcome[Fs] => ~ioError
=============================================================================
