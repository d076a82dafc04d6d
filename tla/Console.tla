------------------------------- MODULE Console -------------------------------
(***************************************************************************)
(* The frame buffer behind the lock WRITER (gop.rs), the system calls that *)
(* draw on it, and the panic handler.  A system call runs with interrupts  *)
(* off from its entry to its return.  A panic of a task is handled in the  *)
(* task itself, in ring 3 and with interrupts on: the timer preempts it    *)
(* wherever it is.                                                         *)
(***************************************************************************)
EXTENDS Naturals

CONSTANTS
  Tasks, Shell, Gui,
  ScreenBytes     \* of the GUI's pixel buffer (1024 x 768 x 4)

NoTask == "none"
MiB == 1048576

(* Clearing the screen and eight lines, each under the lock.               *)
Sections == 9

VARIABLES
  cpu,         \* tasks, spins (in a system call, for the lock) or halted
  running,     \* the task
  used,        \* USED_MEMORY
  writer,      \* the task that holds WRITER, or NoTask
  panicking,   \* the shell is in the panic handler
  written      \* sections of the panic handler done

vars == <<cpu, running, used, writer, panicking, written>>

Init ==
  /\ cpu = "tasks" /\ running = Shell
  /\ used = 0
  /\ writer = NoTask
  /\ panicking = FALSE /\ written = 0

Runs(t) == cpu = "tasks" /\ running = t
-----------------------------------------------------------------------------
(* The GUI server allocates its buffer.                                    *)
GuiStarts ==
  /\ Runs(Gui) /\ used = 0
  /\ used' = ScreenBytes
  /\ UNCHANGED <<cpu, running, writer, panicking, written>>

(* print, get_info, blit and the demo, of which only these tasks make use. *)
(* A call that gets the lock has let go of it before anything else         *)
(* happens; otherwise it spins. *)
ConsoleCall(t) ==
  /\ Runs(t) /\ ~(panicking /\ t = Shell)
  /\ writer # NoTask
  /\ cpu' = "spins"
  /\ UNCHANGED <<running, used, writer, panicking, written>>

(* free: 1 MiB less the used memory, in unsigned numbers.                  *)
FreePanics ==
  /\ Runs(Shell) /\ ~panicking
  /\ used > MiB
  /\ panicking' = TRUE
  /\ UNCHANGED <<cpu, running, used, writer, written>>

PanicLocks ==
  /\ Runs(Shell) /\ panicking /\ written < Sections
  /\ writer = NoTask /\ writer' = Shell
  /\ UNCHANGED <<cpu, running, used, panicking, written>>

PanicWrites ==
  /\ Runs(Shell) /\ panicking
  /\ writer = Shell /\ writer' = NoTask
  /\ written' = written + 1
  /\ UNCHANGED <<cpu, running, used, panicking>>

(* hlt is a fault in ring 3; the fault handler prints, with interrupts     *)
(* off, and halts for good. *)
PanicHalts ==
  /\ Runs(Shell) /\ panicking /\ written = Sections
  /\ cpu' = "halted"
  /\ UNCHANGED <<running, used, writer, panicking, written>>

(* The timer, or a task that yields.                                       *)
Switch(t) ==
  /\ cpu = "tasks" /\ t # running
  /\ running' = t
  /\ UNCHANGED <<cpu, used, writer, panicking, written>>

Stuck == cpu # "tasks" /\ UNCHANGED vars

Next ==
  \/ GuiStarts \/ FreePanics \/ PanicLocks \/ PanicWrites \/ PanicHalts
  \/ \E t \in {Shell, Gui} : ConsoleCall(t)
  \/ \E t \in Tasks : Switch(t)
  \/ Stuck

(* Every task has its turns, and the panic handler goes on in its own.     *)
Fairness ==
  /\ \A t \in Tasks : SF_vars(Switch(t))
  /\ SF_vars(PanicLocks) /\ SF_vars(PanicWrites) /\ SF_vars(PanicHalts)

Spec == Init /\ [][Next]_vars /\ Fairness
-----------------------------------------------------------------------------
(* A panic is reported to the last line, "System halted. Please restart    *)
(* your system.": the handler gets through its sections and halts. *)
PanicIsReported == panicking ~> (written = Sections /\ cpu = "halted")
=============================================================================
