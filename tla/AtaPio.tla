------------------------------- MODULE AtaPio -------------------------------
(***************************************************************************)
(* ata.rs: read_sector polls a drive that works on its own.  The polling   *)
(* ends after a timeout, the drive's command does not: a later read meets  *)
(* a drive that still answers an earlier one.  Callers take turns (the     *)
(* boot code, then the ATA server alone), always with drive 0.             *)
(***************************************************************************)
EXTENDS Integers

CONSTANT Polls   \* status reads before the timeout (100_000 in the code)

ASSUME AtaAssumption == Polls \in Nat \ {0}

(* The address registers: low, mid and high bytes, and the four bits that  *)
(* go with the drive's number. *)
Registers == 1 .. 4
Part(lba, i) ==
  CASE i = 1 -> lba % 256
    [] i = 2 -> (lba \div 256) % 256
    [] i = 3 -> (lba \div 65536) % 256
    [] i = 4 -> (lba \div 16777216) % 16
Parts(lba) == [i \in Registers |-> Part(lba, i)]

VARIABLES
  drive,      \* none, idle, busy (BSY), data (DRQ) or error (ERR)
  address,    \* the address registers
  latched,    \* the address of the command the drive took last
  step,       \* what read_sector does next: 0 nothing, 1 .. 4 a register,
              \* 5 the command, 6 a look at the status
  asked,      \* the sector it was called for
  polls,      \* status reads left
  result,     \* of the call: none yet, ok or error
  buffer,     \* the address of the sector in the caller's buffer
  timeouts,   \* (history) calls that ended in a timeout
  spoiled     \* (history) calls that ended with another sector's outcome

ataVars ==
  <<drive, address, latched, step, asked, polls, result, buffer, timeouts, spoiled>>

AtaInit ==
  /\ drive \in {"none", "idle"}
  /\ address = Parts(0) /\ latched = Parts(0)
  /\ step = 0 /\ asked = 0 /\ polls = 0 /\ result = "none" /\ buffer = Parts(0)
  /\ timeouts = 0 /\ spoiled = 0
-----------------------------------------------------------------------------
(* The drive.  While it is active what a write to a register does is       *)
(* undefined: the write may be lost. *)
Active == drive \in {"busy", "data"}

(* It finds the sector, or fails. *)
DriveFinds ==
  /\ drive = "busy" /\ drive' \in {"data", "error"}
  /\ UNCHANGED <<address, latched, step, asked, polls, result, buffer, timeouts, spoiled>>
-----------------------------------------------------------------------------
(* read_sector.                                                            *)
ReadSector(lba) ==
  /\ step = 0
  /\ step' = 1 /\ asked' = lba /\ polls' = Polls /\ result' = "none"
  /\ UNCHANGED <<drive, address, latched, buffer, timeouts, spoiled>>

(* The device register, with the top bits, is written first.               *)
RegisterOf(s) == IF s = 1 THEN 4 ELSE s - 1

(* Faulty: forgets the mid register. *)
WrittenFaulty(s) ==
  IF s = 3 THEN address
  ELSE [address EXCEPT ![RegisterOf(s)] = Parts(asked)[RegisterOf(s)]]

Written(s) == [address EXCEPT ![RegisterOf(s)] = Parts(asked)[RegisterOf(s)]]

WritesRegister ==
  /\ step \in Registers
  /\ \/ address' = Written(step)
     \/ Active /\ UNCHANGED address
  /\ step' = step + 1
  /\ UNCHANGED <<drive, latched, asked, polls, result, buffer, timeouts, spoiled>>

WritesCommand ==
  /\ step = 5
  /\ \/ drive # "none" /\ drive' = "busy" /\ latched' = address
     \/ (Active \/ drive = "none") /\ UNCHANGED <<drive, latched>>
  /\ step' = 6
  /\ UNCHANGED <<address, asked, polls, result, buffer, timeouts, spoiled>>

(* The outcome is that of the drive's command, asked for or not.           *)
Counted == spoiled' = IF latched = Parts(asked) THEN spoiled ELSE spoiled + 1

NoDriveDetected ==
  /\ step = 6 /\ drive = "none"
  /\ step' = 0 /\ result' = "error"
  /\ UNCHANGED <<drive, address, latched, asked, polls, buffer, timeouts, spoiled>>

ReportsError ==
  /\ step = 6 /\ drive = "error"
  /\ step' = 0 /\ result' = "error" /\ Counted
  /\ UNCHANGED <<drive, address, latched, asked, polls, buffer, timeouts>>

Transfers ==
  /\ step = 6 /\ drive = "data"
  /\ drive' = "idle" /\ buffer' = latched
  /\ step' = 0 /\ result' = "ok" /\ Counted
  /\ UNCHANGED <<address, latched, asked, polls, timeouts>>

(* Faulty: the polls are not counted. *)
PollsLeftFaulty == polls

PollsLeft == polls - 1

PollsAgain ==
  /\ step = 6 /\ drive \in {"idle", "busy"} /\ PollsLeft # 0
  /\ polls' = PollsLeft
  /\ UNCHANGED <<drive, address, latched, step, asked, result, buffer, timeouts, spoiled>>

(* The drive is left as it is. *)
TimesOut ==
  /\ step = 6 /\ drive \in {"idle", "busy"} /\ PollsLeft = 0
  /\ step' = 0 /\ result' = "error" /\ timeouts' = timeouts + 1
  /\ UNCHANGED <<drive, address, latched, asked, polls, buffer, spoiled>>

Driver ==
  \/ WritesRegister \/ WritesCommand
  \/ NoDriveDetected \/ ReportsError \/ Transfers \/ PollsAgain \/ TimesOut

-----------------------------------------------------------------------------
(* Properties.                                                             *)

(* A late answer spoils one later read: read_sector returns no more wrong  *)
(* sectors, or errors of other sectors, than it has timed out, and without *)
(* a timeout none. *)
OneWrongPerTimeout == spoiled <= timeouts

(* Whatever the drive does or fails to do, read_sector returns.            *)
ReadsEnd == (step # 0) ~> (step = 0)

=============================================================================
