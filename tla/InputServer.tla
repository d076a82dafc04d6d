----------------------------- MODULE InputServer -----------------------------
(***************************************************************************)
(* task_input_server of main.rs, between the keyboard and the mouse at one *)
(* end and the messages it sends to the GUI at the other.  The two queues  *)
(* are first-in first-out (InputQueue.tla); they fill while the server is  *)
(* blocked sending to the GUI or waits for the processor, and a byte that  *)
(* does not fit is lost.                                                   *)
(*                                                                         *)
(* Bytes carry what the server does not see and the properties are about:  *)
(* whether a key code is a repetition the keyboard made, and which byte of *)
(* which mouse packet it is.  Keys with a prefix byte 0xE0 are left out:   *)
(* the prefix has bit 7 set and does what a release does.                  *)
(***************************************************************************)
EXTENDS Naturals, Sequences

CONSTANTS
  Keys, NoKey,      \* keys with a character; NoKey is scan code 0
  ScanCapacity,     \* bytes that fit in SCAN_QUEUE (255)
  MouseCapacity,    \* bytes that fit in MOUSE_QUEUE (255)
  MaxLost           \* bound on the bytes lost from each queue

ASSUME InputServerAssumption ==
  /\ NoKey \notin Keys
  /\ ScanCapacity \in Nat \ {0} /\ MouseCapacity \in Nat \ {0} /\ MaxLost \in Nat

VARIABLES
  held, repeating,   \* the keyboard: keys that are down, and the one that repeats
  nextByte,          \* the mouse: the byte it sends next, [packet, index]
  scans, mice,       \* the two queues
  pc,                \* which of the two queues the server drains
  last,              \* last_scancode
  packet,            \* mouse_packet, up to mouse_cycle
  scansLost, missed, \* (history) key codes lost, presses the server passed over
  miceLost, mixed,   \* (history) mouse bytes lost, messages of mixed packets
  right, spells      \* (history) was the last message a packet? spells of wrong ones

keyVars   == <<held, repeating, scans, last, scansLost, missed>>
mouseVars == <<nextByte, mice, packet, miceLost, mixed, right, spells>>
vars      == <<keyVars, mouseVars, pc>>

Make(k, rep) == [key |-> k, release |-> FALSE, repeat |-> rep]
Break(k)     == [key |-> k, release |-> TRUE,  repeat |-> FALSE]

(* Packets are told apart by a number that comes round again, but not      *)
(* within the bytes that may be lost.                                      *)
LastPacket    == MaxLost \div 3 + 1
PacketAfter(n) == IF n = LastPacket THEN 0 ELSE n + 1
Positions     == [packet : 0 .. LastPacket, index : 0 .. 2]

(* The byte of the mouse's stream that comes after byte a.                 *)
PositionAfter(a) ==
  [index  |-> (a.index + 1) % 3,
   packet |-> IF a.index = 2 THEN PacketAfter(a.packet) ELSE a.packet]

Init ==
  /\ held = {} /\ repeating = NoKey
  /\ nextByte = [packet |-> 0, index |-> 0]
  /\ scans = <<>> /\ mice = <<>>
  /\ pc = "keys" /\ last = NoKey /\ packet = <<>>
  /\ scansLost = 0 /\ missed = 0 /\ miceLost = 0 /\ mixed = 0
  /\ right = TRUE /\ spells = 0
-----------------------------------------------------------------------------
(* The devices: each byte is queued by an interrupt handler.               *)

QueueScan(s) ==
  \/ Len(scans) < ScanCapacity /\ scans' = Append(scans, s) /\ UNCHANGED scansLost
  \/ /\ Len(scans) = ScanCapacity /\ scansLost < MaxLost
     /\ scansLost' = scansLost + 1 /\ UNCHANGED scans

Press(k) ==
  /\ k \notin held
  /\ held' = held \union {k} /\ repeating' = k
  /\ QueueScan(Make(k, FALSE))
  /\ UNCHANGED <<last, missed, mouseVars, pc>>

(* A key that is held down repeats until it is released or another key is  *)
(* pressed. *)
Repeat ==
  /\ repeating # NoKey
  /\ QueueScan(Make(repeating, TRUE))
  /\ UNCHANGED <<held, repeating, last, missed, mouseVars, pc>>

Release(k) ==
  /\ k \in held
  /\ held' = held \ {k}
  /\ repeating' = IF repeating = k THEN NoKey ELSE repeating
  /\ QueueScan(Break(k))
  /\ UNCHANGED <<last, missed, mouseVars, pc>>

(* The first byte of a packet has bit 3 set.  The others are the low bytes *)
(* of distances, in which bit 3 may be anything: it is clear in 0 .. 7 and *)
(* set in 8 .. 15 and, in two's complement, in -8 .. -1.                   *)
MouseByte(bit3) ==
  /\ nextByte.index = 0 => bit3
  /\ LET b == [packet |-> nextByte.packet, index |-> nextByte.index, bit3 |-> bit3]
     IN  \/ Len(mice) < MouseCapacity /\ mice' = Append(mice, b) /\ UNCHANGED miceLost
         \/ /\ Len(mice) = MouseCapacity /\ miceLost < MaxLost
            /\ miceLost' = miceLost + 1 /\ UNCHANGED mice
  /\ nextByte' = PositionAfter(nextByte)
  /\ UNCHANGED <<keyVars, packet, mixed, right, spells, pc>>
-----------------------------------------------------------------------------
(* The server.                                                             *)

(* A press of a key other than the last one is sent to the GUI. *)
SendsKey(s) == ~s.release /\ s.key # last

(* Faulty: a release does not reset the repeat guard. *)
TakesScanFaulty ==
  /\ pc = "keys" /\ scans # <<>>
  /\ LET s == Head(scans)
     IN  /\ last' = IF SendsKey(s) THEN s.key ELSE last
         /\ missed' = IF s.release \/ s.repeat \/ SendsKey(s) THEN missed ELSE missed + 1
  /\ scans' = Tail(scans)
  /\ UNCHANGED <<held, repeating, scansLost, mouseVars, pc>>

TakesScan ==
  /\ pc = "keys" /\ scans # <<>>
  /\ LET s == Head(scans)
     IN  /\ last' = IF SendsKey(s) THEN s.key ELSE IF s.release THEN NoKey ELSE last
         /\ missed' = IF s.release \/ s.repeat \/ SendsKey(s) THEN missed ELSE missed + 1
  /\ scans' = Tail(scans)
  /\ UNCHANGED <<held, repeating, scansLost, mouseVars, pc>>

HasDrainedKeys ==
  /\ pc = "keys" /\ scans = <<>> /\ pc' = "mouse"
  /\ UNCHANGED <<keyVars, mouseVars>>

(* Three bytes make a message; is it one the mouse sent?                  *)
IsPacket(p) == \A i \in 1 .. 3 : p[i].index = i - 1 /\ p[i].packet = p[1].packet

(* Did bit 3 make a second or third byte pass for a first one?             *)
Misled(p) == p[1].index # 0 /\ p[1].bit3

(* History of the messages; mixed leaves out those the server is misled    *)
(* into, which a mouse may cause without end.                              *)
Sends(p) ==
  /\ mixed'  = IF ~IsPacket(p) /\ ~Misled(p) THEN mixed + 1 ELSE mixed
  /\ spells' = IF ~IsPacket(p) /\ right THEN spells + 1 ELSE spells
  /\ right'  = IsPacket(p)

(* Faulty: the byte that completes a packet stays in the buffer. *)
AssemblesFaulty(b) ==
  LET p == Append(packet, b)
  IN  \/ Len(p) < 3 /\ packet' = p /\ UNCHANGED <<mixed, right, spells>>
      \/ Len(p) = 3 /\ packet' = <<b>> /\ Sends(p)

Assembles(b) ==
  LET p == Append(packet, b)
  IN  \/ Len(p) < 3 /\ packet' = p /\ UNCHANGED <<mixed, right, spells>>
      \/ Len(p) = 3 /\ packet' = <<>> /\ Sends(p)

(* Faulty: any byte may be the first of a packet. *)
TakesMouseByteFaulty ==
  /\ pc = "mouse" /\ mice # <<>>
  /\ Assembles(Head(mice))
  /\ mice' = Tail(mice)
  /\ UNCHANGED <<keyVars, nextByte, miceLost, pc>>

(* A byte without bit 3 is not the first of a packet, and is skipped. *)
TakesMouseByte ==
  /\ pc = "mouse" /\ mice # <<>>
  /\ IF packet = <<>> /\ ~Head(mice).bit3
       THEN UNCHANGED <<packet, mixed, right, spells>>
       ELSE Assembles(Head(mice))
  /\ mice' = Tail(mice)
  /\ UNCHANGED <<keyVars, nextByte, miceLost, pc>>

(* ... and yields. *)
HasDrainedMouse ==
  /\ pc = "mouse" /\ mice = <<>> /\ pc' = "keys"
  /\ UNCHANGED <<keyVars, mouseVars>>

Next ==
  \/ \E k \in Keys : Press(k) \/ Release(k)
  \/ Repeat
  \/ \E bit3 \in BOOLEAN : MouseByte(bit3)
  \/ TakesScan \/ HasDrainedKeys \/ TakesMouseByte \/ HasDrainedMouse

Spec == Init /\ [][Next]_vars
-----------------------------------------------------------------------------
(* Properties.                                                             *)

(* Every variable has its type: mouse_packet is left with two bytes at     *)
(* most, the first of them with bit 3. *)
TypeOK ==
  /\ held \subseteq Keys /\ repeating \in held \union {NoKey}
  /\ nextByte \in Positions
  /\ Len(scans) <= ScanCapacity /\ Len(mice) <= MouseCapacity
  /\ \A i \in 1 .. Len(scans) : scans[i] \in [key : Keys, release : BOOLEAN, repeat : BOOLEAN]
  /\ \A i \in 1 .. Len(mice) : mice[i] \in [packet : 0 .. LastPacket, index : 0 .. 2, bit3 : BOOLEAN]
  /\ pc \in {"keys", "mouse"}
  /\ last \in Keys \union {NoKey}
  /\ Len(packet) <= 2
  /\ Len(packet) > 0 => packet[1].bit3
  /\ scansLost \in 0 .. MaxLost /\ miceLost \in 0 .. MaxLost
  /\ missed \in Nat /\ mixed \in Nat /\ spells \in Nat /\ right \in BOOLEAN

(* The repeat guard never swallows a press of its own accord: for each     *)
(* press that is not reported to the GUI a byte was lost when SCAN_QUEUE   *)
(* was full, and one byte lost costs one press at most.                    *)
MissesPaidByLosses == missed <= scansLost

(* However the mouse moves, mouse_packet gets out of step with its packets *)
(* only where MOUSE_QUEUE lost a byte: each spell of wrong messages is     *)
(* paid for by a byte of its own, and there is none before the first loss. *)
(* How long a spell lasts is another question.                             *)
SpellsPaidByLosses == spells <= miceLost

(* The test of bit 3 ends a spell unless the movement misleads it: there   *)
(* is one wrong message at most for each byte lost, not counting those     *)
(* that begin with a second or third byte in which bit 3 is set.  Any      *)
(* mouse can send such bytes, also a slow one: -1 to the left or down is   *)
(* 0xFF; while it goes on the spell may go on.                             *)
MixedPaidByLosses == mixed <= miceLost

(* What the comment on the guard says: "and not a repeat of the same key". *)
RepeatsDropped ==
  [][ \A k \in Keys :
        last' = k /\ last # k => ~Head(scans).repeat ]_vars
=============================================================================
