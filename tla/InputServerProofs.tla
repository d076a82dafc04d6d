-------------------------- MODULE InputServerProofs --------------------------
(***************************************************************************)
(* Proofs about task_input_server for any keys, queues of any capacity and *)
(* any number of lost bytes.                                               *)
(*                                                                         *)
(* The properties bound what the server has reported wrongly by what was   *)
(* lost.  They are not inductive: the harm of a byte lost now is done when *)
(* the server comes to the place in the queue.  The invariants count it    *)
(* there already.                                                          *)
(***************************************************************************)
EXTENDS InputServer, FiniteSetTheorems, SequenceTheorems, TLAPS

Scans == [key : Keys, release : BOOLEAN, repeat : BOOLEAN]
Bytes == [packet : 0 .. LastPacket, index : 0 .. 2, bit3 : BOOLEAN]

(* TypeOK for the keyboard's variables and for the mouse's. *)
KeyTypes ==
  /\ held \subseteq Keys /\ repeating \in held \union {NoKey}
  /\ scans \in Seq(Scans) /\ Len(scans) <= ScanCapacity
  /\ last \in Keys \union {NoKey}
  /\ scansLost \in 0 .. MaxLost /\ missed \in Nat

MouseTypes ==
  /\ nextByte \in Positions
  /\ mice \in Seq(Bytes) /\ Len(mice) <= MouseCapacity
  /\ packet \in Seq(Bytes) /\ Len(packet) <= 2
  /\ Len(packet) > 0 => packet[1].bit3
  /\ miceLost \in 0 .. MaxLost /\ mixed \in Nat
  /\ right \in BOOLEAN /\ spells \in Nat

(* What the repeat guard, now l, will be when the server has taken i bytes *)
(* of queue q. *)
Guard(q, l, i) == IF i = 0 THEN l ELSE IF q[i].release THEN NoKey ELSE q[i].key

(* The waiting presses that it will pass over, and whether it would pass   *)
(* over the next one: that of a key whose release was lost.                *)
ToMiss(q, l) ==
  {i \in 1 .. Len(q) : ~q[i].release /\ ~q[i].repeat /\ q[i].key = Guard(q, l, i - 1)}

MissesNext == IF Guard(scans, last, Len(scans)) \in Keys \ held THEN 1 ELSE 0

KeyInv == KeyTypes /\ missed + Cardinality(ToMiss(scans, last)) + MissesNext <= scansLost

(* Does byte b come after byte a in the stream of the mouse? *)
Follows(b, a) ==
  /\ b.index = (a.index + 1) % 3
  /\ b.packet = IF a.index = 2 THEN PacketAfter(a.packet) ELSE a.packet

(* The byte after the i-th of queue q, 0 for the first, if n is sent next. *)
ByteAfter(q, n, i) == IF i = Len(q) THEN n ELSE q[i + 1]

NextTaken == ByteAfter(mice, nextByte, 0)

(* The places where bytes are missing, in the queue and in mouse_packet.   *)
GapsInQueue(q, n) == {i \in 1 .. Len(q) : ~Follows(ByteAfter(q, n, i), q[i])}

GapsInPacket(p, n) ==
    (IF Len(p) = 2 /\ ~Follows(p[2], p[1]) THEN 1 ELSE 0)
  + (IF Len(p) > 0 /\ ~Follows(n, p[Len(p)]) THEN 1 ELSE 0)

Gaps == Cardinality(GapsInQueue(mice, nextByte)) + GapsInPacket(packet, NextTaken)

(* Bit 3 is set in each first byte of a packet.                            *)
Marked(b) == b.index = 0 => b.bit3

(* Does mouse_packet start with the first byte of a packet, or will it?    *)
Framed == IF packet = <<>> THEN NextTaken.index = 0 ELSE packet[1].index = 0

(* A spell that is about to start: its byte was lost before this message.  *)
Slip == IF right /\ ~Framed THEN 1 ELSE 0

MouseInv ==
  /\ MouseTypes
  /\ \A i \in 1 .. Len(mice) : Marked(mice[i])
  /\ \A i \in 1 .. Len(packet) : Marked(packet[i])
  /\ mixed + Gaps <= miceLost
  /\ spells + Gaps + Slip <= miceLost

Inv == KeyInv /\ MouseInv /\ pc \in {"keys", "mouse"}
-----------------------------------------------------------------------------
(* Sequences and sets of their places.                                     *)

(* What the queue is after a byte was added, and after one was taken.      *)
LEMMA Appended ==
  ASSUME NEW S, NEW s \in Seq(S), NEW e \in S
  PROVE  /\ Append(s, e) \in Seq(S) /\ Len(Append(s, e)) = Len(s) + 1
         /\ Append(s, e)[Len(s) + 1] = e
         /\ \A i \in 1 .. Len(s) : Append(s, e)[i] = s[i]
BY AppendProperties

LEMMA Taken ==
  ASSUME NEW S, NEW s \in Seq(S), s # <<>>
  PROVE  /\ Tail(s) \in Seq(S) /\ Len(s) \in Nat \ {0} /\ Len(Tail(s)) = Len(s) - 1
         /\ Head(s) = s[1] /\ s[1] \in S
         /\ \A i \in 1 .. Len(s) - 1 : Tail(s)[i] = s[i + 1]
BY HeadTailProperties, LenProperties, ElementOfSeq

(* A set of places counts one less when the first of the queue is taken,   *)
(* if that was one of them.                                                *)
LEMMA Shifted ==
  ASSUME NEW n \in Nat, NEW S \in SUBSET (1 .. n + 1)
  PROVE  /\ IsFiniteSet(S) /\ Cardinality(S) \in Nat
         /\ LET T == {i \in 1 .. n : i + 1 \in S}
            IN  /\ IsFiniteSet(T) /\ Cardinality(T) \in Nat
                /\ Cardinality(S) = Cardinality(T) + IF 1 \in S THEN 1 ELSE 0
<1> DEFINE T == {i \in 1 .. n : i + 1 \in S}
           f == [i \in T |-> i + 1]
<1>1. IsFiniteSet(1 .. n + 1) /\ IsFiniteSet(1 .. n)
  BY FS_Interval
<1>2. IsFiniteSet(S) /\ IsFiniteSet(T)
  <2>1. T \in SUBSET (1 .. n)
    OBVIOUS
  <2> QED
    BY <1>1, <2>1, FS_Subset
<1>3. f \in Bijection(T, S \ {1})
  <2>1. f \in [T -> S \ {1}]
    OBVIOUS
  <2>2. \A i, j \in T : f[i] = f[j] => i = j
    OBVIOUS
  <2>3. ASSUME NEW j \in S \ {1} PROVE \E i \in T : f[i] = j
    <3>1. j - 1 \in T /\ f[j - 1] = j
      OBVIOUS
    <3> QED
      BY <3>1
  <2> HIDE DEF f, T
  <2>4. f \in Injection(T, S \ {1})
    BY <2>1, <2>2 DEF Injection, IsInjective
  <2>5. f \in Surjection(T, S \ {1})
    BY <2>1, <2>3 DEF Surjection
  <2> QED
    BY <2>4, <2>5 DEF Bijection
<1>4. Cardinality(S \ {1}) = Cardinality(T)
  BY <1>2, <1>3, FS_Bijection DEF ExistsBijection
<1>5. Cardinality(S \ {1}) = IF 1 \in S THEN Cardinality(S) - 1 ELSE Cardinality(S)
  BY <1>2, FS_RemoveElement
<1>6. Cardinality(S) \in Nat /\ Cardinality(T) \in Nat
  BY <1>2, FS_CardinalityType
<1> QED
  BY <1>2, <1>4, <1>5, <1>6

(* A part of a set of places counts no more than the set, and one place    *)
(* more counts at most one more.                                           *)
LEMMA Counted ==
  ASSUME NEW n \in Nat, NEW S \in SUBSET (1 .. n), NEW T, NEW j \in Int, T \subseteq S \union {j}
  PROVE  /\ IsFiniteSet(T) /\ Cardinality(S) \in Nat /\ Cardinality(T) \in Nat
         /\ Cardinality(T) <= Cardinality(S) + 1
         /\ T \subseteq S => Cardinality(T) <= Cardinality(S)
<1>1. IsFiniteSet(S) /\ Cardinality(S) \in Nat
  <2>1. IsFiniteSet(1 .. n)
    BY FS_Interval
  <2> QED
    BY <2>1, FS_Subset, FS_CardinalityType
<1>2. IsFiniteSet(S \union {j}) /\ Cardinality(S \union {j}) <= Cardinality(S) + 1
  BY <1>1, FS_AddElement
<1>3. IsFiniteSet(T) /\ Cardinality(T) <= Cardinality(S \union {j})
  BY <1>2, FS_Subset
<1>4. Cardinality(T) \in Nat /\ Cardinality(S \union {j}) \in Nat
  BY <1>2, <1>3, FS_CardinalityType
<1>5. T \subseteq S => Cardinality(T) <= Cardinality(S)
  BY <1>1, FS_Subset
<1> QED
  BY <1>1, <1>2, <1>3, <1>4, <1>5
-----------------------------------------------------------------------------
(* The keyboard.                                                           *)

(* A code at the end of the queue decides what the guard will be, and is   *)
(* passed over if it is a press that the guard will be then.               *)
LEMMA QueueGrows ==
  ASSUME NEW q \in Seq(Scans), NEW l, NEW s \in Scans
  PROVE  /\ Guard(Append(q, s), l, Len(Append(q, s))) = IF s.release THEN NoKey ELSE s.key
         /\ Cardinality(ToMiss(q, l)) \in Nat
         /\ Cardinality(ToMiss(Append(q, s), l)) =
              Cardinality(ToMiss(q, l))
              + IF ~s.release /\ ~s.repeat /\ s.key = Guard(q, l, Len(q)) THEN 1 ELSE 0
<1> DEFINE n == Len(q)
           r == Append(q, s)
           M == ToMiss(q, l)
<1>1. n \in Nat /\ Len(r) = n + 1 /\ r[n + 1] = s /\ \A i \in 1 .. n : r[i] = q[i]
  BY Appended, LenProperties
<1>2. \A i \in 0 .. n : Guard(r, l, i) = Guard(q, l, i)
  BY <1>1 DEF Guard
<1>3. M \in SUBSET (1 .. n) /\ n + 1 \notin M
  BY <1>1 DEF ToMiss
<1>4. /\ ~s.release /\ ~s.repeat /\ s.key = Guard(q, l, n) => ToMiss(r, l) = M \union {n + 1}
      /\ ~(~s.release /\ ~s.repeat /\ s.key = Guard(q, l, n)) => ToMiss(r, l) = M
  <2>1. \A i \in 1 .. n : i \in ToMiss(r, l) <=> i \in M
    BY <1>1, <1>2 DEF ToMiss
  <2>2. n + 1 \in ToMiss(r, l) <=> ~s.release /\ ~s.repeat /\ s.key = Guard(q, l, n)
    BY <1>1, <1>2 DEF ToMiss
  <2>3. ToMiss(r, l) \subseteq 1 .. n + 1
    BY <1>1 DEF ToMiss
  <2>4. 1 .. n + 1 = 1 .. n \union {n + 1}
    BY <1>1
  <2>5. \A i : i \in ToMiss(r, l) => i \in 1 .. n \/ i = n + 1
    BY <2>3, <2>4
  <2>6. \A i : i \in M => i \in 1 .. n
    BY <1>3
  <2> HIDE DEF M, r, n
  <2> QED
    BY <2>1, <2>2, <2>5, <2>6
<1>5. IsFiniteSet(M) /\ Cardinality(M) \in Nat
  <2>1. IsFiniteSet(1 .. n)
    BY <1>1, FS_Interval
  <2> QED
    BY <1>3, <2>1, FS_Subset, FS_CardinalityType
<1>6. Cardinality(M \union {n + 1}) = Cardinality(M) + 1
  BY <1>3, <1>5, FS_AddElement
<1>7. Guard(r, l, Len(r)) = IF s.release THEN NoKey ELSE s.key
  BY <1>1 DEF Guard
<1> DEFINE P == ~s.release /\ ~s.repeat /\ s.key = Guard(q, l, Len(q))
<1>8. Cardinality(ToMiss(r, l)) = Cardinality(M) + IF P THEN 1 ELSE 0
  <2>1. CASE P
    <3>1. Cardinality(ToMiss(r, l)) = Cardinality(M) + 1
      BY <2>1, <1>4, <1>6
    <3> QED
      BY <2>1, <3>1
  <2>2. CASE ~P
    <3>1. Cardinality(ToMiss(r, l)) = Cardinality(M) + 0
      BY <2>2, <1>4, <1>5
    <3> QED
      BY <2>2, <3>1
  <2> QED
    BY <2>1, <2>2
<1> QED
  BY <1>5, <1>7, <1>8

(* When the first code is taken, what the others will meet stays the same. *)
LEMMA QueueShrinks ==
  ASSUME NEW q \in Seq(Scans), q # <<>>, NEW l
  PROVE  LET m == Guard(q, l, 1)
         IN  /\ Guard(Tail(q), m, Len(Tail(q))) = Guard(q, l, Len(q))
             /\ Cardinality(ToMiss(Tail(q), m)) \in Nat
             /\ Cardinality(ToMiss(q, l)) =
                  Cardinality(ToMiss(Tail(q), m))
                  + IF ~q[1].release /\ ~q[1].repeat /\ q[1].key = l THEN 1 ELSE 0
<1> DEFINE m == Guard(q, l, 1)
           r == Tail(q)
           n == Len(q) - 1
           T == {i \in 1 .. n : i + 1 \in ToMiss(q, l)}
<1>1. n \in Nat /\ Len(q) = n + 1 /\ Len(r) = n /\ \A i \in 1 .. n : r[i] = q[i + 1]
  BY Taken
<1>2. \A i \in 0 .. n : Guard(r, m, i) = Guard(q, l, i + 1)
  BY <1>1 DEF Guard
<1>3. ToMiss(r, m) = T
  <2>1. \A i \in 1 .. n : i \in ToMiss(r, m) <=> i + 1 \in ToMiss(q, l)
    <3> TAKE i \in 1 .. n
    <3>1. r[i] = q[i + 1] /\ i - 1 \in 0 .. n /\ (i - 1) + 1 = (i + 1) - 1 /\ i + 1 \in 1 .. n + 1
      BY <1>1
    <3>2. Guard(r, m, i - 1) = Guard(q, l, (i + 1) - 1)
      BY <1>2, <3>1
    <3> QED
      BY <1>1, <3>1, <3>2 DEF ToMiss
  <2>2. ToMiss(r, m) \subseteq 1 .. n
    BY <1>1 DEF ToMiss
  <2> QED
    BY <2>1, <2>2
<1>4. ToMiss(q, l) \in SUBSET (1 .. n + 1)
  BY <1>1 DEF ToMiss
<1>5. 1 \in ToMiss(q, l) <=> ~q[1].release /\ ~q[1].repeat /\ q[1].key = l
  BY <1>1 DEF ToMiss, Guard
<1>6. Guard(r, m, Len(r)) = Guard(q, l, Len(q))
  BY <1>1, <1>2
<1> HIDE DEF n
<1>7. /\ Cardinality(T) \in Nat
      /\ Cardinality(ToMiss(q, l)) = Cardinality(T) + IF 1 \in ToMiss(q, l) THEN 1 ELSE 0
  BY <1>1, <1>4, Shifted, ZenonT(40)
<1> QED
  BY <1>3, <1>5, <1>6, <1>7

(* A key code that is queued or lost: a lost one pays for the press that   *)
(* may be passed over because of it. *)
LEMMA QueueScanOK ==
  ASSUME KeyInv, NEW s \in Scans, QueueScan(s), UNCHANGED <<last, missed>>,
         held' \subseteq Keys, repeating' \in held' \union {NoKey},
         s.release \/ (s.key \in held' /\ (s.repeat \/ s.key \notin held))
  PROVE  KeyInv'
<1> DEFINE M == Cardinality(ToMiss(scans, last))
<1>1. /\ scans \in Seq(Scans) /\ Len(scans) \in Nat /\ Len(scans) <= ScanCapacity
      /\ missed \in Nat /\ scansLost \in 0 .. MaxLost /\ missed + M + MissesNext <= scansLost
      /\ MaxLost \in Nat /\ ScanCapacity \in Nat /\ NoKey \notin Keys
  BY InputServerAssumption, LenProperties DEF KeyInv, KeyTypes
<1>2. M \in Nat /\ MissesNext \in {0, 1} /\ MissesNext' \in {0, 1}
  BY <1>1, QueueGrows DEF MissesNext
<1>3. CASE scans' = Append(scans, s) /\ Len(scans) < ScanCapacity /\ UNCHANGED scansLost
  <2>1. /\ scans' \in Seq(Scans) /\ Len(scans') = Len(scans) + 1
        /\ Guard(scans', last', Len(scans')) = IF s.release THEN NoKey ELSE s.key
        /\ Cardinality(ToMiss(scans', last')) =
             M + IF ~s.release /\ ~s.repeat /\ s.key = Guard(scans, last, Len(scans)) THEN 1 ELSE 0
    BY <1>1, <1>3, QueueGrows, Appended
  <2>2. MissesNext' = 0
    BY <1>1, <2>1 DEF MissesNext
  <2>3. ~s.release /\ ~s.repeat /\ s.key = Guard(scans, last, Len(scans)) => MissesNext = 1
    BY DEF MissesNext, Scans
  <2>4. Cardinality(ToMiss(scans', last')) <= M + MissesNext
    BY <1>2, <2>1, <2>3
  <2>5. Cardinality(ToMiss(scans', last')) \in Nat
    BY <1>2, <2>1
  <2>6. missed' + Cardinality(ToMiss(scans', last')) + MissesNext' <= scansLost'
    BY <1>1, <1>2, <1>3, <2>2, <2>4, <2>5
  <2> QED
    BY <1>1, <1>3, <2>1, <2>6 DEF KeyInv, KeyTypes
<1>4. CASE scansLost < MaxLost /\ scansLost' = scansLost + 1 /\ UNCHANGED scans
  <2>1. missed' + M + MissesNext' <= scansLost' /\ scansLost' \in 0 .. MaxLost
    BY <1>1, <1>2, <1>4, SMTT(20)
  <2> QED
    BY <1>1, <1>4, <2>1 DEF KeyInv, KeyTypes
<1> QED
  BY <1>3, <1>4 DEF QueueScan

(* The keyboard: presses, repetitions and releases. *)
LEMMA KeyboardOK ==
  ASSUME KeyInv, \/ \E k \in Keys : Press(k) \/ Release(k)
                 \/ Repeat
  PROVE  KeyInv'
<1> USE DEF KeyInv, KeyTypes
<1>1. ASSUME NEW k \in Keys, Press(k) PROVE KeyInv'
  <2>1. Make(k, FALSE) \in Scans /\ ~Make(k, FALSE).release /\ Make(k, FALSE).key = k
    BY DEF Make, Scans
  <2>2. k \notin held /\ k \in held' /\ held' \subseteq Keys /\ repeating' \in held' \union {NoKey}
    BY <1>1 DEF Press
  <2> HIDE DEF KeyInv
  <2> QED
    BY <1>1, <2>1, <2>2, QueueScanOK DEF Press
<1>2. ASSUME NEW k \in Keys, Release(k) PROVE KeyInv'
  <2>1. Break(k) \in Scans /\ Break(k).release
    BY DEF Break, Scans
  <2>2. held' \subseteq Keys /\ repeating' \in held' \union {NoKey}
    BY <1>2 DEF Release
  <2> HIDE DEF KeyInv
  <2> QED
    BY <1>2, <2>1, <2>2, QueueScanOK DEF Release
<1>3. ASSUME Repeat PROVE KeyInv'
  <2>1. repeating \in held /\ held \subseteq Keys
    BY <1>3 DEF Repeat
  <2>2. /\ Make(repeating, TRUE) \in Scans /\ Make(repeating, TRUE).repeat
        /\ Make(repeating, TRUE).key = repeating
    BY <2>1 DEF Make, Scans
  <2>3. held' = held /\ repeating' = repeating
    BY <1>3 DEF Repeat
  <2> HIDE DEF KeyInv
  <2> QED
    BY <1>3, <2>1, <2>2, <2>3, QueueScanOK DEF Repeat
<1> QED
  BY <1>1, <1>2, <1>3

(* The server takes a key code: it misses what it was to miss. *)
LEMMA TakesScanOK ==
  ASSUME KeyInv, TakesScan
  PROVE  KeyInv'
<1> DEFINE s == scans[1]
           miss == ~s.release /\ ~s.repeat /\ s.key = last
<1>1. /\ scans \in Seq(Scans) /\ scans # <<>> /\ Len(scans) <= ScanCapacity
      /\ missed \in Nat /\ scansLost \in 0 .. MaxLost
      /\ missed + Cardinality(ToMiss(scans, last)) + MissesNext <= scansLost
      /\ MaxLost \in Nat /\ ScanCapacity \in Nat
      /\ UNCHANGED <<held, repeating, scansLost>>
  BY InputServerAssumption DEF KeyInv, KeyTypes, TakesScan
<1>2. /\ Head(scans) = s /\ s \in Scans /\ Len(scans) \in Nat
      /\ scans' = Tail(scans) /\ scans' \in Seq(Scans) /\ Len(scans') = Len(scans) - 1
  BY <1>1, Taken DEF TakesScan
<1>3. last' = Guard(scans, last, 1) /\ last' \in Keys \union {NoKey}
  BY <1>1, <1>2 DEF TakesScan, SendsKey, Guard, Scans
<1>4. missed' = missed + IF miss THEN 1 ELSE 0
  BY <1>1, <1>2 DEF TakesScan, SendsKey
<1>5. /\ Guard(scans', last', Len(scans')) = Guard(scans, last, Len(scans))
      /\ Cardinality(ToMiss(scans', last')) \in Nat
      /\ Cardinality(ToMiss(scans, last)) = Cardinality(ToMiss(scans', last')) + IF miss THEN 1 ELSE 0
  BY <1>1, <1>2, <1>3, QueueShrinks
<1>6. MissesNext' = MissesNext /\ MissesNext \in {0, 1}
  BY <1>1, <1>5 DEF MissesNext
<1> HIDE DEF miss
<1>7. missed' + Cardinality(ToMiss(scans', last')) + MissesNext' <= scansLost' /\ missed' \in Nat
  BY <1>1, <1>4, <1>5, <1>6
<1> QED
  BY <1>1, <1>2, <1>3, <1>7 DEF KeyInv, KeyTypes
-----------------------------------------------------------------------------
(* The mouse.                                                              *)

(* The number of a packet, and of the one after it. *)
LEMMA PacketNumbers ==
  /\ LastPacket \in Nat
  /\ \A n \in 0 .. LastPacket : PacketAfter(n) \in 0 .. LastPacket
<1>1. LastPacket \in Nat
  BY InputServerAssumption, SMT DEF LastPacket
<1> QED
  BY <1>1 DEF PacketAfter

(* A set of places in a queue is finite. *)
LEMMA GapsFinite ==
  ASSUME NEW q \in Seq(Bytes), NEW n
  PROVE  /\ Len(q) \in Nat /\ GapsInQueue(q, n) \in SUBSET (1 .. Len(q))
         /\ IsFiniteSet(GapsInQueue(q, n)) /\ Cardinality(GapsInQueue(q, n)) \in Nat
<1>1. Len(q) \in Nat /\ GapsInQueue(q, n) \in SUBSET (1 .. Len(q))
  BY LenProperties DEF GapsInQueue
<1>2. IsFiniteSet(1 .. Len(q))
  BY <1>1, FS_Interval
<1> QED
  BY <1>1, <1>2, FS_Subset, FS_CardinalityType

(* The byte that was expected makes no gap. *)
LEMMA StreamGrows ==
  ASSUME NEW q \in Seq(Bytes), NEW n, NEW b \in Bytes, NEW m,
         b.index = n.index, b.packet = n.packet, Follows(m, b)
  PROVE  /\ GapsInQueue(Append(q, b), m) = GapsInQueue(q, n)
         /\ ByteAfter(Append(q, b), m, 0).index = ByteAfter(q, n, 0).index
         /\ ByteAfter(Append(q, b), m, 0).packet = ByteAfter(q, n, 0).packet
<1> DEFINE k == Len(q)
           r == Append(q, b)
<1>1. k \in Nat /\ Len(r) = k + 1 /\ r[k + 1] = b /\ \A i \in 1 .. k : r[i] = q[i]
  BY Appended, LenProperties
<1>2. \A i \in 0 .. k : /\ ByteAfter(r, m, i).index = ByteAfter(q, n, i).index
                        /\ ByteAfter(r, m, i).packet = ByteAfter(q, n, i).packet
  <2> TAKE i \in 0 .. k
  <2>1. CASE i = k
    BY <1>1, <2>1 DEF ByteAfter
  <2>2. CASE i \in 0 .. k - 1
    BY <1>1, <2>2 DEF ByteAfter
  <2> QED
    BY <1>1, <2>1, <2>2
<1>3. \A i \in 1 .. k : i \in GapsInQueue(r, m) <=> i \in GapsInQueue(q, n)
  BY <1>1, <1>2 DEF GapsInQueue, Follows
<1>4. k + 1 \notin GapsInQueue(r, m)
  BY <1>1 DEF GapsInQueue, ByteAfter
<1>5. GapsInQueue(r, m) \subseteq 1 .. k + 1 /\ GapsInQueue(q, n) \subseteq 1 .. k
  BY <1>1 DEF GapsInQueue
<1>6. \A i : i \in 1 .. k + 1 => i \in 1 .. k \/ i = k + 1
  BY <1>1
<1>7. GapsInQueue(r, m) = GapsInQueue(q, n)
  <2> HIDE DEF r, k
  <2> QED
    BY <1>3, <1>4, <1>5, <1>6
<1> QED
  BY <1>1, <1>2, <1>7

(* A lost byte makes one gap at most, at the end of the queue. *)
LEMMA StreamBreaks ==
  ASSUME NEW q \in Seq(Bytes), q # <<>>, NEW n, NEW m
  PROVE  /\ Cardinality(GapsInQueue(q, m)) <= Cardinality(GapsInQueue(q, n)) + 1
         /\ ByteAfter(q, m, 0) = ByteAfter(q, n, 0)
<1>1. Len(q) \in Nat \ {0}
  BY Taken
<1>2. GapsInQueue(q, m) \subseteq GapsInQueue(q, n) \union {Len(q)}
  BY <1>1 DEF GapsInQueue, ByteAfter
<1>3. GapsInQueue(q, n) \in SUBSET (1 .. Len(q)) /\ Len(q) \in Int
  BY <1>1, GapsFinite
<1> QED
  BY <1>1, <1>2, <1>3, Counted DEF ByteAfter

(* When a byte is taken the gap behind it leaves the queue. *)
LEMMA StreamShrinks ==
  ASSUME NEW q \in Seq(Bytes), q # <<>>, NEW n
  PROVE  Cardinality(GapsInQueue(q, n)) =
           Cardinality(GapsInQueue(Tail(q), n))
           + IF Follows(ByteAfter(Tail(q), n, 0), q[1]) THEN 0 ELSE 1
<1> DEFINE r == Tail(q)
           k == Len(q) - 1
           T == {i \in 1 .. k : i + 1 \in GapsInQueue(q, n)}
<1>1. k \in Nat /\ Len(q) = k + 1 /\ Len(r) = k /\ \A i \in 1 .. k : r[i] = q[i + 1]
  BY Taken
<1>2. \A i \in 0 .. k : ByteAfter(r, n, i) = ByteAfter(q, n, i + 1)
  <2> TAKE i \in 0 .. k
  <2>1. CASE i = k
    BY <1>1, <2>1 DEF ByteAfter
  <2>2. ASSUME i # k PROVE ByteAfter(r, n, i) = ByteAfter(q, n, i + 1)
    <3>1. i + 1 \in 1 .. k /\ i # Len(r) /\ i + 1 # Len(q)
      <4> HIDE DEF k, r
      <4> QED
        BY <1>1, <2>2
    <3>2. r[i + 1] = q[(i + 1) + 1]
      BY <1>1, <3>1
    <3> QED
      BY <3>1, <3>2 DEF ByteAfter
  <2> QED
    BY <2>1, <2>2
<1>3. GapsInQueue(r, n) = T
  <2>1. \A i \in 1 .. k : i \in GapsInQueue(r, n) <=> i + 1 \in GapsInQueue(q, n)
    <3> TAKE i \in 1 .. k
    <3>1. r[i] = q[i + 1] /\ ByteAfter(r, n, i) = ByteAfter(q, n, i + 1) /\ i + 1 \in 1 .. k + 1
      BY <1>1, <1>2
    <3> QED
      BY <1>1, <3>1 DEF GapsInQueue
  <2>2. GapsInQueue(r, n) \subseteq 1 .. k
    BY <1>1 DEF GapsInQueue
  <2> QED
    BY <2>1, <2>2
<1>4. GapsInQueue(q, n) \in SUBSET (1 .. k + 1)
  BY <1>1, GapsFinite
<1>5. 1 \in GapsInQueue(q, n) <=> ~Follows(ByteAfter(r, n, 0), q[1])
  BY <1>1, <1>2 DEF GapsInQueue
<1> HIDE DEF k
<1>6. /\ Cardinality(T) \in Nat
      /\ Cardinality(GapsInQueue(q, n)) = Cardinality(T) + IF 1 \in GapsInQueue(q, n) THEN 1 ELSE 0
  BY <1>1, <1>4, Shifted, ZenonT(40)
<1> QED
  BY <1>3, <1>5, <1>6

(* Only the place of the next byte counts. *)
LEMMA SamePlace ==
  ASSUME NEW p, NEW n, NEW m, n.index = m.index, n.packet = m.packet
  PROVE  GapsInPacket(p, n) = GapsInPacket(p, m)
BY DEF GapsInPacket, Follows

(* A byte of the mouse is queued or lost. *)
LEMMA MouseByteOK ==
  ASSUME MouseInv, NEW bit3 \in BOOLEAN, MouseByte(bit3)
  PROVE  MouseInv'
<1> DEFINE b == [packet |-> nextByte.packet, index |-> nextByte.index, bit3 |-> bit3]
<1>1. /\ nextByte \in Positions
      /\ mice \in Seq(Bytes) /\ Len(mice) \in Nat /\ Len(mice) <= MouseCapacity
      /\ miceLost \in 0 .. MaxLost /\ mixed \in Nat /\ spells \in Nat /\ right \in BOOLEAN
      /\ MouseCapacity \in Nat \ {0} /\ MaxLost \in Nat
      /\ UNCHANGED <<packet, mixed, right, spells>>
  BY InputServerAssumption, LenProperties DEF MouseInv, MouseTypes, Positions, MouseByte
<1>2. b \in Bytes /\ b.index = nextByte.index /\ b.packet = nextByte.packet /\ Marked(b)
  BY <1>1 DEF MouseByte, Bytes, Positions, Marked
<1>3. nextByte' \in Positions /\ Follows(nextByte', b)
  <2> DEFINE n == PositionAfter(nextByte)
  <2>1. nextByte.packet \in 0 .. LastPacket /\ nextByte.index \in 0 .. 2
    BY <1>1 DEF Positions
  <2>2. /\ n.index = (nextByte.index + 1) % 3 /\ n.index \in 0 .. 2
        /\ n.packet = IF nextByte.index = 2 THEN PacketAfter(nextByte.packet) ELSE nextByte.packet
    BY <2>1 DEF PositionAfter
  <2>3. n.packet \in 0 .. LastPacket
    BY <2>1, <2>2, PacketNumbers
  <2>4. n \in Positions
    BY <2>2, <2>3 DEF PositionAfter, Positions
  <2> HIDE DEF n
  <2> QED
    BY <2>2, <2>4 DEF MouseByte, Follows, n
<1>4. /\ Cardinality(GapsInQueue(mice, nextByte)) \in Nat
      /\ GapsInPacket(packet, NextTaken) \in 0 .. 2
  BY <1>1, GapsFinite DEF GapsInPacket
<1>5. CASE mice' = Append(mice, b) /\ Len(mice) < MouseCapacity /\ UNCHANGED miceLost
  <2>1. /\ mice' \in Seq(Bytes) /\ Len(mice') = Len(mice) + 1 /\ mice'[Len(mice) + 1] = b
        /\ \A i \in 1 .. Len(mice) : mice'[i] = mice[i]
    BY <1>1, <1>2, <1>5, Appended
  <2>2. \A i \in 1 .. Len(mice') : Marked(mice'[i])
    BY <1>1, <1>2, <2>1 DEF MouseInv
  <2>3. /\ GapsInQueue(mice', nextByte') = GapsInQueue(mice, nextByte)
        /\ NextTaken'.index = NextTaken.index /\ NextTaken'.packet = NextTaken.packet
    BY <1>1, <1>2, <1>3, <1>5, StreamGrows, SMTT(20) DEF NextTaken
  <2>4. GapsInPacket(packet, NextTaken') = GapsInPacket(packet, NextTaken)
    BY <2>3, SamePlace
  <2>5. Gaps' = Gaps
    BY <1>1, <2>3, <2>4 DEF Gaps
  <2>6. Slip' = Slip
    BY <1>1, <2>3 DEF Framed, Slip
  <2> QED
    BY <1>1, <1>3, <1>5, <2>1, <2>2, <2>5, <2>6 DEF MouseInv, MouseTypes, Marked
<1>6. CASE Len(mice) = MouseCapacity /\ miceLost < MaxLost /\ miceLost' = miceLost + 1 /\ UNCHANGED mice
  <2>1. mice # <<>>
    BY <1>1, <1>6
  <2>2. /\ Cardinality(GapsInQueue(mice, nextByte')) <= Cardinality(GapsInQueue(mice, nextByte)) + 1
        /\ Cardinality(GapsInQueue(mice, nextByte')) \in Nat
        /\ NextTaken' = NextTaken
    BY <1>1, <1>6, <2>1, StreamBreaks, GapsFinite DEF NextTaken
  <2>3. Gaps' <= Gaps + 1 /\ Gaps' \in Nat /\ Gaps \in Nat
    BY <1>1, <1>4, <1>6, <2>2 DEF Gaps
  <2>4. Slip' = Slip /\ Slip \in {0, 1}
    BY <1>1, <2>2 DEF Framed, Slip
  <2>5. mixed' + Gaps' <= miceLost' /\ spells' + Gaps' + Slip' <= miceLost'
    <3>1. mixed + Gaps <= miceLost /\ spells + Gaps + Slip <= miceLost
      BY DEF MouseInv
    <3> DEFINE x == Gaps
               y == Gaps'
               u == Slip
    <3>2. /\ y <= x + 1 /\ x \in Nat /\ y \in Nat /\ u \in {0, 1}
          /\ mixed + x <= miceLost /\ spells + x + u <= miceLost
      BY <2>3, <2>4, <3>1
    <3> HIDE DEF x, y, u
    <3>3. mixed + y <= miceLost + 1 /\ spells + y + u <= miceLost + 1
      BY <1>1, <3>2
    <3> QED
      BY <1>1, <1>6, <2>4, <3>3 DEF y, u
  <2>6. miceLost' \in 1 .. MaxLost
    BY <1>1, <1>6
  <2> QED
    BY <1>1, <1>3, <1>6, <2>5, <2>6 DEF MouseInv, MouseTypes, Marked
<1> QED
  BY <1>5, <1>6 DEF MouseByte

(* The server takes a byte of the mouse.  A message that is wrong uses up  *)
(* a gap, or the slip that was waiting, unless a spell is on.              *)
LEMMA TakesMouseByteOK ==
  ASSUME MouseInv, TakesMouseByte
  PROVE  MouseInv'
<1> DEFINE b == mice[1]
           gap == IF Follows(NextTaken', b) THEN 0 ELSE 1
<1>1. /\ nextByte \in Positions
      /\ mice \in Seq(Bytes) /\ Len(mice) <= MouseCapacity /\ MouseCapacity \in Nat
      /\ packet \in Seq(Bytes) /\ Len(packet) <= 2
      /\ miceLost \in 0 .. MaxLost /\ MaxLost \in Nat
      /\ mixed \in Nat /\ spells \in Nat /\ right \in BOOLEAN
  BY InputServerAssumption DEF MouseInv, MouseTypes
<1>2. /\ mice # <<>> /\ mice' = Tail(mice)
      /\ nextByte' = nextByte /\ miceLost' = miceLost
  BY DEF TakesMouseByte
<1>3. Len(packet) \in 0 .. 2 /\ (packet = <<>> <=> Len(packet) = 0)
  <2>1. Len(packet) \in Nat
    BY <1>1, LenProperties
  <2>2. packet = <<>> <=> Len(packet) = 0
    BY <1>1, EmptySeq
  <2> DEFINE n == Len(packet)
  <2>3. n <= 2 /\ n \in Nat
    BY <1>1, <2>1
  <2> HIDE DEF n
  <2>4. n \in 0 .. 2
    BY <2>3
  <2> QED
    BY <2>2, <2>4 DEF n
<1>4. /\ mice' \in Seq(Bytes) /\ Len(mice') = Len(mice) - 1 /\ Len(mice) \in Nat \ {0}
      /\ Head(mice) = b /\ b \in Bytes /\ \A i \in 1 .. Len(mice') : mice'[i] = mice[i + 1]
  BY <1>1, <1>2, Taken
<1>5. NextTaken = b /\ Marked(b) /\ \A i \in 1 .. Len(mice') : Marked(mice'[i])
  <2>1. NextTaken = b
    BY <1>1, <1>4 DEF NextTaken, ByteAfter
  <2>2. \A i \in 1 .. Len(mice) : Marked(mice[i])
    BY DEF MouseInv
  <2>3. 1 \in 1 .. Len(mice) /\ \A i \in 1 .. Len(mice') : i + 1 \in 1 .. Len(mice)
    BY <1>4
  <2> QED
    BY <1>4, <2>1, <2>2, <2>3
<1>6. /\ Cardinality(GapsInQueue(mice, nextByte)) = Cardinality(GapsInQueue(mice', nextByte')) + gap
      /\ Cardinality(GapsInQueue(mice', nextByte')) \in Nat /\ gap \in {0, 1}
  BY <1>1, <1>2, <1>4, StreamShrinks, GapsFinite DEF NextTaken
<1> DEFINE Q == Cardinality(GapsInQueue(mice', nextByte'))
           m == NextTaken'
<1>7. /\ Q \in Nat /\ gap \in {0, 1}
      /\ Gaps = Q + gap + GapsInPacket(packet, b) /\ Gaps' = Q + GapsInPacket(packet', m)
  BY <1>5, <1>6 DEF Gaps
<1>8. \A i \in 1 .. Len(packet) : Marked(packet[i])
  BY DEF MouseInv
<1>9. /\ miceLost \in Nat /\ Slip \in {0, 1} /\ Slip' \in {0, 1}
      /\ mixed + Gaps <= miceLost /\ spells + Gaps + Slip <= miceLost
  BY <1>1 DEF MouseInv, Slip
<1> DEFINE Kept ==
             /\ packet' \in Seq(Bytes) /\ Len(packet') <= 2
             /\ Len(packet') > 0 => packet'[1].bit3
             /\ \A i \in 1 .. Len(packet') : Marked(packet'[i])
             /\ mixed' \in Nat /\ spells' \in Nat /\ right' \in BOOLEAN
             /\ mixed' + Gaps' <= miceLost
             /\ spells' + Gaps' + Slip' <= miceLost
<1>10. ASSUME Kept PROVE MouseInv'
  <2>1. MouseTypes'
    BY <1>1, <1>2, <1>4, <1>10 DEF MouseTypes
  <2>2. /\ (\A i \in 1 .. Len(mice) : Marked(mice[i]))'
        /\ (\A i \in 1 .. Len(packet) : Marked(packet[i]))'
    BY <1>2, <1>5, <1>10 DEF Marked
  <2>3. (mixed + Gaps <= miceLost)' /\ (spells + Gaps + Slip <= miceLost)'
    BY <1>2, <1>10
  <2> QED
    BY <2>1, <2>2, <2>3 DEF MouseInv
<1>11. ASSUME packet = <<>>, ~b.bit3 PROVE Kept
  <2>1. UNCHANGED <<packet, mixed, right, spells>>
    BY <1>4, <1>11 DEF TakesMouseByte
  <2>2. GapsInPacket(packet, b) = 0 /\ GapsInPacket(packet', m) = 0
    BY <1>3, <1>11, <2>1 DEF GapsInPacket
  <2>3. Gaps' <= Gaps /\ Gaps' \in Nat /\ Gaps \in Nat
    BY <1>6, <1>7, <2>2
  <2>4. ~Framed
    BY <1>5, <1>11 DEF Framed, Marked
  <2>5. Slip' <= Slip
    BY <1>9, <2>1, <2>4 DEF Slip
  <2>6. mixed' + Gaps' <= miceLost /\ spells' + Gaps' + Slip' <= miceLost
    <3> DEFINE x == Gaps
               y == Gaps'
               u == Slip
               w == Slip'
    <3>1. /\ y <= x /\ x \in Nat /\ y \in Nat /\ w <= u /\ u \in {0, 1} /\ w \in {0, 1}
          /\ mixed + x <= miceLost /\ spells + x + u <= miceLost
      BY <1>9, <2>3, <2>5
    <3> HIDE DEF x, y, u, w
    <3>2. mixed + y <= miceLost /\ spells + y + w <= miceLost
      BY <1>1, <1>9, <3>1
    <3> QED
      BY <2>1, <3>2 DEF y, w
  <2>7. Len(packet') = 0 /\ packet' \in Seq(Bytes)
    BY <1>1, <1>3, <1>11, <2>1
  <2> QED
    BY <1>1, <2>1, <2>6, <2>7
<1>12. ASSUME packet # <<>> \/ b.bit3 PROVE Kept
  <2> DEFINE p == Append(packet, b)
  <2>1. \/ Len(p) < 3 /\ packet' = p /\ UNCHANGED <<mixed, right, spells>>
        \/ Len(p) = 3 /\ packet' = <<>> /\ Sends(p)
    BY <1>4, <1>12 DEF TakesMouseByte, Assembles
  <2>2. /\ p \in Seq(Bytes) /\ Len(p) = Len(packet) + 1 /\ p[Len(packet) + 1] = b
        /\ \A i \in 1 .. Len(packet) : p[i] = packet[i]
    BY <1>1, <1>4, Appended
  <2>3. \A i \in 1 .. Len(p) : Marked(p[i])
    BY <1>3, <1>5, <1>8, <2>2
  <2>4. Len(packet) = 1 \/ Len(packet) = 2 => packet[1].bit3 /\ packet[1] \in Bytes
    BY <1>1, <1>3, ElementOfSeq DEF MouseInv, MouseTypes
  <2> HIDE DEF p, b, m, gap, Q
  <2>5. CASE Len(packet) = 0
    <3>1. /\ packet' = p /\ UNCHANGED <<mixed, right, spells>>
          /\ Len(packet') = 1 /\ packet'[1] = b /\ b.bit3
      BY <1>3, <1>12, <2>1, <2>2, <2>5
    <3>2. GapsInPacket(packet, b) = 0
      BY <2>5 DEF GapsInPacket
    <3>3. GapsInPacket(packet', m) = gap
      BY <3>1 DEF GapsInPacket, gap, m
    <3>4. Gaps' = Gaps
      BY <1>7, <3>2, <3>3
    <3>5. Slip' = Slip
      BY <1>3, <1>5, <2>5, <3>1 DEF Framed, Slip
    <3> QED
      BY <1>1, <1>9, <2>2, <2>3, <3>1, <3>4, <3>5
  <2>6. CASE Len(packet) = 1
    <3>1. /\ packet' = p /\ UNCHANGED <<mixed, right, spells>> /\ Len(packet') = 2
          /\ packet'[1] = packet[1] /\ packet'[2] = b
      BY <2>1, <2>2, <2>6
    <3>2. /\ GapsInPacket(packet, b) = IF Follows(b, packet[1]) THEN 0 ELSE 1
          /\ GapsInPacket(packet, b) \in {0, 1}
      BY <2>6 DEF GapsInPacket
    <3>3. GapsInPacket(packet', m) = gap + GapsInPacket(packet, b)
      BY <3>1, <3>2 DEF GapsInPacket, gap, m
    <3>4. Gaps' = Gaps
      BY <1>7, <3>2, <3>3
    <3>5. Slip' = Slip
      BY <1>3, <2>2, <2>6, <3>1 DEF Framed, Slip
    <3>6. mixed' + Gaps' <= miceLost /\ spells' + Gaps' + Slip' <= miceLost
      BY <1>9, <3>1, <3>4, <3>5
    <3>7. packet' \in Seq(Bytes) /\ packet'[1].bit3 /\ \A i \in 1 .. Len(packet') : Marked(packet'[i])
      BY <2>2, <2>3, <2>4, <2>6, <3>1
    <3>8. /\ mixed' \in Nat /\ spells' \in Nat /\ right' \in BOOLEAN
          /\ Len(packet') <= 2
      BY <1>1, <3>1
    <3> QED
      BY <3>6, <3>7, <3>8
  <2>7. CASE Len(packet) = 2
    <3> DEFINE g == GapsInPacket(packet, b)
    <3>1. packet' = <<>> /\ Sends(p) /\ p[1] = packet[1] /\ p[2] = packet[2] /\ p[3] = b
      BY <2>1, <2>2, <2>7
    <3>2. GapsInPacket(packet', m) = 0
      BY <3>1 DEF GapsInPacket
    <3>3. g \in 0 .. 2 /\ (g = 0 => Follows(packet[2], packet[1]) /\ Follows(b, packet[2]))
      BY <2>7 DEF GapsInPacket
    <3>4. packet[1].index = 0 /\ g = 0 => IsPacket(p)
      <4> SUFFICES ASSUME packet[1].index = 0, Follows(packet[2], packet[1]), Follows(b, packet[2])
                   PROVE  IsPacket(p)
        BY <3>3
      <4>1. packet[2].index = 1 /\ packet[2].packet = packet[1].packet
        BY DEF Follows
      <4>2. b.index = 2 /\ b.packet = packet[1].packet
        BY <4>1 DEF Follows
      <4> QED
        BY <3>1, <4>1, <4>2 DEF IsPacket
    <3>5. Gaps' = Q /\ Gaps = Q + gap + g /\ Q \in Nat /\ gap \in {0, 1}
      BY <1>6, <1>7, <3>2, <3>3 DEF Q
    <3>6. Framed <=> packet[1].index = 0
      BY <1>3, <2>7 DEF Framed
    <3>7. /\ mixed'  = IF ~IsPacket(p) /\ ~Misled(p) THEN mixed + 1 ELSE mixed
          /\ spells' = IF ~IsPacket(p) /\ right THEN spells + 1 ELSE spells
          /\ right'  = IsPacket(p)
      BY <3>1 DEF Sends
    <3>8. right' \in BOOLEAN
      BY <3>7 DEF IsPacket
    <3>9. mixed' \in Nat /\ mixed' + Gaps' <= miceLost
      <4>1. ~IsPacket(p) /\ ~Misled(p) => g # 0
        BY <2>4, <2>7, <3>1, <3>4 DEF Misled
      <4> HIDE DEF g
      <4> QED
        BY <1>1, <1>9, <3>3, <3>5, <3>7, <4>1
    <3>10. spells' \in Nat /\ spells' + Gaps' + Slip' <= miceLost
      <4> HIDE DEF g
      <4> DEFINE u == Slip
                 w == Slip'
      <4>1. CASE IsPacket(p)
        <5>1. m.index = 0 \/ gap = 1
          <6>1. b.index = 2
            BY <3>1, <4>1 DEF IsPacket
          <6> QED
            BY <6>1 DEF gap, m, Follows
        <5>2. Slip' <= gap
          BY <1>9, <3>1, <3>5, <5>1 DEF Slip, Framed, m
        <5>3. /\ w <= gap /\ u \in {0, 1} /\ w \in {0, 1}
              /\ spells + (Q + gap + g) + u <= miceLost
          BY <1>9, <3>5, <5>2
        <5> HIDE DEF u, w
        <5>4. spells + Q + w <= miceLost
          BY <1>1, <1>9, <3>3, <3>5, <5>3
        <5> QED
          BY <1>1, <3>5, <3>7, <4>1, <5>4 DEF w
      <4>2. CASE ~IsPacket(p)
        <5>1. Slip' = 0
          BY <3>7, <4>2 DEF Slip
        <5>2. right => g # 0 \/ Slip = 1
          BY <3>4, <3>6, <4>2 DEF Slip
        <5>3. /\ spells + (Q + gap + g) + u <= miceLost /\ u \in {0, 1}
              /\ right => g # 0 \/ u = 1
          BY <1>9, <3>5, <5>2
        <5> HIDE DEF u, w
        <5>4. /\ spells' \in Nat
              /\ spells' + Q <= miceLost
          BY <1>1, <1>9, <3>3, <3>5, <3>7, <4>2, <5>3
        <5>5. Gaps' = Q /\ w = 0 /\ Q \in Nat
          BY <3>5, <5>1 DEF w
        <5>6. spells' + Q + 0 <= miceLost
          BY <3>5, <5>4
        <5> QED
          BY <5>4, <5>5, <5>6 DEF w
      <4> QED
        BY <4>1, <4>2
    <3>11. packet' \in Seq(Bytes) /\ Len(packet') = 0
      BY <3>1, EmptySeq
    <3> QED
      BY <3>8, <3>9, <3>10, <3>11
  <2> QED
    BY <1>3, <2>5, <2>6, <2>7
<1> HIDE DEF Kept
<1> QED
  BY <1>10, <1>11, <1>12
-----------------------------------------------------------------------------
(* The invariant.                                                          *)

LEMMA InitInv == Init => Inv
<1> SUFFICES ASSUME Init PROVE Inv
  OBVIOUS
<1> USE InputServerAssumption DEF Init
<1>1. <<>> \in Seq(Scans) /\ <<>> \in Seq(Bytes) /\ Len(<<>>) = 0
  BY EmptySeq
<1>2. ToMiss(scans, last) = {} /\ GapsInQueue(mice, nextByte) = {}
  BY <1>1 DEF ToMiss, GapsInQueue
<1>3. MissesNext = 0
  BY <1>1 DEF MissesNext, Guard
<1>4. Cardinality(ToMiss(scans, last)) = 0 /\ Cardinality(GapsInQueue(mice, nextByte)) = 0
  <2> HIDE DEF Init
  <2> QED
    BY <1>2, FS_EmptySet
<1>5. KeyInv
  <2>1. KeyTypes
    BY <1>1 DEF KeyTypes
  <2>2. missed = 0 /\ scansLost = 0
    OBVIOUS
  <2> HIDE DEF Init
  <2> QED
    BY <1>3, <1>4, <2>1, <2>2 DEF KeyInv
<1>6. GapsInPacket(packet, NextTaken) = 0 /\ NextTaken = nextByte
  BY <1>1 DEF GapsInPacket, NextTaken, ByteAfter
<1>7. Gaps = 0
  <2> HIDE DEF Init
  <2> QED
    BY <1>4, <1>6 DEF Gaps
<1>8. MouseInv
  <2>1. Slip = 0
    BY <1>6 DEF Slip, Framed
  <2>2. MouseTypes
    BY <1>1, PacketNumbers DEF MouseTypes, Positions
  <2> QED
    BY <1>1, <1>7, <2>1, <2>2 DEF MouseInv
<1> QED
  BY <1>5, <1>8 DEF Inv

(* What the other process does leaves an invariant as it is. *)
LEMMA KeyIdle == ASSUME KeyInv, UNCHANGED keyVars PROVE KeyInv'
BY DEF keyVars, KeyInv, KeyTypes, MissesNext

LEMMA MouseIdle == ASSUME MouseInv, UNCHANGED mouseVars PROVE MouseInv'
BY DEF mouseVars, MouseInv, MouseTypes, Gaps, NextTaken, Framed, Slip, Marked

LEMMA NextOK == Inv /\ [Next]_vars => Inv'
<1> SUFFICES ASSUME Inv, [Next]_vars PROVE Inv'
  OBVIOUS
<1>1. CASE \/ \E k \in Keys : Press(k) \/ Release(k)
           \/ Repeat
  <2>1. UNCHANGED <<mouseVars, pc>>
    BY <1>1 DEF Press, Release, Repeat
  <2> QED
    BY <1>1, <2>1, KeyboardOK, MouseIdle DEF Inv
<1>2. ASSUME NEW bit3 \in BOOLEAN, MouseByte(bit3) PROVE Inv'
  BY <1>2, KeyIdle, MouseByteOK DEF Inv, MouseByte
<1>3. CASE TakesScan
  BY <1>3, TakesScanOK, MouseIdle DEF Inv, TakesScan
<1>4. CASE TakesMouseByte
  BY <1>4, KeyIdle, TakesMouseByteOK DEF Inv, TakesMouseByte
<1>5. CASE HasDrainedKeys \/ HasDrainedMouse
  BY <1>5, KeyIdle, MouseIdle DEF Inv, HasDrainedKeys, HasDrainedMouse
<1>6. CASE UNCHANGED vars
  BY <1>6, KeyIdle, MouseIdle DEF Inv, vars
<1> QED
  BY <1>1, <1>2, <1>3, <1>4, <1>5, <1>6 DEF Next

LEMMA Invariance == Spec => []Inv
BY InitInv, NextOK, PTL DEF Spec
-----------------------------------------------------------------------------
(* What the invariant gives.                                               *)

(* Every variable of task_input_server, of the two queues and of their     *)
(* devices keeps its type: mouse_packet is never left with more than two   *)
(* bytes, or with a first byte without bit 3. *)
THEOREM InputServerTypes == Spec => []TypeOK
<1>1. Inv => TypeOK
  <2> SUFFICES ASSUME Inv PROVE TypeOK
    OBVIOUS
  <2>1. \A i \in 1 .. Len(scans) : scans[i] \in Scans
    BY ElementOfSeq DEF Inv, KeyInv, KeyTypes
  <2>2. \A i \in 1 .. Len(mice) : mice[i] \in Bytes
    BY ElementOfSeq DEF Inv, MouseInv, MouseTypes
  <2> QED
    BY <2>1, <2>2 DEF TypeOK, Scans, Bytes, Inv, KeyInv, KeyTypes, MouseInv, MouseTypes
<1> QED
  BY <1>1, Invariance, PTL

(* The guard of the key branch, a press of a key other than last_scancode, *)
(* passes over a press of its own only where SCAN_QUEUE lost a byte, and   *)
(* over one press at most for each byte lost. *)
THEOREM MissesArePaid == Spec => []MissesPaidByLosses
<1>1. Inv => MissesPaidByLosses
  <2> SUFFICES ASSUME Inv PROVE MissesPaidByLosses
    OBVIOUS
  <2>1. /\ missed \in Nat /\ scansLost \in Nat /\ MissesNext \in {0, 1}
        /\ missed + Cardinality(ToMiss(scans, last)) + MissesNext <= scansLost
    BY InputServerAssumption DEF Inv, KeyInv, KeyTypes, MissesNext
  <2>2. Cardinality(ToMiss(scans, last)) \in Nat
    <3>1. Len(scans) \in Nat /\ ToMiss(scans, last) \in SUBSET (1 .. Len(scans))
      BY LenProperties DEF Inv, KeyInv, KeyTypes, ToMiss
    <3>2. IsFiniteSet(1 .. Len(scans))
      BY <3>1, FS_Interval
    <3> QED
      BY <3>1, <3>2, FS_Subset, FS_CardinalityType
  <2> QED
    BY <2>1, <2>2 DEF MissesPaidByLosses
<1> QED
  BY <1>1, Invariance, PTL

(* mouse_packet gets out of step with the packets of the mouse only where *)
(* MOUSE_QUEUE lost a byte, once for each byte at most: before the first   *)
(* loss every message is made of the three bytes of one packet.  Nothing   *)
(* is assumed of the distances the mouse reports. *)
THEOREM FramingIsKept == Spec => []SpellsPaidByLosses
<1>1. Inv => SpellsPaidByLosses
  <2> SUFFICES ASSUME Inv PROVE spells <= miceLost
    BY DEF SpellsPaidByLosses
  <2>1. /\ spells \in Nat /\ miceLost \in 0 .. MaxLost /\ MaxLost \in Nat
        /\ mice \in Seq(Bytes) /\ spells + Gaps + Slip <= miceLost
    BY InputServerAssumption DEF Inv, MouseInv, MouseTypes
  <2>2. Gaps \in Nat
    BY <2>1, GapsFinite DEF Gaps, GapsInPacket
  <2> DEFINE x == Gaps
             u == Slip
  <2>3. /\ spells \in Nat /\ miceLost \in Nat /\ spells + x + u <= miceLost
        /\ x \in Nat /\ u \in {0, 1}
    BY <2>1, <2>2 DEF Slip
  <2> HIDE DEF x, u
  <2> QED
    BY <2>3
<1> QED
  BY <1>1, Invariance, PTL

(* The test of bit 3 before the first byte of mouse_packet puts it in step *)
(* again unless a second or third byte with bit 3 passes for a first one:  *)
(* leaving out the messages that begin with such a byte, each byte lost    *)
(* makes one wrong message at most, whatever the mouse sends. *)
THEOREM MixedArePaid == Spec => []MixedPaidByLosses
<1>1. Inv => MixedPaidByLosses
  <2> SUFFICES ASSUME Inv PROVE mixed <= miceLost
    BY DEF MixedPaidByLosses
  <2>1. mixed \in Nat /\ miceLost \in Nat /\ mixed + Gaps <= miceLost /\ mice \in Seq(Bytes)
    BY InputServerAssumption DEF Inv, MouseInv, MouseTypes
  <2>2. Gaps \in Nat
    BY <2>1, GapsFinite DEF Gaps, GapsInPacket
  <2> QED
    BY <2>1, <2>2
<1> QED
  BY <1>1, Invariance, PTL
=============================================================================
