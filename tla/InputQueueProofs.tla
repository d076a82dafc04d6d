--------------------------- MODULE InputQueueProofs ---------------------------
(***************************************************************************)
(* Proofs about ByteQueue for rings of every length and bytes of any kind: *)
(* the types, and that the ring implements the FIFO of ByteFifo.tla.       *)
(***************************************************************************)
EXTENDS InputQueue, SequenceTheorems, TLAPS

USE DEF Positions

(* Positions with the wrap at the end of the ring written out: the slot of *)
(* the i-th waiting byte from 0, and the number of waiting bytes, when the *)
(* next byte is read at r and written at w.                                *)
Wrap(x)    == IF x < QSize THEN x ELSE x - QSize
Slot(r, i) == Wrap(r + i)
Gap(r, w)  == IF r <= w THEN w - r ELSE w + QSize - r

Count == Gap(read_pos, write_pos)

(* The inductive invariant: the types, and every waiting slot holds a byte *)
(* that was pushed.                                                        *)
WaitingAreBytes == \A i \in 0 .. Count - 1 : buffer[Slot(read_pos, i)] \in Bytes

QueueInv == TypeOK /\ WaitingAreBytes

(* The remainder the code takes of a position past the end of the ring. *)
LEMMA Wraps == \A x \in 0 .. QSize + QSize - 1 : x % QSize = Wrap(x)
<1>1. \A Q \in Nat \ {0}, x \in Nat : x < Q => x % Q = x
  OBVIOUS
<1>2. \A Q \in Nat \ {0}, x \in Nat : Q <= x /\ x < Q + Q => x % Q = x - Q
  OBVIOUS
<1> QED
  BY <1>1, <1>2, InputQueueAssumption DEF Wrap

(* The next position, and the number and the places of the waiting bytes. *)
LEMMA Arithmetic ==
  ASSUME NEW r \in Positions, NEW w \in Positions
  PROVE  /\ After(r) = Wrap(r + 1) /\ After(r) \in Positions
         /\ (w + QSize - r) % QSize = Gap(r, w) /\ Gap(r, w) \in 0 .. QSize - 1
         /\ \A i \in 1 .. Gap(r, w) : (r + i - 1) % QSize = Slot(r, i - 1)
         /\ \A i \in 0 .. Gap(r, w) : Slot(r, i) \in Positions
         /\ \A i \in 0 .. Gap(r, w) - 1 : Slot(r, i) # w
         /\ Slot(r, Gap(r, w)) = w
<1> USE InputQueueAssumption
<1>1. After(r) = Wrap(r + 1) /\ After(r) \in Positions
  BY Wraps DEF After, Wrap
<1>2. (w + QSize - r) % QSize = Wrap(w + QSize - r)
  BY Wraps
<1>3. (w + QSize - r) % QSize = Gap(r, w) /\ Gap(r, w) \in 0 .. QSize - 1
  BY <1>2 DEF Wrap, Gap
<1>4. \A i \in 1 .. Gap(r, w) : (r + i - 1) % QSize = Slot(r, i - 1)
  <2> TAKE i \in 1 .. Gap(r, w)
  <2>1. r + i - 1 \in 0 .. QSize + QSize - 1
    BY <1>3
  <2>2. r + (i - 1) = r + i - 1
    BY <1>3
  <2> QED
    BY <2>1, <2>2, Wraps DEF Slot
<1>5. \A i \in 0 .. Gap(r, w) : Slot(r, i) \in Positions
  BY <1>3 DEF Slot, Wrap
<1>6. (\A i \in 0 .. Gap(r, w) - 1 : Slot(r, i) # w) /\ Slot(r, Gap(r, w)) = w
  BY DEF Slot, Wrap, Gap
<1> QED
  BY <1>1, <1>3, <1>4, <1>5, <1>6

(* A push moves the end of the queue on, a pop its start. *)
LEMMA Moves ==
  ASSUME NEW r \in Positions, NEW w \in Positions
  PROVE  /\ After(w) # r => Gap(r, After(w)) = Gap(r, w) + 1
         /\ r # w => /\ Gap(After(r), w) = Gap(r, w) - 1
                     /\ \A i \in 0 .. Gap(r, w) - 2 : Slot(After(r), i) = Slot(r, i + 1)
                     /\ Slot(r, 0) = r /\ Gap(r, w) >= 1
<1> USE InputQueueAssumption
<1>1. After(w) = Wrap(w + 1) /\ After(r) = Wrap(r + 1)
  BY Arithmetic
<1> QED
  BY <1>1 DEF Gap, Slot, Wrap

(* The queue that a ring stands for. *)
QueueOf(b, r, w) == [i \in 1 .. Gap(r, w) |-> b[Slot(r, i - 1)]]

(* What Queue of InputQueue.tla is, before and after a step. *)
LEMMA QueueIs ==
  /\ read_pos \in Positions /\ write_pos \in Positions => Queue = QueueOf(buffer, read_pos, write_pos)
  /\ read_pos' \in Positions /\ write_pos' \in Positions =>
       Queue' = QueueOf(buffer', read_pos', write_pos')
<1>1. ASSUME read_pos \in Positions, write_pos \in Positions
      PROVE  Queue = QueueOf(buffer, read_pos, write_pos)
  <2>1. Length = Gap(read_pos, write_pos)
    BY <1>1, Arithmetic DEF Length
  <2>2. \A i \in 1 .. Gap(read_pos, write_pos) : (read_pos + i - 1) % QSize = Slot(read_pos, i - 1)
    BY <1>1, Arithmetic
  <2> QED
    BY <2>1, <2>2 DEF Queue, QueueOf
<1>2. ASSUME read_pos' \in Positions, write_pos' \in Positions
      PROVE  Queue' = QueueOf(buffer', read_pos', write_pos')
  <2>1. Length' = Gap(read_pos', write_pos')
    BY <1>2, Arithmetic DEF Length
  <2>2. \A i \in 1 .. Gap(read_pos', write_pos') : (read_pos' + i - 1) % QSize = Slot(read_pos', i - 1)
    BY <1>2, Arithmetic
  <2> QED
    BY <2>1, <2>2 DEF Queue, QueueOf
<1> QED
  BY <1>1, <1>2

(* It is a sequence of bytes. *)
LEMMA QueueIsSeq ==
  ASSUME QueueInv
  PROVE  Queue \in Seq(Bytes) /\ Len(Queue) = Count /\ Count \in Nat
<1>1. Queue = [i \in 1 .. Count |-> buffer[Slot(read_pos, i - 1)]]
  BY QueueIs DEF QueueOf, Count, QueueInv, TypeOK
<1>2. Count \in Nat
  BY Arithmetic DEF Count, QueueInv, TypeOK
<1>3. \A i \in 1 .. Count : buffer[Slot(read_pos, i - 1)] \in Bytes
  BY <1>2 DEF QueueInv, WaitingAreBytes
<1> QED
  BY <1>1, <1>2, <1>3

(* An empty ring, and nothing popped. *)
LEMMA InitQueue == Init => QueueInv /\ Fifo!Init
<1> SUFFICES ASSUME Init PROVE QueueInv /\ Fifo!Init
  OBVIOUS
<1>1. Count = 0
  BY InputQueueAssumption DEF Init, Count, Gap
<1>2. QueueInv
  BY <1>1, InputQueueAssumption DEF Init, QueueInv, TypeOK, WaitingAreBytes
<1>3. Queue = <<>>
  BY <1>1, <1>2, QueueIsSeq
<1> QED
  BY <1>2, <1>3 DEF Fifo!Init, Init

(* What Append does to a sequence, for the sequence Queue stands for. *)
LEMMA Appended ==
  ASSUME NEW s \in Seq(Bytes), NEW e \in Bytes
  PROVE  /\ Append(s, e) \in Seq(Bytes) /\ Len(Append(s, e)) = Len(s) + 1
         /\ Append(s, e)[Len(s) + 1] = e
         /\ \A i \in 1 .. Len(s) : Append(s, e)[i] = s[i]
BY AppendProperties

(* keyboard_isr and mouse_isr: a push that finds room appends the byte, and *)
(* the byte a pop has read stays the oldest.                                *)
LEMMA PushOK ==
  ASSUME QueueInv, NEW b \in Bytes, Push(b)
  PROVE  QueueInv' /\ Fifo!Push
<1> DEFINE n == Count
<1>1. /\ read_pos \in Positions /\ write_pos \in Positions
      /\ read_pos' = read_pos /\ write_pos' = After(write_pos) /\ write_pos' # read_pos
      /\ buffer \in [Positions -> Bytes \union {NoByte}] /\ buffer' = [buffer EXCEPT ![write_pos] = b]
  BY DEF QueueInv, TypeOK, Push
<1>2. write_pos' \in Positions /\ Count' = n + 1 /\ n \in 0 .. QSize - 1 /\ Count' \in 0 .. QSize - 1
  BY <1>1, Arithmetic, Moves DEF Count
<1>3. \A i \in 0 .. n - 1 : buffer'[Slot(read_pos, i)] = buffer[Slot(read_pos, i)]
  BY <1>1, <1>2, Arithmetic DEF Count
<1>4. buffer'[Slot(read_pos, n)] = b
  <2>1. Slot(read_pos, n) = write_pos
    BY <1>1, Arithmetic DEF Count
  <2> QED
    BY <1>1, <2>1
<1>5. TypeOK'
  <2>1. pc # "idle" => buffer'[read_pos] = buffer[read_pos] /\ read_pos # write_pos'
    BY <1>1 DEF QueueInv, TypeOK
  <2> QED
    BY <1>1, <1>2, <2>1 DEF QueueInv, TypeOK, Push
<1>6. WaitingAreBytes'
  <2> SUFFICES ASSUME NEW i \in 0 .. n PROVE buffer'[Slot(read_pos, i)] \in Bytes
    BY <1>1, <1>2 DEF WaitingAreBytes
  <2>1. CASE i = n
    BY <2>1, <1>4
  <2>2. CASE i \in 0 .. n - 1
    BY <2>2, <1>3 DEF QueueInv, WaitingAreBytes
  <2> QED
    BY <1>2, <2>1, <2>2
<1>7. Queue' = Append(Queue, b)
  <2>1. Queue' = [i \in 1 .. n + 1 |-> buffer'[Slot(read_pos, i - 1)]]
    BY <1>1, <1>2, QueueIs DEF QueueOf, Count
  <2>2. Queue = [i \in 1 .. n |-> buffer[Slot(read_pos, i - 1)]] /\ Queue \in Seq(Bytes) /\ Len(Queue) = n
    BY <1>1, QueueIs, QueueIsSeq DEF QueueOf, Count
  <2>3. \A i \in 1 .. n : buffer'[Slot(read_pos, i - 1)] = Queue[i]
    BY <1>2, <1>3, <2>2
  <2>4. buffer'[Slot(read_pos, n + 1 - 1)] = b
    BY <1>2, <1>4
  <2>5. Append(Queue, b) \in [1 .. n + 1 -> Bytes] /\ Append(Queue, b)[n + 1] = b
        /\ \A i \in 1 .. n : Append(Queue, b)[i] = Queue[i]
    <3>1. /\ Append(Queue, b) \in Seq(Bytes) /\ Len(Append(Queue, b)) = Len(Queue) + 1
          /\ Append(Queue, b)[Len(Queue) + 1] = b
          /\ \A i \in 1 .. Len(Queue) : Append(Queue, b)[i] = Queue[i]
      <4>1. Queue \in Seq(Bytes) /\ b \in Bytes
        BY <2>2
      <4> QED
        BY <4>1, Appended, Zenon
    <3>2. /\ Append(Queue, b) \in Seq(Bytes) /\ Len(Append(Queue, b)) = n + 1
          /\ Append(Queue, b)[n + 1] = b /\ \A i \in 1 .. n : Append(Queue, b)[i] = Queue[i]
      BY <2>2, <3>1
    <3>3. Append(Queue, b) \in [1 .. n + 1 -> Bytes]
      BY <3>2, LenProperties
    <3> QED
      BY <3>2, <3>3
  <2> HIDE DEF n
  <2>6. \A i \in 1 .. n + 1 : buffer'[Slot(read_pos, i - 1)] = Append(Queue, b)[i]
    BY <1>2, <2>3, <2>4, <2>5
  <2> QED
    BY <2>1, <2>5, <2>6
<1>8. Len(Queue) < QSize - 1
  <2>1. Len(Queue) = n
    BY QueueIsSeq
  <2> QED
    BY <1>2, <2>1, InputQueueAssumption
<1> QED
  BY <1>5, <1>6, <1>7, <1>8 DEF QueueInv, Fifo!Push, Push

(* pop has looked, or has read the byte: nothing yet for anybody to see, *)
(* unless the ring was empty.                                            *)
LEMMA PopStartsOK ==
  ASSUME QueueInv, PopLooks \/ PopReads
  PROVE  QueueInv' /\ (Fifo!FindsNone \/ UNCHANGED <<Queue, result>>)
<1>1. UNCHANGED <<buffer, read_pos, write_pos>>
  BY DEF PopLooks, PopReads
<1>2. UNCHANGED Queue /\ UNCHANGED Count
  BY <1>1 DEF Queue, Length, Count
<1>3. read_pos # write_pos => buffer[read_pos] \in Bytes
  <2>1. read_pos # write_pos => Slot(read_pos, 0) = read_pos /\ Count >= 1 /\ Count \in Nat
    BY Moves, Arithmetic DEF Count, QueueInv, TypeOK
  <2> QED
    BY <2>1 DEF QueueInv, WaitingAreBytes
<1>4. QueueInv'
  BY <1>1, <1>2, <1>3, InputQueueAssumption DEF QueueInv, TypeOK, WaitingAreBytes, PopLooks, PopReads
<1>5. read_pos = write_pos => Queue = <<>>
  <2>1. read_pos = write_pos => Count = 0
    BY DEF Count, Gap, QueueInv, TypeOK
  <2> QED
    BY <2>1, QueueIsSeq
<1> QED
  BY <1>2, <1>4, <1>5 DEF PopLooks, PopReads, Fifo!FindsNone

(* The end of pop takes the oldest byte off the queue and returns it. *)
LEMMA PopAdvancesOK ==
  ASSUME QueueInv, PopAdvances
  PROVE  QueueInv' /\ Fifo!Pop
<1> DEFINE n == Count
<1>1. /\ read_pos \in Positions /\ write_pos \in Positions /\ read_pos # write_pos
      /\ read_pos' = After(read_pos) /\ write_pos' = write_pos /\ buffer' = buffer
      /\ result' = buffer[read_pos] /\ buffer[read_pos] \in Bytes \union {NoByte}
  BY DEF QueueInv, TypeOK, PopAdvances
<1>2. /\ read_pos' \in Positions /\ Count' = n - 1 /\ n \in 0 .. QSize - 1 /\ n >= 1
      /\ \A i \in 0 .. n - 2 : Slot(read_pos', i) = Slot(read_pos, i + 1)
      /\ Slot(read_pos, 0) = read_pos
  BY <1>1, Arithmetic, Moves DEF Count
<1>3. TypeOK'
  BY <1>1, <1>2 DEF QueueInv, TypeOK, PopAdvances
<1>4. WaitingAreBytes'
  <2> SUFFICES ASSUME NEW i \in 0 .. n - 2 PROVE buffer[Slot(read_pos', i)] \in Bytes
    BY <1>1, <1>2 DEF WaitingAreBytes
  <2>1. i + 1 \in 0 .. n - 1 /\ Slot(read_pos', i) = Slot(read_pos, i + 1)
    BY <1>2
  <2> QED
    BY <2>1 DEF QueueInv, WaitingAreBytes
<1>5. Queue = [i \in 1 .. n |-> buffer[Slot(read_pos, i - 1)]] /\ Queue \in Seq(Bytes) /\ Len(Queue) = n
  BY <1>1, QueueIs, QueueIsSeq DEF QueueOf, Count
<1>6. Queue # <<>> /\ result' = Head(Queue)
  BY <1>1, <1>2, <1>5
<1>7. Queue' = Tail(Queue)
  <2>1. Queue' = [i \in 1 .. n - 1 |-> buffer[Slot(read_pos', i - 1)]]
    BY <1>1, <1>2, QueueIs DEF QueueOf, Count
  <2>2. Tail(Queue) = [i \in 1 .. n - 1 |-> Queue[i + 1]]
    BY <1>2, <1>5
  <2>3. \A i \in 1 .. n - 1 : buffer[Slot(read_pos', i - 1)] = Queue[i + 1]
    <3> TAKE i \in 1 .. n - 1
    <3>1. i - 1 \in 0 .. n - 2 /\ i + 1 \in 1 .. n /\ (i - 1) + 1 = (i + 1) - 1
      BY <1>2
    <3> QED
      BY <1>2, <1>5, <3>1
  <2> HIDE DEF n
  <2> QED
    BY <2>1, <2>2, <2>3
<1> QED
  BY <1>3, <1>4, <1>6, <1>7 DEF QueueInv, Fifo!Pop

(* Every step keeps the invariant and is a step of the FIFO, or is not seen. *)
LEMMA StepQueue == QueueInv /\ [Next]_vars => QueueInv' /\ [Fifo!Next]_(Fifo!vars)
<1> SUFFICES ASSUME QueueInv, [Next]_vars PROVE QueueInv' /\ [Fifo!Next]_(Fifo!vars)
  OBVIOUS
<1>1. CASE \E b \in Bytes : Push(b)
  BY <1>1, PushOK DEF Fifo!Next
<1>2. CASE PopLooks \/ PopReads
  BY <1>2, PopStartsOK DEF Fifo!Next, Fifo!vars
<1>3. CASE PopAdvances
  BY <1>3, PopAdvancesOK DEF Fifo!Next
<1>4. CASE UNCHANGED vars
  BY <1>4 DEF vars, QueueInv, TypeOK, WaitingAreBytes, Count, Queue, Length, Fifo!vars
<1> QED
  BY <1>1, <1>2, <1>3, <1>4 DEF Next, Pop

(* Types, and no push overwrites the byte that a pop has read (ByteQueue::pop *)
(* and push), in a ring of any length.                                        *)
THEOREM InputQueueTypes == Spec => []TypeOK
<1>1. QueueInv => TypeOK
  BY DEF QueueInv
<1> QED
  BY <1>1, InitQueue, StepQueue, PTL DEF Spec

(* However the steps of a pop and the pushes of the interrupt handlers fall, *)
(* a ring of any length is a first-in first-out queue of QSize - 1 bytes.    *)
THEOREM InputQueueImplementsFifo == Spec => ImplementsFifo
BY InitQueue, StepQueue, PTL DEF Spec, ImplementsFifo, Fifo!Spec
===============================================================================
