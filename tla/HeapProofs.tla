----------------------------- MODULE HeapProofs -----------------------------
EXTENDS HeapAllocator, FiniteSetTheorems, SequenceTheorems, TLAPS

LEMMA AlignUpProperties ==
  ASSUME NEW a \in Nat, NEW n \in Nat \ {0}
  PROVE  /\ AlignUp(a, n) \in Nat
         /\ a <= AlignUp(a, n) /\ AlignUp(a, n) < a + n
         /\ \E k \in Nat : AlignUp(a, n) = k * n
<1> DEFINE q == (a + n - 1) \div n
<1>1. q \in Nat
  BY SMT
<1>2. q * n <= a + n - 1 /\ a + n - 1 < q * n + n
  BY SMT
<1> QED
  BY <1>1, <1>2, SMT DEF AlignUp

LEMMA RemoveAtProperties ==
  ASSUME NEW S, NEW s \in Seq(S), NEW i \in DOMAIN s
  PROVE  /\ RemoveAt(s, i) \in Seq(S)
         /\ Len(RemoveAt(s, i)) = Len(s) - 1
         /\ \A j \in 1 .. Len(s) - 1 :
              RemoveAt(s, i)[j] = IF j < i THEN s[j] ELSE s[j + 1]
<1> DEFINE n == Len(s)
           u == SubSeq(s, 1, i - 1)
           v == SubSeq(s, i + 1, n)
<1>1. n \in Nat /\ i \in 1 .. n /\ \A j \in 1 .. n : s[j] \in S
  OBVIOUS
<1>2. RemoveAt(s, i) = u \o v
  BY DEF RemoveAt
<1> HIDE DEF n
<1>3. /\ u \in Seq(S) /\ Len(u) = i - 1
      /\ \A j \in 1 .. i - 1 : u[j] = s[j]
  <2>1. 1 \in Int /\ i - 1 \in Int /\ \A j \in 1 .. i - 1 : s[j] \in S
    BY <1>1
  <2>2. /\ u \in Seq(S)
        /\ Len(u) = IF 1 <= i - 1 THEN (i - 1) - 1 + 1 ELSE 0
        /\ \A j \in 1 .. (i - 1) - 1 + 1 : u[j] = s[1 + j - 1]
    BY <2>1, SubSeqProperties
  <2> HIDE DEF u
  <2> QED
    BY <1>1, <2>2
<1>4. /\ v \in Seq(S) /\ Len(v) = n - i
      /\ \A j \in 1 .. n - i : v[j] = s[i + j]
  <2>1. i + 1 \in Int /\ n \in Int /\ \A j \in i + 1 .. n : s[j] \in S
    BY <1>1
  <2>2. /\ v \in Seq(S)
        /\ Len(v) = IF i + 1 <= n THEN n - (i + 1) + 1 ELSE 0
        /\ \A j \in 1 .. n - (i + 1) + 1 : v[j] = s[(i + 1) + j - 1]
    BY <2>1, SubSeqProperties
  <2> HIDE DEF v
  <2> QED
    BY <1>1, <2>2
<1> HIDE DEF u, v
<1>5. /\ u \o v \in Seq(S) /\ Len(u \o v) = Len(u) + Len(v)
      /\ \A j \in 1 .. Len(u) + Len(v) :
           (u \o v)[j] = IF j <= Len(u) THEN u[j] ELSE v[j - Len(u)]
  BY <1>3, <1>4, ConcatProperties
<1>6. Len(u) + Len(v) = n - 1
  BY <1>1, <1>3, <1>4
<1>7. \A j \in 1 .. n - 1 : (u \o v)[j] = IF j < i THEN s[j] ELSE s[j + 1]
  <2> TAKE j \in 1 .. n - 1
  <2>1. CASE j < i
    <3>1. j <= Len(u) /\ j \in 1 .. i - 1
      BY <1>1, <1>3, <2>1
    <3> QED
      BY <1>3, <1>5, <1>6, <2>1, <3>1
  <2>2. CASE ~(j < i)
    <3>1. ~(j <= Len(u)) /\ j - Len(u) \in 1 .. n - i /\ i + (j - Len(u)) = j + 1
      BY <1>1, <1>3, <2>2
    <3> QED
      BY <1>4, <1>5, <1>6, <2>2, <3>1
  <2> QED
    BY <2>1, <2>2
<1> QED
  BY <1>2, <1>5, <1>6, <1>7 DEF n

LEMMA ReplaceAtProperties ==
  ASSUME NEW S, NEW s \in Seq(S), NEW i \in DOMAIN s, NEW e \in S
  PROVE  /\ ReplaceAt(s, i, e) \in Seq(S)
         /\ Len(ReplaceAt(s, i, e)) = Len(s)
         /\ \A j \in 1 .. Len(s) :
              ReplaceAt(s, i, e)[j] = IF j = i THEN e ELSE s[j]
  BY SMTT(30) DEF ReplaceAt

LEMMA ConsProperties ==
  ASSUME NEW S, NEW s \in Seq(S), NEW e \in S
  PROVE  /\ <<e>> \o s \in Seq(S)
         /\ Len(<<e>> \o s) = Len(s) + 1
         /\ \A j \in 1 .. Len(s) + 1 :
              (<<e>> \o s)[j] = IF j = 1 THEN e ELSE s[j - 1]
  BY SMTT(30)

LEMMA NodeProperties ==
  ASSUME NEW a \in Nat, NEW k \in Nat
  PROVE  /\ Node(a, k) \in Nodes
         /\ Node(a, k).addr = a /\ Node(a, k).size = k
  BY DEF Node, Nodes

LEMMA ElementProperties ==
  ASSUME NEW s \in Seq(Nodes), NEW i \in DOMAIN s
  PROVE  s[i] \in Nodes /\ s[i].addr \in Nat /\ s[i].size \in Nat
<1>1. s[i] \in Nodes
  OBVIOUS
<1> QED
  BY <1>1 DEF Nodes

Spans == [from : Int, to : Int]

Within(s, t) == t.from <= s.from /\ s.to <= t.to

LEMMA NodeSpans ==
  ASSUME NEW s \in Seq(Nodes), NEW i \in DOMAIN s
  PROVE  /\ NodeSpan(s[i]) \in Spans
         /\ NodeSpan(s[i]).from \in Int /\ NodeSpan(s[i]).to \in Int
<1>1. s[i].addr \in Int /\ s[i].addr + Header + s[i].size \in Int
  BY ElementProperties DEF Header
<1> QED
  BY <1>1 DEF NodeSpan, Span, Spans

LEMMA DisjointWithin ==
  ASSUME NEW s \in Spans, NEW t \in Spans, NEW u \in Spans, NEW v \in Spans,
         Within(s, u), Within(t, v), Disjoint(u, v)
  PROVE  Disjoint(s, t)
  BY DEF Within, Disjoint, Spans

LEMMA WithinItself == \A s \in Spans : Within(s, s)
  BY DEF Within, Spans

(* The alignment alloc uses is a multiple of the one asked for. *)
LEMMA AlignmentProperties ==
  ASSUME NEW l \in Layouts
  PROVE  LET m == AlignUp(l.align, Header) IN
         /\ m \in Nat \ {0}
         /\ \E r \in Nat : m = r * l.align
<1> DEFINE m == AlignUp(l.align, Header)
<1>0. l.align \in Nat \ {0}
  BY HeapAssumption
<1>1. PICK k \in 1 .. l.align + Header :
        Header = k * l.align \/ l.align = k * Header
  BY HeapAssumption
<1>2. /\ m \in Nat /\ l.align <= m /\ m < l.align + Header
      /\ \E j \in Nat : m = j * Header
  <2>1. Header \in Nat \ {0}
    BY DEF Header
  <2> QED
    BY <1>0, <2>1, AlignUpProperties
<1>3. CASE Header = k * l.align
  <2>1. l.align <= Header
    BY <1>0, <1>1, <1>3, SMT DEF Header
  <2>2. m = Header
    BY <1>0, <1>2, <2>1, SMT DEF Header
  <2> QED
    BY <1>0, <1>1, <1>3, <2>2 DEF Header
<1>4. CASE l.align = k * Header
  <2>1. m = l.align
    BY <1>0, <1>1, <1>2, <1>4, SMT DEF Header
  <2>2. m = 1 * l.align
    BY <2>1, <1>0
  <2> QED
    BY <1>0, <2>1, <2>2
<1> QED
  BY <1>1, <1>3, <1>4

(* A block of layout l carved out of a node that starts at a. *)
LEMMA PayloadProperties ==
  ASSUME NEW a \in Nat, NEW l \in Layouts
  PROVE  LET m == AlignUp(l.align, Header)
             p == Payload(a, l)
         IN  /\ p \in Nat /\ a + Header <= p /\ p < a + Header + m
             /\ \E k \in Nat : p = k * m
             /\ Rounded(l) \in Nat /\ l.size <= Rounded(l) /\ l.size > 0
             /\ l.size \in Nat
<1>1. /\ l.size \in Nat \ {0}
      /\ a + Header \in Nat /\ Header \in Nat \ {0}
  BY HeapAssumption DEF Header
<1>2. AlignUp(l.align, Header) \in Nat \ {0}
  BY AlignmentProperties
<1>3. /\ Payload(a, l) \in Nat /\ a + Header <= Payload(a, l)
      /\ Payload(a, l) < a + Header + AlignUp(l.align, Header)
      /\ \E k \in Nat : Payload(a, l) = k * AlignUp(l.align, Header)
  BY <1>1, <1>2, AlignUpProperties DEF Payload
<1>4. Rounded(l) \in Nat /\ l.size <= Rounded(l)
  BY <1>1, AlignUpProperties DEF Rounded
<1> QED
  BY <1>1, <1>3, <1>4

(* A multiple of n is where it is aligned to. *)
LEMMA AlignedStays ==
  ASSUME NEW k \in Nat, NEW n \in Nat \ {0}
  PROVE  AlignUp(k * n, n) = k * n
<1>1. k * n \in Nat
  BY SMT
<1>2. /\ k * n <= AlignUp(k * n, n) /\ AlignUp(k * n, n) < k * n + n
      /\ AlignUp(k * n, n) \in Nat
      /\ \E j \in Nat : AlignUp(k * n, n) = j * n
  BY <1>1, AlignUpProperties
<1>3. PICK j \in Nat : AlignUp(k * n, n) = j * n
  BY <1>2
<1>4. k * n <= j * n /\ j * n < (k + 1) * n
  BY <1>1, <1>2, <1>3, SMT
<1>5. k <= j
  BY <1>4, SMT
<1>6. j < k + 1
  BY <1>4, SMT
<1> QED
  BY <1>3, <1>5, <1>6, SMT

LEMMA BlockWithinNode ==
  ASSUME NEW n \in Nodes, NEW l \in Layouts, Fits(n, l)
  PROVE  LET b == BlockSpan(Block(Payload(n.addr, l), l)) IN
         Within(b, NodeSpan(n)) /\ b.from \in Int /\ b.to \in Int /\ b.from < b.to
<1> DEFINE p == Payload(n.addr, l)
           b == BlockSpan(Block(p, l))
<1>1. n.addr \in Nat /\ n.size \in Nat /\ Header \in Nat
  BY DEF Nodes, Header
<1>2. /\ p \in Nat /\ n.addr + Header <= p
      /\ Rounded(l) \in Nat /\ l.size <= Rounded(l) /\ l.size > 0 /\ l.size \in Nat
  BY <1>1, PayloadProperties
<1>3. b.from = p - Header /\ b.to = p + Rounded(l)
  BY DEF BlockSpan, Block, Span
<1>4. p + Rounded(l) <= n.addr + Header + n.size
  BY <1>1, <1>2 DEF Fits, Rest
<1>5. NodeSpan(n).from = n.addr /\ NodeSpan(n).to = n.addr + Header + n.size
  BY DEF NodeSpan, Span
<1> HIDE DEF p, b
<1>6. Within(b, NodeSpan(n)) /\ b.from \in Int /\ b.to \in Int /\ b.from < b.to
  BY <1>1, <1>2, <1>3, <1>4, <1>5 DEF Within
<1> QED
  BY <1>6 DEF p, b

(* A node, the block taken from it, and the rest, each behind the other.   *)
LEMMA CarvedSpans ==
  ASSUME NEW n \in Nodes, NEW l \in Layouts, Fits(n, l)
  PROVE  LET p == Payload(n.addr, l)
             s == NodeSpan(n)
             b == BlockSpan(Block(p, l))
             r == NodeSpan(Node(p + Rounded(l), Rest(n, l) - Header))
         IN  /\ s.from \in Int /\ b.from \in Int /\ b.to \in Int /\ s.to \in Int
             /\ s.from <= b.from /\ b.from <= b.to /\ b.to <= s.to
             /\ r.from = b.to /\ r.to = s.to
<1> DEFINE a == n.addr
           size == n.size
           p == Payload(n.addr, l)
           k == Rounded(l)
           rest == Rest(n, l)
           s == NodeSpan(n)
           b == BlockSpan(Block(p, l))
           r == NodeSpan(Node(p + k, rest - Header))
<1>1. a \in Nat /\ size \in Nat /\ Header \in Nat
  BY DEF Nodes, Header
<1>2. p \in Nat /\ a + Header <= p /\ k \in Nat
  BY <1>1, PayloadProperties
<1>3. rest = (a + Header + size) - (p + k) /\ rest >= 0
  BY DEF Rest, Fits
<1>4. /\ s.from = a /\ s.to = a + Header + size
      /\ b.from = p - Header /\ b.to = p + k
      /\ r.from = p + k /\ r.to = (p + k) + Header + (rest - Header)
  BY DEF NodeSpan, BlockSpan, Span, Block, Node
<1> HIDE DEF a, size, p, k, rest, s, b, r
<1>5. /\ s.from \in Int /\ b.from \in Int /\ b.to \in Int /\ s.to \in Int
      /\ s.from <= b.from /\ b.from <= b.to /\ b.to <= s.to
      /\ r.from = b.to
  BY <1>1, <1>2, <1>3, <1>4
<1>6. r.to = s.to
  BY <1>1, <1>2, <1>3, <1>4
<1> QED
  BY <1>5, <1>6 DEF s, b, r, p, k, rest

LEMMA BlockSpans ==
  ASSUME NEW b \in Blocks
  PROVE  BlockSpan(b) \in Spans
<1>1. b.addr \in Nat /\ b.layout \in Layouts
  BY DEF Blocks
<1>2. Rounded(b.layout) \in Nat
  BY <1>1, PayloadProperties
<1>3. b.addr - Header \in Int /\ b.addr + Rounded(b.layout) \in Int
  BY <1>1, <1>2 DEF Header
<1> QED
  BY <1>3 DEF BlockSpan, Span, Spans
-----------------------------------------------------------------------------
(***************************************************************************)
(* The invariant: types, the spans, and that each block is where the       *)
(* alignment of its layout put it.                                         *)
(***************************************************************************)

BlocksAligned ==
  \A b \in live :
    \E k \in Nat : b.addr = k * AlignUp(b.layout.align, Header)

HeapInv == HeapTypeOK /\ NothingOverlaps /\ BlocksAligned

LEMMA HeapInitInv == HeapInit => HeapInv
<1> SUFFICES ASSUME HeapInit PROVE HeapInv
  OBVIOUS
<1>1. free = <<>> /\ live = {} /\ used = 0 /\ initialized = FALSE
  BY DEF HeapInit
<1>2. free \in Seq(Nodes) /\ DOMAIN free = {}
  BY <1>1
<1>3. HeapTypeOK
  <2>1. used \in Int
    BY <1>1
  <2> QED
    BY <1>1, <1>2, <2>1, Zenon DEF HeapTypeOK
<1>4. NothingOverlaps
  BY <1>1, <1>2 DEF NothingOverlaps
<1> QED
  BY <1>1, <1>3, <1>4 DEF HeapInv, BlocksAligned

(* o says which old node each node of list t lies in: itself, or node i of *)
(* which r is the rest, if there is one; no other old node is missing.     *)
IsOrigin(o, t, i, r, split) ==
  /\ \A j, k \in DOMAIN t : j # k => o[j] # o[k]
  /\ \A j \in DOMAIN t : t[j] = IF o[j] = i THEN r ELSE free[o[j]]
  /\ \A j \in DOMAIN t : o[j] = i => split
  /\ \A k \in DOMAIN free : k # i \/ split => \E j \in DOMAIN t : o[j] = k

(* After an allocation each node lies within a node of its own from before, *)
(* and the one within node i is the rest.                                  *)
LEMMA TakenProperties ==
  ASSUME NEW l \in Layouts, NEW i \in DOMAIN free, Fits(free[i], l),
         free \in Seq(Nodes)
  PROVE  LET n == free[i]
             r == Node(Payload(n.addr, l) + Rounded(l), Rest(n, l) - Header)
             t == Taken(i, l)
         IN  /\ t \in Seq(Nodes)
             /\ \E o \in [DOMAIN t -> DOMAIN free] :
                  IsOrigin(o, t, i, r, Rest(n, l) >= Header + 16)
<1> DEFINE n == free[i]
           r == Node(Payload(n.addr, l) + Rounded(l), Rest(n, l) - Header)
           t == Taken(i, l)
<1>1. n \in Nodes /\ n.addr \in Nat /\ n.size \in Nat
  BY ElementProperties
<1>2. Payload(n.addr, l) \in Nat /\ Rounded(l) \in Nat
  BY <1>1, PayloadProperties
<1>3. Rest(n, l) \in Nat
  BY <1>1, <1>2 DEF Rest, Fits, Header
<1>4. CASE Rest(n, l) >= Header + 16
  <2>1. t = ReplaceAt(free, i, r)
    BY <1>4 DEF Taken
  <2>2. r \in Nodes
    <3>1. Rest(n, l) - Header \in Nat
      BY <1>3, <1>4 DEF Header
    <3>2. Payload(n.addr, l) + Rounded(l) \in Nat
      BY <1>2
    <3> QED
      BY <3>1, <3>2, NodeProperties
  <2>3. /\ t \in Seq(Nodes) /\ Len(t) = Len(free)
        /\ \A j \in 1 .. Len(free) : t[j] = IF j = i THEN r ELSE free[j]
    <3> HIDE DEF r, t, n
    <3>1. t = [free EXCEPT ![i] = r]
      BY <2>1 DEF ReplaceAt
    <3> QED
      BY <2>2, <3>1, SMTT(20)
  <2> DEFINE o == [j \in DOMAIN t |-> j]
  <2> HIDE DEF t, r, n
  <2>4. DOMAIN t = 1 .. Len(free) /\ DOMAIN free = 1 .. Len(free)
    BY <2>3
  <2>5. o \in [DOMAIN t -> DOMAIN free]
    BY <2>4
  <2>6. /\ \A j, k \in DOMAIN t : j # k => o[j] # o[k]
        /\ \A j \in DOMAIN t : t[j] = IF o[j] = i THEN r ELSE free[o[j]]
        /\ \A k \in DOMAIN free : \E j \in DOMAIN t : o[j] = k
    BY <2>3, <2>4
  <2> HIDE DEF o
  <2>8. IsOrigin(o, t, i, r, Rest(n, l) >= Header + 16)
    BY <1>4, <2>3, <2>5, <2>6 DEF IsOrigin
  <2> QED
    BY <2>3, <2>5, <2>8 DEF t, r, n
<1>5. CASE ~(Rest(n, l) >= Header + 16)
  <2>1. t = RemoveAt(free, i)
    BY <1>5 DEF Taken
  <2>2. /\ t \in Seq(Nodes) /\ Len(t) = Len(free) - 1
        /\ \A j \in 1 .. Len(free) - 1 :
             t[j] = IF j < i THEN free[j] ELSE free[j + 1]
    BY <2>1, RemoveAtProperties
  <2> DEFINE o == [j \in DOMAIN t |-> IF j < i THEN j ELSE j + 1]
  <2> HIDE DEF t, r, n
  <2>3. /\ DOMAIN t = 1 .. Len(free) - 1 /\ DOMAIN free = 1 .. Len(free)
        /\ Len(free) \in Nat /\ i \in 1 .. Len(free)
    BY <2>2
  <2>4. o \in [DOMAIN t -> DOMAIN free]
    BY <2>3
  <2>5. \A j \in DOMAIN t : o[j] # i /\ t[j] = free[o[j]]
    BY <2>2, <2>3
  <2>6. \A j, k \in DOMAIN t : j # k => o[j] # o[k]
    BY <2>3
  <2>7. ASSUME NEW k \in DOMAIN free, k # i
        PROVE  \E j \in DOMAIN t : o[j] = k
    <3>1. CASE k < i
      <4>1. k \in DOMAIN t /\ o[k] = k
        BY <2>3, <3>1
      <4> QED
        BY <4>1
    <3>2. CASE k > i
      <4>1. k - 1 \in DOMAIN t /\ o[k - 1] = k
        BY <2>3, <3>2
      <4> QED
        BY <4>1
    <3> QED
      BY <2>3, <2>7, <3>1, <3>2, SMTT(20)
  <2> HIDE DEF o
  <2>8. IsOrigin(o, t, i, r, Rest(n, l) >= Header + 16)
    BY <1>5, <2>2, <2>4, <2>5, <2>6, <2>7 DEF IsOrigin
  <2> QED
    BY <2>2, <2>4, <2>8 DEF t, r, n
<1> QED
  BY <1>4, <1>5

LEMMA AllocPreservesInv ==
  ASSUME HeapInv, NEW l \in Layouts, Alloc(l)
  PROVE  HeapInv'
<1>0. HeapTypeOK /\ NothingOverlaps /\ BlocksAligned
  BY DEF HeapInv
<1>1. PICK i \in DOMAIN free :
        /\ Fits(free[i], l)
        /\ live' = live \union {Block(Payload(free[i].addr, l), l)}
        /\ free' = Taken(i, l)
        /\ used' = used + l.size
        /\ UNCHANGED initialized
  BY DEF Alloc
<1> DEFINE n == free[i]
           p == Payload(n.addr, l)
           b == Block(p, l)
           r == Node(p + Rounded(l), Rest(n, l) - Header)
<1>1a. live' = live \union {b}
  BY <1>1
<1>2. /\ free \in Seq(Nodes)
      /\ n \in Nodes /\ n.addr \in Nat /\ n.size \in Nat
  <2>1. free \in Seq(Nodes)
    BY <1>0 DEF HeapTypeOK
  <2>2. n \in Nodes /\ n.addr \in Nat /\ n.size \in Nat
    BY <2>1, ElementProperties
  <2> QED
    BY <2>1, <2>2
<1>3. /\ p \in Nat /\ n.addr + Header <= p
      /\ \E k \in Nat : p = k * AlignUp(l.align, Header)
      /\ Rounded(l) \in Nat /\ l.size <= Rounded(l) /\ l.size > 0 /\ l.size \in Nat
  BY <1>2, PayloadProperties
<1>5. /\ b.addr = p /\ b.layout = l
      /\ b \in Blocks
  BY <1>3 DEF Block, Blocks
<1>6. free' \in Seq(Nodes)
  BY <1>1, <1>2, TakenProperties
<1>6a. PICK o \in [DOMAIN free' -> DOMAIN free] :
         IsOrigin(o, free', i, r, Rest(n, l) >= Header + 16)
  BY <1>1, <1>2, TakenProperties
<1>7. /\ \A j \in DOMAIN free' : o[j] \in DOMAIN free
      /\ \A j, k \in DOMAIN free' : j # k => o[j] # o[k]
      /\ \A j \in DOMAIN free' :
           free'[j] = IF o[j] = i THEN r ELSE free[o[j]]
      /\ \A j \in DOMAIN free' : o[j] = i => Rest(n, l) >= Header + 16
  BY <1>6a DEF IsOrigin
<1>8. Header \in Nat /\ HeapStart \in Nat /\ HeapSize \in Nat /\ Header > 0
  BY HeapAssumption DEF Header
<1>9. /\ NodeSpan(n).from \in Int /\ NodeSpan(n).to \in Int
      /\ BlockSpan(b).from \in Int /\ BlockSpan(b).to \in Int
      /\ NodeSpan(n).from <= BlockSpan(b).from
      /\ BlockSpan(b).from <= BlockSpan(b).to
      /\ BlockSpan(b).to <= NodeSpan(n).to
      /\ NodeSpan(r).from = BlockSpan(b).to /\ NodeSpan(r).to = NodeSpan(n).to
  BY <1>1, <1>2, CarvedSpans
<1>10. /\ NodeSpan(n).from <= BlockSpan(b).from
       /\ BlockSpan(b).to <= NodeSpan(n).to
  BY <1>9
<1>11. /\ NodeSpan(r).from = BlockSpan(b).to
       /\ NodeSpan(r).to = NodeSpan(n).to
       /\ NodeSpan(n).from <= NodeSpan(r).from
  <2> DEFINE x == NodeSpan(n).from
             y == BlockSpan(b).from
             w == BlockSpan(b).to
  <2>1. x \in Int /\ y \in Int /\ w \in Int /\ x <= y /\ y <= w
    BY <1>9
  <2> HIDE DEF x, y, w
  <2>2. x <= w
    BY <2>1
  <2> QED
    BY <1>9, <2>2 DEF x, w
<1>12. HeapTypeOK'
  <2>1. live' \subseteq Blocks
    BY <1>0, <1>1, <1>5 DEF HeapTypeOK
  <2>2. used' \in Int
    BY <1>0, <1>1, <1>3 DEF HeapTypeOK
  <2>3. initialized
    BY <1>0, <1>1, <1>2 DEF HeapTypeOK
  <2> QED
    BY <1>1, <1>6, <2>1, <2>2, <2>3 DEF HeapTypeOK
<1>13. BlocksAligned'
  BY <1>0, <1>1, <1>3, <1>5 DEF BlocksAligned
<1> DEFINE Small(j) == NodeSpan(free'[j])
           Large(j) == NodeSpan(free[o[j]])
<1>14. /\ \A j \in DOMAIN free' : Small(j) \in Spans /\ Large(j) \in Spans
       /\ \A j \in DOMAIN free : NodeSpan(free[j]) \in Spans
       /\ \A c \in live' : BlockSpan(c) \in Spans
       /\ BlockSpan(b) \in Spans /\ NodeSpan(n) \in Spans
       /\ NodeSpan(n).to \in Int /\ BlockSpan(b).from \in Int
       /\ NodeSpan(n).from \in Int /\ BlockSpan(b).to \in Int
  <2>1. \A c \in live' : c \in Blocks
    BY <1>12 DEF HeapTypeOK
  <2>2. BlockSpan(b) \in Spans /\ NodeSpan(n) \in Spans
    BY <1>2, <1>5, NodeSpans, BlockSpans
  <2> QED
    BY <1>2, <1>6, <1>7, <2>1, <2>2, NodeSpans, BlockSpans DEF Spans
<1>15. Within(BlockSpan(b), NodeSpan(n))
  BY <1>10 DEF Within
<1>16. \A j \in DOMAIN free' :
         Within(Small(j), Large(j)) /\ Disjoint(Small(j), BlockSpan(b))
  <2> SUFFICES ASSUME NEW j \in DOMAIN free'
               PROVE  Within(Small(j), Large(j)) /\ Disjoint(Small(j), BlockSpan(b))
    OBVIOUS
  <2>1. CASE o[j] = i
    <3>1. Small(j) = NodeSpan(r) /\ Large(j) = NodeSpan(n)
      BY <1>7, <2>1
    <3>2. Rest(n, l) >= Header + 16
      BY <1>7, <2>1
    <3>3. NodeSpan(r) \in Spans
      BY <1>14, <3>1
    <3> HIDE DEF r, n, b, Small, Large
    <3> QED
      BY <1>11, <1>14, <3>1, <3>2, <3>3 DEF Disjoint, Within, Spans
  <2>2. CASE o[j] # i
    <3>1. Small(j) = Large(j)
      BY <1>7, <2>2
    <3>2. Disjoint(Large(j), NodeSpan(n))
      BY <1>0, <1>7, <2>2 DEF NothingOverlaps
    <3> HIDE DEF Small, Large, n, b
    <3> QED
      BY <1>14, <1>15, <3>1, <3>2, DisjointWithin, WithinItself
  <2> QED
    BY <2>1, <2>2
<1> HIDE DEF Small, Large, n, b, r
<1>17. \A j, k \in DOMAIN free' : j # k => Disjoint(Small(j), Small(k))
  <2>1. \A j, k \in DOMAIN free' : j # k => Disjoint(Large(j), Large(k))
    BY <1>0, <1>7 DEF NothingOverlaps, Large
  <2> QED
    BY <1>14, <1>16, <2>1, DisjointWithin
<1>18. \A j \in DOMAIN free', c \in live' : Disjoint(Small(j), BlockSpan(c))
  <2> SUFFICES ASSUME NEW j \in DOMAIN free', NEW c \in live', c # b
               PROVE  Disjoint(Small(j), BlockSpan(c))
    BY <1>16
  <2>1. c \in live
    BY <1>1a
  <2>2. Disjoint(Large(j), BlockSpan(c))
    BY <1>0, <1>7, <2>1 DEF NothingOverlaps, Large
  <2> QED
    BY <1>14, <1>16, <2>2, DisjointWithin, WithinItself
<1>19. \A c \in live' : c # b => /\ Disjoint(BlockSpan(b), BlockSpan(c))
                               /\ Disjoint(BlockSpan(c), BlockSpan(b))
  <2> SUFFICES ASSUME NEW c \in live', c # b
               PROVE  Disjoint(BlockSpan(b), BlockSpan(c))
    BY DEF Disjoint
  <2>1. c \in live
    BY <1>1a
  <2>2. Disjoint(NodeSpan(n), BlockSpan(c))
    BY <1>0, <2>1 DEF NothingOverlaps, n
  <2> QED
    BY <1>14, <1>15, <2>2, DisjointWithin, WithinItself
<1>20. NothingOverlaps'
  <2>1. \A c, d \in live' : c # d => Disjoint(BlockSpan(c), BlockSpan(d))
    <3>1. \A c \in live' : c # b => c \in live
      BY <1>1a
    <3> QED
      BY <1>0, <1>19, <3>1 DEF NothingOverlaps
  <2>2. InHeap(NodeSpan(n))
    BY <1>0 DEF NothingOverlaps, n
  <2>3. \A s \in Spans : Within(s, NodeSpan(n)) => InHeap(s)
    BY <1>8, <1>14, <2>2 DEF Within, InHeap, Spans
  <2>4. \A c \in live' : InHeap(BlockSpan(c))
    BY <1>0, <1>1a, <1>14, <1>15, <2>3 DEF NothingOverlaps
  <2>5. \A j \in DOMAIN free' : InHeap(NodeSpan(free'[j]))
    <3> SUFFICES ASSUME NEW j \in DOMAIN free' PROVE InHeap(Small(j))
      BY DEF Small
    <3>1. InHeap(Large(j))
      BY <1>0, <1>7 DEF NothingOverlaps, Large
    <3> QED
      BY <1>8, <1>14, <1>16, <3>1 DEF Within, InHeap, Spans
  <2> QED
    BY <1>17, <1>18, <2>1, <2>4, <2>5 DEF NothingOverlaps, Small
<1> QED
  BY <1>12, <1>13, <1>20 DEF HeapInv

LEMMA InitializePreservesInv ==
  ASSUME HeapInv, HeapInitialize
  PROVE  HeapInv'
<1> DEFINE n == Node(HeapStart, HeapSize - Header)
<1>1. /\ free' = <<n>> /\ initialized' = TRUE
      /\ live' = live /\ used' = used /\ live = {} /\ used \in Int
  BY DEF HeapInitialize, HeapInv, HeapTypeOK
<1>2. HeapStart \in Nat /\ HeapSize - Header \in Nat /\ HeapSize \in Nat
  BY HeapAssumption DEF Header
<1>3. n \in Nodes /\ n.addr = HeapStart /\ n.size = HeapSize - Header
  BY <1>2, NodeProperties
<1>4. free' \in Seq(Nodes) /\ DOMAIN free' = {1} /\ free'[1] = n
  BY <1>1, <1>3
<1>5. InHeap(NodeSpan(n))
  BY <1>2, <1>3 DEF InHeap, NodeSpan, Span, Header
<1> HIDE DEF n
<1>6. HeapTypeOK'
  BY <1>1, <1>4 DEF HeapTypeOK
<1>7. NothingOverlaps'
  BY <1>1, <1>4, <1>5 DEF NothingOverlaps
<1> QED
  BY <1>1, <1>6, <1>7 DEF HeapInv, BlocksAligned

(* The node dealloc makes takes up what the block did. *)
LEMMA FreedNode ==
  ASSUME HeapInv, NEW b \in live
  PROVE  LET n == Node(b.addr - Header, Rounded(b.layout)) IN
         /\ n \in Nodes /\ NodeSpan(n) = BlockSpan(b)
         /\ Payload(n.addr, b.layout) = b.addr /\ Rest(n, b.layout) = 0
<1> DEFINE n == Node(b.addr - Header, Rounded(b.layout))
<1>1. b.addr \in Nat /\ b.layout \in Layouts
  BY DEF HeapInv, HeapTypeOK, Blocks
<1>2. Rounded(b.layout) \in Nat
  BY <1>1, PayloadProperties
<1>3. Header \in Nat /\ HeapStart \in Nat
  BY HeapAssumption DEF Header
<1>4. HeapStart <= b.addr - Header
  BY DEF HeapInv, NothingOverlaps, InHeap, BlockSpan, Span
<1>5. b.addr - Header \in Nat
  BY <1>1, <1>3, <1>4
<1>6. /\ n \in Nodes /\ n.addr = b.addr - Header
      /\ n.size = Rounded(b.layout)
  BY <1>2, <1>5, NodeProperties
<1> HIDE DEF n
<1>7. n.addr + Header = b.addr /\ n.addr + Header + n.size = b.addr + Rounded(b.layout)
  BY <1>1, <1>2, <1>3, <1>6
<1>8. NodeSpan(n) = BlockSpan(b)
  BY <1>6, <1>7 DEF NodeSpan, BlockSpan, Span
<1>9. Payload(n.addr, b.layout) = b.addr
  <2>1. PICK k \in Nat : b.addr = k * AlignUp(b.layout.align, Header)
    BY DEF HeapInv, BlocksAligned
  <2>2. AlignUp(b.layout.align, Header) \in Nat \ {0}
    BY <1>1, AlignmentProperties
  <2>3. AlignUp(b.addr, AlignUp(b.layout.align, Header)) = b.addr
    BY <2>1, <2>2, AlignedStays
  <2> QED
    BY <1>7, <2>3 DEF Payload
<1>10. Rest(n, b.layout) = 0
  BY <1>1, <1>2, <1>7, <1>9 DEF Rest
<1> QED
  BY <1>6, <1>8, <1>9, <1>10 DEF n

LEMMA DeallocPreservesInv ==
  ASSUME HeapInv, NEW b \in live, Dealloc(b)
  PROVE  HeapInv'
<1> DEFINE n == Node(b.addr - Header, Rounded(b.layout))
<1>1. /\ free' = <<n>> \o free /\ live' = live \ {b}
      /\ used' = used - b.layout.size /\ initialized' = initialized
  BY DEF Dealloc
<1>2. n \in Nodes /\ NodeSpan(n) = BlockSpan(b)
  BY FreedNode
<1> HIDE DEF n
<1>3. /\ HeapTypeOK /\ NothingOverlaps /\ BlocksAligned
      /\ free \in Seq(Nodes) /\ used \in Int /\ live \subseteq Blocks
      /\ initialized \in BOOLEAN /\ initialized
  BY DEF HeapInv, HeapTypeOK
<1>4. /\ free' \in Seq(Nodes) /\ Len(free') = Len(free) + 1
      /\ \A j \in 1 .. Len(free) + 1 :
           free'[j] = IF j = 1 THEN n ELSE free[j - 1]
  BY <1>1, <1>2, <1>3, ConsProperties
<1>5. DOMAIN free' = 1 .. Len(free) + 1 /\ DOMAIN free = 1 .. Len(free)
  BY <1>3, <1>4
<1>6. /\ \A j \in DOMAIN free' :
           NodeSpan(free'[j]) = IF j = 1 THEN BlockSpan(b)
                                         ELSE NodeSpan(free[j - 1])
      /\ \A j \in DOMAIN free' : j # 1 => j - 1 \in DOMAIN free
      /\ \A j, k \in DOMAIN free' : j # k => j - 1 # k - 1
  BY <1>2, <1>4, <1>5
<1>7. HeapTypeOK'
  <2>1. used' \in Int
    <3>1. b.layout \in Layouts
      BY <1>3 DEF Blocks
    <3>2. b.layout.size \in Int
      BY <3>1, HeapAssumption
    <3> QED
      BY <1>1, <1>3, <3>2
  <2> QED
    BY <1>1, <1>3, <1>4, <2>1 DEF HeapTypeOK
<1>8. NothingOverlaps'
  <2>1. \A j \in DOMAIN free' : InHeap(NodeSpan(free'[j]))
    BY <1>3, <1>6 DEF NothingOverlaps
  <2>2. \A j, k \in DOMAIN free' :
          j # k => Disjoint(NodeSpan(free'[j]), NodeSpan(free'[k]))
    <3> SUFFICES ASSUME NEW j \in DOMAIN free', NEW k \in DOMAIN free', j # k
                 PROVE  Disjoint(NodeSpan(free'[j]), NodeSpan(free'[k]))
      OBVIOUS
    <3>1. \A i \in DOMAIN free : /\ Disjoint(NodeSpan(free[i]), BlockSpan(b))
                                 /\ Disjoint(BlockSpan(b), NodeSpan(free[i]))
      BY <1>3 DEF NothingOverlaps, Disjoint
    <3>2. CASE j = 1
      BY <1>6, <3>1, <3>2
    <3>3. CASE k = 1
      BY <1>6, <3>1, <3>3
    <3>4. CASE j # 1 /\ k # 1
      BY <1>3, <1>6, <3>4 DEF NothingOverlaps
    <3> QED
      BY <3>2, <3>3, <3>4
  <2>3. \A j \in DOMAIN free', c \in live' :
          Disjoint(NodeSpan(free'[j]), BlockSpan(c))
    BY <1>1, <1>3, <1>6 DEF NothingOverlaps
  <2> QED
    BY <1>1, <1>3, <2>1, <2>2, <2>3 DEF NothingOverlaps
<1> QED
  BY <1>1, <1>3, <1>7, <1>8 DEF HeapInv, BlocksAligned

LEMMA HeapNextInv == HeapInv /\ [HeapNext]_heapVars => HeapInv'
<1> SUFFICES ASSUME HeapInv, [HeapNext]_heapVars
             PROVE  HeapInv'
  OBVIOUS
<1>1. CASE UNCHANGED heapVars
  BY <1>1 DEF heapVars, HeapInv, HeapTypeOK, NothingOverlaps, BlocksAligned
<1> QED
  BY <1>1, InitializePreservesInv, AllocPreservesInv, DeallocPreservesInv
  DEF HeapNext, AllocFails
-----------------------------------------------------------------------------
(***************************************************************************)
(* Bytes: what a block holds, and what the list and the blocks cover.      *)
(***************************************************************************)

(* The bytes the program asked for. *)
Held(b) == b.addr .. b.addr + b.layout.size - 1

LEMMA DisjointBytes ==
  ASSUME NEW s \in Spans, NEW t \in Spans, Disjoint(s, t)
  PROVE  Bytes(s) \cap Bytes(t) = {}
  BY DEF Disjoint, Bytes, Spans

LEMMA WithinBytes ==
  ASSUME NEW s \in Spans, NEW t \in Spans, Within(s, t)
  PROVE  Bytes(s) \subseteq Bytes(t)
  BY DEF Within, Bytes, Spans

LEMMA HeldBytes ==
  ASSUME NEW b \in Blocks
  PROVE  /\ b.layout.size \in Nat
         /\ IsFiniteSet(Held(b)) /\ Cardinality(Held(b)) = b.layout.size
         /\ Held(b) \subseteq Bytes(BlockSpan(b))
<1>1. /\ b.addr \in Nat /\ b.layout \in Layouts
      /\ Header \in Nat
  BY DEF Blocks, Header
<1>2. /\ Rounded(b.layout) \in Nat /\ b.layout.size <= Rounded(b.layout)
      /\ b.layout.size > 0 /\ b.layout.size \in Nat
  BY <1>1, PayloadProperties
<1> DEFINE to == b.addr + b.layout.size - 1
<1>3. to \in Int /\ b.addr <= to /\ to - b.addr + 1 = b.layout.size
  BY <1>1, <1>2
<1>4. /\ BlockSpan(b).from = b.addr - Header
      /\ BlockSpan(b).to = b.addr + Rounded(b.layout)
  BY DEF BlockSpan, Span
<1>5. Held(b) = b.addr .. to
  BY DEF Held
<1>6. Held(b) \subseteq Bytes(BlockSpan(b))
  BY <1>1, <1>2, <1>4 DEF Held, Bytes
<1>6a. b.addr \in Int
  BY <1>1
<1> HIDE DEF to
<1>7. /\ IsFiniteSet(b.addr .. to)
      /\ Cardinality(b.addr .. to) = IF b.addr > to THEN 0 ELSE to - b.addr + 1
  BY <1>3, <1>6a, FS_Interval
<1> QED
  BY <1>1, <1>2, <1>3, <1>5, <1>6, <1>7

(* The block taken from a node is apart from every block in use before, so *)
(* that it is not one of them.                                             *)
LEMMA NewBlockApart ==
  ASSUME HeapInv, NEW i \in DOMAIN free, NEW l \in Layouts, Fits(free[i], l)
  PROVE  LET b == Block(Payload(free[i].addr, l), l) IN
         /\ b \in Blocks /\ b \notin live
         /\ \A c \in live : Disjoint(BlockSpan(b), BlockSpan(c))
<1> DEFINE n == free[i]
           b == Block(Payload(n.addr, l), l)
<1>1. /\ free \in Seq(Nodes) /\ live \subseteq Blocks
      /\ \A c \in live : Disjoint(NodeSpan(n), BlockSpan(c))
  BY DEF HeapInv, HeapTypeOK, NothingOverlaps
<1>2. n \in Nodes /\ n.addr \in Nat /\ NodeSpan(n) \in Spans
  BY <1>1, ElementProperties, NodeSpans
<1>3. Payload(n.addr, l) \in Nat
  BY <1>2, PayloadProperties
<1>4. b \in Blocks
  BY <1>3 DEF Block, Blocks
<1>5. /\ Within(BlockSpan(b), NodeSpan(n))
      /\ BlockSpan(b).from \in Int /\ BlockSpan(b).to \in Int
      /\ BlockSpan(b).from < BlockSpan(b).to
  BY <1>2, BlockWithinNode
<1>6. BlockSpan(b) \in Spans /\ \A c \in live : BlockSpan(c) \in Spans
  BY <1>1, <1>4, BlockSpans
<1> HIDE DEF n, b
<1>7. \A c \in live : Disjoint(BlockSpan(b), BlockSpan(c))
  BY <1>1, <1>2, <1>5, <1>6, WithinItself, DisjointWithin
<1>8. b \notin live
  BY <1>5, <1>7 DEF Disjoint
<1> QED
  BY <1>4, <1>7, <1>8 DEF n, b
-----------------------------------------------------------------------------
(***************************************************************************)
(* USED_MEMORY counts bytes: the blocks in use are finitely many bytes,    *)
(* since each call adds or removes those of one block, which no other      *)
(* block shares.                                                           *)
(***************************************************************************)

AccountInv == HeapInv /\ IsFiniteSet(BytesInUse) /\ Accounting

LEMMA AllocAccounts ==
  ASSUME AccountInv, NEW l \in Layouts, Alloc(l)
  PROVE  IsFiniteSet(BytesInUse)' /\ Accounting'
<1>1. PICK i \in DOMAIN free :
        /\ Fits(free[i], l)
        /\ live' = live \union {Block(Payload(free[i].addr, l), l)}
        /\ used' = used + l.size
  BY DEF Alloc
<1> DEFINE b == Block(Payload(free[i].addr, l), l)
<1>2. /\ HeapInv /\ IsFiniteSet(BytesInUse) /\ used = Cardinality(BytesInUse)
      /\ live \subseteq Blocks
  BY DEF AccountInv, Accounting, HeapInv, HeapTypeOK
<1>3. /\ b \in Blocks /\ b.layout = l /\ live' = live \union {b}
      /\ \A c \in live : Disjoint(BlockSpan(b), BlockSpan(c))
  BY <1>1, <1>2, NewBlockApart DEF Block
<1> HIDE DEF b
<1>4. /\ l.size \in Nat
      /\ IsFiniteSet(Held(b)) /\ Cardinality(Held(b)) = l.size
      /\ Held(b) \subseteq Bytes(BlockSpan(b))
  BY <1>3, HeldBytes
<1>5. BytesInUse' = BytesInUse \union Held(b)
  BY <1>3 DEF BytesInUse, Held
<1>6. BytesInUse \cap Held(b) = {}
  <2> SUFFICES ASSUME NEW c \in live PROVE Held(c) \cap Held(b) = {}
    BY DEF BytesInUse, Held
  <2>1. Bytes(BlockSpan(b)) \cap Bytes(BlockSpan(c)) = {}
    BY <1>2, <1>3, BlockSpans, DisjointBytes
  <2>2. Held(c) \subseteq Bytes(BlockSpan(c))
    BY <1>2, HeldBytes
  <2> QED
    BY <1>4, <2>1, <2>2
<1>7. /\ IsFiniteSet(BytesInUse \union Held(b))
      /\ Cardinality(BytesInUse \union Held(b))
           = Cardinality(BytesInUse) + Cardinality(Held(b))
             - Cardinality(BytesInUse \cap Held(b))
  BY <1>2, <1>4, FS_Union
<1>8. Cardinality(BytesInUse) \in Nat /\ Cardinality(BytesInUse \cap Held(b)) = 0
  BY <1>2, <1>6, FS_CardinalityType, FS_EmptySet
<1>9. used' = Cardinality(BytesInUse \union Held(b))
  BY <1>1, <1>2, <1>4, <1>7, <1>8
<1> QED
  BY <1>5, <1>7, <1>9 DEF Accounting

LEMMA DeallocAccounts ==
  ASSUME AccountInv, NEW b \in live, Dealloc(b)
  PROVE  IsFiniteSet(BytesInUse)' /\ Accounting'
<1>1. live' = live \ {b} /\ used' = used - b.layout.size
  BY DEF Dealloc
<1>2. /\ HeapInv /\ IsFiniteSet(BytesInUse) /\ used = Cardinality(BytesInUse)
      /\ live \subseteq Blocks
      /\ \A c \in live : c # b => Disjoint(BlockSpan(b), BlockSpan(c))
  BY DEF AccountInv, Accounting, HeapInv, HeapTypeOK, NothingOverlaps
<1>3. /\ b.layout.size \in Nat
      /\ Cardinality(Held(b)) = b.layout.size
      /\ Held(b) \subseteq Bytes(BlockSpan(b))
  BY <1>2, HeldBytes
<1>4. Held(b) \subseteq BytesInUse
  BY DEF BytesInUse, Held
<1>5. \A c \in live : c # b => Held(c) \cap Held(b) = {}
  <2> SUFFICES ASSUME NEW c \in live, c # b PROVE Held(c) \cap Held(b) = {}
    OBVIOUS
  <2>1. Bytes(BlockSpan(b)) \cap Bytes(BlockSpan(c)) = {}
    BY <1>2, BlockSpans, DisjointBytes
  <2>2. Held(c) \subseteq Bytes(BlockSpan(c))
    BY <1>2, HeldBytes
  <2> QED
    BY <1>3, <2>1, <2>2
<1>6. BytesInUse' = BytesInUse \ Held(b)
  <2>1. BytesInUse = UNION {Held(c) : c \in live}
    BY DEF BytesInUse, Held
  <2>2. BytesInUse' = UNION {Held(c) : c \in live \ {b}}
    BY <1>1 DEF BytesInUse, Held
  <2> QED
    BY <1>5, <2>1, <2>2
<1>7. /\ IsFiniteSet(BytesInUse \ Held(b))
      /\ Cardinality(BytesInUse \ Held(b))
           = Cardinality(BytesInUse) - Cardinality(BytesInUse \cap Held(b))
  BY <1>2, FS_Difference
<1>8. BytesInUse \cap Held(b) = Held(b)
  BY <1>4
<1> QED
  BY <1>1, <1>2, <1>3, <1>6, <1>7, <1>8 DEF Accounting

LEMMA AccountInitInv == HeapInit => AccountInv
<1> SUFFICES ASSUME HeapInit PROVE AccountInv
  OBVIOUS
<1>1. BytesInUse = {} /\ used = 0
  BY DEF HeapInit, BytesInUse
<1> QED
  BY <1>1, HeapInitInv, FS_EmptySet DEF AccountInv, Accounting

LEMMA AccountNextInv == AccountInv /\ [HeapNext]_heapVars => AccountInv'
<1> SUFFICES ASSUME AccountInv, [HeapNext]_heapVars PROVE AccountInv'
  OBVIOUS
<1>1. HeapInv'
  BY HeapNextInv DEF AccountInv
<1>2. IsFiniteSet(BytesInUse)' /\ Accounting'
  <2>1. CASE UNCHANGED <<live, used>>
    BY <2>1 DEF AccountInv, Accounting, BytesInUse
  <2> QED
    BY <2>1, AllocAccounts, DeallocAccounts
    DEF HeapNext, HeapInitialize, AllocFails, heapVars
<1> QED
  BY <1>1, <1>2 DEF AccountInv
-----------------------------------------------------------------------------
(***************************************************************************)
(* What an allocation loses: the padding in front of the block, and the    *)
(* rest of the node if it is too small for a node.                         *)
(***************************************************************************)

LEMMA CoveredBytes ==
  /\ \A x : x \in Covered <=> \/ \E j \in DOMAIN free : x \in Bytes(NodeSpan(free[j]))
                             \/ \E c \in live : x \in Bytes(BlockSpan(c))
  /\ \A x : x \in Covered' <=> \/ \E j \in DOMAIN free' : x \in Bytes(NodeSpan(free'[j]))
                              \/ \E c \in live' : x \in Bytes(BlockSpan(c))
  BY DEF Covered

LEMMA DeallocKeepsBytes ==
  ASSUME HeapInv, NEW b \in live, Dealloc(b)
  PROVE  Covered' = Covered
<1> DEFINE n == Node(b.addr - Header, Rounded(b.layout))
<1>1. free' = <<n>> \o free /\ live' = live \ {b}
  BY DEF Dealloc
<1>2. n \in Nodes /\ NodeSpan(n) = BlockSpan(b)
  BY FreedNode
<1> HIDE DEF n
<1>3. free \in Seq(Nodes)
  BY DEF HeapInv, HeapTypeOK
<1>4. /\ free' \in Seq(Nodes) /\ Len(free') = Len(free) + 1
      /\ \A j \in 1 .. Len(free) + 1 :
           free'[j] = IF j = 1 THEN n ELSE free[j - 1]
  BY <1>1, <1>2, <1>3, ConsProperties
<1>5. /\ 1 \in DOMAIN free' /\ free'[1] = n
      /\ \A j \in DOMAIN free : j + 1 \in DOMAIN free' /\ free'[j + 1] = free[j]
      /\ \A j \in DOMAIN free' : j # 1 => j - 1 \in DOMAIN free /\ free'[j] = free[j - 1]
  BY <1>3, <1>4
<1>6. ASSUME NEW x, x \in Covered' PROVE x \in Covered
  <2>1. CASE \E j \in DOMAIN free' : x \in Bytes(NodeSpan(free'[j]))
    BY <1>2, <1>5, <2>1, CoveredBytes
  <2>2. CASE \E c \in live' : x \in Bytes(BlockSpan(c))
    BY <1>1, <2>2, CoveredBytes
  <2> QED
    BY <1>6, <2>1, <2>2, CoveredBytes
<1>7. ASSUME NEW x, x \in Covered PROVE x \in Covered'
  <2>1. CASE \E j \in DOMAIN free : x \in Bytes(NodeSpan(free[j]))
    BY <1>5, <2>1, CoveredBytes
  <2>2. CASE \E c \in live : x \in Bytes(BlockSpan(c))
    BY <1>1, <1>2, <1>5, <2>2, CoveredBytes
  <2> QED
    BY <1>7, <2>1, <2>2, CoveredBytes
<1> QED
  BY <1>6, <1>7

(* The bytes of node n that neither the block of layout l taken from it    *)
(* nor the rest of it, if that becomes a node, accounts for.               *)
Padding(n, l) == n.addr .. Payload(n.addr, l) - Header - 1
Remnant(n, l) ==
  IF Rest(n, l) >= Header + 16 THEN {}
  ELSE Payload(n.addr, l) + Rounded(l) .. (n.addr + Header + n.size) - 1

LEMMA LossOfOneNode ==
  ASSUME NEW n \in Nodes, NEW l \in Layouts, Fits(n, l)
  PROVE  /\ IsFiniteSet(Padding(n, l) \union Remnant(n, l))
         /\ Cardinality(Padding(n, l) \union Remnant(n, l))
              < Header + 16 + AlignUp(l.align, Header)
<1> DEFINE a == n.addr
           p == Payload(n.addr, l)
           m == AlignUp(l.align, Header)
           e == p + Rounded(l)
           z == (n.addr + Header + n.size) - 1
           P == Padding(n, l)
           R == Remnant(n, l)
<1>1. a \in Int /\ a \in Nat /\ n.size \in Nat /\ Header \in Nat /\ Header > 0
  BY DEF Nodes, Header
<1>2. /\ p \in Nat /\ a + Header <= p /\ p < a + Header + m
      /\ Rounded(l) \in Nat
  BY <1>1, PayloadProperties
<1>3. m \in Nat
  BY AlignmentProperties
<1>4. e \in Int /\ z \in Int /\ Rest(n, l) = z + 1 - e /\ e <= z + 1
  BY <1>1, <1>2 DEF Fits, Rest
<1>5. p - Header - 1 \in Int
  BY <1>1, <1>2
<1>6. P = a .. (p - Header - 1)
  BY DEF Padding
<1> DEFINE q == p - Header - 1
<1>6a. q \in Int /\ a <= q + 1 /\ q - a + 1 < m
  BY <1>1, <1>2, <1>3
<1> HIDE DEF q
<1>7. IsFiniteSet(a .. q) /\ Cardinality(a .. q) = IF a > q THEN 0 ELSE q - a + 1
  <2> HIDE DEF a
  <2> QED
    BY <1>1, <1>6a, FS_Interval
<1>7a. P = a .. q
  BY <1>6 DEF q
<1> HIDE DEF a, p, m, e, z, P, R
<1>8. IsFiniteSet(P) /\ Cardinality(P) \in Nat /\ Cardinality(P) < m
  <2>1. CASE a > q
    BY <1>1, <1>2, <1>3, <1>6a, <1>7, <1>7a, <2>1
  <2>2. CASE ~(a > q)
    BY <1>1, <1>3, <1>6a, <1>7, <1>7a, <2>2
  <2> QED
    BY <2>1, <2>2
<1>9. IsFiniteSet(e .. z) /\ Cardinality(e .. z) = IF e > z THEN 0 ELSE z - e + 1
  BY <1>4, FS_Interval
<1>10. IsFiniteSet(R) /\ Cardinality(R) \in Nat /\ Cardinality(R) < Header + 16
  <2>1. CASE Rest(n, l) >= Header + 16
    BY <1>1, <2>1, FS_EmptySet DEF R, Remnant
  <2>2. CASE ~(Rest(n, l) >= Header + 16)
    <3>1. R = e .. z
      BY <2>2 DEF R, Remnant, e, z, p
    <3>2. Cardinality(e .. z) = z - e + 1
      <4>1. CASE e > z
        BY <1>4, <1>9, <4>1
      <4>2. CASE ~(e > z)
        BY <1>9, <4>2
      <4> QED
        BY <4>1, <4>2
    <3> QED
      BY <1>1, <1>4, <1>9, <2>2, <3>1, <3>2
  <2> QED
    BY <2>1, <2>2
<1>11. /\ IsFiniteSet(P \union R)
       /\ Cardinality(P \union R)
            = Cardinality(P) + Cardinality(R) - Cardinality(P \cap R)
  BY <1>8, <1>10, FS_Union
<1>12. IsFiniteSet(P \cap R)
  BY <1>8, FS_Subset
<1>13. Cardinality(P \cap R) \in Nat
  BY <1>12, FS_CardinalityType
<1>14. Cardinality(P \union R) < Header + 16 + m
  BY <1>1, <1>3, <1>8, <1>10, <1>11, <1>13
<1> QED
  BY <1>11, <1>14 DEF P, R, m

LEMMA AllocLosesLittle ==
  ASSUME HeapInv, NEW l \in Layouts, Alloc(l)
  PROVE  \E b \in live' \ live :
           /\ Covered' \subseteq Covered
           /\ Cardinality(Covered \ Covered')
                < Header + 16 + AlignUp(b.layout.align, Header)
<1>1. PICK i \in DOMAIN free :
        /\ Fits(free[i], l)
        /\ live' = live \union {Block(Payload(free[i].addr, l), l)}
        /\ free' = Taken(i, l)
  BY DEF Alloc
<1> DEFINE n == free[i]
           p == Payload(n.addr, l)
           b == Block(p, l)
           r == Node(p + Rounded(l), Rest(n, l) - Header)
           split == Rest(n, l) >= Header + 16
<1>2. /\ free \in Seq(Nodes) /\ n \in Nodes /\ n.addr \in Nat /\ n.size \in Nat
      /\ Header \in Nat
  <2>1. free \in Seq(Nodes)
    BY DEF HeapInv, HeapTypeOK
  <2> QED
    BY <2>1, ElementProperties DEF Header
<1>3. PICK o \in [DOMAIN free' -> DOMAIN free] : IsOrigin(o, free', i, r, split)
  BY <1>1, <1>2, TakenProperties
<1>4. /\ b.layout = l /\ b \notin live /\ b \in live'
      /\ live' = live \union {b}
  BY <1>1, NewBlockApart DEF Block
<1>5. /\ p \in Nat /\ n.addr + Header <= p /\ Rounded(l) \in Nat
      /\ Rest(n, l) \in Int /\ Rest(n, l) >= 0
      /\ p + Rounded(l) + Rest(n, l) = n.addr + Header + n.size
  <2>1. p \in Nat /\ n.addr + Header <= p /\ Rounded(l) \in Nat
    BY <1>2, PayloadProperties
  <2>2. Rest(n, l) >= 0
    BY <1>1 DEF Fits
  <2> QED
    BY <1>2, <2>1, <2>2 DEF Rest
<1> DEFINE e == p + Rounded(l)
           z == n.addr + Header + n.size
<1>6. /\ NodeSpan(n).from = n.addr /\ NodeSpan(n).to = z
      /\ BlockSpan(b).from = p - Header /\ BlockSpan(b).to = e
      /\ NodeSpan(r).from = e
      /\ NodeSpan(r).to = e + Header + (Rest(n, l) - Header)
  BY DEF NodeSpan, BlockSpan, Span, Block, Node
<1>6a. /\ Padding(n, l) = n.addr .. p - Header - 1
       /\ split \/ Remnant(n, l) = e .. z - 1
  BY DEF Padding, Remnant
<1>6b. /\ n.addr \in Int /\ e \in Int /\ z \in Int /\ p - Header \in Int
       /\ n.addr <= p - Header /\ p - Header <= e /\ e <= z
       /\ e + Header + (Rest(n, l) - Header) = z
  <2> DEFINE a == n.addr
             k == Rounded(l)
             rest == Rest(n, l)
             s == n.size
  <2>1. /\ a \in Nat /\ s \in Nat /\ p \in Nat /\ k \in Nat /\ rest \in Int
        /\ rest >= 0 /\ a + Header <= p /\ p + k + rest = a + Header + s
        /\ Header \in Nat
    BY <1>2, <1>5
  <2>2. e = p + k /\ z = a + Header + s
    OBVIOUS
  <2> HIDE DEF a, k, rest, s, p, e, z
  <2>3. /\ a \in Int /\ e \in Int /\ z \in Int /\ p - Header \in Int
        /\ a <= p - Header /\ p - Header <= e /\ e <= z
        /\ e + Header + (rest - Header) = z
    BY <2>1, <2>2
  <2> QED
    BY <2>3 DEF a, rest
<1> DEFINE f == p - Header
<1> HIDE DEF n, b, r, e, z, split
<1>6c. /\ Bytes(NodeSpan(n)) = n.addr .. z - 1
       /\ Bytes(BlockSpan(b)) = f .. e - 1
       /\ Bytes(NodeSpan(r)) = e .. z - 1
       /\ Padding(n, l) = n.addr .. f - 1
  BY <1>6, <1>6a, <1>6b DEF Bytes
<1>6d. f \in Int /\ n.addr <= f /\ f <= e
  BY <1>6b
<1> HIDE DEF f, p
<1>7. Bytes(BlockSpan(b)) \subseteq Bytes(NodeSpan(n))
  BY <1>6b, <1>6c, <1>6d
<1>8. Bytes(NodeSpan(r)) \subseteq Bytes(NodeSpan(n))
  BY <1>6b, <1>6c, <1>6d
<1>9. \A x \in Bytes(NodeSpan(n)) :
        \/ x \in Bytes(BlockSpan(b))
        \/ split /\ x \in Bytes(NodeSpan(r))
        \/ x \in Padding(n, l) \/ x \in Remnant(n, l)
  <2>1. \A x \in n.addr .. z - 1 : \/ x \in n.addr .. f - 1
                                  \/ x \in f .. e - 1
                                  \/ x \in e .. z - 1
    BY <1>6b, <1>6d
  <2> QED
    BY <1>6a, <1>6c, <2>1
<1>10. /\ \A j \in DOMAIN free' :
            /\ o[j] \in DOMAIN free
            /\ free'[j] = IF o[j] = i THEN r ELSE free[o[j]]
       /\ \A k \in DOMAIN free : k # i \/ split => \E j \in DOMAIN free' : o[j] = k
  BY <1>3 DEF IsOrigin
<1>11. ASSUME NEW x, x \in Covered' PROVE x \in Covered
  <2>1. CASE \E j \in DOMAIN free' : x \in Bytes(NodeSpan(free'[j]))
    BY <1>8, <1>10, <2>1, CoveredBytes DEF n
  <2>2. CASE \E c \in live' : x \in Bytes(BlockSpan(c))
    BY <1>4, <1>7, <2>2, CoveredBytes DEF n
  <2> QED
    BY <1>11, <2>1, <2>2, CoveredBytes
<1>12. ASSUME NEW x, x \in Covered, x \notin Covered'
       PROVE  x \in Padding(n, l) \union Remnant(n, l)
  <2>1. PICK k \in DOMAIN free : x \in Bytes(NodeSpan(free[k]))
    BY <1>4, <1>12, CoveredBytes
  <2>2. k = i
    BY <1>10, <1>12, <2>1, CoveredBytes
  <2>3. ~(split /\ x \in Bytes(NodeSpan(r)))
    BY <1>10, <1>12, CoveredBytes
  <2>4. x \notin Bytes(BlockSpan(b))
    BY <1>4, <1>12, CoveredBytes
  <2> QED
    BY <1>9, <2>1, <2>2, <2>3, <2>4 DEF n
<1> DEFINE Lost == Covered \ Covered'
           Bound == Padding(n, l) \union Remnant(n, l)
           Limit == Header + 16 + AlignUp(l.align, Header)
<1>13. Lost \subseteq Bound
  BY <1>12
<1>14. IsFiniteSet(Bound) /\ Cardinality(Bound) < Limit
  BY <1>1, <1>2, LossOfOneNode DEF n
<1>15. Limit \in Nat
  BY AlignmentProperties DEF Header
<1> HIDE DEF Lost, Bound, Limit
<1>16. /\ IsFiniteSet(Lost) /\ Cardinality(Lost) <= Cardinality(Bound)
  BY <1>13, <1>14, FS_Subset
<1>17. Cardinality(Lost) \in Nat /\ Cardinality(Bound) \in Nat
  BY <1>14, <1>16, FS_CardinalityType
<1>18. Cardinality(Lost) < Limit
  BY <1>14, <1>15, <1>16, <1>17
<1> QED
  BY <1>4, <1>11, <1>18 DEF Lost, Limit
-----------------------------------------------------------------------------
(***************************************************************************)
(* The theorems: for a heap at any address, of any size, and any layouts.  *)
(***************************************************************************)

(* allocator.rs: the free list and the blocks in use stay well formed. *)
THEOREM HeapTypes == HeapSpec => []HeapTypeOK
<1>1. HeapInv => HeapTypeOK
  BY DEF HeapInv
<1> QED
  BY <1>1, HeapInitInv, HeapNextInv, PTL DEF HeapSpec

(* alloc and dealloc: no byte is given out twice, or is both free and in   *)
(* use. *)
THEOREM HeapNeverOverlaps == HeapSpec => []NothingOverlaps
<1>1. HeapInv => NothingOverlaps
  BY DEF HeapInv
<1> QED
  BY <1>1, HeapInitInv, HeapNextInv, PTL DEF HeapSpec

(* alloc and dealloc: USED_MEMORY is the number of bytes in use, after any *)
(* sequence of calls. *)
THEOREM UsedIsAccounted == HeapSpec => []Accounting
<1>1. AccountInv => Accounting
  BY DEF AccountInv
<1> QED
  BY <1>1, AccountInitInv, AccountNextInv, PTL DEF HeapSpec

(* dealloc: the node it reconstructs serves the same layout again, at the  *)
(* same place. *)
THEOREM HeapReuses == HeapSpec => FreedCanBeReused
<1> DEFINE Reuse ==
      \A b \in live \ live' :
        \E i \in DOMAIN free' :
          /\ Fits(free'[i], b.layout)
          /\ Payload(free'[i].addr, b.layout) = b.addr
<1>1. ASSUME HeapInv, HeapNext PROVE Reuse
  <2> SUFFICES ASSUME NEW c \in live \ live'
               PROVE  \E i \in DOMAIN free' :
                        /\ Fits(free'[i], c.layout)
                        /\ Payload(free'[i].addr, c.layout) = c.addr
    OBVIOUS
  <2>1. Dealloc(c)
    BY <1>1 DEF HeapNext, HeapInitialize, Alloc, AllocFails, Dealloc, heapVars
  <2> DEFINE n == Node(c.addr - Header, Rounded(c.layout))
  <2>2. free' = <<n>> \o free
    BY <2>1 DEF Dealloc
  <2>3. /\ n \in Nodes
        /\ Payload(n.addr, c.layout) = c.addr /\ Rest(n, c.layout) = 0
    BY <1>1, FreedNode
  <2> HIDE DEF n
  <2>4. free \in Seq(Nodes)
    BY <1>1 DEF HeapInv, HeapTypeOK
  <2>5. 1 \in DOMAIN free' /\ free'[1] = n
    BY <2>2, <2>3, <2>4, ConsProperties
  <2> QED
    BY <2>3, <2>5 DEF Fits
<1>2. HeapInv /\ [HeapNext]_heapVars => [Reuse]_heapVars
  BY <1>1
<1> QED
  BY <1>2, HeapInitInv, HeapNextInv, PTL DEF HeapSpec, FreedCanBeReused

(* alloc loses less than a node and the padding of the alignment, and      *)
(* dealloc nothing. *)
THEOREM LossIsBounded == HeapSpec => LossBounded
<1> DEFINE Loss ==
      initialized =>
        \/ live' \subseteq live /\ Covered' = Covered
        \/ \E b \in live' \ live :
             /\ Covered' \subseteq Covered
             /\ Cardinality(Covered \ Covered')
                  < Header + 16 + AlignUp(b.layout.align, Header)
<1>1. ASSUME HeapInv, HeapNext PROVE Loss
  <2>1. CASE HeapInitialize
    BY <2>1 DEF HeapInitialize
  <2>2. ASSUME NEW l \in Layouts, Alloc(l) PROVE Loss
    BY <1>1, <2>2, AllocLosesLittle
  <2>3. ASSUME NEW l \in Layouts, AllocFails(l) PROVE Loss
    BY <2>3 DEF AllocFails, heapVars, Covered
  <2>4. ASSUME NEW b \in live, Dealloc(b) PROVE Loss
    <3>1. live' \subseteq live
      BY <2>4 DEF Dealloc
    <3>2. Covered' = Covered
      BY <1>1, <2>4, DeallocKeepsBytes
    <3> QED
      BY <3>1, <3>2
  <2> QED
    BY <1>1, <2>1, <2>2, <2>3, <2>4 DEF HeapNext
<1>2. HeapInv /\ [HeapNext]_heapVars => [Loss]_heapVars
  BY <1>1
<1> QED
  BY <1>2, HeapInitInv, HeapNextInv, PTL DEF HeapSpec, LossBounded

(* allocator.rs implements the abstract allocator: every block is aligned, *)
(* inside the heap and apart from all others. *)
THEOREM HeapImplementsAllocator == HeapSpec => ImplementsAllocator
<1>1. HeapInit => Arena!Init
  BY DEF HeapInit, Arena!Init
<1>2. ASSUME HeapInv, HeapInv', HeapNext
      PROVE  Arena!Next \/ UNCHANGED live
  <2>1. CASE HeapInitialize \/ \E l \in Layouts : AllocFails(l)
    BY <2>1 DEF HeapInitialize, AllocFails, heapVars
  <2>2. ASSUME NEW b \in live, Dealloc(b)
        PROVE  Arena!Next
    BY <2>2 DEF Dealloc, Arena!Next, Arena!Dealloc
  <2>3. ASSUME NEW l \in Layouts, Alloc(l)
        PROVE  Arena!Next
    <3>1. PICK i \in DOMAIN free :
            /\ live' = live \union {Block(Payload(free[i].addr, l), l)}
            /\ Fits(free[i], l)
      BY <2>3 DEF Alloc
    <3> DEFINE a == Payload(free[i].addr, l)
               b == Block(a, l)
    <3>2. HeapTypeOK /\ NothingOverlaps /\ NothingOverlaps' /\ HeapTypeOK'
          /\ BlocksAligned'
      BY <1>2 DEF HeapInv
    <3>3. free[i].addr \in Nat
      BY <3>2, ElementProperties DEF HeapTypeOK
    <3>4. /\ a \in Nat /\ b.addr = a /\ b.layout = l
          /\ Rounded(l) \in Nat /\ l.size <= Rounded(l)
          /\ l.size \in Nat /\ l.size > 0
      BY <3>3, PayloadProperties DEF Block
    <3>5. HeapStart \in Nat /\ HeapSize \in Nat /\ Header \in Nat
      BY HeapAssumption DEF Header
    <3> HIDE DEF a
    <3>6. /\ BlockSpan(b).from = a - Header
          /\ BlockSpan(b).to = a + Rounded(l)
      BY <3>4 DEF BlockSpan, Span
    <3> HIDE DEF b
    <3>6a. live' = live \union {b}
      BY <3>1 DEF a, b
    <3>7. InHeap(BlockSpan(b))
      BY <3>2, <3>6a DEF NothingOverlaps
    <3>8. a \in HeapStart .. HeapStart + HeapSize /\ a + l.size <= HeapStart + HeapSize
      BY <3>4, <3>5, <3>6, <3>7 DEF InHeap
    <3>9. Arena!Aligned(a, l.align)
      <4> DEFINE m == AlignUp(l.align, Header)
      <4>1. PICK k \in Nat : a = k * m
        BY <3>2, <3>4, <3>6a DEF BlocksAligned
      <4>2. l.align \in Nat \ {0}
        BY HeapAssumption
      <4>3. PICK r \in Nat : m = r * l.align
        BY AlignmentProperties
      <4> HIDE DEF m
      <4>4. k * r \in Nat /\ a = (k * r) * l.align
        BY <4>1, <4>2, <4>3, SMT
      <4> DEFINE q == k * r
      <4> HIDE DEF q
      <4>5. q \in Nat /\ a = q * l.align
        BY <4>4 DEF q
      <4>6. q <= a
        BY <3>4, <4>2, <4>5, SMT
      <4> QED
        BY <3>4, <4>5, <4>6 DEF Arena!Aligned
    <3>10. \A c \in live : Arena!Apart(b, c)
      <4> SUFFICES ASSUME NEW c \in live PROVE Arena!Apart(b, c)
        OBVIOUS
      <4>1. CASE c = b
        \* The new block is not one in use: the node it comes from would overlap it.
        <5>1. Disjoint(NodeSpan(free[i]), BlockSpan(b))
          BY <3>2, <4>1 DEF NothingOverlaps
        <5>2. free[i] \in Nodes
          BY <3>2, ElementProperties DEF HeapTypeOK
        <5>3. /\ Within(BlockSpan(b), NodeSpan(free[i]))
              /\ BlockSpan(b).from \in Int /\ BlockSpan(b).to \in Int
              /\ BlockSpan(b).from < BlockSpan(b).to
          BY <3>1, <5>2, BlockWithinNode DEF a, b
        <5>4. NodeSpan(free[i]) \in Spans
          BY <3>2, NodeSpans DEF HeapTypeOK
        <5> QED
          BY <5>1, <5>3, <5>4 DEF Disjoint, Within, Spans
      <4>2. CASE c # b
        <5>1. Disjoint(BlockSpan(b), BlockSpan(c))
          BY <3>2, <3>6a, <4>2 DEF NothingOverlaps
        <5>2. c.addr \in Nat /\ c.layout \in Layouts
          BY <3>2 DEF HeapTypeOK, Blocks
        <5>3. /\ Rounded(c.layout) \in Nat /\ c.layout.size <= Rounded(c.layout)
              /\ c.layout.size \in Nat
          BY <3>3, <5>2, PayloadProperties
        <5>4. /\ BlockSpan(c).from = c.addr - Header
              /\ BlockSpan(c).to = c.addr + Rounded(c.layout)
          BY DEF BlockSpan, Span
        <5> QED
          BY <3>4, <3>5, <3>6, <5>1, <5>2, <5>3, <5>4 DEF Disjoint, Arena!Apart
      <4> QED
        BY <4>1, <4>2
    <3> QED
      BY <3>4, <3>6a, <3>8, <3>9, <3>10 DEF Arena!Next, Arena!Alloc, Arena!Block, b, Block
  <2> QED
    BY <1>2, <2>1, <2>2, <2>3 DEF HeapNext
<1>3. HeapInv /\ HeapInv' /\ [HeapNext]_heapVars => [Arena!Next]_live
  BY <1>2 DEF heapVars
<1> QED
  BY <1>1, <1>3, HeapInitInv, HeapNextInv, PTL
  DEF HeapSpec, ImplementsAllocator, Arena!Spec
=============================================================================
