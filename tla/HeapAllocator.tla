--------------------------- MODULE HeapAllocator ----------------------------
(***************************************************************************)
(* allocator.rs: a first-fit allocator with one list of free nodes, each a *)
(* header of 16 bytes and the bytes behind it.  A node is split when a     *)
(* useful rest remains, and a freed block becomes the head of the list;    *)
(* nodes are never merged.  Only boot and then the GUI server allocate, so *)
(* that no two calls meet.  Addresses are numbers; the 64 bits they have   *)
(* are never exhausted by a heap of 32 MiB.                                *)
(***************************************************************************)
EXTENDS Integers, Sequences, SequencesExt, FiniteSets

CONSTANTS
  HeapStart, HeapSize,    \* HEAP_MEM: an array of bytes, of any alignment
  Layouts                 \* the layouts asked for, [size, align]

Header == 16              \* size of a FreeNode, and the unit of sizes

(* Alignments are powers of two: each divides 16 or is divided by it. *)
ASSUME HeapAssumption ==
  /\ HeapStart \in Nat /\ HeapSize \in Nat /\ HeapSize >= Header
  /\ \A l \in Layouts :
       /\ l.size \in Nat \ {0} /\ l.align \in Nat \ {0}
       /\ \E k \in 1 .. l.align + Header :
            Header = k * l.align \/ l.align = k * Header

VARIABLES
  free,          \* the list behind head: nodes [addr, size], in list order
  live,          \* blocks in use, [addr, layout]
  used,          \* USED_MEMORY
  initialized

heapVars == <<free, live, used, initialized>>

Nodes  == [addr : Nat, size : Nat]
Blocks == [addr : Nat, layout : Layouts]

Node(a, n)  == [addr |-> a, size |-> n]
Block(a, l) == [addr |-> a, layout |-> l]

AlignUp(a, n) == ((a + n - 1) \div n) * n

Rounded(l) == AlignUp(l.size, Header)

(* Where the block of layout l starts in a free node at address a. *)
PayloadFaulty(a, l) == AlignUp(a, AlignUp(l.align, Header))

Payload(a, l) == AlignUp(a + Header, AlignUp(l.align, Header))

(* The rest of node n behind a block of layout l; negative if l does not   *)
(* fit. *)
RestFaulty(n, l) == (n.addr + Header + n.size) - (Payload(n.addr, l) + l.size)

Rest(n, l) == (n.addr + Header + n.size) - (Payload(n.addr, l) + Rounded(l))

Fits(n, l) == Rest(n, l) >= 0

HeapInit ==
  /\ free = <<>> /\ live = {}
  /\ used = 0 /\ initialized = FALSE

HeapInitialize ==
  /\ ~initialized
  /\ free' = <<Node(HeapStart, HeapSize - Header)>>
  /\ initialized' = TRUE
  /\ UNCHANGED <<live, used>>

(* Faulty: splits off a rest that has no room for a header. *)
TakenFaulty(i, l) ==
  LET n == free[i] IN
  ReplaceAt(free, i,
    Node(Payload(n.addr, l) + Rounded(l), Rest(n, l) - Header))

(* The list after node i gave a block of layout l: the rest takes the      *)
(* place of the node if it is worth a node of its own, or else is lost     *)
(* with it. *)
Taken(i, l) ==
  LET n == free[i] IN
  IF Rest(n, l) >= Header + 16
    THEN ReplaceAt(free, i,
           Node(Payload(n.addr, l) + Rounded(l), Rest(n, l) - Header))
    ELSE RemoveAt(free, i)

(* Faulty: counts the rounded size. *)
AllocFaulty(l) ==
  \E i \in DOMAIN free :
    /\ Fits(free[i], l) /\ \A j \in 1 .. i - 1 : ~Fits(free[j], l)
    /\ live' = live \union {Block(Payload(free[i].addr, l), l)}
    /\ free' = Taken(i, l)
    /\ used' = used + Rounded(l)
    /\ UNCHANGED initialized

(* The first node that fits. *)
Alloc(l) ==
  \E i \in DOMAIN free :
    /\ Fits(free[i], l) /\ \A j \in 1 .. i - 1 : ~Fits(free[j], l)
    /\ live' = live \union {Block(Payload(free[i].addr, l), l)}
    /\ free' = Taken(i, l)
    /\ used' = used + l.size
    /\ UNCHANGED initialized

(* A null pointer. *)
AllocFails(l) ==
  /\ \A i \in DOMAIN free : ~Fits(free[i], l)
  /\ UNCHANGED heapVars

(* Faulty: frees from the pointer on, without the header in front. *)
DeallocFaulty(b) ==
  /\ live' = live \ {b}
  /\ free' = <<Node(b.addr, Rounded(b.layout))>> \o free
  /\ used' = used - b.layout.size
  /\ UNCHANGED initialized

Dealloc(b) ==
  /\ live' = live \ {b}
  /\ free' = <<Node(b.addr - Header, Rounded(b.layout))>> \o free
  /\ used' = used - b.layout.size
  /\ UNCHANGED initialized

HeapNext ==
  \/ HeapInitialize
  \/ \E l \in Layouts : Alloc(l) \/ AllocFails(l)
  \/ \E b \in live : Dealloc(b)

HeapSpec == HeapInit /\ [][HeapNext]_heapVars
-----------------------------------------------------------------------------
(* Properties.                                                             *)

(* The bytes from f to t - 1. *)
Span(f, t) == [from |-> f, to |-> t]
NodeSpan(n)  == Span(n.addr, n.addr + Header + n.size)
BlockSpan(b) == Span(b.addr - Header, b.addr + Rounded(b.layout))

Disjoint(s, t) == s.to <= t.from \/ t.to <= s.from
InHeap(s) == HeapStart <= s.from /\ s.to <= HeapStart + HeapSize

HeapTypeOK ==
  /\ free \in Seq(Nodes)
  /\ live \subseteq Blocks
  /\ used \in Int
  /\ initialized \in BOOLEAN
  /\ ~initialized => free = <<>> /\ live = {}

(* However blocks are allocated and freed, no byte belongs to two of the   *)
(* free nodes and the blocks in use, the header in front of a block        *)
(* included, and all lie in the heap: a node that dealloc writes over the  *)
(* bytes before the pointer destroys nothing. *)
NothingOverlaps ==
  /\ \A i \in DOMAIN free : InHeap(NodeSpan(free[i]))
  /\ \A b \in live : InHeap(BlockSpan(b))
  /\ \A i, j \in DOMAIN free :
       i # j => Disjoint(NodeSpan(free[i]), NodeSpan(free[j]))
  /\ \A i \in DOMAIN free, b \in live :
       Disjoint(NodeSpan(free[i]), BlockSpan(b))
  /\ \A b, c \in live : b # c => Disjoint(BlockSpan(b), BlockSpan(c))

BytesInUse == UNION {b.addr .. b.addr + b.layout.size - 1 : b \in live}

(* USED_MEMORY, which the free command reports, is what the programs hold: *)
(* it never runs away from the blocks and never drops below zero. *)
Accounting == used = Cardinality(BytesInUse)

(* The block dealloc reconstructs from a pointer can serve the same layout *)
(* again at the same address, although the padding and the rest alloc took *)
(* with it are forgotten. *)
FreedCanBeReused ==
  [][\A b \in live \ live' :
       \E i \in DOMAIN free' :
         /\ Fits(free'[i], b.layout)
         /\ Payload(free'[i].addr, b.layout) = b.addr]_heapVars

(* The bytes a node or a block in use still accounts for. *)
Bytes(s) == s.from .. s.to - 1

Covered == UNION ({Bytes(NodeSpan(free[i])) : i \in DOMAIN free}
                  \union {Bytes(BlockSpan(b)) : b \in live})

(* Bytes are lost for good only by an allocation, and fewer than a node    *)
(* header, its smallest block and the padding of the alignment: a free     *)
(* gives back exactly the bytes of the block. *)
LossBounded ==
  [][initialized =>
       \/ live' \subseteq live /\ Covered' = Covered
       \/ \E b \in live' \ live :
            /\ Covered' \subseteq Covered
            /\ Cardinality(Covered \ Covered')
                 < Header + 16 + AlignUp(b.layout.align, Header)
    ]_heapVars

(* Every block is aligned, in the heap, and apart from the others. *)
Arena == INSTANCE Allocator WITH From <- HeapStart, To <- HeapStart + HeapSize

ImplementsAllocator == Arena!Spec
=============================================================================
