----------------------------- MODULE Allocator ------------------------------
(***************************************************************************)
(* What an allocator promises to the programs that use Box and Vec: blocks *)
(* that are large enough, aligned, inside the arena and apart from all     *)
(* others in use.  HeapAllocator.tla is shown to implement this module.    *)
(***************************************************************************)
EXTENDS Integers

CONSTANTS
  Layouts,      \* sizes and alignments asked for
  From, To      \* the arena is From .. To - 1

VARIABLE live   \* the blocks in use, [addr, layout]

Block(a, l) == [addr |-> a, layout |-> l]

Aligned(a, n) == \E k \in 0 .. a : a = k * n

Apart(b, c) ==
  \/ b.addr + b.layout.size <= c.addr
  \/ c.addr + c.layout.size <= b.addr

Init == live = {}

Alloc ==
  \E l \in Layouts, a \in From .. To :
    LET b == Block(a, l) IN
    /\ live' = live \union {b}
    /\ Aligned(a, l.align)
    /\ a + l.size <= To
    /\ \A c \in live : Apart(b, c)

Dealloc == \E b \in live : live' = live \ {b}

Next == Alloc \/ Dealloc

Spec == Init /\ [][Next]_live
=============================================================================
