------------------------------- MODULE Paging -------------------------------
(***************************************************************************)
(* paging.rs: the cursor that hands out physical frames from the memory    *)
(* map of the boot loader, and map_page, which walks the page tables and   *)
(* adds those that are missing.  All of it runs at boot, before there are  *)
(* tasks, so that calls do not overlap.  Frames are numbers; addresses are *)
(* in bytes only in the memory map.                                        *)
(***************************************************************************)
EXTENDS Integers, Sequences

CONSTANTS
  MemoryMap,      \* sequence of regions [start, end, usable]
  Index,          \* indices into a table (0 .. 511)
  Root,           \* frame of the level 4 table
  BootTables,     \* frame -> table, as the boot loader leaves them
  MappedPages,    \* pages map_page is called for
  NoCall

PageSize == 4096
Levels == 4

(* A page is the indices that lead to it, that of the level 4 table first. *)
Pages == [1 .. Levels -> Index]

MemoryRegion == [start : Nat, end : Nat, usable : BOOLEAN]

(* A table entry; unused means all bits are zero. *)
Unused == [addr |-> 0, present |-> FALSE, user |-> FALSE, huge |-> FALSE]
Entry == {Unused} \union
         [addr : Nat, present : {TRUE}, user : BOOLEAN, huge : BOOLEAN]
Link(f) == [addr |-> f, present |-> TRUE, user |-> TRUE, huge |-> FALSE]
Leaf(f) == [addr |-> f, present |-> TRUE, user |-> FALSE, huge |-> FALSE]

Leads(e) == e # Unused /\ ~e.huge

(* A table, and the indices that lead to it: history, not in the code. *)
Tables == [way : Seq(Index), entry : [Index -> Entry]]
MakeTable(way, entry) == [way |-> way, entry |-> entry]

(* Faulty: rounds the wrong way. *)
FirstFrameFaulty(r) == MemoryMap[r].start \div PageSize

(* The whole frames in region r are FirstFrame(r) .. EndFrame(r) - 1. *)
FirstFrame(r) == (MemoryMap[r].start + PageSize - 1) \div PageSize
EndFrame(r) == MemoryMap[r].end \div PageSize

(* Every table is where the ways of its parents lead: an entry of a table  *)
(* above the last level leads to a table of the next one or is a huge page. *)
IsTree(tab) ==
  /\ Root \in DOMAIN tab /\ tab[Root].way = <<>>
  /\ \A t \in DOMAIN tab : tab[t] \in Tables /\ Len(tab[t].way) < Levels
  /\ \A t \in DOMAIN tab, i \in Index :
       LET e == tab[t].entry[i] IN
       Len(tab[t].way) < Levels - 1 /\ Leads(e) =>
         /\ e.addr \in DOMAIN tab
         /\ tab[e.addr].way = Append(tab[t].way, i)

(* The first n indices of page v. *)
Prefix(v, n) == [i \in 1 .. n |-> v[i]]

(* No huge page is in the way of the pages map_page is called for.         *)
IsClear(tab) ==
  \A v \in MappedPages, t \in DOMAIN tab, n \in 0 .. Levels - 2 :
    tab[t].way = Prefix(v, n) => ~tab[t].entry[v[n + 1]].huge

(* A call of map_page, the table it has reached, and its level.            *)
Calls == [page : Pages, frame : Nat, at : Nat, level : 1 .. Levels]

(* Regions do not overlap, and the boot loader keeps the tables out of     *)
(* those it declares usable. *)
ASSUME PagingAssumption ==
  /\ MemoryMap \in Seq(MemoryRegion)
  /\ \A q, r \in DOMAIN MemoryMap :
       q # r => \/ MemoryMap[q].end <= MemoryMap[r].start
                \/ MemoryMap[r].end <= MemoryMap[q].start
  /\ DOMAIN BootTables \subseteq Nat
  /\ \A r \in DOMAIN MemoryMap : MemoryMap[r].usable =>
       DOMAIN BootTables \intersect (FirstFrame(r) .. EndFrame(r) - 1) = {}
  /\ MappedPages \subseteq Pages
  /\ IsTree(BootTables) /\ IsClear(BootTables)
  /\ NoCall \notin Calls \union (Pages \X Nat)

VARIABLES
  next_region, next_frame,    \* the cursor; regions count from 1
  handed,    \* frames handed out so far, in order: history, not in the code
  held,      \* frames handed to callers of allocate_frame
  table,     \* frame -> table, for the frames that hold one
  call,      \* map_page in progress, or NoCall
  marked     \* mark_all_user_accessible has run

cursor == <<next_region, next_frame>>
pagingVars == <<next_region, next_frame, handed, held, table, call, marked>>
-----------------------------------------------------------------------------
(* The frame allocator.                                                    *)

(* Faulty: keeps the offset in the next region. *)
OffsetFaulty(r) == next_frame

(* How far the cursor is in region r. *)
Offset(r) == IF r = next_region THEN next_frame ELSE 0

HasFrame(r) ==
  /\ MemoryMap[r].usable
  /\ FirstFrame(r) + Offset(r) < EndFrame(r)

RegionsLeft == {r \in next_region .. Len(MemoryMap) : HasFrame(r)}

OutOfFrames == RegionsLeft = {}

(* Faulty: does not move on within a region. *)
TakesFrameFaulty(f) ==
  \E r \in RegionsLeft :
    /\ \A q \in RegionsLeft : r <= q
    /\ f = FirstFrame(r) + Offset(r)
    /\ next_region' = r /\ next_frame' = Offset(r)
    /\ handed' = Append(handed, f)

(* The first region from the cursor on with a frame left gives frame f. *)
TakesFrame(f) ==
  \E r \in RegionsLeft :
    /\ \A q \in RegionsLeft : r <= q
    /\ f = FirstFrame(r) + Offset(r)
    /\ next_region' = r /\ next_frame' = Offset(r) + 1
    /\ handed' = Append(handed, f)

FindsNoFrame ==
  /\ OutOfFrames
  /\ next_region' = Len(MemoryMap) + 1 /\ next_frame' = 0
  /\ UNCHANGED handed

(* Every whole frame of the memory map. *)
FrameNumbers ==
  UNION {FirstFrame(r) .. EndFrame(r) - 1 : r \in DOMAIN MemoryMap}
-----------------------------------------------------------------------------
(* map_page.                                                               *)

PagingInit ==
  /\ next_region = 1 /\ next_frame = 0 /\ handed = <<>> /\ held = {}
  /\ table = BootTables /\ call = NoCall /\ marked = FALSE

(* kernel_main takes a frame to map. *)
AllocateFrame ==
  /\ call = NoCall /\ ~marked
  /\ \/ \E f \in FrameNumbers : TakesFrame(f) /\ held' = held \union {f}
     \/ FindsNoFrame /\ UNCHANGED held
  /\ UNCHANGED <<table, call, marked>>

(* The call: its page and frame, and the table it has reached. *)
MapStarts(v, f) ==
  /\ call = NoCall /\ ~marked /\ f \in held
  /\ call' = [page |-> v, frame |-> f, at |-> Root, level |-> Levels]
  /\ UNCHANGED <<next_region, next_frame, handed, held, table, marked>>

InCall == call # NoCall

(* The index of the page in the table of the level reached. *)
IndexAt(v, level) == v[Levels + 1 - level]

EntryReached == table[call.at].entry[IndexAt(call.page, call.level)]

SetEntry(t, i, e) ==
  [table EXCEPT ![t] =
     MakeTable(table[t].way, [table[t].entry EXCEPT ![i] = e])]

MapDescends ==
  /\ InCall /\ call.level > 1 /\ EntryReached # Unused
  /\ call' = [call EXCEPT !.at = EntryReached.addr, !.level = @ - 1]
  /\ UNCHANGED <<next_region, next_frame, handed, held, table, marked>>

(* Faulty: links a frame that still holds what it held before. *)
ZeroedTableFaulty(way) ==
  MakeTable(way, [i \in Index |-> [Leaf(0) EXCEPT !.huge = TRUE]])

ZeroedTable(way) == MakeTable(way, [i \in Index |-> Unused])

(* A missing table is allocated, zeroed and linked. *)
MapLinks ==
  /\ InCall /\ call.level > 1 /\ EntryReached = Unused
  /\ \E f \in FrameNumbers :
       /\ TakesFrame(f)
       /\ LET i == IndexAt(call.page, call.level)
              way == Append(table[call.at].way, i)
              linked == SetEntry(call.at, i, Link(f))
          IN  table' = [t \in DOMAIN table \union {f} |->
                          IF t = f THEN ZeroedTable(way) ELSE linked[t]]
  /\ UNCHANGED <<held, call, marked>>

(* The tables linked so far stay. *)
MapFails ==
  /\ InCall /\ call.level > 1 /\ EntryReached = Unused
  /\ FindsNoFrame
  /\ call' = NoCall
  /\ UNCHANGED <<held, table, marked>>

MapSets ==
  /\ InCall /\ call.level = 1
  /\ table' = SetEntry(call.at, IndexAt(call.page, 1), Leaf(call.frame))
  /\ call' = NoCall
  /\ UNCHANGED <<next_region, next_frame, handed, held, marked>>

(* Faulty: the walk of a table ends at the first entry that is not present.*)
VisitedFaulty(t) ==
  {i \in Index : \A j \in Index : j <= i => table[t].entry[j].present}

(* The entries of table t that the walk does not pass over. *)
Visited(t) == {i \in Index : table[t].entry[i].present}

(* The tables it goes to from those of S: beneath a huge page there is     *)
(* none.  (At level 4, where the walk does not ask, the bit is reserved.)  *)
Beneath(S) ==
  UNION {{table[t].entry[i].addr : i \in {j \in Visited(t) : ~table[t].entry[j].huge}} : t \in S}

Walked ==
  LET level3 == Beneath({Root})
      level2 == Beneath(level3)
  IN  {Root} \union level3 \union level2 \union Beneath(level2)

(* The walk sets the flag in each entry it visits; boot then goes on to    *)
(* the tasks. *)
MarkAllUserAccessible ==
  /\ call = NoCall /\ ~marked
  /\ table' = [t \in DOMAIN table |->
       MakeTable(table[t].way,
         [i \in Index |-> IF t \in Walked /\ i \in Visited(t)
                            THEN [table[t].entry[i] EXCEPT !.user = TRUE]
                            ELSE table[t].entry[i]])]
  /\ marked' = TRUE
  /\ UNCHANGED <<next_region, next_frame, handed, held, call>>

BootGoesOn == marked /\ UNCHANGED pagingVars

PagingNext ==
  \/ AllocateFrame
  \/ \E v \in MappedPages, f \in held : MapStarts(v, f)
  \/ MapDescends \/ MapLinks \/ MapFails \/ MapSets
  \/ MarkAllUserAccessible \/ BootGoesOn

PagingSpec == PagingInit /\ [][PagingNext]_pagingVars
-----------------------------------------------------------------------------
(* Properties.                                                             *)

(* The tables form a tree, and the call in progress is at the table on the *)
(* way to its page: a failed call leaves nothing a later one would stumble *)
(* over. *)
PagingTypeOK ==
  /\ next_region \in 1 .. Len(MemoryMap) + 1 /\ next_frame \in Nat
  /\ handed \in Seq(Nat) /\ held \subseteq {handed[i] : i \in DOMAIN handed}
  /\ IsTree(table) /\ IsClear(table)
  /\ InCall =>
       /\ call.page \in MappedPages /\ call.frame \in held
       /\ call.level \in 1 .. Levels /\ call.at \in DOMAIN table
       /\ table[call.at].way = Prefix(call.page, Levels - call.level)
  /\ marked \in BOOLEAN

(* The bytes of frame f. *)
InRegion(f, r) ==
  /\ MemoryMap[r].start <= f * PageSize
  /\ (f + 1) * PageSize <= MemoryMap[r].end

(* Whatever the sizes and alignments of the regions, allocate_frame hands  *)
(* out no frame twice and none that reaches beyond a usable region. *)
FramesAreGood ==
  /\ \A i, j \in DOMAIN handed : i # j => handed[i] # handed[j]
  /\ \A i \in DOMAIN handed :
       \E r \in DOMAIN MemoryMap :
         MemoryMap[r].usable /\ InRegion(handed[i], r)

(* allocate_frame gives up only when every whole frame of the usable       *)
(* regions is in use. *)
NoFrameForgotten ==
  OutOfFrames =>
    \A r \in DOMAIN MemoryMap : MemoryMap[r].usable =>
      \A f \in FirstFrame(r) .. EndFrame(r) - 1 :
        \E i \in DOMAIN handed : handed[i] = f

(* No frame given to a caller holds a page table: a program that writes to *)
(* its page never writes to a table. *)
TablesArePrivate == held \intersect DOMAIN table = {}

(* What the processor finds for page v in the tables tab at each level:    *)
(* beneath an unused entry or a huge page, that again. *)
Down(tab, e, i) == IF Leads(e) THEN tab[e.addr].entry[i] ELSE e

Entry4(tab, v) == tab[Root].entry[v[1]]
Entry3(tab, v) == Down(tab, Entry4(tab, v), v[2])
Entry2(tab, v) == Down(tab, Entry3(tab, v), v[3])
Entry1(tab, v) == Down(tab, Entry2(tab, v), v[4])

Translation(tab, v) == LET e == Entry1(tab, v) IN {f \in {e.addr} : e.present}

(* A failed map_page changes the translation of no page, a successful one  *)
(* that of its page only, whatever tables earlier calls left behind. *)
Space == INSTANCE AddressSpace WITH
  Frames <- Nat,
  translation <- [v \in Pages |-> Translation(table, v)],
  call <- IF InCall THEN <<call.page, call.frame>> ELSE NoCall

ImplementsAddressSpace == Space!Spec

(* Once the tables are marked, a task in ring 3 reaches every mapped page: *)
(* the processor wants the flag at every level. *)
UserReachesAllPages ==
  marked => \A v \in Pages : Entry1(table, v).present =>
    \A e \in {Entry4(table, v), Entry3(table, v),
              Entry2(table, v), Entry1(table, v)} : e.user

=============================================================================
