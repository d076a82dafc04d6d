------------------------------ MODULE MCMachine ------------------------------
(***************************************************************************)
(* Four parts of the system that share no state: the heap, the page        *)
(* tables, the disk with its file system, and the windows on the screen.   *)
(* A behaviour is one of a single part, chosen at the start; the others do *)
(* not move.                                                               *)
(***************************************************************************)
EXTENDS HeapAllocator, Paging, RelizFS, WindowLayout

VARIABLE part   \* heap, paging, storage or windows

machineVars == <<part, heapVars, pagingVars, relizVars, layoutVars>>

SmallScreen == CHOOSE s \in Screens : TRUE

Init ==
  /\ part \in {"heap", "paging", "storage", "windows"}
  /\ HeapInit /\ PagingInit /\ RelizInit /\ LayoutInit
  /\ part # "storage" => drive = "none"
  /\ part # "windows" => screen = SmallScreen

HeapStep ==
  /\ part = "heap" /\ HeapNext
  /\ UNCHANGED <<part, pagingVars, relizVars, layoutVars>>

PagingStep ==
  /\ part = "paging" /\ PagingNext
  /\ UNCHANGED <<part, heapVars, relizVars, layoutVars>>

StorageStep(A) ==
  /\ part = "storage" /\ A
  /\ UNCHANGED <<part, heapVars, pagingVars, layoutVars>>

WindowsStep ==
  /\ part = "windows" /\ LayoutNext
  /\ UNCHANGED <<part, heapVars, pagingVars, relizVars>>

Next == HeapStep \/ PagingStep \/ StorageStep(RelizNext) \/ WindowsStep

(* The program that reads is scheduled again and again; the drive owes     *)
(* nothing. *)
Fairness == WF_machineVars(StorageStep(Driver /\ UNCHANGED fsVars))

Spec == Init /\ [][Next]_machineVars /\ Fairness
-----------------------------------------------------------------------------
MCLayouts ==
  {[size |-> 8, align |-> 8], [size |-> 33, align |-> 4], [size |-> 16, align |-> 64]}

MCIndex == {0, 1}

Region(from, to, usable) == [start |-> from, end |-> to, usable |-> usable]

(* Regions with ends inside a page, one without a whole frame, one that is *)
(* not usable, and two that meet. *)
MCMemoryMap ==
  << Region(0, 6144, TRUE), Region(6144, 28672, FALSE), Region(29000, 33000, TRUE),
     Region(33000, 36000, TRUE), Region(36100, 53248, TRUE), Region(53248, 58000, TRUE) >>

BootTable(way, e0, e1) ==
  [way |-> way, entry |-> [i \in MCIndex |-> IF i = 0 THEN e0 ELSE e1]]

KernelHuge == [addr |-> 0, present |-> TRUE, user |-> FALSE, huge |-> TRUE]
KernelLink(f) == [addr |-> f, present |-> TRUE, user |-> FALSE, huge |-> FALSE]

(* The boot loader's tables: a page, huge pages at two levels, and room.   *)
MCBootTables ==
  [t \in 2 .. 5 |->
    CASE t = 2 -> BootTable(<<>>, KernelLink(3), Unused)
      [] t = 3 -> BootTable(<<0>>, KernelHuge, KernelLink(4))
      [] t = 4 -> BootTable(<<0, 1>>, KernelHuge, KernelLink(5))
      [] t = 5 -> BootTable(<<0, 1, 1>>, KernelLink(6), Unused)]

MCMappedPages ==
  {<<1, 0, 0, 0>>, <<1, 0, 0, 1>>, <<1, 1, 0, 0>>, <<0, 1, 1, 1>>}

(* From a screen that has room for nothing to one with room for all.       *)
MCScreens ==
  [w : {0, 29, 30, 31, 289, 290, 291, 1023, 1024},
   h : {0, 59, 60, 79, 80, 81, 90, 97, 103, 109, 110, 768}]
=============================================================================
