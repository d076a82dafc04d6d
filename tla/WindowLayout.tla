---------------------------- MODULE WindowLayout ----------------------------
(***************************************************************************)
(* layout.rs: the windows of the GUI and the rectangles they are given     *)
(* whenever one comes or goes, a master on the left half of the screen and *)
(* a stack of all others on the right half; and the dock below them, as    *)
(* compositor.rs draws it.  Lengths are unsigned: a difference below zero  *)
(* panics, and the GUI server does not come back.                          *)
(***************************************************************************)
EXTENDS Integers, Sequences, SequencesExt

CONSTANTS
  Screens,     \* sizes of the frame buffer, [w, h]
  WindowIds    \* windows that may come and go

ASSUME LayoutAssumption == Screens \subseteq [w : Nat, h : Nat]

Gaps == 10
DockHeight == 60
DockMax == 450
DockIcons == 250      \* five, 50 wide

VARIABLES
  screen,
  windows,     \* sequence of [id, tile]
  crashed      \* a difference was below zero

layoutVars == <<screen, windows, crashed>>

Rect(x, y, w, h) == [x |-> x, y |-> y, w |-> w, h |-> h]

(* The height above the dock, and what is left of it between the gaps.     *)
UsableHeight(s) == s.h - DockHeight
FullHeight(s) == UsableHeight(s) - Gaps * 2

HalfWidth(s) == s.w \div 2 - Gaps - Gaps \div 2

(* Of n windows, n - 1 share the height of the stack.                      *)
StackHeight(s, n) == FullHeight(s) - (n - 2) * Gaps

(* Faulty: the gaps between the cells are not taken off. *)
CellHeightFaulty(s, n) == FullHeight(s) \div (n - 1)

CellHeight(s, n) == StackHeight(s, n) \div (n - 1)

Underflows(s, n) ==
  \/ n >= 1 /\ FullHeight(s) < 0
  \/ n = 1 /\ s.w - Gaps * 2 < 0
  \/ n >= 2 /\ (HalfWidth(s) < 0 \/ StackHeight(s, n) < 0)

(* The rectangle of window i of n.                                         *)
Tile(s, n, i) ==
  CASE n = 1 -> Rect(Gaps, Gaps, s.w - Gaps * 2, FullHeight(s))
    [] n > 1 /\ i = 1 -> Rect(Gaps, Gaps, HalfWidth(s), FullHeight(s))
    [] OTHER -> Rect(s.w \div 2 + Gaps \div 2,
                     Gaps + (i - 2) * (CellHeight(s, n) + Gaps),
                     HalfWidth(s), CellHeight(s, n))

Ids == [i \in DOMAIN windows |-> windows[i].id]

(* Every window of the sequence ids gets its place anew.                   *)
Recalculates(ids) ==
  IF Underflows(screen, Len(ids))
  THEN crashed' = TRUE /\ UNCHANGED windows
  ELSE /\ windows' = [i \in DOMAIN ids |->
                        [id |-> ids[i], tile |-> Tile(screen, Len(ids), i)]]
       /\ UNCHANGED crashed

LayoutInit == screen \in Screens /\ windows = <<>> /\ crashed = FALSE

AddWindow(id) ==
  /\ ~crashed /\ \A i \in DOMAIN windows : windows[i].id # id
  /\ Recalculates(Append(Ids, id))
  /\ UNCHANGED screen

RemoveWindow(id) ==
  /\ ~crashed
  /\ \E i \in DOMAIN windows :
       windows[i].id = id /\ Recalculates(RemoveAt(Ids, i))
  /\ UNCHANGED screen

(* The dock is 10 below the windows' part of the screen and 20 lower than  *)
(* its own; its icons are centred in it. *)
DockWidth(s) == IF s.w - 40 < DockMax THEN s.w - 40 ELSE DockMax
Dock(s) == Rect((s.w - DockWidth(s)) \div 2, UsableHeight(s) + 10,
                DockWidth(s), DockHeight - 20)

(* composite draws the dock whatever the windows; a screen that has room   *)
(* for it stays as it is. *)
DockOverflows ==
  /\ ~crashed
  /\ DockWidth(screen) < DockIcons \/ UsableHeight(screen) < 0
  /\ crashed' = TRUE
  /\ UNCHANGED <<screen, windows>>

Dead == crashed /\ UNCHANGED layoutVars

LayoutNext ==
  \/ \E id \in WindowIds : AddWindow(id) \/ RemoveWindow(id)
  \/ DockOverflows \/ Dead

LayoutSpec == LayoutInit /\ [][LayoutNext]_layoutVars
-----------------------------------------------------------------------------
(* Properties.                                                             *)

(* With a gap to the right of it or below it. *)
Before(a, b) == a.x + a.w + Gaps <= b.x \/ a.y + a.h + Gaps <= b.y

(* However windows come and go, and whatever the size of the screen, the   *)
(* windows keep their distance from each other, from the edges and from    *)
(* the dock; and the GUI dies of no screen that has 290 pixels across, and *)
(* 80 down and 10 more for each window. *)
TilesFit ==
  /\ crashed => screen.w < 290 \/ screen.h < 80 + 10 * Len(windows)
  /\ ~crashed => \A i \in DOMAIN windows :
       LET t == windows[i].tile IN
       /\ t.x >= Gaps /\ t.y >= Gaps /\ t.w >= 0 /\ t.h >= 0
       /\ t.x + t.w + Gaps <= screen.w
       /\ Before(t, Dock(screen))
       /\ \A j \in i + 1 .. Len(windows) : Before(t, windows[j].tile)
=============================================================================
