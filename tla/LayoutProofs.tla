---------------------------- MODULE LayoutProofs ----------------------------
(***************************************************************************)
(* The windows fit, on a screen of any size and with any number of them.   *)
(* A crash needs a small screen, and as long as there is none every window *)
(* is where the last change of their number put it.  What remains is the   *)
(* arithmetic of the stack: n - 1 cells and the gaps between them take up  *)
(* no more than the height they were divided from.                         *)
(***************************************************************************)
EXTENDS WindowLayout, TLAPS

Rects   == [x : Int, y : Int, w : Int, h : Int]
Windows == [id : WindowIds, tile : Rects]

Placed(s, ws) ==
  Len(ws) >= 1 => /\ ~Underflows(s, Len(ws))
                  /\ \A i \in DOMAIN ws : ws[i].tile = Tile(s, Len(ws), i)

SmallFor(s, n) == s.w < 290 \/ s.h < 80 + 10 * n

(* The invariant. *)
LayoutInv ==
  /\ screen \in Screens
  /\ windows \in Seq(Windows)
  /\ crashed \in BOOLEAN
  /\ crashed => SmallFor(screen, Len(windows))
  /\ ~crashed => Placed(screen, windows)
-----------------------------------------------------------------------------
LEMMA ScreenSizes ==
  ASSUME NEW s \in Screens
  PROVE  /\ s.w \in Nat /\ s.h \in Nat
         /\ s.w \div 2 \in Nat /\ 2 * (s.w \div 2) <= s.w
         /\ s.w < 2 * (s.w \div 2) + 2
<1>1. s \in [w : Nat, h : Nat]
  BY LayoutAssumption
<1>2. s.w \in Nat /\ s.h \in Nat
  BY <1>1
<1> QED
  BY <1>2

LEMMA Multiples ==
  ASSUME NEW i \in Nat, NEW j \in Nat, NEW c \in Nat, i <= j
  PROVE  i * c \in Nat /\ j * c \in Nat /\ i * c <= j * c
<1>1. i * c \in Nat /\ j * c \in Nat /\ (j - i) * c \in Nat
  BY SMT
<1>2. j * c = i * c + (j - i) * c
  BY SMT
<1> QED
  BY <1>1, <1>2

(* The cells of the stack and their gaps are no higher than the screen     *)
(* lets them be.                                                           *)
LEMMA CellProperties ==
  ASSUME NEW s \in Screens, NEW n \in Nat, n >= 2, ~Underflows(s, n)
  PROVE  /\ CellHeight(s, n) \in Nat
         /\ (n - 1) * CellHeight(s, n) + (n - 2) * Gaps <= FullHeight(s)
<1> DEFINE H == StackHeight(s, n)
           m == n - 1
           c == H \div m
<1>1. FullHeight(s) \in Int /\ (n - 2) * Gaps \in Int
  BY ScreenSizes DEF FullHeight, UsableHeight, Gaps, DockHeight
<1>2. H \in Int /\ H + (n - 2) * Gaps = FullHeight(s)
  BY <1>1 DEF StackHeight
<1>3. H >= 0
  BY <1>2 DEF Underflows
<1>4. m \in Nat /\ m > 0
  OBVIOUS
<1>5. CellHeight(s, n) = c
  BY DEF CellHeight
<1> HIDE DEF H, m
<1>6. c \in Nat /\ m * c <= H
  BY <1>2, <1>3, <1>4, SMT
<1> HIDE DEF c
<1>7. m * c \in Int
  BY <1>4, <1>6
<1>8. m * c + (n - 2) * Gaps <= FullHeight(s)
  BY <1>1, <1>2, <1>6, <1>7
<1> QED
  BY <1>5, <1>6, <1>8 DEF m

(* Where window i of the stack lies. *)
LEMMA StackProperties ==
  ASSUME NEW s \in Screens, NEW n \in Nat, ~Underflows(s, n),
         NEW i \in 2 .. n
  PROVE  LET c == CellHeight(s, n)
             t == Tile(s, n, i)
         IN  /\ c \in Nat
             /\ t.x = s.w \div 2 + 5 /\ t.w = s.w \div 2 - 15
             /\ t.y = 10 + (i - 2) * (c + 10) /\ t.h = c
             /\ (i - 2) * (c + 10) \in Nat
             /\ t.y + t.h <= 10 + FullHeight(s)
<1> DEFINE c == CellHeight(s, n)
           t == Tile(s, n, i)
<1>1. n >= 2 /\ i - 2 \in Nat /\ n - 2 \in Nat /\ i - 2 <= n - 2
  OBVIOUS
<1>2. /\ c \in Nat
      /\ (n - 1) * c + (n - 2) * 10 <= FullHeight(s)
  BY <1>1, CellProperties DEF Gaps
<1>3. Gaps = 10 /\ Gaps \div 2 = 5
  BY DEF Gaps
<1>4. t = Rect(s.w \div 2 + Gaps \div 2, Gaps + (i - 2) * (c + Gaps),
               HalfWidth(s), c)
  BY <1>1 DEF Tile
<1>5. /\ t.x = s.w \div 2 + 5 /\ t.y = 10 + (i - 2) * (c + 10)
      /\ t.w = HalfWidth(s) /\ t.h = c
  BY <1>3, <1>4 DEF Rect
<1>6. HalfWidth(s) = s.w \div 2 - 15
  BY <1>3, ScreenSizes DEF HalfWidth
<1> HIDE DEF c, t
<1>7. /\ (i - 2) * (c + 10) \in Nat /\ (n - 2) * (c + 10) \in Nat
      /\ (i - 2) * (c + 10) <= (n - 2) * (c + 10)
  <2>1. c + 10 \in Nat
    BY <1>2
  <2> QED
    BY <1>1, <2>1, Multiples
<1>8. (n - 2) * (c + 10) + c = (n - 1) * c + (n - 2) * 10
  BY <1>1, <1>2, SMT
<1>9. FullHeight(s) \in Int
  BY ScreenSizes DEF FullHeight, UsableHeight, Gaps, DockHeight
<1>10. t.y + t.h <= 10 + FullHeight(s)
  <2> DEFINE p == (i - 2) * (c + 10)
             q == (n - 2) * (c + 10)
             r == (n - 1) * c + (n - 2) * 10
  <2>1. p \in Nat /\ q \in Nat /\ p <= q /\ q + c = r /\ r <= FullHeight(s)
    BY <1>2, <1>7, <1>8
  <2>2. t.y = 10 + p /\ t.h = c
    BY <1>5
  <2> HIDE DEF p, q, r
  <2> QED
    BY <1>2, <1>9, <2>1, <2>2
<1> QED
  BY <1>2, <1>5, <1>6, <1>7, <1>10 DEF c, t

(* The window alone, or the master. *)
LEMMA MasterProperties ==
  ASSUME NEW s \in Screens, NEW n \in Nat, n >= 1, ~Underflows(s, n)
  PROVE  LET t == Tile(s, n, 1) IN
         /\ t.x = 10 /\ t.y = 10 /\ t.h = FullHeight(s)
         /\ t.w = IF n = 1 THEN s.w - 20 ELSE s.w \div 2 - 15
<1>1. Gaps = 10 /\ Gaps \div 2 = 5
  BY DEF Gaps
<1>2. HalfWidth(s) = s.w \div 2 - 15
  BY <1>1, ScreenSizes DEF HalfWidth
<1>3. CASE n = 1
  <2>1. Tile(s, n, 1) = Rect(Gaps, Gaps, s.w - Gaps * 2, FullHeight(s))
    BY <1>3 DEF Tile
  <2> QED
    BY <1>1, <1>3, <2>1, ScreenSizes DEF Rect
<1>4. CASE n > 1
  <2>1. Tile(s, n, 1) = Rect(Gaps, Gaps, HalfWidth(s), FullHeight(s))
    BY <1>4 DEF Tile
  <2> QED
    BY <1>1, <1>2, <1>4, <2>1 DEF Rect
<1> QED
  BY <1>3, <1>4

(* What does not underflow has no negative lengths. *)
LEMMA Lengths ==
  ASSUME NEW s \in Screens, NEW n \in Nat, n >= 1, ~Underflows(s, n)
  PROVE  /\ FullHeight(s) \in Nat /\ s.h = FullHeight(s) + 80
         /\ n = 1 => s.w >= 20
         /\ n >= 2 => s.w \div 2 >= 15
<1>1. FullHeight(s) = s.h - 80 /\ Gaps = 10 /\ Gaps * 2 = 20 /\ Gaps \div 2 = 5
  BY ScreenSizes DEF FullHeight, UsableHeight, Gaps, DockHeight
<1>2. HalfWidth(s) = s.w \div 2 - 15
  BY <1>1, ScreenSizes DEF HalfWidth
<1> QED
  BY <1>1, <1>2, ScreenSizes DEF Underflows

(* An underflow takes a small screen, and one that is small for n + 1      *)
(* windows even with one window less.                                      *)
LEMMA UnderflowIsSmall ==
  ASSUME NEW s \in Screens, NEW n \in Nat, NEW k \in Nat,
         k <= n + 1, Underflows(s, k)
  PROVE  SmallFor(s, n)
<1>1. FullHeight(s) = s.h - 80 /\ Gaps = 10 /\ Gaps * 2 = 20 /\ Gaps \div 2 = 5
  BY ScreenSizes DEF FullHeight, UsableHeight, Gaps, DockHeight
<1>2. HalfWidth(s) = s.w \div 2 - 15
  BY <1>1, ScreenSizes DEF HalfWidth
<1>3. StackHeight(s, k) = s.h - 80 - (k - 2) * 10
  BY <1>1 DEF StackHeight
<1> QED
  BY <1>1, <1>2, <1>3, ScreenSizes DEF Underflows, SmallFor
-----------------------------------------------------------------------------
LEMMA TilesAreRects ==
  ASSUME NEW s \in Screens, NEW n \in Nat, ~Underflows(s, n), NEW i \in 1 .. n
  PROVE  Tile(s, n, i) \in Rects
<1>0. FullHeight(s) \in Int
  BY Lengths
<1>1. CASE i = 1
  <2>1. /\ Gaps \in Int /\ s.w - Gaps * 2 \in Int /\ HalfWidth(s) \in Int
    BY ScreenSizes DEF Gaps, HalfWidth
  <2>2. \/ Tile(s, n, 1) = Rect(Gaps, Gaps, s.w - Gaps * 2, FullHeight(s))
        \/ Tile(s, n, 1) = Rect(Gaps, Gaps, HalfWidth(s), FullHeight(s))
    BY <1>1 DEF Tile
  <2> QED
    BY <1>0, <1>1, <2>1, <2>2 DEF Rect, Rects
<1>2. CASE i # 1
  <2>1. i \in 2 .. n
    BY <1>2
  <2>2. Tile(s, n, i) = Rect(s.w \div 2 + Gaps \div 2,
                             Gaps + (i - 2) * (CellHeight(s, n) + Gaps),
                             HalfWidth(s), CellHeight(s, n))
    BY <2>1 DEF Tile
  <2>3. CellHeight(s, n) \in Nat
    BY <2>1, StackProperties
  <2>4. /\ s.w \div 2 + Gaps \div 2 \in Int /\ HalfWidth(s) \in Int
        /\ Gaps + (i - 2) * (CellHeight(s, n) + Gaps) \in Int
    <3>1. Gaps \in Int /\ Gaps \div 2 \in Int /\ s.w \div 2 \in Int
      BY ScreenSizes DEF Gaps
    <3> DEFINE c == CellHeight(s, n)
               g == Gaps
    <3>2. c \in Int /\ g \in Int
      BY <2>3, <3>1
    <3> HIDE DEF c, g
    <3>3. g + (i - 2) * (c + g) \in Int
      BY <3>2
    <3> QED
      BY <3>1, <3>3 DEF c, g, HalfWidth
  <2> QED
    BY <2>2, <2>3, <2>4 DEF Rect, Rects
<1> QED
  BY <1>1, <1>2

LEMMA RecalculatesKeepsInv ==
  ASSUME LayoutInv, NEW ids \in Seq(WindowIds), Recalculates(ids),
         Len(ids) <= Len(windows) + 1, UNCHANGED screen, ~crashed
  PROVE  LayoutInv'
<1> DEFINE n == Len(ids)
<1>1. /\ screen \in Screens /\ windows \in Seq(Windows) /\ n \in Nat
      /\ Len(windows) \in Nat /\ DOMAIN ids = 1 .. n
  BY DEF LayoutInv
<1>2. CASE Underflows(screen, n)
  <2>1. crashed' = TRUE /\ windows' = windows /\ screen' = screen
    BY <1>2 DEF Recalculates
  <2>2. SmallFor(screen, Len(windows))
    BY <1>1, <1>2, UnderflowIsSmall
  <2> QED
    BY <1>1, <2>1, <2>2 DEF LayoutInv
<1>3. CASE ~Underflows(screen, n)
  <2>1. /\ windows' = [i \in 1 .. n |-> [id |-> ids[i], tile |-> Tile(screen, n, i)]]
        /\ crashed' = FALSE /\ screen' = screen
    BY <1>1, <1>3 DEF Recalculates, LayoutInv
  <2> HIDE DEF n
  <2>2. \A i \in 1 .. n : [id |-> ids[i], tile |-> Tile(screen, n, i)] \in Windows
    <3> SUFFICES ASSUME NEW i \in 1 .. n
                 PROVE  ids[i] \in WindowIds /\ Tile(screen, n, i) \in Rects
      BY DEF Windows
    <3> QED
      BY <1>1, <1>3, TilesAreRects DEF n
  <2>3. windows' \in Seq(Windows) /\ Len(windows') = n /\ DOMAIN windows' = 1 .. n
    BY <1>1, <2>1, <2>2
  <2>4. \A i \in 1 .. n : windows'[i].tile = Tile(screen, n, i)
    BY <2>1
  <2>5. Placed(screen, windows')
    BY <1>3, <2>3, <2>4 DEF Placed
  <2> QED
    BY <1>1, <2>1, <2>3, <2>5 DEF LayoutInv
<1> QED
  BY <1>2, <1>3

LEMMA LayoutInitInv == LayoutInit => LayoutInv
<1> SUFFICES ASSUME LayoutInit PROVE LayoutInv
  OBVIOUS
<1>1. screen \in Screens /\ windows = <<>> /\ crashed = FALSE
  BY DEF LayoutInit
<1>2. windows \in Seq(Windows) /\ Len(windows) = 0
  BY <1>1
<1>3. Placed(screen, windows)
  BY <1>2 DEF Placed
<1> QED
  BY <1>1, <1>2, <1>3 DEF LayoutInv

LEMMA IdsProperties ==
  ASSUME LayoutInv
  PROVE  Ids \in Seq(WindowIds) /\ Len(Ids) = Len(windows)
<1>1. windows \in Seq(Windows)
  BY DEF LayoutInv
<1>2. \A i \in DOMAIN windows : windows[i].id \in WindowIds
  <2>1. \A i \in DOMAIN windows : windows[i] \in Windows
    BY <1>1
  <2> QED
    BY <2>1 DEF Windows
<1>3. DOMAIN windows = 1 .. Len(windows) /\ Len(windows) \in Nat
  BY <1>1
<1> QED
  BY <1>2, <1>3 DEF Ids

LEMMA LayoutNextInv == LayoutInv /\ [LayoutNext]_layoutVars => LayoutInv'
<1> SUFFICES ASSUME LayoutInv, [LayoutNext]_layoutVars PROVE LayoutInv'
  OBVIOUS
<1>0. /\ Ids \in Seq(WindowIds) /\ Len(Ids) = Len(windows) /\ Len(windows) \in Nat
      /\ DOMAIN windows = DOMAIN Ids
  BY IdsProperties DEF LayoutInv, Ids
<1>1. ASSUME NEW id \in WindowIds, AddWindow(id) PROVE LayoutInv'
  <2> DEFINE ids == Append(Ids, id)
  <2>1. ids \in Seq(WindowIds) /\ Len(ids) = Len(windows) + 1
    BY <1>0
  <2>2. Recalculates(ids) /\ UNCHANGED screen /\ ~crashed
    BY <1>1 DEF AddWindow
  <2> HIDE DEF ids
  <2> QED
    BY <1>0, <2>1, <2>2, RecalculatesKeepsInv
<1>2. ASSUME NEW id \in WindowIds, RemoveWindow(id) PROVE LayoutInv'
  <2>1. PICK i \in DOMAIN Ids : Recalculates(RemoveAt(Ids, i))
    BY <1>0, <1>2 DEF RemoveWindow
  <2>2. UNCHANGED screen /\ ~crashed
    BY <1>2 DEF RemoveWindow
  <2> DEFINE ids == Ids
  <2>3. /\ RemoveAt(ids, i) \in Seq(WindowIds)
        /\ Len(RemoveAt(ids, i)) = Len(ids) - 1
    <3>1. ids \in Seq(WindowIds) /\ i \in DOMAIN ids
      BY <1>0
    <3> HIDE DEF ids
    <3> QED
      BY <3>1, SMTT(30) DEF RemoveAt
  <2> QED
    BY <1>0, <2>1, <2>2, <2>3, RecalculatesKeepsInv
<1>3. CASE DockOverflows
  <2>1. /\ crashed' = TRUE /\ UNCHANGED <<screen, windows>>
        /\ DockWidth(screen) < DockIcons \/ UsableHeight(screen) < 0
        /\ screen \in Screens
    BY <1>3 DEF DockOverflows, LayoutInv
  <2>2. SmallFor(screen, Len(windows))
    BY <1>0, <2>1, ScreenSizes
    DEF SmallFor, DockWidth, DockIcons, DockMax, UsableHeight, DockHeight
  <2> QED
    BY <2>1, <2>2 DEF LayoutInv
<1>4. CASE UNCHANGED layoutVars
  BY <1>4 DEF layoutVars, LayoutInv
<1> QED
  BY <1>1, <1>2, <1>3, <1>4 DEF LayoutNext, Dead
-----------------------------------------------------------------------------
(* One window of n: on the screen, above the dock, and before the windows  *)
(* that follow it.                                                         *)
LEMMA TileFits ==
  ASSUME NEW s \in Screens, NEW n \in Nat, ~Underflows(s, n), NEW i \in 1 .. n
  PROVE  LET t == Tile(s, n, i) IN
         /\ t.x >= Gaps /\ t.y >= Gaps /\ t.w >= 0 /\ t.h >= 0
         /\ t.x + t.w + Gaps <= s.w
         /\ Before(t, Dock(s))
         /\ \A j \in i + 1 .. n : Before(t, Tile(s, n, j))
<1> DEFINE t == Tile(s, n, i)
<1>1. /\ s.w \in Nat /\ s.w \div 2 \in Nat /\ 2 * (s.w \div 2) <= s.w
      /\ FullHeight(s) \in Nat /\ s.h = FullHeight(s) + 80
      /\ n = 1 => s.w >= 20
      /\ n >= 2 => s.w \div 2 >= 15
      /\ Gaps = 10 /\ s.h \in Nat
  BY ScreenSizes, Lengths DEF Gaps
<1>2. Dock(s).y = FullHeight(s) + 30
  <2>1. Dock(s).y = UsableHeight(s) + 10
    BY DEF Dock, Rect
  <2> QED
    BY <1>1, <2>1 DEF UsableHeight, DockHeight
<1>3. CASE i = 1
  <2>1. /\ t.x = 10 /\ t.y = 10 /\ t.h = FullHeight(s)
        /\ t.w = IF n = 1 THEN s.w - 20 ELSE s.w \div 2 - 15
    BY <1>3, MasterProperties
  <2>2. ASSUME NEW j \in i + 1 .. n PROVE Before(t, Tile(s, n, j))
    <3>1. j \in 2 .. n /\ n >= 2
      BY <1>3
    <3>2. Tile(s, n, j).x = s.w \div 2 + 5
      BY <3>1, StackProperties
    <3> HIDE DEF t
    <3> QED
      BY <1>1, <2>1, <3>1, <3>2 DEF Before
  <2> HIDE DEF t
  <2>3. /\ t.x >= Gaps /\ t.y >= Gaps /\ t.w >= 0 /\ t.h >= 0
        /\ t.x + t.w + Gaps <= s.w
    <3>1. CASE n = 1
      BY <1>1, <2>1, <3>1
    <3>2. CASE n # 1
      BY <1>1, <2>1, <3>2
    <3> QED
      BY <3>1, <3>2
  <2>4. Before(t, Dock(s))
    BY <1>1, <1>2, <2>1 DEF Before
  <2> QED
    BY <2>2, <2>3, <2>4 DEF t
<1>4. CASE i # 1
  <2> DEFINE c == CellHeight(s, n)
             p == (i - 2) * (c + 10)
  <2>1. i \in 2 .. n /\ n >= 2
    BY <1>4
  <2>2. /\ c \in Nat
        /\ t.x = s.w \div 2 + 5 /\ t.w = s.w \div 2 - 15
        /\ t.y = 10 + p /\ t.h = c
        /\ p \in Nat
        /\ t.y + t.h <= 10 + FullHeight(s)
    BY <2>1, StackProperties
  <2>3. ASSUME NEW j \in i + 1 .. n PROVE Before(t, Tile(s, n, j))
    <3> DEFINE q == (j - 2) * (c + 10)
    <3>1. j \in 2 .. n /\ i - 1 \in Nat /\ j - 2 \in Nat /\ i - 1 <= j - 2
      BY <2>1
    <3>2. Tile(s, n, j).y = 10 + q /\ q \in Nat
      BY <3>1, StackProperties
    <3>3. p + c + 10 <= q
      <4>1. c + 10 \in Nat
        BY <2>2
      <4>2. (i - 1) * (c + 10) <= q
        BY <3>1, <4>1, Multiples
      <4>3. (i - 1) * (c + 10) = p + c + 10
        <5> HIDE DEF c
        <5> QED
          BY <2>1, <2>2, SMT
      <4> QED
        BY <4>2, <4>3
    <3> HIDE DEF t, p, q, c
    <3> QED
      BY <1>1, <2>2, <3>2, <3>3 DEF Before
  <2> HIDE DEF t, p, c
  <2>4. /\ t.x >= Gaps /\ t.y >= Gaps /\ t.w >= 0 /\ t.h >= 0
        /\ t.x + t.w + Gaps <= s.w
    BY <1>1, <2>1, <2>2
  <2>5. Before(t, Dock(s))
    BY <1>1, <1>2, <2>2 DEF Before
  <2> QED
    BY <2>3, <2>4, <2>5 DEF t
<1> QED
  BY <1>3, <1>4

(* layout.rs, recalculate: the windows never overlap each other, the edges *)
(* or the dock, and no screen that is large enough makes a length drop     *)
(* below zero.                                                             *)
THEOREM WindowsFit == LayoutSpec => []TilesFit
<1>1. LayoutInv => TilesFit
  <2> SUFFICES ASSUME LayoutInv PROVE TilesFit
    OBVIOUS
  <2>1. /\ screen \in Screens /\ windows \in Seq(Windows) /\ Len(windows) \in Nat
        /\ DOMAIN windows = 1 .. Len(windows)
    BY DEF LayoutInv
  <2>2. crashed => screen.w < 290 \/ screen.h < 80 + 10 * Len(windows)
    BY DEF LayoutInv, SmallFor
  <2>3. ASSUME ~crashed, NEW i \in DOMAIN windows
        PROVE  LET t == windows[i].tile IN
               /\ t.x >= Gaps /\ t.y >= Gaps /\ t.w >= 0 /\ t.h >= 0
               /\ t.x + t.w + Gaps <= screen.w
               /\ Before(t, Dock(screen))
               /\ \A j \in i + 1 .. Len(windows) : Before(t, windows[j].tile)
    <3> DEFINE n == Len(windows)
    <3>1. n \in Nat /\ i \in 1 .. n /\ n >= 1
      BY <2>1
    <3>2. /\ ~Underflows(screen, n)
          /\ \A j \in 1 .. n : windows[j].tile = Tile(screen, n, j)
      BY <2>1, <2>3, <3>1 DEF LayoutInv, Placed
    <3> HIDE DEF n
    <3>3. \A j \in i + 1 .. n : windows[j].tile = Tile(screen, n, j)
      BY <3>1, <3>2
    <3> QED
      BY <2>1, <3>1, <3>2, <3>3, TileFits DEF n
  <2> QED
    BY <2>2, <2>3 DEF TilesFit
<1> QED
  BY <1>1, LayoutInitInv, LayoutNextInv, PTL DEF LayoutSpec
=============================================================================
