---------------------------- MODULE PagingProofs ----------------------------
(***************************************************************************)
(* Proofs about Paging: which frames are handed out, and what map_page     *)
(* does to the translations, for every memory map and any boot tables.     *)
(***************************************************************************)
EXTENDS Paging, TLAPS

Regions == 1 .. Len(MemoryMap)

(* Frame f is one of the whole frames of region r. *)
Whole(f, r) == f \in FirstFrame(r) .. EndFrame(r) - 1

LEMMA RegionProperties ==
  ASSUME NEW r \in Regions
  PROVE  /\ MemoryMap[r].start \in Nat /\ MemoryMap[r].end \in Nat
         /\ FirstFrame(r) \in Nat /\ EndFrame(r) \in Nat
         /\ \A f \in Int : Whole(f, r) => f \in Nat /\ InRegion(f, r)
<1>1. MemoryMap[r] \in MemoryRegion
  BY PagingAssumption DEF Regions
<1>2. MemoryMap[r].start \in Nat /\ MemoryMap[r].end \in Nat
  BY <1>1 DEF MemoryRegion
<1>3. FirstFrame(r) \in Nat /\ EndFrame(r) \in Nat
  BY <1>2, SMT DEF FirstFrame, EndFrame, PageSize
<1>4. ASSUME NEW f \in Int, Whole(f, r)
      PROVE  f \in Nat /\ InRegion(f, r)
  BY <1>2, <1>3, <1>4, SMT DEF FirstFrame, EndFrame, PageSize, Whole, InRegion
<1> QED
  BY <1>2, <1>3, <1>4

(* Whole frames of different regions are different. *)
LEMMA RegionsApart ==
  ASSUME NEW q \in Regions, NEW r \in Regions, q # r,
         NEW f \in Int, NEW g \in Int, Whole(f, q), Whole(g, r)
  PROVE  f # g
<1>1. /\ InRegion(f, q) /\ InRegion(g, r) /\ f \in Nat /\ g \in Nat
      /\ MemoryMap[q].start \in Nat /\ MemoryMap[q].end \in Nat
      /\ MemoryMap[r].start \in Nat /\ MemoryMap[r].end \in Nat
  BY RegionProperties
<1>2. \/ MemoryMap[q].end <= MemoryMap[r].start
      \/ MemoryMap[r].end <= MemoryMap[q].start
  <2>1. q \in DOMAIN MemoryMap /\ r \in DOMAIN MemoryMap
    BY PagingAssumption DEF Regions
  <2> QED
    BY <2>1, PagingAssumption
<1> QED
  BY <1>1, <1>2 DEF InRegion, PageSize

(* The cursor: what was handed out is behind it, and everything usable     *)
(* behind it was handed out. *)
Behind(f, r, nr, nf) == r <= nr /\ (r = nr => f < FirstFrame(r) + nf)

CursorInv ==
  /\ next_region \in 1 .. Len(MemoryMap) + 1 /\ next_frame \in Nat
  /\ handed \in Seq(Nat)
  /\ \A i \in DOMAIN handed :
       \E r \in Regions : MemoryMap[r].usable /\ Whole(handed[i], r) /\ Behind(handed[i], r, next_region, next_frame)
  /\ \A i, j \in DOMAIN handed : i # j => handed[i] # handed[j]
  /\ \A r \in Regions, f \in Nat :
       MemoryMap[r].usable /\ Whole(f, r) /\ Behind(f, r, next_region, next_frame) =>
         \E i \in DOMAIN handed : handed[i] = f

LEMMA LenType == Len(MemoryMap) \in Nat /\ DOMAIN MemoryMap = Regions
  BY PagingAssumption DEF Regions

LEMMA AppendProps ==
  ASSUME NEW s \in Seq(Nat), NEW f \in Nat
  PROVE  /\ Append(s, f) \in Seq(Nat)
         /\ DOMAIN Append(s, f) = DOMAIN s \union {Len(s) + 1}
         /\ Append(s, f)[Len(s) + 1] = f
         /\ \A i \in DOMAIN s : Append(s, f)[i] = s[i] /\ i # Len(s) + 1
  BY SMT

(* The frame is new, whole and usable, and the cursor passes it alone. *)
LEMMA TakesFrameIsGood ==
  ASSUME CursorInv, NEW f, TakesFrame(f)
  PROVE  /\ CursorInv'
         /\ \E r \in Regions : MemoryMap[r].usable /\ Whole(f, r)
         /\ f \in Nat /\ \A i \in DOMAIN handed : handed[i] # f
         /\ handed' = Append(handed, f)
<1>0. PICK r \in RegionsLeft :
        /\ \A q \in RegionsLeft : r <= q
        /\ f = FirstFrame(r) + Offset(r)
        /\ next_region' = r /\ next_frame' = Offset(r) + 1
        /\ handed' = Append(handed, f)
  BY DEF TakesFrame
<1>1. /\ r \in Regions /\ next_region <= r /\ MemoryMap[r].usable
      /\ FirstFrame(r) + Offset(r) < EndFrame(r)
      /\ r \in Nat /\ next_region \in Nat /\ next_frame \in Nat
      /\ handed \in Seq(Nat)
  BY <1>0, LenType DEF RegionsLeft, HasFrame, CursorInv, Regions
<1>2. FirstFrame(r) \in Nat /\ EndFrame(r) \in Nat /\ Offset(r) \in Nat
  BY <1>1, RegionProperties DEF Offset
<1>3. f \in Nat /\ Whole(f, r)
  BY <1>0, <1>1, <1>2 DEF Whole
<1>4. \A i \in DOMAIN handed :
        \E q \in Regions : MemoryMap[q].usable /\ Whole(handed[i], q) /\ Behind(handed[i], q, next_region, next_frame)
  BY DEF CursorInv
<1>4a. \A i \in DOMAIN handed : handed[i] \in Nat
  BY <1>1
<1>5. \A i \in DOMAIN handed : handed[i] # f
  <2> SUFFICES ASSUME NEW i \in DOMAIN handed, handed[i] = f PROVE FALSE
    OBVIOUS
  <2>1. PICK q \in Regions : MemoryMap[q].usable /\ Whole(f, q) /\ Behind(f, q, next_region, next_frame)
    BY <1>4
  <2>2. q = r
    BY <1>1, <1>3, <2>1, RegionsApart
  <2>3. r = next_region /\ f < FirstFrame(r) + next_frame
    BY <1>1, <2>1, <2>2 DEF Behind, Regions
  <2> QED
    BY <1>0, <1>1, <1>2, <2>3 DEF Offset
<1>6. /\ handed' \in Seq(Nat)
      /\ DOMAIN handed' = DOMAIN handed \union {Len(handed) + 1}
      /\ handed'[Len(handed) + 1] = f
      /\ \A i \in DOMAIN handed : handed'[i] = handed[i] /\ i # Len(handed) + 1
  BY <1>0, <1>1, <1>3, AppendProps
<1>7. ASSUME NEW q \in Regions, NEW g \in Nat, Whole(g, q)
      PROVE  Behind(g, q, next_region, next_frame) => Behind(g, q, next_region', next_frame')
  <2>1. q \in Nat /\ FirstFrame(q) \in Nat
    BY <1>7, RegionProperties DEF Regions
  <2> QED
    BY <1>0, <1>1, <1>2, <2>1 DEF Behind, Offset, FirstFrame, PageSize
<1>8. Behind(f, r, next_region', next_frame')
  BY <1>0, <1>1, <1>2, <1>3 DEF Behind, Offset, FirstFrame, PageSize
<1>9. ASSUME NEW q \in Regions, NEW g \in Nat, MemoryMap[q].usable,
             Whole(g, q), Behind(g, q, next_region', next_frame'), g # f
      PROVE  Behind(g, q, next_region, next_frame)
  <2>1. /\ q \in Nat /\ FirstFrame(q) \in Nat /\ EndFrame(q) \in Nat
        /\ FirstFrame(q) <= g /\ g < EndFrame(q)
    BY <1>9, RegionProperties DEF Regions, Whole
  <2>2. q <= r /\ (q = r => g < FirstFrame(r) + Offset(r) + 1)
    BY <1>0, <1>1, <1>2, <1>9 DEF Behind
  <2>3. CASE q = r
    <3>1. g < FirstFrame(r) + Offset(r)
      BY <1>0, <1>2, <1>9, <2>2, <2>3
    <3>2. r = next_region
      BY <1>1, <1>2, <2>1, <2>3, <3>1 DEF Offset
    <3> QED
      BY <1>1, <2>3, <3>1, <3>2 DEF Behind, Offset
  <2>4. CASE q < next_region
    BY <1>1, <2>1, <2>4 DEF Behind
  <2>5. CASE q # r /\ ~(q < next_region)
    <3>1. q \in next_region .. Len(MemoryMap) /\ q < r
      BY <1>1, <2>1, <2>2, <2>5, LenType DEF Regions
    <3>2. ~HasFrame(q)
      BY <1>0, <1>1, <2>1, <3>1 DEF RegionsLeft
    <3>3. ~(FirstFrame(q) + Offset(q) < EndFrame(q))
      BY <1>9, <3>2 DEF HasFrame
    <3>4. q = next_region /\ g < FirstFrame(q) + next_frame
      BY <1>1, <2>1, <3>3 DEF Offset
    <3> QED
      BY <1>1, <2>1, <3>4 DEF Behind
  <2> QED
    BY <2>3, <2>4, <2>5
<1>10. CursorInv'
  <2>1. next_region' \in 1 .. Len(MemoryMap) + 1 /\ next_frame' \in Nat
    BY <1>0, <1>1, <1>2, LenType DEF Regions
  <2>2. \A i \in DOMAIN handed' :
          \E q \in Regions : MemoryMap[q].usable /\ Whole(handed'[i], q) /\ Behind(handed'[i], q, next_region', next_frame')
    <3>1. \A i \in DOMAIN handed :
            \E q \in Regions : MemoryMap[q].usable /\ Whole(handed[i], q) /\ Behind(handed[i], q, next_region', next_frame')
      BY <1>4, <1>4a, <1>7
    <3> QED
      BY <1>1, <1>3, <1>6, <1>8, <3>1
  <2>3. \A i, j \in DOMAIN handed' : i # j => handed'[i] # handed'[j]
    BY <1>5, <1>6 DEF CursorInv
  <2>4. \A q \in Regions, g \in Nat :
          MemoryMap[q].usable /\ Whole(g, q) /\ Behind(g, q, next_region', next_frame') =>
            \E i \in DOMAIN handed' : handed'[i] = g
    BY <1>6, <1>9 DEF CursorInv
  <2> QED
    BY <1>6, <2>1, <2>2, <2>3, <2>4 DEF CursorInv
<1> QED
  BY <1>0, <1>1, <1>3, <1>5, <1>10

(* When no region is left, all whole usable frames are behind the cursor.  *)
LEMMA OutOfFramesIsBehind ==
  ASSUME CursorInv, OutOfFrames, NEW q \in Regions, NEW g \in Nat,
         MemoryMap[q].usable, Whole(g, q)
  PROVE  Behind(g, q, next_region, next_frame)
<1>1. /\ q \in Nat /\ FirstFrame(q) \in Nat /\ EndFrame(q) \in Nat
      /\ FirstFrame(q) <= g /\ g < EndFrame(q)
      /\ next_region \in Nat /\ next_frame \in Nat
  BY LenType, RegionProperties DEF Regions, Whole, CursorInv
<1>2. CASE q < next_region
  BY <1>1, <1>2 DEF Behind
<1>3. CASE ~(q < next_region)
  <2>1. q \in next_region .. Len(MemoryMap)
    BY <1>1, <1>3, LenType DEF Regions
  <2>2. ~(FirstFrame(q) + Offset(q) < EndFrame(q))
    BY <2>1 DEF OutOfFrames, RegionsLeft, HasFrame
  <2>3. q = next_region /\ g < FirstFrame(q) + next_frame
    BY <1>1, <2>2 DEF Offset
  <2> QED
    BY <1>1, <2>3 DEF Behind
<1> QED
  BY <1>2, <1>3

LEMMA FindsNoFrameIsGood ==
  ASSUME CursorInv, FindsNoFrame
  PROVE  CursorInv'
<1>1. /\ next_region' = Len(MemoryMap) + 1 /\ next_frame' = 0 /\ handed' = handed
      /\ OutOfFrames
  BY DEF FindsNoFrame
<1>2. \A q \in Regions : q \in Nat /\ q < next_region'
  BY <1>1, LenType DEF Regions
<1>3. \A q \in Regions, g \in Nat : MemoryMap[q].usable /\ Whole(g, q)
        => Behind(g, q, next_region, next_frame)
  BY <1>1, OutOfFramesIsBehind
<1>4. \A q \in Regions, g \in Nat : Behind(g, q, next_region', next_frame')
  BY <1>1, <1>2 DEF Behind
<1> QED
  BY <1>1, <1>2, <1>3, <1>4, LenType DEF CursorInv
-----------------------------------------------------------------------------
(***************************************************************************)
(* The tables.                                                             *)
(***************************************************************************)

LEMMA IndexTypes ==
  ASSUME NEW v \in Pages
  PROVE  v[1] \in Index /\ v[2] \in Index /\ v[3] \in Index /\ v[4] \in Index
  BY DEF Pages, Levels

LEMMA PrefixProperties ==
  ASSUME NEW v \in Pages, NEW n \in 0 .. Levels - 1
  PROVE  /\ Prefix(v, n) \in Seq(Index) /\ Len(Prefix(v, n)) = n
         /\ Append(Prefix(v, n), v[n + 1]) = Prefix(v, n + 1)
         /\ Prefix(v, 0) = <<>>
<1>1. v \in [1 .. 4 -> Index] /\ n \in Nat /\ n <= 3
  BY DEF Pages, Levels
<1>2. Prefix(v, n) \in Seq(Index) /\ Len(Prefix(v, n)) = n
  BY <1>1 DEF Prefix
<1>3. Append(Prefix(v, n), v[n + 1]) = Prefix(v, n + 1)
  BY <1>1 DEF Prefix
<1>4. Prefix(v, 0) = <<>>
  BY DEF Prefix
<1> QED
  BY <1>2, <1>3, <1>4

LEMMA PagesEqual ==
  ASSUME NEW v \in Pages, NEW w \in Pages,
         Prefix(v, 3) = Prefix(w, 3), v[4] = w[4]
  PROVE  v = w
<1>1. Prefix(v, 3)[1] = v[1] /\ Prefix(v, 3)[2] = v[2] /\ Prefix(v, 3)[3] = v[3]
  BY DEF Prefix
<1>2. Prefix(w, 3)[1] = w[1] /\ Prefix(w, 3)[2] = w[2] /\ Prefix(w, 3)[3] = w[3]
  BY DEF Prefix
<1> QED
  BY <1>1, <1>2 DEF Pages, Levels

LEMMA EntryProperties ==
  /\ Unused \in Entry
  /\ \A f \in Nat : /\ Link(f) \in Entry /\ Leaf(f) \in Entry
                    /\ Link(f) # Unused /\ Leads(Link(f)) /\ Link(f).addr = f
                    /\ ~Link(f).huge /\ Link(f).present
                    /\ Leaf(f).addr = f /\ Leaf(f).present /\ ~Leaf(f).huge
  /\ ~Leads(Unused) /\ ~Unused.present /\ ~Unused.huge
  /\ \A e \in Entry : Leads(e) => e.present
  /\ \A e \in Entry : e # Unused => e.present
<1>1. Unused \in Entry /\ ~Leads(Unused)
  BY DEF Entry, Leads
<1>2. ~Unused.present /\ ~Unused.huge
  BY DEF Unused
<1>3. ASSUME NEW f \in Nat
      PROVE  /\ Link(f).addr = f /\ Link(f).present /\ ~Link(f).huge
             /\ Leaf(f).addr = f /\ Leaf(f).present /\ ~Leaf(f).huge
  BY DEF Link, Leaf
<1>4. ASSUME NEW f \in Nat
      PROVE  Link(f) \in Entry /\ Leaf(f) \in Entry
  <2>1. /\ Link(f) \in [addr : Nat, present : {TRUE}, user : BOOLEAN, huge : BOOLEAN]
        /\ Leaf(f) \in [addr : Nat, present : {TRUE}, user : BOOLEAN, huge : BOOLEAN]
    BY DEF Link, Leaf
  <2> QED
    BY <2>1 DEF Entry
<1>5. \A f \in Nat : Link(f) # Unused /\ Leads(Link(f))
  BY <1>2, <1>3 DEF Leads
<1>6. \A e \in Entry : e # Unused => e.present
  BY DEF Entry
<1>7. \A e \in Entry : Leads(e) => e.present
  BY <1>6 DEF Leads
<1> QED
  BY <1>1, <1>2, <1>3, <1>4, <1>5, <1>6, <1>7

(* On the way to a page each entry that leads on leads to the table with   *)
(* the indices passed so far. *)
LEMMA WalkProperties ==
  ASSUME NEW tab, IsTree(tab), NEW v \in Pages
  PROVE  /\ Entry4(tab, v) \in Entry
         /\ Entry3(tab, v) \in Entry
         /\ Entry2(tab, v) \in Entry
         /\ Leads(Entry4(tab, v)) =>
              /\ Entry4(tab, v).addr \in DOMAIN tab
              /\ tab[Entry4(tab, v).addr].way = Prefix(v, 1)
         /\ Leads(Entry3(tab, v)) =>
              /\ Leads(Entry4(tab, v))
              /\ Entry3(tab, v).addr \in DOMAIN tab
              /\ tab[Entry3(tab, v).addr].way = Prefix(v, 2)
         /\ Leads(Entry2(tab, v)) =>
              /\ Leads(Entry3(tab, v))
              /\ Entry2(tab, v).addr \in DOMAIN tab
              /\ tab[Entry2(tab, v).addr].way = Prefix(v, 3)
         /\ Entry1(tab, v) \in Entry
<1>1. /\ Root \in DOMAIN tab /\ tab[Root].way = <<>>
      /\ \A t \in DOMAIN tab : tab[t] \in Tables /\ Len(tab[t].way) < Levels
  BY DEF IsTree
<1>2. \A t \in DOMAIN tab, i \in Index : tab[t].entry[i] \in Entry
  BY <1>1 DEF Tables
<1>3. ASSUME NEW t \in DOMAIN tab, NEW n \in 0 .. 2, tab[t].way = Prefix(v, n),
             Leads(tab[t].entry[v[n + 1]])
      PROVE  /\ tab[t].entry[v[n + 1]].addr \in DOMAIN tab
             /\ tab[tab[t].entry[v[n + 1]].addr].way = Prefix(v, n + 1)
  <2>1. n \in 0 .. Levels - 1 /\ n < Levels - 1
    BY DEF Levels
  <2>2. v[n + 1] \in Index
    BY DEF Pages, Levels
  <2>3. /\ Len(tab[t].way) < Levels - 1
        /\ Append(tab[t].way, v[n + 1]) = Prefix(v, n + 1)
    BY <1>3, <2>1, PrefixProperties
  <2> QED
    BY <1>3, <2>2, <2>3 DEF IsTree
<1>4. tab[Root].way = Prefix(v, 0)
  <2>1. 0 \in 0 .. Levels - 1
    BY DEF Levels
  <2> QED
    BY <1>1, <2>1, PrefixProperties
<1>5. /\ Entry4(tab, v) \in Entry
      /\ Leads(Entry4(tab, v)) =>
              /\ Entry4(tab, v).addr \in DOMAIN tab
              /\ tab[Entry4(tab, v).addr].way = Prefix(v, 1)
  <2>1. 0 \in 0 .. 2 /\ v[0 + 1] = v[1] /\ 0 + 1 = 1
    OBVIOUS
  <2> QED
    BY <1>1, <1>2, <1>3, <1>4, <2>1, IndexTypes DEF Entry4
<1>6. /\ Entry3(tab, v) \in Entry
      /\ Leads(Entry3(tab, v)) =>
              /\ Leads(Entry4(tab, v))
              /\ Entry3(tab, v).addr \in DOMAIN tab
              /\ tab[Entry3(tab, v).addr].way = Prefix(v, 2)
  <2>1. 1 \in 0 .. 2 /\ v[1 + 1] = v[2] /\ 1 + 1 = 2
    OBVIOUS
  <2> QED
    BY <1>2, <1>3, <1>5, <2>1, IndexTypes DEF Entry3, Down
<1>7. /\ Entry2(tab, v) \in Entry
      /\ Leads(Entry2(tab, v)) =>
              /\ Leads(Entry3(tab, v))
              /\ Entry2(tab, v).addr \in DOMAIN tab
              /\ tab[Entry2(tab, v).addr].way = Prefix(v, 3)
  <2>1. 2 \in 0 .. 2 /\ v[2 + 1] = v[3] /\ 2 + 1 = 3
    OBVIOUS
  <2> QED
    BY <1>2, <1>3, <1>6, <2>1, IndexTypes DEF Entry2, Down
<1>8. Entry1(tab, v) \in Entry
  BY <1>2, <1>7, IndexTypes DEF Entry1, Down
<1> QED
  BY <1>5, <1>6, <1>7, <1>8

(* Two tables that agree but for a new, empty table f, and a link to it in *)
(* place of an unused entry above the last level, translate alike.         *)
LEMMA LinkKeepsTranslations ==
  ASSUME NEW tab, IsTree(tab), NEW new, NEW f \in Nat, f \notin DOMAIN tab,
         DOMAIN new = DOMAIN tab \union {f},
         NEW t \in DOMAIN tab, NEW i \in Index,
         tab[t].entry[i] = Unused, Len(tab[t].way) < Levels - 1,
         \A u \in DOMAIN tab, j \in Index :
           new[u].entry[j] = IF u = t /\ j = i THEN Link(f) ELSE tab[u].entry[j],
         \A j \in Index : new[f].entry[j] = Unused,
         NEW v \in Pages
  PROVE  /\ Leads(Entry4(tab, v)) => Entry4(new, v) = Entry4(tab, v)
         /\ Leads(Entry3(tab, v)) => Entry3(new, v) = Entry3(tab, v)
         /\ Leads(Entry2(tab, v)) => Entry2(new, v) = Entry2(tab, v)
         /\ Entry1(new, v) = Entry1(tab, v)
<1> DEFINE Same(d, e) == e = d \/ (d = Unused /\ e = Link(f))
<1>1. ASSUME NEW d, NEW e, Same(d, e), Leads(d) => d.addr \in DOMAIN tab,
             NEW j \in Index
      PROVE  Same(Down(tab, d, j), Down(new, e, j))
  BY <1>1, EntryProperties DEF Down
<1>2. Same(Entry4(tab, v), Entry4(new, v))
  <2>1. Root \in DOMAIN tab
    BY DEF IsTree
  <2> QED
    BY <2>1, IndexTypes DEF Entry4
<1> HIDE DEF Same
<1>3. Same(Entry3(tab, v), Entry3(new, v))
  BY <1>1, <1>2, WalkProperties, IndexTypes DEF Entry3
<1>4. Same(Entry2(tab, v), Entry2(new, v))
  BY <1>1, <1>3, WalkProperties, IndexTypes DEF Entry2
<1>5. ASSUME Leads(Entry2(tab, v)) PROVE Entry1(new, v) = Entry1(tab, v)
  <2>1. /\ Entry2(tab, v).addr \in DOMAIN tab
        /\ tab[Entry2(tab, v).addr].way = Prefix(v, 3)
    BY <1>5, WalkProperties
  <2>2. Len(Prefix(v, 3)) = 3
    BY PrefixProperties DEF Levels
  <2>3. Entry2(tab, v).addr # t
    BY <2>1, <2>2, SMTT(20) DEF Levels
  <2>4. Entry2(new, v) = Entry2(tab, v)
    BY <1>4, <1>5, EntryProperties DEF Same
  <2> QED
    BY <1>5, <2>1, <2>3, <2>4, IndexTypes DEF Entry1, Down
<1>6. ASSUME ~Leads(Entry2(tab, v)) PROVE Entry1(new, v) = Entry1(tab, v)
  BY <1>4, <1>6, IndexTypes, EntryProperties DEF Entry1, Down, Same
<1>7. \A d, e : Same(d, e) /\ Leads(d) => e = d
  BY EntryProperties DEF Same
<1> QED
  BY <1>2, <1>3, <1>4, <1>5, <1>6, <1>7

(* Setting an entry of the last level changes what its page leads to.      *)
LEMMA SetChangesOnePage ==
  ASSUME NEW tab, IsTree(tab), NEW new, NEW v \in Pages, NEW e \in Entry,
         NEW t \in DOMAIN tab, tab[t].way = Prefix(v, 3),
         Leads(Entry2(tab, v)), Entry2(tab, v).addr = t,
         DOMAIN new = DOMAIN tab,
         \A u \in DOMAIN tab, j \in Index :
           new[u].entry[j] = IF u = t /\ j = v[4] THEN e ELSE tab[u].entry[j],
         NEW w \in Pages
  PROVE  Entry1(new, w) = IF w = v THEN e ELSE Entry1(tab, w)
<1>1. /\ Len(Prefix(w, 0)) = 0 /\ Len(Prefix(w, 1)) = 1
      /\ Len(Prefix(w, 2)) = 2 /\ Len(Prefix(v, 3)) = 3 /\ Prefix(w, 0) = <<>>
  BY PrefixProperties DEF Levels
<1>2. Root \in DOMAIN tab /\ tab[Root].way = Prefix(w, 0)
  BY <1>1 DEF IsTree
<1>3. Entry4(new, w) = Entry4(tab, w)
  BY <1>1, <1>2, IndexTypes, SMTT(20) DEF Entry4
<1>4. Entry3(new, w) = Entry3(tab, w)
  <2>1. Leads(Entry4(tab, w)) =>
          Entry4(tab, w).addr \in DOMAIN tab /\ Entry4(tab, w).addr # t
    <3>1. Prefix(w, 1) # Prefix(v, 3)
      BY <1>1, SMTT(20)
    <3> QED
      BY <3>1, WalkProperties
  <2> QED
    BY <1>3, <2>1, IndexTypes DEF Entry3, Down
<1>5. Entry2(new, w) = Entry2(tab, w)
  <2>1. Leads(Entry3(tab, w)) =>
          Entry3(tab, w).addr \in DOMAIN tab /\ Entry3(tab, w).addr # t
    <3>1. Prefix(w, 2) # Prefix(v, 3)
      <4> SUFFICES ASSUME Prefix(w, 2) = Prefix(v, 3) PROVE FALSE
        OBVIOUS
      <4>1. Len(Prefix(w, 2)) = 2 /\ Len(Prefix(v, 3)) = 3
        BY <1>1
      <4> QED
        BY <4>1
    <3> QED
      BY <3>1, WalkProperties
  <2> QED
    BY <1>4, <2>1, IndexTypes DEF Entry2, Down
<1>6. CASE w = v
  BY <1>5, <1>6, IndexTypes DEF Entry1, Down
<1>7. CASE w # v
  <2>1. CASE Leads(Entry2(tab, w)) /\ Entry2(tab, w).addr = t
    <3>1. Prefix(w, 3) = Prefix(v, 3)
      BY <2>1, WalkProperties
    <3>2. w[4] # v[4]
      BY <1>7, <3>1, PagesEqual
    <3> QED
      BY <1>5, <1>7, <2>1, <3>2, IndexTypes DEF Entry1, Down
  <2>2. CASE Leads(Entry2(tab, w)) /\ Entry2(tab, w).addr # t
    BY <1>5, <1>7, <2>2, IndexTypes, WalkProperties DEF Entry1, Down
  <2>3. CASE ~Leads(Entry2(tab, w))
    BY <1>5, <1>7, <2>3 DEF Entry1, Down
  <2> QED
    BY <2>1, <2>2, <2>3
<1> QED
  BY <1>6, <1>7
-----------------------------------------------------------------------------
(***************************************************************************)
(* The invariant.                                                          *)
(***************************************************************************)

(* The call has walked down from the root.                                 *)
WalkInv ==
  InCall =>
    /\ ~marked
    /\ call \in [page : MappedPages, frame : held, at : DOMAIN table, level : 1 .. 4]
    /\ table[call.at].way = Prefix(call.page, 4 - call.level)
    /\ call.level = 1 => /\ Leads(Entry2(table, call.page))
                         /\ Entry2(table, call.page).addr = call.at
    /\ call.level = 2 => /\ Leads(Entry3(table, call.page))
                         /\ Entry3(table, call.page).addr = call.at
    /\ call.level = 3 => /\ Leads(Entry4(table, call.page))
                         /\ Entry4(table, call.page).addr = call.at
    /\ call.level = 4 => call.at = Root

OwnersInv ==
  /\ held \subseteq {handed[i] : i \in DOMAIN handed}
  /\ DOMAIN table \subseteq DOMAIN BootTables \union {handed[i] : i \in DOMAIN handed}
  /\ TablesArePrivate

MarkedInv ==
  /\ marked \in BOOLEAN
  /\ marked => \A v \in Pages :
       \A e \in {Entry4(table, v), Entry3(table, v), Entry2(table, v), Entry1(table, v)} :
         e.present => e.user

PagingInv ==
  /\ CursorInv /\ OwnersInv /\ IsTree(table) /\ IsClear(table)
  /\ WalkInv /\ MarkedInv

LEMMA InitInv == PagingInit => PagingInv
<1> SUFFICES ASSUME PagingInit PROVE PagingInv
  OBVIOUS
<1>1. /\ next_region = 1 /\ next_frame = 0 /\ handed = <<>> /\ held = {}
      /\ table = BootTables /\ call = NoCall /\ marked = FALSE
  BY DEF PagingInit
<1>2. CursorInv
  <2>1. next_region \in 1 .. Len(MemoryMap) + 1 /\ next_frame \in Nat
    BY <1>1, LenType
  <2>2. handed \in Seq(Nat) /\ DOMAIN handed = {}
    BY <1>1
  <2>3. ASSUME NEW r \in Regions, NEW f \in Nat, Whole(f, r)
        PROVE  ~Behind(f, r, 1, 0)
    <3>1. r \in Nat /\ FirstFrame(r) \in Nat /\ EndFrame(r) \in Nat
          /\ r >= 1 /\ FirstFrame(r) <= f
      BY <2>3, RegionProperties DEF Regions, Whole
    <3> QED
      BY <3>1 DEF Behind
  <2> QED
    BY <1>1, <2>1, <2>2, <2>3 DEF CursorInv
<1>3. OwnersInv
  BY <1>1 DEF OwnersInv, TablesArePrivate
<1>4. IsTree(table) /\ IsClear(table)
  BY <1>1, PagingAssumption
<1>5. WalkInv
  BY <1>1 DEF WalkInv, InCall
<1>6. MarkedInv
  BY <1>1 DEF MarkedInv
<1> QED
  BY <1>2, <1>3, <1>4, <1>5, <1>6 DEF PagingInv

(* A frame that was just taken holds no table and belongs to no caller.    *)
LEMMA TakenFrameIsFree ==
  ASSUME CursorInv, OwnersInv, NEW f, TakesFrame(f)
  PROVE  /\ CursorInv' /\ f \in Nat /\ f \notin held /\ f \notin DOMAIN table
         /\ {handed'[i] : i \in DOMAIN handed'} = {handed[i] : i \in DOMAIN handed} \union {f}
<1>1. /\ CursorInv' /\ f \in Nat /\ \A i \in DOMAIN handed : handed[i] # f
      /\ handed' = Append(handed, f) /\ handed \in Seq(Nat)
  BY TakesFrameIsGood DEF CursorInv
<1>2. PICK r \in Regions : MemoryMap[r].usable /\ Whole(f, r)
  BY TakesFrameIsGood
<1>3. f \notin DOMAIN BootTables
  BY <1>2, LenType, PagingAssumption DEF Whole
<1>4. {handed'[i] : i \in DOMAIN handed'} = {handed[i] : i \in DOMAIN handed} \union {f}
  BY <1>1, AppendProps
<1> QED
  BY <1>1, <1>3, <1>4 DEF OwnersInv

LEMMA AllocateFramePreservesInv ==
  ASSUME PagingInv, AllocateFrame
  PROVE  PagingInv'
<1>1. /\ CursorInv /\ OwnersInv /\ IsTree(table) /\ IsClear(table)
      /\ MarkedInv /\ call = NoCall
      /\ table' = table /\ call' = call /\ marked' = marked
  BY DEF PagingInv, AllocateFrame
<1>2. CursorInv' /\ OwnersInv'
  <2>1. CASE \E f \in FrameNumbers : TakesFrame(f) /\ held' = held \union {f}
    <3>1. PICK f : TakesFrame(f) /\ held' = held \union {f}
      BY <2>1
    <3> QED
      BY <1>1, <3>1, TakenFrameIsFree DEF OwnersInv, TablesArePrivate
  <2>2. CASE FindsNoFrame /\ UNCHANGED held
    BY <1>1, <2>2, FindsNoFrameIsGood DEF OwnersInv, TablesArePrivate, FindsNoFrame
  <2> QED
    BY <2>1, <2>2 DEF AllocateFrame
<1>3. WalkInv' /\ MarkedInv'
  BY <1>1 DEF WalkInv, InCall, MarkedInv
<1> QED
  BY <1>1, <1>2, <1>3 DEF PagingInv

LEMMA MapStartsPreservesInv ==
  ASSUME PagingInv, NEW v \in MappedPages, NEW f \in held, MapStarts(v, f)
  PROVE  PagingInv'
<1>1. /\ call' = [page |-> v, frame |-> f, at |-> Root, level |-> Levels]
      /\ UNCHANGED <<next_region, next_frame, handed, held, table, marked>>
      /\ IsTree(table) /\ ~marked
  BY DEF MapStarts, PagingInv
<1>2. Root \in DOMAIN table /\ table[Root].way = <<>>
  BY <1>1 DEF IsTree
<1>3. Prefix(v, 0) = <<>>
  BY PagingAssumption, PrefixProperties DEF Levels
<1>4. WalkInv'
  <2>1. /\ call'.page = v /\ call'.frame = f /\ call'.at = Root /\ call'.level = 4
        /\ call' \in [page : MappedPages, frame : held, at : DOMAIN table, level : 1 .. 4]
    BY <1>1, <1>2 DEF Levels
  <2>2. Prefix(call'.page, 4 - call'.level) = <<>>
    BY <1>3, <2>1
  <2> QED
    BY <1>1, <1>2, <2>1, <2>2 DEF WalkInv
<1>5. CursorInv' /\ OwnersInv' /\ MarkedInv'
  BY <1>1 DEF PagingInv, CursorInv, OwnersInv, TablesArePrivate, MarkedInv
<1> QED
  BY <1>1, <1>4, <1>5 DEF PagingInv

(* The call in progress, and the entry it looks at.                        *)
LEMMA CallProperties ==
  ASSUME PagingInv, InCall
  PROVE  /\ call.page \in MappedPages /\ call.page \in Pages /\ call.frame \in held
         /\ call.at \in DOMAIN table /\ call.level \in 1 .. 4
         /\ table[call.at].way = Prefix(call.page, 4 - call.level)
         /\ Len(table[call.at].way) = 4 - call.level
         /\ IndexAt(call.page, call.level) \in Index
         /\ EntryReached \in Entry
         /\ call \in [page : MappedPages, frame : held, at : DOMAIN table, level : 1 .. 4]
<1>1. /\ call \in [page : MappedPages, frame : held, at : DOMAIN table, level : 1 .. 4]
      /\ table[call.at].way = Prefix(call.page, 4 - call.level)
      /\ IsTree(table)
  BY DEF PagingInv, WalkInv
<1>2. /\ call.page \in MappedPages /\ call.page \in Pages /\ call.frame \in held
      /\ call.at \in DOMAIN table /\ call.level \in 1 .. 4
  BY <1>1, PagingAssumption
<1>3. 4 - call.level \in 0 .. Levels - 1
  BY <1>2 DEF Levels
<1>4. Len(table[call.at].way) = 4 - call.level
  BY <1>1, <1>2, <1>3, PrefixProperties
<1>5. IndexAt(call.page, call.level) \in Index
  BY <1>2 DEF IndexAt, Pages, Levels
<1>6. EntryReached \in Entry
  BY <1>1, <1>2, <1>5 DEF EntryReached, IsTree, Tables
<1> QED
  BY <1>1, <1>2, <1>4, <1>5, <1>6

(* The entry on the way leads to the next table.                           *)
LEMMA DescentProperties ==
  ASSUME PagingInv, MapDescends
  PROVE  /\ Leads(EntryReached)
         /\ table[EntryReached.addr].way = Prefix(call.page, 4 - (call.level - 1))
         /\ call'.page = call.page /\ call'.at = EntryReached.addr
         /\ call'.level = call.level - 1
         /\ call' \in [page : MappedPages, frame : held, at : DOMAIN table, level : 1 .. 4]
<1> DEFINE e == EntryReached
           v == call.page
<1>1. /\ InCall /\ call.level > 1 /\ e # Unused
      /\ call' = [call EXCEPT !.at = e.addr, !.level = @ - 1]
      /\ UNCHANGED <<next_region, next_frame, handed, held, table, marked>>
      /\ IsTree(table) /\ IsClear(table) /\ ~marked
  BY DEF MapDescends, PagingInv, WalkInv
<1>2. /\ v \in MappedPages /\ v \in Pages /\ call.frame \in held
      /\ call.at \in DOMAIN table /\ call.level \in 2 .. 4
      /\ table[call.at].way = Prefix(v, 4 - call.level)
      /\ Len(table[call.at].way) = 4 - call.level
      /\ IndexAt(v, call.level) \in Index /\ e \in Entry
      /\ call \in [page : MappedPages, frame : held, at : DOMAIN table, level : 1 .. 4]
  BY <1>1, CallProperties
<1>3. IndexAt(v, call.level) = v[(4 - call.level) + 1]
  BY <1>2 DEF IndexAt, Levels
<1>4. Leads(e)
  <2>1. 4 - call.level \in 0 .. Levels - 2
    BY <1>2 DEF Levels
  <2>2. ~e.huge
    BY <1>1, <1>2, <1>3, <2>1 DEF IsClear, EntryReached
  <2> QED
    BY <1>1, <2>2 DEF Leads
<1>5. e.addr \in DOMAIN table /\ table[e.addr].way = Append(table[call.at].way, v[(4 - call.level) + 1])
  <2>1. Len(table[call.at].way) < Levels - 1
    BY <1>2 DEF Levels
  <2>2. e = table[call.at].entry[v[(4 - call.level) + 1]]
    BY <1>3 DEF EntryReached
  <2>3. v[(4 - call.level) + 1] \in Index
    BY <1>2, <1>3
  <2> HIDE DEF e
  <2> QED
    BY <1>1, <1>2, <1>4, <2>1, <2>2, <2>3 DEF IsTree
<1>6. Append(table[call.at].way, v[(4 - call.level) + 1]) = Prefix(v, 4 - (call.level - 1))
  <2>1. 4 - call.level \in 0 .. Levels - 1 /\ (4 - call.level) + 1 = 4 - (call.level - 1)
    BY <1>2 DEF Levels
  <2> QED
    BY <1>2, <2>1, PrefixProperties
<1>7. /\ call'.page = v /\ call'.at = e.addr /\ call'.level = call.level - 1
      /\ call' \in [page : MappedPages, frame : held, at : DOMAIN table, level : 1 .. 4]
  <2>1. call.level - 1 \in 1 .. 4
    BY <1>2
  <2> HIDE DEF e
  <2>2. call' = [page |-> v, frame |-> call.frame, at |-> e.addr, level |-> call.level - 1]
    BY <1>1, <1>2
  <2> QED
    BY <1>2, <1>5, <2>1, <2>2
<1> QED
  BY <1>4, <1>5, <1>6, <1>7

LEMMA MapDescendsPreservesInv ==
  ASSUME PagingInv, MapDescends
  PROVE  PagingInv'
<1> DEFINE e == EntryReached
           v == call.page
<1>1. /\ InCall /\ call.level > 1 /\ e # Unused
      /\ call' = [call EXCEPT !.at = e.addr, !.level = @ - 1]
      /\ UNCHANGED <<next_region, next_frame, handed, held, table, marked>>
      /\ IsTree(table) /\ IsClear(table) /\ ~marked
  BY DEF MapDescends, PagingInv, WalkInv
<1>2. /\ v \in MappedPages /\ v \in Pages /\ call.frame \in held
      /\ call.at \in DOMAIN table /\ call.level \in 2 .. 4
      /\ table[call.at].way = Prefix(v, 4 - call.level)
      /\ Len(table[call.at].way) = 4 - call.level
      /\ IndexAt(v, call.level) \in Index /\ e \in Entry
      /\ call \in [page : MappedPages, frame : held, at : DOMAIN table, level : 1 .. 4]
  BY <1>1, CallProperties
<1>3. IndexAt(v, call.level) = v[(4 - call.level) + 1]
  BY <1>2 DEF IndexAt, Levels
<1>4. /\ Leads(e) /\ call'.page = v /\ call'.at = e.addr
      /\ call'.level = call.level - 1
      /\ table[e.addr].way = Prefix(v, 4 - (call.level - 1))
      /\ call' \in [page : MappedPages, frame : held, at : DOMAIN table, level : 1 .. 4]
  BY DescentProperties
<1>5. /\ call.level = 4 => e = Entry4(table, v)
      /\ call.level = 3 => e = Entry3(table, v)
      /\ call.level = 2 => e = Entry2(table, v)
  <2>1. WalkInv
    BY DEF PagingInv
  <2>2. CASE call.level = 4
    BY <1>1, <1>2, <1>3, <2>1, <2>2 DEF WalkInv, EntryReached, Entry4
  <2>3. CASE call.level = 3
    BY <1>1, <1>2, <1>3, <2>1, <2>3 DEF WalkInv, EntryReached, Entry3, Down
  <2>4. CASE call.level = 2
    BY <1>1, <1>2, <1>3, <2>1, <2>4 DEF WalkInv, EntryReached, Entry2, Down
  <2> QED
    BY <1>2, <2>2, <2>3, <2>4
<1>6. WalkInv'
  <2> HIDE DEF e, v
  <2> QED
    <3>1. table'[call'.at].way = Prefix(call'.page, 4 - call'.level)
      BY <1>1, <1>4
    <3>2. /\ call'.level = 1 => Leads(Entry2(table', v)) /\ Entry2(table', v).addr = call'.at
          /\ call'.level = 2 => Leads(Entry3(table', v)) /\ Entry3(table', v).addr = call'.at
          /\ call'.level = 3 => Leads(Entry4(table', v)) /\ Entry4(table', v).addr = call'.at
          /\ call'.level # 4
      BY <1>1, <1>2, <1>4, <1>5
    <3> QED
      BY <1>1, <1>4, <3>1, <3>2 DEF WalkInv
<1>7. CursorInv' /\ OwnersInv' /\ MarkedInv'
  BY <1>1 DEF PagingInv, CursorInv, OwnersInv, TablesArePrivate, MarkedInv
<1> QED
  BY <1>1, <1>6, <1>7 DEF PagingInv

(* What linking a new table does to the tables.                            *)
LEMMA LinkProperties ==
  ASSUME PagingInv, NEW f, TakesFrame(f), InCall, call.level > 1,
         EntryReached = Unused,
         LET i == IndexAt(call.page, call.level)
             way == Append(table[call.at].way, i)
             linked == SetEntry(call.at, i, Link(f))
         IN  table' = [t \in DOMAIN table \union {f} |->
                         IF t = f THEN ZeroedTable(way) ELSE linked[t]]
  PROVE  LET i == IndexAt(call.page, call.level) IN
         /\ DOMAIN table' = DOMAIN table \union {f}
         /\ f \in Nat /\ f \notin DOMAIN table
         /\ i \in Index /\ call.at \in DOMAIN table
         /\ table[call.at].entry[i] = Unused
         /\ Len(table[call.at].way) < Levels - 1
         /\ table'[f].way = Append(table[call.at].way, i)
         /\ \A j \in Index : table'[f].entry[j] = Unused
         /\ \A u \in DOMAIN table : table'[u].way = table[u].way
         /\ \A u \in DOMAIN table, j \in Index :
              table'[u].entry[j] =
                IF u = call.at /\ j = i THEN Link(f) ELSE table[u].entry[j]
         /\ \A u \in DOMAIN table' : table'[u] \in Tables /\ Len(table'[u].way) < Levels
<1> DEFINE i == IndexAt(call.page, call.level)
           way == Append(table[call.at].way, i)
<1>1. /\ call.at \in DOMAIN table /\ i \in Index /\ call.level \in 1 .. 4
      /\ Len(table[call.at].way) = 4 - call.level
      /\ IsTree(table) /\ CursorInv /\ OwnersInv
  BY CallProperties DEF PagingInv
<1>2. f \in Nat /\ f \notin DOMAIN table
  BY <1>1, TakenFrameIsFree
<1>3. table[call.at].entry[i] = Unused
  BY DEF EntryReached
<1>4. Len(table[call.at].way) < Levels - 1
  BY <1>1 DEF Levels
<1>5. \A u \in DOMAIN table : /\ table[u].way \in Seq(Index)
                              /\ table[u].entry \in [Index -> Entry]
                              /\ Len(table[u].way) < Levels
  BY <1>1 DEF IsTree, Tables
<1> HIDE DEF i
<1>6. /\ way \in Seq(Index) /\ Len(way) < Levels
  BY <1>1, <1>4, <1>5 DEF Levels
<1>7. DOMAIN table' = DOMAIN table \union {f}
  OBVIOUS
<1>8. table'[f] = MakeTable(way, [j \in Index |-> Unused])
  BY DEF ZeroedTable, i
<1>9. \A u \in DOMAIN table :
        table'[u] = IF u = call.at
                      THEN MakeTable(table[u].way, [table[u].entry EXCEPT ![i] = Link(f)])
                      ELSE table[u]
  BY <1>2 DEF SetEntry, i
<1> HIDE DEF way
<1>10. /\ table'[f].way = way /\ table'[f] \in Tables
       /\ \A j \in Index : table'[f].entry[j] = Unused
  BY <1>6, <1>8, EntryProperties DEF MakeTable, Tables
<1>11. ASSUME NEW u \in DOMAIN table
       PROVE  /\ table'[u].way = table[u].way /\ table'[u] \in Tables
              /\ \A j \in Index : table'[u].entry[j] =
                   IF u = call.at /\ j = i THEN Link(f) ELSE table[u].entry[j]
  <2>1. CASE u = call.at
    <3>1. [table[u].entry EXCEPT ![i] = Link(f)] \in [Index -> Entry]
      BY <1>2, <1>5, EntryProperties
    <3> DEFINE g == [table[u].entry EXCEPT ![i] = Link(f)]
    <3>2. \A j \in Index : g[j] = IF j = i THEN Link(f) ELSE table[u].entry[j]
      BY <1>1, <1>5
    <3> HIDE DEF g
    <3>3. table'[u] = [way |-> table[u].way, entry |-> g]
      BY <1>9, <2>1 DEF g, MakeTable
    <3> QED
      BY <1>5, <2>1, <3>1, <3>2, <3>3 DEF g, Tables
  <2>2. CASE u # call.at
    BY <1>1, <1>9, <2>2 DEF IsTree
  <2> QED
    BY <2>1, <2>2
<1> QED
  BY <1>1, <1>2, <1>3, <1>4, <1>5, <1>6, <1>7, <1>10, <1>11 DEF i, way

LEMMA MapLinksPreservesInv ==
  ASSUME PagingInv, MapLinks
  PROVE  PagingInv'
<1> DEFINE i == IndexAt(call.page, call.level)
           v == call.page
<1>1. PICK f :
        /\ TakesFrame(f)
        /\ LET j == IndexAt(call.page, call.level)
               way == Append(table[call.at].way, j)
               linked == SetEntry(call.at, j, Link(f))
           IN  table' = [t \in DOMAIN table \union {f} |->
                           IF t = f THEN ZeroedTable(way) ELSE linked[t]]
  BY DEF MapLinks
<1>2. /\ InCall /\ call.level > 1 /\ EntryReached = Unused
      /\ held' = held /\ call' = call /\ marked' = marked
      /\ CursorInv /\ OwnersInv /\ IsTree(table) /\ IsClear(table)
      /\ WalkInv /\ ~marked /\ MarkedInv
  BY DEF MapLinks, PagingInv, WalkInv
<1>3. /\ DOMAIN table' = DOMAIN table \union {f}
      /\ f \in Nat /\ f \notin DOMAIN table
      /\ i \in Index /\ call.at \in DOMAIN table
      /\ table[call.at].entry[i] = Unused
      /\ Len(table[call.at].way) < Levels - 1
      /\ table'[f].way = Append(table[call.at].way, i)
      /\ \A j \in Index : table'[f].entry[j] = Unused
      /\ \A u \in DOMAIN table : table'[u].way = table[u].way
      /\ \A u \in DOMAIN table, j \in Index :
           table'[u].entry[j] =
             IF u = call.at /\ j = i THEN Link(f) ELSE table[u].entry[j]
      /\ \A u \in DOMAIN table' : table'[u] \in Tables /\ Len(table'[u].way) < Levels
  BY <1>1, <1>2, LinkProperties
<1> HIDE DEF i
<1>4. CursorInv' /\ OwnersInv'
  <2>1. /\ CursorInv' /\ f \notin held
        /\ {handed'[k] : k \in DOMAIN handed'}
             = {handed[k] : k \in DOMAIN handed} \union {f}
    BY <1>1, <1>2, TakenFrameIsFree
  <2>2. /\ held' \subseteq {handed'[k] : k \in DOMAIN handed'}
        /\ DOMAIN table' \subseteq
             DOMAIN BootTables \union {handed'[k] : k \in DOMAIN handed'}
    BY <1>2, <1>3, <2>1 DEF OwnersInv
  <2>3. TablesArePrivate'
    BY <1>2, <1>3, <2>1 DEF OwnersInv, TablesArePrivate
  <2> QED
    BY <2>1, <2>2, <2>3 DEF OwnersInv
<1>5. IsTree(table')
  <2>1. Root \in DOMAIN table' /\ table'[Root].way = <<>>
    BY <1>2, <1>3 DEF IsTree
  <2>2. ASSUME NEW t \in DOMAIN table', NEW j \in Index,
               Len(table'[t].way) < Levels - 1, Leads(table'[t].entry[j])
        PROVE  /\ table'[t].entry[j].addr \in DOMAIN table'
               /\ table'[table'[t].entry[j].addr].way = Append(table'[t].way, j)
    <3>1. t # f
      BY <1>3, <2>2, EntryProperties
    <3>2. CASE t = call.at /\ j = i
      BY <1>3, <3>1, <3>2, EntryProperties, ZenonT(40)
    <3>3. CASE ~(t = call.at /\ j = i)
      <4>1. /\ t \in DOMAIN table /\ table'[t].entry[j] = table[t].entry[j]
            /\ table'[t].way = table[t].way
        BY <1>3, <3>1, <3>3
      <4>2. /\ table[t].entry[j].addr \in DOMAIN table
            /\ table[table[t].entry[j].addr].way = Append(table[t].way, j)
        BY <1>2, <2>2, <4>1 DEF IsTree
      <4> QED
        BY <1>3, <4>1, <4>2
    <3> QED
      BY <3>2, <3>3
  <2> QED
    BY <1>3, <2>1, <2>2 DEF IsTree
<1>6. IsClear(table')
  <2> SUFFICES ASSUME NEW w \in MappedPages, NEW t \in DOMAIN table',
                      NEW n \in 0 .. Levels - 2, table'[t].way = Prefix(w, n)
               PROVE  ~table'[t].entry[w[n + 1]].huge
    BY DEF IsClear
  <2>1. w[n + 1] \in Index
    BY PagingAssumption DEF Pages, Levels
  <2>2. CASE t = f
    BY <1>3, <2>1, <2>2, EntryProperties
  <2>3. CASE t # f
    <3>1. t \in DOMAIN table /\ table[t].way = Prefix(w, n)
      BY <1>3, <2>3
    <3>2. ~table[t].entry[w[n + 1]].huge
      BY <1>2, <3>1 DEF IsClear
    <3> QED
      BY <1>3, <2>1, <3>1, <3>2, EntryProperties
  <2> QED
    BY <2>2, <2>3
<1>7. WalkInv'
  <2>1. /\ v \in Pages /\ call.at \in DOMAIN table'
        /\ call \in [page : MappedPages, frame : held, at : DOMAIN table, level : 1 .. 4]
    BY <1>2, <1>3, CallProperties
  <2>2. call \in [page : MappedPages, frame : held, at : DOMAIN table', level : 1 .. 4]
    BY <1>3, <2>1
  <2>3. /\ Leads(Entry4(table, v)) => Entry4(table', v) = Entry4(table, v)
        /\ Leads(Entry3(table, v)) => Entry3(table', v) = Entry3(table, v)
        /\ Leads(Entry2(table, v)) => Entry2(table', v) = Entry2(table, v)
    BY <1>2, <1>3, <2>1, LinkKeepsTranslations
  <2>4. table'[call.at].way = Prefix(v, 4 - call.level)
    BY <1>2, <1>3 DEF WalkInv
  <2> QED
    BY <1>2, <2>2, <2>3, <2>4 DEF WalkInv, InCall
<1>8. MarkedInv'
  BY <1>2 DEF MarkedInv
<1> QED
  BY <1>4, <1>5, <1>6, <1>7, <1>8 DEF PagingInv

LEMMA MapFailsPreservesInv ==
  ASSUME PagingInv, MapFails
  PROVE  PagingInv'
<1>1. /\ FindsNoFrame /\ call' = NoCall
      /\ UNCHANGED <<held, table, marked, handed>>
      /\ CursorInv /\ OwnersInv /\ IsTree(table) /\ IsClear(table) /\ MarkedInv
  BY DEF MapFails, PagingInv, FindsNoFrame
<1> QED
  BY <1>1, FindsNoFrameIsGood
  DEF PagingInv, OwnersInv, TablesArePrivate, WalkInv, InCall, MarkedInv

(* What the last step of a call does to the tables.                        *)
LEMMA SetProperties ==
  ASSUME PagingInv, MapSets
  PROVE  /\ call.page \in Pages /\ call.at \in DOMAIN table /\ call.frame \in Nat
         /\ table[call.at].way = Prefix(call.page, 3)
         /\ Len(table[call.at].way) = 3
         /\ Leads(Entry2(table, call.page))
         /\ Entry2(table, call.page).addr = call.at
         /\ DOMAIN table' = DOMAIN table
         /\ \A u \in DOMAIN table : table'[u].way = table[u].way /\ table'[u] \in Tables
         /\ \A u \in DOMAIN table, j \in Index :
              table'[u].entry[j] = IF u = call.at /\ j = call.page[4]
                                     THEN Leaf(call.frame) ELSE table[u].entry[j]
<1> DEFINE v == call.page
           t == call.at
           g == [table[t].entry EXCEPT ![v[4]] = Leaf(call.frame)]
<1>1. /\ InCall /\ call.level = 1 /\ IsTree(table) /\ CursorInv /\ OwnersInv /\ WalkInv
      /\ table' = SetEntry(t, IndexAt(v, 1), Leaf(call.frame))
  BY DEF MapSets, PagingInv
<1>2. /\ v \in Pages /\ t \in DOMAIN table /\ call.frame \in held
      /\ table[t].way = Prefix(v, 3) /\ Len(table[t].way) = 3
  <2>1. 4 - call.level = 3
    BY <1>1
  <2> QED
    BY <1>1, <2>1, CallProperties
<1>3. Leads(Entry2(table, v)) /\ Entry2(table, v).addr = t
  BY <1>1 DEF WalkInv
<1>4. call.frame \in Nat
  BY <1>1, <1>2 DEF OwnersInv, CursorInv
<1>5. IndexAt(v, 1) = v[4]
  BY DEF IndexAt, Levels
<1>6. \A u \in DOMAIN table : /\ table[u].way \in Seq(Index) /\ table[u] \in Tables
                              /\ table[u].entry \in [Index -> Entry]
  BY <1>1 DEF IsTree, Tables
<1>7. /\ g \in [Index -> Entry]
      /\ \A j \in Index : g[j] = IF j = v[4] THEN Leaf(call.frame) ELSE table[t].entry[j]
  BY <1>2, <1>4, <1>6, EntryProperties, IndexTypes
<1> HIDE DEF g
<1>8. DOMAIN table' = DOMAIN table
  BY <1>1 DEF SetEntry
<1>9. \A u \in DOMAIN table :
        table'[u] = IF u = t THEN [way |-> table[u].way, entry |-> g] ELSE table[u]
  BY <1>1, <1>5 DEF SetEntry, MakeTable, g
<1>9a. table'[t].way = table[t].way /\ table'[t].entry = g
  <2>1. table'[t] = [way |-> table[t].way, entry |-> g]
    BY <1>2, <1>9
  <2> QED
    BY <2>1
<1>9b. [way |-> table[t].way, entry |-> g] \in Tables
  BY <1>2, <1>6, <1>7 DEF Tables
<1>9c. \A u \in DOMAIN table : u # t => table'[u] = table[u]
  BY <1>9
<1>10. \A u \in DOMAIN table : table'[u].way = table[u].way /\ table'[u] \in Tables
  BY <1>2, <1>6, <1>9, <1>9a, <1>9b, <1>9c
<1>11. \A u \in DOMAIN table, j \in Index :
         table'[u].entry[j] = IF u = t /\ j = v[4] THEN Leaf(call.frame)
                                                   ELSE table[u].entry[j]
  BY <1>7, <1>9a, <1>9c
<1> QED
  BY <1>2, <1>3, <1>4, <1>8, <1>10, <1>11

LEMMA MapSetsPreservesInv ==
  ASSUME PagingInv, MapSets
  PROVE  PagingInv'
<1>1. /\ UNCHANGED <<next_region, next_frame, handed, held, marked>>
      /\ call' = NoCall
      /\ CursorInv /\ OwnersInv /\ IsTree(table) /\ IsClear(table) /\ MarkedInv /\ ~marked
  BY DEF MapSets, PagingInv, WalkInv
<1>2. IsTree(table')
  <2>1. ASSUME NEW t \in DOMAIN table', NEW j \in Index,
               Len(table'[t].way) < Levels - 1, Leads(table'[t].entry[j])
        PROVE  /\ table'[t].entry[j].addr \in DOMAIN table'
               /\ table'[table'[t].entry[j].addr].way = Append(table'[t].way, j)
    <3>1. t \in DOMAIN table /\ table'[t].way = table[t].way
      BY SetProperties
    <3>2. t # call.at
      <4> SUFFICES ASSUME t = call.at PROVE FALSE
        OBVIOUS
      <4>1. Len(table[t].way) = 3
        BY SetProperties
      <4>2. Len(table[t].way) < 3
        BY <2>1, <3>1 DEF Levels
      <4> QED
        BY <4>1, <4>2
    <3>3. table'[t].entry[j] = table[t].entry[j]
      BY <3>1, <3>2, SetProperties
    <3>4. /\ table[t].entry[j].addr \in DOMAIN table
          /\ table[table[t].entry[j].addr].way = Append(table[t].way, j)
      BY <1>1, <2>1, <3>1, <3>3 DEF IsTree
    <3> QED
      BY <3>1, <3>3, <3>4, SetProperties
  <2>2. \A t \in DOMAIN table' : table'[t] \in Tables /\ Len(table'[t].way) < Levels
    BY <1>1, SetProperties DEF IsTree
  <2>3. Root \in DOMAIN table' /\ table'[Root].way = <<>>
    BY <1>1, SetProperties DEF IsTree
  <2> QED
    BY <2>1, <2>2, <2>3 DEF IsTree
<1>3. IsClear(table')
  <2> SUFFICES ASSUME NEW w \in MappedPages, NEW t \in DOMAIN table',
                      NEW n \in 0 .. Levels - 2, table'[t].way = Prefix(w, n)
               PROVE  ~table'[t].entry[w[n + 1]].huge
    BY DEF IsClear
  <2>1. w[n + 1] \in Index
    BY PagingAssumption DEF Pages, Levels
  <2>2. t \in DOMAIN table /\ table[t].way = Prefix(w, n)
    BY SetProperties
  <2>3. ~table[t].entry[w[n + 1]].huge
    BY <1>1, <2>2 DEF IsClear
  <2> QED
    BY <2>1, <2>2, <2>3, SetProperties, EntryProperties
<1>4. CursorInv' /\ OwnersInv' /\ WalkInv' /\ MarkedInv'
  BY <1>1, SetProperties, SMTT(20)
  DEF CursorInv, OwnersInv, TablesArePrivate, WalkInv, InCall, MarkedInv
<1> QED
  BY <1>2, <1>3, <1>4 DEF PagingInv

(* Entry d is e but for the flag.                                          *)
Alike(d, e) ==
  /\ d \in Entry /\ e \in Entry
  /\ d.addr = e.addr /\ d.present = e.present /\ d.huge = e.huge
  /\ Leads(d) <=> Leads(e)

LEMMA MarkedProperties ==
  ASSUME NEW e \in Entry, e.present
  PROVE  LET d == [e EXCEPT !.user = TRUE] IN Alike(d, e) /\ d.user
<1> DEFINE d == [e EXCEPT !.user = TRUE]
<1>1. e \in [addr : Nat, present : {TRUE}, user : BOOLEAN, huge : BOOLEAN]
  BY EntryProperties DEF Entry
<1>2. /\ d \in [addr : Nat, present : {TRUE}, user : BOOLEAN, huge : BOOLEAN]
      /\ d.addr = e.addr /\ d.present = e.present /\ d.huge = e.huge /\ d.user = TRUE
  BY <1>1
<1>3. d.present /\ d \in Entry
  BY <1>2 DEF Entry
<1>4. e # Unused /\ d # Unused
  BY <1>3, EntryProperties
<1> HIDE DEF d
<1> QED
  BY <1>2, <1>3, <1>4 DEF Alike, Leads, d

(* Marking changes no entry but for the flag, which it sets in the entries *)
(* of the tables walked. *)
LEMMA MarkAllProperties ==
  ASSUME PagingInv, MarkAllUserAccessible
  PROVE  /\ DOMAIN table' = DOMAIN table
         /\ \A u \in DOMAIN table : table'[u].way = table[u].way /\ table'[u] \in Tables
         /\ \A u \in DOMAIN table, j \in Index :
              /\ Alike(table'[u].entry[j], table[u].entry[j])
              /\ u \in Walked /\ table[u].entry[j].present => table'[u].entry[j].user
<1>1. IsTree(table)
  BY DEF PagingInv
<1>2. \A u \in DOMAIN table :
        /\ table[u].way \in Seq(Index) /\ table[u].entry \in [Index -> Entry]
        /\ \A j \in Index : table[u].entry[j] \in Entry
  BY <1>1 DEF IsTree, Tables
<1> DEFINE New(u, i) == IF u \in Walked /\ i \in Visited(u)
                          THEN [table[u].entry[i] EXCEPT !.user = TRUE]
                          ELSE table[u].entry[i]
<1>3. /\ DOMAIN table' = DOMAIN table
      /\ \A u \in DOMAIN table :
           table'[u] = [way |-> table[u].way, entry |-> [i \in Index |-> New(u, i)]]
  BY DEF MarkAllUserAccessible, MakeTable
<1>4. ASSUME NEW u \in DOMAIN table, NEW j \in Index
      PROVE  /\ Alike(New(u, j), table[u].entry[j])
             /\ u \in Walked /\ table[u].entry[j].present => New(u, j).user
  <2>1. table[u].entry[j] \in Entry
    BY <1>2
  <2>2. CASE u \in Walked /\ j \in Visited(u)
    <3>1. table[u].entry[j].present
      BY <2>2 DEF Visited
    <3> QED
      BY <2>1, <2>2, <3>1, MarkedProperties
  <2>3. CASE ~(u \in Walked /\ j \in Visited(u))
    <3>1. ~(u \in Walked /\ table[u].entry[j].present)
      BY <2>3 DEF Visited
    <3>2. New(u, j) = table[u].entry[j]
      BY <2>3
    <3> QED
      BY <2>1, <3>1, <3>2 DEF Alike
  <2> QED
    BY <2>2, <2>3
<1>5. ASSUME NEW u \in DOMAIN table
      PROVE  /\ table'[u].way = table[u].way /\ table'[u] \in Tables
             /\ \A j \in Index : table'[u].entry[j] = New(u, j)
  <2> HIDE DEF New
  <2> DEFINE g == [i \in Index |-> New(u, i)]
  <2>1. g \in [Index -> Entry] /\ \A j \in Index : g[j] = New(u, j)
    BY <1>4 DEF Alike
  <2>2. table'[u] = [way |-> table[u].way, entry |-> g]
    BY <1>3
  <2> HIDE DEF g
  <2> QED
    BY <1>2, <2>1, <2>2 DEF Tables
<1> HIDE DEF New
<1> QED
  BY <1>3, <1>4, <1>5

(* The processor never leaves the tables walked on its way to a page.      *)
LEMMA WayIsWalked ==
  ASSUME IsTree(table), NEW v \in Pages
  PROVE  /\ Root \in Walked
         /\ Leads(Entry4(table, v)) => Entry4(table, v).addr \in Walked
         /\ Leads(Entry3(table, v)) => Entry3(table, v).addr \in Walked
         /\ Leads(Entry2(table, v)) => Entry2(table, v).addr \in Walked
<1> DEFINE level3 == Beneath({Root})
           level2 == Beneath(level3)
           level1 == Beneath(level2)
<1>1. Walked = {Root} \union level3 \union level2 \union level1
  BY DEF Walked
<1>2. ASSUME NEW S, NEW t \in S, NEW i \in Index,
             table[t].entry[i] \in Entry, Leads(table[t].entry[i])
      PROVE  table[t].entry[i].addr \in Beneath(S)
  <2>1. table[t].entry[i].present /\ ~table[t].entry[i].huge
    BY <1>2, EntryProperties DEF Leads
  <2> QED
    BY <2>1 DEF Beneath, Visited
<1>3. /\ Entry4(table, v) \in Entry /\ Entry3(table, v) \in Entry /\ Entry2(table, v) \in Entry
      /\ Leads(Entry3(table, v)) => Leads(Entry4(table, v))
      /\ Leads(Entry2(table, v)) => Leads(Entry3(table, v))
  BY WalkProperties
<1>4. Leads(Entry4(table, v)) => Entry4(table, v).addr \in level3
  BY <1>2, <1>3, IndexTypes DEF Entry4
<1>5. Leads(Entry3(table, v)) => Entry3(table, v).addr \in level2
  <2> HIDE DEF level3
  <2> QED
    BY <1>2, <1>3, <1>4, IndexTypes DEF Entry3, Down
<1>6. Leads(Entry2(table, v)) => Entry2(table, v).addr \in level1
  <2> HIDE DEF level2
  <2> QED
    BY <1>2, <1>3, <1>5, IndexTypes DEF Entry2, Down
<1> HIDE DEF level3, level2, level1
<1> QED
  BY <1>1, <1>4, <1>5, <1>6

(* Marked or not, the tables translate alike, and the entries on the way   *)
(* to a page are marked if they are present.                               *)
LEMMA WayIsMarked ==
  ASSUME PagingInv, MarkAllUserAccessible, NEW v \in Pages
  PROVE  /\ Alike(Entry1(table', v), Entry1(table, v))
         /\ \A e \in {Entry4(table', v), Entry3(table', v), Entry2(table', v), Entry1(table', v)} :
              e.present => e.user
<1>1. IsTree(table) /\ Root \in DOMAIN table
  BY DEF PagingInv, IsTree
<1>2. ASSUME NEW t \in DOMAIN table, t \in Walked, NEW i \in Index
      PROVE  /\ Alike(table'[t].entry[i], table[t].entry[i])
             /\ table'[t].entry[i].present => table'[t].entry[i].user
  BY <1>2, MarkAllProperties DEF Alike
<1> DEFINE Good(d, e) == Alike(d, e) /\ (d.present => d.user)
<1>3. ASSUME NEW d, NEW e, NEW i \in Index, Good(d, e),
             Leads(e) => e.addr \in DOMAIN table /\ e.addr \in Walked
      PROVE  Good(Down(table', d, i), Down(table, e, i))
  BY <1>2, <1>3 DEF Down, Alike
<1> HIDE DEF Good
<1>4. Good(Entry4(table', v), Entry4(table, v))
  BY <1>1, <1>2, IndexTypes, WayIsWalked DEF Entry4, Good
<1>5. Good(Entry3(table', v), Entry3(table, v))
  BY <1>1, <1>3, <1>4, IndexTypes, WayIsWalked, WalkProperties DEF Entry3
<1>6. Good(Entry2(table', v), Entry2(table, v))
  BY <1>1, <1>3, <1>5, IndexTypes, WayIsWalked, WalkProperties DEF Entry2
<1>7. Good(Entry1(table', v), Entry1(table, v))
  BY <1>1, <1>3, <1>6, IndexTypes, WayIsWalked, WalkProperties DEF Entry1
<1> QED
  BY <1>4, <1>5, <1>6, <1>7 DEF Good

LEMMA MarkAllPreservesInv ==
  ASSUME PagingInv, MarkAllUserAccessible
  PROVE  PagingInv'
<1>1. /\ UNCHANGED <<next_region, next_frame, handed, held, call>>
      /\ call = NoCall /\ marked' = TRUE
      /\ CursorInv /\ OwnersInv /\ IsTree(table) /\ IsClear(table)
  BY DEF MarkAllUserAccessible, PagingInv
<1>2. IsTree(table')
  <2>1. Root \in DOMAIN table' /\ table'[Root].way = <<>>
    BY <1>1, MarkAllProperties DEF IsTree
  <2>2. \A t \in DOMAIN table' : table'[t] \in Tables /\ Len(table'[t].way) < Levels
    BY <1>1, MarkAllProperties DEF IsTree
  <2>3. ASSUME NEW t \in DOMAIN table', NEW j \in Index,
               Len(table'[t].way) < Levels - 1, Leads(table'[t].entry[j])
        PROVE  /\ table'[t].entry[j].addr \in DOMAIN table'
               /\ table'[table'[t].entry[j].addr].way = Append(table'[t].way, j)
    <3>1. /\ t \in DOMAIN table /\ table'[t].way = table[t].way
          /\ Alike(table'[t].entry[j], table[t].entry[j])
      BY MarkAllProperties
    <3>2. Leads(table[t].entry[j]) /\ table'[t].entry[j].addr = table[t].entry[j].addr
      BY <2>3, <3>1 DEF Alike
    <3>3. /\ table[t].entry[j].addr \in DOMAIN table
          /\ table[table[t].entry[j].addr].way = Append(table[t].way, j)
      BY <1>1, <2>3, <3>1, <3>2 DEF IsTree
    <3> QED
      BY <3>1, <3>2, <3>3, MarkAllProperties
  <2> QED
    BY <2>1, <2>2, <2>3 DEF IsTree
<1>3. IsClear(table')
  <2> SUFFICES ASSUME NEW w \in MappedPages, NEW t \in DOMAIN table',
                      NEW n \in 0 .. Levels - 2, table'[t].way = Prefix(w, n)
               PROVE  ~table'[t].entry[w[n + 1]].huge
    BY DEF IsClear
  <2>1. w[n + 1] \in Index
    BY PagingAssumption DEF Pages, Levels
  <2>2. /\ t \in DOMAIN table /\ table[t].way = Prefix(w, n)
        /\ Alike(table'[t].entry[w[n + 1]], table[t].entry[w[n + 1]])
    BY <2>1, MarkAllProperties
  <2>3. ~table[t].entry[w[n + 1]].huge
    BY <1>1, <2>2 DEF IsClear
  <2> QED
    BY <2>2, <2>3 DEF Alike
<1>4. MarkedInv'
  BY <1>1, WayIsMarked DEF MarkedInv
<1>5. CursorInv' /\ OwnersInv' /\ WalkInv'
  BY <1>1, MarkAllProperties
  DEF CursorInv, OwnersInv, TablesArePrivate, WalkInv, InCall
<1> QED
  BY <1>2, <1>3, <1>4, <1>5 DEF PagingInv

LEMMA NextInv == PagingInv /\ [PagingNext]_pagingVars => PagingInv'
<1> SUFFICES ASSUME PagingInv, [PagingNext]_pagingVars PROVE PagingInv'
  OBVIOUS
<1>1. CASE UNCHANGED pagingVars
  BY <1>1 DEF pagingVars, PagingInv, CursorInv, OwnersInv, TablesArePrivate,
              WalkInv, InCall, MarkedInv
<1> QED
  BY <1>1, AllocateFramePreservesInv, MapStartsPreservesInv,
     MapDescendsPreservesInv, MapLinksPreservesInv, MapFailsPreservesInv,
     MapSetsPreservesInv, MarkAllPreservesInv
  DEF PagingNext, BootGoesOn
-----------------------------------------------------------------------------
(***************************************************************************)
(* The theorems: for any memory map, boot tables and pages.                *)
(***************************************************************************)

(* paging.rs: the cursor stays in the memory map, the tables stay a tree,  *)
(* and map_page is always at the table on the way to its page. *)
THEOREM PagingTypes == PagingSpec => []PagingTypeOK
<1>1. ASSUME PagingInv PROVE PagingTypeOK
  <2>1. /\ next_region \in 1 .. Len(MemoryMap) + 1 /\ next_frame \in Nat
        /\ handed \in Seq(Nat) /\ held \subseteq {handed[i] : i \in DOMAIN handed}
        /\ IsTree(table) /\ IsClear(table) /\ marked \in BOOLEAN
    BY <1>1 DEF PagingInv, CursorInv, OwnersInv, MarkedInv
  <2>2. InCall => /\ call.page \in MappedPages /\ call.frame \in held
                  /\ call.level \in 1 .. Levels /\ call.at \in DOMAIN table
                  /\ table[call.at].way = Prefix(call.page, Levels - call.level)
    BY <1>1, CallProperties DEF Levels
  <2> QED
    BY <2>1, <2>2 DEF PagingTypeOK
<1> QED
  BY <1>1, InitInv, NextInv, PTL DEF PagingSpec

(* allocate_frame: no frame is handed out twice, and none reaches beyond a *)
(* usable region. *)
THEOREM FramesStayGood == PagingSpec => []FramesAreGood
<1>1. ASSUME PagingInv PROVE FramesAreGood
  <2>1. /\ handed \in Seq(Nat)
        /\ \A i, j \in DOMAIN handed : i # j => handed[i] # handed[j]
    BY <1>1 DEF PagingInv, CursorInv
  <2>2. ASSUME NEW i \in DOMAIN handed
        PROVE  \E r \in DOMAIN MemoryMap :
                 MemoryMap[r].usable /\ InRegion(handed[i], r)
    <3>1. PICK r \in Regions : MemoryMap[r].usable /\ Whole(handed[i], r)
      BY <1>1 DEF PagingInv, CursorInv
    <3>2. handed[i] \in Int
      BY <2>1
    <3> QED
      BY <3>1, <3>2, RegionProperties, LenType
  <2> QED
    BY <2>1, <2>2 DEF FramesAreGood
<1> QED
  BY <1>1, InitInv, NextInv, PTL DEF PagingSpec

(* allocate_frame: it fails only when every whole usable frame is in use.  *)
THEOREM NoFrameIsForgotten == PagingSpec => []NoFrameForgotten
<1>1. ASSUME PagingInv, OutOfFrames, NEW r \in DOMAIN MemoryMap,
             MemoryMap[r].usable, NEW f \in FirstFrame(r) .. EndFrame(r) - 1
      PROVE  \E i \in DOMAIN handed : handed[i] = f
  <2>1. /\ CursorInv /\ r \in Regions /\ Whole(f, r) /\ f \in Nat
    BY <1>1, LenType, RegionProperties DEF PagingInv, Whole
  <2>2. Behind(f, r, next_region, next_frame)
    BY <1>1, <2>1, OutOfFramesIsBehind
  <2> QED
    BY <1>1, <2>1, <2>2 DEF CursorInv
<1>2. PagingInv => NoFrameForgotten
  BY <1>1 DEF NoFrameForgotten
<1> QED
  BY <1>2, InitInv, NextInv, PTL DEF PagingSpec

(* map_page: no table is ever in a frame that a caller maps.               *)
THEOREM TablesStayPrivate == PagingSpec => []TablesArePrivate
<1>1. PagingInv => TablesArePrivate
  BY DEF PagingInv, OwnersInv
<1> QED
  BY <1>1, InitInv, NextInv, PTL DEF PagingSpec

(* mark_all_user_accessible: every page is reachable from ring 3 after it, *)
(* whatever map_page linked and the boot loader left. *)
THEOREM UserReaches == PagingSpec => []UserReachesAllPages
<1>1. ASSUME PagingInv, marked, NEW v \in Pages, Entry1(table, v).present,
             NEW e \in {Entry4(table, v), Entry3(table, v),
                        Entry2(table, v), Entry1(table, v)}
      PROVE  e.user
  <2>1. /\ IsTree(table)
        /\ \A d \in {Entry4(table, v), Entry3(table, v), Entry2(table, v), Entry1(table, v)} :
             d.present => d.user
    BY <1>1 DEF PagingInv, MarkedInv
  <2>2. /\ Entry2(table, v).present
        /\ Entry3(table, v).present /\ Entry4(table, v).present
    \* An entry that does not lead on is repeated below; one that does is present.
    <3>1. /\ Entry4(table, v) \in Entry /\ Entry3(table, v) \in Entry
          /\ Entry2(table, v) \in Entry
      BY <2>1, WalkProperties
    <3>2. Entry2(table, v).present
      BY <1>1, <3>1, EntryProperties DEF Entry1, Down
    <3>3. Entry3(table, v).present
      BY <3>1, <3>2, EntryProperties DEF Entry2, Down
    <3>4. Entry4(table, v).present
      BY <3>1, <3>3, EntryProperties DEF Entry3, Down
    <3> QED
      BY <3>2, <3>3, <3>4
  <2> QED
    BY <1>1, <2>1, <2>2
<1>2. PagingInv => UserReachesAllPages
  BY <1>1 DEF UserReachesAllPages
<1> QED
  BY <1>2, InitInv, NextInv, PTL DEF PagingSpec

(* A link, a walk and the marks are invisible in the translations.         *)
LEMMA SameEntriesSameTranslations ==
  ASSUME \A v \in Pages : /\ Entry1(table', v).addr = Entry1(table, v).addr
                          /\ Entry1(table', v).present = Entry1(table, v).present
  PROVE  [v \in Pages |-> Translation(table', v)]
           = [v \in Pages |-> Translation(table, v)]
<1>1. \A v \in Pages : Translation(table', v) = Translation(table, v)
  BY DEF Translation
<1> QED
  BY <1>1

LEMMA LinksKeepTranslations ==
  ASSUME PagingInv, MapLinks
  PROVE  [v \in Pages |-> Translation(table', v)]
           = [v \in Pages |-> Translation(table, v)]
<1>1. PICK f :
        /\ TakesFrame(f)
        /\ LET j == IndexAt(call.page, call.level)
               way == Append(table[call.at].way, j)
               linked == SetEntry(call.at, j, Link(f))
           IN  table' = [t \in DOMAIN table \union {f} |->
                           IF t = f THEN ZeroedTable(way) ELSE linked[t]]
  BY DEF MapLinks
<1>2. InCall /\ call.level > 1 /\ EntryReached = Unused /\ IsTree(table)
  BY DEF MapLinks, PagingInv
<1> DEFINE i == IndexAt(call.page, call.level)
<1>3. /\ DOMAIN table' = DOMAIN table \union {f}
      /\ f \in Nat /\ f \notin DOMAIN table
      /\ i \in Index /\ call.at \in DOMAIN table
      /\ table[call.at].entry[i] = Unused
      /\ Len(table[call.at].way) < Levels - 1
      /\ \A j \in Index : table'[f].entry[j] = Unused
      /\ \A u \in DOMAIN table, j \in Index :
           table'[u].entry[j] =
             IF u = call.at /\ j = i THEN Link(f) ELSE table[u].entry[j]
  BY <1>1, <1>2, LinkProperties
<1> HIDE DEF i
<1>4. \A v \in Pages : Entry1(table', v) = Entry1(table, v)
  BY <1>2, <1>3, LinkKeepsTranslations
<1> QED
  BY <1>4, SameEntriesSameTranslations

LEMMA MarksKeepTranslations ==
  ASSUME PagingInv, MarkAllUserAccessible
  PROVE  [v \in Pages |-> Translation(table', v)]
           = [v \in Pages |-> Translation(table, v)]
<1>1. \A v \in Pages : /\ Entry1(table', v).addr = Entry1(table, v).addr
                       /\ Entry1(table', v).present = Entry1(table, v).present
  BY WayIsMarked DEF Alike
<1> QED
  BY <1>1, SameEntriesSameTranslations

(* The last step of a call sets the translation of its page alone.         *)
LEMMA SetsOneTranslation ==
  ASSUME PagingInv, MapSets
  PROVE  [v \in Pages |-> Translation(table', v)]
           = [[v \in Pages |-> Translation(table, v)]
                EXCEPT ![call.page] = {call.frame}]
<1>1. /\ IsTree(table) /\ call.page \in Pages /\ call.at \in DOMAIN table
      /\ call.frame \in Nat /\ table[call.at].way = Prefix(call.page, 3)
      /\ Leads(Entry2(table, call.page))
      /\ Entry2(table, call.page).addr = call.at
      /\ DOMAIN table' = DOMAIN table
      /\ \A u \in DOMAIN table, j \in Index :
           table'[u].entry[j] = IF u = call.at /\ j = call.page[4]
                                  THEN Leaf(call.frame) ELSE table[u].entry[j]
  BY SetProperties DEF PagingInv
<1>2. Leaf(call.frame) \in Entry
  BY <1>1, EntryProperties
<1>3. \A w \in Pages :
        Entry1(table', w) = IF w = call.page THEN Leaf(call.frame)
                                             ELSE Entry1(table, w)
  BY <1>1, <1>2, SetChangesOnePage
<1>4. Translation(table', call.page) = {call.frame}
  BY <1>1, <1>3, EntryProperties DEF Translation
<1>5. \A w \in Pages : w # call.page =>
        Translation(table', w) = Translation(table, w)
  BY <1>3 DEF Translation
<1> QED
  BY <1>1, <1>4, <1>5

(* map_page: a call that fails changes no translation, one that succeeds   *)
(* that of its page, whatever tables failed calls left linked. *)
THEOREM PagingImplementsAddressSpace == PagingSpec => ImplementsAddressSpace
<1> DEFINE trans == [v \in Pages |-> Translation(table, v)]
           req == IF InCall THEN <<call.page, call.frame>> ELSE NoCall
<1>1. ASSUME PagingInit PROVE Space!Init
  <2>1. PagingInv
    BY <1>1, InitInv
  <2>2. ASSUME NEW v \in Pages PROVE Translation(table, v) \in SUBSET Nat
    <3>1. Entry1(table, v) \in Entry
      BY <2>1, WalkProperties DEF PagingInv
    <3>2. Unused.addr \in Nat
      BY DEF Unused
    <3>3. \A e \in Entry : e.addr \in Nat
      BY <3>2 DEF Entry
    <3>4. Entry1(table, v).addr \in Nat
      BY <3>1, <3>3
    <3> QED
      BY <3>4 DEF Translation
  <2>3. ~InCall
    BY <1>1 DEF PagingInit, InCall
  <2> QED
    BY <2>2, <2>3 DEF Space!Init
<1>2. ASSUME PagingInv, PagingInv', PagingNext
      PROVE  Space!Next \/ UNCHANGED <<trans, req>>
  <2>1. CASE AllocateFrame \/ BootGoesOn
    BY <2>1 DEF AllocateFrame, BootGoesOn, pagingVars, InCall
  <2>2. ASSUME NEW v \in MappedPages, NEW f \in held, MapStarts(v, f)
        PROVE  Space!Next \/ UNCHANGED <<trans, req>>
    <3>1. /\ ~InCall /\ table' = table
          /\ call' = [page |-> v, frame |-> f, at |-> Root, level |-> Levels]
      BY <2>2 DEF MapStarts, InCall
    <3>2. v \in Pages /\ f \in Nat
      BY <1>2, PagingAssumption DEF PagingInv, OwnersInv, CursorInv
    <3>3. CASE InCall'
      <4>1. req = NoCall /\ req' = <<v, f>> /\ trans' = trans
        BY <3>1, <3>3
      <4> QED
        BY <3>2, <4>1 DEF Space!Next, Space!Begin
    <3>4. CASE ~InCall'
      BY <3>1, <3>4
    <3> QED
      BY <3>3, <3>4
  <2>3. CASE MapDescends
    <3>1. /\ InCall /\ table' = table
          /\ call' = [call EXCEPT !.at = EntryReached.addr, !.level = @ - 1]
      BY <2>3 DEF MapDescends
    <3>2. /\ call \in [page : MappedPages, frame : held,
                       at : DOMAIN table, level : 1 .. 4]
      BY <1>2, <3>1, CallProperties
    <3>3. call'.page = call.page /\ call'.frame = call.frame
      BY <3>1, <3>2
    <3>4. InCall'
      <4>1. call' \in [page : MappedPages, frame : held,
                      at : DOMAIN table, level : 1 .. 4]
        BY <1>2, <2>3, DescentProperties
      <4>2. MappedPages \subseteq Pages /\ held \subseteq Nat
        BY <1>2, PagingAssumption DEF PagingInv, OwnersInv, CursorInv
      <4>3. DOMAIN table \subseteq Nat
        BY <1>2, PagingAssumption DEF PagingInv, OwnersInv, CursorInv
      <4>4. call' \in Calls
        BY <4>1, <4>2, <4>3 DEF Calls, Levels
      <4> QED
        BY <4>4, PagingAssumption DEF InCall
    <3> QED
      BY <3>1, <3>3, <3>4
  <2>4. CASE MapLinks
    BY <1>2, <2>4, LinksKeepTranslations DEF MapLinks, InCall
  <2>5. ASSUME InCall
        PROVE  req = <<call.page, call.frame>> /\ req # NoCall
    <3>1. call.page \in Pages /\ call.frame \in held
      BY <1>2, <2>5, CallProperties
    <3>2. held \subseteq Nat
      BY <1>2 DEF PagingInv, OwnersInv, CursorInv
    <3>3. <<call.page, call.frame>> \in Pages \X Nat
      BY <3>1, <3>2
    <3> QED
      BY <2>5, <3>3, PagingAssumption
  <2>6. CASE MapFails
    <3>1. InCall /\ call' = NoCall /\ table' = table
      BY <2>6 DEF MapFails
    <3>2. req' = NoCall /\ trans' = trans
      BY <3>1 DEF InCall
    <3> QED
      BY <2>5, <3>1, <3>2 DEF Space!Next, Space!Fail
  <2>7. CASE MapSets
    <3>1. InCall /\ call' = NoCall
      BY <2>7 DEF MapSets
    <3>2. req' = NoCall
      BY <3>1 DEF InCall
    <3>3. trans' = [trans EXCEPT ![call.page] = {call.frame}]
      BY <1>2, <2>7, SetsOneTranslation
    <3>4. req[1] = call.page /\ req[2] = call.frame
      BY <2>5, <3>1
    <3> QED
      BY <2>5, <3>1, <3>2, <3>3, <3>4 DEF Space!Next, Space!Succeed
  <2>8. CASE MarkAllUserAccessible
    BY <1>2, <2>8, MarksKeepTranslations DEF MarkAllUserAccessible, InCall
  <2> QED
    BY <1>2, <2>1, <2>2, <2>3, <2>4, <2>6, <2>7, <2>8 DEF PagingNext
<1>3. PagingInv /\ PagingInv' /\ [PagingNext]_pagingVars => [Space!Next]_<<trans, req>>
  BY <1>2 DEF pagingVars, InCall
<1> QED
  BY <1>1, <1>3, InitInv, NextInv, PTL
  DEF PagingSpec, ImplementsAddressSpace, Space!Spec, Space!vars
=============================================================================
