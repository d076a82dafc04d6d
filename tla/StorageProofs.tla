--------------------------- MODULE StorageProofs ---------------------------
(***************************************************************************)
(* Proofs about the disk: the driver of AtaPio as the programs of RelizFS  *)
(* use it, and what those make of the sectors that come back.  Two         *)
(* invariants: AtaInv says how often a late answer of the drive can spoil  *)
(* a read, FsInv that a request that no such answer has spoiled is on the  *)
(* track of the image, from the superblock to the last entry.              *)
(***************************************************************************)
EXTENDS RelizFS, SequenceTheorems, TLAPS

IsAddress(a) == a = [i \in Registers |-> a[i]]

(* No earlier command is in the way of the read in progress: the drive is  *)
(* not active before the command, the registers written so far hold their  *)
(* part of the sector, and the drive's command is the read's own. *)
Clean ==
  \/ drive = "none"
  \/ step = 0 /\ ~Active
  \/ /\ step \in 1 .. 5 /\ ~Active
     /\ \A s \in 1 .. step - 1 : address[RegisterOf(s)] = Parts(asked)[RegisterOf(s)]
  \/ step = 6 /\ latched = Parts(asked)

(* What is in the way was left by a timeout that has spoiled nothing yet.  *)
AtaInv ==
  /\ step \in 0 .. 6
  /\ timeouts \in Nat /\ spoiled \in Nat
  /\ IsAddress(address)
  /\ spoiled <= timeouts
  /\ ~Clean => spoiled < timeouts

LEMMA PartsAreAddresses == \A lba : IsAddress(Parts(lba))
BY DEF IsAddress, Parts

LEMMA AtaInitInv == AtaInit => AtaInv
<1> SUFFICES ASSUME AtaInit PROVE AtaInv
  OBVIOUS
<1>1. Clean
  BY DEF AtaInit, Clean, Active
<1> QED
  BY <1>1, PartsAreAddresses DEF AtaInit, AtaInv

LEMMA ReadSectorPreservesInv ==
  ASSUME AtaInv, NEW lba, ReadSector(lba)
  PROVE  AtaInv'
<1>1. /\ step = 0 /\ step' = 1
      /\ UNCHANGED <<drive, address, latched, buffer, timeouts, spoiled>>
  BY DEF ReadSector
<1>2. Clean => Clean'
  BY <1>1 DEF Clean, Active
<1> QED
  BY <1>1, <1>2 DEF AtaInv, IsAddress

LEMMA WritesRegisterPreservesInv ==
  ASSUME AtaInv, WritesRegister
  PROVE  AtaInv'
<1>1. /\ step \in 1 .. 4 /\ step' = step + 1
      /\ UNCHANGED <<drive, latched, asked, timeouts, spoiled>>
      /\ address' = Written(step) \/ (Active /\ address' = address)
      /\ IsAddress(address)
  BY DEF WritesRegister, Registers, AtaInv
<1>2. RegisterOf(step) \in Registers
  BY <1>1 DEF RegisterOf, Registers
<1>3. ASSUME address' = Written(step)
      PROVE  /\ IsAddress(address')
             /\ address'[RegisterOf(step)] = Parts(asked)[RegisterOf(step)]
             /\ \A i \in Registers : i # RegisterOf(step) => address'[i] = address[i]
  BY <1>1, <1>2, <1>3 DEF Written, IsAddress
<1>4. IsAddress(address')
  BY <1>1, <1>3
<1>5. Clean => Clean'
  <2> SUFFICES ASSUME Clean PROVE Clean'
    OBVIOUS
  <2>1. CASE drive = "none"
    BY <1>1, <2>1 DEF Clean
  <2>2. CASE drive # "none"
    <3>1. /\ ~Active
          /\ \A s \in 1 .. step - 1 :
               address[RegisterOf(s)] = Parts(asked)[RegisterOf(s)]
      BY <1>1, <2>2 DEF Clean
    <3>2. \A s \in 1 .. step' - 1 :
            address'[RegisterOf(s)] = Parts(asked)[RegisterOf(s)]
      <4> SUFFICES ASSUME NEW s \in 1 .. step' - 1
                   PROVE  address'[RegisterOf(s)] = Parts(asked)[RegisterOf(s)]
        OBVIOUS
      <4>1. CASE s = step
        BY <1>1, <1>3, <3>1, <4>1
      <4>2. CASE s # step
        <5>1. s \in 1 .. step - 1
          BY <1>1, <4>2
        <5>2. RegisterOf(s) \in Registers /\ RegisterOf(s) # RegisterOf(step)
          BY <1>1, <5>1 DEF RegisterOf, Registers
        <5> QED
          BY <1>1, <1>3, <3>1, <5>1, <5>2
      <4> QED
        BY <4>1, <4>2
    <3>3. step' \in 1 .. 5 /\ ~Active'
      BY <1>1, <3>1 DEF Active
    <3> QED
      BY <1>1, <3>2, <3>3 DEF Clean
  <2> QED
    BY <2>1, <2>2
<1> QED
  BY <1>1, <1>4, <1>5 DEF AtaInv

LEMMA WritesCommandPreservesInv ==
  ASSUME AtaInv, WritesCommand
  PROVE  AtaInv'
<1>1. /\ step = 5 /\ step' = 6
      /\ UNCHANGED <<address, asked, timeouts, spoiled>>
      /\ \/ drive # "none" /\ drive' = "busy" /\ latched' = address
         \/ (Active \/ drive = "none") /\ UNCHANGED <<drive, latched>>
      /\ IsAddress(address)
  BY DEF WritesCommand, AtaInv
<1>2. Clean => Clean'
  <2> SUFFICES ASSUME Clean PROVE Clean'
    OBVIOUS
  <2>1. CASE drive = "none"
    BY <1>1, <2>1 DEF Clean
  <2>2. CASE drive # "none"
    <3>1. /\ ~Active
          /\ \A s \in 1 .. 4 : address[RegisterOf(s)] = Parts(asked)[RegisterOf(s)]
      BY <1>1, <2>2 DEF Clean
    <3>2. \A i \in Registers : \E s \in 1 .. 4 : RegisterOf(s) = i
      <4>1. RegisterOf(1) = 4 /\ RegisterOf(2) = 1 /\ RegisterOf(3) = 2 /\ RegisterOf(4) = 3
        BY DEF RegisterOf
      <4> QED
        BY <4>1 DEF Registers
    <3>3. \A i \in Registers : address[i] = Parts(asked)[i]
      BY <3>1, <3>2
    <3>4. IsAddress(Parts(asked))
      BY PartsAreAddresses
    <3>5. address = Parts(asked)
      BY <1>1, <3>3, <3>4 DEF IsAddress
    <3>6. latched' = address
      BY <1>1, <2>2, <3>1
    <3> QED
      BY <1>1, <3>5, <3>6 DEF Clean
  <2> QED
    BY <2>1, <2>2
<1> QED
  BY <1>1, <1>2 DEF AtaInv

(* A read that ends with another sector's outcome was not clean, and the   *)
(* next one starts with a drive that is not active. *)
LEMMA AnswerPreservesInv ==
  ASSUME AtaInv, ReportsError \/ Transfers
  PROVE  AtaInv'
<1>1. /\ step = 6 /\ step' = 0 /\ Counted /\ drive' \in {"error", "idle"}
      /\ drive # "none"
      /\ UNCHANGED <<address, timeouts>>
  BY DEF ReportsError, Transfers
<1>2. Clean'
  BY <1>1 DEF Clean, Active
<1>3. latched # Parts(asked) => ~Clean
  BY <1>1 DEF Clean
<1> QED
  BY <1>1, <1>2, <1>3 DEF AtaInv, Counted

LEMMA TimesOutPreservesInv ==
  ASSUME AtaInv, TimesOut
  PROVE  AtaInv'
<1>1. /\ step' = 0 /\ timeouts' = timeouts + 1
      /\ UNCHANGED <<address, spoiled>>
  BY DEF TimesOut
<1> QED
  BY <1>1 DEF AtaInv

LEMMA OtherStepsPreserveInv ==
  ASSUME AtaInv, NoDriveDetected \/ PollsAgain \/ DriveFinds
  PROVE  AtaInv'
<1>1. CASE NoDriveDetected
  BY <1>1 DEF NoDriveDetected, AtaInv, Clean
<1>2. CASE PollsAgain
  BY <1>2 DEF PollsAgain, AtaInv, Clean, Active
<1>3. CASE DriveFinds
  <2>1. /\ drive = "busy" /\ drive' \in {"data", "error"}
        /\ UNCHANGED <<address, latched, step, asked, timeouts, spoiled>>
    BY <1>3 DEF DriveFinds
  <2>2. Clean => Clean'
    BY <2>1 DEF Clean, Active
  <2> QED
    BY <2>1, <2>2 DEF AtaInv
<1> QED
  BY <1>1, <1>2, <1>3

LEMMA ReadsNothingPreservesInv ==
  ASSUME AtaInv, ReadsNothing
  PROVE  AtaInv'
BY DEF ReadsNothing, AtaInv, Clean, Active

(* The programs touch the drive by calls of read_sector only.              *)
LEMMA ReaderCalls ==
  ASSUME Reader \/ \E j \in Requests : RequestStarts(j)
  PROVE  ReadsNothing \/ \E lba : ReadSector(lba)
<1>1. \A b, position : ReadsBlock(b, position) =>
        ReadsNothing \/ \E lba : ReadSector(lba)
  BY DEF ReadsBlock
<1>2. CASE \E j \in Requests : RequestStarts(j)
  BY <1>2 DEF RequestStarts
<1>3. CASE MountStarts
  BY <1>3 DEF MountStarts
<1>4. CASE SuperblockCame
  BY <1>1, <1>4 DEF SuperblockCame, Ends
<1>5. CASE RootCame \/ DirectoryCame \/ InodeFails \/ DataCame \/ ReadFails
  BY <1>5 DEF RootCame, DirectoryCame, InodeFails, DataCame, ReadFails, Ends
<1>6. CASE NextBlock
  BY <1>1, <1>6 DEF NextBlock, Ends
<1>7. CASE NextEntry
  BY <1>1, <1>7 DEF NextEntry, ReadsInode
<1>8. CASE InodeCame
  BY <1>1, <1>8 DEF InodeCame
<1> QED
  BY <1>2, <1>3, <1>4, <1>5, <1>6, <1>7, <1>8 DEF Reader

LEMMA AtaNextInv == AtaInv /\ [RelizNext]_relizVars => AtaInv'
<1> SUFFICES ASSUME AtaInv, [RelizNext]_relizVars PROVE AtaInv'
  OBVIOUS
<1>1. CASE UNCHANGED relizVars
  BY <1>1 DEF relizVars, ataVars, AtaInv, Clean, Active
<1>2. CASE Reader \/ \E j \in Requests : RequestStarts(j)
  BY <1>2, ReaderCalls, ReadsNothingPreservesInv, ReadSectorPreservesInv
<1>3. CASE Driver
  BY <1>3, WritesRegisterPreservesInv, WritesCommandPreservesInv,
     AnswerPreservesInv, TimesOutPreservesInv, OtherStepsPreserveInv DEF Driver
<1>4. CASE DriveFinds
  BY <1>4, OtherStepsPreserveInv
<1> QED
  BY <1>1, <1>2, <1>3, <1>4 DEF RelizNext, Stops

(* ata.rs: read_sector returns at most one wrong outcome for each timeout, *)
(* whatever becomes of the writes to a drive that is still at work. *)
THEOREM LateAnswersSpoilOneRead == RelizSpec => []OneWrongPerTimeout
<1>1. RelizInit => AtaInv
  BY AtaInitInv DEF RelizInit
<1>2. AtaInv => OneWrongPerTimeout
  BY DEF AtaInv, OneWrongPerTimeout
<1> QED
  BY <1>1, <1>2, AtaNextInv, PTL DEF RelizSpec
-----------------------------------------------------------------------------
(* The file system.  As long as a request was given the sectors it asked   *)
(* for, what it has made of them is what the image says.                   *)

(* The entries of the root that come before the ones left, t, and whether  *)
(* t is the rest of them. *)
Handled(t) == {RootDirectory[i] : i \in 1 .. 3 - Len(t)}

IsRest(t) ==
  /\ t \in Seq(RootEntries) /\ Len(t) <= 3
  /\ \A i \in 1 .. Len(t) : t[i] = RootDirectory[3 - Len(t) + i]

(* The blocks of the root that are left when its only block is read: at    *)
(* boot the loop goes on to the end of direct_blocks. *)
LastBlocks(kind) == IF kind = "mount" THEN {<<0>>, <<>>} ELSE {<<>>}

(* Used, of any job. *)
UsedBy(j, e) ==
  IF j.kind = "mount" THEN e.inode_num # 0 \/ e.name # ""
  ELSE e.inode_num # 0 /\ e.name # ""

(* The lines sh of a listing, and the failures of a cat, are those of the  *)
(* entries done so far; fl: some read failed. *)
Told(j, done, sh, fl) ==
  /\ j.kind \in {"mount", "ls"} =>
       /\ \A line \in sh : \E e \in done :
            /\ UsedBy(j, e)
            /\ \/ line = <<e.name, Kind(e.inode_num)>>
               \/ fl /\ j.kind = "mount" /\ line = <<e.name, "ERR">>
       /\ ~fl => \A e \in done : UsedBy(j, e) => <<e.name, Kind(e.inode_num)>> \in sh
  /\ j.kind = "cat" => \A e \in done : UsedBy(j, e) => e.name # j.name

(* What the two properties want of a request that is done. *)
TrueListing(j, sh, fl, rp) ==
  LET truth == IF j.kind = "mount" THEN Lines(RootEntries)
               ELSE Lines({e \in RootEntries : e.inode_num # 0})
  IN  /\ \A line \in sh :
           \/ line \in truth
           \/ fl /\ j.kind = "mount" /\ \E e \in RootEntries : line = <<e.name, "ERR">>
      /\ ~fl /\ rp = "ok" => sh = truth
      /\ rp = "error" => fl

TrueCat(j, cp, fl, rp) ==
  LET found == {e \in RootEntries : e.inode_num # 0 /\ e.name = j.name} IN
  /\ rp = "ok" =>
       \E e \in found : cp = RelizStart + InodeOf(e.inode_num).direct_blocks[1]
  /\ rp = "error" => fl \/ found = {}

InodeSector == RelizStart + Superblock.inode_table_start

OnTrack ==
  /\ at = "super" => asked = RelizStart + SuperSector /\ shown = {}
  /\ at = "root" => super = Superblock /\ asked = InodeSector /\ shown = {}
  /\ at = "block" =>
       /\ super = Superblock
       /\ \/ shown = {} /\ blocks = IF job.kind = "mount" THEN <<DataBlocksStart, 0>>
                                    ELSE <<DataBlocksStart>>
          \/ blocks \in LastBlocks(job.kind) /\ Told(job, RootEntries, shown, failed)
  /\ at \in {"directory", "entries", "inode"} =>
       super = Superblock /\ blocks \in LastBlocks(job.kind)
  /\ at = "directory" => asked = RelizStart + DataBlocksStart /\ shown = {}
  /\ at \in {"entries", "inode"} => IsRest(todo) /\ Told(job, Handled(todo), shown, failed)
  /\ at = "inode" => todo # <<>> /\ UsedBy(job, Current) /\ Wanted /\ asked = InodeSector
  /\ at = "data" =>
       /\ job.kind = "cat" /\ job.name = "hello.txt"
       /\ asked = RelizStart + DataBlocksStart + 1
  /\ at = "dump" => job.kind = "dump"
  /\ at = "done" =>
       /\ job.kind \in {"mount", "ls"} => TrueListing(job, shown, failed, reply)
       /\ job.kind = "cat" => TrueCat(job, copied, failed, reply)
  /\ at # "panicked"

FsInv ==
  /\ result \in {"none", "ok", "error"}
  /\ failed \in BOOLEAN /\ wrong \in BOOLEAN
  /\ ~wrong => OnTrack

(* The sector that came back is the one asked for. *)
LEMMA SectorOfParts ==
  ASSUME NEW lba \in {40002, 40003, 40013, 40014}, buffer = Parts(lba)
  PROVE  Sector = lba
<1>1. /\ buffer[1] = lba % 256 /\ buffer[2] = (lba \div 256) % 256
      /\ buffer[3] = (lba \div 65536) % 256 /\ buffer[4] = (lba \div 16777216) % 16
  BY DEF Parts, Part, Registers
<1>2. CASE lba = 40002
  BY <1>1, <1>2 DEF Sector
<1>3. CASE lba = 40003
  BY <1>1, <1>3 DEF Sector
<1>4. CASE lba = 40013
  BY <1>1, <1>4 DEF Sector
<1>5. CASE lba = 40014
  BY <1>1, <1>5 DEF Sector
<1> QED
  BY <1>2, <1>3, <1>4, <1>5

(* The image, sector by sector. *)
LEMMA ImageFits == \A b \in 0 .. 14 : RelizStart + b \in Nat /\ RelizStart + b <= MaxU32
BY ImageAssumption, RelizAssumption DEF RelizStart, DataBlocksStart

LEMMA RootInode ==
  /\ \A k \in {0, 1} : AsInode(InodeSector, k) = {InodeOf(k)}
  /\ InodeOf(0) = Inode(2, DataBlocksStart)
  /\ InodeOf(1) = Inode(1, DataBlocksStart + 1)
<1>1. InodeSector = 40003 /\ TableSector(40003) = 0 /\ BlockSize \div InodeSize = 8
  BY DEF InodeSector, TableSector, RelizStart, Superblock, BlockSize, InodeSize
<1>2. \A k \in {0, 1} : 0 * 8 + (k % 8) = k
  OBVIOUS
<1>3. 0 \in 0 .. InodeTableBlocks - 1
  BY DEF InodeTableBlocks
<1> QED
  BY <1>1, <1>2, <1>3 DEF AsInode, InodeOf

LEMMA RootFacts ==
  /\ RootDirectory \in Seq(RootEntries) /\ Len(RootDirectory) = 3
  /\ RootDirectory[1] = DirectoryEntry(0, ".")
  /\ RootDirectory[2] = DirectoryEntry(0, "..")
  /\ RootDirectory[3] = DirectoryEntry(1, "hello.txt")
  /\ RootEntries = {RootDirectory[1], RootDirectory[2], RootDirectory[3]}
<1>1. /\ Len(RootDirectory) = 3
      /\ RootDirectory[1] = DirectoryEntry(0, ".")
      /\ RootDirectory[2] = DirectoryEntry(0, "..")
      /\ RootDirectory[3] = DirectoryEntry(1, "hello.txt")
      /\ DOMAIN RootDirectory = 1 .. 3
  BY DEF RootDirectory
<1>2. RootEntries = {RootDirectory[1], RootDirectory[2], RootDirectory[3]}
  BY <1>1 DEF RootEntries
<1>3. RootDirectory \in Seq({RootDirectory[1], RootDirectory[2], RootDirectory[3]})
  BY DEF RootDirectory
<1> QED
  BY <1>1, <1>2, <1>3

LEMMA RootNames ==
  ASSUME NEW e \in RootEntries
  PROVE  /\ e.inode_num \in {0, 1} /\ e.name # ""
         /\ e.inode_num = 0 <=> e.name \in {".", ".."}
         /\ e.inode_num = 1 <=> e.name = "hello.txt"
         /\ Kind(e.inode_num) = IF e.inode_num = 0 THEN "DIR" ELSE "FILE"
<1>1. Kind(0) = "DIR" /\ Kind(1) = "FILE"
  BY RootInode DEF Kind, Inode
<1>2. CASE e = RootDirectory[1]
  <2>1. e.inode_num = 0 /\ e.name = "."
    BY <1>2, RootFacts DEF DirectoryEntry
  <2> QED
    BY <1>1, <2>1
<1>3. CASE e = RootDirectory[2]
  <2>1. e.inode_num = 0 /\ e.name = ".."
    BY <1>3, RootFacts DEF DirectoryEntry
  <2> QED
    BY <1>1, <2>1
<1>4. CASE e = RootDirectory[3]
  <2>1. e.inode_num = 1 /\ e.name = "hello.txt"
    BY <1>4, RootFacts DEF DirectoryEntry
  <2> QED
    BY <1>1, <2>1
<1> QED
  BY <1>2, <1>3, <1>4, RootFacts

(* The next entry is taken: it is one of the root's, and one more is done. *)
LEMMA EntryTaken ==
  ASSUME NEW t, IsRest(t), t # <<>>
  PROVE  /\ Head(t) \in RootEntries /\ IsRest(Tail(t))
         /\ Handled(Tail(t)) = Handled(t) \union {Head(t)}
<1> DEFINE n == Len(t)
<1>1. /\ t \in Seq(RootEntries) /\ n \in Nat \ {0} /\ n <= 3
      /\ Head(t) = t[1] /\ t[1] \in RootEntries
      /\ Tail(t) \in Seq(RootEntries) /\ Len(Tail(t)) = n - 1
      /\ \A i \in 1 .. n - 1 : Tail(t)[i] = t[i + 1]
      /\ \A i \in 1 .. n : t[i] = RootDirectory[3 - n + i]
  BY HeadTailProperties, LenProperties, ElementOfSeq, EmptySeq DEF IsRest
<1> HIDE DEF n
<1>2. \A i \in 1 .. n - 1 : Tail(t)[i] = RootDirectory[3 - (n - 1) + i]
  <2> TAKE i \in 1 .. n - 1
  <2>1. i + 1 \in 1 .. n /\ 3 - n + (i + 1) = 3 - (n - 1) + i
    BY <1>1
  <2> QED
    BY <1>1, <2>1
<1>3. t[1] = RootDirectory[3 - n + 1] /\ 1 .. 3 - (n - 1) = 1 .. 3 - n \union {3 - n + 1}
  BY <1>1
<1>4. /\ Handled(Tail(t)) = {RootDirectory[i] : i \in 1 .. 3 - (n - 1)}
      /\ Handled(t) = {RootDirectory[i] : i \in 1 .. 3 - n}
  BY <1>1 DEF Handled, n
<1>5. Handled(Tail(t)) = Handled(t) \union {RootDirectory[3 - n + 1]}
  BY <1>3, <1>4
<1> QED
  BY <1>1, <1>2, <1>3, <1>5 DEF IsRest

(* Nothing is done before the first entry, and everything after the last.  *)
LEMMA EndsOfRoot ==
  /\ IsRest(RootDirectory) /\ Handled(RootDirectory) = {}
  /\ Handled(<<>>) = RootEntries
<1>1. IsRest(RootDirectory)
  BY RootFacts DEF IsRest
<1>2. Handled(RootDirectory) = {}
  BY RootFacts DEF Handled
<1>3. Len(<<>>) = 0 /\ 1 .. 3 - 0 = {1, 2, 3}
  BY EmptySeq
<1>4. Handled(<<>>) = {RootDirectory[i] : i \in {1, 2, 3}}
  BY <1>3 DEF Handled
<1> QED
  BY <1>1, <1>2, <1>4, RootFacts

(* What is told of one more entry: its line, or at boot the line of a      *)
(* failure, or nothing if it is free, not wanted or could not be read.     *)
LEMMA ToldMore ==
  ASSUME NEW j, NEW done, NEW sh, NEW fl \in BOOLEAN, Told(j, done, sh, fl),
         NEW e, NEW sh2, NEW fl2 \in BOOLEAN, fl => fl2,
         \/ sh2 = sh \union {<<e.name, Kind(e.inode_num)>>} /\ UsedBy(j, e) /\ j.kind # "cat"
         \/ sh2 = sh \union {<<e.name, "ERR">>} /\ UsedBy(j, e) /\ fl2 /\ j.kind = "mount"
         \/ sh2 = sh /\ (~UsedBy(j, e) \/ (fl2 /\ j.kind # "cat") \/ (j.kind = "cat" /\ e.name # j.name))
  PROVE  Told(j, done \union {e}, sh2, fl2)
<1>1. CASE j.kind = "cat"
  BY <1>1 DEF Told
<1>2. CASE j.kind # "cat"
  <2>1. ASSUME j.kind \in {"mount", "ls"}, NEW line \in sh2
        PROVE  \E d \in done \union {e} :
                 /\ UsedBy(j, d)
                 /\ \/ line = <<d.name, Kind(d.inode_num)>>
                    \/ fl2 /\ j.kind = "mount" /\ line = <<d.name, "ERR">>
    <3>1. CASE line \in sh
      BY <2>1, <3>1 DEF Told
    <3>2. CASE line \notin sh
      BY <1>2, <2>1, <3>2
    <3> QED
      BY <3>1, <3>2
  <2>2. ASSUME j.kind \in {"mount", "ls"}, ~fl2, NEW d \in done \union {e}, UsedBy(j, d)
        PROVE  <<d.name, Kind(d.inode_num)>> \in sh2
    <3>1. sh \subseteq sh2
      OBVIOUS
    <3>2. CASE d \in done
      BY <2>2, <3>1, <3>2 DEF Told
    <3>3. CASE d = e
      BY <1>2, <2>2, <3>3
    <3> QED
      BY <3>2, <3>3
  <2> QED
    BY <1>2, <2>1, <2>2 DEF Told
<1> QED
  BY <1>1, <1>2

LEMMA LineTold ==
  ASSUME NEW j, NEW done, NEW sh, NEW fl \in BOOLEAN, Told(j, done, sh, fl),
         NEW e, UsedBy(j, e), j.kind # "cat"
  PROVE  Told(j, done \union {e}, sh \union {<<e.name, Kind(e.inode_num)>>}, fl)
BY ToldMore

LEMMA FailureTold ==
  ASSUME NEW j, NEW done, NEW sh, NEW fl \in BOOLEAN, Told(j, done, sh, fl),
         NEW e, UsedBy(j, e), j.kind # "cat"
  PROVE  Told(j, done \union {e},
              IF j.kind = "mount" THEN sh \union {<<e.name, "ERR">>} ELSE sh, TRUE)
<1>1. CASE j.kind = "mount"
  <2>1. Told(j, done \union {e}, sh \union {<<e.name, "ERR">>}, TRUE)
    BY <1>1, ToldMore
  <2> QED
    BY <1>1, <2>1
<1>2. CASE j.kind # "mount"
  <2>1. Told(j, done \union {e}, sh, TRUE)
    BY <1>2, ToldMore
  <2> QED
    BY <1>2, <2>1
<1> QED
  BY <1>1, <1>2

LEMMA NothingTold ==
  ASSUME NEW j, NEW done, NEW sh, NEW fl \in BOOLEAN, Told(j, done, sh, fl),
         NEW e, ~UsedBy(j, e) \/ (j.kind = "cat" /\ e.name # j.name)
  PROVE  Told(j, done \union {e}, sh, fl)
BY ToldMore

(* When all entries are done, what is told is what the properties want.    *)
LEMMA AllTold ==
  ASSUME NEW j, NEW sh, NEW fl \in BOOLEAN, NEW rp, NEW cp, Told(j, RootEntries, sh, fl),
         rp = IF j.kind = "cat" THEN "error" ELSE "ok"
  PROVE  /\ j.kind \in {"mount", "ls"} => TrueListing(j, sh, fl, rp)
         /\ j.kind = "cat" => TrueCat(j, cp, fl, rp)
<1>1. \A e \in RootEntries : UsedBy(j, e) <=> j.kind = "mount" \/ e.inode_num # 0
  BY RootNames DEF UsedBy
<1>2. ASSUME j.kind \in {"mount", "ls"} PROVE TrueListing(j, sh, fl, rp)
  <2> DEFINE truth == IF j.kind = "mount" THEN Lines(RootEntries)
                      ELSE Lines({e \in RootEntries : e.inode_num # 0})
  <2>1. \A x : x \in truth <=> \E e \in RootEntries : UsedBy(j, e) /\ x = <<e.name, Kind(e.inode_num)>>
    BY <1>1 DEF Lines
  <2>2. /\ \A line \in sh : \E e \in RootEntries :
            /\ UsedBy(j, e)
            /\ \/ line = <<e.name, Kind(e.inode_num)>>
               \/ fl /\ j.kind = "mount" /\ line = <<e.name, "ERR">>
        /\ ~fl => \A e \in RootEntries : UsedBy(j, e) => <<e.name, Kind(e.inode_num)>> \in sh
    BY <1>2 DEF Told
  <2> HIDE DEF truth
  <2>3. \A line \in sh :
          \/ line \in truth
          \/ fl /\ j.kind = "mount" /\ \E e \in RootEntries : line = <<e.name, "ERR">>
    BY <2>1, <2>2
  <2>4. ~fl => sh = truth
    BY <2>1, <2>2, <2>3
  <2> QED
    BY <1>2, <2>3, <2>4 DEF TrueListing, truth
<1>3. ASSUME j.kind = "cat" PROVE TrueCat(j, cp, fl, rp)
  <2>1. \A e \in RootEntries : e.inode_num # 0 => e.name # j.name
    BY <1>1, <1>3 DEF Told
  <2> QED
    BY <1>3, <2>1 DEF TrueCat
<1> QED
  BY <1>2, <1>3

(* What holds when the outcome of a read is looked at: a sector that came  *)
(* is the one asked for, or the request is lost. *)
LEMMA Answered ==
  ASSUME FsInv, Noted, ~wrong'
  PROVE  /\ OnTrack /\ failed \in BOOLEAN /\ failed' \in BOOLEAN
         /\ result = "ok" => buffer = Parts(asked) /\ (failed' <=> failed)
         /\ result = "error" => failed'
         /\ failed => failed'
         /\ result \in {"none", "ok", "error"}
BY DEF FsInv, Noted

LEMMA SuperblockCameOK ==
  ASSUME FsInv, SuperblockCame, ~wrong'
  PROVE  OnTrack'
<1>1. OnTrack /\ at = "super" /\ buffer = Parts(asked)
  BY Answered DEF SuperblockCame, Came, Good
<1>2. asked = 40002 /\ shown = {}
  BY <1>1 DEF OnTrack, RelizStart, SuperSector
<1>3. AsSuperblock(Sector) = {Superblock}
  BY <1>1, <1>2, SectorOfParts DEF AsSuperblock, RelizStart, SuperSector
<1>4. RelizStart + Superblock.inode_table_start <= MaxU32 /\ Superblock.magic
  BY ImageFits DEF Superblock
<1>5. super' = Superblock /\ at' = "root" /\ asked' = InodeSector /\ shown' = {}
  BY <1>2, <1>3, <1>4 DEF SuperblockCame, ReadsBlock, ReadSector, InodeSector
<1> QED
  BY <1>5 DEF OnTrack

LEMMA RootCameOK ==
  ASSUME FsInv, RootCame, ~wrong'
  PROVE  OnTrack'
<1>1. OnTrack /\ at = "root" /\ buffer = Parts(asked)
  BY Answered DEF RootCame, Came, Good
<1>2. super = Superblock /\ asked = InodeSector /\ InodeSector = 40003 /\ shown = {}
  BY <1>1 DEF OnTrack, InodeSector, RelizStart, Superblock
<1>3. AsInode(Sector, 0) = {Inode(2, DataBlocksStart)}
  BY <1>1, <1>2, SectorOfParts, RootInode
<1>4. BlocksToRead(Inode(2, DataBlocksStart)) =
        IF job.kind = "mount" THEN <<DataBlocksStart, 0>> ELSE <<DataBlocksStart>>
  BY DEF BlocksToRead, Inode, IsDirectory
<1>5. /\ at' = "block" /\ super' = super /\ shown' = shown /\ job' = job
      /\ blocks' = IF job.kind = "mount" THEN <<DataBlocksStart, 0>> ELSE <<DataBlocksStart>>
  BY <1>3, <1>4 DEF RootCame
<1> QED
  BY <1>2, <1>5 DEF OnTrack

LEMMA NextBlockOK ==
  ASSUME FsInv, NextBlock, ~wrong'
  PROVE  OnTrack'
<1>1. /\ OnTrack /\ at = "block" /\ failed \in BOOLEAN
      /\ job' = job /\ super' = super /\ shown' = shown /\ failed' = failed
  BY DEF NextBlock, FsInv
<1>2. /\ super = Superblock
      /\ \/ shown = {} /\ blocks = IF job.kind = "mount" THEN <<DataBlocksStart, 0>>
                                   ELSE <<DataBlocksStart>>
         \/ blocks \in LastBlocks(job.kind) /\ Told(job, RootEntries, shown, failed)
  BY <1>1 DEF OnTrack
<1>3. CASE blocks = <<>>
  <2>1. Told(job, RootEntries, shown, failed)
    BY <1>2, <1>3
  <2>2. at' = "done" /\ reply' = IF job.kind = "cat" THEN "error" ELSE "ok"
    BY <1>3 DEF NextBlock, Ends, Outcome
  <2>3. /\ job.kind \in {"mount", "ls"} => TrueListing(job, shown, failed, reply')
        /\ job.kind = "cat" => TrueCat(job, copied', failed, reply')
    BY <1>1, <2>1, <2>2, AllTold
  <2> QED
    BY <1>1, <2>2, <2>3 DEF OnTrack
<1>4. CASE job.kind = "mount" /\ blocks = <<0>>
  <2>1. Told(job, RootEntries, shown, failed)
    BY <1>2, <1>4 DEF DataBlocksStart
  <2>2. at' = at /\ blocks' = <<>>
    BY <1>4 DEF NextBlock
  <2> QED
    BY <1>1, <1>2, <2>1, <2>2 DEF OnTrack, LastBlocks
<1>5. CASE shown = {} /\ blocks = IF job.kind = "mount" THEN <<DataBlocksStart, 0>>
                                  ELSE <<DataBlocksStart>>
  <2>1. /\ blocks # <<>> /\ Head(blocks) = DataBlocksStart /\ DataBlocksStart # 0
        /\ Tail(blocks) \in LastBlocks(job.kind)
    BY <1>5 DEF LastBlocks, DataBlocksStart
  <2>2. blocks' = Tail(blocks) /\ ReadsBlock(DataBlocksStart, "directory")
    BY <2>1 DEF NextBlock
  <2>3. at' = "directory" /\ asked' = RelizStart + DataBlocksStart
    BY <2>2, ImageFits DEF ReadsBlock, ReadSector, DataBlocksStart
  <2> QED
    BY <1>1, <1>2, <1>5, <2>1, <2>2, <2>3 DEF OnTrack
<1> QED
  BY <1>2, <1>3, <1>4, <1>5 DEF LastBlocks

LEMMA DirectoryCameOK ==
  ASSUME FsInv, DirectoryCame, ~wrong'
  PROVE  OnTrack'
<1>1. OnTrack /\ at = "directory" /\ buffer = Parts(asked)
  BY Answered DEF DirectoryCame, Came, Good
<1>2. /\ super = Superblock /\ blocks \in LastBlocks(job.kind) /\ shown = {}
      /\ asked = RelizStart + DataBlocksStart /\ asked = 40013
  BY <1>1 DEF OnTrack, RelizStart, DataBlocksStart
<1>3. AsDirectory(Sector) = {RootDirectory}
  BY <1>1, <1>2, SectorOfParts DEF AsDirectory
<1>4. /\ at' = "entries" /\ todo' = RootDirectory
      /\ super' = super /\ shown' = shown /\ job' = job /\ blocks' = blocks
  BY <1>3 DEF DirectoryCame
<1>5. Told(job, {}, {}, failed')
  BY DEF Told
<1> QED
  BY <1>2, <1>4, <1>5, EndsOfRoot DEF OnTrack

(* Where the entries of the root are gone through. *)
LEMMA AtEntry ==
  ASSUME OnTrack, at \in {"entries", "inode"}
  PROVE  /\ super = Superblock /\ blocks \in LastBlocks(job.kind)
         /\ IsRest(todo) /\ Told(job, Handled(todo), shown, failed)
         /\ todo # <<>> =>
              /\ Current \in RootEntries /\ IsRest(Tail(todo))
              /\ Handled(Tail(todo)) = Handled(todo) \union {Current}
BY EntryTaken DEF OnTrack, Current

LEMMA UsedIsUsedBy == \A e : Used(e) <=> UsedBy(job, e)
BY DEF Used, UsedBy

LEMMA NextEntryOK ==
  ASSUME FsInv, NextEntry, ~wrong'
  PROVE  OnTrack'
<1>1. /\ OnTrack /\ at = "entries" /\ failed \in BOOLEAN
      /\ job' = job /\ super' = super /\ blocks' = blocks /\ failed' = failed
  BY DEF NextEntry, FsInv
<1>2. /\ super = Superblock /\ blocks \in LastBlocks(job.kind)
      /\ IsRest(todo) /\ Told(job, Handled(todo), shown, failed)
  BY <1>1, AtEntry
<1>3. CASE todo = <<>> /\ at' = "block" /\ shown' = shown
  <2>1. Told(job, RootEntries, shown, failed)
    BY <1>2, <1>3, EndsOfRoot
  <2> QED
    BY <1>1, <1>2, <1>3, <2>1 DEF OnTrack
<1>4. ASSUME todo # <<>>, at' = "entries", todo' = Tail(todo),
             Told(job, Handled(todo) \union {Current}, shown', failed)
      PROVE  OnTrack'
  <2>1. IsRest(todo') /\ Told(job, Handled(todo'), shown', failed)
    BY <1>1, <1>4, AtEntry
  <2> QED
    BY <1>1, <1>2, <1>4, <2>1 DEF OnTrack
<1>5. CASE todo # <<>> /\ ~(Used(Current) /\ Wanted) /\ Skips /\ at' = at
  <2>1. ~UsedBy(job, Current) \/ (job.kind = "cat" /\ Current.name # job.name)
    BY <1>5, UsedIsUsedBy DEF Wanted
  <2>2. shown' = shown /\ todo' = Tail(todo) /\ at' = "entries"
    BY <1>1, <1>5 DEF Skips
  <2>3. Told(job, Handled(todo) \union {Current}, shown', failed)
    <3>1. Told(job, Handled(todo) \union {Current}, shown, failed)
      BY <1>1, <1>2, <2>1, NothingTold
    <3> QED
      BY <2>2, <3>1
  <2> QED
    BY <1>4, <1>5, <2>2, <2>3
<1>6. CASE /\ todo # <<>> /\ Used(Current) /\ job.kind = "mount"
           /\ Current.name \in {".", ".."} /\ Shows("DIR") /\ at' = at
  <2>1. Kind(Current.inode_num) = "DIR" /\ UsedBy(job, Current)
    BY <1>1, <1>6, AtEntry, RootNames, UsedIsUsedBy
  <2>2. /\ shown' = shown \union {<<Current.name, Kind(Current.inode_num)>>}
        /\ todo' = Tail(todo) /\ at' = "entries"
    BY <1>1, <1>6, <2>1 DEF Shows
  <2>3. Told(job, Handled(todo) \union {Current}, shown', failed)
    <3>1. Told(job, Handled(todo) \union {Current},
               shown \union {<<Current.name, Kind(Current.inode_num)>>}, failed)
      BY <1>1, <1>2, <1>6, <2>1, LineTold
    <3> QED
      BY <2>2, <3>1
  <2> QED
    BY <1>4, <1>6, <2>2, <2>3
<1>7. CASE todo # <<>> /\ Current.inode_num >= super.inode_count
  <2>1. Current.inode_num \in {0, 1} /\ super.inode_count = 64
    BY <1>1, <1>2, <1>7, AtEntry, RootNames DEF Superblock
  <2> QED
    BY <1>7, <2>1
<1>8. CASE /\ todo # <<>> /\ Used(Current) /\ Wanted
           /\ ReadsInode(Current.inode_num, "inode") /\ UNCHANGED <<todo, shown>>
  <2> DEFINE k == Current.inode_num
  <2>1. k \in {0, 1} /\ UsedBy(job, Current)
    BY <1>1, <1>8, AtEntry, RootNames, UsedIsUsedBy
  <2>2. super.inode_table_start + (k * InodeSize) \div BlockSize = 3
    BY <1>2, <2>1 DEF Superblock, InodeSize, BlockSize
  <2>3. ReadsBlock(3, "inode")
    BY <1>8, <2>2 DEF ReadsInode
  <2>4. at' = "inode" /\ asked' = InodeSector
    BY <2>3, ImageFits DEF ReadsBlock, ReadSector, InodeSector, Superblock
  <2>5. Wanted' /\ Current' = Current
    BY <1>1, <1>8 DEF Wanted, Current
  <2> HIDE DEF k
  <2> QED
    BY <1>1, <1>2, <1>8, <2>1, <2>4, <2>5 DEF OnTrack
<1> QED
  BY <1>3, <1>5, <1>6, <1>7, <1>8 DEF NextEntry

LEMMA InodeCameOK ==
  ASSUME FsInv, InodeCame, ~wrong'
  PROVE  OnTrack'
<1>1. /\ OnTrack /\ at = "inode" /\ buffer = Parts(asked)
      /\ failed \in BOOLEAN /\ failed' = failed
      /\ job' = job /\ super' = super /\ blocks' = blocks
  BY Answered DEF InodeCame, Came, Good
<1>2. /\ super = Superblock /\ blocks \in LastBlocks(job.kind)
      /\ IsRest(todo) /\ Told(job, Handled(todo), shown, failed)
      /\ Current \in RootEntries /\ IsRest(Tail(todo))
      /\ Handled(Tail(todo)) = Handled(todo) \union {Current}
      /\ UsedBy(job, Current) /\ Wanted /\ asked = InodeSector
  BY <1>1, AtEntry DEF OnTrack
<1> DEFINE k == Current.inode_num
<1>3. k \in {0, 1} /\ Sector = InodeSector
  <2>1. k \in {0, 1}
    BY <1>2, RootNames
  <2>2. InodeSector = 40003
    BY DEF InodeSector, RelizStart, Superblock
  <2>3. buffer = Parts(40003)
    BY <1>1, <1>2, <2>2
  <2>4. Sector = 40003
    BY <2>3, SectorOfParts
  <2> QED
    BY <2>1, <2>2, <2>4
<1>4. AsInode(Sector, k) = {InodeOf(k)}
  BY <1>3, RootInode
<1>5. CASE job.kind # "cat"
  <2>1. /\ at' = "entries" /\ todo' = Tail(todo)
        /\ shown' = shown \union {<<Current.name, Kind(k)>>}
    BY <1>4, <1>5 DEF InodeCame, Shows, IsDirectory, Kind
  <2>2. Told(job, Handled(todo) \union {Current}, shown', failed)
    <3>1. Told(job, Handled(todo) \union {Current},
               shown \union {<<Current.name, Kind(k)>>}, failed)
      BY <1>1, <1>2, <1>5, LineTold
    <3> QED
      BY <2>1, <3>1
  <2>3. IsRest(todo') /\ Told(job, Handled(todo'), shown', failed')
    BY <1>1, <1>2, <2>1, <2>2
  <2> HIDE DEF k
  <2> QED
    BY <1>1, <1>2, <2>1, <2>3 DEF OnTrack
<1>6. CASE job.kind = "cat"
  <2>1. k = 1 /\ job.name = "hello.txt"
    BY <1>2, <1>3, <1>6, RootNames DEF UsedBy, Wanted
  <2>2. Head(InodeOf(k).direct_blocks) = DataBlocksStart + 1
    BY <2>1, RootInode DEF Inode
  <2>3. ReadsBlock(DataBlocksStart + 1, "data")
    BY <1>4, <1>6, <2>2 DEF InodeCame
  <2>4. at' = "data" /\ asked' = RelizStart + DataBlocksStart + 1
    BY <2>3, ImageFits DEF ReadsBlock, ReadSector, DataBlocksStart, RelizStart
  <2> QED
    BY <1>1, <1>6, <2>1, <2>4 DEF OnTrack
<1> QED
  BY <1>5, <1>6

LEMMA InodeFailsOK ==
  ASSUME FsInv, InodeFails, ~wrong'
  PROVE  OnTrack'
<1>1. /\ OnTrack /\ at = "inode" /\ failed' = TRUE /\ failed \in BOOLEAN
      /\ job' = job /\ super' = super /\ blocks' = blocks /\ job.kind # "cat"
      /\ at' = "entries" /\ todo' = Tail(todo)
      /\ shown' = IF job.kind = "mount" THEN shown \union {<<Current.name, "ERR">>} ELSE shown
  BY Answered DEF InodeFails, Came, Good, Shows, Skips
<1>2. /\ super = Superblock /\ blocks \in LastBlocks(job.kind)
      /\ IsRest(todo) /\ Told(job, Handled(todo), shown, failed)
      /\ IsRest(Tail(todo))
      /\ Handled(Tail(todo)) = Handled(todo) \union {Current}
      /\ UsedBy(job, Current)
  BY <1>1, AtEntry DEF OnTrack
<1>3. Told(job, Handled(todo) \union {Current}, shown', TRUE)
  <2>1. Told(job, Handled(todo) \union {Current},
             IF job.kind = "mount" THEN shown \union {<<Current.name, "ERR">>} ELSE shown,
             TRUE)
    BY <1>1, <1>2, FailureTold
  <2> QED
    BY <1>1, <2>1
<1>4. IsRest(todo') /\ Told(job, Handled(todo'), shown', failed')
  BY <1>1, <1>2, <1>3
<1> QED
  BY <1>1, <1>2, <1>4 DEF OnTrack

LEMMA DataCameOK ==
  ASSUME FsInv, DataCame, ~wrong'
  PROVE  OnTrack'
<1>1. /\ OnTrack /\ at \in {"data", "dump"} /\ buffer = Parts(asked)
      /\ at' = "done" /\ reply' = "ok" /\ copied' = Sector /\ job' = job
  BY Answered DEF DataCame, Came, Good, Ends
<1>2. CASE at = "data"
  <2>1. /\ job.kind = "cat" /\ job.name = "hello.txt"
        /\ asked = RelizStart + DataBlocksStart + 1 /\ asked = 40014
    BY <1>1, <1>2 DEF OnTrack, RelizStart, DataBlocksStart
  <2>2. copied' = RelizStart + InodeOf(1).direct_blocks[1]
    <3>1. buffer = Parts(40014)
      BY <1>1, <2>1
    <3>2. copied' = 40014
      BY <1>1, <3>1, SectorOfParts
    <3>3. InodeOf(1).direct_blocks[1] = DataBlocksStart + 1
      BY RootInode DEF Inode
    <3> QED
      BY <3>2, <3>3 DEF RelizStart, DataBlocksStart
  <2>3. \E e \in RootEntries : e.inode_num = 1 /\ e.name = "hello.txt"
    BY RootFacts DEF DirectoryEntry
  <2>4. TrueCat(job, copied', failed', "ok")
    BY <2>1, <2>2, <2>3 DEF TrueCat
  <2> QED
    BY <1>1, <2>1, <2>4 DEF OnTrack
<1>3. CASE at = "dump"
  <2>1. job.kind = "dump"
    BY <1>1, <1>3 DEF OnTrack
  <2> QED
    BY <1>1, <2>1 DEF OnTrack
<1> QED
  BY <1>1, <1>2, <1>3

LEMMA ReadFailsOK ==
  ASSUME FsInv, ReadFails, ~wrong'
  PROVE  OnTrack'
<1>1. /\ OnTrack /\ failed' = TRUE
      /\ at \in {"super", "root", "directory", "data", "dump"} \/ (at = "inode" /\ job.kind = "cat")
      /\ at' = "done" /\ reply' = (IF job.kind = "ls" THEN "ok" ELSE "error")
      /\ job' = job /\ shown' = shown
  BY Answered DEF ReadFails, Came, Good, Ends
<1>2. job.kind \in {"mount", "ls"} => shown = {}
  BY <1>1 DEF OnTrack
<1>3. job.kind \in {"mount", "ls"} => TrueListing(job, shown', failed', reply')
  BY <1>1, <1>2 DEF TrueListing
<1>4. job.kind = "cat" => TrueCat(job, copied', failed', reply')
  BY <1>1 DEF TrueCat
<1> QED
  BY <1>1, <1>3, <1>4 DEF OnTrack

LEMMA StartsOK ==
  ASSUME MountStarts \/ \E j \in Requests : RequestStarts(j)
  PROVE  OnTrack' /\ ~failed' /\ ~wrong'
<1>1. CASE MountStarts
  BY <1>1 DEF MountStarts, Begins, ReadSector, OnTrack
<1>2. ASSUME NEW j \in Requests, RequestStarts(j) PROVE OnTrack' /\ ~failed' /\ ~wrong'
  BY <1>2 DEF RequestStarts, Begins, ReadSector, OnTrack
<1> QED
  BY <1>1, <1>2

LEMMA DriverKeepsFsInv ==
  ASSUME FsInv, UNCHANGED fsVars, UNCHANGED ataVars \/ Driver \/ DriveFinds
  PROVE  FsInv'
<1>1. asked' = asked /\ result' \in {result, "ok", "error"}
  BY DEF ataVars, Driver, DriveFinds, WritesRegister, WritesCommand, NoDriveDetected,
         ReportsError, Transfers, PollsAgain, TimesOut
<1>2. OnTrack' = OnTrack
  BY <1>1 DEF fsVars, OnTrack, Current, Wanted
<1> QED
  BY <1>1, <1>2 DEF FsInv, fsVars

LEMMA FsNextInv == FsInv /\ [RelizNext]_relizVars => FsInv'
<1> SUFFICES ASSUME FsInv, [RelizNext]_relizVars PROVE FsInv'
  OBVIOUS
<1>1. CASE Reader \/ \E j \in Requests : RequestStarts(j)
  <2>1. result' = "none"
    BY <1>1, ReaderCalls DEF ReadsNothing, ReadSector
  <2>2. failed' \in BOOLEAN /\ wrong' \in BOOLEAN
    <3>1. (failed' \in BOOLEAN /\ wrong' \in BOOLEAN) \/ Noted \/ UNCHANGED <<failed, wrong>>
      BY <1>1, StartsOK DEF Reader, SuperblockCame, RootCame, NextBlock, DirectoryCame,
         NextEntry, InodeCame, InodeFails, DataCame, ReadFails, MountStarts, RequestStarts, Begins
    <3> QED
      BY <3>1 DEF FsInv, Noted
  <2>3. ~wrong' => OnTrack'
    BY <1>1, StartsOK, SuperblockCameOK, RootCameOK, NextBlockOK, DirectoryCameOK, NextEntryOK,
       InodeCameOK, InodeFailsOK, DataCameOK, ReadFailsOK DEF Reader
  <2> QED
    BY <2>1, <2>2, <2>3 DEF FsInv
<1>2. CASE (Driver \/ DriveFinds) /\ UNCHANGED fsVars
  BY <1>2, DriverKeepsFsInv
<1>3. CASE UNCHANGED relizVars
  BY <1>3, DriverKeepsFsInv DEF relizVars
<1> QED
  BY <1>1, <1>2, <1>3 DEF RelizNext, Stops

LEMMA FsInvariance == RelizSpec => []FsInv
<1>1. RelizInit => FsInv
  BY DEF RelizInit, AtaInit, FsInv, OnTrack
<1> QED
  BY <1>1, FsNextInv, PTL DEF RelizSpec

(* list_directory and the listing of task_fs_server show the entries of    *)
(* the image, each with its kind, however late the drive is, unless the    *)
(* request was given the sector of another. *)
THEOREM ListingsStayTruthful == RelizSpec => []ListingsAreTruthful
<1>1. FsInv => ListingsAreTruthful
  BY DEF FsInv, OnTrack, TrueListing, ListingsAreTruthful
<1> QED
  BY <1>1, FsInvariance, PTL

(* The read of task_fs_server copies the block of the file that was named, *)
(* and fails only when there is no such file or a sector was not read.     *)
THEOREM CatStaysTruthful == RelizSpec => []CatIsTruthful
<1>1. FsInv => CatIsTruthful
  BY DEF FsInv, OnTrack, TrueCat, CatIsTruthful
<1> QED
  BY <1>1, FsInvariance, PTL

(* The sums of sector numbers in relizfs.rs and task_fs_server overflow    *)
(* only in a request that was given a wrong sector. *)
THEOREM ImageNeverPanics == RelizSpec => []PanicsOnlyOnWrongSector
<1>1. FsInv => PanicsOnlyOnWrongSector
  BY DEF FsInv, OnTrack, PanicsOnlyOnWrongSector
<1> QED
  BY <1>1, FsInvariance, PTL
=============================================================================
