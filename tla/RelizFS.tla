------------------------------ MODULE RelizFS ------------------------------
(***************************************************************************)
(* The file system over the drive of AtaPio.tla: the image host-tool       *)
(* writes, the reader that lists its root at boot (relizfs.rs), and the    *)
(* ls and cat of the file system server (main.rs), which parses the image  *)
(* once more on its own.  The shell's dump reads other sectors in between. *)
(* One of them runs at a time, for one request.                            *)
(***************************************************************************)
EXTENDS AtaPio, Sequences

CONSTANTS
  MaxU32,          \* the greatest sector number a u32 holds
  MaxRequests,     \* bound on the requests of the shell
  FileNames,       \* names the shell asks for
  DumpedSectors,   \* sectors it dumps
  StrangeNumbers   \* what a sector holds where there is no such number

ASSUME RelizAssumption ==
  /\ MaxU32 \in Nat /\ MaxRequests \in Nat
  /\ DumpedSectors \subseteq Nat /\ StrangeNumbers \subseteq 0 .. MaxU32
-----------------------------------------------------------------------------
(* What host-tool writes.                                                  *)
RelizStart == 40000
SuperSector == 2
BlockSize == 512
InodeSize == 64

Superblock == [magic |-> TRUE, inode_count |-> 64, inode_table_start |-> 3]
InodeTableBlocks == 8
DataBlocksStart == 13

(* Types: 0 free, 1 file, 2 directory.  Of direct_blocks, which are ten,   *)
(* two are modelled. *)
Inode(type, block) == [file_type |-> type, direct_blocks |-> <<block, 0>>]
IsDirectory(inode) == inode.file_type = 2

InodeOf(k) ==
  CASE k = 0 -> Inode(2, DataBlocksStart)
    [] k = 1 -> Inode(1, DataBlocksStart + 1)
    [] OTHER -> Inode(0, 0)

DirectoryEntry(k, name) == [inode_num |-> k, name |-> name]
RootDirectory ==
  <<DirectoryEntry(0, "."), DirectoryEntry(0, ".."), DirectoryEntry(1, "hello.txt")>>

(* The whole of it has sector numbers that fit in a u32. *)
ASSUME ImageAssumption == RelizStart + DataBlocksStart + 1 <= MaxU32

(* What the sector at lba n may be taken for.  No sector but one has the   *)
(* magic number; otherwise a sector of another kind may read as anything.  *)
AsSuperblock(n) ==
  IF n = RelizStart + SuperSector THEN {Superblock}
  ELSE [magic : {FALSE}, inode_count : StrangeNumbers, inode_table_start : StrangeNumbers]

TableSector(n) == n - RelizStart - Superblock.inode_table_start

AsInode(n, k) ==
  LET perBlock == BlockSize \div InodeSize IN
  IF TableSector(n) \in 0 .. InodeTableBlocks - 1
  THEN {InodeOf(TableSector(n) * perBlock + (k % perBlock))}
  ELSE [file_type : 0 .. 2, direct_blocks : StrangeNumbers \X StrangeNumbers]

(* One entry stands for the several that a stray sector may seem to hold.  *)
AsDirectory(n) ==
  IF n = RelizStart + DataBlocksStart THEN {RootDirectory}
  ELSE {<<>>} \union {<<DirectoryEntry(k, "strange")>> : k \in StrangeNumbers}
-----------------------------------------------------------------------------
VARIABLES
  job,       \* the request: [kind, name]
  at,        \* what it reads or looks at: its position in the program
  super,     \* the superblock it has read
  blocks,    \* blocks of the directory that are left
  todo,      \* entries of the block that are left
  shown,     \* the lines of the listing: a name and a kind each
  reply,     \* none, ok or error
  copied,    \* the sector whose data went to the shell
  requests,  \* how many requests there were
  failed,    \* (history) a read of this request failed
  wrong      \* (history) it was given a sector it had not asked for

fsVars ==
  <<job, at, super, blocks, todo, shown, reply, copied, requests, failed, wrong>>
relizVars == <<fsVars, ataVars>>

Job(kind, name) == [kind |-> kind, name |-> name]
NoSuperblock == [magic |-> FALSE, inode_count |-> 0, inode_table_start |-> 0]

(* A request starts with everything of the last one forgotten.             *)
Begins(j, position) ==
  /\ job' = j /\ at' = position
  /\ super' = NoSuperblock /\ blocks' = <<>> /\ todo' = <<>>
  /\ shown' = {} /\ reply' = "none" /\ copied' = 0
  /\ failed' = FALSE /\ wrong' = FALSE

RelizInit ==
  /\ AtaInit
  /\ job = Job("mount", "") /\ at = "boot"
  /\ super = NoSuperblock /\ blocks = <<>> /\ todo = <<>>
  /\ shown = {} /\ reply = "none" /\ copied = 0
  /\ requests = 0 /\ failed = FALSE /\ wrong = FALSE

(* RelizFsReader::init reads the superblock.                               *)
MountStarts ==
  /\ at = "boot"
  /\ Begins(job, "super") /\ UNCHANGED requests
  /\ ReadSector(RelizStart + SuperSector)

RequestStarts(j) ==
  /\ at = "done" /\ requests < MaxRequests
  /\ requests' = requests + 1
  /\ \/ /\ j.kind \in {"ls", "cat"}
        /\ Begins(j, "super") /\ ReadSector(RelizStart + SuperSector)
     \/ /\ j.kind = "dump"
        /\ \E lba \in DumpedSectors : Begins(j, "dump") /\ ReadSector(lba)

Requests ==
  {Job("ls", ""), Job("dump", "")} \union {Job("cat", name) : name \in FileNames}
-----------------------------------------------------------------------------
(* A read of the request has ended.                                        *)
Came(position) == at = position /\ step = 0 /\ result # "none"

(* Faulty: the result of the read is not looked at. *)
GoodFaulty == TRUE

Good == result = "ok"

Noted ==
  /\ failed' = (failed \/ result = "error")
  /\ wrong' = (wrong \/ (result = "ok" /\ buffer # Parts(asked)))

(* The sector in the buffer.                                               *)
Sector == buffer[1] + 256 * buffer[2] + 65536 * buffer[3] + 16777216 * buffer[4]

(* No read follows at once. *)
ReadsNothing ==
  /\ result' = "none"
  /\ UNCHANGED <<drive, address, latched, step, asked, polls, buffer, timeouts, spoiled>>

Ends(outcome) == at' = "done" /\ reply' = outcome /\ ReadsNothing

(* The read of block b of the partition, on the way to a position; the sum *)
(* panics when it is more than a u32. *)
ReadsBlock(b, position) ==
  IF RelizStart + b <= MaxU32
  THEN at' = position /\ ReadSector(RelizStart + b)
  ELSE at' = "panicked" /\ ReadsNothing

ReadsInode(k, position) ==
  ReadsBlock(super.inode_table_start + (k * InodeSize) \div BlockSize, position)

(* The reader at boot wants the magic number, the server does not look.    *)
SuperblockCame ==
  /\ Came("super") /\ Good /\ Noted
  /\ \E sb \in AsSuperblock(Sector) :
       IF job.kind = "mount" /\ ~sb.magic
       THEN Ends("error") /\ UNCHANGED super
       ELSE super' = sb /\ ReadsBlock(sb.inode_table_start, "root") /\ UNCHANGED reply
  /\ UNCHANGED <<job, blocks, todo, shown, copied, requests>>

(* list_directory goes through all blocks; the server reads the first.     *)
BlocksToRead(inode) ==
  IF job.kind # "mount" THEN <<Head(inode.direct_blocks)>>
  ELSE IF IsDirectory(inode) THEN inode.direct_blocks ELSE <<>>

RootCame ==
  /\ Came("root") /\ Good /\ Noted
  /\ \E inode \in AsInode(Sector, 0) : blocks' = BlocksToRead(inode)
  /\ at' = "block" /\ ReadsNothing
  /\ UNCHANGED <<job, super, todo, shown, reply, copied, requests>>

(* The listing is reported as a success, whatever there was to list.       *)
Outcome == IF job.kind = "cat" THEN "error" ELSE "ok"

(* A block 0 is not allocated, and is passed over at boot; the server      *)
(* reads whatever it is. *)
NextBlock ==
  /\ at = "block"
  /\ \/ blocks = <<>> /\ Ends(Outcome) /\ UNCHANGED blocks
     \/ /\ blocks # <<>> /\ blocks' = Tail(blocks) /\ UNCHANGED reply
        /\ IF job.kind = "mount" /\ Head(blocks) = 0
           THEN UNCHANGED at /\ ReadsNothing
           ELSE ReadsBlock(Head(blocks), "directory")
  /\ UNCHANGED <<job, super, todo, shown, copied, requests, failed, wrong>>

DirectoryCame ==
  /\ Came("directory") /\ Good /\ Noted
  /\ todo' \in AsDirectory(Sector)
  /\ at' = "entries" /\ ReadsNothing
  /\ UNCHANGED <<job, super, blocks, shown, reply, copied, requests>>

(* Faulty: the reader at boot, like the server, wants both. *)
UsedFaulty(e) == e.inode_num # 0 /\ e.name # ""

Used(e) ==
  IF job.kind = "mount" THEN e.inode_num # 0 \/ e.name # ""
  ELSE e.inode_num # 0 /\ e.name # ""

Current == Head(todo)
Shows(kind) == shown' = shown \union {<<Current.name, kind>>} /\ todo' = Tail(todo)
Skips == todo' = Tail(todo) /\ UNCHANGED shown

(* Faulty: any name will do. *)
WantedFaulty == TRUE

Wanted == job.kind = "cat" => Current.name = job.name

(* Entries that are free or not asked for are passed over.  At boot "."    *)
(* and ".." are not looked up, and an inode number beyond the table is an  *)
(* error of that line. *)
NextEntry ==
  /\ at = "entries"
  /\ \/ todo = <<>> /\ at' = "block" /\ ReadsNothing /\ UNCHANGED <<todo, shown>>
     \/ /\ todo # <<>> /\ ~(Used(Current) /\ Wanted)
        /\ Skips /\ UNCHANGED at /\ ReadsNothing
     \/ /\ todo # <<>> /\ Used(Current) /\ job.kind = "mount"
        /\ Current.name \in {".", ".."}
        /\ Shows("DIR") /\ UNCHANGED at /\ ReadsNothing
     \/ /\ todo # <<>> /\ Used(Current) /\ job.kind = "mount"
        /\ Current.name \notin {".", ".."} /\ Current.inode_num >= super.inode_count
        /\ Shows("ERR") /\ UNCHANGED at /\ ReadsNothing
     \/ /\ todo # <<>> /\ Used(Current) /\ Wanted
        /\ job.kind = "mount" =>
             Current.name \notin {".", ".."} /\ Current.inode_num < super.inode_count
        /\ ReadsInode(Current.inode_num, "inode") /\ UNCHANGED <<todo, shown>>
  /\ UNCHANGED <<job, super, blocks, reply, copied, requests, failed, wrong>>

InodeCame ==
  /\ Came("inode") /\ Good /\ Noted
  /\ \E inode \in AsInode(Sector, Current.inode_num) :
       \/ /\ job.kind # "cat"
          /\ Shows(IF IsDirectory(inode) THEN "DIR" ELSE "FILE")
          /\ at' = "entries" /\ ReadsNothing
       \/ /\ job.kind = "cat"
          /\ ReadsBlock(Head(inode.direct_blocks), "data") /\ UNCHANGED <<shown, todo>>
  /\ UNCHANGED <<job, super, blocks, reply, copied, requests>>

(* The line says so at boot; the server leaves it out. *)
InodeFails ==
  /\ Came("inode") /\ ~Good /\ Noted /\ job.kind # "cat"
  /\ IF job.kind = "mount" THEN Shows("ERR") ELSE Skips
  /\ at' = "entries" /\ ReadsNothing
  /\ UNCHANGED <<job, super, blocks, reply, copied, requests>>

DataCame ==
  /\ Came("data") \/ Came("dump")
  /\ Good /\ Noted
  /\ copied' = Sector /\ Ends("ok")
  /\ UNCHANGED <<job, super, blocks, todo, shown, requests>>

(* Any other failure ends the request: an ls with what it has so far.      *)
ReadFails ==
  /\ \/ \E p \in {"super", "root", "directory", "data", "dump"} : Came(p)
     \/ Came("inode") /\ job.kind = "cat"
  /\ ~Good /\ Noted
  /\ Ends(IF job.kind = "ls" THEN "ok" ELSE "error")
  /\ UNCHANGED <<job, super, blocks, todo, shown, copied, requests>>

(* No request comes any more, or none is served. *)
Stops ==
  /\ at = "panicked" \/ (at = "done" /\ requests = MaxRequests)
  /\ UNCHANGED relizVars

Reader ==
  \/ MountStarts
  \/ SuperblockCame \/ RootCame \/ NextBlock \/ DirectoryCame
  \/ NextEntry \/ InodeCame \/ InodeFails \/ DataCame \/ ReadFails

RelizNext ==
  \/ Reader
  \/ \E j \in Requests : RequestStarts(j)
  \/ Driver /\ UNCHANGED fsVars
  \/ DriveFinds /\ UNCHANGED fsVars
  \/ Stops

RelizSpec == RelizInit /\ [][RelizNext]_relizVars

(* The programs that read are scheduled; the drive may never answer.       *)
RelizFairness == WF_relizVars(Driver /\ UNCHANGED fsVars)
-----------------------------------------------------------------------------
(* Properties.                                                             *)

(* The image's own account of its root. *)
Kind(k) == IF InodeOf(k).file_type = 2 THEN "DIR" ELSE "FILE"
RootEntries == {RootDirectory[i] : i \in DOMAIN RootDirectory}
Lines(entries) == {<<e.name, Kind(e.inode_num)>> : e \in entries}

(* A listing shows what the image holds, less what could not be read, and  *)
(* all of it when nothing failed, though the drive may be late: only a     *)
(* sector of another read makes it lie. *)
ListingsAreTruthful ==
  at = "done" /\ ~wrong /\ job.kind \in {"mount", "ls"} =>
    LET truth == IF job.kind = "mount" THEN Lines(RootEntries)
                 ELSE Lines({e \in RootEntries : e.inode_num # 0})
    IN  /\ \A line \in shown :
             \/ line \in truth
             \/ /\ failed /\ job.kind = "mount"
                /\ \E e \in RootEntries : line = <<e.name, "ERR">>
        /\ ~failed /\ reply = "ok" => shown = truth
        /\ reply = "error" => failed

(* cat copies the block of the file it was asked for, and says that there  *)
(* is none only when there is none or a read failed. *)
CatIsTruthful ==
  at = "done" /\ ~wrong /\ job.kind = "cat" =>
    LET found == {e \in RootEntries : e.inode_num # 0 /\ e.name = job.name} IN
    /\ reply = "ok" =>
         \E e \in found : copied = RelizStart + InodeOf(e.inode_num).direct_blocks[1]
    /\ reply = "error" => failed \/ found = {}

(* The file system overflows no sector number and panics in no request     *)
(* that was given the sectors it asked for. *)
PanicsOnlyOnWrongSector == at = "panicked" => wrong

=============================================================================
