# RelizOS: a TLA+ model of the kernel and its servers

RelizOS is a small x86_64 microkernel: one processor, a table of eight task
slots, synchronous messages between tasks, and five programs in ring 3 (a
shell, a file system server, a disk server, an input server and a GUI server)
that work together by those messages. The repository has no tests; what the
system promises is in its code and comments. This directory models the kernel,
the programs, and the allocators, drivers and file system they rest on, checks
them with TLC on small instances, and proves the central facts about them with
TLAPS for every size of instance.

Paths below are relative to `src/kernel/src/`.

## The system

| component | state | operations | modelled in |
|---|---|---|---|
| scheduler, `task.rs` | task table (id, state, saved stack pointer, kernel stack), current index | spawn, save_current_rsp, select_next_task, start_first_task | Kernel |
| IPC, `syscall.rs` | CURRENT_KERNEL_STACK, the frames on the kernel stacks | send, recv, try_recv, yield, shutdown and the calls that only return a value | Kernel, Rendezvous |
| interrupts, `interrupts.rs` | TSS.rsp0, timer ticks | timer (switches tasks), keyboard, mouse | Kernel |
| byte queues, `interrupts.rs` | two rings of 256 bytes | push (interrupt handler), pop (input server) | InputQueue, ByteFifo |
| input server, `main.rs` | last scan code, mouse packet | drain queues, send events to the GUI, yield | InputServer, Servers |
| shell, `shell.rs` | command line, request in progress | take a key, run a command, ask the FS or the ATA server | Servers |
| FS server, `main.rs` | request in progress | list, read: a chain of sector reads, then a reply | Servers |
| ATA server, `main.rs` | request in progress | read a sector into the client's buffer, reply | Servers |
| GUI server, `gui/mod.rs` | windows, active window, mouse | poll messages, pass keys on, draw, yield | Servers |
| layout and dock, `gui/layout.rs`, `gui/compositor.rs` | window rectangles | add, remove, tile again; draw the dock | WindowLayout |
| console, `gop.rs`, panic handler in `main.rs` | WRITER lock, text cursor | print, blit, demo, report a panic | Console (the lock) |
| heap, `allocator.rs` | free list, USED_MEMORY | init, alloc, dealloc | HeapAllocator, Allocator |
| paging, `paging.rs` | frame cursor, page tables | allocate_frame, map_page, mark_all_user_accessible | Paging, AddressSpace |
| RelizFS reader, `relizfs.rs` | superblock | mount and list the root, at boot | RelizFS |
| ATA driver, `ata.rs` | device registers, the drive | read_sector by polling | AtaPio |
| disk image, `shared`, `host-tool` | the sectors of the partition | | RelizFS (the image as it is written) |
| GDT, PIC, PIT, PS/2 setup, boot | tables written once | | spawn, start, paging, heap and mount of boot |
| renderer, fonts, `builder` | pixels, files | draw, build | not modelled |

How they interact. Programs enter the kernel by `syscall`, or are interrupted;
either way the registers go to the kernel stack of the running task, the kernel
works with interrupts disabled, and it leaves through the registers saved on
the stack of the task it selected. A send and a receive meet in the kernel:
whoever comes second completes both, writing the result into the saved
registers of the other. Servers are loops around receive. Programs share one
address space: a request carries a pointer to a buffer on the client's stack,
and the server writes there. Keyboard and mouse handlers push bytes on the
queues that the input server drains. The ATA server is the only user of the
disk driver once boot is over, the GUI server the only user of the heap, and the
page tables are final when the first task starts. The console is the exception:
every program that prints, and the panic handler of whichever panics, takes the
same spin lock.

What makes each part correct:

* kernel: registers are never mixed up between tasks, whatever interrupts come
  when; a blocked call returns when, and only when, its message has changed
  hands; no send and receive that match are both left waiting; every task that
  can run does;
* programs: they never all block, never wait for each other in a circle, never
  take one message for another; a buffer is written only while its owner waits;
  every request is answered, every event passed on;
* byte queue: first in, first out, each byte once; only a full queue drops;
* input server: every press is reported, no message mixes two packets, and an
  overflow does no more harm than it must;
* heap: blocks, free nodes and their headers never share a byte, a freed block
  can be had again, and what splitting and padding lose is bounded;
* paging: no frame is handed out twice or forgotten, a mapping that runs out of
  frames changes no translation and can be retried, no table is ever given away;
* disk: a read returns, and returns the sector asked for unless one before it
  timed out; a listing or a file is what the image holds as long as it does;
* layout: tiles and dock keep apart and on the screen, and no difference of
  lengths goes below zero on a screen of a sensible size;
* console: a panic is reported to its last line. It is not: see below.

What is hard about it: preemption between any two instructions of a program,
three copies of the switching code that must agree on two registers, results
written through saved stack pointers of other tasks, replies that name no
request, buffers on foreign stacks, queues that overflow while the consumer is
blocked elsewhere, a drive that goes on with a command the driver has given up,
a lock that is taken in ring 3 as well as with interrupts off, and arithmetic
on unsigned lengths and sizes. The list with lines is `hazards` in
`PROJECT.json`.

## Modules

| module | what it is |
|---|---|
| `Messages` | messages, task states, and when a send and a receive match |
| `Rendezvous` | abstract specification of the IPC: programs, what each is waiting for, its buffer and its result register; nothing else |
| `Kernel` | scheduler, IPC calls, timer and device interrupts, kernel stacks and saved contexts; refines `Rendezvous` |
| `KernelProofs` | types, stacks, contexts, no missed rendezvous, for any programs; blocked calls, the running task, releases and the refinement of `Rendezvous`, for programs that never all block |
| `Servers` | the five programs over the actions of `Rendezvous` |
| `ServersProofs` | types, no deadlock, no circular wait, requests, replies and buffers in step: for any owners of windows, events and directories |
| `ByteFifo`, `InputQueue` | bounded FIFO, and the ring buffer that refines it |
| `InputQueueProofs` | the refinement, for rings of any length |
| `InputServer` | the input server between lossy queues and the GUI |
| `InputServerProofs` | what overflows cost is bounded: for any keys, queues, number of losses and movements of the mouse |
| `Allocator`, `HeapAllocator` | what an allocator promises, and the first-fit free list that refines it |
| `HeapProofs` | the refinement and the invariants, for any heap and layouts |
| `AddressSpace`, `Paging` | what mapping a page promises, and the frame cursor and table walk that refine it |
| `PagingProofs` | the refinement and the invariants, for any memory map, tables and pages |
| `AtaPio` | read_sector, register by register, against a drive that works on its own |
| `RelizFS` | the image, the reader at boot and the file system server's ls and cat, on top of `AtaPio` |
| `StorageProofs` | a late answer spoils one read, for any timeout; listings and files are the image's and no sum overflows as long as none has, for any requests and numbers in a stray sector |
| `WindowLayout` | tiling of windows, and the dock |
| `LayoutProofs` | the tiles fit, for screens of any size and any number of windows |
| `Console` | the console lock between the panic handler and system calls |
| `MCKernel`, `MCServers`, `MCInputQueue`, `MCInputServer`, `MCMachine` | the instances TLC checks |

The layers fit together: `Kernel` implements `Rendezvous`, `Servers` runs on
`Rendezvous`, and what `Kernel` has to assume of programs (`MayBlock`: they
never all block) is what `ServersProofs` proves of these five
(`SomeProgramCanRun`). `RelizFS` takes the file system server apart where
`Servers` only says that it reads a sector and then another or not: which
sectors, what they hold, and what it makes of them; each of its reads is a call
of the driver in `AtaPio`.
`InputQueue` implements the FIFO that `InputServer` takes for its queues, and
`Servers` takes from `InputServer` only that an event is sent or is not.

Every definition ending in `Faulty`, and the definitions marked "Faulty" in
their comment, is a plausible mistake in the definition below it. They are used
only to see that a property would notice: no specification refers to them.

### Kernel and the code

* `id`, `state`, `rsp`, `ktop` are the fields of `Scheduler.tasks`; `current`
  is `current_task_idx`; `kstack` is `CURRENT_KERNEL_STACK`; `rsp0` is
  `TSS.rsp0`. `frame[k]` is the register frame at the top of stack `k`, `cpu`
  the registers in the processor; both are reduced to whose registers they are
  and what rax holds: a call number not yet replaced by a result (`call`), 0
  (`ok`), -1 (`err`), anything else (`val`).
* A stack pointer is the number of the stack it points into. All frames have
  160 bytes and each is pushed at the top of the stack of a task in ring 3, so
  that a stack holds one frame and a second push overwrites it.
* Each action is one entry into the kernel, from the push of the registers to
  `iretq`: interrupts are off in between (FMASK, `cli`, interrupt gates), and
  the spin lock of the scheduler is never contended. `SwitchFrom` is the common
  end of `sys_send`, `sys_recv`, yield and the timer.
* `SendPanics` is `dest_id - 1` for destination 0 in a build with overflow
  checks, which is what `builder` makes.
* `SysOther` stands for the calls that return a value without touching the
  task table; what they print, draw or count is not modelled.
* `Filters` has no task that does not exist: a receive from one blocks, or
  misses, and nothing else can come of it.
* The pointer arguments of calls are taken to be the program's one buffer: the
  five programs pass valid pointers into their own stacks.

### Servers and the code

* `pc[p]` is the place in the program; a program that is blocked stands at the
  label its call returns to, with `op[p]` saying what it waits for.
* `mem[p]` is what the buffer that `p` passed in its request holds, `Shell` and
  `Fs` being the clients: `blank`, a sector, a listing or a file.
* The file system server reads superblock, inode and directory, then per
  directory entry one inode sector (and the data when reading a file). Which
  entries are in use, and their names, is data: the next read happens or not.
* A disk read succeeds or fails, at any time (`AtaReads`). One that succeeds has
  read the sector asked for; that it may be another one after a timeout, and what
  becomes of the listing or file then, is modelled in `AtaPio` and `RelizFS`.
* Windows belong to `Owners`, a set of tasks among 1 to 3: the GUI server calls methods of the layout that
  this commit does not define (`cycle_active_window`, `get_active_window`,
  `add_window` with six arguments), so who owns a window is a parameter. It is
  set to the three tasks whose numbers `add_window(1)`, `(2)`, `(3)` use, which
  includes two servers and makes the worst case: keys arrive at a server in the
  middle of a request. (A window of the input server or of the GUI itself would
  stop both; `add_window` gives them none.)
* No scan code maps to the tab key, so the input server never sends it.
* `Interrupt` queues an event, at most `MaxEvents` at a time; the input server
  turns an event into a message or into nothing.

### InputQueue, InputServer and the code

* A pop is three steps (`PopLooks`, `PopReads`, `PopAdvances`), one per access
  to shared memory that matters; a push is one step, since interrupt handlers
  are not interrupted and there is one processor.
* In `InputServer` bytes carry, for the properties only, whether the keyboard
  generated them as a repetition and which byte of which packet they are.
  `TakesScan` and `TakesMouseByte` include the send to the GUI: the server may
  be held up there for any time, during which the queues fill.
* The number of a packet, history too, comes round again only after more bytes
  than may be lost (`LastPacket`), so that two packets are never taken for one.
* Bit 3 of the second and third byte is free (`MouseByte`). They are low bytes of
  distances in two's complement: bit 3 is clear in 0 to 7 and set in -8 to -1, so
  that a mouse that moves slowly to the left or down sends such bytes as a fast
  one does. After a loss the server may take one of them for the first byte of a
  packet, and go on wrongly for as long as the next ones have the bit as well:
  nothing in the code bounds that. What holds for every mouse are two bounds.
  `spells` counts the times messages go from right to wrong, and needs a loss
  each time; `mixed` counts the wrong messages except those that begin with such
  a byte (`Misled`), and needs a loss for each.

### HeapAllocator and the code

* `free` is the list behind `head`, in its order; `live` the blocks the program
  holds, which the code does not record. Each of init, alloc and dealloc is one
  step: only boot and then the GUI server allocate.
* A node counts its header apart from its size, as in the code. `Payload` and
  `Rest` are the address arithmetic of alloc; `Taken` is its split. dealloc
  makes its node from the pointer and the layout alone.
* Memory is not modelled; that a node's header is intact when the list is walked
  follows from `NothingOverlaps`, the headers included.

### Paging and the code

* `next_region` and `next_frame` are the fields of the allocator; `TakesFrame`
  is the loop of allocate_frame, from the region of the cursor on.
* `table` is the memory that holds page tables. `way`, the indices that lead to a
  table, is history: it lets the properties speak of the tree. map_page is a
  step per level (`MapDescends`, `MapLinks`), so that each state in between, and
  the failure in each, is seen.
* map_page does not look for huge pages. `IsClear` assumes that none is in the
  way of the page it is called for: the boot loader maps the kernel and physical
  memory elsewhere.
* mark_all_user_accessible is one step: nothing runs beside it. `Walked` are the
  tables its nested loops come to, level by level, and `Visited` the entries of a
  table that they do not pass over; a walk that ends early misses what is beneath.
  At level 4 the code does not look for a huge page: the bit is reserved there.

### AtaPio, RelizFS and the code

* `step` counts the port writes of read_sector: the device register, low, mid
  and high byte, the command, and then the polling. The drive is `external`: it
  takes a command, and finds the sector or fails, whenever it likes or never.
  While it is active, a write to its registers may be lost. `latched` is the
  sector its last command named, and `buffer` whose sector came back.
* The sector count, the delay reads and the words of a sector are left out.
* `RelizFS` starts from the image host-tool writes: `Superblock`, `InodeOf`,
  `RootDirectory`. A sector that is read in the place of another may be taken for
  anything: `AsInode` and `AsDirectory` choose from `StrangeNumbers` then, and
  the sums that follow have the width of the code (`MaxU32`), which is enough for
  the image itself (`ImageAssumption`). A stray directory has one entry at most:
  more would be treated one by one in the same way, and nothing is claimed of a
  request that was given a wrong sector.
* `job` tells the three readers of a directory apart: the mount at boot
  (relizfs.rs), ls and cat (main.rs). They disagree on which entries are in use
  (`Used`) and on which blocks to read (`BlocksToRead`). The loop over the blocks
  and the loop over the entries of one are `NextBlock` and `NextEntry`: a block of
  number 0, and an entry that is free or not the one looked for, is a step that
  goes on to the next. dump reads any sector in between.
* `failed` and `wrong` are history.

### WindowLayout, Console and the code

* This commit's GUI server does not fit its layout.rs, so that windows come and
  go in any order (`AddWindow`, `RemoveWindow`) on any screen. The differences of
  `usize` are those of `Underflows`; `DockOverflows` is the one in the
  compositor.
* In `Console` a system call that prints is one step or, when the lock is taken,
  the end: it spins with interrupts off. The panic handler runs in ring 3 and is
  as many steps as it takes and releases the lock. A fault while a print or the
  demo draws, which would take the lock a second time, is not modelled: it would
  be one in the drawing itself, which is left out.

## Runs

| run | instance | what it shows |
|---|---|---|
| `kernel_ipc` | 3 tasks in 4 slots, destinations 0 to 5, one message body | types; contexts are never mixed up (`ContextIntegrity`); a blocked call's frame stays its own (`BlockedCallPending`); no missed rendezvous; a task is released only by the delivery it waits for; `Kernel` implements `Rendezvous` |
| `kernel_live` | 3 tasks in 3 slots | round robin starves nobody |
| `kernel_blocked_runs` | 2 tasks, `AllMayBlock` | violation: when all block, the last one runs on |
| `kernel_destination_0` | 2 tasks, destination 0 | violation: a panic instead of -1 |
| `servers` | windows of tasks 1, 2, 3; 2 events; 2 directory entries | no deadlock, no circular wait, some program can always run; requests, replies and buffers are never out of step |
| `servers_live` | windows of tasks 1, 2; 1 event; 1 entry | commands end, events are passed on |
| `servers_list_error` | the same | violation: a listing that could not be read is a success |
| `input_queue` | ring of 4 slots, 2 byte values | the ring is a FIFO; accepted bytes are taken |
| `input_server` | 2 keys, queues of 2 bytes, 2 losses each | a press is missed only for a lost byte, and one press for each; mouse messages go wrong only for a lost byte, once for each; of the wrong ones there are no more than losses, leaving out those that bit 3 of a later byte misleads the server into |
| `input_repeat` | 2 keys | violation: a held key is reported twice |
| `machine` | a heap of 176 bytes; 4 tables and 6 regions; a drive, an image and 2 requests; 108 screens and 5 windows | the heap keeps blocks apart, accounts for them and implements `Allocator`; frames and tables stay good and map_page implements `AddressSpace`, also when frames run out; a late drive spoils one read per timeout, reads end, and a listing or a file lies, or the server panics, only after that; windows never collide |
| `panic_hangs` | shell, GUI and one more task | violation: the machine spins before a panic is reported |

`machine` puts four parts beside each other that share no state. A behaviour is
one of a single part (`part`), so that the run is the sum of four and not their
product: 67008 states.

Why the bounds are enough. Three tasks give a sender, a receiver and a third
that interferes, and all shapes of waiting the kernel tells apart (a filter that
names the sender, names another, names anybody). A fourth, empty slot exercises
the gap in the table, and destinations up to 5 both kinds of invalid ones: an
empty slot and beyond the table. The kernel copies a message body and never
looks at it, so one body suffices; the sender field, which it does write, is
checked. The theorems below do not depend on these bounds. Two events and two
directory entries let a second one arrive or be read while the first is under
way; the programs have no counter that would tell a third apart. In the ring of
four slots both positions wrap around, and it is empty, full and in between at
each of them. Two losses in the input server are enough for a second one to come
before the first has been recovered from. That run treats its two keys alike and
uses the symmetry between them; it has no property of a step or of liveness.

The heap starts at an address that is no multiple of 16 and holds two or three
blocks; the layouts have a size below, above and of a unit, and an alignment
below and above a header, so that nodes are split, taken whole, and padded, and
that an allocation fails. The memory map has regions with ends inside a page,
one without a whole frame, an unusable one and two that meet; the four pages
need one, two or three new tables and there are fewer frames than they need.
Two polls let a read time out and succeed; a timeout, its late answer and the
wrong sectors that follow fit in a mount and two requests. Strange numbers are 0
and the greatest sector number, which the sums exceed. The screens lie on both
sides of every bound of the layout. Where a run states
`CHECK_DEADLOCK FALSE` the system may stop: the kernel after a shutdown or a
panic. The runs of the programs and of the queues check for deadlock.

Fairness. `Kernel` assumes that boot goes on and that the timer interrupt keeps
coming; the PIT is programmed to 200 Hz and never stopped, and every path out of
the kernel enables interrupts again. No fairness is assumed of programs. With
the timer alone `RoundRobin` holds: a task that can run gets the processor.
That is the reason `Servers` may assume weak fairness of each program; its
steps between two calls are bounded computations (the disk is polled at most
100000 times). No fairness is assumed of interrupts, of the disk's success, or
of which of several senders a server takes: that is the lowest slot, in the
code and in the model. `InputQueue` assumes that the input server keeps popping.
`ReadsEnd` assumes that the driver's program keeps being scheduled, and nothing
of the drive. `Console` assumes strong fairness of each switch and of the steps
of the panic handler: every task has its turn again and again, and none of that
helps once the processor spins.

## Disagreements found

1. *A blocked task runs on* (`kernel_blocked_runs`, `task.rs:185`). If no other
   task is runnable, `select_next_task` returns with the current task still
   current, although `sys_send` or `sys_recv` just blocked it. The call then
   returns with the call number in rax and no message, while the table still has
   the task blocked. The five programs cannot get there: see `SomeoneCanRun`.
2. *Destination 0 panics* (`kernel_destination_0`, `syscall.rs:59`): the
   subtraction underflows before the test that was to return -1.
3. *A failed listing is a success* (`servers_list_error`, `main.rs:378`): the
   shell's "Error reading directory listing!" can never be printed.
4. *A held key is reported again* (`input_repeat`, `main.rs:83`): the release of
   any key resets the repeat guard.
5. *A panic hangs before it is reported* (`panic_hangs`, `main.rs:652`). A panic
   of a task is handled in ring 3 with interrupts on. If the timer switches away
   while the handler holds WRITER, the next system call that prints or draws
   spins for it with interrupts off. The panic to start with is that of `free`,
   which computes with a heap of 1 MiB (`shell.rs:226`) while the heap has 32
   (`main.rs:32`).

Met on the way, not runs: the tree does not compile at this commit (the GUI
server and `layout.rs` disagree on the layout's methods). `list_directory` at
boot shows "." and ".." where ls does not (`Used`). `find_entry` and `read_file`
of `relizfs.rs` are never called. Freed heap nodes are never merged.

## What is proved

TLC checks small instances; the theorems hold for every value of the constants
that the `ASSUME` of their module admits.

| theorem | says |
|---|---|
| `TypeCorrect` (KernelProofs) | types, task `p` in slot `p - 1`, and `StacksInv` |
| `ContextsPreserved` (KernelProofs) | `ContextIntegrity` |
| `NothingMissed` (KernelProofs) | `NoMissedRendezvous` |
| `BlockedCallsPending` (KernelProofs) | `BlockedCallPending` |
| `RunningAlwaysRunnable` (KernelProofs) | `RunningIsRunnable` |
| `ReleaseIsDelivery` (KernelProofs) | `ReleasedByDelivery` |
| `KernelImplementsRendezvous` (KernelProofs) | `ImplementsRendezvous` |
| `ServersTypes`, `SomeProgramCanRun`, `WaitsNeverClose` (ServersProofs) | `TypeOK`, `SomeoneCanRun`, `NoCircularWait` of the five programs |
| `ServersServeWaiting`, `BuffersAreLent`, `RepliesTrue` (ServersProofs) | `ServesWaitingClient`, `BufferLent`, `RepliesMatchRequests` |
| `InputQueueTypes`, `InputQueueImplementsFifo` (InputQueueProofs) | `TypeOK` and `ImplementsFifo` of the byte queue |
| `InputServerTypes`, `MissesArePaid` (InputServerProofs) | `TypeOK`, `MissesPaidByLosses` of the input server |
| `FramingIsKept`, `MixedArePaid` (InputServerProofs) | `SpellsPaidByLosses`, `MixedPaidByLosses`, for any mouse |
| `HeapTypes`, `HeapNeverOverlaps`, `HeapReuses` (HeapProofs) | `HeapTypeOK`, `NothingOverlaps`, `FreedCanBeReused` |
| `UsedIsAccounted`, `LossIsBounded` (HeapProofs) | `Accounting`, `LossBounded` |
| `HeapImplementsAllocator` (HeapProofs) | `ImplementsAllocator` |
| `PagingTypes`, `FramesStayGood`, `NoFrameIsForgotten` (PagingProofs) | `PagingTypeOK`, `FramesAreGood`, `NoFrameForgotten` |
| `TablesStayPrivate`, `UserReaches` (PagingProofs) | `TablesArePrivate`, `UserReachesAllPages` |
| `PagingImplementsAddressSpace` (PagingProofs) | `ImplementsAddressSpace` |
| `LateAnswersSpoilOneRead` (StorageProofs) | `OneWrongPerTimeout` |
| `ListingsStayTruthful`, `CatStaysTruthful` (StorageProofs) | `ListingsAreTruthful`, `CatIsTruthful` |
| `ImageNeverPanics` (StorageProofs) | `PanicsOnlyOnWrongSector` |
| `WindowsFit` (LayoutProofs) | `TilesFit` |

### The kernel

The assumptions are `KernelAssumption`: any `NSlots`, `NTasks <= NSlots`, bodies
and destinations. The first three theorems hold whatever programs do. The other
four assume `AllMayBlock = FALSE`: a program makes a call that may block only
when some other task can run. Without it they are false, as
`kernel_blocked_runs` shows. For the five programs it is a theorem:
`SomeProgramCanRun` says that in every state, that after a call that blocks
included, one of them is ready. That the programs run on `Kernel` as they do on
`Rendezvous` is the refinement; the two theorems are put together here, in
words, and not in a module.

The argument. `TypeOK` and `ContextIntegrity` are not inductive: nothing in
them says on which stack the next frame will be pushed. `StacksInv` adds it. A
task's saved stack pointer and its `kernel_stack_top` are always its own stack;
once programs run, `CURRENT_KERNEL_STACK` and `TSS.rsp0` both name the stack of
the running task; every other task's stack holds its own registers. A kernel
entry then overwrites the frame of the running task only, and the result
written for another task goes to that task's frame. Two lemmas carry this
through all actions: `ReturnPreservesInv` for the calls that return to the
caller and `SwitchPreservesInv` for those that end in `SwitchFrom`.

`BlockingInv` adds, for programs that never all block, that the running task is
ready and that a blocked task's frame still holds its call number; it needs
`MayBlock`, because otherwise the task that blocks may stay in the processor.
`NoMissedRendezvous` needs no such assumption: a call blocks only after it has
looked for its counterpart, and a release only takes waits away.

For the refinement the state of a program is mapped to what it can observe: its
entry in the task table, its buffer, and its rax, taken from the processor if
it runs and from its saved frame if not. Boot, preemption, device interrupts,
shutdown and panic map to stuttering (`BootMaps`, `InvisibleMaps`); calls that
fail, yield and computing to `Works`; a send or a receive to the action of the
same name. Preemption changes nothing a program can see because the frame the
switch saves is the context that was running.

### The programs

Assumed is `ServersAssumption`: windows belong to some of the shell and the two
servers, and there is at least one window; any number of events and of directory
entries. None of the six properties is inductive. The invariant `Inv` of
ServersProofs says where each program can be (`Places`) and what it can be
blocked in there (`Waits`), that no send and receive that match both wait
(`NoneMissed`), and what messages a server may hold (`Letters`). Its heart is
`InStep`: a server has a request of p (received, in work, or with its reply on
the way) exactly while p awaits that server's reply. One direction is
`ServesWaitingClient`; the other is what rules out the deadlock where a client
waits for a server that has forgotten it. From `InStep` the programs can be
ordered (input server, GUI, shell, file system, ATA server) such that a blocked
program waits for a blocked one only forward in that order, which is
`NoCircularWait`, and `SomeoneCanRun` follows by going from the end of that order
to its start. There is a lemma for each action that it keeps `Inv`.

A second invariant, `Content`, follows the data: what the server has put in the
client's buffer is what the request named, from the read to the reply that the
client finds. `RepliesMatchRequests` is its last link.

### The input server

Assumed is `InputServerAssumption`: any set of keys, queues of any capacity but
0, any bound on the losses. The properties bound harm done
(a press not reported, a message with bytes of two packets) by bytes lost, and
they are not inductive because harm is often settled long before it is done: a
release that finds the queue full spoils a press that is queued behind it. The
invariant counts what is still waiting. `KeyInv` adds to `missed` the presses in
the queue that will find the guard set (`ToMiss`: the scan code before them is
their own key's) and the one that would, were it to come next (`MissesNext`);
each loss raises the sum by one at most, and a step of the server moves a
press from one term to another. `MouseInv` does the same for packets: `Gaps` is
the number of places, in the packet under construction, between it and the
queue, in the queue and at its end, where a byte does not follow the one before.
A message of mixed packets has a gap inside if it starts with the first byte of a
packet, and uses it up. If it starts with another one, that byte has bit 3 set,
because the server has looked (`MouseTypes`), and it is not counted. So `mixed`
and the gaps together never exceed the losses. For `spells` the gap may be in
front of the message: it was used up by a message that was right, and the next
one starts in the middle of a packet. `Slip` keeps account of it: the last message
was right, but what the server holds, or will take next, is not the first byte of
a packet (`Framed`). Nothing is assumed about the bits of the second and third
byte; only that a first byte has bit 3 (`Marked`).

### Queue, heap, page tables, disk, layout

* InputQueueProofs: `QueueInv` adds to the types that every waiting slot holds a
  byte that was pushed. `Wrap` writes the remainder of a position out as a case,
  and `Arithmetic` and `Moves` say once where the waiting bytes are and how a push
  and a pop move them.
* HeapProofs: alignments are powers of two, of which `HeapAssumption` says what is
  needed: each divides 16 or is divided by it. The invariant adds to the types and
  to `NothingOverlaps` that a block's address is a multiple of its alignment and
  of 16 (`BlocksAligned`); `PayloadProperties` and the lemma on `AlignUp` carry
  the arithmetic. That a freed node serves its layout again (`HeapReuses`) is where
  the forgotten padding could have hurt. The sums are sets of bytes: `AccountInv`
  adds that the bytes in use are finitely many and `used` of them, and since no
  two blocks share one, a call adds or removes those of one block. For
  `LossBounded`, every byte of the node that serves an allocation is in the block,
  in the rest, in the padding in front or in a remnant too small for a node
  (`AllocLosesLittle`), and `LossOfOneNode` bounds the last two; a freed node is
  the bytes of its block (`FreedNode`), so that dealloc loses none.
* PagingProofs: after the marking, each entry that the processor meets on its way
  to a page is in a table that was walked (`WayIsWalked`), whatever else the
  frames hold. The frames handed out are those before the cursor (`CursorInv`;
  `FramesStayGood` and `NoFrameIsForgotten` are the two directions), tables and
  the frames of callers share none (`OwnersInv`), and map_page is where the walk
  to its page leads (`WalkInv`). The tables form a tree, each with its `way`;
  linking a zeroed table changes no translation,
  because a zeroed entry and a missing table translate nothing, and setting the
  last entry changes that of the page whose way it is.
* StorageProofs, the drive: `Clean` says that no earlier command is in the way of
  the read in progress. While it is false some timeout has spoiled nothing yet
  (`spoiled < timeouts`), and the read that meets the late answer makes it true
  again.
* StorageProofs, the file system: the truth of a listing is decided at its end,
  from what was shown entry by entry. `FsInv` says that a request that was given
  no wrong sector is on the track of the image (`OnTrack`): the read in progress
  is of the sector that this step needs, the entries still to do are a tail of
  the root directory (`IsRest`), and what has been shown is what those done
  deserve (`Told`). The last entry turns `Told` into the properties (`AllTold`);
  that the request has not panicked is part of the track. The requests, the
  numbers in a sector taken for another, the number of polls and the width of a
  sector number are arbitrary; the image is the one of `Superblock`, `InodeOf` and
  `RootDirectory`.
* LayoutProofs: `LayoutInv` says that every window is where the last change of
  their number put it, or that the screen is too small for them. What is left is
  arithmetic: `CellProperties` (the cells and the gaps between them are no higher
  than the screen lets them be, whatever the division cuts off) and `Multiples`
  place window i of n in the stack.

### Only model-checked

Liveness (`RoundRobin`, `CommandsEnd`, `EventsPassOn`, `BytesAreTaken`,
`ReadsEnd`) is beyond the prover, and so are the five disagreements, which are
counterexamples. Every invariant and every step property that a run finds true
is also a theorem.

## Not modelled

Drawing, fonts and the painting of windows, the text of commands and of their
output, device setup (PIC, PIT, PS/2, GDT), and the build tools: they compute or
print, with no state that a later step depends on. Of the GUI server, the
methods that `layout.rs` does not define in this commit. Of RelizFS, eight of the
ten direct blocks of an inode, and the functions nobody calls. A task that sends
to itself blocks for ever; the specification of the rendezvous allows that, and
no program does it. How long the GUI goes on draining messages before it draws
depends on the rate of input, of which nothing is assumed. Scan codes with a
0xE0 prefix.

## What could follow

`Kernel` and the five programs in one module, so that `SomeProgramCanRun`
discharges `AllMayBlock = FALSE` in a theorem and not in words; directories of
any contents in `RelizFS`; the windows of the GUI server over `WindowLayout` once
the two fit together.
