# MyOSv2: a TLA+ development

MyOSv2 is a hobby operating system for one ARM64 CPU.  The kernel is C in
`src/src`; the user side, in `src/user`, is a Lisp machine with an editor, a
musl port and demos.  This directory holds TLA+ modules translated from the
kernel's source, configurations that model-check them with TLC, and theorems
that the TLA+ proof system checks.  `PROJECT.json` maps every definition to the
lines it models and lists runs, mutants, findings, hazards and theorems.

To repeat a check: `tlc -config sched_proc.cfg SchedMC` (the module of each
run is in `PROJECT.json`), `tlapm SchedProofs.tla` for the proofs.

## 1. Inventory of the system

| Component | State | Operations | What must hold |
|---|---|---|---|
| Scheduler, processes (`sched.c`) | ring of `struct thread`, `current`, `slice_left`, `next_id`, `foreground`, per thread state, priority, parent, `wake_tick`, `wait_chan` | create, fork, exit, wait, yield, sleep, block, wait_event, wake, tick, kill, setpgid | one running thread, idle dispatchable, no lost exit or wakeup, priorities, no starvation, dead threads stay dead |
| Signals (`signal.c`, `exceptions.c`) | `sig_pending`, `sig_handler` | post, deliver on return to EL0, install | SIGKILL ends its target; posting never corrupts a state |
| Pipes and descriptors (`pipe.c`, `vfs.c`, `syscall.c`) | `fds[16]`, `struct file.ref`, ring, `readers`, `writers` | pipe, dup, dup2, fcntl, fork, close, read, write, exit | FIFO, end-of-file and broken pipe reach whoever waits, references equal descriptors |
| Address spaces (`vm.c`, `pmm.c`, `shm.c`) | page tables, `page_ref`, free pages, ASID allocator, shared objects, the CPU's TLB | create, clone, fault, sbrk, mmap, munmap, shm, switch, destroy | private memory stays private, shared stays shared, references equal owners, no stale translation |
| Kernel heap (`kheap.c`, `pmm.c`) | address-ordered block list, page frontier, free pages | kmalloc, kfree, grow, single pages | chunks disjoint and linked, no two free ones touch |
| exec, ELF (`proc.c`, `elf.c`) | image of a process | exec, spawn | the new image starts clean |
| Pty (`pty.c`) | two rings, edit line, termios, two ends | master/slave read and write, close, ioctl | no lost wakeup, echo agrees with the edit line, hang-up |
| Console, tty (`console.c`) | 256-byte ring, foreground group | interrupt, getc, Ctrl-C | no lost wakeup, EINTR |
| Seats (`seat.c`, `syscall.c`) | seat table, active seat | acquire, switch, release at exit | the screen shows the active seat |
| TCP (`tcp*.c`), sockets (`socket.c`) | control block, reassembly window, cwnd, RTO, accept queues | connect, listen, accept, send, recv, close, segment input, timers | in-order exactly-once bytes over a lossy network, orderly close |
| Network (`netstack.c`) | ARP cache, DHCP lease, UDP queue | frame input, resolve, ping, poll | a request gets its own reply |
| ext2 (`ext2.c`), ramfs | bitmaps, inodes, directories, on disk | create, write, truncate, rename, unlink | allocation is consistent, also after a crash |
| virtio drivers | descriptor and used rings shared with a device | submit, interrupt, collect | a buffer belongs to one side at a time |
| Lisp machine (`lm_core.c`) | cells, roots | allocate, collect, evaluate | nothing reachable is collected |
| Text and redisplay (`rd_core.c`, `lm_gfx.c`) | gap buffer, interval table, window tree, front and back grid | insert, delete, propertize, split, delete, lay out, diff, flush | properties move with their text, the tree stays a tree, screen equals buffer |

Interactions.  User programs enter the kernel through `svc`
(`el0_sync_handler`, `do_syscall`).  Exceptions mask interrupts, so a system
call is atomic until it calls `schedule()`; what other code sees half-way is
exactly the state at such a call.  Interrupts (timer, UART, network, input) are
taken at EL0 or in the idle loop, wake channels and may switch threads.
Components meet at `sched_block` / `sched_wake` on a channel (the address of a
field of a pipe, pty, console or device), at the reference counts of `struct
file` and of frames, and in `fork` and `thread_exit`, which touch all of them.

Hard behaviours: interleavings at the blocking points; memory of threads,
pipes and frames freed while somebody points at it and handed out again;
signals that meet a thread in any state; bounded rings; on the network loss,
reordering and timers; on disk, a crash between two writes.  The list with
source lines is `hazards` in `PROJECT.json`.

## 2. Plan and what has become of it

Order: the core first, since everything else sleeps, wakes and dies in it.

1. `Sched`, `SchedMC`, `SchedProofs`: threads, signals, interrupts.  Done.
2. `Pipe` refining `Channel`; `Vm` refining `Memory`.  Done.
3. `Tcp` (with the reassembly queue and stream sockets), `Net` (ARP, ICMP, UDP,
   DNS, DHCP, datagram sockets, the driver's buffer).  Done.
4. `Ext2` refining `Store`, with stops of the machine between the writes of two
   sectors.  Done.
5. `Heap`; `Pty`; `Seat`; `Text` refining `Styled`; `Windows` refining
   `WindowRow`; `LispGc`; `Redisplay`.  Done.
6. Proofs: `PipeProofs` and `VmProofs` (invariants and refinements), `NetProofs`,
   `PartsProofs` (`Heap`, `Pty`, `Seat`, `LispGc`), `EditorProofs` (`Text`
   implements `Styled`, `Windows` implements `WindowRow`), `Ext2Proofs` (no block
   has two owners, no named file is freed), over the lemmas of `Counting`.  Done.
7. Open: proofs for `Tcp`; that `Ext2` implements `Store`; exec as an action of
   `Sched`; several windows and canvases in `Redisplay`; the congestion
   window as `tcp_cc.c` computes it.

Composition.  `Pipe`, `Pty`, `Tcp` and `Net` take from `Sched` only that a
runnable process runs again (`NoStarvation`) and that nothing comes between the
test of a condition and `sched_block`, which holds because interrupts stay
masked from the test to the switch.  `Tcp` contains the stream half of the
sockets and `Net` the datagram half with the driver's buffers; `Ext2` contains
what `vfs.c` and the system calls do around the driver.

## 3. Modules

### Sched

One variable per field group of `struct thread` and per global of `sched.c`.
The circular list is `queue`, the ring from `current->next` on; `Ring` appends
`current`, so positions in it are the order in which `schedule()` and
`sched_wait()` scan.  `pc[t]` says where the kernel stack of a thread that is
off the CPU will continue; it separates the three ways to be SLEEPING (in
`sched_wait`, in `sleep_ticks`, in `sched_wait_event`), which the code tells
apart by the return address only.  `wakeIn` is `wake_tick - jiffies`, so that
time does not grow.  `Slots` are addresses: a reaped struct keeps its contents
and dangling `parent` pointers stay, and `NewThread` may take the address
again, as `kmalloc` does.

`Schedule` is `schedule()`; every action that calls it contains it.  `Fork`,
`Exit`/`ThreadExit`, the three ways through the loop of `sched_wait`
(`WaitReap`, `WaitNone`, `WaitSleep`), `Sleep`, `Block`, `WaitEvent`, `Resume`
(their tails), `Wake`, `Kill*`, `SetPgid`, `TtySetFgPgrp`, `Signal`, the three
outcomes of `signals_deliver` (`DeliverNone`, `DeliverHandler`,
`DeliverDefault`), `Tick`, `DeviceIrq` and `CtrlC` are one handler each.
`ThreadExit(cs)` takes the set of channels that closing descriptors and the
display seat may wake, since which ones depends on other components.

Left out: register and FP contents, exit statuses, return values, `cwd`, exec.

Fairness.  `FairSpec` assumes strong fairness of `Tick`: the timer is periodic
and level-pending, so an interrupt raised while exceptions are masked is taken
at the next return to EL0 or in the idle loop; it may be disabled and enabled
again for ever, hence strong.  `KernelStep` is weakly fair: kernel code between
two blocking points runs to its end.  Nothing is assumed of user code.

### Pipe and Channel

`fds`, `ref`, the fields of `struct pipe`, and per process the call it is in.
A struct file is `<<pipe, writable>>`, since `pipe_make` creates exactly those
two.  `VfsClose` is the only place that takes references away and includes
`pipe_close`, its wakeup and the `kfree`.  `PipeRead` and `PipeWrite` run from
the entry, or from the return of `sched_block`, to the next block or the
return; `Resume` re-enters them.  `killed` is a pending fatal signal: the
process finishes its call first, because the loops do not look at
`sig_pending`, and then exits.  Either call works on either end, as in
`vfs_read` and `vfs_write`.

`Channel` is what a pipe promises: a bounded FIFO with end-of-stream and
broken-pipe answers.  `IsChannel` maps the ring to the sequence of its `count`
unread bytes.  Fairness: `Resume` and the exit of a killed process are weakly
fair, which is `NoStarvation` of `Sched` for processes of one priority.

### Vm and Memory

The unit is the page.  `pte[s][va]` is the L3 entry with its frame, the write
and execute rights and the two software bits; `page_ref`, `free` and the ASID
allocator are the globals; `tlb` is the CPU's cache.  A `Store` goes through
the TLB and, if the entry is read-only and copy-on-write, becomes `CowReuse` or
`CowCopy`: the fault, `cow_fault` and the retried store.  `Create` is
`as_create_elf` with arbitrary page contents.  Upper-level tables come from
`pmm_alloc` too; they are left out, so frames here are user pages only.
`Memory` gives each space an image of its own, copied by fork and changed by
its own stores, and shared objects seen by all who map them; `IsMemory` says
`Vm` implements it, step by step.

### Tcp

Two hosts that both run `tcp.c`, each with its control blocks `conn`, and the
segments under way, a set out of which any may be delivered, lost or delivered
and kept.  A blocking call is a loop around `net_pump` and `net_wait`, so an
action is one pass of such a loop (`ConnectAgain`, `FlushPass`, `LingerEnd`),
its entry or its end, or one segment taken in (`Deliver`, the whole of
`tcp_input` with its answers).  `FlushGiveUp` is the end of `tcp_flush` after
30 s, `FlushBroken` a signal.  Time, the congestion window and whether a
duplicate acknowledgement is the third are left open.  Sequence numbers wrap at
`SeqMod`.  `spoiled` holds the streams of which a retransmission was cut from memory
beside `sndbuf`, which happens after a call that gave up and reported success
(`tcp.c:284`, `tcp.c:567`), or in which the next write numbers again what a
timeout had sent into a closed window uncounted (`ahead`; `tcp.c:557`,
`tcp.c:584`); the properties speak of the others.  `lost` holds the bytes that
`ring_push` drops because the receive ring is full although `rcv_nxt` moves past
them (`tcp.c:400`).

### Net

Several processes inside system calls over the globals of `netstack.c`.  The
kernel does not preempt, so one process has the CPU until it sleeps in
`net_wait`; the frame it pumps is handled on its own stack and may itself have
to wait (an ARP exchange for an echo reply, the renewal of a lease).  Hence
`stack[p]`, the waits a process is in.  A timeout or a signal may end any of
them.  The driver's receive buffers, the socket queue and the ARP cache are
bounded and drop.  The DHCP server, the name server and the peers are external;
`world.acked` is the server's record of which address it acknowledged in which
exchange.

### Ext2 and Store

The block driver polls with interrupts masked, so calls do not interleave; what
cuts a call short is the machine stopping.  A call is therefore a trace of
images, one per block written, and a behaviour takes the last or, in `Stop`, any
earlier one.  `eb_write` is two writes of a sector, and the stop may fall between
them: `Halves(old, new)` is what such a block then holds.  A block of an inode
table, a bitmap, the superblock or the descriptors changes in one sector per write;
a pointer block changes in one entry, and is zeroed while nothing leads to it.  So
what tears is a block of data, which then holds one new and one old half, and a
block of entries.
Removing an entry adds its length to the one before it and leaves its bytes
(`ext2.c:1005`); adding one where the room ends up behind the middle of the
block writes a new length in the first sector and the entry in the second.
Torn there, the block shows the old bytes behind the new length.  `was` remembers
what those would show and `Behind` how removals change that; `revived` is set when a
stop showed an entry again.  `alloc_block`, `free_block`,
`alloc_inode`, `bmap_alloc`, `dir_add_entry`, `free_inode_blocks` and the calls
themselves are operators on such traces.  `Store` is what a file promises:
what was written is read, and a call changes one file at most; `IsStore` maps
the image to it.

### Heap

`heap[b]` is the header at address `b` (size, free, next, prev) and `bump` and
`free_list` are those of `pmm.c`, from which growth takes runs of pages.
`Carve` is `split_block`, `Merged` the two tests in `kfree`, `Grown` is
`grow_heap`.  Interrupts are masked in both calls, so a call is an action.

### Pty, Seat, LispGc

`Pty` is one pair: `TypeIntr`, `TypeErase`, `TypeEof`, `TypeNewline`, `TypeChar`
and `TypeRaw` are the branches of `pty_master_write` for one byte, the reads run
to their next sleep, `Paint` is the terminal emulator.  `Seat` has the acquire
with its two registrations and a refusal for lack of memory, the switch, the
release in `thread_exit`, and the scanout.  `LispGc` has cells of two words,
the roots `gc_collect` scans, and an evaluator that holds what it works on in
C locals; what a local held may stay on the stack as a stale word.  Marking is
a set of words still to be looked at (`MarkOne`), emptied in at most one step
per root and two per cell (`MarkAll`), in place of the recursion on the C stack.

### Text, Styled, Windows, WindowRow, Redisplay

`Text` is the gap buffer and its interval table, with the table's limit and what
each caller does when it is reached; `Styled` is the sequence of characters with
properties that it implements; the walk of `rd_change_props` is a sequence of
stops (`Onward`), one per gap or interval met.  `Windows` is the node pool with the copying
deletion, its loops up and down the tree recursive functions on the nodes;
`WindowRow` the row of windows a user sees.  `SelectAt` is `select-window-at`,
which selects whatever leaf lies under a point, and `KillBuffer` gives every
window that shows the killed buffer another one.  `Redisplay` takes one
window through scrolling, layout, diff against the front grid and damage
rectangles to the panel; `spilled` is set when a frame had a run without a slot
that did not end at the right edge.

### PartsMC

The parts of item 5 share no state and interleave with nothing: `PartsMC`
declares them together and a behaviour is one of a single part, `part`, while
the others rest.  One TLC run then covers them all.

## 4. Runs

Bounds are named constants, set in the cfg files.  Each run ends within a few
minutes on two cores.

| Run | Instance | Shows |
|---|---|---|
| `sched_proc` | 3 slots, 4 pids, sleeps of 2, slice 2 | `TypeOK`, `IdleReady`, `NoLostExit`, `ForegroundAlive` with exits, orphans and reused addresses |
| `sched_signal` | 2 slots, 1 channel, SIGINT, 2 priorities | `OneRunning`, `NoStaleChan`, `PriorityRespected` |
| `sched_live` | 2 slots, 1 priority, SIGKILL, slice 2 | `NoStarvation`, `SleepEnds`, `WaitReaps`, `KillLands` |
| `pipe_safe` | 3 processes, 1 pipe, 2 descriptors each, ring of 1, writes of 2 | `RefsAreDescriptors`, `CallHoldsPipe`, `NoLostWakeup` |
| `pipe_channel` | 2 processes, 1 pipe, ring of 2, writes of 2 different bytes | `IsChannel`, `EofReachesReaders`, `BrokenReachesWriters` |
| `vm_cow` | 2 spaces, 3 frames, 1 shared object, a data, a heap and an mmap page | `RefsAreOwners`, `TlbCoherent`, `IsMemory` |
| `tcp_stream` | 1 connection and its listener, 3 bytes in two buffers, a receive ring with room for 2, 2 segments under way, 2 faults | `StreamPrefix`, `EofComplete`, `AckedReceived` |
| `net_calls` | 2 processes, one of which pings, 2 calls, 1 frame unasked, 2 DHCP exchanges, waits nested 4 deep | `ResolveIsOwn`, `PingIsOwn`, `AddressAcked` |
| `ext2_disk` | 4 data blocks, 3 inodes, 2 names, 3 entries to a block (2 in its first sector), 1 stop | `OwnedOnce`, `LinksCoverNames`, `WriteThrough`, `IsStore` |
| `parts` | see below | `HeapWhole`, `Coalesced`, `PtyNoLostWakeup`, `EchoShowsLine`, `ScreenFollowsSeat`, `IsStyled`, `WindowTree`, `IsRow`, `NothingReachableFreed`, `ScreenIsText` |
| `ext2_symlink`, `net_txbuf` | small | the findings below |

Why the bounds are enough for what is asked.

* Threads.  Three slots hold a parent, a child and an orphan or a newcomer at a
  reused address, and `MaxId` 4 lets one address be used twice; two slots and
  the idle thread suffice for the pairwise questions about signals and
  priorities.  `MaxId` only limits how many threads are ever created.
* Pipes.  Three processes give a reader, a writer and a third party who closes,
  takes the byte or holds a duplicate.  With two descriptors and one pipe the
  table is full after one `pipe()`, so the next fails with no descriptor, or,
  after a close, with one: the undo path.  A ring of one is full and empty at
  every step; a ring of two wraps.  Descriptors 0 to 2, the console fallback of
  `dup`, never touch a pipe and are left out.
* Memory.  Two spaces, a frame for the shared object and one for a copy give
  every fault and every order of release.  `TlbSize` 1 loses nothing:
  `TlbCoherent` speaks of one entry at a time, and an access uses one.
* TCP.  `MaxNet` 2 lets any two segments change places and a stale copy meet a
  new segment; `MaxFaults` 2 loses a segment and its retransmission, or loses
  one and repeats another.  `TCP_SNDBUF` 2 cuts the three bytes into two
  chunks, `SeqMod` 32 with `IsnStep` 10 lets sequence numbers wrap, and the
  reassembly window of 4 wraps as well.  `TCP_RXBUF` 3 is a ring with room for
  two bytes, so the third arrives while it is full: it is waited for, or, sent
  by a timeout into the closed window, acknowledged and dropped.
* Net.  `MaxCalls` 2 per instance gives each pair of calls in each order of
  their waits; `MaxStray` 1 and `MaxRenewals` 2 nest further exchanges into
  any of them, for which `MaxDepth` 4 leaves room.  With two lease exchanges the
  acknowledgement of one that was given up meets the next one's request.
* Ext2.  Four blocks are too few for a directory, a file of two blocks and a
  pointer block, so calls fail half-way at every allocation; three inodes are
  the root and two more.  `NDIR` 1 and `SLOTS` 3 let a directory outgrow its
  direct block, also in a call that then fails; `HALF` 2 puts the third entry
  of a block in its second sector.  `CrashCalls` lists the calls a stop may cut:
  truncate, link and rename are not among them (section 6).  `View` forgets
  what free blocks and free inodes hold, which nothing reads before it is
  overwritten, and what removed entries left where an entry now covers it.
  `Followed` ends a behaviour where a removed entry was read again, about
  which nothing is claimed.
* `parts`.  Heap: 5 pages, requests of a word and of more than a page.  Pty:
  two slave readers and one of the master, 3 bytes typed, rings of 3, an edit
  line of 2.  Seats: three clients for two seats and 3 frame buffers.  Text: 3
  characters, 2 intervals, so the table fills; 2 keys, 1 value.  Windows: 8
  nodes, 4 windows.  Lisp: 3 cells, a collection from the second on.
  Redisplay: a grid of 3 columns by 4 rows, up to 4 characters, an echo area of
  1 or 2 lines, 2 damage slots, so that a third run grows the second and may
  begin left of it.

`CHECK_DEADLOCK FALSE` where the system may stop: all processes have exited, all
bounded inputs are used up.  `SYMMETRY` is used in runs without liveness only.

Every property of a passing run has a mutant in `PROJECT.json`: an operator
next to the code's own, changed the way a slip would change it, under which TLC
finds the property violated.

### Findings

* `ext2_symlink`: removing a symbolic link frees the block whose number its
  target's text spells (`ext2.c:1017`).
* `net_txbuf`: a second sender overwrites the one transmit buffer while the
  first sleeps for its completion (`virtio_net.c:115`).

The modules also keep statements that the code's comments make and TLC refutes,
each with the instance named; they are not among the runs.

| Statement | Module, instance | What happens |
|---|---|---|
| `KillAlwaysLands` | `Sched`, `sched_live.cfg` | `sched_wait`, like the pipe and pty reads, sleeps again with SIGKILL pending; `signal.c:15` says the post unblocks the thread so that the signal can be delivered |
| `SleepNotCutShort` | `Sched`, `sched_signal.cfg` | `thread_exit` wakes any SLEEPING parent, also one in `sleep_ticks`; `nanosleep` returns early and reports success |
| `ReapsOwnChild` | `Sched`, `sched_proc.cfg` | parent pointers to reaped threads are never cleared; a thread at the reused address reaps a child it never had |
| `BatchAtomic` | `Pipe`, `pipe_channel.cfg` | a batch that fits in the pipe is split when older bytes are buffered; `pipe.h:12` calls it one atomic shot |
| `WriteThrough` with `disk.bbm = owned` | `Ext2`, `ext2_disk.cfg` with `MaxCrashes` 0 | when the block of a new entry cannot be had, the pointer block taken for it stays marked in use and no inode knows it (`ext2.c:468`); `ext2.c:223` says a host e2fsck sees a consistent filesystem |
| `WriteThrough` | `Ext2`, `ext2_disk.cfg` with `Unrefused` {"dirs"} and `MaxCrashes` 0 | opening a directory with O_TRUNC gives its blocks back (`syscall.c:259`); what was in it keeps its inode without a name |
| `OwnedOnce` and `LinksCoverNames` without `revived` | `Ext2`, `ext2_disk.cfg` without `Followed` | create b, rename it to a, with a's entry in a new block; create b again, torn: the block shows the old b, a second name for a's inode that its count does not cover; unlinking either frees the file the other still names (`ext2.c:165`, `ext2.c:1005`) |
| `ExecAsLoaded` | `Vm`, segments `OneRwx`, 2 frames, no objects | `as_clone` and `cow_fault` drop the execute right of a writable and executable segment, which `vm.c:156` sets out to support |
| `MmapTakesFree` | `Vm`, segments `StackAbove`, 1 space, 4 frames, `HeapBase` 1, `MmapBase` 2, `LastVa` 4 | `mmap_next` runs into the stack after 256 MiB of cumulative mappings |
| `PingIsOwn` without `SolePinger` | `Net`, `net_calls.cfg` with both processes calling "ping" | `ping_got` is one flag and `ping_id` the last one given (`netstack.c:250`): the answer to the later ping ends the earlier call with success (`netstack.c:276`), also when the host that one asked for is silent; `netstack.c:249` says the reply wakes our waiter if it matches |
| `WindowBoundsRing`; `AckedReceived` without `lost` | `Tcp`, `tcp_stream.cfg` | a retransmission into a closed window is acknowledged (`tcp.c:400`) and thrown away; `tcp.c:101` says the window bounds this |
| `ScreenIsText` without `spilled` | `Redisplay`, `parts.cfg` | a frame has more runs than slots, and the rectangle grown in place of a missing one loses its right end when a run starts left of it; `rd_core.c:1125` says it covers |

## 5. Proofs

Every proof is checked by `tlapm` to the last leaf, for all values of the
constants that the `ASSUME` of the component's module allows.

| Module | Proves of every behaviour | By the inductive invariant |
|---|---|---|
| `SchedProofs` | `TypeOK`, `OneRunning`, `IdleReady`, `NoLostExit`, `ForegroundAlive`, `NoStaleChan`; `PriorityRespected`, `ZombieUntilReaped` | `SafeInv` |
| `PipeProofs` | `TypeOK`, `RefsAreDescriptors`, `EndsAreReachable`, `CallHoldsPipe`, `NoLostWakeup`; `IsChannel` | `PipeInv` |
| `VmProofs` | `TypeOK`, `UsedNotFree`, `AsidUnique`; `RefsAreOwners` and `TlbCoherent` under `MapsFree` | `PagesInv`, exact counts |
| `VmProofs` | `SharingInv`; `IsMemory` under `MapsFree` | `PagesInv` and `SharingInv` |
| `NetProofs` | `ResolveIsOwn`, `PingIsOwn`, `AddressAcked` | `NetInv` |
| `PartsProofs` | `HeapWhole`, `Coalesced` | `HeapInv` |
| `PartsProofs` | `PtyBounds`, `PtyNoLostWakeup`; `EchoShowsLine` | the first two; `EchoInv` |
| `PartsProofs` | `ScreenFollowsSeat` | `SeatInv` |
| `PartsProofs` | `NothingReachableFreed` | `Sound` |
| `EditorProofs` | `IsStyled` | `TextInv` |
| `EditorProofs` | `WindowTree`; `IsRow` | `WindowsInv` |
| `Ext2Proofs` | `OwnedOnce`, `LinksCoverNames` under `CutSafely`, `LinksAreText` and `OnlyFiles` | `Sound`, until `revived` |

`Counting` holds what these proofs share.  About reference counts: a table gives
each owner a row of slots, a count is the cardinality of the set of slots that
hold a thing, and its lemmas say what changing a slot or emptying, filling or
copying a row does to it.  About recursive functions: `NatSetInduction` is
induction stated of a *set* of numbers, which the provers can instantiate where
the library's theorem, which takes a predicate, is beyond them; `Iteration` is
what it gives for a step repeated n times, with what the step keeps and a
measure it lowers; `LoopExists` and `LoopEnds` are the same for the loops "while
not there, go on" over the nodes of a tree.

### Threads

None of the first five invariants is inductive alone.  `NoLostExit` needs that a
thread with `pc = "wait"` was put to sleep after a scan that found no zombie and
that only the running thread can turn into one, hence `OneRunning`; `IdleReady`
needs `BootPlace` (the boot thread is only ever at "boot" or "idle");
`ForegroundAlive` needs that what leaves the ring is the thread `WaitReap`
compares with `foreground`.  `SafeInv` is their conjunction with `TypeOK` and
`BootPlace`; the step theorem has one case per action, and the facts about
`Schedule` and the ring are lemmas.

The action properties follow from a classification of steps (`StepKinds`): a
step calls `Schedule` on states that differ from the old ones by wakeups only
(`Switches`), keeps the CPU (`Stays`), adds a thread (`Joins`), or is `WaitReap`.
`NoStaleChan` is inductive over `SafeInv`: what sets a channel puts the thread
to sleep in the same step, and the continuation clears it.

### Pipes

`RefsAreDescriptors` is inductive, but what depends on it is not: that a call
comes back to a live pipe (`CallHoldsPipe`) needs that its file is still named
by a descriptor of the process (`CallsNamed`: only the process itself changes
its table, and it sleeps), so that the file has a reference, so that its end is
open, so that the pipe is live (`EndsAreReachable`).  `NoLostWakeup` needs in
addition that an open end has a count above zero, so that the last close is the
one that wakes.  `SlotsEmpty` is for fork, which fills the row of a process slot.

For the refinement, `RingKept` says the write index is the read index plus
`count` modulo the size; with it the unread bytes are a sequence, of which a
read drops a prefix and to which a write appends (`DropFront`, `TakeFront`,
`PutBack`), whatever the wrap.  Each action maps to one of `Channel` or to none.

### Address spaces

`PagesInv` needs no condition: entries are invalid or map a frame, only live
spaces have entries, ASIDs in use and ASIDs up for reuse are all different, and
a frame is counted *at least* as often as it has owners.  Hence `UsedNotFree`
and `AsidUnique` in every behaviour, also where memory runs out half-way.

That counts are *exact* and the TLB coherent is not true without a condition:
`map_page` overwrites whatever entry it finds, without giving the old frame up
and without invalidating.  It finds one when `mmap_next` has reached the stack
(`vm.c:529`), or when an earlier `brk` or `mmap` of several pages ran out and
left the pages it had got behind its unmoved pointer (`vm.c:526`).  `MapsFree` says
that the pages a mapping call fills are empty, and is the whole condition of
`RefsAreOwnersAlways`, `TlbCoherentAlways` and `VmImplementsMemory`.
`MapsFreeWhen` derives it: it holds while calls get all they ask for or nothing
and mmap stays below the segments above it.  With calls of one page and no
segment above the heap (`OnePageLayout`, which `vm_cow.cfg` satisfies) it holds
of every behaviour, so the `OnePage` theorems have no condition on behaviours.

The refinement needs to know who shares a frame.  `SharingInv`: an entry is
marked shared exactly if an object has its frame; a copy-on-write entry is not;
a page that can be written without a fault and is not of an object has its
frame to itself.  The last part makes a store private, and it is kept because
fork takes the write right away on both sides and `CowReuse` gives it back only
at a count of one, which `CountsCover` says is a single owner.  Each action is
then a step of `Memory`: fork is `Fork`, a store that faults or not is
`Store`, the mapping calls are `Grow` and `Attach`.

### Kernel heap

`HeapInv` adds the type invariant to `HeapWhole` and `Coalesced`; neither is
inductive alone, since `kfree` merges correctly only if neighbours in memory are
neighbours in the list (`TouchIsNext`), which needs the list ordered and
disjoint, and the list stays so under a merge only if nothing but the two
chunks lies where they lie.  The argument is about a well-formed list and goes
operator by operator: `CarveGood`, `AbsorbGood`, `KFreeGood`, `GrownGood`, then
one lemma per action.

### Terminals and seats

`WakesEnough` is the argument for `PtyNoLostWakeup`: whoever changes a ring wakes
all readers of it, and whoever closes an end wakes the readers of the other, so
a reader still asleep after a step is over a ring the step left alone.
`PtyBounds` says the rings and the edit buffer stay within their arrays; a push
onto a full ring drops.

`ScreenFollowsSeat` needs that a process has one seat at most and a dead one
none (`SeatsApart`), or releasing one seat could blank another, and that a
process which can draw does so in the buffer of its own seat (`DrawsInSeat`).

`EchoShowsLine` relates two ends that never see each other's state: the edit line
of the kernel and the screen of the emulator, with the echo still in the ring
between them.  `EchoInv` says that the screen *once it has painted all that is in
the ring* shows the line.  A byte painted by the emulator leaves that screen as
it is (`PaintedJoin`, by induction over the bytes in the ring); a byte echoed
paints one more (`ShowsChar`), an erasure its back, blank, back (`ShowsErase`),
an interrupt or a new line starts an empty line (`ShowsNone`); and where the ring
is full, so that a part of the echo is dropped, `faithful` ends.

### Collector

`Sound`: the words of every cell, garbage included, lead to cells that exist, and
so do the roots.  It is inductive because a sweep keeps exactly the marked cells
and marking ends with the marked closed under `car` and `cdr`.  The latter is
`Marking`, kept by each step: what a marked cell or a root leads to is marked or
still to be looked at.  `LeftOf`, twice the unmarked cells and the words to be
looked at, falls with each step, so after the number of steps that `MarkAll`
takes nothing is left to be looked at (`MarkAllGood`).  What the evaluator does is
covered because all it can put into a cell or a local comes from what it holds.

### Text and its properties

`TextInv` keeps the gap inside the buffer and the `Table` of intervals sorted, not
empty and without overlap, so that at most one interval lies over a position
and the first one that the lookup finds is the only one.  An insertion or a
deletion maps each end of an interval by a function that keeps order
(`InsertedTable`, `RemovedTable`), closing up what became empty
(`IvalsClosedProps`).  A change of properties first splits the two intervals across
its ends, which gives no position other properties (`SplitKeeps`), then walks:
after each stop everything before it has the changed properties, everything after
it is as it was, and no interval lies across it (`Walked`, `OnwardWalks`).  A table
that is full ends the call early, at a stop, and then `Styled` allows exactly
that: a change of a prefix of the stretch.

### Window tree

`WindowTree` says that links agree and no node is lost, but not why the loops up and
down the tree end.  `Whole` does: the leaves have numbers from left to right, each
node stands for an interval of them, its two halves meet in the middle, and there
are one fewer splits than leaves.  Going down narrows the interval and going up
widens it, so the loops end (`FirstLeafIs`, `LastUpIs`) and C-x o goes to the leaf
with the next number (`NextLeafIs`); selecting a window by a point is going to
any leaf.  `WindowsInv` is that such a numbering exists;
each command gives the new one from the old: a split repeats a number and moves
the later ones on (`SplitWhole`), the copying deletion drops one, whichever of
the parent and the sibling gives up its node (`DeleteWhole`), C-x 1 leaves one
(`LoneWhole`).  A buffer killed changes what leaves show and nothing else, so the
numbering stays (`RedressWhole`, `ReplaceWhole`, `KillBufferStep`).  The refinement follows, for the row a user sees is the leaves in
the order of their numbers; a split is refused when two nodes are not to be had,
which the number of nodes makes a matter of the number of windows.

### Files

Neither `OwnedOnce` nor `LinksCoverNames` is inductive: they speak of what names
lead to, and a call changes which that is.  `Sound` says instead that there is
*some* set R of inodes that count, with the root, for which the image is `Fine`:
slots of these inodes hold no block or one in use that no other slot of them
holds (`Apart`); the blocks of a directory are there (`Whole`); every entry leads
to R (`Closed`); a file has at least as many links as entries that name it
(`Covered`).  What names lead to is in every such R (`BelowCounts`), so both
properties follow, and a step may choose R anew: a file made joins it, one whose
last name goes leaves it.

A call is a trace of images, one per block it writes, and the machine may stop at
any of them.  `Fine` therefore carries a set X of entries not counted, for the
moments when a name is on disk before its inode is or after it has gone, and
`Pending` is the copy of an inode in memory that a call works on while the disk
holds the old one.  The argument goes operator by operator: what taking or
giving back a block or an inode (`AllocBlock`, `FreeBlocks`, `InodeTaken`,
`BlocksReleased`), mapping a block (`BmapAllocKeeps`), writing an entry
(`EntrySet`, `DirGrows`) and clearing one (`EntryVacated`) do to a `Fine` image;
the loop of a write by `Iteration`.  Then one lemma per call: for create, mkdir,
write, unlink and symlink *every* image of the trace is in `Sound`
(`CreateFileSound` to `UnlinkSound`), for truncate, link and rename the *last* one
is (`TruncateEnds`, `LinkEnds`, `RenameEnds`), with images in between that are not.

A stop may also fall between the two sectors of a block (`BlockTorn`).  A block of
data is in no way part of `Fine`.  A block of entries keeps, in its first sector, the
entries it had; in the second it shows either those of before or after the call,
which both are images of the trace, or what removed entries left there
(`HalvesSound`).  Of the latter nothing can be said, and `RevivedStays` says that
`revived` tells: the invariant is `revived \/ disk \in Sound` (`StopSound`).

Hence the hypotheses of the theorems.  `CutSafely`: `CrashCalls` is among the
five calls of the first kind; in the other three a stop does break the properties,
as section 6 says.  `LinksAreText`: no link's text spells the number of a block;
without it unlink gives a stranger's block back, which is the finding that
`ext2_symlink` shows.  `OnlyFiles`: no directory is truncated or written like a
file.  `ext2_disk.cfg` satisfies all three.  The other two calls of `Unrefused` may
be made: a directory moved under itself is no longer what a name leads to, and the
second entry beside a dangling link is a name like any other.  And the condition
within the properties, that no removed entry was shown again, is needed, as the
refuted statement of section 4 shows.

### Network

The kernel keeps the number of the last query and of the last ping, and no
record of what they were for.  `NetInv` says there are two histories, `A` the
names asked so far and `H` the hosts pinged so far, such that every query, answer
and echo, wherever it is (a wait, a static buffer, the transmit buffer,
the receive queue, the reply kept by the kernel), carries an identifier at which
the history has its name or its host.  A step extends a history or leaves both.
Then `ResolveIsOwn` follows for any number of processes, because a call waits
with its own identifier and takes an answer by it.  `PingIsOwn` holds of
one pinging process only (`SolePinger`), because `net_ping` does not keep the
identifier it sent.  `AddressAcked` speaks of the exchange as well as of the address:
a reply is applied only if it is the acknowledgement with the number the exchange
waits for, and the server acknowledges what a request of that number asks for, so
the answer to an exchange given up is never the address of a later one.
Identifiers here do not wrap; the kernel's are of 16 bits, so the theorems speak
of behaviours in which no answer is more than 65535 queries or pings late.

### Assumptions on constants

Besides that sizes are positive and sets of processes, spaces, frames, objects
and addresses finite: `Pipe` names a longest write (the lengths a system call can
pass are bounded) and at most 16 descriptors (`fds[16]`); `Vm` has at least as
many ASIDs as spaces (`AsidAssumption`: 65535, of which 256
can wait for reuse, where a task costs the kernel several pages);
the heap and mmap begin inside the user range; `Net` has a name server that is no
peer, and an address for the server to give out; no client of `Seat` is the
value that marks a free seat, and no buffer of `Windows` the one that marks a
free node; the keys of `Pty` do not name a backspace or a carriage return twice
(they are "erase" and "nl"); no cell of `LispGc` has the address 0, the word that
stands for all immediate values; the blocks, inodes and names of a disk are finitely
many.

### What stays model-checked

* Liveness: fairness and `ENABLED` are beyond the prover.
* `Tcp`: with a small `SeqMod` a stale segment is taken for a new one, so
  `StreamPrefix`, `EofComplete` and `AckedReceived` are not true for every value of
  the constants; the true theorem needs a bound on the age of segments that
  nothing in the code states.  The module computes with recursive operators,
  which the prover does not take.
* `Redisplay`: `ScreenIsText`, for the module's recursive operators.
* `Ext2`: `WriteThrough`, which equates counts and bitmaps with what inodes refer
  to where `Sound` only bounds them, and which needs that a directory has used up
  its direct blocks before it leaks one; `IsStore` compares what is
  read back, for which `Sound` would have to say what every block holds.
* Induction over data as such: what a recursive function computes is proved where
  an argument about a set of numbers suffices (`NatSetInduction`), as for painting,
  marking, walking and the loops of the window tree.

## 6. Not modelled

Device set-up, formatting, argument copying and font data have no behaviour
worth a model.  Vendored code in `src/user` (libvterm, TinyGL, musl patches),
the applications and the kernel's own tests are left aside; together with the
font tables and GL headers they are most of the source lines, so the share the
map covers stays small.  ramfs is a table that one call at a time uses; exec is
`Vm`'s `Create` and a parse of the ELF header.

Known limits of the models:

* `Vm` stops where memory runs out inside fork, exec or a fault, where the code
  uses the NULL it gets; ASID rollover is excluded by `AsidAssumption`; a `brk`
  or `mmap` of several pages that runs out half-way is excluded by `Lens = {1}`.
* `Ext2` has one block group and one indirect level, and descriptors are not
  kept across calls, so a file written through a descriptor after its last name
  went is not there.  Stops during truncate, link and rename are not in
  `ext2_disk`: truncate frees blocks before the inode forgets them, and link
  and rename write the name before the count, so a stop there can leave a
  freed block referenced or a count too low.  Entries have one length and none
  lies across two sectors; one that does can be torn itself, about which the
  models say nothing.  `Unrefused` switches on calls the code should refuse and
  does not: a directory moved under itself ("loop", the check in `Rename` is the
  model's), a second name for what a dangling link names ("twice", likewise
  in `Unused`), and a directory opened with O_TRUNC or written like a
  file ("dirs").  What a file's bytes spell when read as entries is left out.
* `Sched`, `Tcp`: `ThreadExit` is one step, although closing a TCP socket may wait
  for up to 3 s in `tcp_close` (`socket.c:63`); `Deliver` is `tcp_input` with its
  answers in one step, although `net_send` may sleep for the one transmit buffer,
  which `Net` models and `net_txbuf` is about.
* `Pipe`: `pipe()` gives everything back in one step when a descriptor cannot be
  had.
* `Seat`: a process that acquires twice gets another frame buffer, although
  `syscall.c:1187` says it gets the seat it owns; the frame of the last owner
  stays on the screen after its exit, although `sched.c:468` says none may.
  `ScreenFollowsSeat` leaves an owner aside whose frame buffer could not be had.
  The memory of a dead owner's frame buffer is given back by `as_destroy` while the
  display's resource still has it for backing (`sched.c:517`); frames of memory are
  `Vm`'s and not in `Seat`.  The resource is never destroyed, so the next owner of
  the seat is refused one.
* `Redisplay`: faces, wrapped lines, canvases and the seams between windows are
  left out.  A canvas replaced by text keeps its pixels where the grid had
  blanks before, and a changed face is not painted again until its cells are.
* `Tcp`: options, urgent data, the congestion window's growth and the RTO's
  value are left out.  A FIN of ours that is lost is never sent again.
