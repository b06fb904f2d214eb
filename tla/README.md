# VibeOS on Apple Silicon: a TLA+ development

VibeOS is a hobby operating system for AArch64: a kernel (`src/kernel/arch`,
`src/kernel/core`, `src/kernel/device`) and programs that run at EL0
(`src/userspace`). This directory models the parts of the kernel, and of the programs, whose
correctness depends on the order in which things happen: which thread runs
next, who wakes whom, what is on the disk after a power cut, who still holds a
page or a descriptor, which segment arrives first, whose window is on the
screen.

Contents

1. Inventory of the system
2. Modules and how they correspond to the code
3. What the runs check
4. Bounds, and why they are enough
5. Fairness
6. What is proved
7. Known disagreements between the code and what it says of itself
8. What is not modelled
9. Plan

Model-check with `tlc -config <run>.cfg <module>.tla` (table in section 3), prove
with `tlapm M.tla` for `JournalProofs`, `StorageProofs`, `IpcProofs`, `AddressSpacesProofs`,
`ThreadsProofs`, `WindowsProofs`, `TcpProofs` and `PartsProofs`.

## 1. Inventory of the system

Programs enter the kernel through `svc_dispatch` (`core/syscall.c`), one call at
a time per thread. Up to four CPUs take threads from run queues of their own;
a timer tick preempts. Nothing blocks except by `thread_block_on*`, a sleep or a
wait, all of which end in `yield()`.

| Component | State it keeps | Operations | Hard about it | Correct when |
|---|---|---|---|---|
| Scheduler, blocking, exit and wait, signals (`thread.c`, `irq.c`, `timer.c`, `cpu.c`) | list of threads, a run queue and a current thread per CPU, `stack_to_free` | create, yield, block/wake on a token, sleep, futex, exit, waitpid, kill | preemption inside a call, several wakers of one thread, an exit that races a wait | READY is exactly "queued once", no wakeup and no exit is missed, sleepers wake |
| Descriptor tables (`vfs.c`, `syscall.c`), lifetimes of pipes and ptys (`pipe.c`, `pty.c`) | table per process with a count, entries, reference counts of the objects | pipe, openpty, open, dup2, close, fork, spawn, clone, exit | every copy of an entry has to be counted; an object is freed by its last holder | counts equal entries, freed exactly when unreachable, an end that is gone stays gone |
| `/srv` name bus (`srv.c`) | listeners with a queue of pending connections, connections with a queue per direction | bind, accept, connect, read, write, close | blocking calls that read state again after they were woken | whoever sleeps still has to; ends are open while held; datagrams in order |
| User memory (`address_space.c`, `pmem.c`, `pmem_refcount.c`, `page_cache.c`, `elf.c`) | page tables, vmas, break, frame counts, page cache, TLB | exec, fork, fault, brk, mmap, munmap, exit | a count of 0 that means one holder, lazy copies, stale translations, running out of frames half-way | no frame lost or given twice, writable means private, programs see memories of their own |
| OSFS-2 journal (`osfs2_journal.c`) | header, slots and destinations on the disk | commit, replay | power cut or I/O error between any two sectors | a batch lands whole or not at all, and stays |
| OSFS-2 block cache and flusher (`osfs2_cache.c`, `main.c`) | slots with a dirty bit and an LRU stamp | read, write, flush, eviction | a flusher thread beside the system calls, failing write-backs | no write is lost, what fsync acknowledged survives |
| TCP (`tcp.c`) | sixteen connections: sequence numbers, rings, flags, a state | connect, listen, accept, send, recv, close, handle a segment, poll | loss, reordering, retransmission, wrap-around, half-closes | the two programs see two streams of bytes |
| userfs (`userfs.c`, `libfs`) | mount table entry and channel per daemon | mount, umount, call, respond | a daemon that dies or answers late, umount against a call | an answer goes to the call it belongs to, nobody waits for nothing |
| osfs2 metadata (`osfs2.c`) | inodes, bitmaps, directories | create, mkdir, open with truncation, write, unlink, rmdir | several allocations per call, any of which may fail | bitmaps, pointers and directories agree |
| tmpfs (`tmpfs.c`, `vfs.c`) | slots with buffers, descriptors with positions | open, read, write, lseek, close, unlink | reuse of a buffer or a slot, sparse writes | reads return what was written there last |
| Kernel heap (`heap.c`), heap of programs (`malloc.h`) | list of blocks with boundary tags; free list | kmalloc, kfree; malloc, free over sbrk | splits and merges at the limits | the blocks tile the heap, each is held once or free once |
| Window manager (`wm.c`, `wsd.c`, `wmclient.c`), frame buffers (`win_fb.c`) | two tables of windows and two stacks, focus, held keys; generations of shared pages | create, move, raise, minimize, destroy, pointer and keys; alloc, map, resize, release | several calls to two servers per operation, clients that die in between, clients that lag behind a resize | the screen shows the stack, the stacks agree, keys come in pairs to one window, pages are freed once and not early |
| Browser threads (`browser.c`) | request and result, page, history | resize, click, navigate, back, close | two threads, a page freed under a layout | what is shown was laid out from this page; nobody sleeps for ever |
| User-space lock (`thread.h`) | one word | mutex_lock, mutex_unlock | wake and sleep race, signals | one inside; no sleeper on a free lock |
| Shell and init (`sh.c`, `init.c`) | foreground process, jobs, children | spawn, pipelines, wait, Ctrl-C, respawn | children end in any order, spawns fail | Ctrl-C goes to the command that runs; a daemon that ended is started again |
| UDP, DNS, DHCP, ARP (`udp.c`, `dns.c`, `dhcp.c`, `net.c`) | port table, one pending query, offered lease, table of neighbours | bind, query, deliver, lease, learn | late and repeated answers, two servers, a full table | an address belongs to the name asked for, a lease to one packet |
| Pipes, pty line discipline, terminal window (`pipe.c`, `pty.c`, `gui_term.c`, `sh.c`) | two byte rings, a foreground pid, who sleeps on what | read, write, close, Ctrl-C; the event loop of the window | two rings in a circle, sleepers of both directions on one token, ends that close | nobody sleeps for what is there or will never come; Ctrl-C goes to the foreground; a window ends with its shell |
| virtio drivers (`virtio_*.c`) | rings shared with the device, indices that wrap, the handshake | bring-up, receive, transmit, one request at a time | the device runs between any two steps; completions that come late | a buffer has one owner, a frame is not overwritten, a request returns what the disk has |
| Keyboard input (`virtio_input.c`, `console_in.c`, `wm.c`) | ring of bytes, ring of releases, an escape-sequence parser, held keys | poll, pump, flush, push a key | events that arrive between two bytes; keys become bytes and keys again | what was typed arrives, in order, and no key stays held |
| Path resolution, osfs, ramfs, `/proc`, ELF and device-tree parsers, random numbers, ICMP, GIC, serial, boot | various | various | sequential or device protocols | not modelled, section 8 |
| HTML, CSS, layout, images, JavaScript; assembler, linker, compiler tools; applications | trees, buffers | transformations | sequential | not modelled, section 8 |

How they interact. System calls of a thread use the descriptor table, which
points at pipes, ptys, `/srv` connections, sockets and files. Blocking calls of
pipes, ptys, `/srv` and userfs all use the same block-and-wake primitive, with an
object as token. Fork copies the descriptor table and the address space, exit
drops both and wakes the parent. OSFS-2 sits on the block cache, the cache on the
journal, the journal on the block device. The page cache lends frames to page
tables. TCP is driven by system calls, by received packets and by a poll counter;
the network is polled from the calls that wait for it.

Interrupts. A system call is entered with interrupts masked. `cswitch_to`, however,
saves `SPSR = 0x345` (interrupts enabled) for a thread that is switched out, so a
thread that blocked inside a call goes on with interrupts on; comments in the
code (`syscall.c:782-786`, `srv.c:13`, `tmpfs.c:3`, `pipe.h:21`,
`osfs2_cache.h:51-55`) assume that no system call is preempted. Each module says
which of the two it models; `Threads` and `BlockCache` have a constant for it.

## 2. Modules and how they correspond to the code

Every definition that stands for code is tied to its lines in PROJECT.json
("map"). Definitions whose name has an underscore after an action's name
(`Miss_NoFlush`, `Rewind_KeepsFin`) or that are introduced by the comment
"Mutant:" are deliberately wrong variants that are part of no specification:
each shows that a property notices that mistake.

### Journal: `Batches`, `AtomicDisk`, `Journal`, `JournalProofs`, `MCJournal`, `MCStorage`

`Batches` holds the arguments of `osfs2_journal_commit`: an injective sequence of
destinations and their contents. `AtomicDisk` is the promise of
`osfs2_journal.h`: a batch begins, lands as a whole, and the call returns; a crash
may at most surface a batch handed over since the last one that landed.
`Journal` is the code, one write of a block per step: payloads, header,
destinations, zeroed header, each of which may fail (`PayloadFails`,
`HeaderFails`, ...), a `Crash` that tears the block being written, and the replay
of `osfs2_journal_replay` at mount, which may itself crash or fail. Variables:
`disk`, `jslot` and `header` are what is on the device, `pc`, `k`, `batch`, `ret`
the position in the code; `begun`, `committed` and `faults` are history. The CRC is
modelled by what it decides (`CrcOk`): collisions are left out. The refinement
mapping takes as abstract disk what the next mount would leave (`Recovered`).

### Block cache: `BlockCache`, `StorageProofs`, `MCBlockCache`

INSTANCEs `AtomicDisk` for the journal below it, so that the two compose: what
`Journal` implements is what `BlockCache` uses. A call is split where it waits for
the disk (`Miss`, `Evicted`, `Fill` or `Install`; `Flush`, `Flushed`). `lru` is the
order of the `last_used` stamps. `view` (what the callers wrote last) and `allowed`
(for each block what it held at the last flush that returned 0 and what was written to it since) are
history. `Crash` changes what the disk holds and leaves `allowed` alone, so that `FlushedStays` speaks of
what the crash and the recovery leave; only `Mount`, after that, starts it anew from the disk it finds. `Preemptible` says whether a system call may
run while the flusher is in the middle of its flush, which nothing prevents.

### Scheduler: `Threads`, `ThreadsProofs`, `MCThreads`

`pc` names the point a thread has reached between two places where another thread
or CPU may run; `Yield(c)` is the whole of `yield()`: drain `stack_to_free`, walk the
sleepers, take the next thread, requeue the outgoing one. `Read`/`Check`/`Park`/
`Parked`/`Woken` are `pipe_read_until` and the loops like it, with and without a
deadline; `FutexWait` tests and blocks under one lock; `Exit`..`Leave` and
`Waitpid`..`Waiting` are `thread_exit` and `thread_waitpid` step by step; `Signal`
and `Push` are the test and the wake of `thread_signal_pid`, which are not atomic.
`Does` says which calls each thread of an instance makes.

A system call enters with interrupts masked, but `cswitch_to` enters the next thread with interrupts on,
so that a call that has been switched out once goes on interruptible: `KernelPreempts` is TRUE in both
runs, and the tick may come at any point of such a call. `cut` is history: the threads that a tick has
taken the CPU from between a test and what follows from it (`Between`: nothing to read and not yet
BLOCKED, no zombie and not yet WAITING, EXITED and the parent not told yet). These are the exceptions that
`NoneForgotten` makes; a thread that tests again leaves `cut`. Nobody is in it when `KernelPreempts` is FALSE, which
is what the comments assume.

### Descriptors: `Descriptors`, `IpcProofs`, `MCIpc`

Tables, entries and the counters `r_refs`, `w_refs`, `refs` and `open_fds`, with
every call that creates, copies, replaces or drops an entry, including what
`thread_inherit_fds` and `dup_parent_fd_into_child` do at fork and spawn. The
counters of a pty include those of its two pipes. `Reached` asks which objects a living thread can
reach; `TablesExact` is the count of the tables themselves. A call is one step, except where it asks
the daemon of a user file system and blocks in `userfs_call` (`vfs.c:531`, `866`, `382`): an open has
found its slot but not taken it, a close and a last exit still have the entry, and `asked` says for
what the thread waits, until `OpenAnswered`, `CloseAnswered` or `ExitAnswered`. Meanwhile
the others run. `Careful` keeps threads from
changing a table they share with one that waits, which nothing in the code does (section 7).

### Name bus: `Srv`, `IpcProofs`, `MCSrv`, `MCIpc`

One step per stretch of a call between two `thread_block_on`. `asleep` are the blocked
threads, `op` the call each is in. A wake makes all threads of a token runnable, and
each runs its loop again later, in any order: this is where stale reads happen.
`Hasty` FALSE keeps anything from happening to a connection between the accept and
the client's next step, TRUE is the code (section 7).

### User memory: `AddressSpaces`, `AddressSpacesProofs`, `PrivateMemory`, `MCAddressSpaces`

Page tables with `rw`, `cow` and `cached` bits, the break, vmas, the frame counts with
their convention that 0 means "one holder, not tracked", the page cache in LRU order,
and a TLB that may keep any translation (`Walk`) until the code flushes it.
`ForkFails(w)` is a fork that runs out of frames for a table after page `w`; the
frames of the tables themselves are not modelled, so `w` ranges over all pages, more
than the code's table boundaries. `PrivateMemory` is what programs may rely on; the
mapping reads through the TLB first.

### Mounted daemons: `Userfs`, `IpcProofs`, `MCIpc`

One channel per mount with one call in flight, as `userfs_call` takes it: `Request`,
the reply of the daemon, the deadline, a signal; and daemons that are slow, die, leave
their loop and unmount, or are started again by init. Every call has a tag, so that an
answer can be told from the answer of an earlier call. The daemon knows its mount by an
index into a table that is compacted (`vfs.c:488`); the model follows the index. A
channel freed under a call is the end of the checked behaviour (`wild`, section 7).

### The volume: `Osfs2`, `StorageProofs`, `MCStorage`

The two bitmaps, the inodes with direct and indirect blocks and the directories of
`osfs2.c`. The volume is a record and a call is a function from volumes to volumes, so
that the order of the allocations inside a call, and what each failure gives back, is
the code's. A call is one step; how its blocks reach the disk is `BlockCache`.

### /tmp: `TmpFs`, `NamedFiles`, `StorageProofs`, `MCStorage`

`TmpFs` has the slots, their buffers (which come from `kmalloc` with junk in them, are
doubled and are kept by truncation) and the descriptors; `NamedFiles` is what a
directory of files promises. The refinement mapping reads the first `size` bytes of a
slot.

### The heaps: `Heaps`, `PartsProofs`, `MCAddressSpaces`

`kmalloc` and `kfree` over the boundary tags, `malloc` and `free` over the program's free
list and `sbrk`, in units of 16 bytes. Each is one step: the second holds its spinlock, the
first has no lock (section 7).

### The window system: `WmKernel`, `WmFocus`, `Windows`, `WinFb`, `WindowsProofs`, `PartsProofs`, `MCParts`

`WmKernel` is the kernel's table as one record, every system call a function of it.
`Windows` composes these calls in the order in which the handlers of the server and the
steps of a client make them, with the server's own table, stack and screen; `WmFocus`
lets them come in any order from anybody, between key presses and releases, because the
system calls check no owner. Geometry is abstracted to cells. `WinFb` is one frame
buffer: the pages of one size are one run of pages, with a table of stale generations
for the clients that still have an older run mapped.

### The virtio drivers: `Virtio`, `StorageProofs`, `MCStorage`

Seven drivers share three kinds of queue: receive (network, keyboard, tablet), transmit
(network) and one request at a time (disk, GPU, sound, random numbers). The driver's steps are those
between two accesses to shared memory, the device's come in between at any time. A position
in a ring is its 16-bit index modulo `Wrap`. A request may time out; after that (`late`)
nothing is promised. The bring-up is a sequence of status writes per driver (`BlkUp`,
`GpuUp`, `NetUp`, `InputUp`, `TabletUp`, `SndUp`, `RngUp`) that may fail at any step and leave
the device as it is.

### The keyboard: `Keyboard`, `MCStorage`

Presses and releases of the user, the driver's ring of bytes (as a terminal would send them) and its
ring of releases, and `wm_keyboard_byte`, which makes keys of the bytes again. `pump_input_into_wm`
takes one element per step and asks the device each time, so events come in between.
An arrow is three bytes and Escape is the first of them, which is what the parser has to tell apart.

### The terminal: `Terminal`, `PartsProofs`, `MCParts`, `MCTerminal`

`gui_term`, the shell and a command around the two pipes of a pty. One step per call that may
sleep; who sleeps is in `asleep` with the pipe, and a wake makes all sleepers of the pipe look
again. Signals are pending until the call returns, as `svc_dispatch` looks at them. The contents
of the output pipe is a number of bytes, the input is keys and line ends.

### The browser: `Browser`, `PartsProofs`, `MCParts`

The GUI thread, which owns page and history, and the parser thread, which lays out what
it is asked for on another CPU. A layout is what it was made from (the page, the version
of its DOM and the width), and freed pages are reused at once.

### The lock of user space: `Mutex`, `PartsProofs`, `MCParts`

`mutex_lock` and `mutex_unlock`: compare-and-swap, futex wait and wake, signals.
`Threads` has the futex calls themselves step by step.

### Shell and init: `Jobs`, `PartsProofs`, `MCParts`

What each spawns, which process is the target of Ctrl-C, and what `wait` took. Commands,
pipelines and background jobs; daemons that end and are started again.

### TCP: `Tcp`, `ByteStreams`, `TcpProofs`, `MCTcp`

One connection between two hosts that both run this stack. A step is one call into
`tcp.c`: a system call, `tcp_handle` of one segment, or what `tcp_poll` does to one
connection (`Reap`, `Rewind`, `ResendSyn`). The network is a set of segments that
arrive in any order or are lost; a segment arrives twice only when the stack sends
it twice, which the timer may do at any moment it is armed. Bytes are numbered, so
`ByteStreams` can say that each host reads the other's bytes in order, once each,
and then the end.

### The other protocols: `NetServices`, `PartsProofs`, `MCTcp`

The resolver's pending slot over the table of UDP ports, the exchange of the lease at boot,
and the table of neighbours. A datagram may come late, twice, in any order or never, and
is delivered by any thread that polls.

## 3. What the runs check

Parts that share no state are checked in one run: its first state picks a part, and only
that part moves (`part` in `MCStorage`, `MCIpc`, `MCTcp`, `MCAddressSpaces`, `MCParts`).

| Run | Config | Checks | Shows |
|---|---|---|---|
| `storage` | MCStorage / MCStorage.cfg | TypeOK, CommittedReplayable, NoTornBlock, VolumeSound, DevicesSound, KeysSound, OkIsDurable, ImplementsAtomicDisk, ImplementsNamedFiles | power cuts at every sector boundary and two I/O errors anywhere but in destination writes: commits are atomic and durable, no torn block is read; the volume agrees with itself whatever runs out; /tmp is a directory of files; the rings and the bring-up of the virtio drivers; the keyboard |
| `cache` | MCBlockCache / MCBlockCache.cfg | CacheIsFaithful, FlushedStays | calls and flusher one at a time, with errors and crashes: nothing written is lost, clean slots are copies of the disk, nothing acknowledged is rolled back |
| `cache_live` | MCBlockCache / MCBlockCacheLive.cfg | ReachesDisk | the flusher alone brings every write to the disk |
| `cache_preempt` | MCBlockCache / MCBlockCachePreempt.cfg | NoLostWrite, violated | a write during the flush is marked clean without being written (section 7) |
| `processes` | MCThreads / MCThreads.cfg | NoneForgotten, ReapedIsDone | one busy CPU, the tick also in system calls: reading, writing, sleeping, futex, signals, exit and wait; no wakeup and no exit is missed, but where a tick came between a test and its sleep; nobody is reaped who runs again |
| `threads_smp` | MCThreads / MCThreadsSmp.cfg | QueuesSound, NoLostFutexWakeup, EverybodyRuns | two CPUs, calls preempted: run queues, futexes, deadlines and sleep, safety and liveness |
| `ipc` | MCIpc / MCIpc.cfg | TypeOK, BusIsSound, CallsSound, CountsExact, DrainedInOrder, EndIsFinal | every sequence of descriptor calls of a process, with a child or a second thread that closes and exits; a service and two clients with full queues and signals; two mounts served by daemons that are late, die or leave |
| `srv_connect` | MCSrv / MCSrvConnect.cfg | WaitIsJustified, violated | a service that accepts and closes before the client runs leaves the client asleep (section 7) |
| `network` | MCTcp / MCTcp.cfg | AcksAreTrue, TimerArmed, NetServicesSound, ImplementsByteStreams | TCP under loss, reordering, closed windows, half-closes, sends that fail and a SYN that times out; the resolver, the lease and the neighbours |
| `memory` | MCAddressSpaces / MCAddressSpaces.cfg | FramesExact, TlbSound, HeapsSound, ImplementsPrivateMemory | fork, copy-on-write, lazy mappings, page cache and exhaustion; the two heaps |
| `userland` | MCParts / MCParts.cfg | ScreenIsCurrent, StacksAgree, WindowsAreOwn, FocusSound, FrameBuffersSound, BrowserSound, MutexSound, JobsSound, TerminalSound | the window system, the browser's threads, the lock, the shell and init, a terminal window |
| `terminal_paste` | MCTerminal / MCTerminal.cfg | PasteResolves, violated | a paste into a full pty while the shell's output is full: gui_term and the shell wait for each other (section 7) |

A property with several conjuncts is named for the part it belongs to: `CountsExact` is
`RefsExact` (counts equal entries) and `FreedWhenUnreached`; `BusIsSound` is `WaitIsJustified`
and `OpenIsHeld`; `FramesExact` has the counts, the free list and "writable means
private"; `AcksAreTrue` says of bytes and of a FIN that what is acknowledged was received;
`NoneForgotten` is about users, blocked readers and waiting parents, with the threads in `cut` as its exceptions; `EverybodyRuns` is
`ReadyRuns` and `SleepersWake`. `DevicesSound` has one conjunct per kind of queue and one for
the bring-up; `KeysSound` is `TypedArrives` and `NoStuckKey`; `TerminalSound` is
`SleepIsJustified`, `CloseEnds` and `InterruptIsForeground`. The types of the block cache,
TCP and the address spaces are conjuncts of `CacheIsFaithful`, `AcksAreTrue` and `FramesExact`.
`OkIsDurable` holds with errors in destination writes too, which the theorem of section 6 covers. The mutants of PROJECT.json each break one of the conjuncts.

The "expected violation" runs are kept because they document behaviour of the code
that its comments exclude; each checks one property.

`CHECK_DEADLOCK FALSE` is set where a system may legitimately stop: all programs of an
instance have exited or closed what they had (`processes`, `ipc`, `memory`, `userland`), or
all its bounded objects have been used up (`network`, `srv_connect`); `terminal_paste` is about the
deadlock itself, and states as an invariant what its state looks like.

## 4. Bounds, and why they are enough

* **storage**: *journal*: two blocks, two contents, two slots, two I/O errors; crashes
  unbounded. A batch of two is the smallest that can land in part; two errors allow a failed
  commit followed by a failed retry or a failed checkpoint followed by a failed replay. The
  theorems of section 6 lift all four bounds. *Volume*: three inodes, four blocks, one direct
  block per inode, two entries per block, two names: inodes, blocks, directory slots and the
  indirect block all run out. *tmpfs*: two slots, two names, two descriptors, files of two
  bytes in buffers that start at one, so that they grow; `Seeks` stays below `Word` and
  `StaleUse` is FALSE (section 7). *Drivers*: queues of two with indices modulo four, so that
  both wrap; two sectors with two contents, timeouts included; three device slots for two disks.
  *Keyboard*: a letter, an arrow, Escape and Shift, three presses, three events between two looks at
  the device, a ring of four bytes (an arrow and a letter fill it) and one of two releases.
* **cache**: three blocks over two slots, so that every access may evict and a commit
  may carry one or two blocks. `cache_live` and `cache_preempt` use two blocks over one
  slot: their questions concern a single slot and what happens to it.
* **processes**, **threads_smp**: three threads, one token. A parent and two children are the
  least for a wait with two exits, and for a waker, a sleeper and an interferer. `threads_smp`
  uses two CPUs, one thread of them on the second CPU, which alone has an idle thread; the
  boot thread never blocks there, so that the first CPU always has something to run
  (without it the boot CPU stops, section 7). In `processes` the boot thread keeps the one CPU busy in the
  same way; the two others make all the calls, with interrupts in them, so that each may be interrupted
  at each point while the other reads, writes, signals, reaps or is reaped.
* **ipc**: *descriptors*: two processes with three descriptors, of which one stands for the
  standard ones that `close` does not close (`FirstFd`, 3 in the code), one pipe, one
  pty, one channel; the first makes every call, the second, its child or a thread on its table, closes
  and exits; `DupKind` keeps dup2 from descriptors of user file systems, and
  `Careful` is TRUE (section 7). *Bus*: one service, two clients, one name, two connections, queues of one, two
  datagrams per direction: everything fills up at once. *Mounts*: two clients, two file
  systems, three calls, so that a late answer meets the next call, and so does the one after.
* **network**: *TCP*: rings and segments of two bytes, sequence numbers modulo 8 that wrap
  during the run, two segments in flight. The scenarios: three bytes to the server (a window
  closes, a segment is taken in part), one byte in each direction (simultaneous
  closes), one byte on a connection whose SYN times out, one byte from the client or from the
  server where any send of data may fail (`fails`). One child per listener, one
  shutdown per socket; descriptor allocation does not fail; the listener closes
  before the accept or not at all. The theorems of section 6 lift the sizes, the numbers and the loads. *Others*: two threads, two names, two ports, two
  transaction numbers; two servers; three addresses over a table of two neighbours.
* **memory**: two address spaces, three frames, an image of one page, a heap of two, a
  mapping area of one, a file of two pages, one page-cache slot, two threads, one TLB
  entry. With three frames a fork, a copy and a growth all run out. `Retries` FALSE
  keeps a program from asking again for a heap it did not get (section 7). The VIEW
  hides the contents of free frames, which no code reads before clearing them. *Heaps*: a
  kernel heap of 8 units and a break of 12 at most, requests of 2, 3 and 5 units: blocks
  are split, used whole because the rest is too small, merged on both sides, and run out.
* **userland**: *windows*: two applications and the desktop, two cells, two kernel slots, two
  windows of the server, two window numbers; a ring of one event. *Frame buffers*: four clients,
  three mappings, three stale generations. *Browser*: two pages, two urls, two widths,
  a history of two, two requests, one click. *Lock*: three threads, the least for one inside,
  one asleep and one that overtakes. *Jobs*: three children, three stages, two deaths of one
  daemon. *Terminal*: pipes of two bytes, pastes of up to three, so that a paste does not fit; one
  command at a time, and one that was put in the background is not reaped.

Symmetry is used for blocks, contents, clients, connections, frames, address spaces, threads of
the resolver, names and urls, never in a run with a liveness property.

## 5. Fairness

Safety and refinement are checked without any. `cache_live` assumes that calls in
progress go on, that the disk answers, that the machine is switched on again (weak
fairness) and that the flusher gets its turn infinitely often between system calls
(strong fairness on `Flush("flusher")`): `osfs2_flush_thread` sleeps five seconds and is
queued round-robin like any thread. `threads_smp` assumes that every CPU that runs a
thread in the kernel goes on and that its timer keeps ticking (strong fairness, because
a thread is only intermittently the one that runs), and that time passes. No fairness is
assumed of what programs do in user mode, except through the tick.

## 6. What is proved

`JournalProofs.tla` proves, for any blocks, contents, number of slots and number of
errors, with `BatchAssumption` and `JournalAssumption` (finite positive number of slots,
`Torn` and `NoBatch` distinct from real contents and batches):

* `TypeCorrect`: `[](TypeOK /\ ProgressInv)`, whatever fails.
* `OkMeansDurable`: `OkIsDurable`, whatever fails.
* `CommittedBatchSurvives`, `NoTornBlockRead`: `[]CommittedReplayable`, `[]NoTornBlock`.
* `JournalIsAtomic`: `ImplementsAtomicDisk`, every step of the journal is a step of the
  atomic disk or a stutter.

The last three assume `"dest" \notin FaultAt`: no destination write of a commit
*reports an error* (power cuts in the middle of one are included). The assumption is
necessary: with it dropped TLC finds a counterexample to `CommittedReplayable`
(section 7).

The argument. None of the three is inductive. `ProgressInv` says that the position in
the code determines which slots and destinations hold the data of the batch.
`HeaderInv` says what the header on the disk can be at each position, in particular
that a header left behind by a failed header or checkpoint write is either of a batch
that never touched a destination or of one that is all there: it can be overwritten, or
replayed, without harm. `TornInv` says that a torn destination is always covered by a
valid header. Together (`JournalInv`) they are inductive; `AppliedOverlay` and `DestStep`
are the two facts about overlays that the destination steps need. For the refinement,
`MappingFacts` computes the abstract state from the position, and `StepIsAtomic` goes
through the actions.

`StorageProofs.tla` proves `CacheLosesNothing`, `[]CacheIsFaithful`, and `FlushedSurvives`, `[]FlushedStays`, for any
blocks, contents and number of slots, with or without disk errors, with crashes at any point. It
assumes `~Preemptible`, the discipline `osfs2_cache.h` asks for, and `BatchAssumption` and
`CacheAssumption` (a positive number of slots, some content, `NoBlock` not a block); without
`~Preemptible` run `cache_preempt` refutes it. What is not inductive in it are the moments in which a call
waits for the disk. `CacheInv` adds: one caller at a time, and the flusher only flushes (`OpInv`); a block
is in one slot at most (`OneHolder`); a call that missed still misses, its victim is still dirty or clean
as it found it, a flush still covers every dirty slot (`CallInv`); the batch on its way is what its slots
hold, and once it has landed the disk has it (`DiskInv`); a batch that a crash may still complete brings
back only what was written since the last flush (`BegunInv`). Two lemmas on sequences carry the age order
of the slots (`WithoutFacts`) and the slot order of a batch (`BatchData`); then one lemma per action.

`StorageProofs.tla` also proves `VolumeStaysSound`, `FsSpec => []VolumeSound`, for any numbers of inodes,
blocks, direct pointers and entries of a block and any names (`VolumeAssumption`: at least one of each but
the blocks, of which there may be none), and any sequence of calls, those included that run out of inodes,
blocks or slots. `VolumeInv` has three parts. `Books`: what inodes refer to, by a direct pointer, by
the pointer to the indirect block or in that block (`Ref`), is referred to once and marked, and nothing
else is marked unless a call ran out half-way. `Tree`: where entries lead (`Leads`) is an inode in use, no
two lead to the same, none to its own directory or the root, and one leads to each unless a directory was
truncated. `Shapes`: sizes are within what the pointers reach, and a free inode refers to nothing; without
it the blocks of an inode that is made again would be lost. What is hard is a write, between whose
blocks the inode in memory is ahead of the volume: `Midway` says that the volume *with* that inode
(`With`) has sound books, that the others refer to what they did and that their blocks hold what they
held; `MidwayResolves` keeps it through `resolve_block` (the two ways of it are `DirectKeeps` and
`IndirectKeeps`, whose block may be the one that a pointer, the indirect block or an entry of it just got:
`PointerGains`, `EntryGains`), and `WriteEnds` and `WriteFails` come back to the invariant. For
directories, `SlotMade` (a slot is found or the directory grows), `EntrySet`, `TruncateKeeps`,
`TreeGains` and `TreeLoses` are shared by the calls.

Of the devices, `StorageProofs.tla` proves `DevicesStaySound`, `VirtioSpec => []DevicesSound`, for queues of any
size, indices that wrap at any larger multiple of it, any sectors and contents, any of the 32 slots and
any number of disks (`QueueAssumption`). The four parts of the state never touch each other and have an
invariant each. `RxInv` says beyond `RxSound` that neither ring holds a buffer twice between its two
indices; the lemmas are about such a window of a ring (`PutAtEnd`, `TakeFirst`), below them the
arithmetic of indices that wrap (`Window`, `WindowMoves`), and that indices less than Q apart name different
places although places wrap as well (`PlacesDiffer`, which needs the size of the ring to divide the 65536
of the code). `TxInv` says that published, taken, used and reaped follow each other around
the ring. `ReqInv` says where the one request is (`UnderWay`); it says nothing after the first timeout, from
which the driver does not recover (section 7). `UpInv` says that the steps a driver has left determine what
the device has seen of it (`Progress`); a plan enters the proof only through the order of three of its steps
(`PlansAreOrderly`) and through the buffers of those that receive (`ReceiversPost`).

Its last theorem is `TmpIsADirectory`: if no descriptor outlives its file (`~StaleUse`) and seeks stay below
`Word`, then `TmpSpec => ImplementsNamedFiles`, for any names, slots, descriptors and contents, any limit of the
size and any first capacity below it (`TmpFsAssumption`, `NamesAssumption`, `StoreAssumption`: "unnamed" is no name,
and no file, no descriptor and a dead one are no file and no descriptor). Both hypotheses are needed: without either
the property fails (section 7). `TmpInv` says that a file fits into its buffer, that a name is in one
slot only, and that a descriptor whose file was not unlinked is of a named slot at an offset of 32 bits. The
first is what `tmpfs_write` relies on after `tmpfs_grow_to`: `GrowingExists` shows that the recursive function of the
doubling exists for any limit, going down from the largest capacity, and `DoubledFacts` that it ends at or above what is needed and
not above the limit. `ChunkFacts` shows that a chunk put into a buffer, whatever it held beyond the file's end, is a write
to the contents with zeros in between, and `RestOf` that what is read from the buffer is what the contents hold. `OpensTo` is
shared by an open of a file that is there, one that truncates it and one that makes it; `TmpSteps` maps each
step to one of the directory.

`IpcProofs.tla` proves `CallersGetTheirOwn`, `UfsSpec => []CallsSound`, for any clients, any file
systems and any number of tags (`UserfsAssumption`: `NoOne` is neither a client nor a file system).
`CallsSound` is not inductive: that a late reply is nobody else's depends on who holds the channel and
on which channel a caller can still be in. `UfsInv` adds: a file system is in the mount table once
(`MountedOnce`) and a daemon that serves was given an index (`IndexGiven`); whoever is in a call is in
that of one file system, whose channel is there (`CallsAreOpen`); the owner of a channel, a dead one
included, is in the middle of a call on it (`OwnerIsSending`). A caller leaving a channel
(`ReleaseKeeps`), one taking it (`SendKeeps`) and a change of the channel that keeps its owner
(`ChannelKeeps`) preserve it; the lemmas of the actions say which of the three each of them is.

`IpcProofs.tla` also proves `CountsStayExact`, `DescSpec => [](DescTypeOK /\ CountsExact)`, and
`EndsAreFinal`, `DescSpec => EndIsFinal`, for any finite set of threads, any pipes, ptys and channels,
tables of any size and whichever calls each thread makes (`DescriptorsAssumption`; `ObjectsAssumption`:
objects and counters lie in different places). Both assume that dup2 and `spawn_redir` do not meet a
descriptor of a user file system, which they do not count, and that threads are `Careful` with a table
they share (section 7; without shared tables that is no assumption). The counters are cardinalities,
so that the proof is one of counting: `OneEntry` and `OneTable` say what changing an entry, or a table, does to
the number of the entries of a counter, `DropFrees` what taking from the counters does to the
objects. Every call is one of three things on top of them: an entry replaced by a copy of another or by
nothing (`Exchange`: close, dup2, the redirections of a spawn, twice in a row for
`spawn_pipe`), a table filled with copies (`Inherit`), entries of a table dropped (`CloseSome`); only pipe,
openpty and open bring new entries. The invariant `DescInv` adds what ties objects to counters rather than to
tables (`LiveWhenHeld`), that a table nobody uses holds nothing (`TablesExact`), and that a pty is unborn with its
pipes (`PtyTogether`), without which openpty could bring back an end of a pipe that was there before.
Next to it `AsLeft` says of a thread that waits for a daemon that its entry is as it left it, that nobody
else waits on that table, and that an exiting one has nobody to share it with; this is what the answer needs.

`IpcProofs.tla` also proves `BusKeepsItsPromise`, `SrvSpec => []BusIsSound`, and `BusDrainsInOrder`, `SrvSpec =>
DrainedInOrder`, for any services, clients, names and connections and any sizes of the listener table,
the pending queues and the datagram queues (`SrvAssumption`). They assume `~Hasty`, what `srv_connect`
counts on: a client that was woken by an accept runs before its connection is closed again; run
`srv_connect` refutes `WaitIsJustified` without it. `SrvInv` is what makes the two halves of `BusIsSound`
inductive: a listener belongs to one service and an unbound one has no queue (`ListenInv`); what a
thread in the middle of a call has at hand is still there (`CallInv`); a client in `srv_connect` is in the
queue, or accepted, or its listener is gone, and in the last two cases it has been woken
(`ConnectInv`); each entry of a queue is there once and belongs to a client that waits for it
(`QueueInv`); an end has one holder, of its side (`HoldInv`). TLC checked `SrvInv` first, on two services, two
clients, two names and two connections (382,941 states).

`AddressSpacesProofs.tla` proves `BooksStayExact`, `Spec => []FramesExact`, and `TlbStaysSound`, `Spec =>
[]TlbSound`, for any finite sets of address spaces and frames, any pages and files, and a page cache of
any size (`AddressSpacesAssumption`: the regions of an address space follow each other, no entry of a
page table is `None`). Both assume `~Retries`: a program does not ask again for a heap it did not get,
which loses frames (section 7). `FramesInv` is inductive. `Books` states the accounts of any page
tables, counts, free frames and page cache, so that the two halves of a step (`Exec`, the copy of a
write to a shared page, a miss that evicts) are two uses of it: the owners and the borrowers of a frame
are sets of places in page tables, the counts their cardinalities. Beyond `FramesExact` it says that an
address space has a frame of its own at one page only (`OwnOnce`: clearing pages then drops a frame
once, as the code does per page), that a page of the cache is never copy-on-write (`CachedPlain`), and
that a writable page has exactly one owner (`PrivateWrites`); `FreshWhenFree` that a struct without
references maps nothing. New frames for pages (`LoadKeeps`), cleared pages (`ClearKeeps`), a fork
(`ShareKeeps`), entries that change their permissions (`SameFramesKeep`), a line that is lent or evicted
(`BorrowKeeps`, `EvictKeeps`) keep the books; the lemmas of the actions say which of these each is. TLC
checked `FramesInv` first (128,049 states of the instance of run `memory`).

The same module proves the refinement, `MemoryIsPrivate`: under `~Retries`, `Spec =>
ImplementsPrivateMemory`. By `TlbSound` what a program sees is what its page table says, so that the view of
each address space is the contents of its frames, or, for a page of a mapping that has not been touched, what the
file holds. `ViewInv` is what keeps that true while frames are shared: the mappings of an address space do not
overlap (`VmasApart`), a line of the page cache holds what its file holds (`CacheHolds`), and
only pages of a mapping borrow a frame of the cache (`FilesAreMapped`). Every step then does one
of three things to the views, each a lemma: it moves pages without changing what they hold
(`PagesMove`: faults, copies before a write, evictions, calls that fail half-way), it stores one page
(`PageStored`), or it gives a child what its parent has (`Forked`).

`ThreadsProofs.tla` has two theorems about any number of threads, tokens and CPUs, and two about one CPU, all with
`ThreadsAssumption` (the threads of an execution are finitely many, each has a home CPU, the boot CPU has
no idle thread). All four assume that the boot CPU is busy, here with the boot thread, which only creates threads,
yields and, in the first pair, wakes others: with an empty queue and no idle thread `yield()`
returns to a caller that is not RUNNING, and what follows is in section 7.

* `QueuesStaySound`, `Spec => []QueuesSound`, and `FutexesLoseNoWakeup`, `Spec => []NoLostFutexWakeup`,
  hold with interrupts in system calls and other CPUs at every step, as long as no thread ends or is
  signalled (`Lasting`): the test and the wake of a signal are two steps (`Signal`, `Push`), between which
  another CPU may have queued the thread. `ThreadsInv` is inductive: a thread is queued, and runs, at
  home only; it is RUNNING exactly while its CPU runs it, but for the points just before a `yield()`
  (`PlacesInv`), where a waker may already have queued it; a thread asleep on a futex has a waker when its
  word has changed (`FutexInv`). A CPU with an empty queue and no idle thread then runs the boot
  thread (`BootRuns`), so that `YieldFacts` can say, once for all steps, what `yield()` does to states and queues.
* `NobodyIsForgotten`, `Spec => []NoneForgotten`, and `ReapedStaysDone`, `Spec => []ReapedIsDone`, are about
  one busy CPU (`OneBusyCpu`), with interrupts in system calls or without. The other threads make any calls,
  exits, waits and signals included, and the tick may take the CPU from a thread at any point at which
  interrupts are on: a parent may reap a child that was interrupted in the middle of `thread_exit`. `BusyInv` says of the
  thread that the CPU runs (`Working`) and of every other thread (`Resting`) where it is in which state,
  and at which points no interrupt can have come (`Masked`). `Hears` and `Sees` say what a test is worth: as long as
  a thread has not been interrupted since (`cut`), what it is about to sleep for is not there, or somebody
  is about to wake it, and a child that has ended and not told yet is the thread that runs. Steps are of four kinds:
  the thread goes on (`GoesOn`), makes others READY (`WakesUp`), reaps (`ReapKeeps`) or leaves the CPU
  (`LeaveKeeps`), of itself or to a tick (`BusyPreempt`). Several CPUs are out of the second theorem's reach
  because it fails there (section 7).

A push is a bijection from numbers to the threads it queues (`OrdersFacts`), so that a queue that holds each
thread once still does (`PushedFacts`). TLC checked `ThreadsInv` (452,175 states, the instance of run
`threads_smp`) and `BusyInv` (564,225 states of run `processes`, and 94,314 with `KernelPreempts` FALSE) first.

`WindowsProofs.tla` is about the window system, for any programs, kinds of windows, cells of the screen and places, any finite
sets of slots, kernel slots and descriptors, any finite set of keys and rings of any size (`WmAssumption`,
`WindowsAssumption`). It begins with what the stacks of both tables need: leaving out elements keeps the order of the others
(`WithoutFacts`), a stack that holds each slot once still does after a raise, and the positions in it order them strictly (`Above`).

* `KeyboardFollowsFocus`, `FocusSpec => []FocusSound`: whoever makes, raises, hides, presses and destroys which window in
  which order. `Table` and `Paired` are inductive together: the kernel's stack has the slots in use once, the
  focus is one of them, a window saw exactly the presses of the keys that are held if it has the focus and of
  none otherwise, and no key is held while nobody has the focus. `SetFocusKeeps` and `DestroyKeeps` are the two calls that move it.
* `ScreenStaysCurrent`, `WindowsSpec => []ScreenIsCurrent`, is inductive by itself: a handler that changes a window or the
  stack repaints everything, and the two repaints of some cells only, for damage and for the pointer, change nothing on a
  screen that is current (`RepaintsNothing`).
* `WindowsStayOwn` and `StacksStayAgreed`, `WindowsSpec => []WindowsAreOwn` and `[]StacksAgree`, need `WindowsInv`: `Sessions`
  says what the server and a program that waits for it think of each other, `Owned` that a window is of a connection that is
  served, that ids are used once, and that a window its program has not made a shadow for has none, `Shadowed` that a shadow
  belongs to the program of its window, and `Ordered` that a bound shadow passes presses on to the
  server, so that the kernel does not raise it by itself, and that the stacks agree as long as no call of the
  server has reached another window's shadow (`astray`; section 7 has how one does).
* `StackIsExact`, `WindowsSpec => []ZOrderExact`: the server's stack has every window once and nothing below the wallpaper.
  `Piled` is what a raise, a new window and a lost one preserve.

TLC checked `WindowsInv` and `ZOrderExact` first (408,884 states, two programs and the desktop).

`PartsProofs.tla` has the proofs of seven small components. `LockIsSound`, `MutexSpec => []MutexSound`, for
any set of threads, without any assumption on it: one thread inside at a time, the word tells whether
one is, and no thread sleeps on a free lock without a wake on its way. `MutexSound` with the types is
inductive (`MutexInv`): whoever falls asleep found the word 1, and then somebody is inside who will
wake. `TerminalIsSound`, `TerminalSpec => []TerminalSound`, for pipes of any positive size and pastes of
any length (`TerminalAssumption`). Two facts make it inductive: the signal is sent before the master is
closed (`ClosingIsSignalled`), and between the spawn and the end of the wait the command is not in the
background (`WaitsForForeground`). `JobsAreSound`, `JobsSpec => []JobsSound`, for any bounds on children,
stages and deaths and any daemons (`JobsAssumption`). The shell waits as often as it spawned and wait()
takes any child; without a background job the number of waits left is the number of children that are
not reaped (`WaitsAreExact`), and these are of the command (`MineAreKids`).

The same module proves `BrowserIsSound`, `BrowserSpec => []BrowserSound`, for any pages, urls and
widths, any number of requests and clicks and a history of two entries or more (`BrowserAssumption`;
`NoPageAssumption`: a null pointer is not a page). `BrowserInv` follows a request through the counters
(`SeqInv`: consumed, done, the request at work, req, in that order), and says where one thread can be
when the other is somewhere (`ThreadsInv`), that what the GUI thread waits for is under way
(`WaitInv`), that everything under way is for the page on the screen (`PageInv`) and the last request
for the last width (`LayoutInv`), and that a page that is being loaded knows its place in the history
(`HistInv`). `HistPushFacts` is the fact about `hist_push`; then one lemma per action.

The fifth is `FrameBuffersAreSound`, `FbSpec => []FrameBuffersSound`, for finitely many clients, any
number of entries and at least one stale generation (`FbAssumption`; in the code there are four of each). `FbInv`
adds what `FrameBuffersSound` leaves out: an entry that is free is empty and the entries are not overrun
(`EntriesSound`), and no two generations, nor one and the current run, have the same pages
(`RunsApart`): without it a client that leaves one generation could free the pages of another.
Two lemmas count: there is always a free run for a resize (`RunIsFree`: the owner of a run is the current buffer
or one generation), and when there are at least as many generations as entries, one is unused as long as
a client is current (`OneIsUnused`), so that no client is ever forced off its page. Both are pigeonhole
arguments over `FS_PigeonHole`; `LeastExists` is what `Min` of the community modules needs. TLC
checked `FbInv` with one and with three generations first (18,016 and 26,271 states).

The sixth is `HeapsAreSound`, `HeapsSpec => []HeapsSound`, for a kernel heap of any size, any requests of
at least a header and any limit of `sbrk` (`HeapsAssumption`). The blocks are what a walk along the sizes meets, a
recursive function, and nothing can be shown of it by induction here; `WalkExists` gives one such function
outright (what is met is the least set that is closed under the next block) and `BlocksAre` says
that any has to meet exactly a chain of blocks (`Chain`: they end where the next one or the heap begins), by taking
the greatest block of which it would be wrong. From there the proof speaks of chains. `TagInv` says of the headers
that they are one, that `prev_size` is exact, that of two neighbours one is in use, and what no reader asks for: that
what was once written beyond a header still fits in the heap (`Fit`). `CutKeeps` and `JoinKeeps` are the two changes a
call makes to the chain; between the two merges of `kfree` the freed block is the one that
may have a free neighbour (`Apart`). The program's half is about a list: `ReplacedFacts`, `RemovedFacts`, `InsertedFacts`
say what the three changes of a list do to the blocks in it, `TilesCut`, `TilesJoin` and `TilesGrow` what cutting,
joining and `sbrk` do to a tiling; whether the list is sorted plays no part, which is why the
missing merges of section 7 waste memory and lose none. TLC checked the invariant first (4,225 and 4,518 states).

The last is `NetServicesAreSound`, `NetSpec => []NetServicesSound`, for any threads, names and transaction ids, any
servers and neighbours, and tables of any size (`NetAssumption`: ports and addresses are not zero). `ResolverInv` says of
a query that no other met (`Alone`) that the slot carries its transaction id, and that whatever still travels with its port and
id is the answer to it: there the guard of `Resolve`, that a pair just drawn is not that of a late reply, is needed, which is what the code has
in place of a check of the name. `LeaseInv` follows what `dhcp_rx` stored until it is applied,
`ArpInv` says that the table is of the neighbours that were heard.

`TcpProofs.tla` proves `AcknowledgementsAreTrue`, `Spec => []AcksAreTrue`, `TimerStaysArmed`, `Spec =>
[]TimerArmed`, and `TcpImplementsByteStreams`, `Spec => ImplementsByteStreams`: the two programs see two byte
streams whatever the network loses, delays, repeats or reorders, for rings, segments and windows of any size, any initial
sequence numbers (`TcpAssumption`) and any connection in which neither host writes so much that its stream
runs through all the sequence numbers (`StreamsFit`). The last is a condition on the network rather than on
`tcp.c`: the model keeps a segment for as long as it likes, so that one from the previous turn of the numbers
would pass for a new one, which only a bound on the life of segments excludes, here as in any TCP. The numbers still
wrap, since they start anywhere, which is where a comparison in 32 bits can go wrong.

None of the three is inductive. `TcpInv` (checked by TLC on the instance of run `network` first) places every
number of a connection in the stream of its host: the byte k + 1 of h has the number `SeqNo(h, k)`, its SYN that of -1, its
FIN that of the first byte it did not write. `Sending` says that the transmit ring is the end of what the program wrote and that
`snd_una` is the number of its first byte; `snd_nxt` is in one of five places (`Numbered`): on the way (`Flowing`), beyond a FIN
(`Ending`, `Ended`), or where the timer of the handshake left it (`Rewound`, `FinLost`, the disagreement of section 7).
`Receiving` says that what the program read and the receive ring are the beginning of what the peer wrote, and `rcv_nxt`
the number after it; `Carries` says of every segment on its way that its data are bytes of the stream at its number and that its
acknowledgement was true when it was sent, and stays so; `Agree` is what the acknowledgements give; `Silent` that nothing but a SYN came from
a host whose handshake is not over, which is what saves a connection that was rewound; `Stated`, `Sockets` and
`Ends` tie the states to the descriptors, the listener and the end of the streams.

The proof goes along the code. `SeqNoFacts` and `AckFacts` are the arithmetic modulo the size of the sequence space, which
the provers do not have: `NoMultiple` and `OneRemainder` reduce it to multiplication by the quotient. Then one lemma per function of `tcp.c` on a connection in each of
its five places: `DrainKeeps` (`tcp_drain_tx`), `AckedKeeps` (`apply_ack`), `TakeDataKeeps`, `TakeFinKeeps`, `RewindKeeps`. A step of a host is then
described by what its peer and the network may rely on (`Moves`, `Turns`, `Says`), from which the invariant follows once and for
all (`PeerKeeps`, `NetKeeps`, `TurnKeeps`, `LiveTurn`), and the lemma of each action shows that it is such a step.
`StreamStep` maps the steps to the streams.

Everything else is model-checked only. Liveness (`ReachesDisk`, `EverybodyRuns`) is beyond the
prover. `KeysSound` compares what arrives with a fold over all that was typed: to prove it takes an induction over the
length of that sequence, with a theorem of the library that the provers cannot instantiate. `TypeOK` of `MCIpc`
only collects types, which the invariants above contain.
Finally, the theorems about `Threads` have a boot CPU that always has something to run, because the code needs it (section 7).

## 7. Known disagreements between the code and what it says of itself

Shown by a run:

* `osfs2_cache_flush` (`osfs2_cache.c:222`) clears `dirty` after the commit whatever was
  written to the slot meanwhile; `osfs2_cache.h:39` says "we never silently drop dirty
  data". Run `cache_preempt`.
* `srv_connect` (`srv.c:283`) learns of the accept only from `service_open` when it runs
  again; if the service has closed by then it sleeps for ever. Run `srv_connect`.
* A paste in gui_term is one write of up to 32 KiB to the master, during which it reads none of
  the shell's output. Pipes hold 4096 bytes; a shell that has filled its output sleeps until gui_term
  reads, and gui_term sleeps until the shell does (`pipe.c:132`); `gui_term.c:431-434` says that
  this "resolves in a few schedule ticks". Run `terminal_paste`.

Found by changing a constant or a bound of a run (no run of its own):

* A failed destination write (`osfs2_journal.c:351`) leaves a committed header; the next
  commit overwrites the slots and a power cut then finds a half-applied batch and nothing
  to replay, although the comment there says the next mount re-applies it (`storage` with
  `FaultAt` including `"dest"`, CommittedReplayable).
* With interrupts in system calls some threads are forgotten: those that `NoneForgotten` excepts (`cut`); without the exception
  it fails in run `processes`. A child whose `vfs_close_all` blocked comes back with interrupts on, is
  EXITED, and the tick takes the CPU from it before it has told its parent, who waits for ever
  (`thread.c:1655`), against `thread.h:276`. A reader that was woken once and finds the pipe empty again can be
  preempted between its test and `thread_block_on` and miss the next writer (`pipe.c:64`), against
  `pipe.h:21`.
* A parent on another CPU than its child scans under no lock that `thread_exit` takes (`thread.c:1573-1605`): it may find the
  child EXITED while that is still on its way to its last `yield()`, and frees the struct and the stack of a thread
  that runs (`BOnCpu1` as `Home` and two CPUs in run `processes`: ReapedIsDone fails after nine steps). Processes all live on CPU
  0 (`thread.c:623`), but a clone may be put on any (`thread.c:812`), and `thread_join` waits for it.
* The boot CPU has no idle thread: an exit with an empty queue leaves it in `wfe`
  (`thread.c:1725`), where its parent may still find and reap it, and nobody walks the sleepers (ReapedIsDone in run `processes`
  when the boot thread waits for its children instead of yielding). A read with a deadline on the
  boot CPU, when no other thread is READY, comes back from `yield()` in state BLOCKED, tests the
  deadline itself and returns to user mode; the next tick that finds a READY thread does not queue
  it again (`thread.c:1347`, `1350`; UserIsRunnable in the same run), although `thread.c:1457-1460` says that whoever comes back was made READY by
  a waker and "the scheduler then ran us and set state to RUNNING".
* `thread_exit` puts its own stack in `stack_to_free` and the `yield()` that follows frees it
  first thing, while the thread still runs on it (`thread.c:1692`, `1291`; `cpu.h:88` says
  otherwise). The model has the step, in variable `stack`.
* dup2 and `vfs_open_into` do not count descriptors of user file systems
  (`syscall.c:2105`): CountsExact fails when `DupKind` includes "userfs".
* A signal that ends `srv_connect` after the accept clears `client_open` without waking the
  service (`srv.c:296`).
* A heap growth that fails half-way leaves pages above the break; a retry overwrites their
  entries and the first frames are lost (`address_space.c:381`; `Retries = TRUE`,
  FramesExact), although `address_space.h:159` counts on the cleanup at destroy.
* A forked child inherits pages of mmap but starts with `mmap_brk` at the base and no vma: its
  first mmap shows them, although `syscall.c:821` says "a fresh range".
* TCP, a timer that fires during the handshake (`tcp.c:1064`): connect; the timer puts `snd_nxt`
  back to the SYN's number; the delayed SYN+ACK then sets `snd_una` one beyond `snd_nxt`; a
  shutdown now sends the FIN with the SYN's number, after which `snd_nxt = snd_una`, the
  timer is not armed and the FIN is never sent again. `TimerArmed` and the half of `AcksAreTrue`
  about the FIN are stated for connections this did not happen to (`early`);
  `ImplementsByteStreams` and the half about bytes hold for these too.
* TCP, a send that fails: when `tcp_tx` returns an error `tcp_drain_tx` stops (`tcp.c:428`) before it has counted the
  segment as in flight. If nothing else was, there are bytes to send, nothing is unacknowledged and the timer is not armed:
  `tcp_poll` does not send them, and if the program writes no more and the peer says nothing they stay. `TimerArmed` is
  stated for connections whose last `tcp_drain_tx` was not stopped so (`failed`), and fails without that;
  the other properties hold whatever fails. A FIN is counted as sent whether or not it was, and the timer sends it again. The
  other results of `tcp_tx` are ignored, so that a failure there is a lost segment, or undo the connection
  they were to begin (`tcp.c:486`, `836`).

* /tmp: with a seek above `Word` ImplementsNamedFiles fails, because `sys_write` and
  `tmpfs_op_write` cut the offset to 32 bits (`syscall.c:102`, `tmpfs.c:293`): a seek to 2^32 and a
  write overwrite the beginning of the file. With `StaleUse = TRUE` it fails too: `unlink` does not
  ask who has the file open, and the descriptor then reads and writes whatever gets the slot next.
* The shell: with a background job the wait of a foreground command may take the job instead
  (`mixed` in `Jobs`); `sh.c:889-894` and `1255-1259` promise a non-blocking `waitpid` at the prompt
  that does not exist.
* The browser: `browser.c:2861` says that only one layout pass is ever in flight; a click that
  changes the page lays it out with no wait for the parser thread, and the parser's older result
  is then absorbed over the newer layout (`crossed` in `Browser`).
* DNS: two threads in `dns_resolve` overwrite each other's pending slot (`dns.c:90`, `175`;
  `overlap` in `NetServices`). DHCP: an OFFER or a NAK that follows the ACK in the same poll
  overwrites the offered lease (`late`).
* Keyboard: with its exceptions dropped `NoStuckKey` fails: the release of a letter typed with
  Shift names the letter without it, and a press and its release that arrive after the drain of bytes
  (`syscall.c:291-313`; the drain of releases polls the device again) are delivered release first,
  although the comment there says "in the right order"; the key then counts as held.
* userfs: `sys_umount` frees a channel while a call without a descriptor is blocked on it
  (`syscall.c:1642`; `wild` in `Userfs`).

Found by reading, outside the models:

* The reader of a shell pipeline inherits the write end of its own input (`sh.c:1127`,
  `syscall.c:696`), so it never reads an end of file. (The model of descriptors has the
  inheritance; whether an end comes is a question about pipes.)
* TCP: a connection that reaches CLOSED with unread data after its descriptor is gone is never
  reaped, against `tcp.c:634-637`; a shutdown followed by a close frees unread data of a CLOSED
  connection; `sys_socket_connect` polls for ESTABLISHED only and misses it when a FIN follows in
  the same poll; once a side is reaped a retransmitted FIN is dropped and the peer stays in
  LAST_ACK; a descriptor kept after shutdown and reap holds a stale connection id; a lost last
  ACK of the handshake with an idle client leaves the child in SYN_RECEIVED; a close in SYN_SENT may later become
  ESTABLISHED with nobody to close it.
* `page_cache_get_or_load` drops its lock with the victim still findable (`page_cache.c:153`);
  neither `pmem` nor `kmalloc` takes a lock though secondary CPUs run threads; `tlbi` acts on
  the local CPU only (`address_space.c:349`).
* userfs: the mount of a dead daemon stays, so the respawned daemon's mount fails with -EEXIST
  and init respawns it for ever (`syscall.c:1558`, `init.c:94`); a mount id is an index that
  shifts when another mount goes, so that a daemon may unmount another's (`vfs.c:488`); a signal
  to one waiting client ends the mount for everybody (`userfs.c:215`).
* osfs2: `open` with `O_TRUNC` of a directory truncates it and orphans its children
  (`osfs2.c:955`); a failed second allocation of a new block loses the first; a failing
  `dir_create_in` leaves an inode typed as a file; a call is several commits, so that a
  crash may fall between them (`osfs2.c:519`). All four are outside `VolumeSound`.
* vfs: `vfs_open` claims its slot only after the file system's `open` returned (`vfs.c:528`), and
  `vfs_close` keeps the entry until the daemon answered (`vfs.c:866`), so two
  threads that share a table may get one descriptor or close one twice (CountsExact fails when `Careful` is FALSE); `vfs_open_into` drops the old entry and may
  fail afterwards, against its comment (`vfs.c:593`).
* Windows: a MOUSE_UP goes to whatever window reuses `g_press_slot` (`wsd.c:2061`); destroying a
  window may give the focus to a minimized one; the wallpaper takes the focus when it is bound; a
  stale kernel id reaches another client's window (`astray` in `Windows`); `wm.c` has no lock; a
  full event ring drops a press or a release (`wm.c:212`) against `wm.c:302`.
* Frame buffers: the exit of any thread of a client forgets the client's live mapping, and so does
  an exec (`win_fb.c:892`); the generation that is forced out is the one with the fewest
  clients, not the oldest as the comment says.
* Heaps: `kmalloc` has no lock (`heap.c:113`); the free list of a program is not in address order
  after it has grown, so that the coalescing "on the next pass" does not happen (`malloc.h`).
* Network receive: `virtio_net_drain_rx` calls the stack before it counts the buffer as seen; a reply
  to a next hop that is not among the neighbours polls again and re-enters on the same
  frame (`net.c:239`, `449`), although `net.c:79` says that queueing breaks this recursion.
* virtio: a failed bring-up leaves the driver's `mmio_base` set, so that the device counts as
  present; a request of `virtio_blk` that times out leaves `used_idx_seen` behind, and every
  later one takes its predecessor's completion (`virtio_blk.c:362`).
* virtio: the buffers of sound and random numbers are shared by threads that yield while they
  wait for the completion.
* Terminal: `read_line_raw` (`sh.c:458`) reads on at the end of its input, so that only the signal
  ends the shell of a closed window, although `gui_term.c:386-388` says that the end of file
  does; Ctrl-C at the prompt is dropped, because no process is in the foreground; a read entered
  with a signal pending sleeps with it, because `pipe_read_until` looks at it only after a wakeup.
* A failed respawn of a daemon is never tried again (`init.c:97`).

## 8. What is not modelled, and why

* **Within the modelled components**: the contents of a pipe beyond its length in one
  direction, line editing and the emulation of the screen; the registers of the virtio devices, the
  commands of GPU and sound, completions out of order (one request is in flight), `virtio_blk`'s
  own cache and the translation of addresses; the connection table of TCP; several CPUs in `AddressSpaces`; page-table
  frames; a signal between accept and connect in `srv`; several names and listeners; sockets and
  `/srv` entries in `Descriptors` (one owner, no counter); crashes and I/O errors in the
  middle of a call of osfs2; titles, pixels, coordinates and MOUSE_MOVE in the window system, and the
  kernel's own compositor, which the server replaced; what requests to a daemon ask.
* **Sequential code without a hard order of events**: path resolution, osfs, ramfs and
  `/proc` (read-only views), the ELF, device-tree and clock parsers, uaccess.
* **Device protocols**: GIC, serial and the frame-buffer device. A disk
  request is atomic per sector or fails in the models above it.
* **HTML, CSS, layout, images, JavaScript, the assembler, the linker and the compiler's tools**:
  recursive transformations of trees and text, most of the lines of the repository. What could
  be wrong in them is the data itself, which an abstraction to a few values leaves out; a
  transcription would be as long as the code.
* **Drawing and applications**: fonts, text, the GUI library's widgets, desktop and demos.
* **Boot** runs once, in order; **random numbers** are one lock around a generator; **ICMP** answers
  in the handler.
* **Dead or foreign code**: `*.bak`, `clip.deleted`, vendored sources, toolchain patches, the
  book, host-side scripts and tests.

## 9. Plan

Done: the journal with its proofs, block cache, volume and /tmp; scheduler; descriptors, name bus and
mounted daemons; user memory and heaps; TCP and the protocols beside it; the window system, the
browser's threads, the lock with its proof, the shell and init; the virtio drivers, the keyboard, the
terminal. Proved: section 6.

Worth adding, in this order: a crash between the commits of one call of osfs2; TCP's table of connections; an abstract bus that
`Srv` refines.

Theorems, by expected value: a
crash between the commits of one call, once `Osfs2` has it. No module declares a RECURSIVE operator, the
constants have named assumptions, and there is one action per operation, so that a proof is a lemma per
action.
