# A TLA+ model of the xv6-riscv system of this repository

The directory holds a model of the kernel under `src/xv6-riscv/kernel`, of
`mkfs`, and of the user programs with an algorithm of their own: init, the
shell, the allocator and the text utilities. TLC checks the modules on small
instances; TLAPS checks proofs about the kernel's concurrent parts for every
instance.
`PROJECT.json` lists the runs, the source lines every definition translates,
the hazards, and for every checked property a change of the code's model that
breaks it.

    tlc -workers 2 -config MCStorage.cfg MCStorage   # one run
    tlapm PipeProofs.tla                             # the proofs of one module

## The system and its parts

| part | source | state | operations | module |
|---|---|---|---|---|
| redo log | `log.c` | `log.lh`, `outstanding`, `committing`, log and header on disk | `begin_op`, `log_write`, `end_op`, `commit`, recovery | `Log` |
| buffer cache | `bio.c` | LRU list, `refcnt`, `valid`, buffer locks | `bget`, `bread`, `bwrite`, `brelse`, `bpin`, `bunpin` | `BufCache` |
| disk driver | `virtio_disk.c` | descriptors, avail and used rings, `info[]` | `virtio_disk_rw`, `virtio_disk_intr`, the device | `VirtioDisk` |
| blocks and contents | `fs.c` | bitmap, dinodes, data blocks, inodes in memory | `balloc`, `bfree`, `bmap`, `readi`, `writei`, `itrunc` | `Blocks` |
| mkfs | `mkfs/mkfs.c` | the image | `ialloc`, `iappend`, `balloc`, `main` | `Mkfs` |
| inodes, directories | `fs.c`, `sysfile.c` | dinodes, `itable`, entries, `cwd` | `open`, `create`, `mkdir`, `link`, `unlink`, `chdir`, `chmod`, `iput` | `Inodes` |
| open files | `file.c`, `sysfile.c` | `ftable`, descriptors, `f->off` | `open`, `dup`, `fork`, `close`, `read`, `write`, `lseek` | `OpenFile` |
| pipes | `pipe.c` | ring, `nread`, `nwrite`, open ends | `pipewrite`, `piperead`, `pipeclose` | `Pipe` |
| console input | `console.c` | `cons.buf`, `r`, `w`, `e` | `consoleintr`, `consoleread` | `Console` |
| serial output | `uart.c`, `console.c` | transmit ring, device registers | `consolewrite`, `uartputc`, `uartputc_sync`, `uartstart`, `uartintr` | `Uart` |
| sleep locks | `sleeplock.c`, `proc.c` | `locked`, `pid`, spin locks, `p->state`, `p->chan` | `acquiresleep`, `releasesleep`, `sleep`, `wakeup`, `sched`, `yield`, `scheduler` | `SleepLock` |
| processes | `proc.c` | slots, `wait_lock`, `p->lock`, parents, `killed` | `fork`, `exit`, `wait`, `kill`, `reparent` | `ProcTable` |
| clock, traps, spin locks | `trap.c`, `spinlock.c`, `sysproc.c`, `proc.c` | interrupt flag, `noff`, `intena`, `stvec`, `ticks` | `push_off`, `pop_off`, `usertrap`, `kerneltrap`, `usertrapret`, `clockintr`, `sys_sleep` | `Clock` |
| memory | `kalloc.c`, `vm.c`, `exec.c`, `proc.c` | free list, page tables, pages | `kalloc`, `uvmalloc`, `uvmcopy`, `exec`, `growproc`, `freeproc` | `Memory` |
| user copies | `vm.c`, `syscall.c` | page table, physical memory | `copyout`, `copyin`, `copyinstr`, `fetchaddr`, `fetchstr` | `UserCopy` |
| shell | `user/sh.c` | the line; processes and their descriptors | the parser; `main`, `runcmd`, `execscript` | `ShellParser`, `Shell` |
| init | `user/init.c` | its child | the fork and wait loop | `Shell` |
| user allocator | `user/umalloc.c` | ring of free blocks | `malloc`, `free`, `morecore` | `Umalloc` |
| text utilities | `user/grep.c`, `wc.c`, `sort.c`, `head.c`, `tail.c` | buffers and tables | the programs | `TextTools` |
| boot, PLIC, dispatch, formatting, other utilities | | | | not modelled |

How they interact: a file system call brackets its work with `begin_op` and
`end_op` (Log) and changes inodes and directories (Inodes) and their blocks
(Blocks) through buffers (BufCache), which the driver transfers (VirtioDisk).
Files (OpenFile) hold references to inodes, pipes or the console. Buffers and
inodes are protected by sleep locks (SleepLock), which rest on `sleep` and
`wakeup`; so do the log, the pipes, the console, the UART, the driver, the clock
and `wait`. The shell is built on the promises of `fork`, `wait`, `pipe` and `dup`.
The composition is assume-guarantee: a module takes from the one below only what
that one is checked to provide.

* SleepLock implements `Mutex`; BufCache, OpenFile, Blocks and Inodes use a lock
  that is free or held by one process.
* SleepLock shows that `sleep` gives up the lock and sleeps in one step as far
  as `wakeup` can tell (`WaitersWake`, `NoLostWakeup`; its mutant is the lost wakeup); Log,
  ProcTable, Pipe, Console, Uart and VirtioDisk use an atomic `sleep` and `wakeup`.
* Clock shows that code under a spin lock runs with interrupts off and that
  the flag is restored on whichever CPU it ends (`InterruptFlag`); the other
  modules have a section under a spin lock as one step.
* VirtioDisk shows that a transfer is finished when `virtio_disk_rw` returns;
  BufCache has a transfer as one step under the buffer's lock.
* BufCache implements `BlockStore`: one content per block. Log uses that, and
  the fact that a pinned buffer is not recycled; Inodes and Blocks use the content.
* Log implements `AtomicDisk`; Inodes and Blocks do not model crashes for that
  reason. Mkfs makes the image Blocks starts from.
* Pipe implements `ByteQueue`, ProcTable shows what `wait` answers: Shell uses
  pipes whose readers see the end when no write end is open, and `wait`.
* Memory implements `AddressSpaces`; UserCopy has the page table it leaves, with
  any entries.

What makes this hard to get right, and hard to test: wakeups lost between a
test and a sleep; the same kernel stack on two CPUs; lookups whose result is
used after the lock is gone (buffers, inodes, parents); counts shared by
concurrent calls (`ref`, `nlink`, `refcnt`, pins, `outstanding`); crashes between
two disk writes; counters that wrap; tables that are full; calls that fail half
way; a descriptor left open in one of several processes. `PROJECT.json` lists
them at their source lines.

## Modules

**Log.** One action per critical section under `log.lock`, per disk write of
`commit` and of the recovery, and `Crash`, possible everywhere, which loses
memory and may leave the block being written with any content. The header is
one sector as far as it is used, so it is written whole or not at all. `lh`,
`outstanding`, `committing` are the fields of `log`; `home`, `dlog`, `dhead` are the
disk; `cache` and `pin` what the log needs of the buffer cache; `wrote` records
which blocks a call has logged. `OpBlocks` bounds the blocks a call writes.
*AtomicDisk* is its abstract specification: memory, a durable copy, calls that
are made durable together when none is active, crashes that return to the
durable copy.

**BufCache.** Lookup and recycling under `bcache.lock` are one step, the buffer
lock is taken and released in steps of its own, so every window between the
two is there. A process has two hands: `install_trans` and `write_log` hold the log
block and the home block, `bmap` and `itrunc` the indirect block and what `balloc` or
`bfree` asks for meanwhile. `Inner` is the order in which that happens. The list is
a sequence, moved as `brelse` moves it. Whoever changes a buffer writes or logs it
before it is released; the exception, a `writei` whose copy fails, is in Blocks.
*BlockStore* is its abstract specification.

**VirtioDisk.** A request is named by its process. Descriptors are allocated
by `alloc3_desc` with its partial failure, the device takes requests from the
avail ring, completes them in any order, adds to the used ring while
`virtio_disk_intr` works through it, and raises the interrupt line; the indices
wrap at `UINT16`. The device may report that a request has failed; the handler then
panics before it marks the request as done. The device is modelled from how the
driver uses it.

**Mkfs, Blocks.** `Mkfs` is the image as a function: super block, inodes, files
appended with `iappend`, bitmap. `Blocks` starts from it: `balloc` locks one
bitmap block at a time, `bmap` is split at the locks it takes, `readi` and `writei`
copy block by block and may fail in the middle, `itrunc` frees the blocks one by
one. A copy that fails leaves its bytes in a buffer that is not logged: `loose` has
what is stored instead, and `bget_recycle` brings it back unless `log_write` of a
later write keeps the buffer (`logged`) until `commit`. *FileStore* is the abstract specification: a file is a sequence of bytes.

**Inodes.** The disk inodes with their directory entries, the inode table with
`ref`, `valid`, the cached `type` and `nlink`, and the lock. A step is what happens
under one acquisition of an inode's lock up to the next lock or use of the
table. `iput` is four steps: the test under `itable.lock`, the release on disk,
the unlock, the drop of the reference; `puts` is the list of `iput` calls a call
still has to make, in order. `namex` is one step per path element. A full disk
is a nondeterministic failure of `dirlink`.

**OpenFile.** The file table and descriptor tables of processes that share files
after `dup` and `fork`; the load and the store of `f->off` are separate steps.

**Pipe.** The byte loops of `pipewrite` and `piperead`, with sleeps on two
channels, both ends shared by several processes and closed at any time, and
counters modulo `UINT`. *ByteQueue* is the abstract specification.

**Console.** `consoleintr` handles one key in one step, under `cons.lock`: it
stores, erases, kills the line or hands it over; `consoleread` runs to its end or
its next sleep. Keys are classes (a letter, newline, return, control-D, control-H,
control-U, control-P, nul). The three indices wrap. *LineDiscipline* is the
abstract specification: complete input and the line being edited.

**Uart.** Every access to a device register on which a decision depends is a
step: `uartstart` reads the status and writes the holding register in two, and
`uartputc_sync`, which takes no lock, comes in between. The device has a transmit
FIFO, a transmit interrupt that reading the ISR drops, and a receive interrupt
that goes first. Output is checked against *ByteQueue* as well.

**SleepLock.** A spin lock is owned by a CPU, each lock operation of
`acquiresleep`, `sleep`, `wakeup`, `releasesleep`, `yield`, `sched` and `scheduler` is a
step, timer interrupts preempt where interrupts are on, and `kill` wakes a sleeper
spuriously. *Mutex* is its abstract specification.

**ProcTable.** `fork`, `exit`, `wait` and `kill` in steps of the sections under
`wait_lock` and `p->lock`. `exit` and `swtch` are separate, so a zombie may still
be on its stack; `wait`'s scan goes from child to child while the table changes.
Any unused slot may be taken by `allocproc`, a superset of its scan. init may call
`exit` like any other process, and then panics: its CPU loops for ever.

**Clock.** Per CPU the interrupt flag, `noff`, `intena` and `stvec`; per process the
point it has reached in user code, a system call, a trap or `swtch`. The timer of
a CPU may fire at every step at which its flag is on. `ticks` wraps.

**Memory.** Pages have numbers, page tables have three levels of `PTES` entries;
`walk`, `mappages`, `uvmalloc`, `uvmcopy` and `exec` are functions from a memory to a
memory, with the number of pages left (`room`) chosen at each call, so that every
allocation of every call is the one that fails. The programs to execute include
each kind of bad header, one whose segment wraps around among them. *AddressSpaces* is the abstract
specification: each process has its own bytes. Pages are interchangeable, and
`View` in `MCMemory` identifies states that differ in page numbers only: which page
an operation gets changes neither what the processes see nor how many are left,
and the view includes whether the invariant holds.

**UserCopy.** The copies page by page over any small page table, with addresses
that wrap, compared with a definition of what a copy means byte by byte.

**ShellParser, Shell.** `ShellParser` has `gettoken`, `peek` and the recursive
descent as operators on a sequence of characters, and says what lines of a
written-down grammar mean; `gets` types every line. `Shell` has a record per
process: parent, descriptors, position in `main`, `runcmd` or `execscript`. A program
reads its standard input to the end, or stops early; it never ends by itself
while its input is a pipe with a writer. `fork`, `pipe`, `open` and `exec` may fail,
those of init included: a failing `exec` of the shell makes init start another one,
a failing `fork` makes init exit, and the kernel panics.

**Umalloc.** Headers in units at addresses; `malloc` and `free` are operators that
walk the ring as the code does.

**TextTools.** The programs as folds over their input. `grep` and `wc` get it in
pieces of any size, as `read` from a pipe returns it.

**MC modules.** A run asks one question of several components, side by side: the
MC module EXTENDS one, INSTANCEs the others, and a variable `part` says which of
them a behaviour is of; the others stay in an initial state. The components of a
run do not interact in it. The modules say how their fairness carries over: as
only one part runs, strong fairness of a step of each is fairness of their union.

## Runs

| run | components and instance | checks |
|---|---|---|
| `storage` | Log: 2 calls, 2 blocks with 2 contents, crashes. BufCache: 2 processes of 2 hands, 3 blocks, 2 buffers. Console: 2 readers, 3 characters | `CrashAtomicity` (implements AtomicDisk), `QuiescentDurable`, `PinsBalanced`; `IsBlockStore` (implements BlockStore), `BuffersSound`; `IsLineDiscipline` (implements LineDiscipline) |
| `room` | Log: 3 calls, 3 blocks, a log of 4. Uart: 2 writers, a ring of 2, echo and printf | `NoPanic`, `SleepersWake`; `OutputOrdered` (implements ByteQueue, no overrun, nobody sleeps beside room), `OutputDrains` |
| `bytes` | Blocks: 2 processes, a disk of 14 blocks. UserCopy: 4 pages of 2 bytes. Umalloc: a heap of 16 units. TextTools: buffers of 5, tables of 4 lines | `BlocksExact`, `IsFileStore` (implements FileStore); `CopiesExact`; `HeapTiled`; `OutputExact` |
| `files` | Inodes: 2 processes, root and 2 inodes, 2 names. OpenFile: 2 processes, 2 files. Pipe: 2 writers, 2 readers, 2 bytes | `NoPanic`, `CountsExact`, `NoLockCycle`; `FileRefsExact`, `OffsetAtomic`; `IsQueue` (implements ByteQueue), `NoneStranded` |
| `sleepers` | VirtioDisk: 3 processes, 7 descriptors. SleepLock: 3 processes on 2 CPUs | `TransfersOwned`, `EveryRequestCompletes`; `IsMutex` (implements Mutex), `OneStack`, `WaitersWake` |
| `shell` | ShellParser: every line of 5 characters. Shell: 9 slots, 8 lines and then a pipeline, one failing call | `TypedParses`; `Wired`, `ForegroundDone`, `AlwaysPrompts` |
| `proc` | 4 slots, 4 pids | `TableSound`, `WaitAnswer`, `InitReaps`, `KilledExits` |
| `clock` | 2 CPUs, 2 processes, ticks modulo 2 | `InterruptFlag`, `SleptEnough`, `SleepersWake` |
| `memory` | 2 processes, tables of 2 entries at 3 levels, pages of 2 bytes | `PagesExact`, `IsAddressSpaces` (implements AddressSpaces) |

What they show, beyond the names:

* `storage`: a crash anywhere, and again during recovery, leaves the disk as it
  was between calls; no buffer is lost, doubled or recycled while it is used, and
  `bget` runs out of them only when processes and the log have all.
* `room`: the reservation of `begin_op` is enough. `printf` and the echo write the
  transmit register without the lock, and the bytes survive because the FIFO is on.
* `bytes`: no block has two owners or none while two processes allocate and
  free; an inode on disk is what memory says once its lock is free; a write that
  fails half way leaves a file that has a prefix of it, where the part of the last
  block that was not logged may become what it was before.
* `files`: reference and link counts are exact or, for links, never too small;
  no reader or writer sleeps beside what it waits for; control-D, erasing and a
  full buffer never lose or invent a line.
* `sleepers`: descriptors, buffers and completions are never confused, and a
  request that failed never ends as if it had succeeded.
* `shell`: the tree is the one the grammar gives, each program starts with the
  descriptors its place in the line asks for and no end of a pipe too many, the
  shell prompts only when the foreground is done, and it prompts again; nothing but
  a failing `fork` of init prevents that.
* `clock`: the interrupt flag and the trap vector are right whatever CPU a thread
  continues on; `sleep(n)` lasts n ticks across the wrap of `ticks`.
* `proc`: nobody is left without a living parent, `wait` answers -1 only to a process
  without children, and init reaps every orphan as long as it has not panicked.
* `memory`: no failure leaks, shares or frees a page twice.

Three more runs show a disagreement between the code and what the repository
says of it.

| run | shows |
|---|---|
| `file_lseek` | `lseek` moves `f->off` without the inode's lock, in the middle of another process's read or write; the lecture notes call the updates atomic. |
| `inodes_leak` | `iput` frees an inode and drops its reference later. If the number is allocated, used, unlinked and put by another call in between, that call sees two references and frees nothing, and the first one does not look again: the inode stays allocated with no link and no reference. |
| `inodes_chmod` | `chmod` puts the mode where the type is. A directory is not a directory afterwards; with mode 0 the inode counts as free. |

### Bounds

* Log: two blocks make every commit a sequence of several writes, two calls
  make absorption and group commit happen, two contents tell old from new. In
  `room`, with MAXOPBLOCKS 2 and a log of 4 two calls fit and the third waits for
  space; three blocks fill the log.
* BufCache: one process can hold both buffers, and so can the log and a process;
  with one block more recycling happens all the time, and `bget` does run out of
  buffers. `Inner` orders the three blocks, so the second hand is as busy as the first.
* Uart: two writers that write again and again fill a ring of two and sleep;
  `UINT64` = 4 makes the indices wrap; `MaxEvents` bounds input and kernel messages,
  because an endless stream of them may keep the ring waiting.
* Blocks: two bitmap and two inode blocks, files that need the indirect block,
  and a disk two processes can fill; each process writes its own byte, and there
  are `MaxCalls` system calls in a behaviour.
* UserCopy: an address above MAXVA and one whose sum wraps; Umalloc: a block that
  is split, one that fits exactly and one that needs more than `CORE`; TextTools:
  lines that are too long for each buffer, and as many as `MAXLINES`.
* Inodes: the calls of `Requests`; `link` is called while no file has `MaxLink` links,
  since counts would grow for ever because of the orphans described below. The properties also hold
  with one inode more (18 million states).
* OpenFile: `lseek` is called on entry 2 of the table only (`Seek`), so entry 1
  shows what holds without it. Pipe: a buffer of two bytes and a count of 3 make
  a writer fill it and sleep; `Victims` is one reader. Console: three characters
  are a line, an edited rest and a full buffer at once.
* VirtioDisk: two requests leave one descriptor over, so the third allocation
  fails half way; the indices wrap after two rounds of the ring. SleepLock: a
  holder and two waiters is the least in which a woken process finds the lock
  taken by a third; two CPUs are the least in which a stack can be run twice.
* Shell: a three-stage pipeline, a block with a redirection, a background
  pipeline, a script with an empty and an unfinished line, lines that do not
  parse; one failure (`MaxFaults`) at any call; then another pipeline. Nine slots
  are enough for every fork. Parser: five characters hold every pair of tokens
  in every context of the grammar but nested blocks.
* ProcTable: init, a parent, a child and one more, so the middle one of a chain
  dies and a slot is used again. `MaxPid` bounds `nextpid`; `KillPids` is one pid.
* Clock: two processes on two CPUs, so both can be idle, and threads migrate.
* Memory: text, data, stack and guard page, growth into a new table page;
  `MaxRoom` is enough for every call to succeed.

Symmetry is used in runs without liveness only: over the processes, in `storage`
also over the contents of the blocks of the cache, in `files` over the inode numbers other than
the root. Deadlock is checked in every run;
a panic is a loop, as in `printf.c`.

### Fairness

* Log: `commit` and the recovery are straight-line code (WF); a call writes a
  bounded number of blocks and then calls `end_op` (SF, since a call may write
  one block again and again in the model); a woken process retries.
* Uart: the device sends, interrupts are taken, `uartstart` runs with interrupts
  off (WF); the polling loops and the handler get what is free again and again (SF).
* SleepLock, Clock: a CPU goes on executing; a scheduler that scans the table
  again and again comes to a process that is runnable again and again, and a
  spin lock that is released again and again is got (SF). The spin lock is a
  test-and-set loop, which gives this with probability one only. No process has
  to ask for the sleep lock or to leave the section: `WaitersWake` is about a free
  lock. The timer ticks (WF).
* ProcTable: a system call once made goes on (SF on each process); init calls
  `wait` in a loop (`user/init.c`); a killed process other than init exits at its
  next trap (`usertrap`). `InitReaps` depends on `MaxPid`: `wait` returns the first zombie of
  the table, so without a bound lower slots could exit for ever before a higher
  one is reaped.
* VirtioDisk: the device finishes what it takes, with success or without, and
  interrupts are taken.
* Shell: the kernel runs every process (WF); nobody has to type. A program whose
  input has ended ends.

## Proofs

`LogProofs` proves, for every set of processes, blocks and contents and for
every geometry of the log allowed by `LogConstants`:

* `LogInvariant`: `Spec => []IInv`, the inductive invariant;
* `LogTypeCorrect`: `TypeOK` is invariant;
* `LogPinsBalanced`: `PinsBalanced` is invariant, through crashes and recovery;
* `LogNoPanic`: if `LogRoom` holds, `NoPanic` is invariant.

`IInv` strengthens the three by what they need from each other:

* `CommitInv`: one process commits, with no call in progress. Without it two
  commits could share `tail`, and `end_op` could panic.
* `HeadInv`: how `lh` and `dhead` agree in each phase, so that what is installed
  (and unpinned) is what was logged.
* `ListInv`: the lists fit in the log and name a block once; a block listed
  twice would be pinned once and unpinned twice.
* `BufInv`: who holds a modified buffer.
* `CountInv`: `outstanding` is the number of calls in progress.
* `WroteInv`: what a call has logged is in `lh`, and is at most `OpBlocks`.
* `SpaceInv`: the blocks in `lh` and those still reserved fit in LOGSIZE. This
  is the argument of the comment in `begin_op`; the reservation is counted as
  the set `Reserve` of (call, slot) pairs, so that cardinalities of finite sets
  replace a sum over processes.

There is one lemma per conjunct (`TypeStep`, `CommitStep`, ...), with one step per
action, and lemmas on appending to the list and on the number of active calls.

Its second part goes on from there to what is on disk, under the same assumptions
and without `LogRoom`:

* `LogQuiescentDurable`: `QuiescentDurable` is invariant;
* `LogCrashAtomicity`: `Spec => CrashAtomicity`, the log implements AtomicDisk.

`IInv` says nothing of contents, so it is joined by `DataInv`, inductive with it:

* `CacheInv`: a buffer that may be recycled holds what its home block holds; one
  that may not is in memory. It makes recycling invisible, and needs the pins.
* `CopyInv`: how much of the transaction is in the log while it is written there,
  and how much is at home while it is installed, by `commit` or by recovery.
* `QuietInv`: between transactions the list is empty.

`AtomicStep` then takes each action to the step of AtomicDisk it is: the write of
the header is `Commit`, the writes to the log are hidden because the header on
disk is empty, and those to home blocks because the log shadows them
(`DurableShadowed`), a torn one included.

`LogRoom` is an assumption with content. `log_write` panics at
`lh.n >= log.size - 1`, `mkfs` makes a log of LOGSIZE = 30 blocks with its header,
and `begin_op` admits calls for 30. Three calls that each wrote their
MAXOPBLOCKS = 10 would reach the panic with the last block. The largest calls of
this kernel leave slack, which is what `LogRoom` states (`OpBlocks` at most 8).

`SleepLockProofs` proves, for every NPROC, every set of CPUs and any number of
kills and timer interrupts:

* `StackExclusive`: `OneStack` is invariant;
* `WakeupKept`: `NoLostWakeup` is invariant: who sleeps beside a free lock is still
  in front of the scan of some `wakeup`. `WaitersWake` is its consequence under
  fairness, and is left to TLC;
* `MutexImplemented`: `Spec => IsMutex`, the sleep lock implements Mutex.

The inductive invariant `IInv` of that module has a conjunct for each lock:

* `PlaceInv`: where a process executes and which CPU holds its `p->lock`: the
  thread up to `swtch`, then the scheduler of the same CPU, which lets it go.
* `SpinInv`: `lk->lk` is held by the CPU of the one thread at a place where it is.
* `SectionInv`: `locked` and the owner agree with who is in the section.
* `WakeInv`: a process on its way into `sleep` holds `lk->lk`, then `p->lock`, and a
  `wakeup` that has not passed it cannot pass it before it sleeps.

`ProcTableProofs` proves, for a table of any size:

* `ProcTableSound`: `TableSound` is invariant;
* `WaitAnswersCorrectly`: `Spec => WaitAnswer`, an action property.

What `TableSound` says of a parent is inductive only together with who holds
`wait_lock` and what the scans under it have seen:

* `ThreadInv`, `LockInv`: the states and places that go together, `wait_lock` is
  held in the second half of `exit` and in `wait`, and an exiting process keeps
  its `p->lock` until it has left its stack.
* `ForkInv`: a slot that `fork` fills is its own, and has a parent only when it is
  about to run: `reparent` cannot miss it.
* `FamilyInv`, `AwakeInv`: parents are alive, and awake beside a zombie.
* `ScanInv`: a child that the scan of `wait` has passed is counted in `havekids`
  and is no zombie, which is what makes it right to sleep, or to answer -1.

`ClockProofs` proves, for any number of CPUs and processes, every width of `ticks`
and all arguments of `sleep`:

* `ClockInterruptFlag`: `InterruptFlag` is invariant. `FInv` adds `RunInv` (a
  process runs on one CPU, whose scheduler waits in `swtch`), `PlaceInv` (where an
  interrupt can find a thread), and for each CPU the set of locks it has (`LockOK`)
  and the flags (`FlagOK`), both functions of where its thread is. `Frame` reduces
  a step to the CPU that makes it.
* `ClockSleptEnough`: `SleptEnough` is invariant. `NapInv` says that, as long as
  fewer than n ticks have passed, `ticks - ticks0` modulo the width is their number.

`OpenFileProofs` proves, for any number of processes, files and descriptors:

* `OpenFileRefsExact`: `FileRefsExact` is invariant;
* `OpenFileOffsetAtomic`: `OffsetAtomic` is invariant: the files of `Seek`, which
  `lseek` is called on, are excepted, and run `file_lseek` shows why.

The invariant adds to them who holds the lock of the inode (`LockInv`, `FileInv`)
and that a file has its type exactly while it has a descriptor (`FreshInv`);
`ref` and `iref` are compared with cardinalities of sets, and `fork` is a bijection
between the descriptors of parent and child.

`PipeProofs` proves, for any number of writers and readers, any PIPESIZE and any
width of the counters of which PIPESIZE is a proper divisor:

* `PipeNoneStranded`: as long as no writer is killed, `NoneStranded` holds. The
  condition is needed: a writer killed between two bytes is described below;
* `PipeIsQueue`: `Spec => IsQueue`, the pipe implements ByteQueue.

`SleepInv` is the reason for the first: a sleeper waits for something that has not
happened, or the call that made it happen is still in its loop and has its
`wakeup` before it. The second rests on lemmas about distances modulo the width:
the number of bytes in the pipe is the wrapped difference of the counters, and
slots of different bytes differ.

`BufCacheProofs` proves, for any number of processes, blocks and buffers:

* `BufCacheSound`: `BuffersSound` is invariant;
* `BgetNeverPanics`: `BgetFinds` is invariant if NBUF is at least twice the number
  of processes and one for each pinned block;
* `CacheIsBlockStore`: `Spec => IsBlockStore`, the cache implements BlockStore.

The assumption of the second has content: `param.h` has NBUF = 30 and NPROC = 64, and
nothing in `bio.c` keeps `bget` from its panic when the references of that many
processes take up all buffers. The invariant adds that every buffer is in the LRU list (`Listed`), that
a buffer which is referred to stays with its block (`Asked`), who holds its lock
(`Locked`), and that a valid buffer which is not pinned agrees with the disk
(`Clean`), so that recycling it loses nothing. `Represents` states the refinement
mapping as facts about a block, and each action is one lemma on top of it.

`VirtioProofs` proves `VirtioTransfersOwned`, for any number of processes, at least
three descriptors and every width of the indices that NUM divides: `TransfersOwned`
is invariant. The inductive invariant follows a request around:

* `RingInv`: the entries of the avail and of the used ring that have not been read
  are those between its two indices, each once. NUM divides the width, so the slot
  after a wrap is the next slot (`NextSlot`); a ring never fills up, because the
  entries in it are heads of chains, and a chain has descriptors that are no head.
* `ChainInv`: a waiting process has three linked descriptors, which nobody else has.
* `RequestInv`: what is in a ring or in the device is the head of a process that
  waits; its data is transferred once it is in the used ring.
* `StatusInv`: a request is marked as done only if the device reported success; it
  is proved on top of the others.

A theorem about BufCache, Pipe or VirtioDisk speaks of the module with its own
constants; the runs `storage`, `files` and `sleepers` check the same formulas on
instances.

Only model-checked:

* liveness: fairness and ENABLED are out of the prover's reach;
* what recursive definitions compute, which would need induction over data: the
  parser, the matcher, the allocator, page tables, files on blocks and `mkfs` are
  compared with their reference definitions by TLC (`TypedParses`, `OutputExact`,
  `HeapTiled`, `CopiesExact`, `PagesExact`, `BlocksExact`, `IsFileStore`, `Wired`,
  `ForegroundDone`);
* `CountsExact`, `NoPanic` and `NoLockCycle` of Inodes: link counts are sums over
  directories, and the lock order rests on the directories being a tree, which
  again needs induction;
* the console and the UART.

## Behaviour worth knowing, outside the runs

* `kill(0)` finds an unused slot, whose pid is 0, and sets `killed` in it;
  `allocproc` does not clear it: the next process there dies at its first trap.
  `kill(1)` makes init exit, which panics. So does a `fork` of init that fails.
* A writer killed between two bytes leaves `pipewrite` without the wakeup; a
  reader sleeps on beside data. With a writer in `Victims` `NoneStranded` fails.
* A kill between the test of `killed` and `sleep` is not noticed before the next
  wakeup; `KilledExits` excludes that window.
* A process whose working directory and then its parent are removed, and that
  opens `..`, locks a free inode: `ilock` panics. The paths of `files` have no
  `..` for that reason; with them TLC shows `NoPanic` violated by one process.
* `create` and `link` do not notice that the parent has been removed since
  `nameiparent`: the new entry goes with the directory, the link count stays.
  `CountsExact` is therefore an inequality for links: a count is never too small.
* `chmod` never puts the inode. `dinode.mode` is never written.
* An inode unlinked while open is leaked by a crash; nothing collects it.
* A `writei` whose copy fails leaves the bytes copied so far in a buffer that is
  not logged: they are read until the buffer is recycled, and are stored after all
  if a later write logs the block before that. `FileStore` allows exactly this.
* When the entries of the root directory fill its last block exactly, `mkfs` rounds
  its size up to one block more than it has.
* `sbrk` by more than the size of the process wraps, and reports success.
* `sort`, `head` and `tail` leave their loop after `MAXLINES` lines with the length of
  the last line in `j`: unless that line is empty they write a row past the array
  and count one line more. `grep` stops at a line of 1023 bytes or more, and does
  not see a last line without a newline.
* `a >x >y` writes to `x`: the redirection parsed first is the inner one and is
  opened last. The last line of a script is not run if it has no newline. The
  processes that run a script's lines inherit its descriptor. A pipeline whose
  second `fork` fails leaves its left side running. `SCRIPT` commands are never made
  by the parser.
* The comment on `argstr` says that the length it returns includes the nul
  (`syscall.c:77`); it is `strlen`, as the comment on `fetchstr` says.
* `malloc` of 2^31 bytes or more passes `sbrk` a size that does not fit in its `int`.

## What is not modelled

* Boot, the PLIC, machine mode, the register save areas of the trampoline and of
  `swtch`: registers and assembly. Faults of user code appear as kills.
* Formatting (`printf.c`), `memmove` and the like, the table of system calls: no
  shared state that matters here.
* The kernel's page table, which is made once.
* `mknod`, `fstat` and device inodes, paths with `.`, the limit of the inode table;
  a `pipealloc` that fails.
* `procdump` and `getprocs`, which read the process table without its locks.
* The user programs that only make a few system calls, and the test programs.
