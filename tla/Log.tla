-------------------------------- MODULE Log ---------------------------------
(***************************************************************************)
(* The redo log of kernel/log.c: begin_op(), log_write(), end_op(),        *)
(* commit() and the recovery that initlog() runs at boot, with a crash     *)
(* possible between any two disk writes and in the middle of one.          *)
(*                                                                         *)
(* Every access to the fields of `log' other than commit()'s is made under *)
(* log.lock, and no critical section sleeps except in begin_op(), where    *)
(* sleep() gives the lock up; each critical section is therefore one step. *)
(* The buffer cache (bio.c) appears as what the log needs of it: a block   *)
(* may be dropped from memory when nobody holds it and it is not pinned.   *)
(***************************************************************************)
EXTENDS Naturals, Sequences, FiniteSets

CONSTANTS Proc,         \* processes making file system calls
          Block,        \* home blocks
          Val,          \* block contents
          Absent,       \* "not in the buffer cache"
          NoBlock,      \* "holds no buffer"
          MAXOPBLOCKS,  \* param.h: blocks one call is allowed to write
          LOGSIZE,      \* param.h: capacity of struct logheader
          NLOG,         \* superblock nlog: blocks of the log, header included
          OpBlocks      \* blocks a call of this instance really writes

ASSUME LogConstants ==
  /\ MAXOPBLOCKS \in Nat \ {0}
  /\ LOGSIZE \in Nat \ {0}
  /\ NLOG \in Nat \ {0}
  /\ OpBlocks \in Nat
  /\ OpBlocks <= MAXOPBLOCKS
  /\ IsFiniteSet(Proc)
  /\ IsFiniteSet(Block)
  /\ Absent \notin Val
  /\ NoBlock \notin Block

VARIABLES
  home,         \* on disk: the home location of every block
  dlog,         \* on disk: the data blocks of the log
  dhead,        \* on disk: the header block (n and block[]) as a sequence
  cache,        \* buffer cache contents
  pin,          \* references bpin() holds on a buffer
  lh,           \* log.lh
  outstanding,  \* log.outstanding
  committing,   \* log.committing
  tail,         \* loop counter of write_log() / install_trans()
  boot,         \* "up", or the step of recover_from_log() to run next
  pc,           \* where each process is
  buf,          \* the buffer a process has modified and not yet logged
  wrote         \* the blocks the current call of a process has logged

disk  == <<home, dlog, dhead>>
bufs  == <<cache, pin>>
logv  == <<lh, outstanding, committing, tail>>
procs == <<pc, buf, wrote>>
vars  == <<disk, bufs, logv, boot, procs>>

Slots == 1 .. (NLOG - 1)

PC == {"idle", "begin", "sleep", "op", "write",
       "wlog", "install", "done"}

TypeOK ==
  /\ home \in [Block -> Val]
  /\ dlog \in [Slots -> Val]
  /\ dhead \in Seq(Block)
  /\ cache \in [Block -> Val \cup {Absent}]
  /\ pin \in [Block -> Nat]
  /\ lh \in Seq(Block)
  /\ outstanding \in Nat
  /\ committing \in BOOLEAN
  /\ tail \in Nat
  /\ boot \in {"read_head", "install", "up"}
  /\ pc \in [Proc -> PC]
  /\ buf \in [Proc -> Block \cup {NoBlock}]
  /\ wrote \in [Proc -> SUBSET Block]

Entries(h) == {h[i] : i \in 1 .. Len(h)}

(* The machine is switched on with the empty log mkfs wrote. *)
Init ==
  /\ home \in [Block -> Val]
  /\ dlog \in [Slots -> Val]
  /\ dhead = << >>
  /\ cache = [b \in Block |-> Absent]
  /\ pin = [b \in Block |-> 0]
  /\ lh = << >>
  /\ outstanding = 0
  /\ committing = FALSE
  /\ tail = 0
  /\ boot = "read_head"
  /\ pc = [p \in Proc |-> "idle"]
  /\ buf = [p \in Proc |-> NoBlock]
  /\ wrote = [p \in Proc |-> {}]

-----------------------------------------------------------------------------
(* Buffer cache *)

(* What bread() returns, and what it leaves in the cache. *)
Contents(b) == IF cache[b] = Absent THEN home[b] ELSE cache[b]

(* Some process reads the block, so that it is now cached. *)
bread(b) ==
  /\ boot = "up"
  /\ cache[b] = Absent
  /\ cache' = [cache EXCEPT ![b] = home[b]]
  /\ UNCHANGED <<disk, pin, logv, boot, procs>>

(* bget() recycles the buffer for another block: refcnt is 0. *)
Recyclable(b) == pin[b] = 0 /\ \A p \in Proc : buf[p] # b

bget_recycle(b) ==
  /\ boot = "up"
  /\ cache[b] # Absent
  /\ Recyclable(b)
  /\ cache' = [cache EXCEPT ![b] = Absent]
  /\ UNCHANGED <<disk, pin, logv, boot, procs>>

-----------------------------------------------------------------------------
(* begin_op, log_write, end_op *)

(* wakeup(&log), on the process table after the caller's own step. *)
MutNoWakeup(f) == f

Wakeup(f) == [p \in Proc |-> IF f[p] = "sleep" THEN "begin" ELSE f[p]]

MutNoReservation ==
  committing \/ Len(lh) + outstanding * MAXOPBLOCKS > LOGSIZE

(* The two reasons for begin_op() to sleep. *)
Blocked ==
  committing \/ Len(lh) + (outstanding + 1) * MAXOPBLOCKS > LOGSIZE

begin_op(p) ==
  /\ boot = "up"
  /\ pc[p] \in {"idle", "begin"}
  /\ \/ /\ Blocked
        /\ pc' = [pc EXCEPT ![p] = "sleep"]
        /\ UNCHANGED <<outstanding, wrote>>
     \/ /\ ~Blocked
        /\ pc' = [pc EXCEPT ![p] = "op"]
        /\ outstanding' = outstanding + 1
        /\ wrote' = [wrote EXCEPT ![p] = {}]
  /\ UNCHANGED <<disk, bufs, lh, committing, tail, boot, buf>>

(* The call locks a buffer with bread() and changes its data. *)
modify(p, b, v) ==
  /\ pc[p] = "op"
  /\ \A q \in Proc : buf[q] # b
  /\ Cardinality(wrote[p] \cup {b}) <= OpBlocks
  /\ cache' = [cache EXCEPT ![b] = v]
  /\ buf' = [buf EXCEPT ![p] = b]
  /\ pc' = [pc EXCEPT ![p] = "write"]
  /\ UNCHANGED <<disk, pin, logv, boot, wrote>>

TooBig == Len(lh) >= LOGSIZE \/ Len(lh) >= NLOG - 1

MutAbsorbAll(b) == lh # << >>

Logged(b) == b \in Entries(lh)

(* The block is absorbed if the transaction has it already; else it is *)
(* appended and pinned. The caller then releases the buffer.           *)
log_write(p) ==
  LET b == buf[p] IN
  /\ pc[p] = "write"
  /\ ~TooBig
  /\ outstanding >= 1
  /\ \/ /\ Logged(b)
        /\ UNCHANGED <<lh, pin>>
     \/ /\ ~Logged(b)
        /\ lh' = Append(lh, b)
        /\ pin' = [pin EXCEPT ![b] = @ + 1]
  /\ wrote' = [wrote EXCEPT ![p] = @ \cup {b}]
  /\ buf' = [buf EXCEPT ![p] = NoBlock]
  /\ pc' = [pc EXCEPT ![p] = "op"]
  /\ UNCHANGED <<disk, cache, outstanding, committing, tail, boot>>

end_op(p) ==
  /\ pc[p] = "op"
  /\ ~committing
  /\ outstanding' = outstanding - 1
  /\ \/ /\ outstanding = 1
        /\ committing' = TRUE
        /\ tail' = 0
        /\ pc' = [pc EXCEPT ![p] = IF lh # << >> THEN "wlog" ELSE "done"]
     \/ /\ outstanding # 1
        /\ pc' = Wakeup([pc EXCEPT ![p] = "idle"])
        /\ UNCHANGED <<committing, tail>>
  /\ UNCHANGED <<disk, bufs, lh, boot, buf, wrote>>

-----------------------------------------------------------------------------
(* commit(), run by the process whose end_op() found no other call *)

write_log(p) ==
  LET b == lh[tail + 1] IN
  /\ pc[p] = "wlog"
  /\ tail < Len(lh)
  /\ dlog' = [dlog EXCEPT ![tail + 1] = Contents(b)]
  /\ cache' = [cache EXCEPT ![b] = Contents(b)]
  /\ tail' = tail + 1
  /\ UNCHANGED <<home, dhead, pin, lh, outstanding, committing, boot, procs>>

MutHeadEarly == TRUE

HeadReady == tail = Len(lh)

(* write_head() with the whole list: the transaction is now committed. *)
write_head(p) ==
  /\ pc[p] = "wlog"
  /\ HeadReady
  /\ dhead' = lh
  /\ tail' = 0
  /\ pc' = [pc EXCEPT ![p] = "install"]
  /\ UNCHANGED <<home, dlog, bufs, lh, outstanding, committing, boot, buf, wrote>>

MutNeverUnpin(b, recovering) == pin

Unpinned(b, recovering) ==
  IF recovering THEN pin ELSE [pin EXCEPT ![b] = @ - 1]

(* One round of the loop of install_trans(recovering). *)
InstallBlock(recovering) ==
  LET b == lh[tail + 1] IN
  /\ tail < Len(lh)
  /\ home' = [home EXCEPT ![b] = dlog[tail + 1]]
  /\ cache' = [cache EXCEPT ![b] = dlog[tail + 1]]
  /\ pin' = Unpinned(b, recovering)
  /\ tail' = tail + 1
  /\ UNCHANGED <<dlog, dhead, lh, outstanding, committing, boot, procs>>

install_trans(p) == pc[p] = "install" /\ InstallBlock(FALSE)

(* log.lh.n = 0; write_head(): the log is empty again. *)
erase(p) ==
  /\ pc[p] = "install"
  /\ tail = Len(lh)
  /\ lh' = << >>
  /\ dhead' = << >>
  /\ pc' = [pc EXCEPT ![p] = "done"]
  /\ UNCHANGED <<home, dlog, bufs, outstanding, committing, tail, boot, buf, wrote>>

(* The end of end_op() for the process that ran commit(). *)
end_commit(p) ==
  /\ pc[p] = "done"
  /\ committing' = FALSE
  /\ pc' = Wakeup([pc EXCEPT ![p] = "idle"])
  /\ UNCHANGED <<disk, bufs, lh, outstanding, tail, boot, buf, wrote>>

commit(p) == \/ write_log(p) \/ write_head(p) \/ install_trans(p) \/ erase(p)
             \/ end_commit(p)

-----------------------------------------------------------------------------
(* recover_from_log(), run before the first process enters user space *)

read_head ==
  /\ boot = "read_head"
  /\ lh' = dhead
  /\ tail' = 0
  /\ boot' = "install"
  /\ UNCHANGED <<disk, bufs, outstanding, committing, procs>>

recover_install == boot = "install" /\ InstallBlock(TRUE)

recover_erase ==
  /\ boot = "install"
  /\ tail = Len(lh)
  /\ lh' = << >>
  /\ dhead' = << >>
  /\ boot' = "up"
  /\ UNCHANGED <<home, dlog, bufs, outstanding, committing, tail, procs>>

-----------------------------------------------------------------------------
(* Power loss. Memory is gone. A data block that was being written holds   *)
(* anything; the header's live part fits in one sector, which the disk     *)
(* writes whole or not at all.                                             *)
Installing == \E p \in Proc : pc[p] = "install"

Crash ==
  /\ \/ UNCHANGED <<home, dlog>>
     \/ /\ (\E p \in Proc : pc[p] = "wlog") /\ tail < Len(lh)
        /\ \E v \in Val : dlog' = [dlog EXCEPT ![tail + 1] = v]
        /\ UNCHANGED home
     \/ /\ (boot = "install" \/ Installing) /\ tail < Len(lh)
        /\ \E v \in Val : home' = [home EXCEPT ![lh[tail + 1]] = v]
        /\ UNCHANGED dlog
  /\ cache' = [b \in Block |-> Absent]
  /\ pin' = [b \in Block |-> 0]
  /\ lh' = << >>
  /\ outstanding' = 0
  /\ committing' = FALSE
  /\ tail' = 0
  /\ boot' = "read_head"
  /\ pc' = [p \in Proc |-> "idle"]
  /\ buf' = [p \in Proc |-> NoBlock]
  /\ wrote' = [p \in Proc |-> {}]
  /\ UNCHANGED dhead

Next ==
  \/ \E b \in Block : bread(b) \/ bget_recycle(b)
  \/ \E p \in Proc : begin_op(p) \/ log_write(p) \/ end_op(p) \/ commit(p)
  \/ \E p \in Proc, b \in Block, v \in Val : modify(p, b, v)
  \/ read_head \/ recover_install \/ recover_erase
  \/ Crash

Spec == Init /\ [][Next]_vars

(* A call runs a bounded number of writes and then end_op(); commit() and   *)
(* recovery are straight-line code; a process the scheduler has made        *)
(* runnable again gets to retry.                                            *)
Fairness ==
  /\ WF_vars(read_head \/ recover_install \/ recover_erase)
  /\ \A p \in Proc : /\ WF_vars(log_write(p))
                     /\ WF_vars(commit(p))
                     /\ WF_vars(pc[p] = "begin" /\ begin_op(p))
                     /\ SF_vars(end_op(p))

FairSpec == Spec /\ Fairness

-----------------------------------------------------------------------------
(* Properties *)

(* Room for the calls: every call leaves enough of its MAXOPBLOCKS unused   *)
(* to make up for the blocks by which the log is smaller than LOGSIZE.      *)
LogRoom == /\ OpBlocks < MAXOPBLOCKS
           /\ OpBlocks + LOGSIZE + 2 <= MAXOPBLOCKS + NLOG

(* None of the panic() calls of log.c is reached: log_write() always has    *)
(* room for the block, and is only called inside a transaction; end_op()    *)
(* never runs while a commit is in progress.                                *)
NoPanic ==
  \A p \in Proc : /\ pc[p] = "write" => ~TooBig /\ outstanding >= 1
                  /\ pc[p] = "op" => ~committing

(* The contents a crash at this instant would leave: the home blocks, with  *)
(* the committed transaction of the on-disk log, if any, installed.         *)
Durable ==
  [b \in Block |-> IF b \in Entries(dhead)
                   THEN dlog[CHOOSE i \in 1 .. Len(dhead) : dhead[i] = b]
                   ELSE home[b]]

(* The contents the file system calls see. *)
Mem == IF boot = "up" THEN [b \in Block |-> Contents(b)] ELSE Durable

Active == {p \in Proc : pc[p] \in {"op", "write"}}

(* Once the end_op() of the last call has returned, everything written so   *)
(* far is on disk: a crash between calls loses nothing.                     *)
QuiescentDurable ==
  boot = "up" /\ outstanding = 0 /\ ~committing => Durable = Mem

NotInstalled ==
  IF boot # "up" THEN {}
  ELSE {lh[i] : i \in (IF Installing THEN tail + 1 ELSE 1) .. Len(lh)}

(* Pins are balanced: the pinned buffers are exactly those of the blocks of *)
(* the open transaction that are not installed yet, one pin each, so no     *)
(* buffer is lost to the cache however calls and commits interleave.        *)
PinsBalanced ==
  \A b \in Block : pin[b] = IF b \in NotInstalled THEN 1 ELSE 0

(* The log implements the atomic disk: file system calls are made durable   *)
(* together, between calls, and a crash at any point of commit() or of the  *)
(* recovery itself keeps or loses each of them as a whole.                  *)
Atomic == INSTANCE AtomicDisk WITH mem <- Mem, durable <- Durable,
                                   active <- Active
CrashAtomicity == Atomic!Spec

(* A process that sleeps in begin_op() is woken: whatever it waits for, a   *)
(* commit or log space, some end_op() calls wakeup(&log) afterwards.        *)
SleepersWake == \A p \in Proc : pc[p] = "sleep" ~> pc[p] # "sleep"
=============================================================================
