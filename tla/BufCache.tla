------------------------------ MODULE BufCache ------------------------------
(***************************************************************************)
(* The buffer cache (kernel/bio.c). A section under bcache.lock is one     *)
(* step; the sleep lock of a buffer is taken and released in steps of its  *)
(* own (module SleepLock), so other processes run between the lookup in    *)
(* bget() and acquiresleep(), and between releasesleep() and the count in  *)
(* brelse(). The disk transfers happen under the buffer's sleep lock.      *)
(*                                                                         *)
(* A process holds up to two buffers: install_trans() and write_log() the  *)
(* block of the log and the home block, bmap() and itrunc() the indirect   *)
(* block and the bitmap block (or the new block) that balloc() and bfree() *)
(* ask for. <<p, 1>> and <<p, 2>> are the hands of p: the buffer it asked  *)
(* for first, and the one it asked for while it held the first.            *)
(***************************************************************************)
EXTENDS Integers, FiniteSetsExt

CONSTANTS Proc, Block, Val,
          NBUF,     \* number of buffers
          NoBlock,  \* what an unused buffer holds
          NoProc,   \* nobody holds the sleep lock
          Inner,    \* the blocks that are asked for while a block is held
          MaxPins   \* bound: blocks pinned at once (the size of the log)

Buf == 1 .. NBUF
Hand == Proc \X {1, 2}

BufCacheConstants ==
  /\ NBUF \in Nat \ {0}
  /\ MaxPins \in Nat
  /\ NoBlock \notin Block
  /\ NoProc \notin Hand
  /\ Inner \in [Block -> SUBSET Block]
  /\ IsFiniteSet(Proc)

VARIABLES
  blockno, valid, refcnt, lock, data,  \* struct buf; lock: the hand
  lru,    \* the list from bcache.head.next on
  disk,
  pc,     \* what is done next for a hand
  b,      \* the buffer it has a reference to
  want,   \* the block it asked for
  pins    \* the buffers the log has pinned

cache == <<blockno, valid, refcnt, lock, data, lru>>
vars == <<cache, disk, pc, b, want, pins>>

(* binit() puts the last buffer first. *)
Init ==
  /\ blockno = [x \in Buf |-> NoBlock]
  /\ valid = [x \in Buf |-> FALSE]
  /\ refcnt = [x \in Buf |-> 0]
  /\ lock = [x \in Buf |-> NoProc]
  /\ data \in {[x \in Buf |-> v] : v \in Val}
  /\ lru = [k \in 1 .. NBUF |-> NBUF + 1 - k]
  /\ disk \in [Block -> Val]
  /\ pc = [h \in Hand |-> "idle"]
  /\ b = [h \in Hand |-> 1]
  /\ want = [h \in Hand |-> NoBlock]
  /\ pins = {}

Goto(h, l) == pc' = [pc EXCEPT ![h] = l]

Other(h) == <<h[1], 3 - h[2]>>

(* A process does one thing at a time. *)
Free(h) == pc[Other(h)] \in {"idle", "held"}

-----------------------------------------------------------------------------
(* bget() up to acquiresleep() *)

(* A process that holds a block asks for another in a fixed order only. *)
Asks(h, n) ==
  /\ pc[h] = "idle"
  /\ IF h[2] = 1 THEN pc[Other(h)] = "idle"
     ELSE pc[Other(h)] = "held" /\ n \in Inner[want[Other(h)]]

Cached(n) == {x \in Buf : blockno[x] = n}

Ref(x) == refcnt' = [refcnt EXCEPT ![x] = @ + 1]

bget_hit(h, n) ==
  /\ Asks(h, n)
  /\ \E x \in Cached(n) :
       /\ Ref(x)
       /\ b' = [b EXCEPT ![h] = x]
  /\ want' = [want EXCEPT ![h] = n]
  /\ Goto(h, "lock")
  /\ UNCHANGED <<blockno, valid, lock, data, lru, disk, pins>>

(* The places in the list of the buffers nobody refers to. *)
Unused == {k \in 1 .. NBUF : refcnt[lru[k]] = 0}

MutStaysValid(x) == UNCHANGED valid

Invalidate(x) == valid' = [valid EXCEPT ![x] = FALSE]

(* The least recently used of the unused buffers, from the end of the list. *)
bget_recycle(h, n) ==
  /\ Asks(h, n)
  /\ Cached(n) = {}
  /\ Unused # {}
  /\ LET x == lru[Max(Unused)] IN
       /\ blockno' = [blockno EXCEPT ![x] = n]
       /\ Invalidate(x)
       /\ refcnt' = [refcnt EXCEPT ![x] = 1]
       /\ b' = [b EXCEPT ![h] = x]
  /\ want' = [want EXCEPT ![h] = n]
  /\ Goto(h, "lock")
  /\ UNCHANGED <<lock, data, lru, disk, pins>>

(* acquiresleep(&b->lock), then bread() looks at b->valid. *)
acquiresleep(h) ==
  /\ pc[h] = "lock"
  /\ lock[b[h]] = NoProc
  /\ lock' = [lock EXCEPT ![b[h]] = h]
  /\ Goto(h, IF valid[b[h]] THEN "held" ELSE "read")
  /\ UNCHANGED <<blockno, valid, refcnt, data, lru, disk, b, want, pins>>

(* virtio_disk_rw(b, 0) of the block the buffer is for. *)
bread(h) ==
  /\ pc[h] = "read"
  /\ data' = [data EXCEPT ![b[h]] = disk[blockno[b[h]]]]
  /\ valid' = [valid EXCEPT ![b[h]] = TRUE]
  /\ Goto(h, "held")
  /\ UNCHANGED <<blockno, refcnt, lock, lru, disk, b, want, pins>>

-----------------------------------------------------------------------------
(* What the holder does with the buffer: whoever changes it writes or logs *)
(* it (but for a writei() whose copy fails: module Blocks).                *)

(* Change it and write it through, as initlog() and commit() do. *)
bwrite(h, v) ==
  /\ pc[h] = "held" /\ Free(h)
  /\ data' = [data EXCEPT ![b[h]] = v]
  /\ disk' = [disk EXCEPT ![blockno[b[h]]] = v]
  /\ UNCHANGED <<blockno, valid, refcnt, lock, lru, pc, b, want, pins>>

(* Change it and log_write() it, which pins it unless the transaction has it. *)
bpin(h, v) ==
  /\ pc[h] = "held" /\ Free(h)
  /\ data' = [data EXCEPT ![b[h]] = v]
  /\ \/ b[h] \in pins /\ UNCHANGED <<refcnt, pins>>
     \/ /\ b[h] \notin pins
        /\ Cardinality(pins) < MaxPins
        /\ Ref(b[h])
        /\ pins' = pins \cup {b[h]}
  /\ UNCHANGED <<blockno, valid, lock, lru, disk, pc, b, want>>

(* install_trans() writes the block to its home, then unpins it. *)
bunpin(h) ==
  /\ pc[h] = "held" /\ Free(h)
  /\ b[h] \in pins
  /\ disk' = [disk EXCEPT ![blockno[b[h]]] = data[b[h]]]
  /\ refcnt' = [refcnt EXCEPT ![b[h]] = @ - 1]
  /\ pins' = pins \ {b[h]}
  /\ UNCHANGED <<blockno, valid, lock, data, lru, pc, b, want>>

-----------------------------------------------------------------------------
(* brelse() *)

releasesleep(h) ==
  /\ pc[h] = "held" /\ Free(h)
  /\ lock' = [lock EXCEPT ![b[h]] = NoProc]
  /\ Goto(h, "unref")
  /\ UNCHANGED <<blockno, valid, refcnt, data, lru, disk, b, want, pins>>

MutDropTwice(x) == refcnt' = [refcnt EXCEPT ![x] = IF @ > 1 THEN @ - 2 ELSE 0]

Unref(x) == refcnt' = [refcnt EXCEPT ![x] = @ - 1]

(* Unlink x and put it at the head of the list. *)
MoveToHead(x) ==
  LET j == CHOOSE k \in 1 .. NBUF : lru[k] = x IN
  [k \in 1 .. NBUF |-> IF k = 1 THEN x ELSE IF k <= j THEN lru[k - 1] ELSE lru[k]]

brelse(h) ==
  /\ pc[h] = "unref"
  /\ Unref(b[h])
  /\ lru' = IF refcnt[b[h]] = 1 THEN MoveToHead(b[h]) ELSE lru
  /\ want' = [want EXCEPT ![h] = NoBlock]
  /\ b' = [b EXCEPT ![h] = 1]
  /\ Goto(h, "idle")
  /\ UNCHANGED <<blockno, valid, lock, data, disk, pins>>

-----------------------------------------------------------------------------
Next ==
  \E h \in Hand :
    \/ \E n \in Block : bget_hit(h, n) \/ bget_recycle(h, n)
    \/ acquiresleep(h) \/ bread(h)
    \/ \E v \in Val : bwrite(h, v) \/ bpin(h, v)
    \/ bunpin(h) \/ releasesleep(h) \/ brelse(h)

Spec == Init /\ [][Next]_vars

-----------------------------------------------------------------------------
(* Properties *)

Referrers(x) == {h \in Hand : pc[h] # "idle" /\ b[h] = x}

Busy == {h \in Hand : pc[h] # "idle"}

(* A block is cached at most once, although its buffer is looked up, locked *)
(* and recycled in separate steps: two copies would lose updates. refcnt is *)
(* the number of hands and pins that refer to a buffer, so bget() finds no  *)
(* buffer to recycle, and panics, only when the hands of all processes and  *)
(* the pins of the log take up all NBUF.                                    *)
BuffersSound ==
  /\ \A x, y \in Buf : blockno[x] = blockno[y] /\ x # y => blockno[x] = NoBlock
  /\ \A x \in Buf :
       refcnt[x] = Cardinality(Referrers(x)) + (IF x \in pins THEN 1 ELSE 0)
  /\ Unused = {} => NBUF <= Cardinality(Busy) + Cardinality(pins)

(* bget() has a buffer for every process that asks for one. *)
BgetFinds ==
  \A h \in Hand, n \in Block : Asks(h, n) /\ Cached(n) = {} => Unused # {}

(* Processes see one content per block, changed only through the hand that  *)
(* has it locked, whether it is in the cache, on the disk, or in transit.   *)
Content == [n \in Block |->
              LET c == {x \in Cached(n) : valid[x]} IN
              IF c = {} THEN disk[n] ELSE data[CHOOSE x \in c : TRUE]]

Holder == [n \in Block |->
             LET g == {h \in Hand : pc[h] = "held" /\ want[h] = n} IN
             IF g = {} THEN NoProc ELSE CHOOSE h \in g : TRUE]

Store == INSTANCE BlockStore WITH Proc <- Hand, content <- Content, holder <- Holder
IsBlockStore == Store!Spec
=============================================================================
