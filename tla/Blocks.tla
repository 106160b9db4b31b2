------------------------------- MODULE Blocks -------------------------------
(***************************************************************************)
(* Where the bytes of a file are: fsinit, balloc, bfree, bmap, itrunc,     *)
(* readi, writei, ialloc and iupdate of kernel/fs.c, on the disk that mkfs *)
(* has built.                                                              *)
(*                                                                         *)
(* A process works on an inode under ip->lock; what processes share is the *)
(* bitmap, and a step is what is done under the lock of one bitmap block,  *)
(* or between two of them. disk is what bread() shows: what is stored, and *)
(* what buffers hold instead until they are written or recycled.           *)
(***************************************************************************)
EXTENDS Mkfs

CONSTANTS Proc, Free,
          Byte,      \* the byte that each process writes
          Counts,    \* bound: the lengths of reads and writes
          Offsets,   \* bound: where they begin
          MaxCalls   \* bound: the calls made in a behaviour

Inum == 1 .. NINODES - 1

ASSUME BlocksConstants ==
  /\ Free \notin Proc
  /\ DOMAIN Byte = Proc /\ \A p \in Proc : Byte[p] # 0
  /\ Counts \subseteq Nat \ {0} /\ Offsets \subseteq Nat /\ MaxCalls \in Nat

VARIABLES
  disk, sb,
  inode,  \* the struct inodes: type, size and addrs
  lock,   \* ip->lock
  op,     \* the call each process makes, with its local variables
  panic,
  calls,
  logged, \* the blocks of files that the log has pinned
  loose,  \* <<b, c>>: b was changed without log_write(), and c is stored
  saved   \* history: content and undo of an inode when it was locked

buffers == <<logged, loose>>
vars == <<disk, sb, inode, lock, op, panic, calls, buffers, saved>>

Idle == [kind |-> "idle"]
NoSB == [SuperBlock EXCEPT !.magic = FALSE]
Unlocked == [content |-> << >>, undo |-> {}]

Init ==
  /\ disk = Image.disk
  /\ sb = NoSB
  /\ inode = [i \in Inum |-> NoInode]
  /\ lock = [i \in Inum |-> Free]
  /\ op = [p \in Proc |-> Idle]
  /\ panic = ~Image.ok
  /\ calls = 0
  /\ logged = {} /\ loose = {}
  /\ saved = [i \in Inum |-> Unlocked]

(* The bytes of a file, found the way readi() finds them. *)
Bytes(i) ==
  [k \in 1 .. inode[i].size |->
     LET b == BlockOf(disk, inode[i], (k - 1) \div BSIZE) IN
     IF b = 0 THEN 0 ELSE disk[b][(k - 1) % BSIZE]]

(* The bytes that change if the buffers of loose blocks are recycled. *)
Undo(i) ==
  {<<k, x[2][(k - 1) % BSIZE]>> :
     <<k, x>> \in {y \in (1 .. inode[i].size) \X loose :
                    /\ BlockOf(disk, inode[i], (y[1] - 1) \div BSIZE) = y[2][1]
                    /\ disk[y[2][1]][(y[1] - 1) % BSIZE] # y[2][2][(y[1] - 1) % BSIZE]}}

(* readsb() and the check of fsinit(); every inode is then read on demand. *)
fsinit ==
  /\ sb = NoSB
  /\ sb' = disk[1]
  /\ panic' = (panic \/ ~disk[1].magic)
  /\ inode' = [i \in Inum |-> rinode(disk, disk[1], i)]
  /\ UNCHANGED <<disk, lock, op, calls, buffers, saved>>

Mounted == sb # NoSB /\ ~panic

(* The entry is recycled, and the inode read again by iget() and ilock(). *)
recycle(i) ==
  /\ Mounted /\ lock[i] = Free
  /\ inode' = [inode EXCEPT ![i] = rinode(disk, sb, i)]
  /\ UNCHANGED <<disk, sb, lock, op, panic, calls, buffers, saved>>

(* The first inode that is free. *)
ialloc(type) ==
  LET free == {i \in Inum : rinode(disk, sb, i).type = 0}
      new == [NoInode EXCEPT !.type = type]
  IN
  /\ Mounted /\ calls < MaxCalls
  /\ free # {}
  /\ disk' = winode(disk, sb, Min(free), new)
  /\ inode' = [inode EXCEPT ![Min(free)] = new]
  /\ calls' = calls + 1
  /\ UNCHANGED <<sb, lock, op, panic, buffers, saved>>

(* A call on an inode, which ilock() locks. *)
Begin(p, i, o) ==
  /\ Mounted /\ calls < MaxCalls
  /\ op[p] = Idle
  /\ inode[i].type # 0
  /\ lock[i] = Free
  /\ lock' = [lock EXCEPT ![i] = p]
  /\ op' = [op EXCEPT ![p] = o]
  /\ saved' = [saved EXCEPT ![i] = [content |-> Bytes(i), undo |-> Undo(i)]]
  /\ calls' = calls + 1
  /\ UNCHANGED <<disk, sb, inode, panic, buffers>>

Copying(kind, i, off, n) ==
  [kind |-> kind, i |-> i, off |-> off, n |-> n, tot |-> 0,
   pc |-> "loop", bitmap |-> 0, b |-> 0, dst |-> << >>]

(* The checks readi() and writei() make of off and n. *)
readi(p, i, off, n) ==
  /\ off <= inode[i].size
  /\ Begin(p, i, Copying("read", i, off, Min({n, inode[i].size - off})))

writei(p, i, off, n) ==
  /\ off <= inode[i].size
  /\ off + n <= MAXFILE * BSIZE
  /\ Begin(p, i, Copying("write", i, off, n))

itrunc(p, i) == Begin(p, i, [kind |-> "trunc", i |-> i, j |-> 0])

-----------------------------------------------------------------------------
(* bmap() and the loops of readi() and writei() *)

In(p, pc) == op[p].kind \in {"read", "write"} /\ op[p].pc = pc
More(o) == o.tot < o.n

(* Where bmap() finds block bn missing. *)
Missing(i, bn) ==
  LET a == inode[i].addrs IN
  IF bn < NDIRECT THEN IF a[bn] = 0 THEN "direct" ELSE "nowhere"
  ELSE IF a[NDIRECT] = 0 THEN "indirect"
  ELSE IF disk[a[NDIRECT]][bn - NDIRECT] = 0 THEN "entry" ELSE "nowhere"

Bn(o) == (o.off + o.tot) \div BSIZE

(* The blocks of bitmap block k. *)
BitsOf(k) == {b \in k * BPB .. (k + 1) * BPB - 1 : b < sb.size}

(* balloc() looks at one bitmap block, and takes the first free block. *)
balloc(p) ==
  LET o == op[p]
      free == {b \in BitsOf(o.bitmap) : disk[BBLOCK(b, sb)][b % BPB] = 0}
      b == Min(free)
  IN
  /\ In(p, "loop") /\ More(o) /\ Missing(o.i, Bn(o)) # "nowhere"
  /\ IF free # {}
     THEN /\ disk' = [disk EXCEPT ![BBLOCK(b, sb)][b % BPB] = 1]
          /\ op' = [op EXCEPT ![p].pc = "zero", ![p].b = b, ![p].bitmap = 0]
     ELSE /\ UNCHANGED disk
          /\ op' = [op EXCEPT ![p].bitmap = @ + 1,
                              ![p].pc = IF (o.bitmap + 1) * BPB < sb.size THEN "loop" ELSE "end"]
  /\ UNCHANGED <<sb, inode, lock, panic, calls, buffers, saved>>

MutOnlyInBuffer(b) == loose' = loose \cup {<<b, disk[b]>>} /\ UNCHANGED logged

(* The buffer is written with the transaction, whatever is changed in it. *)
log_write(b) ==
  /\ logged' = logged \cup {b}
  /\ loose' = {x \in loose : x[1] # b}

bzero(disk0, b) == [disk0 EXCEPT ![b] = ZeroBlock]

(* balloc() zeroes the block and bmap() stores its number. *)
bmap(p) ==
  LET o == op[p]
      slot == IF Bn(o) < NDIRECT THEN Bn(o) ELSE NDIRECT
      zeroed == bzero(disk, o.b)
  IN
  /\ In(p, "zero")
  /\ IF Missing(o.i, Bn(o)) = "entry"
     THEN /\ disk' = [zeroed EXCEPT ![inode[o.i].addrs[NDIRECT]][Bn(o) - NDIRECT] = o.b]
          /\ UNCHANGED inode
     ELSE /\ disk' = zeroed
          /\ inode' = [inode EXCEPT ![o.i].addrs[slot] = o.b]
  /\ log_write(o.b)
  /\ op' = [op EXCEPT ![p].pc = "loop"]
  /\ UNCHANGED <<sb, lock, panic, calls, saved>>

(* m of the loops: the bytes up to the end of the block. *)
Chunk(o) == Min({o.n - o.tot, BSIZE - ((o.off + o.tot) % BSIZE)})

(* The first k bytes of a chunk, copied between the user and the buffer. *)
Copied(p, k) ==
  LET o == op[p]
      c0 == (o.off + o.tot) % BSIZE
      b == BlockOf(disk, inode[o.i], Bn(o))
  IN IF o.kind = "write"
     THEN disk' = [disk EXCEPT ![b] = [c \in 0 .. BSIZE - 1 |->
                                         IF c \in c0 .. c0 + k - 1 THEN Byte[p] ELSE @[c]]]
     ELSE UNCHANGED disk

copy(p) ==
  LET o == op[p]
      b == BlockOf(disk, inode[o.i], Bn(o))
      c0 == (o.off + o.tot) % BSIZE
  IN
  /\ In(p, "loop") /\ More(o) /\ Missing(o.i, Bn(o)) = "nowhere"
  /\ Copied(p, Chunk(o))
  /\ IF o.kind = "write" THEN log_write(b) ELSE UNCHANGED buffers
  /\ op' = [op EXCEPT ![p].tot = @ + Chunk(o),
                      ![p].dst = IF o.kind = "read"
                                 THEN @ \o [k \in 1 .. Chunk(o) |-> disk[b][(c0 + k - 1) % BSIZE]]
                                 ELSE @]
  /\ UNCHANGED <<sb, inode, lock, panic, calls, saved>>

(* either_copyin() or either_copyout() fails after k bytes of the chunk.   *)
(* writei() releases the buffer without log_write(): the k bytes are in it *)
(* and nowhere else, unless the log has pinned it already.                 *)
copy_fails(p, k) ==
  LET o == op[p]
      b == BlockOf(disk, inode[o.i], Bn(o))
  IN
  /\ In(p, "loop") /\ More(o) /\ Missing(o.i, Bn(o)) = "nowhere"
  /\ k < Chunk(o)
  /\ Copied(p, k)
  /\ loose' = IF disk' = disk \/ b \in logged \/ \E x \in loose : x[1] = b
              THEN loose ELSE loose \cup {<<b, disk[b]>>}
  /\ op' = [op EXCEPT ![p].pc = "end"]
  /\ UNCHANGED <<sb, inode, lock, panic, calls, logged, saved>>

(* The last end_op() writes the pinned blocks where they belong. *)
commit ==
  /\ logged # {}
  /\ \A p \in Proc : op[p].kind \notin {"write", "trunc"}
  /\ logged' = {}
  /\ UNCHANGED <<disk, sb, inode, lock, op, panic, calls, loose, saved>>

Reverted(s, back) ==
  [content |-> [k \in DOMAIN s.content |->
                  IF \E x \in back : x[1] = k THEN (CHOOSE x \in back : x[1] = k)[2]
                  ELSE s.content[k]],
   undo |-> s.undo \ back]

(* bget() recycles the buffer of a loose block. *)
bget_recycle(x) ==
  /\ loose' = loose \ {x}
  /\ disk' = [disk EXCEPT ![x[1]] = x[2]]
  /\ saved' = [i \in Inum |->
                 Reverted(saved[i], {y \in saved[i].undo :
                                       BlockOf(disk, inode[i], (y[1] - 1) \div BSIZE) = x[1]})]
  /\ UNCHANGED <<sb, inode, lock, op, panic, calls, logged>>

iupdate(disk0, i, ip) == winode(disk0, sb, i, ip)

Unlock(p, i) ==
  /\ lock' = [lock EXCEPT ![i] = Free]
  /\ op' = [op EXCEPT ![p] = Idle]
  /\ saved' = [saved EXCEPT ![i] = Unlocked]
  /\ UNCHANGED <<sb, panic, calls, buffers>>

readi_end(p) ==
  /\ op[p].kind = "read" /\ (op[p].pc = "end" \/ ~More(op[p]))
  /\ Unlock(p, op[p].i)
  /\ UNCHANGED <<disk, inode>>

writei_end(p) ==
  LET o == op[p]
      grown == [inode[o.i] EXCEPT !.size = Max({@, o.off + o.tot})]
  IN
  /\ o.kind = "write" /\ (o.pc = "end" \/ (o.pc = "loop" /\ ~More(o)))
  /\ inode' = [inode EXCEPT ![o.i] = grown]
  /\ disk' = iupdate(disk, o.i, grown)
  /\ Unlock(p, o.i)

-----------------------------------------------------------------------------
(* itrunc() *)

bfree(disk0, b) == [disk0 EXCEPT ![BBLOCK(b, sb)][b % BPB] = 0]
IsFree(b) == disk[BBLOCK(b, sb)][b % BPB] = 0

Truncating(p) == op[p].kind = "trunc" /\ ~panic

(* One bfree() of a direct block, or of the indirect block at the end. *)
FreeAddr(p, k) ==
  LET i == op[p].i  b == inode[i].addrs[k] IN
  /\ b # 0
  /\ disk' = bfree(disk, b)
  /\ panic' = IsFree(b)
  /\ inode' = [inode EXCEPT ![i].addrs[k] = 0]
  /\ UNCHANGED <<sb, lock, op, calls, buffers, saved>>

NoneBefore(p, k) == \A l \in 0 .. k - 1 : inode[op[p].i].addrs[l] = 0

itrunc_direct(p) ==
  /\ Truncating(p)
  /\ \E k \in 0 .. NDIRECT - 1 : NoneBefore(p, k) /\ FreeAddr(p, k)

(* Entry j of the indirect block. *)
itrunc_entry(p) ==
  LET ind == inode[op[p].i].addrs[NDIRECT]
      b == disk[ind][op[p].j]
  IN
  /\ Truncating(p) /\ NoneBefore(p, NDIRECT)
  /\ ind # 0 /\ op[p].j < NINDIRECT
  /\ disk' = IF b # 0 THEN bfree(disk, b) ELSE disk
  /\ panic' = (b # 0 /\ IsFree(b))
  /\ op' = [op EXCEPT ![p].j = @ + 1]
  /\ UNCHANGED <<sb, inode, lock, calls, buffers, saved>>

itrunc_indirect(p) ==
  /\ Truncating(p) /\ NoneBefore(p, NDIRECT)
  /\ op[p].j = NINDIRECT
  /\ FreeAddr(p, NDIRECT)

itrunc_end(p) ==
  LET i == op[p].i IN
  /\ Truncating(p) /\ NoneBefore(p, NDIRECT + 1)
  /\ inode' = [inode EXCEPT ![i].size = 0]
  /\ disk' = iupdate(disk, i, [inode[i] EXCEPT !.size = 0])
  /\ Unlock(p, i)

Next ==
  \/ fsinit \/ ialloc(T_FILE) \/ commit
  \/ \E x \in loose : bget_recycle(x)
  \/ \E i \in Inum :
       \/ recycle(i)
       \/ \E p \in Proc :
            \/ itrunc(p, i)
            \/ \E n \in Counts : \E off \in Offsets :
                 readi(p, i, off, n) \/ writei(p, i, off, n)
  \/ \E p \in Proc :
       \/ balloc(p) \/ bmap(p) \/ copy(p)
       \/ \E k \in 0 .. BSIZE - 1 : copy_fails(p, k)
       \/ readi_end(p) \/ writei_end(p)
       \/ itrunc_direct(p) \/ itrunc_entry(p) \/ itrunc_indirect(p) \/ itrunc_end(p)

Spec == Init /\ [][Next]_vars

-----------------------------------------------------------------------------
(* Properties *)

(* The blocks an inode refers to. Entries of the indirect block that a     *)
(* truncation has passed are no longer its own.                            *)
Passed(i) == IF lock[i] # Free /\ op[lock[i]].kind = "trunc" THEN op[lock[i]].j ELSE 0
Refs(i) ==
  LET a == inode[i].addrs IN
  {<<i, k, a[k]>> : k \in 0 .. NDIRECT}
  \cup IF a[NDIRECT] = 0 THEN {}
       ELSE {<<i, NDIRECT + 1 + k, disk[a[NDIRECT]][k]>> : k \in Passed(i) .. NINDIRECT - 1}
InFlight == {<<p, 0, op[p].b>> : p \in {q \in Proc : In(q, "zero")}}
AllRefs == {r \in InFlight \cup UNION {Refs(i) : i \in Inum} : r[3] # 0}

(* The bitmap is exact and no block has two owners: a block is marked if   *)
(* and only if it is metadata, in one place of one file, or on its way     *)
(* from balloc() to one. Neither mkfs nor two processes that allocate and  *)
(* truncate at the same time break this, nor a disk that is full; so       *)
(* bfree() never panics. An inode that nobody has locked is the same in    *)
(* memory and on disk, so recycling its entry loses no block: iupdate() is *)
(* called on every path that changes it.                                   *)
BlocksExact ==
  sb # NoSB =>
    LET refs == AllRefs IN
    /\ ~panic
    /\ {b \in 0 .. sb.size - 1 : ~IsFree(b)} = 0 .. nmeta - 1 \cup {r[3] : r \in refs}
    /\ \A r, s \in refs : r[3] = s[3] => r = s
    /\ \A r \in refs : r[3] \in nmeta .. sb.size - 1
    /\ \A i \in Inum : lock[i] = Free => inode[i] = rinode(disk, sb, i)

(* What mkfs is asked to build; the listing is padded with empty entries.  *)
Listing == <<ROOTINO, ROOTINO>> \o [k \in 1 .. Len(Sources) |-> k + 1]
Initial ==
  [i \in Inum |->
     IF i = ROOTINO
     THEN [k \in 1 .. (Len(Listing) \div BSIZE + 1) * BSIZE |->
             IF k <= Len(Listing) THEN Listing[k] ELSE 0]
     ELSE IF i - 1 <= Len(Sources) THEN Sources[i - 1] ELSE << >>]

(* Blocks implement files: mkfs puts every file and its entry where the    *)
(* kernel finds them, and calls on one file never change the bytes of      *)
(* another, nor other bytes of the same file. The bytes that a writei()    *)
(* has reported stay; only what a copy that failed has left in a buffer,   *)
(* beyond them, may go back to what it was. readi() returns the bytes of   *)
(* the file from off on, as they are when it comes to them.                *)
Files == INSTANCE FileStore WITH
  content <- << >> \o [i \in Inum |-> IF sb = NoSB THEN Initial[i]
                                      ELSE IF lock[i] = Free THEN << >> \o Bytes(i)
                                      ELSE saved[i].content],
  undo <- << >> \o [i \in Inum |-> IF lock[i] = Free THEN Undo(i) ELSE saved[i].undo],
  Byte <- {Byte[p] : p \in Proc},
  MaxWrite <- Max(Counts)
ReadsOn(p) ==
  op[p].kind = "read" /\ op'[p].kind = "read" =>
    op'[p].dst = op[p].dst \o SubSeq(saved[op[p].i].content, op[p].off + op[p].tot + 1,
                                     op[p].off + op'[p].tot)
IsFileStore ==
  /\ Files!Spec
  /\ [][\A p \in Proc : ReadsOn(p)]_vars
=============================================================================
