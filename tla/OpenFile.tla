------------------------------ MODULE OpenFile ------------------------------
(***************************************************************************)
(* Open files on one inode (kernel/file.c and the descriptor calls of      *)
(* kernel/sysfile.c): the table of struct file, whose entries processes    *)
(* share through dup() and fork(), and the offset f->off, which read() and *)
(* write() move while they hold the inode's lock and lseek() moves without *)
(* it. A section under ftable.lock is one step. Every load and store of    *)
(* f->off is a step of its own.                                            *)
(***************************************************************************)
EXTENDS Integers, FiniteSets

CONSTANTS Proc,
          NFILE,    \* entries of ftable
          NOFILE,   \* descriptors of a process
          NoFile,   \* an unused descriptor
          Free,     \* nobody holds ip->lock
          UINT,     \* f->off is counted modulo this
          MaxSize,  \* largest file, MAXFILE * BSIZE
          Seek      \* bound: the entries of ftable lseek() is called on

File == 1 .. NFILE
Fd == 1 .. NOFILE

OpenFileConstants ==
  /\ NFILE \in Nat
  /\ NOFILE \in Nat
  /\ MaxSize \in Nat
  /\ UINT \in Nat
  /\ MaxSize < UINT
  /\ Seek \subseteq File
  /\ Free \notin Proc
  /\ NoFile \notin File
  /\ IsFiniteSet(Proc)

VARIABLES
  ref, type, off,  \* struct file
  ofile,    \* the descriptor tables
  iref,     \* references to the inode held by files and by calls
  locker,   \* holder of ip->lock
  size,     \* ip->size
  pc,
  f,        \* the file a call works on
  start,    \* the offset that readi() or writei() was called with
  r,        \* the number of bytes it transferred
  tmp       \* f->off in a register

files == <<ref, type, off, ofile>>
inode == <<iref, locker, size>>
regs == <<f, start, r, tmp>>
vars == <<files, inode, pc, regs>>

Init ==
  /\ ref = [x \in File |-> 0]
  /\ type = [x \in File |-> "FD_NONE"]
  /\ off = [x \in File |-> 0]
  /\ ofile = [p \in Proc |-> [d \in Fd |-> NoFile]]
  /\ iref = 0
  /\ locker = Free
  /\ size = 0
  /\ pc = [p \in Proc |-> "idle"]
  /\ f = [p \in Proc |-> NoFile]
  /\ start = [p \in Proc |-> 0]
  /\ r = [p \in Proc |-> 0]
  /\ tmp = [p \in Proc |-> 0]

Goto(p, l) == pc' = [pc EXCEPT ![p] = l]

Wrap(n) == n % UINT

(* The descriptors that refer to x. *)
Refs(x) == {pd \in Proc \X Fd : ofile[pd[1]][pd[2]] = x}

FdFree(p, d) == ofile[p][d] = NoFile

-----------------------------------------------------------------------------
(* open(): namei() takes a reference to the inode and ilock() its lock,    *)
(* filealloc() takes the first free entry of the table. An open() that     *)
(* finds none undoes namei() and changes nothing.                          *)
filealloc(p, x) ==
  /\ pc[p] = "idle"
  /\ locker = Free
  /\ ref[x] = 0 /\ \A y \in File : y < x => ref[y] # 0
  /\ ref' = [ref EXCEPT ![x] = 1]
  /\ iref' = iref + 1
  /\ locker' = p
  /\ f' = [f EXCEPT ![p] = x]
  /\ Goto(p, "opened")
  /\ UNCHANGED <<type, off, ofile, size, start, r, tmp>>

MutNoCount(x) ==
  /\ ref[x] > 0
  /\ ref' = [ref EXCEPT ![x] = 0]
  /\ type' = [type EXCEPT ![x] = "FD_NONE"]

(* The section of fileclose() under ftable.lock. *)
fileclose(x) ==
  /\ ref[x] > 0
  /\ ref' = [ref EXCEPT ![x] = @ - 1]
  /\ type' = IF ref[x] = 1 THEN [type EXCEPT ![x] = "FD_NONE"] ELSE type

(* fdalloc(f), the fields of the new file, itrunc() for O_TRUNC, iunlock(). *)
open_fd(p, d) ==
  /\ pc[p] = "opened"
  /\ FdFree(p, d) /\ \A e \in Fd : e < d => ~FdFree(p, e)
  /\ ofile' = [ofile EXCEPT ![p][d] = f[p]]
  /\ type' = [type EXCEPT ![f[p]] = "FD_INODE"]
  /\ off' = [off EXCEPT ![f[p]] = 0]
  /\ size' \in {size, 0}
  /\ locker' = Free
  /\ f' = [f EXCEPT ![p] = NoFile]
  /\ Goto(p, "idle")
  /\ UNCHANGED <<ref, iref, start, r, tmp>>

(* fdalloc() fails: fileclose(f), which must not put the inode, since      *)
(* iunlockput(ip) follows.                                                 *)
open_fail(p) ==
  /\ pc[p] = "opened"
  /\ \A d \in Fd : ~FdFree(p, d)
  /\ fileclose(f[p])
  /\ Goto(p, IF type[f[p]] = "FD_INODE" THEN "iput" ELSE "idle")
  /\ iref' = iref - 1
  /\ locker' = Free
  /\ f' = [f EXCEPT ![p] = NoFile]
  /\ UNCHANGED <<off, ofile, size, start, r, tmp>>

sys_dup(p, d, e) ==
  /\ pc[p] = "idle"
  /\ ~FdFree(p, d)
  /\ FdFree(p, e) /\ \A g \in Fd : g < e => ~FdFree(p, g)
  /\ ofile' = [ofile EXCEPT ![p][e] = ofile[p][d]]
  /\ ref' = [ref EXCEPT ![ofile[p][d]] = @ + 1]
  /\ UNCHANGED <<type, off, inode, pc, regs>>

(* fork(): a new process q gets filedup() of every descriptor of p. *)
fork(p, q) ==
  /\ pc[p] = "idle" /\ pc[q] = "idle"
  /\ p # q
  /\ \E d \in Fd : ~FdFree(p, d)
  /\ \A d \in Fd : FdFree(q, d)
  /\ ofile' = [ofile EXCEPT ![q] = ofile[p]]
  /\ ref' = [x \in File |-> ref[x] + Cardinality({d \in Fd : ofile[p][d] = x})]
  /\ UNCHANGED <<type, off, inode, pc, regs>>

(* close(), or exit(): fileclose(), then iput() if the file is gone. *)
sys_close(p, d) ==
  LET x == ofile[p][d] IN
  /\ pc[p] = "idle"
  /\ ~FdFree(p, d)
  /\ ofile' = [ofile EXCEPT ![p][d] = NoFile]
  /\ fileclose(x)
  /\ Goto(p, IF ref[x] = 1 /\ type[x] = "FD_INODE" THEN "iput" ELSE "idle")
  /\ UNCHANGED <<off, inode, regs>>

close_iput(p) ==
  /\ pc[p] = "iput"
  /\ iref' = iref - 1
  /\ Goto(p, "idle")
  /\ UNCHANGED <<files, locker, size, regs>>

-----------------------------------------------------------------------------
(* fileread() and filewrite() *)

(* ilock() and readi() of n bytes at f->off. *)
Readable(o, n) == IF o > size \/ Wrap(o + n) < o THEN 0
                  ELSE IF o + n > size THEN size - o ELSE n

MutNoIlock(p) == locker' = locker

TakeIlock(p) == locker = Free /\ locker' = p

Transfer(p, x, count) ==
  /\ f' = [f EXCEPT ![p] = x]
  /\ start' = [start EXCEPT ![p] = off[x]]
  /\ r' = [r EXCEPT ![p] = count]
  /\ TakeIlock(p)
  /\ Goto(p, "load")

fileread(p, d, n) ==
  LET x == ofile[p][d] IN
  /\ pc[p] = "idle"
  /\ ~FdFree(p, d)
  /\ Transfer(p, x, Readable(off[x], n))
  /\ UNCHANGED <<files, iref, size, tmp>>

(* One chunk of a write, under ilock(): writei() refuses an offset beyond   *)
(* the end, a wrap and a file that is too large, and transfers less when   *)
(* the disk is full. The lock is free between the chunks of a long write,  *)
(* which are so many calls here.                                           *)
filewrite(p, d, n) ==
  LET x == ofile[p][d]
      bad == off[x] > size \/ Wrap(off[x] + n) < off[x] \/ off[x] + n > MaxSize
  IN
  /\ pc[p] = "idle"
  /\ ~FdFree(p, d)
  /\ \E count \in IF bad THEN {0} ELSE 0 .. n :
       /\ Transfer(p, x, count)
       /\ size' = IF ~bad /\ off[x] + count > size THEN off[x] + count ELSE size
  /\ UNCHANGED <<files, iref, tmp>>

(* f->off += r, if r > 0: load, then store and iunlock(). *)
load_off(p) ==
  /\ pc[p] = "load"
  /\ tmp' = [tmp EXCEPT ![p] = off[f[p]]]
  /\ Goto(p, "store")
  /\ UNCHANGED <<files, inode, f, start, r>>

Idle(p) ==
  /\ Goto(p, "idle")
  /\ f' = [f EXCEPT ![p] = NoFile]
  /\ start' = [start EXCEPT ![p] = 0]
  /\ r' = [r EXCEPT ![p] = 0]
  /\ tmp' = [tmp EXCEPT ![p] = 0]

store_off(p) ==
  /\ pc[p] = "store"
  /\ off' = IF r[p] > 0 THEN [off EXCEPT ![f[p]] = Wrap(tmp[p] + r[p])] ELSE off
  /\ locker' = Free
  /\ Idle(p)
  /\ UNCHANGED <<ref, type, ofile, iref, size>>

-----------------------------------------------------------------------------
(* lseek(), which takes no lock: the new offset is computed from f->off or *)
(* ip->size, then stored.                                                  *)
sys_lseek(p, d, whence, offset) ==
  LET x == ofile[p][d] IN
  /\ pc[p] = "idle"
  /\ ~FdFree(p, d)
  /\ x \in Seek
  /\ f' = [f EXCEPT ![p] = x]
  /\ tmp' = [tmp EXCEPT ![p] =
               Wrap(UINT + offset + (CASE whence = "SEEK_SET" -> 0
                                       [] whence = "SEEK_CUR" -> off[x]
                                       [] whence = "SEEK_END" -> size))]
  /\ Goto(p, "seek")
  /\ UNCHANGED <<files, inode, start, r>>

seek_store(p) ==
  /\ pc[p] = "seek"
  /\ off' = [off EXCEPT ![f[p]] = tmp[p]]
  /\ Idle(p)
  /\ UNCHANGED <<ref, type, ofile, inode>>

-----------------------------------------------------------------------------
Next ==
  \E p \in Proc :
    \/ \E x \in File : filealloc(p, x)
    \/ open_fail(p) \/ close_iput(p) \/ load_off(p) \/ store_off(p)
    \/ seek_store(p)
    \/ \E q \in Proc : fork(p, q)
    \/ \E d \in Fd : \/ open_fd(p, d) \/ sys_close(p, d)
                     \/ \E e \in Fd : sys_dup(p, d, e)
                     \/ \E n \in 1 .. 2 : fileread(p, d, n) \/ filewrite(p, d, n)
                     \/ \E whence \in {"SEEK_SET", "SEEK_CUR", "SEEK_END"},
                           offset \in -1 .. 1 : sys_lseek(p, d, whence, offset)

Spec == Init /\ [][Next]_vars

-----------------------------------------------------------------------------
(* Properties *)

(* A file's count is the number of descriptors that refer to it, plus one   *)
(* for the open() that is still making it, and every open file holds one    *)
(* reference to the inode, from open() to the last close(): no entry is     *)
(* reused while a descriptor points to it, none is lost, and iput() is      *)
(* called neither twice nor never.                                          *)
FileRefsExact ==
  /\ \A x \in File :
       ref[x] = Cardinality(Refs(x))
                + Cardinality({p \in Proc : pc[p] = "opened" /\ f[p] = x})
  /\ iref = Cardinality({x \in File : type[x] = "FD_INODE"})
            + Cardinality({p \in Proc : pc[p] \in {"opened", "iput"}})

OffsetUndisturbed(p) ==
  /\ pc[p] \in {"load", "store"} => off[f[p]] = start[p]
  /\ pc[p] = "store" => tmp[p] = start[p]

(* Processes that share a file on which nobody calls lseek() advance its    *)
(* offset one after the other: when a transfer ends, the offset is still    *)
(* where the transfer began. So two writers of a shared descriptor do not   *)
(* overwrite each other, and two readers do not read the same bytes.        *)
OffsetAtomic ==
  \A p \in Proc : f[p] \notin Seek => OffsetUndisturbed(p)

(* The same for every file: offsets are updated atomically after each       *)
(* operation ("mis à jour de manière atomique après chaque opération").     *)
OffsetAlwaysAtomic == \A p \in Proc : OffsetUndisturbed(p)
=============================================================================
