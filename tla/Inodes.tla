------------------------------- MODULE Inodes -------------------------------
(***************************************************************************)
(* Inodes and directories: the inode layer of kernel/fs.c (ialloc, iget,   *)
(* ilock, iput, iupdate, dirlookup, dirlink, namex) and the system calls   *)
(* of kernel/sysfile.c that create, link, unlink and hold inodes.          *)
(*                                                                         *)
(* A step is what a process does under one acquisition of an inode's lock, *)
(* up to the next lock it needs or the next use of the inode table; every  *)
(* section under itable.lock is inside one step. The disk is what bread()  *)
(* shows; that the calls reach it atomically is module Log's subject. An   *)
(* inode has one entry in the table at most, since iget() looks for one    *)
(* under itable.lock, and so the table is indexed by inode number.         *)
(***************************************************************************)
EXTENDS Integers, Sequences, FiniteSets, FiniteSetsExt

CONSTANTS Proc,
          Inum,     \* the inodes of the disk
          Root,     \* ROOTINO
          None,     \* inode number 0, and no entry or file
          Free,     \* nobody holds ip->lock
          Name,     \* file names
          Requests, \* bound: the system calls made, with their paths
          MaxLink   \* bound: link() is called while files have fewer links

InodesConstants ==
  /\ Root \in Inum
  /\ None \notin Inum
  /\ Free \notin Proc
  /\ \A q \in Requests : q.old.elems # <<>>

VARIABLES
  disk,    \* struct dinode, and the entries of a directory
  itable,  \* struct inode
  cwd,     \* p->cwd
  file,    \* the inode of p's open file
  pc,
  ret,     \* what namex() was called for
  path,    \* the path elements namex() has not used
  new,     \* the second path of link()
  ip, dp,  \* local variables: each holds a reference
  puts,    \* the inodes that iput() is called on next, in order
  phase    \* where in iput() p is

calls == <<ret, path, new>>
vars == <<disk, itable, cwd, file, pc, calls, ip, dp, puts, phase>>

(* stat.h *)
T_DIR == 1
T_FILE == 2

Entries == Name \cup {".."}
NoEntries == [n \in Entries |-> None]

Unallocated == [type |-> 0, nlink |-> 0, dirent |-> NoEntries]
Empty == [ref |-> 0, valid |-> FALSE, type |-> 0, nlink |-> 0, lock |-> Free]

(* mkfs has made the root directory, whose link count is 1; every process  *)
(* starts there.                                                           *)
Init ==
  /\ disk = [i \in Inum |-> IF i = Root
               THEN [type |-> T_DIR, nlink |-> 1,
                     dirent |-> [NoEntries EXCEPT ![".."] = Root]]
               ELSE Unallocated]
  /\ itable = [i \in Inum |-> IF i = Root
                 THEN [Empty EXCEPT !.ref = Cardinality(Proc)] ELSE Empty]
  /\ cwd = [p \in Proc |-> Root]
  /\ file = [p \in Proc |-> None]
  /\ pc = [p \in Proc |-> "user"]
  /\ ret = [p \in Proc |-> "none"]
  /\ path = [p \in Proc |-> <<>>]
  /\ new = [p \in Proc |-> <<>>]
  /\ ip = [p \in Proc |-> None]
  /\ dp = [p \in Proc |-> None]
  /\ puts = [p \in Proc |-> <<>>]
  /\ phase = [p \in Proc |-> "test"]

-----------------------------------------------------------------------------
(* The inode layer, as functions of a table t or a disk d *)

iget(t, i) ==
  [t EXCEPT ![i] = IF @.ref > 0 THEN [@ EXCEPT !.ref = @ + 1]
                                ELSE [Empty EXCEPT !.ref = 1]]

(* The entry of i after ilock(i) by p: what the disk has, if not valid. *)
ilock(t, i, p) ==
  [t EXCEPT ![i] = IF @.valid THEN [@ EXCEPT !.lock = p]
                   ELSE [@ EXCEPT !.lock = p, !.valid = TRUE,
                                  !.type = disk[i].type,
                                  !.nlink = disk[i].nlink]]

iunlock(t, i) == [t EXCEPT ![i].lock = Free]

iupdate(d, t, i) ==
  [d EXCEPT ![i].type = t[i].type, ![i].nlink = t[i].nlink]

(* Entry n of directory x, and d with this entry set to i. *)
dirlookup(x, n) == disk[x].dirent[n]
dirlink(d, x, n, i) == [d EXCEPT ![x].dirent[n] = i]

ialloc(d, i, type) == [d EXCEPT ![i] = [Unallocated EXCEPT !.type = type]]

(* itrunc(ip); ip->type = 0; iupdate(ip), of an inode without links. *)
itrunc(d, i) == [d EXCEPT ![i] = Unallocated]

(* ilock() of i does not wait and does not panic. *)
CanLock(i) ==
  /\ itable[i].lock = Free
  /\ ~itable[i].valid => disk[i].type # 0

At(p, l) == pc[p] = l /\ puts[p] = <<>>
Goto(p, l) == pc' = [pc EXCEPT ![p] = l]
Put(p, s) == puts' = [puts EXCEPT ![p] = s]
Local(v, p, i) == [v EXCEPT ![p] = i]

(* The call ends, after the iput()s that are left. *)
Return(p) ==
  /\ Goto(p, "user")
  /\ ret' = [ret EXCEPT ![p] = "none"]
  /\ path' = [path EXCEPT ![p] = <<>>]
  /\ new' = [new EXCEPT ![p] = <<>>]
  /\ ip' = Local(ip, p, None)
  /\ dp' = Local(dp, p, None)

-----------------------------------------------------------------------------
(* iput(i) for the first inode i of puts[p]. The last reference to an      *)
(* inode without links frees it: the test and acquiresleep(), which must   *)
(* not wait, are under itable.lock; the rest is under the inode's lock.    *)
MutShared(i) == itable[i].valid /\ itable[i].nlink = 0

LastPut(i) == itable[i].ref = 1 /\ itable[i].valid /\ itable[i].nlink = 0

Putting(p, ph) == puts[p] # <<>> /\ phase[p] = ph

Drop(p, i) ==
  /\ itable' = [itable EXCEPT ![i] = IF @.ref = 1 THEN Empty
                                     ELSE [@ EXCEPT !.ref = @ - 1]]
  /\ puts' = [puts EXCEPT ![p] = Tail(@)]

iput(p) ==
  LET i == Head(puts[p]) IN
  /\ Putting(p, "test")
  /\ \/ /\ LastPut(i)
        /\ itable[i].lock = Free
        /\ itable' = [itable EXCEPT ![i].lock = p]
        /\ phase' = [phase EXCEPT ![p] = "free"]
        /\ UNCHANGED puts
     \/ ~LastPut(i) /\ Drop(p, i) /\ UNCHANGED phase
  /\ UNCHANGED <<disk, cwd, file, pc, calls, ip, dp>>

iput_free(p) ==
  LET i == Head(puts[p]) IN
  /\ Putting(p, "free")
  /\ itable' = [itable EXCEPT ![i].type = 0]
  /\ disk' = itrunc(disk, i)
  /\ phase' = [phase EXCEPT ![p] = "unlock"]
  /\ UNCHANGED <<cwd, file, pc, calls, ip, dp, puts>>

(* ip->valid = 0; releasesleep(&ip->lock) *)
iput_unlock(p) ==
  LET i == Head(puts[p]) IN
  /\ Putting(p, "unlock")
  /\ itable' = [itable EXCEPT ![i].valid = FALSE, ![i].lock = Free]
  /\ phase' = [phase EXCEPT ![p] = "drop"]
  /\ UNCHANGED <<disk, cwd, file, pc, calls, ip, dp, puts>>

iput_drop(p) ==
  /\ Putting(p, "drop")
  /\ Drop(p, Head(puts[p]))
  /\ phase' = [phase EXCEPT ![p] = "test"]
  /\ UNCHANGED <<disk, cwd, file, pc, calls, ip, dp>>

-----------------------------------------------------------------------------
(* namex(): dp is the inode reached so far. A call that ends in nameiparent *)
(* goes on with the parent in dp, any other with the inode in ip.          *)
Parent == {"create", "mkdir", "unlink", "link_dp"}

Start(p, w) == IF w.abs THEN Root ELSE cwd[p]

call(p, q) ==
  /\ At(p, "user")
  /\ q.call = "link" =>
       \A i \in Inum : disk[i].type = T_FILE => disk[i].nlink < MaxLink
  /\ ret' = [ret EXCEPT ![p] = q.call]
  /\ path' = [path EXCEPT ![p] = q.old.elems]
  /\ new' = IF q.call = "link" THEN [new EXCEPT ![p] = q.new] ELSE new
  /\ itable' = iget(itable, Start(p, q.old))
  /\ dp' = Local(dp, p, Start(p, q.old))
  /\ Goto(p, "namex")
  /\ UNCHANGED <<disk, cwd, file, ip, puts, phase>>

MutNoPut(p, x) ==
  /\ UNCHANGED puts
  /\ \/ ret[p] # "link_dp" /\ Return(p)
     \/ /\ ret[p] = "link_dp"
        /\ Goto(p, "link_bad")
        /\ dp' = Local(dp, p, None)
        /\ UNCHANGED <<calls, ip>>

NotFound(p, x) ==
  /\ Put(p, <<x>>)
  /\ \/ ret[p] # "link_dp" /\ Return(p)
     \/ /\ ret[p] = "link_dp"
        /\ Goto(p, "link_bad")
        /\ dp' = Local(dp, p, None)
        /\ UNCHANGED <<calls, ip>>

namex(p) ==
  LET x == dp[p]
      t == ilock(itable, x, p)
      last == Len(path[p]) = 1
      next == dirlookup(x, Head(path[p]))
      parent == last /\ ret[p] \in Parent
  IN
  /\ At(p, "namex")
  /\ CanLock(x)
  /\ \/ /\ t[x].type # T_DIR \/ (~parent /\ next = None)
        /\ itable' = iunlock(t, x)
        /\ NotFound(p, x)
     \/ /\ t[x].type = T_DIR /\ parent
        /\ itable' = iunlock(t, x)
        /\ Goto(p, ret[p])
        /\ UNCHANGED <<calls, ip, dp, puts>>
     \/ /\ t[x].type = T_DIR /\ ~parent /\ next # None
        /\ itable' = iunlock(iget(t, next), x)
        /\ Put(p, <<x>>)
        /\ IF last THEN /\ ip' = Local(ip, p, next)
                        /\ dp' = Local(dp, p, None)
                        /\ Goto(p, ret[p])
                        /\ UNCHANGED calls
                   ELSE /\ dp' = Local(dp, p, next)
                        /\ path' = [path EXCEPT ![p] = Tail(@)]
                        /\ UNCHANGED <<pc, ret, new, ip>>
  /\ UNCHANGED <<disk, cwd, file, phase>>

-----------------------------------------------------------------------------
(* open() and close(); a process has room for one open file *)

(* The end of sys_open() with x locked in t: filealloc() and fdalloc(), or *)
(* iunlockput(). *)
Opened(p, t, x, ok) ==
  /\ itable' = iunlock(t, x)
  /\ IF ok /\ file[p] = None
     THEN file' = [file EXCEPT ![p] = x] /\ UNCHANGED puts
     ELSE Put(p, <<x>>) /\ UNCHANGED file
  /\ Return(p)
  /\ UNCHANGED <<disk, cwd, phase>>

open(p) ==
  LET t == ilock(itable, ip[p], p) IN
  /\ At(p, "open")
  /\ CanLock(ip[p])
  /\ \E rdonly \in BOOLEAN :
       Opened(p, t, ip[p], t[ip[p]].type # T_DIR \/ rdonly)

close(p) ==
  /\ At(p, "user")
  /\ file[p] # None
  /\ Put(p, <<file[p]>>)
  /\ file' = [file EXCEPT ![p] = None]
  /\ UNCHANGED <<disk, itable, cwd, pc, calls, ip, dp, phase>>

sys_chdir(p) ==
  LET t == ilock(itable, ip[p], p) IN
  /\ At(p, "chdir")
  /\ CanLock(ip[p])
  /\ itable' = iunlock(t, ip[p])
  /\ IF t[ip[p]].type = T_DIR
     THEN cwd' = [cwd EXCEPT ![p] = ip[p]] /\ Put(p, <<cwd[p]>>)
     ELSE Put(p, <<ip[p]>>) /\ UNCHANGED cwd
  /\ Return(p)
  /\ UNCHANGED <<disk, file, phase>>

(* chmod() stores the mode in the low bits of ip->type, which hold the     *)
(* type, and never puts the inode. *)
sys_chmod(p, mode) ==
  LET x == ip[p]
      t == [ilock(itable, x, p) EXCEPT ![x].type = (@ - (@ % 512)) + mode]
  IN
  /\ At(p, "chmod")
  /\ CanLock(x)
  /\ disk' = iupdate(disk, t, x)
  /\ itable' = iunlock(t, x)
  /\ Return(p)
  /\ UNCHANGED <<cwd, file, puts, phase>>

-----------------------------------------------------------------------------
(* create(), for open() with O_CREATE and for mkdir() *)

TypeOf(p) == IF ret[p] = "mkdir" THEN T_DIR ELSE T_FILE

(* With the parent locked: the name exists, or an inode is allocated, any  *)
(* free one, since the scan of ialloc() holds no lock between two inodes.  *)
create(p) ==
  LET x == dp[p]
      t == ilock(itable, x, p)
      old == dirlookup(x, Head(path[p]))
      free == {i \in Inum : disk[i].type = 0}
  IN
  /\ At(p, "create") \/ At(p, "mkdir")
  /\ CanLock(x)
  /\ \/ /\ old # None
        /\ itable' = iunlock(iget(t, old), x)
        /\ Put(p, <<x>>)
        /\ ip' = Local(ip, p, old)
        /\ dp' = Local(dp, p, None)
        /\ Goto(p, "create_found")
        /\ UNCHANGED <<disk, calls>>
     \/ /\ old = None /\ free = {}
        /\ itable' = iunlock(t, x)
        /\ Put(p, <<x>>)
        /\ Return(p)
        /\ UNCHANGED disk
     \/ \E i \in free :
        /\ old = None
        /\ itable' = t
        /\ disk' = ialloc(disk, i, TypeOf(p))
        /\ ip' = Local(ip, p, i)
        /\ Goto(p, "create_iget")
        /\ UNCHANGED <<calls, dp, puts>>
  /\ UNCHANGED <<cwd, file, phase>>

create_found(p) ==
  LET t == ilock(itable, ip[p], p) IN
  /\ At(p, "create_found")
  /\ CanLock(ip[p])
  /\ Opened(p, t, ip[p], ret[p] = "create" /\ t[ip[p]].type = T_FILE)

create_iget(p) ==
  /\ At(p, "create_iget")
  /\ itable' = iget(itable, ip[p])
  /\ Goto(p, "create_fill")
  /\ UNCHANGED <<disk, cwd, file, calls, ip, dp, puts, phase>>

(* With parent and new inode locked: the entries "..", of a directory, and *)
(* the new name are written, unless the disk is full.                      *)
create_fill(p) ==
  LET x == dp[p]
      y == ip[p]
      dots == IF ret[p] = "mkdir" THEN 1 ELSE 0
      t == ilock(itable, y, p)
      ok == [t EXCEPT ![y].nlink = 1, ![x].nlink = @ + dots]
      bad == [t EXCEPT ![y].nlink = 0]
      entries == IF ret[p] = "mkdir" THEN [NoEntries EXCEPT ![".."] = x]
                                     ELSE NoEntries
  IN
  /\ At(p, "create_fill")
  /\ CanLock(y)
  /\ \/ /\ itable' = iunlock(ok, x)
        /\ disk' = dirlink([iupdate(iupdate(disk, ok, y), ok, x)
                              EXCEPT ![y].dirent = entries],
                           x, Head(path[p]), y)
        /\ Put(p, <<x>>)
        /\ dp' = Local(dp, p, None)
        /\ Goto(p, "created")
        /\ UNCHANGED ip
     \/ /\ itable' = iunlock(bad, y)
        /\ disk' = [iupdate(disk, bad, y) EXCEPT ![y].dirent = entries]
        /\ Put(p, <<y>>)
        /\ ip' = Local(ip, p, None)
        /\ Goto(p, "create_fail")
        /\ UNCHANGED dp
  /\ UNCHANGED <<cwd, file, calls, phase>>

MutStillLocked(p) ==
  /\ At(p, "create_fail")
  /\ Put(p, <<dp[p]>>)
  /\ Return(p)
  /\ UNCHANGED <<disk, itable, cwd, file, phase>>

create_fail(p) ==
  /\ At(p, "create_fail")
  /\ itable' = iunlock(itable, dp[p])
  /\ Put(p, <<dp[p]>>)
  /\ Return(p)
  /\ UNCHANGED <<disk, cwd, file, phase>>

created(p) ==
  /\ At(p, "created")
  /\ Opened(p, itable, ip[p], ret[p] = "create")

-----------------------------------------------------------------------------
(* unlink() *)

isdirempty(i) == \A n \in Name : dirlookup(i, n) = None

unlink(p) ==
  LET x == dp[p]
      t == ilock(itable, x, p)
      n == Head(path[p])
      i == dirlookup(x, n)
  IN
  /\ At(p, "unlink")
  /\ CanLock(x)
  /\ \/ /\ n = ".." \/ i = None
        /\ itable' = iunlock(t, x)
        /\ Put(p, <<x>>)
        /\ Return(p)
     \/ /\ n # ".." /\ i # None
        /\ itable' = iget(t, i)
        /\ ip' = Local(ip, p, i)
        /\ Goto(p, "unlink_ip")
        /\ UNCHANGED <<calls, dp, puts>>
  /\ UNCHANGED <<disk, cwd, file, phase>>

(* With both locked: the entry is erased and the parent released, or a     *)
(* directory that is not empty is. *)
unlink_ip(p) ==
  LET x == dp[p]
      i == ip[p]
      t == ilock(itable, i, p)
      dots == IF t[i].type = T_DIR THEN 1 ELSE 0
      ok == [t EXCEPT ![x].nlink = @ - dots]
  IN
  /\ At(p, "unlink_ip")
  /\ CanLock(i)
  /\ t[i].nlink >= 1
  /\ \/ /\ t[i].type = T_DIR /\ ~isdirempty(i)
        /\ itable' = iunlock(t, i)
        /\ Put(p, <<i>>)
        /\ ip' = Local(ip, p, None)
        /\ Goto(p, "unlink_bad")
        /\ UNCHANGED <<disk, dp>>
     \/ /\ t[i].type # T_DIR \/ isdirempty(i)
        /\ itable' = iunlock(ok, x)
        /\ disk' = dirlink(iupdate(disk, ok, x), x, Head(path[p]), None)
        /\ Put(p, <<x>>)
        /\ dp' = Local(dp, p, None)
        /\ Goto(p, "unlink_drop")
        /\ UNCHANGED ip
  /\ UNCHANGED <<cwd, file, calls, phase>>

unlink_bad(p) ==
  /\ At(p, "unlink_bad")
  /\ itable' = iunlock(itable, dp[p])
  /\ Put(p, <<dp[p]>>)
  /\ Return(p)
  /\ UNCHANGED <<disk, cwd, file, phase>>

unlink_drop(p) ==
  LET i == ip[p]
      t == [itable EXCEPT ![i].nlink = @ - 1]
  IN
  /\ At(p, "unlink_drop")
  /\ disk' = iupdate(disk, t, i)
  /\ itable' = iunlock(t, i)
  /\ Put(p, <<i>>)
  /\ Return(p)
  /\ UNCHANGED <<cwd, file, phase>>

-----------------------------------------------------------------------------
(* link() *)

(* The link is counted before the new name is looked for. *)
link(p) ==
  LET i == ip[p]
      t == ilock(itable, i, p)
      more == [t EXCEPT ![i].nlink = @ + 1]
      x == Start(p, new[p])
  IN
  /\ At(p, "link")
  /\ CanLock(i)
  /\ \/ /\ t[i].type = T_DIR
        /\ itable' = iunlock(t, i)
        /\ Put(p, <<i>>)
        /\ Return(p)
        /\ UNCHANGED disk
     \/ /\ t[i].type # T_DIR
        /\ disk' = iupdate(disk, more, i)
        /\ itable' = iget(iunlock(more, i), x)
        /\ ret' = [ret EXCEPT ![p] = "link_dp"]
        /\ path' = [path EXCEPT ![p] = new[p].elems]
        /\ dp' = Local(dp, p, x)
        /\ Goto(p, "namex")
        /\ UNCHANGED <<new, ip, puts>>
  /\ UNCHANGED <<cwd, file, phase>>

(* dirlink(): the name exists; or it is written; or the disk is full. *)
link_dp(p) ==
  LET x == dp[p]
      t == ilock(itable, x, p)
      n == Head(path[p])
      old == dirlookup(x, n)
  IN
  /\ At(p, "link_dp")
  /\ CanLock(x)
  /\ \/ /\ old # None
        /\ itable' = iget(t, old)
        /\ Put(p, <<old>>)
        /\ Goto(p, "link_unlock")
        /\ UNCHANGED <<disk, calls, ip, dp>>
     \/ /\ old = None
        /\ itable' = iunlock(t, x)
        /\ disk' = dirlink(disk, x, n, ip[p])
        /\ Put(p, <<x, ip[p]>>)
        /\ Return(p)
     \/ /\ old = None
        /\ itable' = iunlock(t, x)
        /\ Put(p, <<x>>)
        /\ Goto(p, "link_bad")
        /\ dp' = Local(dp, p, None)
        /\ UNCHANGED <<disk, calls, ip>>
  /\ UNCHANGED <<cwd, file, phase>>

link_unlock(p) ==
  /\ At(p, "link_unlock")
  /\ itable' = iunlock(itable, dp[p])
  /\ Put(p, <<dp[p]>>)
  /\ dp' = Local(dp, p, None)
  /\ Goto(p, "link_bad")
  /\ UNCHANGED <<disk, cwd, file, calls, ip, phase>>

link_bad(p) ==
  LET i == ip[p]
      t == [ilock(itable, i, p) EXCEPT ![i].nlink = @ - 1]
  IN
  /\ At(p, "link_bad")
  /\ CanLock(i)
  /\ disk' = iupdate(disk, t, i)
  /\ itable' = iunlock(t, i)
  /\ Put(p, <<i>>)
  /\ Return(p)
  /\ UNCHANGED <<cwd, file, phase>>

-----------------------------------------------------------------------------
Next ==
  \E p \in Proc :
    \/ \E q \in Requests : call(p, q)
    \/ iput(p) \/ iput_free(p) \/ iput_unlock(p) \/ iput_drop(p)
    \/ namex(p) \/ open(p) \/ close(p) \/ sys_chdir(p)
    \/ create(p) \/ create_found(p) \/ create_iget(p) \/ create_fill(p)
    \/ create_fail(p) \/ created(p)
    \/ unlink(p) \/ unlink_ip(p) \/ unlink_bad(p) \/ unlink_drop(p)
    \/ link(p) \/ link_dp(p) \/ link_unlock(p) \/ link_bad(p)

Spec == Init /\ [][Next]_vars

(* The same with chmod(), of modes 0 and 0644. *)
NextChmod == Next \/ \E p \in Proc, mode \in {0, 420} : sys_chmod(p, mode)

SpecChmod == Init /\ [][NextChmod]_vars

-----------------------------------------------------------------------------
(* Properties *)

(* The inode whose lock p asks for next, if any. *)
Wants(p) ==
  IF puts[p] # <<>> \/ pc[p] \in {"user", "create_iget", "create_fail", "created",
                                  "unlink_bad", "unlink_drop", "link_unlock"}
  THEN None
  ELSE IF pc[p] \in {"namex", "create", "mkdir", "unlink", "link_dp"}
       THEN dp[p] ELSE ip[p]

(* No system call runs into a panic: an inode that is locked is allocated   *)
(* ("ilock: no type"), one found by unlink() has a link ("nlink < 1"), and  *)
(* acquiresleep() in iput(), called with itable.lock held, need not wait.   *)
(* This is for Requests whose paths have no "..": the ".." of a removed     *)
(* directory that is still a cwd may lead to an inode that is free by then. *)
NoPanic ==
  \A p \in Proc :
    /\ Wants(p) # None /\ itable[Wants(p)].lock = Free =>
         CanLock(Wants(p))
    /\ Wants(p) # None /\ pc[p] = "unlink_ip" /\ CanLock(ip[p]) =>
         ilock(itable, ip[p], p)[ip[p]].nlink >= 1
    /\ Putting(p, "test") /\ LastPut(Head(puts[p])) =>
         itable[Head(puts[p])].lock = Free

Holds(p, i) ==
  Cardinality({l \in 1 .. 4 :
    <<cwd[p], file[p], dp[p],
      IF pc[p] = "create_iget" THEN None ELSE ip[p]>>[l] = i})
  + Cardinality({k \in DOMAIN puts[p] : puts[p][k] = i})

(* The entries that name i, and its subdirectories, which name it "..". *)
Links(i) ==
  Cardinality({e \in Inum \X Name : disk[e[1]].dirent[e[2]] = i})
  + Cardinality({n \in Name : /\ disk[i].dirent[n] # None
                              /\ disk[disk[i].dirent[n]].type = T_DIR})

(* A link that link() or unlink() has counted but not, or no longer, written. *)
Pending(i) ==
  Cardinality({p \in Proc : /\ ip[p] = i
                            /\ \/ ret[p] = "link_dp"
                               \/ pc[p] = "unlink_drop"})

(* An inode's count is exactly the number of references to it: working      *)
(* directories, open files, local variables of the calls in progress and    *)
(* iput()s to come; so no entry of itable is recycled while in use, and     *)
(* none leaks. A link count covers every directory entry that names the     *)
(* inode, at any time; so no entry names a free or a reused inode.          *)
CountsExact ==
  \A i \in Inum :
    /\ itable[i].ref = MapThenSumSet(LAMBDA p : Holds(p, i), Proc)
    /\ Links(i) + Pending(i) <= disk[i].nlink
    /\ Links(i) > 0 => disk[i].type # 0

(* An inode without links and references is free on the disk: it is neither *)
(* left allocated by the calls that raced to drop it, nor freed twice.      *)
Reclaimed ==
  \A i \in Inum :
    itable[i].ref = 0 /\ disk[i].type # 0 /\ disk[i].nlink = 0 =>
      \E p \in Proc : pc[p] = "create_iget" /\ ip[p] = i

(* The processes never wait in a circle for each other's inodes, although   *)
(* create() and unlink() lock a second inode while they hold the parent.    *)
NoLockCycle ==
  \A S \in SUBSET Proc :
    S # {} => \E p \in S : Wants(p) = None \/ itable[Wants(p)].lock \notin S

(* chmod() changes permission bits only ("Modifie uniquement les bits de    *)
(* permission"): a directory stays one, and an inode that has links stays   *)
(* allocated.                                                               *)
TypeKept ==
  [][\A i \in Inum : disk[i].nlink > 0 => disk'[i].type = disk[i].type]_vars
=============================================================================
