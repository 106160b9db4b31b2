--------------------------- MODULE OpenFileProofs ---------------------------
(***************************************************************************)
(* Proofs about open files, for any number of processes, files and         *)
(* descriptors: the counts of ftable and of the inode are exact, and a     *)
(* shared offset moves by whole transfers.                                 *)
(***************************************************************************)
EXTENDS OpenFile, FiniteSetTheorems, FunctionTheorems, TLAPS

(* The inductive invariant *)

Busy == {"opened", "load", "store"}

(* No offset leaves its width, and no file grows past the largest size. *)
TypeOK ==
  /\ ref \in [File -> Nat]
  /\ type \in [File -> {"FD_NONE", "FD_INODE"}]
  /\ off \in [File -> 0 .. UINT - 1]
  /\ ofile \in [Proc -> [Fd -> File \cup {NoFile}]]
  /\ iref \in Nat
  /\ locker \in Proc \cup {Free}
  /\ size \in 0 .. MaxSize
  /\ pc \in [Proc -> Busy \cup {"idle", "iput", "seek"}]
  /\ f \in [Proc -> File \cup {NoFile}]
  /\ start \in [Proc -> 0 .. UINT - 1]
  /\ r \in [Proc -> Nat]
  /\ tmp \in [Proc -> 0 .. UINT - 1]

(* ip->lock is held from filealloc() or ilock() to iunlock(). *)
LockInv == \A p \in Proc : locker = p <=> pc[p] \in Busy

(* A call that is under way has a file. *)
FileInv == \A p \in Proc : /\ pc[p] \in Busy => f[p] \in File
                           /\ pc[p] = "seek" => f[p] \in Seek

Opening(x) == {p \in Proc : pc[p] = "opened" /\ f[p] = x}
Typed == {x \in File : type[x] = "FD_INODE"}
Putting == {p \in Proc : pc[p] \in {"opened", "iput"}}

(* A file that open() is still making has no descriptor yet; a file has its *)
(* type as long as it has a descriptor.                                     *)
FreshInv == /\ \A p \in Proc : pc[p] = "opened" => Refs(f[p]) = {}
            /\ \A x \in File : type[x] = "FD_INODE" <=> Refs(x) # {}

Counts ==
  /\ \A x \in File : ref[x] = Cardinality(Refs(x)) + Cardinality(Opening(x))
  /\ iref = Cardinality(Typed) + Cardinality(Putting)

IInv == TypeOK /\ LockInv /\ FileInv /\ FreshInv /\ Counts /\ OffsetAtomic

-----------------------------------------------------------------------------
(* Counting *)

LEMMA Finite ==
  ASSUME OpenFileConstants, NEW x
  PROVE  /\ IsFiniteSet(Refs(x)) /\ Cardinality(Refs(x)) \in Nat
         /\ IsFiniteSet(Opening(x)) /\ Cardinality(Opening(x)) \in Nat
         /\ IsFiniteSet(Typed) /\ Cardinality(Typed) \in Nat
         /\ IsFiniteSet(Putting) /\ Cardinality(Putting) \in Nat
<1>1. IsFiniteSet(Proc) /\ NFILE \in Int /\ NOFILE \in Int /\ 1 \in Int
  BY DEF OpenFileConstants
<1>2. IsFiniteSet(Fd) /\ IsFiniteSet(File)
  BY <1>1, FS_Interval DEF Fd, File
<1>3. IsFiniteSet(Proc \X Fd)
  BY <1>1, <1>2, FS_Product
<1>4. /\ Refs(x) \in SUBSET (Proc \X Fd) /\ Opening(x) \in SUBSET Proc
      /\ Typed \in SUBSET File /\ Putting \in SUBSET Proc
  BY DEF Refs, Opening, Typed, Putting
<1>5. /\ IsFiniteSet(Refs(x)) /\ IsFiniteSet(Opening(x))
      /\ IsFiniteSet(Typed) /\ IsFiniteSet(Putting)
  BY <1>1, <1>2, <1>3, <1>4, FS_Subset
<1> QED
  BY <1>5, FS_CardinalityType

LEMMA InRefs ==
  ASSUME NEW x, NEW p \in Proc, NEW d \in Fd
  PROVE  <<p, d>> \in Refs(x) <=> ofile[p][d] = x
BY DEF Refs

(* What becomes of the descriptors of x when one is set. *)
LEMMA SetFd ==
  ASSUME NEW p \in Proc, NEW d \in Fd, NEW y, NEW x,
         ofile'[p][d] = y,
         \A q \in Proc, e \in Fd : <<q, e>> # <<p, d>> => ofile'[q][e] = ofile[q][e]
  PROVE  /\ x = y => Refs(x)' = Refs(x) \cup {<<p, d>>}
         /\ x # y => Refs(x)' = Refs(x) \ {<<p, d>>}
<1>2. \A pd \in Proc \X Fd : pd = <<pd[1], pd[2]>> /\ pd[1] \in Proc /\ pd[2] \in Fd
  OBVIOUS
<1>3. /\ Refs(x)' \subseteq Proc \X Fd /\ Refs(x) \subseteq Proc \X Fd
      /\ \A pd \in Proc \X Fd : /\ pd \in Refs(x)' <=> ofile'[pd[1]][pd[2]] = x
                                /\ pd \in Refs(x) <=> ofile[pd[1]][pd[2]] = x
  BY DEF Refs
<1>4. ASSUME NEW pd \in Proc \X Fd, pd # <<p, d>> PROVE pd \in Refs(x)' <=> pd \in Refs(x)
  BY <1>2, <1>3, <1>4
<1>5. <<p, d>> \in Proc \X Fd /\ (<<p, d>> \in Refs(x)' <=> x = y)
  BY <1>3
<1> QED
  BY <1>3, <1>4, <1>5

(* Calls that take up or give up no reference. *)
LEMMA SameCounts ==
  ASSUME FreshInv, Counts, UNCHANGED <<ref, type, ofile, iref>>,
         \A q \in Proc : /\ pc'[q] = "opened" <=> pc[q] = "opened"
                         /\ pc'[q] = "iput" <=> pc[q] = "iput"
                         /\ pc[q] = "opened" => f'[q] = f[q]
  PROVE  FreshInv' /\ Counts'
<1>1. /\ \A x : Refs(x)' = Refs(x)
      /\ \A x : Opening(x)' = Opening(x)
      /\ Typed' = Typed /\ Putting' = Putting
  BY DEF Refs, Opening, Typed, Putting
<1>2. FreshInv'
  <2>1. ASSUME NEW p \in Proc, pc'[p] = "opened" PROVE Refs(f[p]) = {} /\ f'[p] = f[p]
    BY <2>1 DEF FreshInv
  <2>2. \A p \in Proc : pc'[p] = "opened" => Refs(f[p])' = {}
    BY <2>1 DEF Refs
  <2> QED
    BY <1>1, <2>1, <2>2 DEF FreshInv
<1> QED
  BY <1>1, <1>2 DEF Counts

(* A step of another process on the file of a transfer is ruled out by the *)
(* inode's lock, or is that of lseek().                                    *)
LEMMA Undisturbed ==
  ASSUME OffsetAtomic, NEW p \in Proc,
         \A q \in Proc \ {p} : /\ pc'[q] = pc[q] /\ f'[q] = f[q]
                               /\ start'[q] = start[q] /\ tmp'[q] = tmp[q]
                               /\ pc[q] \in {"load", "store"} /\ f[q] \notin Seek
                                    => off'[f[q]] = off[f[q]],
         (f[p] \notin Seek => OffsetUndisturbed(p))'
  PROVE  OffsetAtomic'
<1> SUFFICES ASSUME NEW q \in Proc, f'[q] \notin Seek
             PROVE  OffsetUndisturbed(q)'
  BY DEF OffsetAtomic
<1>1. CASE q = p
  BY <1>1
<1>2. CASE q # p
  BY <1>2 DEF OffsetAtomic, OffsetUndisturbed
<1> QED
  BY <1>1, <1>2

-----------------------------------------------------------------------------
(* The steps *)

LEMMA InitIInv ==
  ASSUME OpenFileConstants, Init
  PROVE  IInv
<1>1. UINT \in Nat /\ 0 \in 0 .. UINT - 1 /\ 0 \in 0 .. MaxSize /\ Free \notin Proc
  BY DEF OpenFileConstants
<1>2. TypeOK
  BY <1>1 DEF Init, TypeOK
<1>3. LockInv /\ FileInv
  BY <1>1 DEF Init, LockInv, FileInv, Busy
<1>4. /\ \A x \in File : Refs(x) = {} /\ Opening(x) = {}
      /\ Typed = {} /\ Putting = {}
  BY DEF Init, Refs, Opening, Typed, Putting, OpenFileConstants
<1>5. FreshInv
  BY <1>4 DEF Init, FreshInv
<1>6. Counts
  <2>1. Cardinality({}) = 0
    BY FS_EmptySet
  <2>2. iref = 0 /\ \A x \in File : ref[x] = 0
    BY DEF Init
  <2> QED
    BY <1>4, <2>1, <2>2 DEF Counts
<1>7. OffsetAtomic
  BY DEF Init, OffsetAtomic, OffsetUndisturbed
<1> QED
  BY <1>2, <1>3, <1>5, <1>6, <1>7 DEF IInv

(* The lock is free before p takes it, and p's after. *)
LEMMA LockTaken ==
  ASSUME OpenFileConstants, LockInv, NEW p \in Proc, locker = Free, locker' = p,
         pc'[p] \in Busy, \A q \in Proc \ {p} : pc'[q] = pc[q]
  PROVE  LockInv' /\ \A q \in Proc : pc[q] \notin Busy
BY DEF LockInv, OpenFileConstants

LEMMA LockGiven ==
  ASSUME OpenFileConstants, LockInv, NEW p \in Proc, pc[p] \in Busy, locker' = Free,
         pc'[p] \notin Busy, \A q \in Proc \ {p} : pc'[q] = pc[q]
  PROVE  LockInv' /\ \A q \in Proc \ {p} : pc[q] \notin Busy
BY DEF LockInv, OpenFileConstants

LEMMA LockKept ==
  ASSUME LockInv, NEW p \in Proc, locker' = locker,
         pc'[p] \in Busy <=> pc[p] \in Busy, \A q \in Proc \ {p} : pc'[q] = pc[q]
  PROVE  LockInv'
BY DEF LockInv

LEMMA AllocStep ==
  ASSUME OpenFileConstants, IInv, NEW p \in Proc, NEW x \in File, filealloc(p, x)
  PROVE  IInv'
<1>1. TypeOK /\ LockInv /\ FileInv /\ FreshInv /\ Counts /\ OffsetAtomic
  BY DEF IInv
<1>2. /\ pc[p] = "idle" /\ locker = Free /\ ref[x] = 0
      /\ ref' = [ref EXCEPT ![x] = 1] /\ iref' = iref + 1 /\ locker' = p
      /\ f' = [f EXCEPT ![p] = x] /\ pc' = [pc EXCEPT ![p] = "opened"]
      /\ UNCHANGED <<type, off, ofile, size, start, r, tmp>>
  BY DEF filealloc, Goto
<1>3. TypeOK'
  BY <1>1, <1>2 DEF TypeOK, Busy
<1>4. /\ pc'[p] = "opened" /\ f'[p] = x
      /\ \A q \in Proc \ {p} : pc'[q] = pc[q] /\ f'[q] = f[q]
      /\ ref'[x] = 1 /\ \A y \in File \ {x} : ref'[y] = ref[y]
  BY <1>1, <1>2 DEF TypeOK
<1>5. LockInv' /\ \A q \in Proc : pc[q] \notin Busy
  BY <1>1, <1>2, <1>4, LockTaken DEF Busy
<1>6. FileInv'
  BY <1>1, <1>4 DEF FileInv
<1>7. \A y : Refs(y)' = Refs(y)
  BY <1>2 DEF Refs
<1>8. Refs(x) = {} /\ Opening(x) = {}
  <2>1. Cardinality(Refs(x)) + Cardinality(Opening(x)) = 0
    BY <1>1, <1>2 DEF Counts
  <2>2. Cardinality(Refs(x)) = 0 /\ Cardinality(Opening(x)) = 0
    BY <2>1, Finite
  <2> QED
    BY <2>2, Finite, FS_EmptySet
<1>9. FreshInv'
  <2>1. \A q \in Proc : pc'[q] = "opened" => f'[q] = x
    BY <1>4, <1>5 DEF Busy
  <2>2. Refs(x)' = {}
    BY <1>7, <1>8
  <2>3. \A q \in Proc : pc'[q] = "opened" => Refs(f[q])' = {}
    BY <2>1, <2>2 DEF Refs
  <2> QED
    BY <1>1, <1>2, <1>7, <2>3 DEF FreshInv
<1>10. Counts'
  <2>1. /\ Opening(x)' = {p} /\ \A y \in File \ {x} : Opening(y)' = Opening(y)
    BY <1>2, <1>4, <1>8 DEF Opening
  <2>2. /\ Putting' = Putting \cup {p} /\ p \notin Putting /\ Typed' = Typed
    BY <1>2, <1>4 DEF Putting, Typed
  <2>3. Cardinality({p}) = 1 /\ Cardinality({}) = 0
    BY FS_Singleton, FS_EmptySet
  <2>4. Cardinality(Putting') = Cardinality(Putting) + 1
    BY Zenon, <2>2, Finite, FS_AddElement
  <2>5. iref' = Cardinality(Typed') + Cardinality(Putting')
    BY <1>1, <1>2, <2>2, <2>4, Finite DEF Counts
  <2>6. ref'[x] = Cardinality(Refs(x)') + Cardinality(Opening(x)')
    BY <1>4, <1>7, <1>8, <2>1, <2>3
  <2>7. \A y \in File \ {x} : ref'[y] = Cardinality(Refs(y)') + Cardinality(Opening(y)')
    BY <1>1, <1>4, <1>7, <2>1 DEF Counts
  <2> QED
    BY <2>5, <2>6, <2>7 DEF Counts
<1>11. OffsetAtomic'
  BY <1>1, <1>2, <1>4, Undisturbed DEF OffsetUndisturbed
<1> QED
  BY <1>3, <1>5, <1>6, <1>9, <1>10, <1>11 DEF IInv

LEMMA OpenFdStep ==
  ASSUME OpenFileConstants, IInv, NEW p \in Proc, NEW d \in Fd, open_fd(p, d)
  PROVE  IInv'
<1>1. TypeOK /\ LockInv /\ FileInv /\ FreshInv /\ Counts /\ OffsetAtomic
  BY DEF IInv
<1>2. PICK x \in File : x = f[p] /\ Refs(x) = {}
  BY <1>1 DEF open_fd, FileInv, FreshInv, Busy
<1>3. /\ pc[p] = "opened" /\ ofile[p][d] = NoFile
      /\ ofile' = [ofile EXCEPT ![p][d] = x]
      /\ type' = [type EXCEPT ![x] = "FD_INODE"]
      /\ off' = [off EXCEPT ![x] = 0]
      /\ size' \in {size, 0}
      /\ locker' = Free
      /\ f' = [f EXCEPT ![p] = NoFile] /\ pc' = [pc EXCEPT ![p] = "idle"]
      /\ UNCHANGED <<ref, iref, start, r, tmp>>
  BY <1>2 DEF open_fd, Goto, FdFree
<1>4. 0 \in 0 .. UINT - 1 /\ 0 \in 0 .. MaxSize /\ NoFile \notin File
  BY DEF OpenFileConstants
<1>5. TypeOK'
  BY <1>1, <1>3, <1>4 DEF TypeOK, Busy
<1>6. /\ pc'[p] = "idle"
      /\ \A q \in Proc \ {p} : pc'[q] = pc[q] /\ f'[q] = f[q]
      /\ type'[x] = "FD_INODE" /\ \A y \in File \ {x} : type'[y] = type[y]
      /\ \A y \in File \ {x} : off'[y] = off[y]
  BY <1>1, <1>3 DEF TypeOK
<1>7. LockInv' /\ \A q \in Proc \ {p} : pc[q] \notin Busy
  BY SMTT(40), <1>1, <1>3, <1>6, LockGiven DEF Busy
<1>8. FileInv'
  BY <1>1, <1>6 DEF FileInv, Busy
<1>9. /\ Refs(x)' = Refs(x) \cup {<<p, d>>}
      /\ \A y \in File \ {x} : Refs(y)' = Refs(y) \ {<<p, d>>}
  <2>1. /\ ofile'[p][d] = x
        /\ \A q \in Proc, e \in Fd : <<q, e>> # <<p, d>> => ofile'[q][e] = ofile[q][e]
    BY <1>1, <1>3 DEF TypeOK
  <2> QED
    BY <2>1, SetFd
<1>10. Refs(x)' = {<<p, d>>} /\ \A y \in File \ {x} : Refs(y)' = Refs(y)
  <2>1. \A y \in File : <<p, d>> \notin Refs(y)
    BY <1>3, <1>4, InRefs
  <2> QED
    BY SMTT(40), <1>2, <1>9, <2>1
<1>11. FreshInv'
  <2>1. \A q \in Proc : pc'[q] # "opened"
    BY <1>6, <1>7 DEF Busy
  <2>2. \A y \in File : type'[y] = "FD_INODE" <=> Refs(y)' # {}
    BY ZenonT(120), <1>1, <1>6, <1>10 DEF FreshInv
  <2> QED
    BY <2>1, <2>2 DEF FreshInv
<1>12. Counts'
  <2>1. /\ Opening(x) = {p} /\ Opening(x)' = {}
        /\ \A y \in File \ {x} : Opening(y)' = Opening(y)
    BY <1>2, <1>3, <1>6, <1>7 DEF Opening, Busy
  <2>2. /\ Putting' = Putting \ {p} /\ p \in Putting
        /\ Typed' = Typed \cup {x} /\ x \notin Typed
    BY <1>1, <1>2, <1>3, <1>6 DEF Putting, Typed, FreshInv
  <2>3. Cardinality({p}) = 1 /\ Cardinality({<<p, d>>}) = 1 /\ Cardinality({}) = 0
    BY Zenon, FS_Singleton, FS_EmptySet
  <2>4. /\ Cardinality(Putting') = Cardinality(Putting) - 1
        /\ Cardinality(Typed') = Cardinality(Typed) + 1
    BY <2>2, Finite, FS_AddElement, FS_RemoveElement
  <2>5. iref' = Cardinality(Typed') + Cardinality(Putting')
    BY <1>1, <1>3, <2>4, Finite DEF Counts
  <2>6. ref'[x] = Cardinality(Refs(x)') + Cardinality(Opening(x)')
    <3>1. ref[x] = Cardinality(Refs(x)) + Cardinality(Opening(x))
      BY Zenon, <1>1, <1>2 DEF Counts
    <3> QED
      BY SMTT(40), <1>1, <1>2, <1>3, <1>10, <2>1, <2>3, <3>1
  <2>7. \A y \in File \ {x} : ref'[y] = Cardinality(Refs(y)') + Cardinality(Opening(y)')
    BY <1>1, <1>3, <1>10, <2>1 DEF Counts
  <2> QED
    BY <2>5, <2>6, <2>7 DEF Counts
<1>13. OffsetAtomic'
  BY <1>1, <1>3, <1>6, <1>7, Undisturbed DEF OffsetUndisturbed, Busy
<1> QED
  BY <1>5, <1>7, <1>8, <1>11, <1>12, <1>13 DEF IInv

LEMMA OpenFailStep ==
  ASSUME OpenFileConstants, IInv, NEW p \in Proc, open_fail(p)
  PROVE  IInv'
<1>1. TypeOK /\ LockInv /\ FileInv /\ FreshInv /\ Counts /\ OffsetAtomic
  BY DEF IInv
<1>2. PICK x \in File : x = f[p] /\ Refs(x) = {} /\ type[x] # "FD_INODE"
  BY <1>1 DEF open_fail, FileInv, FreshInv, Busy
<1>3. /\ pc[p] = "opened" /\ ref[x] > 0
      /\ ref' = [ref EXCEPT ![x] = @ - 1]
      /\ type' = IF ref[x] = 1 THEN [type EXCEPT ![x] = "FD_NONE"] ELSE type
      /\ iref' = iref - 1 /\ locker' = Free
      /\ f' = [f EXCEPT ![p] = NoFile] /\ pc' = [pc EXCEPT ![p] = "idle"]
      /\ UNCHANGED <<off, ofile, size, start, r, tmp>>
  BY <1>2 DEF open_fail, Goto, fileclose
<1>4. type' = type
  BY <1>1, <1>2, <1>3 DEF TypeOK
<1>5. /\ pc'[p] = "idle"
      /\ \A q \in Proc \ {p} : pc'[q] = pc[q] /\ f'[q] = f[q]
      /\ ref'[x] = ref[x] - 1 /\ \A y \in File \ {x} : ref'[y] = ref[y]
  BY <1>1, <1>3 DEF TypeOK
<1>6. LockInv' /\ \A q \in Proc \ {p} : pc[q] \notin Busy
  BY SMTT(40), <1>1, <1>3, <1>5, LockGiven DEF Busy
<1>7. FileInv'
  BY <1>1, <1>5 DEF FileInv, Busy
<1>8. \A y : Refs(y)' = Refs(y)
  BY <1>3 DEF Refs
<1>9. FreshInv'
  <2>1. \A q \in Proc : pc'[q] # "opened"
    BY <1>5, <1>6 DEF Busy
  <2> QED
    BY <1>1, <1>4, <1>8, <2>1 DEF FreshInv
<1>10. Counts' /\ iref' \in Nat
  <2>1. /\ Opening(x) = {p} /\ Opening(x)' = {}
        /\ \A y \in File \ {x} : Opening(y)' = Opening(y)
    BY <1>2, <1>3, <1>5, <1>6 DEF Opening, Busy
  <2>2. Putting' = Putting \ {p} /\ p \in Putting /\ Typed' = Typed
    BY <1>3, <1>4, <1>5 DEF Putting, Typed
  <2>3. Cardinality({p}) = 1 /\ Cardinality({}) = 0
    BY Zenon, FS_Singleton, FS_EmptySet
  <2>4. Cardinality(Putting') = Cardinality(Putting) - 1 /\ Cardinality(Putting') \in Nat
    <3>1. IsFiniteSet(Putting')
      BY <2>2, Finite, FS_RemoveElement
    <3> QED
      BY <2>2, <3>1, Finite, FS_RemoveElement, FS_CardinalityType
  <2>5. iref' = Cardinality(Typed') + Cardinality(Putting') /\ iref' \in Nat
    BY SMTT(40), <1>1, <1>3, <2>2, <2>4, Finite DEF Counts
  <2>6. ref'[x] = Cardinality(Refs(x)') + Cardinality(Opening(x)')
    BY SMTT(40), <1>1, <1>2, <1>5, <1>8, <2>1, <2>3 DEF Counts
  <2>7. \A y \in File \ {x} : ref'[y] = Cardinality(Refs(y)') + Cardinality(Opening(y)')
    BY SMTT(40), <1>1, <1>5, <1>8, <2>1 DEF Counts
  <2> QED
    BY <2>5, <2>6, <2>7 DEF Counts
<1>11. TypeOK'
  <2>1. ref[x] \in Nat /\ ref[x] - 1 \in Nat
    BY SMTT(40), <1>1, <1>3 DEF TypeOK
  <2> QED
    BY SMTT(40), <1>1, <1>3, <1>4, <1>10, <2>1 DEF TypeOK, Busy
<1>12. OffsetAtomic'
  BY <1>1, <1>3, <1>5, Undisturbed DEF OffsetUndisturbed
<1> QED
  BY <1>6, <1>7, <1>9, <1>10, <1>11, <1>12 DEF IInv

(* A call that keeps the lock, the offsets and its registers as they are. *)
LEMMA QuietStep ==
  ASSUME IInv, UNCHANGED <<off, locker, size, regs>>, NEW p \in Proc,
         pc[p] \notin Busy, pc'[p] \notin Busy \cup {"seek"},
         \A q \in Proc \ {p} : pc'[q] = pc[q]
  PROVE  LockInv' /\ FileInv' /\ OffsetAtomic'
<1>1. LockInv /\ FileInv /\ OffsetAtomic /\ UNCHANGED <<f, start, r, tmp>>
  BY DEF IInv, regs
<1>2. LockInv'
  BY <1>1, LockKept
<1>3. FileInv'
  BY <1>1 DEF FileInv, Busy
<1>4. OffsetAtomic'
  BY <1>1, Undisturbed DEF OffsetUndisturbed, Busy
<1> QED
  BY <1>2, <1>3, <1>4

LEMMA DupStep ==
  ASSUME OpenFileConstants, IInv, NEW p \in Proc, NEW d \in Fd, NEW e \in Fd, sys_dup(p, d, e)
  PROVE  IInv'
<1>1. TypeOK /\ FreshInv /\ Counts
  BY DEF IInv
<1>2. PICK x \in File : x = ofile[p][d]
  BY <1>1 DEF sys_dup, FdFree, TypeOK
<1>3. /\ pc[p] = "idle" /\ ofile[p][e] = NoFile
      /\ ofile' = [ofile EXCEPT ![p][e] = x]
      /\ ref' = [ref EXCEPT ![x] = @ + 1]
      /\ UNCHANGED <<type, off, iref, locker, size, pc, regs>>
  BY <1>2 DEF sys_dup, FdFree, inode
<1>4. TypeOK' /\ UNCHANGED f
  BY <1>1, <1>3 DEF TypeOK, regs
<1>5. LockInv' /\ FileInv' /\ OffsetAtomic'
  BY <1>3, QuietStep DEF Busy
<1>6. <<p, d>> \in Refs(x) /\ \A y \in File : <<p, e>> \notin Refs(y)
  BY <1>2, <1>3, InRefs DEF OpenFileConstants
<1>7. Refs(x)' = Refs(x) \cup {<<p, e>>} /\ \A y \in File \ {x} : Refs(y)' = Refs(y)
  <2>1. /\ ofile'[p][e] = x
        /\ \A q \in Proc, g \in Fd : <<q, g>> # <<p, e>> => ofile'[q][g] = ofile[q][g]
    BY <1>1, <1>3 DEF TypeOK
  <2>2. /\ Refs(x)' = Refs(x) \cup {<<p, e>>}
        /\ \A y \in File \ {x} : Refs(y)' = Refs(y) \ {<<p, e>>}
    BY <2>1, SetFd
  <2> QED
    BY Zenon, <1>6, <2>2
<1>8. FreshInv'
  <2>1. \A q \in Proc : pc[q] = "opened" => f[q] \in File \ {x}
    BY <1>1, <1>6 DEF IInv, FileInv, FreshInv, Busy
  <2>2. \A q \in Proc : pc[q] = "opened" => Refs(f[q])' = {}
    <3> SUFFICES ASSUME NEW q \in Proc, pc[q] = "opened" PROVE Refs(f[q])' = {}
      OBVIOUS
    <3>1. PICK y \in File \ {x} : y = f[q] /\ y = f'[q]
      BY <1>4, <2>1
    <3>2. Refs(y)' = {}
      BY ZenonT(40), <1>1, <1>7, <3>1 DEF FreshInv
    <3> QED
      BY SMTT(40), <3>1, <3>2 DEF Refs
  <2>3. \A y \in File : type[y] = "FD_INODE" <=> Refs(y)' # {}
    BY <1>1, <1>6, <1>7 DEF FreshInv
  <2> QED
    BY <1>3, <2>2, <2>3 DEF FreshInv
<1>9. Counts'
  <2>1. (\A y : Opening(y)' = Opening(y)) /\ Putting' = Putting /\ Typed' = Typed
    BY <1>3, <1>4 DEF Opening, Putting, Typed
  <2>2. Cardinality(Refs(x)') = Cardinality(Refs(x)) + 1
    <3>1. IsFiniteSet(Refs(x)) /\ <<p, e>> \notin Refs(x)
      BY <1>6, Finite
    <3> QED
      BY ZenonT(40), <1>7, <3>1, FS_AddElement
  <2>3. ref'[x] = ref[x] + 1 /\ \A y \in File \ {x} : ref'[y] = ref[y]
    BY <1>1, <1>3 DEF TypeOK
  <2>4. ref'[x] = Cardinality(Refs(x)') + Cardinality(Opening(x)')
    BY SMTT(40), <1>1, <2>1, <2>2, <2>3, Finite DEF Counts
  <2> QED
    BY SMTT(40), <1>1, <1>3, <1>7, <2>1, <2>3, <2>4 DEF Counts
<1> QED
  BY <1>4, <1>5, <1>8, <1>9 DEF IInv

(* The child's descriptors of x are as many as the parent's. *)
LEMMA ForkRefs ==
  ASSUME OpenFileConstants, TypeOK, NEW p \in Proc, NEW q \in Proc, p # q,
         \A d \in Fd : ofile[q][d] = NoFile,
         ofile' = [ofile EXCEPT ![q] = ofile[p]], NEW x \in File
  PROVE  /\ Cardinality(Refs(x)') = Cardinality(Refs(x)) + Cardinality({d \in Fd : ofile[p][d] = x})
         /\ Cardinality({d \in Fd : ofile[p][d] = x}) \in Nat
         /\ Refs(x)' = {} <=> Refs(x) = {}
<1> DEFINE D == {d \in Fd : ofile[p][d] = x}
           N == {<<q, d>> : d \in D}
<1>1. ofile'[q] = ofile[p] /\ \A s \in Proc \ {q} : ofile'[s] = ofile[s]
  BY DEF TypeOK
<1>2. N \cap Refs(x) = {}
  BY DEF Refs, OpenFileConstants
<1>3. Refs(x)' = Refs(x) \cup N
  <2>1. /\ Refs(x)' \subseteq Proc \X Fd /\ Refs(x) \subseteq Proc \X Fd
        /\ \A pd \in Proc \X Fd : /\ pd \in Refs(x)' <=> ofile'[pd[1]][pd[2]] = x
                                  /\ pd \in Refs(x) <=> ofile[pd[1]][pd[2]] = x
    BY DEF Refs
  <2>2. ASSUME NEW pd \in Proc \X Fd PROVE pd \in Refs(x)' <=> pd \in Refs(x) \cup N
    <3>1. pd = <<pd[1], pd[2]>> /\ pd[1] \in Proc /\ pd[2] \in Fd
      OBVIOUS
    <3>2. CASE pd[1] = q
      BY SMTT(40), <1>1, <2>1, <3>1, <3>2 DEF OpenFileConstants
    <3>3. CASE pd[1] # q
      <4>1. pd \notin N
        BY <3>1, <3>3
      <4> QED
        BY <1>1, <2>1, <3>1, <3>3, <4>1
    <3> QED
      BY <3>2, <3>3
  <2>3. N \subseteq Proc \X Fd
    OBVIOUS
  <2> QED
    BY <2>1, <2>2, <2>3
<1>4. IsFiniteSet(D) /\ Cardinality(D) \in Nat
  <2>1. IsFiniteSet(Fd)
    <3>1. 1 \in Int /\ NOFILE \in Int
      BY DEF OpenFileConstants
    <3> QED
      BY <3>1, FS_Interval DEF Fd
  <2>2. D \in SUBSET Fd
    OBVIOUS
  <2> QED
    BY <2>1, <2>2, FS_Subset, FS_CardinalityType
<1>5. IsFiniteSet(N) /\ Cardinality(N) = Cardinality(D)
  <2> DEFINE g == [d \in D |-> <<q, d>>]
  <2>1. g \in Bijection(D, N)
    <3>1. /\ g \in [D -> N]
          /\ \A a, c \in D : g[a] = g[c] => a = c
          /\ \A t \in N : \E s \in D : g[s] = t
      OBVIOUS
    <3> HIDE DEF D, N, g
    <3> QED
      BY <3>1, Fun_IsBij
  <2> HIDE DEF D, N, g
  <2>2. ExistsBijection(D, N)
    BY <2>1 DEF ExistsBijection
  <2> QED
    BY <1>4, <2>2, FS_Bijection
<1>6. Refs(x)' = {} <=> Refs(x) = {}
  <2>1. ASSUME NEW d \in D PROVE <<p, d>> \in Refs(x)
    BY InRefs
  <2>2. Refs(x) = {} => N = {}
    BY <2>1
  <2> QED
    BY <1>3, <2>2
<1> HIDE DEF D, N
<1>7. Cardinality(Refs(x) \cup N) = Cardinality(Refs(x)) + Cardinality(N) - Cardinality(Refs(x) \cap N)
  BY <1>5, Finite, FS_Union
<1>8. Cardinality(Refs(x) \cap N) = 0
  <2>1. Refs(x) \cap N = {}
    BY <1>2
  <2> QED
    BY <2>1, FS_EmptySet
<1>9. Cardinality(Refs(x)') = Cardinality(Refs(x)) + Cardinality(D)
  BY <1>3, <1>4, <1>5, <1>7, <1>8, Finite
<1> QED
  BY <1>4, <1>6, <1>9 DEF D

LEMMA ForkStep ==
  ASSUME OpenFileConstants, IInv, NEW p \in Proc, NEW q \in Proc, fork(p, q)
  PROVE  IInv'
<1>1. TypeOK /\ FreshInv /\ Counts
  BY DEF IInv
<1>2. /\ p # q /\ pc[p] = "idle" /\ \A d \in Fd : ofile[q][d] = NoFile
      /\ ofile' = [ofile EXCEPT ![q] = ofile[p]]
      /\ ref' = [x \in File |-> ref[x] + Cardinality({d \in Fd : ofile[p][d] = x})]
      /\ UNCHANGED <<type, off, iref, locker, size, pc, regs>>
  BY DEF fork, FdFree, inode
<1> DEFINE D(x) == Cardinality({d \in Fd : ofile[p][d] = x})
<1>3. \A x \in File : /\ Cardinality(Refs(x)') = Cardinality(Refs(x)) + D(x)
                      /\ D(x) \in Nat
                      /\ Refs(x)' = {} <=> Refs(x) = {}
  BY Zenon, <1>1, <1>2, ForkRefs
<1>4. ref' = [x \in File |-> ref[x] + D(x)]
  BY SMTT(40), <1>2
<1> HIDE DEF D
<1>5. TypeOK' /\ UNCHANGED f
  BY SMTT(40), <1>1, <1>2, <1>3, <1>4 DEF TypeOK, regs
<1>6. LockInv' /\ FileInv' /\ OffsetAtomic'
  BY <1>2, QuietStep DEF Busy
<1>7. FreshInv'
  <2>1. \A s \in Proc : pc[s] = "opened" => Refs(f[s])' = {}
    <3> SUFFICES ASSUME NEW s \in Proc, pc[s] = "opened" PROVE Refs(f[s])' = {}
      OBVIOUS
    <3>1. PICK y \in File : y = f[s] /\ y = f'[s]
      BY <1>5 DEF IInv, FileInv, Busy
    <3>2. Refs(y)' = {}
      BY ZenonT(40), <1>1, <1>3, <3>1 DEF FreshInv
    <3> QED
      BY SMTT(40), <3>1, <3>2 DEF Refs
  <2>2. \A y \in File : type[y] = "FD_INODE" <=> Refs(y)' # {}
    BY <1>1, <1>3 DEF FreshInv
  <2> QED
    BY SMTT(40), <1>2, <2>1, <2>2 DEF FreshInv
<1>8. Counts'
  <2>1. (\A y : Opening(y)' = Opening(y)) /\ Putting' = Putting /\ Typed' = Typed
    BY <1>2, <1>5 DEF Opening, Putting, Typed
  <2>2. \A x \in File : ref'[x] = Cardinality(Refs(x)') + Cardinality(Opening(x))
    <3> SUFFICES ASSUME NEW x \in File
                 PROVE  ref'[x] = Cardinality(Refs(x)') + Cardinality(Opening(x))
      OBVIOUS
    <3>1. ref[x] = Cardinality(Refs(x)) + Cardinality(Opening(x))
      BY <1>1 DEF Counts
    <3>2. Cardinality(Refs(x)) \in Nat /\ Cardinality(Opening(x)) \in Nat
      BY Finite
    <3> QED
      BY <1>3, <1>4, <3>1, <3>2
  <2> QED
    BY SMTT(40), <1>1, <1>2, <2>1, <2>2 DEF Counts
<1> QED
  BY <1>5, <1>6, <1>7, <1>8 DEF IInv

LEMMA CloseStep ==
  ASSUME OpenFileConstants, IInv, NEW p \in Proc, NEW d \in Fd, sys_close(p, d)
  PROVE  IInv'
<1>1. TypeOK /\ FreshInv /\ Counts
  BY DEF IInv
<1>2. PICK x \in File : x = ofile[p][d]
  BY <1>1 DEF sys_close, FdFree, TypeOK
<1>3. <<p, d>> \in Refs(x) /\ NoFile \notin File
  BY <1>2, InRefs DEF OpenFileConstants
<1>4. type[x] = "FD_INODE" /\ Opening(x) = {}
  BY SMTT(40), <1>1, <1>3 DEF FreshInv, Opening
<1>5. /\ pc[p] = "idle" /\ ref[x] > 0
      /\ ofile' = [ofile EXCEPT ![p][d] = NoFile]
      /\ ref' = [ref EXCEPT ![x] = @ - 1]
      /\ type' = IF ref[x] = 1 THEN [type EXCEPT ![x] = "FD_NONE"] ELSE type
      /\ pc' = [pc EXCEPT ![p] = IF ref[x] = 1 THEN "iput" ELSE "idle"]
      /\ UNCHANGED <<off, iref, locker, size, regs>>
  BY <1>2, <1>4 DEF sys_close, Goto, fileclose, inode
<1>6. /\ ref[x] \in Nat /\ ref[x] - 1 \in Nat /\ UNCHANGED f
  BY SMTT(40), <1>1, <1>5 DEF TypeOK, regs
<1>7. TypeOK'
  <2>1. type' \in [File -> {"FD_NONE", "FD_INODE"}]
    BY <1>1, <1>5 DEF TypeOK
  <2>2. pc' \in [Proc -> Busy \cup {"idle", "iput", "seek"}]
    BY <1>1, <1>5 DEF TypeOK
  <2>3. ref' \in [File -> Nat] /\ ofile' \in [Proc -> [Fd -> File \cup {NoFile}]]
    BY SMTT(40), <1>1, <1>5, <1>6 DEF TypeOK
  <2> QED
    BY ZenonT(60), <1>1, <1>5, <2>1, <2>2, <2>3 DEF TypeOK, regs
<1>8. /\ pc'[p] = IF ref[x] = 1 THEN "iput" ELSE "idle"
      /\ \A q \in Proc \ {p} : pc'[q] = pc[q]
      /\ ref'[x] = ref[x] - 1 /\ \A y \in File \ {x} : ref'[y] = ref[y] /\ type'[y] = type[y]
      /\ type'[x] = IF ref[x] = 1 THEN "FD_NONE" ELSE type[x]
  BY <1>1, <1>5 DEF TypeOK
<1>9. LockInv' /\ FileInv' /\ OffsetAtomic'
  BY <1>5, <1>8, QuietStep DEF Busy
<1>10. Refs(x)' = Refs(x) \ {<<p, d>>} /\ \A y \in File \ {x} : Refs(y)' = Refs(y)
  <2>1. /\ ofile'[p][d] = NoFile
        /\ \A q \in Proc, g \in Fd : <<q, g>> # <<p, d>> => ofile'[q][g] = ofile[q][g]
    BY <1>1, <1>5 DEF TypeOK
  <2>2. \A y \in File : Refs(y)' = Refs(y) \ {<<p, d>>}
    BY <1>3, <2>1, SetFd
  <2>3. \A y \in File \ {x} : <<p, d>> \notin Refs(y)
    BY <1>2, InRefs
  <2> QED
    BY ZenonT(120), <2>2, <2>3
<1>11. /\ Cardinality(Refs(x)') = Cardinality(Refs(x)) - 1
       /\ IsFiniteSet(Refs(x)') /\ Cardinality(Refs(x)) = ref[x]
  <2>1. IsFiniteSet(Refs(x)) /\ Cardinality(Refs(x)) \in Nat
    BY Finite
  <2>2. Cardinality(Refs(x)) = ref[x]
    <3>1. Cardinality(Opening(x)) = 0
      BY <1>4, FS_EmptySet
    <3> QED
      BY <1>1, <2>1, <3>1 DEF Counts
  <2> QED
    BY <1>3, <1>10, <2>1, <2>2, FS_RemoveElement
<1>12. Refs(x)' = {} <=> ref[x] = 1
  BY SMTT(40), <1>6, <1>11, FS_EmptySet
<1>13. FreshInv'
  <2>1. \A s \in Proc : pc'[s] = "opened" => Refs(f[s])' = {}
    <3> SUFFICES ASSUME NEW s \in Proc, pc'[s] = "opened" PROVE Refs(f[s])' = {}
      OBVIOUS
    <3>1. pc[s] = "opened"
      BY <1>8
    <3>2. PICK y \in File : y = f[s] /\ y = f'[s]
      BY <1>6, <3>1 DEF IInv, FileInv, Busy
    <3>3. Refs(y) = {}
      BY ZenonT(40), <1>1, <3>1, <3>2 DEF FreshInv
    <3>4. Refs(y)' = {}
      BY ZenonT(60), <1>3, <1>10, <3>3
    <3> QED
      BY <3>2, <3>4 DEF Refs
  <2>2. \A y \in File : type'[y] = "FD_INODE" <=> Refs(y)' # {}
    BY SMTT(40), <1>1, <1>4, <1>8, <1>10, <1>12 DEF FreshInv
  <2> QED
    BY <2>1, <2>2 DEF FreshInv
<1>14. Counts'
  <2>1. \A y : Opening(y)' = Opening(y)
    BY SMTT(40), <1>5, <1>6, <1>8 DEF Opening
  <2>2. ref'[x] = Cardinality(Refs(x)') + Cardinality(Opening(x)')
    <3>1. Cardinality(Opening(x)') = 0
      BY <1>4, <2>1, FS_EmptySet
    <3> QED
      BY <1>6, <1>8, <1>11, <3>1
  <2>3. iref = Cardinality(Typed') + Cardinality(Putting')
    <3>1. /\ iref = Cardinality(Typed) + Cardinality(Putting)
          /\ Cardinality(Typed) \in Nat /\ Cardinality(Putting) \in Nat
          /\ IsFiniteSet(Typed) /\ IsFiniteSet(Putting)
      BY <1>1, Finite DEF Counts
    <3>2. CASE ref[x] = 1
      <4>1. /\ Typed' = Typed \ {x} /\ x \in Typed
            /\ Putting' = Putting \cup {p} /\ p \notin Putting
        BY <1>4, <1>5, <1>8, <3>2 DEF Typed, Putting
      <4>2. /\ Cardinality(Typed') = Cardinality(Typed) - 1
            /\ Cardinality(Putting') = Cardinality(Putting) + 1
        BY Zenon, <3>1, <4>1, FS_AddElement, FS_RemoveElement
      <4> QED
        BY <3>1, <4>2
    <3>3. CASE ref[x] # 1
      <4>1. Typed' = Typed /\ Putting' = Putting
        BY <1>5, <1>8, <3>3 DEF Typed, Putting
      <4> QED
        BY <3>1, <4>1
    <3> QED
      BY <3>2, <3>3
  <2> QED
    BY SMTT(40), <1>1, <1>5, <1>8, <1>10, <2>1, <2>2, <2>3 DEF Counts
<1> QED
  BY <1>7, <1>9, <1>13, <1>14 DEF IInv

LEMMA IputStep ==
  ASSUME OpenFileConstants, IInv, NEW p \in Proc, close_iput(p)
  PROVE  IInv'
<1>1. TypeOK /\ FreshInv /\ Counts
  BY DEF IInv
<1>2. /\ pc[p] = "iput" /\ iref' = iref - 1 /\ pc' = [pc EXCEPT ![p] = "idle"]
      /\ UNCHANGED <<ref, type, off, ofile, locker, size, regs>>
  BY DEF close_iput, Goto, files
<1>3. pc'[p] = "idle" /\ (\A q \in Proc \ {p} : pc'[q] = pc[q]) /\ UNCHANGED f
  BY <1>1, <1>2 DEF TypeOK, regs
<1>4. LockInv' /\ FileInv' /\ OffsetAtomic'
  BY <1>2, <1>3, QuietStep DEF Busy
<1>5. /\ (\A y : Refs(y)' = Refs(y)) /\ (\A y : Opening(y)' = Opening(y)) /\ Typed' = Typed
  BY <1>2, <1>3 DEF Refs, Opening, Typed
<1>6. FreshInv'
  <2>1. \A s \in Proc : pc'[s] = "opened" => Refs(f[s])' = {}
    BY <1>1, <1>2, <1>3 DEF FreshInv, Refs
  <2> QED
    BY ZenonT(60), <1>1, <1>2, <1>5, <2>1 DEF FreshInv
<1>7. Counts' /\ iref' \in Nat
  <2>1. Putting' = Putting \ {p} /\ p \in Putting
    BY <1>2, <1>3 DEF Putting
  <2>2. IsFiniteSet(Putting) /\ Cardinality(Putting) \in Nat /\ Cardinality(Typed) \in Nat
    BY Finite
  <2>3. Cardinality(Putting') = Cardinality(Putting) - 1 /\ Cardinality(Putting') \in Nat
    <3>1. IsFiniteSet(Putting') /\ Cardinality(Putting') = Cardinality(Putting) - 1
      BY <2>1, <2>2, FS_RemoveElement
    <3> QED
      BY <3>1, FS_CardinalityType
  <2>4. iref' = Cardinality(Typed') + Cardinality(Putting') /\ iref' \in Nat
    BY SMTT(40), <1>1, <1>2, <1>5, <2>2, <2>3 DEF Counts
  <2> QED
    BY <1>1, <1>2, <1>5, <2>4 DEF Counts
<1>8. TypeOK'
  BY <1>1, <1>2, <1>7 DEF TypeOK, regs
<1> QED
  BY <1>4, <1>6, <1>7, <1>8 DEF IInv

(* ilock() and the transfer at f->off: the offset is the start. *)
LEMMA TransferStep ==
  ASSUME OpenFileConstants, IInv, NEW p \in Proc, NEW x \in File, NEW count \in Nat,
         pc[p] = "idle", Transfer(p, x, count), size' \in 0 .. MaxSize,
         UNCHANGED <<files, iref, tmp>>
  PROVE  IInv'
<1>1. TypeOK /\ LockInv /\ FileInv /\ FreshInv /\ Counts /\ OffsetAtomic
  BY DEF IInv
<1>2. /\ f' = [f EXCEPT ![p] = x] /\ start' = [start EXCEPT ![p] = off[x]]
      /\ r' = [r EXCEPT ![p] = count] /\ locker = Free /\ locker' = p
      /\ pc' = [pc EXCEPT ![p] = "load"]
      /\ UNCHANGED <<ref, type, off, ofile>>
  BY DEF Transfer, TakeIlock, Goto, files
<1>3. TypeOK'
  BY <1>1, <1>2 DEF TypeOK, Busy
<1>4. /\ pc'[p] = "load" /\ f'[p] = x /\ start'[p] = off[x]
      /\ \A q \in Proc \ {p} : pc'[q] = pc[q] /\ f'[q] = f[q] /\ start'[q] = start[q]
  BY <1>1, <1>2 DEF TypeOK
<1>5. LockInv'
  BY <1>1, <1>2, <1>4, LockTaken DEF Busy
<1>6. FileInv'
  BY <1>1, <1>4 DEF FileInv
<1>7. FreshInv' /\ Counts'
  BY ZenonT(60), <1>1, <1>2, <1>4, SameCounts
<1>8. OffsetAtomic'
  BY ZenonT(60), <1>1, <1>2, <1>4, Undisturbed DEF OffsetUndisturbed
<1> QED
  BY <1>3, <1>5, <1>6, <1>7, <1>8 DEF IInv

LEMMA ReadStep ==
  ASSUME OpenFileConstants, IInv, NEW p \in Proc, NEW d \in Fd, NEW n \in 1 .. 2, fileread(p, d, n)
  PROVE  IInv'
<1>1. PICK x \in File : x = ofile[p][d] /\ off[x] \in Nat
  BY DEF IInv, TypeOK, fileread, FdFree, OpenFileConstants
<1>2. size \in Nat /\ size \in 0 .. MaxSize /\ UINT \in Nat \ {0}
  BY DEF IInv, TypeOK, OpenFileConstants
<1>3. PICK count \in Nat : count = Readable(off[x], n)
  BY SMTT(40), <1>1, <1>2 DEF Readable
<1>4. pc[p] = "idle" /\ Transfer(p, x, count) /\ UNCHANGED <<files, iref, size, tmp>>
  BY <1>1, <1>3 DEF fileread
<1> QED
  BY <1>2, <1>4, TransferStep

LEMMA WriteStep ==
  ASSUME OpenFileConstants, IInv, NEW p \in Proc, NEW d \in Fd, NEW n \in 1 .. 2, filewrite(p, d, n)
  PROVE  IInv'
<1>1. PICK x \in File : x = ofile[p][d] /\ off[x] \in Nat
  BY SMTT(40) DEF IInv, TypeOK, filewrite, FdFree, OpenFileConstants
<1> DEFINE bad == off[x] > size \/ Wrap(off[x] + n) < off[x] \/ off[x] + n > MaxSize
<1>2. pc[p] = "idle" /\ UNCHANGED <<files, iref, tmp>>
  BY ZenonT(60) DEF filewrite
<1>3. PICK count \in IF bad THEN {0} ELSE 0 .. n :
        /\ Transfer(p, x, count)
        /\ size' = IF ~bad /\ off[x] + count > size THEN off[x] + count ELSE size
  BY ZenonT(60), <1>1 DEF filewrite
<1>4. count \in Nat /\ size \in 0 .. MaxSize /\ MaxSize \in Nat
  BY DEF IInv, TypeOK, OpenFileConstants
<1>5. size' \in 0 .. MaxSize
  <2>1. CASE bad
    BY <1>3, <1>4, <2>1
  <2>2. CASE ~bad
    <3>1. count \in 0 .. n /\ off[x] + n <= MaxSize
      BY SMTT(40), <1>1, <1>3, <1>4, <2>2
    <3>2. off[x] + count \in 0 .. MaxSize
      BY <1>1, <1>4, <3>1
    <3> HIDE DEF bad
    <3> QED
      BY ZenonT(60), <1>3, <1>4, <3>2
  <2> QED
    BY <2>1, <2>2
<1> QED
  BY ZenonT(60), <1>2, <1>3, <1>4, <1>5, TransferStep

LEMMA LoadStep ==
  ASSUME OpenFileConstants, IInv, NEW p \in Proc, load_off(p)
  PROVE  IInv'
<1>1. TypeOK /\ LockInv /\ FileInv /\ FreshInv /\ Counts /\ OffsetAtomic
  BY DEF IInv
<1>2. /\ pc[p] = "load" /\ pc' = [pc EXCEPT ![p] = "store"]
      /\ tmp' = [tmp EXCEPT ![p] = off[f[p]]]
      /\ UNCHANGED <<ref, type, off, ofile, iref, locker, size, f, start, r>>
  BY ZenonT(60) DEF load_off, Goto, files, inode
<1>3. f[p] \in File
  BY SMTT(40), <1>1, <1>2 DEF FileInv, Busy
<1>4. TypeOK'
  BY <1>1, <1>2, <1>3 DEF TypeOK, Busy
<1>5. /\ pc'[p] = "store" /\ tmp'[p] = off[f[p]]
      /\ \A q \in Proc \ {p} : pc'[q] = pc[q] /\ tmp'[q] = tmp[q]
  BY ZenonT(60), <1>1, <1>2 DEF TypeOK
<1>6. LockInv'
  BY SMTT(40), <1>1, <1>2, <1>5, LockKept DEF Busy
<1>7. FileInv'
  BY SMTT(40), <1>1, <1>2, <1>3, <1>5 DEF FileInv, Busy
<1>8. FreshInv' /\ Counts'
  BY SMTT(40), <1>1, <1>2, <1>5, SameCounts
<1>9. OffsetAtomic'
  <2>1. (f[p] \notin Seek => OffsetUndisturbed(p))'
    BY ZenonT(60), <1>1, <1>2, <1>5 DEF OffsetAtomic, OffsetUndisturbed
  <2> QED
    BY ZenonT(60), <1>1, <1>2, <1>5, <2>1, Undisturbed
<1> QED
  BY ZenonT(60), <1>4, <1>6, <1>7, <1>8, <1>9 DEF IInv

(* f->off is stored by the holder of the lock, or by lseek(). *)
LEMMA StoreStep ==
  ASSUME OpenFileConstants, IInv, NEW p \in Proc, store_off(p)
  PROVE  IInv'
<1>1. TypeOK /\ LockInv /\ FileInv /\ FreshInv /\ Counts /\ OffsetAtomic
  BY DEF IInv
<1>2. /\ pc[p] = "store" /\ pc' = [pc EXCEPT ![p] = "idle"]
      /\ off' = IF r[p] > 0 THEN [off EXCEPT ![f[p]] = Wrap(tmp[p] + r[p])] ELSE off
      /\ locker' = Free
      /\ f' = [f EXCEPT ![p] = NoFile] /\ start' = [start EXCEPT ![p] = 0]
      /\ r' = [r EXCEPT ![p] = 0] /\ tmp' = [tmp EXCEPT ![p] = 0]
      /\ UNCHANGED <<ref, type, ofile, iref, size>>
  BY DEF store_off, Idle, Goto
<1>3. /\ UINT \in Nat \ {0} /\ 0 \in 0 .. UINT - 1
  BY DEF OpenFileConstants
<1>4. Wrap(tmp[p] + r[p]) \in 0 .. UINT - 1
  <2>1. tmp[p] \in Nat /\ r[p] \in Nat
    BY <1>1, <1>3 DEF TypeOK
  <2> QED
    BY <1>3, <2>1 DEF Wrap
<1>5. off' \in [File -> 0 .. UINT - 1]
  BY ZenonT(40), <1>1, <1>2, <1>4 DEF TypeOK
<1>6. TypeOK'
  BY SMTT(40), <1>1, <1>2, <1>3, <1>5 DEF TypeOK, Busy
<1>7. /\ pc'[p] = "idle"
      /\ \A q \in Proc \ {p} : /\ pc'[q] = pc[q] /\ f'[q] = f[q]
                               /\ start'[q] = start[q] /\ tmp'[q] = tmp[q]
  BY <1>1, <1>2 DEF TypeOK
<1>8. LockInv' /\ \A q \in Proc \ {p} : pc[q] \notin Busy
  BY SMTT(40), <1>1, <1>2, <1>7, LockGiven DEF Busy
<1>9. FileInv'
  BY SMTT(40), <1>1, <1>7 DEF FileInv, Busy
<1>10. FreshInv' /\ Counts'
  BY ZenonT(60), <1>1, <1>2, <1>7, SameCounts
<1>11. OffsetAtomic'
  <2>1. (f[p] \notin Seek => OffsetUndisturbed(p))'
    BY <1>7 DEF OffsetUndisturbed
  <2> QED
    BY ZenonT(60), <1>1, <1>7, <1>8, <2>1, Undisturbed DEF Busy
<1> QED
  BY SMTT(40), <1>6, <1>8, <1>9, <1>10, <1>11 DEF IInv

LEMMA LseekStep ==
  ASSUME OpenFileConstants, IInv, NEW p \in Proc, NEW d \in Fd,
         NEW whence \in {"SEEK_SET", "SEEK_CUR", "SEEK_END"}, NEW offset \in -1 .. 1,
         sys_lseek(p, d, whence, offset)
  PROVE  IInv'
<1>1. TypeOK /\ LockInv /\ FileInv /\ FreshInv /\ Counts /\ OffsetAtomic
  BY DEF IInv
<1>2. UINT \in Nat \ {0} /\ Seek \subseteq File /\ MaxSize \in Nat
  BY DEF OpenFileConstants
<1>3. PICK x \in Seek : x = ofile[p][d] /\ x \in File
  BY <1>2 DEF sys_lseek
<1> DEFINE base == CASE whence = "SEEK_SET" -> 0
                     [] whence = "SEEK_CUR" -> off[x]
                     [] whence = "SEEK_END" -> size
<1>4. base \in Int
  <2>1. off[x] \in Int /\ size \in Int
    BY <1>1, <1>2, <1>3 DEF TypeOK
  <2> QED
    BY <2>1
<1>5. /\ pc[p] = "idle" /\ pc' = [pc EXCEPT ![p] = "seek"]
      /\ f' = [f EXCEPT ![p] = x]
      /\ tmp' = [tmp EXCEPT ![p] = Wrap(UINT + offset + base)]
      /\ UNCHANGED <<ref, type, off, ofile, iref, locker, size, start, r>>
  BY <1>3 DEF sys_lseek, Goto, files, inode
<1> HIDE DEF base
<1>6. PICK v \in 0 .. UINT - 1 : v = Wrap(UINT + offset + base)
  BY SMTT(40), <1>2, <1>4 DEF Wrap
<1>7. TypeOK'
  <2>1. tmp' = [tmp EXCEPT ![p] = v]
    BY ZenonT(60), <1>5, <1>6
  <2> QED
    BY ZenonT(60), <1>1, <1>3, <1>5, <2>1 DEF TypeOK, Busy
<1>8. /\ pc'[p] = "seek" /\ f'[p] = x
      /\ \A q \in Proc \ {p} : pc'[q] = pc[q] /\ f'[q] = f[q] /\ tmp'[q] = tmp[q]
  BY ZenonT(60), <1>1, <1>5 DEF TypeOK
<1>9. LockInv'
  BY ZenonT(60), <1>1, <1>5, <1>8, LockKept DEF Busy
<1>10. FileInv'
  BY ZenonT(60), <1>1, <1>8 DEF FileInv, Busy
<1>11. FreshInv' /\ Counts'
  BY ZenonT(60), <1>1, <1>5, <1>8, SameCounts
<1>12. OffsetAtomic'
  <2>1. (f[p] \notin Seek => OffsetUndisturbed(p))'
    BY SMTT(40), <1>8
  <2> QED
    BY ZenonT(60), <1>1, <1>5, <1>8, <2>1, Undisturbed
<1> QED
  BY <1>7, <1>9, <1>10, <1>11, <1>12 DEF IInv

LEMMA SeekStep ==
  ASSUME OpenFileConstants, IInv, NEW p \in Proc, seek_store(p)
  PROVE  IInv'
<1>1. TypeOK /\ LockInv /\ FileInv /\ FreshInv /\ Counts /\ OffsetAtomic
  BY DEF IInv
<1>2. /\ pc[p] = "seek" /\ pc' = [pc EXCEPT ![p] = "idle"]
      /\ off' = [off EXCEPT ![f[p]] = tmp[p]]
      /\ f' = [f EXCEPT ![p] = NoFile] /\ start' = [start EXCEPT ![p] = 0]
      /\ r' = [r EXCEPT ![p] = 0] /\ tmp' = [tmp EXCEPT ![p] = 0]
      /\ UNCHANGED <<ref, type, ofile, iref, locker, size>>
  BY SMTT(40) DEF seek_store, Idle, Goto, inode
<1>3. 0 \in 0 .. UINT - 1 /\ f[p] \in Seek
  BY <1>1, <1>2 DEF OpenFileConstants, FileInv
<1>4. TypeOK'
  BY ZenonT(30), <1>1, <1>2, <1>3 DEF TypeOK, Busy
<1>5. /\ pc'[p] = "idle"
      /\ \A q \in Proc \ {p} : /\ pc'[q] = pc[q] /\ f'[q] = f[q]
                               /\ start'[q] = start[q] /\ tmp'[q] = tmp[q]
      /\ \A y \in File \ Seek : off'[y] = off[y]
  BY SMTT(40), <1>1, <1>2, <1>3 DEF TypeOK
<1>6. LockInv'
  BY ZenonT(60), <1>1, <1>2, <1>5, LockKept DEF Busy
<1>7. FileInv'
  BY SMTT(40), <1>1, <1>5 DEF FileInv, Busy
<1>8. FreshInv' /\ Counts'
  BY ZenonT(60), <1>1, <1>2, <1>5, SameCounts
<1>9. OffsetAtomic'
  <2>1. (f[p] \notin Seek => OffsetUndisturbed(p))'
    BY ZenonT(60), <1>5 DEF OffsetUndisturbed
  <2>2. \A q \in Proc : pc[q] \in {"load", "store"} => f[q] \in File
    BY <1>1 DEF FileInv, Busy
  <2> QED
    BY ZenonT(60), <1>1, <1>5, <2>1, <2>2, Undisturbed
<1> QED
  BY SMTT(30), <1>4, <1>6, <1>7, <1>8, <1>9 DEF IInv

LEMMA NextIInv ==
  ASSUME OpenFileConstants, IInv, [Next]_vars
  PROVE  IInv'
<1>1. CASE UNCHANGED vars
  <2>1. UNCHANGED <<ref, type, off, ofile, iref, locker, size, pc, f, start, r, tmp>>
    BY SMTT(30), <1>1 DEF vars, files, inode, regs
  <2>2. TypeOK' /\ LockInv' /\ FileInv' /\ OffsetAtomic'
    BY SMTT(30), <2>1 DEF IInv, TypeOK, LockInv, FileInv, OffsetAtomic, OffsetUndisturbed
  <2>3. FreshInv' /\ Counts'
    BY ZenonT(60), <2>1, SameCounts DEF IInv
  <2> QED
    BY <2>2, <2>3 DEF IInv
<1>2. CASE Next
  BY SMTT(30), <1>2, AllocStep, OpenFdStep, OpenFailStep, DupStep, ForkStep, CloseStep, IputStep,
     ReadStep, WriteStep, LoadStep, StoreStep, LseekStep, SeekStep DEF Next
<1> QED
  BY <1>1, <1>2

LEMMA Invariance ==
  ASSUME OpenFileConstants
  PROVE  Spec => []IInv
<1>1. Init => IInv
  BY InitIInv
<1>2. IInv /\ [Next]_vars => IInv'
  BY NextIInv
<1> QED
  BY <1>1, <1>2, PTL DEF Spec

-----------------------------------------------------------------------------
(* What file.c promises *)

(* Through filealloc(), filedup(), fileclose() (kernel/file.c), fdalloc()  *)
(* and fork(), f->ref is the number of descriptors and calls that have the *)
(* file, and every open file has one reference to its inode, which the     *)
(* last fileclose() puts once.                                             *)
THEOREM OpenFileRefsExact ==
  ASSUME OpenFileConstants
  PROVE  Spec => []FileRefsExact
<1>1. IInv => FileRefsExact
  BY DEF IInv, Counts, FileRefsExact, Opening, Typed, Putting
<1> QED
  BY <1>1, Invariance, PTL

(* fileread() and filewrite() (kernel/file.c) move f->off by whole          *)
(* transfers, on every file that lseek() is not called on.                  *)
THEOREM OpenFileOffsetAtomic ==
  ASSUME OpenFileConstants
  PROVE  Spec => []OffsetAtomic
<1>1. IInv => OffsetAtomic
  BY DEF IInv
<1> QED
  BY <1>1, Invariance, PTL

=============================================================================
