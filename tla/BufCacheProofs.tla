--------------------------- MODULE BufCacheProofs ---------------------------
(***************************************************************************)
(* Proofs about the buffer cache, for any number of processes, blocks and  *)
(* buffers: a block has one buffer, counts are exact, bget() finds a       *)
(* buffer, and the cache implements a store of blocks with a lock each.    *)
(* Here p and q stand for hands of processes.                              *)
(***************************************************************************)
EXTENDS BufCache, FiniteSetTheorems, WellFoundedInduction, TLAPS

(* The inductive invariant *)

TypeOK ==
  /\ blockno \in [Buf -> Block \cup {NoBlock}]
  /\ valid \in [Buf -> BOOLEAN]
  /\ refcnt \in [Buf -> Nat]
  /\ lock \in [Buf -> Hand \cup {NoProc}]
  /\ data \in [Buf -> Val]
  /\ lru \in [1 .. NBUF -> Buf]
  /\ disk \in [Block -> Val]
  /\ pc \in [Hand -> {"idle", "lock", "read", "held", "unref"}]
  /\ b \in [Hand -> Buf]
  /\ want \in [Hand -> Block \cup {NoBlock}]
  /\ pins \subseteq Buf

(* Every buffer is in the list. *)
Listed == \A x \in Buf : \E k \in 1 .. NBUF : lru[k] = x

OneBuffer == \A x, y \in Buf : blockno[x] = blockno[y] /\ x # y => blockno[x] = NoBlock

Counted ==
  \A x \in Buf : refcnt[x] = Cardinality(Referrers(x)) + (IF x \in pins THEN 1 ELSE 0)

(* A buffer that is referred to stays the buffer of its block. *)
Asked == \A p \in Hand : pc[p] # "idle" => want[p] \in Block /\ blockno[b[p]] = want[p]

(* The sleep lock is held by whoever reads or uses the buffer. *)
Locked == \A x \in Buf, p \in Hand : lock[x] = p <=> pc[p] \in {"read", "held"} /\ b[p] = x

(* What is used is valid; what is valid and not pinned is on the disk.     *)
Clean ==
  /\ \A p \in Hand : /\ pc[p] = "held" => valid[b[p]]
                     /\ pc[p] = "read" => ~valid[b[p]]
  /\ \A x \in Buf : /\ x \in pins => valid[x]
                    /\ valid[x] => blockno[x] \in Block
                    /\ valid[x] /\ x \notin pins => data[x] = disk[blockno[x]]

IInv ==
  /\ TypeOK
  /\ Listed
  /\ OneBuffer
  /\ Counted
  /\ Asked
  /\ Locked
  /\ Clean
  /\ Cardinality(pins) <= MaxPins

-----------------------------------------------------------------------------
(* Counting *)

(* A process has two hands. *)
LEMMA HandFinite ==
  ASSUME BufCacheConstants
  PROVE  IsFiniteSet(Hand) /\ Cardinality(Hand) = 2 * Cardinality(Proc)
<1>1. IsFiniteSet(Proc) /\ IsFiniteSet({1, 2}) /\ Cardinality({1, 2}) = 2
  <2>1. IsFiniteSet({1}) /\ Cardinality({1}) = 1
    BY Zenon, FS_Singleton
  <2>2. IsFiniteSet({1} \cup {2}) /\ Cardinality({1} \cup {2}) = Cardinality({1}) + 1
    BY <2>1, FS_AddElement
  <2>3. {1} \cup {2} = {1, 2}
    OBVIOUS
  <2> QED
    BY <2>1, <2>2, <2>3 DEF BufCacheConstants
<1>2. Cardinality(Proc) \in Nat
  BY <1>1, FS_CardinalityType
<1>3. /\ IsFiniteSet(Proc \X {1, 2})
      /\ Cardinality(Proc \X {1, 2}) = Cardinality(Proc) * Cardinality({1, 2})
  BY <1>1, FS_Product
<1> QED
  BY <1>1, <1>2, <1>3 DEF Hand

LEMMA RefFinite ==
  ASSUME BufCacheConstants, NEW x
  PROVE  IsFiniteSet(Referrers(x)) /\ Cardinality(Referrers(x)) \in Nat
<1>1. Referrers(x) \in SUBSET Hand
  BY DEF Referrers
<1> QED
  BY <1>1, HandFinite, FS_Subset, FS_CardinalityType

(* A buffer with count 0 is referred to by nobody, and one with count 1 by *)
(* the process that gives it up.                                           *)
LEMMA Unreferred ==
  ASSUME BufCacheConstants, IInv, NEW x \in Buf, refcnt[x] = 0
  PROVE  x \notin pins /\ \A p \in Hand : pc[p] # "idle" => b[p] # x
<1>1. /\ refcnt[x] = Cardinality(Referrers(x)) + (IF x \in pins THEN 1 ELSE 0)
      /\ Cardinality(Referrers(x)) \in Nat /\ IsFiniteSet(Referrers(x))
  BY RefFinite DEF IInv, Counted
<1>2. Cardinality(Referrers(x)) = 0 /\ x \notin pins
  BY <1>1
<1>3. Referrers(x) = {}
  BY <1>1, <1>2, FS_EmptySet
<1> QED
  BY <1>2, <1>3 DEF Referrers

LEMMA Referred ==
  ASSUME BufCacheConstants, IInv, NEW p \in Hand, pc[p] # "idle"
  PROVE  refcnt[b[p]] > 0 /\ refcnt[b[p]] \in Nat /\ b[p] \in Buf
<1>1. b[p] \in Buf /\ refcnt[b[p]] \in Nat
  BY DEF IInv, TypeOK
<1> QED
  BY <1>1, Unreferred

(* The count of x after p takes a reference, gives one up, or does neither. *)
LEMMA TakeRef ==
  ASSUME BufCacheConstants, TypeOK, NEW p \in Hand, NEW x \in Buf, pc[p] = "idle",
         pc'[p] # "idle", b'[p] = x,
         \A q \in Hand \ {p} : pc'[q] = pc[q] /\ b'[q] = b[q]
  PROVE  /\ Cardinality(Referrers(x)') = Cardinality(Referrers(x)) + 1
         /\ \A y \in Buf \ {x} : Referrers(y)' = Referrers(y)
<1>1. Referrers(x)' = Referrers(x) \cup {p} /\ p \notin Referrers(x)
  BY DEF Referrers
<1>2. \A y \in Buf \ {x} : Referrers(y)' = Referrers(y)
  BY DEF Referrers
<1> QED
  BY ZenonT(120), <1>1, <1>2, RefFinite, FS_AddElement

LEMMA DropRef ==
  ASSUME BufCacheConstants, TypeOK, NEW p \in Hand, NEW x \in Buf, pc[p] # "idle", b[p] = x,
         pc'[p] = "idle",
         \A q \in Hand \ {p} : pc'[q] = pc[q] /\ b'[q] = b[q]
  PROVE  /\ Cardinality(Referrers(x)') = Cardinality(Referrers(x)) - 1
         /\ \A y \in Buf \ {x} : Referrers(y)' = Referrers(y)
<1>1. Referrers(x)' = Referrers(x) \ {p} /\ p \in Referrers(x)
  BY DEF Referrers
<1>2. \A y \in Buf \ {x} : Referrers(y)' = Referrers(y)
  BY DEF Referrers
<1> QED
  BY ZenonT(120), <1>1, <1>2, RefFinite, FS_RemoveElement

LEMMA KeepRef ==
  ASSUME \A q \in Hand : pc'[q] = "idle" <=> pc[q] = "idle",
         \A q \in Hand : pc[q] # "idle" => b'[q] = b[q]
  PROVE  \A y : Referrers(y)' = Referrers(y)
BY DEF Referrers

(* A set of positions that is not empty has a last one. *)
LEMMA Last ==
  ASSUME BufCacheConstants, NEW S \in SUBSET (1 .. NBUF), S # {}
  PROVE  Max(S) \in S
<1> DEFINE I == 1 .. NBUF
           After(k) == {j \in S : j > k}
           T == {After(k) : k \in S}
           R == StrictSubsetOrdering(I)
<1>1. IsFiniteSet(I)
  BY FS_Interval DEF BufCacheConstants
<1>2. IsWellFoundedOn(R, SUBSET I)
  BY Zenon, <1>1, FS_StrictSubsetOrderingWellFounded, FS_FiniteSubsetsOfFinite
<1>3. T \subseteq SUBSET I /\ T # {}
  BY Zenon
<1>4. PICK s \in T : \A u \in T : ~(<<u, s>> \in R)
  <2> HIDE DEF T, R
  <2> QED
    BY Zenon, <1>2, <1>3, WFMin
<1>5. PICK k \in S : s = After(k)
  OBVIOUS
<1>6. ASSUME NEW j \in S, j > k PROVE FALSE
  <2>1. S \subseteq Int /\ NBUF \in Nat
    BY DEF BufCacheConstants
  <2>2. After(j) \subseteq After(k) /\ j \in After(k) /\ j \notin After(j)
    <3>1. j \in Int /\ k \in Int /\ \A i \in S : i \in Int
      BY <2>1
    <3>2. ~(j > j) /\ \A i \in S : i > j => i > k
      BY <1>6, <3>1
    <3> QED
      BY Zenon, <1>6, <3>2
  <2>3. After(j) \in T /\ After(j) \subseteq I /\ After(k) \subseteq I
    BY Zenon
  <2> HIDE DEF After, T
  <2>4. <<After(j), After(k)>> \in R
    BY <2>2, <2>3 DEF StrictSubsetOrdering
  <2> QED
    BY <1>4, <1>5, <2>3, <2>4
<1>7. \A j \in S : k >= j
  BY <1>6 DEF BufCacheConstants
<1> QED
  BY Zenon, <1>7 DEF Max

-----------------------------------------------------------------------------
(* The steps *)

LEMMA InitIInv ==
  ASSUME BufCacheConstants, Init
  PROVE  IInv
<1>1. NBUF \in Nat \ {0} /\ MaxPins \in Nat /\ NoBlock \notin Block /\ NoProc \notin Hand
  BY DEF BufCacheConstants
<1>2. TypeOK
  BY <1>1 DEF Init, TypeOK, Buf
<1>3. Listed
  <2> SUFFICES ASSUME NEW x \in Buf PROVE \E k \in 1 .. NBUF : lru[k] = x
    BY DEF Listed
  <2>1. NBUF + 1 - x \in 1 .. NBUF /\ NBUF + 1 - (NBUF + 1 - x) = x
    BY <1>1 DEF Buf
  <2> QED
    BY <2>1 DEF Init
<1>4. Counted
  <2>1. \A x \in Buf : Referrers(x) = {}
    BY DEF Init, Referrers
  <2>2. Cardinality({}) = 0
    BY FS_EmptySet
  <2>3. \A x \in Buf : refcnt[x] = 0 /\ x \notin pins
    BY DEF Init
  <2> QED
    BY <2>1, <2>2, <2>3 DEF Counted
<1>5. OneBuffer /\ Asked /\ Locked /\ Clean
  BY <1>1 DEF Init, OneBuffer, Asked, Locked, Clean
<1>6. Cardinality(pins) <= MaxPins
  BY <1>1, FS_EmptySet DEF Init
<1> QED
  BY <1>2, <1>3, <1>4, <1>5, <1>6 DEF IInv

LEMMA HitStep ==
  ASSUME BufCacheConstants, IInv, NEW p \in Hand, NEW n \in Block, bget_hit(p, n)
  PROVE  IInv'
<1>1. /\ TypeOK /\ Listed /\ OneBuffer /\ Counted /\ Asked /\ Locked /\ Clean
  BY DEF IInv
<1>2. PICK x \in Buf : /\ blockno[x] = n
                       /\ refcnt' = [refcnt EXCEPT ![x] = @ + 1]
                       /\ b' = [b EXCEPT ![p] = x]
  BY Zenon DEF bget_hit, Cached, Ref
<1>3. /\ pc[p] = "idle" /\ pc' = [pc EXCEPT ![p] = "lock"]
      /\ want' = [want EXCEPT ![p] = n]
      /\ UNCHANGED <<blockno, valid, lock, data, lru, disk, pins>>
  BY DEF bget_hit, Goto, Asks
<1>4. TypeOK'
  BY <1>1, <1>2, <1>3 DEF TypeOK
<1>5. /\ pc'[p] = "lock" /\ b'[p] = x /\ want'[p] = n
      /\ \A q \in Hand \ {p} : pc'[q] = pc[q] /\ b'[q] = b[q] /\ want'[q] = want[q]
  BY <1>1, <1>2, <1>3 DEF TypeOK
<1>6. Listed' /\ OneBuffer'
  BY <1>1, <1>3 DEF Listed, OneBuffer
<1>7. Counted'
  <2>1. /\ Cardinality(Referrers(x)') = Cardinality(Referrers(x)) + 1
        /\ \A y \in Buf \ {x} : Referrers(y)' = Referrers(y)
    BY <1>1, <1>3, <1>5, TakeRef
  <2>2. /\ refcnt'[x] = refcnt[x] + 1 /\ \A y \in Buf \ {x} : refcnt'[y] = refcnt[y]
    BY <1>1, <1>2 DEF TypeOK
  <2>3. Cardinality(Referrers(x)) \in Nat
    BY RefFinite
  <2> QED
    BY <1>1, <1>3, <2>1, <2>2, <2>3 DEF Counted
<1>8. Asked' /\ Locked' /\ Clean'
  <2>1. Asked'
    BY <1>1, <1>2, <1>3, <1>5 DEF Asked
  <2>2. Locked'
    BY <1>1, <1>3, <1>5 DEF Locked
  <2>3. Clean'
    BY <1>1, <1>3, <1>5 DEF Clean
  <2> QED
    BY <2>1, <2>2, <2>3
<1> QED
  BY <1>3, <1>4, <1>6, <1>7, <1>8 DEF IInv

(* The buffer that bget() recycles was the buffer of no process. *)
LEMMA RecycleStep ==
  ASSUME BufCacheConstants, IInv, NEW p \in Hand, NEW n \in Block, bget_recycle(p, n)
  PROVE  /\ IInv'
         /\ \E x \in Buf : /\ refcnt[x] = 0 /\ x \notin pins
                           /\ blockno' = [blockno EXCEPT ![x] = n]
                           /\ valid' = [valid EXCEPT ![x] = FALSE]
<1>1. /\ TypeOK /\ Listed /\ OneBuffer /\ Counted /\ Asked /\ Locked /\ Clean
  BY DEF IInv
<1>2. PICK x \in Buf : x = lru[Max(Unused)] /\ refcnt[x] = 0
  <2>1. Max(Unused) \in Unused
    BY Last DEF bget_recycle, Unused
  <2> QED
    BY Zenon, <1>1, <2>1 DEF Unused, TypeOK
<1>3. /\ pc[p] = "idle" /\ pc' = [pc EXCEPT ![p] = "lock"]
      /\ \A y \in Buf : blockno[y] # n
      /\ blockno' = [blockno EXCEPT ![x] = n]
      /\ valid' = [valid EXCEPT ![x] = FALSE]
      /\ refcnt' = [refcnt EXCEPT ![x] = 1]
      /\ b' = [b EXCEPT ![p] = x]
      /\ want' = [want EXCEPT ![p] = n]
      /\ UNCHANGED <<lock, data, lru, disk, pins>>
  BY <1>2 DEF bget_recycle, Goto, Cached, Asks, Invalidate
<1>4. x \notin pins /\ \A q \in Hand : pc[q] # "idle" => b[q] # x
  BY <1>2, Unreferred
<1>5. TypeOK'
  BY <1>1, <1>2, <1>3 DEF TypeOK
<1>6. /\ pc'[p] = "lock" /\ b'[p] = x /\ want'[p] = n
      /\ \A q \in Hand \ {p} : pc'[q] = pc[q] /\ b'[q] = b[q] /\ want'[q] = want[q]
      /\ blockno'[x] = n /\ ~valid'[x] /\ refcnt'[x] = 1
      /\ \A y \in Buf \ {x} : blockno'[y] = blockno[y] /\ valid'[y] = valid[y]
                              /\ refcnt'[y] = refcnt[y]
  BY Zenon, <1>1, <1>2, <1>3 DEF TypeOK
<1>7. Listed' /\ OneBuffer'
  BY <1>1, <1>3, <1>6 DEF Listed, OneBuffer
<1>8. Counted'
  <2>1. /\ Cardinality(Referrers(x)') = Cardinality(Referrers(x)) + 1
        /\ \A y \in Buf \ {x} : Referrers(y)' = Referrers(y)
    BY <1>1, <1>2, <1>3, <1>6, TakeRef
  <2>2. Cardinality(Referrers(x)) \in Nat /\ refcnt[x] = Cardinality(Referrers(x))
    BY <1>1, <1>2, <1>4, RefFinite DEF Counted
  <2> QED
    BY SMTT(40), <1>1, <1>2, <1>3, <1>4, <1>6, <2>1, <2>2 DEF Counted
<1>9. Asked'
  <2> SUFFICES ASSUME NEW q \in Hand, pc'[q] # "idle"
               PROVE  want'[q] \in Block /\ blockno'[b'[q]] = want'[q]
    BY DEF Asked
  <2>1. CASE q = p
    BY <1>6, <2>1
  <2>2. CASE q # p
    BY <1>1, <1>4, <1>6, <2>2 DEF Asked, TypeOK
  <2> QED
    BY <2>1, <2>2
<1>10. Locked'
  BY <1>1, <1>3, <1>6 DEF Locked
<1>11. Clean'
  <2>1. ASSUME NEW q \in Hand
        PROVE  /\ pc'[q] = "held" => valid'[b'[q]]
               /\ pc'[q] = "read" => ~valid'[b'[q]]
    <3>1. CASE q = p
      BY <1>6, <3>1
    <3>2. CASE q # p
      BY <1>1, <1>4, <1>6, <3>2 DEF Clean, TypeOK
    <3> QED
      BY <3>1, <3>2
  <2>2. ASSUME NEW y \in Buf
        PROVE  /\ y \in pins => valid'[y]
               /\ valid'[y] => blockno'[y] \in Block
               /\ valid'[y] /\ y \notin pins => data[y] = disk[blockno'[y]]
    BY <1>1, <1>4, <1>6 DEF Clean
  <2> QED
    BY <1>3, <2>1, <2>2 DEF Clean
<1> QED
  BY Zenon, <1>2, <1>3, <1>4, <1>5, <1>7, <1>8, <1>9, <1>10, <1>11 DEF IInv

(* Steps that leave every reference where it is. *)
LEMMA SameCounts ==
  ASSUME Counted, UNCHANGED <<refcnt, b, pins>>,
         \A q \in Hand : pc'[q] = "idle" <=> pc[q] = "idle"
  PROVE  Counted'
<1>1. \A y : Referrers(y)' = Referrers(y)
  BY KeepRef
<1> QED
  BY <1>1 DEF Counted

(* The holder of a buffer, and its block. *)
LEMMA HeldBuffer ==
  ASSUME BufCacheConstants, IInv, NEW p \in Hand, pc[p] \in {"read", "held"}
  PROVE  /\ b[p] \in Buf /\ blockno[b[p]] \in Block /\ blockno[b[p]] = want[p]
         /\ lock[b[p]] = p
         /\ \A y \in Buf \ {b[p]} : blockno[y] # blockno[b[p]]
         /\ \A q \in Hand \ {p} : pc[q] \in {"read", "held"} => b[q] # b[p]
<1>1. b[p] \in Buf /\ want[p] \in Block /\ blockno[b[p]] = want[p] /\ lock[b[p]] = p
  BY DEF IInv, TypeOK, Asked, Locked
<1>2. \A y \in Buf \ {b[p]} : blockno[y] # blockno[b[p]]
  BY <1>1 DEF IInv, OneBuffer, BufCacheConstants
<1>3. \A q \in Hand \ {p} : pc[q] \in {"read", "held"} => b[q] # b[p]
  BY <1>1 DEF IInv, Locked
<1> QED
  BY <1>1, <1>2, <1>3

LEMMA AcquireStep ==
  ASSUME BufCacheConstants, IInv, NEW p \in Hand, acquiresleep(p)
  PROVE  IInv'
<1>1. /\ TypeOK /\ Listed /\ OneBuffer /\ Counted /\ Asked /\ Locked /\ Clean
  BY DEF IInv
<1>2. PICK l \in {"held", "read"} : /\ l = IF valid[b[p]] THEN "held" ELSE "read"
  OBVIOUS
<1>3. PICK x \in Buf : x = b[p]
  BY <1>1 DEF TypeOK
<1>4. /\ l = "held" => valid[x]
      /\ l = "read" => ~valid[x]
  BY <1>2, <1>3
<1>5. /\ pc[p] = "lock" /\ lock[x] = NoProc
      /\ pc' = [pc EXCEPT ![p] = l]
      /\ lock' = [lock EXCEPT ![x] = p]
      /\ UNCHANGED <<blockno, valid, refcnt, data, lru, disk, b, want, pins>>
  BY <1>2, <1>3 DEF acquiresleep, Goto
<1>6. TypeOK'
  BY <1>1, <1>5 DEF TypeOK
<1>7. /\ pc'[p] = l /\ \A q \in Hand \ {p} : pc'[q] = pc[q]
      /\ lock'[x] = p /\ \A y \in Buf \ {x} : lock'[y] = lock[y]
  BY <1>1, <1>5 DEF TypeOK
<1>8. \A q \in Hand : pc'[q] = "idle" <=> pc[q] = "idle"
  BY <1>5, <1>7
<1>9. Listed' /\ OneBuffer' /\ Asked' /\ Counted'
  BY <1>1, <1>5, <1>8, SameCounts DEF Listed, OneBuffer, Asked
<1>10. Locked'
  <2> SUFFICES ASSUME NEW y \in Buf, NEW q \in Hand
               PROVE  lock'[y] = q <=> pc'[q] \in {"read", "held"} /\ b[q] = y
    BY <1>5 DEF Locked
  <2>1. CASE q = p
    BY <1>1, <1>3, <1>5, <1>7, <2>1 DEF Locked
  <2>2. CASE q # p
    BY <1>1, <1>3, <1>5, <1>7, <2>2 DEF Locked, BufCacheConstants
  <2> QED
    BY <2>1, <2>2
<1>11. Clean'
  BY SMTT(40), <1>1, <1>3, <1>4, <1>5, <1>7 DEF Clean
<1> QED
  BY <1>1, <1>5, <1>6, <1>9, <1>10, <1>11 DEF IInv

LEMMA ReadStep ==
  ASSUME BufCacheConstants, IInv, NEW p \in Hand, bread(p)
  PROVE  IInv'
<1>1. /\ TypeOK /\ Listed /\ OneBuffer /\ Counted /\ Asked /\ Locked /\ Clean
  BY DEF IInv
<1>2. /\ pc[p] = "read" /\ pc' = [pc EXCEPT ![p] = "held"]
      /\ data' = [data EXCEPT ![b[p]] = disk[blockno[b[p]]]]
      /\ valid' = [valid EXCEPT ![b[p]] = TRUE]
      /\ UNCHANGED <<blockno, refcnt, lock, lru, disk, b, want, pins>>
  BY DEF bread, Goto
<1>3. /\ b[p] \in Buf /\ blockno[b[p]] \in Block
      /\ \A q \in Hand \ {p} : pc[q] \in {"read", "held"} => b[q] # b[p]
  BY <1>2, HeldBuffer
<1>4. TypeOK'
  BY <1>1, <1>2, <1>3 DEF TypeOK
<1>5. /\ pc'[p] = "held" /\ \A q \in Hand \ {p} : pc'[q] = pc[q]
      /\ valid'[b[p]] /\ data'[b[p]] = disk[blockno[b[p]]]
      /\ \A y \in Buf \ {b[p]} : valid'[y] = valid[y] /\ data'[y] = data[y]
  BY SMTT(40), <1>1, <1>2, <1>3 DEF TypeOK
<1>6. \A q \in Hand : pc'[q] = "idle" <=> pc[q] = "idle"
  BY <1>2, <1>5
<1>7. Listed' /\ OneBuffer' /\ Asked' /\ Counted' /\ Locked'
  BY <1>1, <1>2, <1>5, <1>6, SameCounts DEF Listed, OneBuffer, Asked, Locked
<1>8. Clean'
  <2>1. ASSUME NEW q \in Hand
        PROVE  /\ pc'[q] = "held" => valid'[b[q]]
               /\ pc'[q] = "read" => ~valid'[b[q]]
    BY <1>1, <1>3, <1>5 DEF Clean, TypeOK
  <2>2. ASSUME NEW y \in Buf
        PROVE  /\ y \in pins => valid'[y]
               /\ valid'[y] => blockno[y] \in Block
               /\ valid'[y] /\ y \notin pins => data'[y] = disk[blockno[y]]
    BY <1>1, <1>3, <1>5 DEF Clean
  <2> QED
    BY <1>2, <2>1, <2>2 DEF Clean
<1> QED
  BY SMTT(40), <1>1, <1>2, <1>4, <1>7, <1>8 DEF IInv

LEMMA WriteStep ==
  ASSUME BufCacheConstants, IInv, NEW p \in Hand, NEW v \in Val, bwrite(p, v)
  PROVE  IInv'
<1>1. /\ TypeOK /\ Listed /\ OneBuffer /\ Counted /\ Asked /\ Locked /\ Clean
  BY DEF IInv
<1>2. /\ pc[p] = "held"
      /\ data' = [data EXCEPT ![b[p]] = v]
      /\ disk' = [disk EXCEPT ![blockno[b[p]]] = v]
      /\ UNCHANGED <<blockno, valid, refcnt, lock, lru, pc, b, want, pins>>
  BY DEF bwrite
<1>3. /\ b[p] \in Buf /\ blockno[b[p]] \in Block
      /\ \A y \in Buf \ {b[p]} : blockno[y] # blockno[b[p]]
  BY <1>2, HeldBuffer
<1>4. TypeOK'
  BY <1>1, <1>2, <1>3 DEF TypeOK
<1>5. /\ data'[b[p]] = v /\ \A y \in Buf \ {b[p]} : data'[y] = data[y]
      /\ disk'[blockno[b[p]]] = v
      /\ \A n \in Block \ {blockno[b[p]]} : disk'[n] = disk[n]
  BY SMTT(40), <1>1, <1>2, <1>3 DEF TypeOK
<1>6. Listed' /\ OneBuffer' /\ Asked' /\ Counted' /\ Locked'
  BY SMTT(40), <1>1, <1>2, SameCounts DEF Listed, OneBuffer, Asked, Locked
<1>7. Clean'
  BY <1>1, <1>2, <1>3, <1>5 DEF Clean
<1> QED
  BY ZenonT(60), <1>1, <1>2, <1>4, <1>6, <1>7 DEF IInv

LEMMA PinsFinite ==
  ASSUME BufCacheConstants, NEW S \in SUBSET Buf
  PROVE  IsFiniteSet(S) /\ Cardinality(S) \in Nat
<1>1. 1 \in Int /\ NBUF \in Int
  BY DEF BufCacheConstants
<1>2. IsFiniteSet(Buf)
  BY <1>1, FS_Interval DEF Buf
<1> QED
  BY <1>2, FS_Subset, FS_CardinalityType

LEMMA PinStep ==
  ASSUME BufCacheConstants, IInv, NEW p \in Hand, NEW v \in Val, bpin(p, v)
  PROVE  IInv'
<1>1. /\ TypeOK /\ Listed /\ OneBuffer /\ Counted /\ Asked /\ Locked /\ Clean
      /\ Cardinality(pins) <= MaxPins
  BY SMTT(40) DEF IInv
<1>2. /\ pc[p] = "held"
      /\ data' = [data EXCEPT ![b[p]] = v]
      /\ UNCHANGED <<blockno, valid, lock, lru, disk, pc, b, want>>
  BY DEF bpin
<1>3. PICK x \in Buf : x = b[p] /\ blockno[x] \in Block /\ valid[x]
  BY <1>1, <1>2, HeldBuffer DEF Clean
<1>4. /\ data'[x] = v /\ \A y \in Buf \ {x} : data'[y] = data[y]
  BY <1>1, <1>2, <1>3 DEF TypeOK
<1>5. Listed' /\ OneBuffer' /\ Asked' /\ Locked'
  BY <1>1, <1>2 DEF Listed, OneBuffer, Asked, Locked
<1>6. \A y : Referrers(y)' = Referrers(y)
  BY <1>2, KeepRef
<1>7. CASE x \in pins
  <2>1. UNCHANGED <<refcnt, pins>>
    BY <1>3, <1>7 DEF bpin
  <2>2. TypeOK'
    BY <1>1, <1>2, <1>3, <2>1 DEF TypeOK
  <2>3. Counted'
    BY <1>1, <1>6, <2>1 DEF Counted
  <2>4. Clean'
    BY <1>1, <1>2, <1>4, <1>7, <2>1 DEF Clean
  <2> QED
    BY <1>1, <1>5, <2>1, <2>2, <2>3, <2>4 DEF IInv
<1>8. CASE x \notin pins
  <2>1. /\ Cardinality(pins) < MaxPins
        /\ refcnt' = [refcnt EXCEPT ![x] = @ + 1]
        /\ pins' = pins \cup {x}
    BY <1>3, <1>8 DEF bpin, Ref
  <2>2. /\ refcnt'[x] = refcnt[x] + 1 /\ \A y \in Buf \ {x} : refcnt'[y] = refcnt[y]
    BY <1>1, <2>1 DEF TypeOK
  <2>3. TypeOK'
    BY <1>1, <1>2, <1>3, <2>1 DEF TypeOK
  <2>4. Counted'
    <3> SUFFICES ASSUME NEW y \in Buf
                 PROVE  refcnt'[y] = Cardinality(Referrers(y)) + (IF y \in pins' THEN 1 ELSE 0)
      BY <1>6 DEF Counted
    <3>1. /\ refcnt[y] = Cardinality(Referrers(y)) + (IF y \in pins THEN 1 ELSE 0)
          /\ Cardinality(Referrers(y)) \in Nat
      BY <1>1, RefFinite DEF Counted
    <3>2. CASE y = x
      <4>1. refcnt[y] = Cardinality(Referrers(y))
        BY <1>8, <3>1, <3>2
      <4> QED
        BY <2>1, <2>2, <3>1, <3>2, <4>1
    <3>3. CASE y # x
      <4>1. y \in pins' <=> y \in pins
        BY SMTT(40), <2>1, <3>3
      <4> QED
        BY <2>2, <3>1, <3>3, <4>1
    <3> QED
      BY <3>2, <3>3
  <2>5. Clean'
    BY <1>1, <1>2, <1>3, <1>4, <2>1 DEF Clean
  <2>6. Cardinality(pins') <= MaxPins
    <3>1. IsFiniteSet(pins) /\ Cardinality(pins) \in Nat /\ MaxPins \in Nat
      BY <1>1, PinsFinite DEF TypeOK, BufCacheConstants
    <3>2. Cardinality(pins') = Cardinality(pins) + 1
      BY Zenon, <1>8, <2>1, <3>1, FS_AddElement
    <3> QED
      BY <2>1, <3>1, <3>2
  <2> QED
    BY <1>5, <2>3, <2>4, <2>5, <2>6 DEF IInv
<1> QED
  BY <1>7, <1>8

LEMMA UnpinStep ==
  ASSUME BufCacheConstants, IInv, NEW p \in Hand, bunpin(p)
  PROVE  IInv'
<1>1. /\ TypeOK /\ Listed /\ OneBuffer /\ Counted /\ Asked /\ Locked /\ Clean
      /\ Cardinality(pins) <= MaxPins
  BY DEF IInv
<1>2. pc[p] = "held" /\ b[p] \in pins
  BY DEF bunpin
<1>3. PICK x \in Buf : /\ x = b[p] /\ blockno[x] \in Block
                       /\ \A y \in Buf \ {x} : blockno[y] # blockno[x]
  BY <1>2, HeldBuffer
<1>4. /\ disk' = [disk EXCEPT ![blockno[x]] = data[x]]
      /\ refcnt' = [refcnt EXCEPT ![x] = @ - 1]
      /\ pins' = pins \ {x}
      /\ UNCHANGED <<blockno, valid, lock, data, lru, pc, b, want>>
  BY <1>3 DEF bunpin
<1>5. \A y \in Buf : /\ refcnt[y] = Cardinality(Referrers(y)) + (IF y \in pins THEN 1 ELSE 0)
                     /\ Cardinality(Referrers(y)) \in Nat
  BY SMTT(40), <1>1, RefFinite DEF Counted
<1>6. refcnt[x] = Cardinality(Referrers(x)) + 1 /\ Cardinality(Referrers(x)) \in Nat
  BY <1>2, <1>3, <1>5
<1>7. refcnt[x] - 1 \in Nat /\ refcnt[x] - 1 = Cardinality(Referrers(x))
  BY <1>6
<1>8. TypeOK'
  BY <1>1, <1>3, <1>4, <1>7 DEF TypeOK
<1>9. /\ refcnt'[x] = refcnt[x] - 1 /\ \A y \in Buf \ {x} : refcnt'[y] = refcnt[y]
      /\ disk'[blockno[x]] = data[x]
      /\ \A n \in Block \ {blockno[x]} : disk'[n] = disk[n]
  BY <1>1, <1>3, <1>4 DEF TypeOK
<1>10. Listed' /\ OneBuffer' /\ Asked' /\ Locked'
  BY <1>1, <1>4 DEF Listed, OneBuffer, Asked, Locked
<1>11. Counted'
  <2> SUFFICES ASSUME NEW y \in Buf
               PROVE  refcnt'[y] = Cardinality(Referrers(y)) + (IF y \in pins' THEN 1 ELSE 0)
    <3>1. \A y : Referrers(y)' = Referrers(y)
      BY SMTT(40), <1>4, KeepRef
    <3> QED
      BY SMTT(40), <3>1 DEF Counted
  <2>1. CASE y = x
    BY <1>4, <1>6, <1>7, <1>9, <2>1
  <2>2. CASE y # x
    <3>1. y \in pins' <=> y \in pins
      BY SMTT(40), <1>4, <2>2
    <3> QED
      BY <1>5, <1>9, <2>2, <3>1
  <2> QED
    BY <2>1, <2>2
<1>12. Clean'
  BY <1>1, <1>3, <1>4, <1>9 DEF Clean
<1>13. Cardinality(pins') <= MaxPins
  <2>1. IsFiniteSet(pins) /\ Cardinality(pins) \in Nat /\ MaxPins \in Nat
    BY <1>1, PinsFinite DEF TypeOK, BufCacheConstants
  <2>2. Cardinality(pins') = Cardinality(pins) - 1
    BY Zenon, <1>2, <1>3, <1>4, <2>1, FS_RemoveElement
  <2> QED
    BY <1>1, <2>1, <2>2
<1> QED
  BY <1>8, <1>10, <1>11, <1>12, <1>13 DEF IInv

LEMMA ReleaseStep ==
  ASSUME BufCacheConstants, IInv, NEW p \in Hand, releasesleep(p)
  PROVE  IInv'
<1>1. /\ TypeOK /\ Listed /\ OneBuffer /\ Counted /\ Asked /\ Locked /\ Clean
  BY DEF IInv
<1>2. /\ pc[p] = "held" /\ pc' = [pc EXCEPT ![p] = "unref"]
      /\ lock' = [lock EXCEPT ![b[p]] = NoProc]
      /\ UNCHANGED <<blockno, valid, refcnt, data, lru, disk, b, want, pins>>
  BY DEF releasesleep, Goto
<1>3. /\ b[p] \in Buf /\ lock[b[p]] = p
      /\ \A q \in Hand \ {p} : pc[q] \in {"read", "held"} => b[q] # b[p]
  BY <1>2, HeldBuffer
<1>4. TypeOK'
  BY <1>1, <1>2 DEF TypeOK
<1>5. /\ pc'[p] = "unref" /\ \A q \in Hand \ {p} : pc'[q] = pc[q]
      /\ lock'[b[p]] = NoProc /\ \A y \in Buf \ {b[p]} : lock'[y] = lock[y]
  BY <1>1, <1>2, <1>3 DEF TypeOK
<1>6. \A q \in Hand : pc'[q] = "idle" <=> pc[q] = "idle"
  BY SMTT(40), <1>2, <1>5
<1>7. Listed' /\ OneBuffer' /\ Asked' /\ Counted'
  BY <1>1, <1>2, <1>6, SameCounts DEF Listed, OneBuffer, Asked
<1>8. Locked'
  <2> SUFFICES ASSUME NEW y \in Buf, NEW q \in Hand
               PROVE  lock'[y] = q <=> pc'[q] \in {"read", "held"} /\ b[q] = y
    BY SMTT(40), <1>2 DEF Locked
  <2>1. CASE q = p
    BY SMTT(40), <1>1, <1>3, <1>5, <2>1 DEF Locked, BufCacheConstants
  <2>2. CASE q # p
    BY SMTT(40), <1>1, <1>3, <1>5, <2>2 DEF Locked, BufCacheConstants
  <2> QED
    BY <2>1, <2>2
<1>9. Clean'
  BY <1>1, <1>2, <1>5 DEF Clean
<1> QED
  BY <1>1, <1>2, <1>4, <1>7, <1>8, <1>9 DEF IInv

(* A buffer that goes to the head of the list pushes no other one out. *)
LEMMA MoveListed ==
  ASSUME BufCacheConstants, TypeOK, Listed, NEW x \in Buf
  PROVE  /\ MoveToHead(x) \in [1 .. NBUF -> Buf]
         /\ \A y \in Buf : \E k \in 1 .. NBUF : MoveToHead(x)[k] = y
<1> DEFINE j == CHOOSE k \in 1 .. NBUF : lru[k] = x
           m == [k \in 1 .. NBUF |-> IF k = 1 THEN x ELSE IF k <= j THEN lru[k - 1] ELSE lru[k]]
<1>1. MoveToHead(x) = m
  BY DEF MoveToHead
<1>2. j \in 1 .. NBUF /\ lru[j] = x
  BY DEF Listed
<1>3. NBUF \in Nat \ {0} /\ lru \in [1 .. NBUF -> Buf]
  BY DEF BufCacheConstants, TypeOK
<1> HIDE DEF j
<1>4. m \in [1 .. NBUF -> Buf]
  <2> SUFFICES ASSUME NEW k \in 1 .. NBUF
               PROVE  (IF k = 1 THEN x ELSE IF k <= j THEN lru[k - 1] ELSE lru[k]) \in Buf
    OBVIOUS
  <2>1. k # 1 => k - 1 \in 1 .. NBUF
    BY <1>3
  <2> QED
    BY <1>3, <2>1
<1>5. ASSUME NEW y \in Buf PROVE \E k \in 1 .. NBUF : m[k] = y
  <2>1. PICK k \in 1 .. NBUF : lru[k] = y
    BY DEF Listed
  <2>2. CASE k = j
    <3>1. m[1] = y /\ 1 \in 1 .. NBUF
      BY SMTT(40), <1>2, <1>3, <2>1, <2>2
    <3> QED
      BY <3>1
  <2>3. CASE k < j
    <3>1. k + 1 \in 1 .. NBUF /\ k + 1 # 1 /\ k + 1 <= j /\ (k + 1) - 1 = k
      BY <1>2, <1>3, <2>3
    <3>2. m[k + 1] = y
      BY <2>1, <3>1
    <3> QED
      BY <3>1, <3>2
  <2>4. CASE k > j
    <3>1. k # 1 /\ ~(k <= j)
      BY <1>2, <1>3, <2>4
    <3>2. m[k] = y
      BY <2>1, <3>1
    <3> QED
      BY <3>2
  <2> QED
    BY <1>2, <1>3, <2>2, <2>3, <2>4
<1> QED
  BY <1>1, <1>4, <1>5

LEMMA BrelseStep ==
  ASSUME BufCacheConstants, IInv, NEW p \in Hand, brelse(p)
  PROVE  IInv'
<1>1. /\ TypeOK /\ Listed /\ OneBuffer /\ Counted /\ Asked /\ Locked /\ Clean
  BY DEF IInv
<1>2. /\ pc[p] = "unref" /\ pc' = [pc EXCEPT ![p] = "idle"]
      /\ want' = [want EXCEPT ![p] = NoBlock]
      /\ b' = [b EXCEPT ![p] = 1]
      /\ UNCHANGED <<blockno, valid, lock, data, disk, pins>>
  BY DEF brelse, Goto
<1>3. PICK x \in Buf : x = b[p]
  BY <1>1 DEF TypeOK
<1>4. /\ refcnt' = [refcnt EXCEPT ![x] = @ - 1]
      /\ lru' = lru \/ lru' = MoveToHead(x)
  BY <1>3 DEF brelse, Unref
<1>5. refcnt[x] - 1 \in Nat /\ refcnt[x] \in Nat /\ 1 \in Buf
  <2>1. refcnt[x] > 0 /\ refcnt[x] \in Nat
    BY <1>2, <1>3, Referred
  <2> QED
    BY <2>1 DEF Buf, BufCacheConstants
<1>6. lru' \in [1 .. NBUF -> Buf] /\ \A y \in Buf : \E k \in 1 .. NBUF : lru'[k] = y
  <2>1. CASE lru' = lru
    BY <1>1, <2>1 DEF TypeOK, Listed
  <2>2. CASE lru' = MoveToHead(x)
    <3>1. /\ MoveToHead(x) \in [1 .. NBUF -> Buf]
          /\ \A y \in Buf : \E k \in 1 .. NBUF : MoveToHead(x)[k] = y
      BY SMTT(40), <1>1, MoveListed
    <3> QED
      BY <2>2, <3>1
  <2> QED
    BY <1>4, <2>1, <2>2
<1>7. TypeOK' /\ Listed'
  BY ZenonT(60), <1>1, <1>2, <1>4, <1>5, <1>6 DEF TypeOK, Listed
<1>8. /\ pc'[p] = "idle"
      /\ \A q \in Hand \ {p} : pc'[q] = pc[q] /\ b'[q] = b[q] /\ want'[q] = want[q]
      /\ refcnt'[x] = refcnt[x] - 1 /\ \A y \in Buf \ {x} : refcnt'[y] = refcnt[y]
  BY ZenonT(60), <1>1, <1>2, <1>4 DEF TypeOK
<1>9. OneBuffer' /\ Asked'
  BY SMTT(40), <1>1, <1>2, <1>8 DEF OneBuffer, Asked
<1>10. Counted'
  <2>1. /\ Cardinality(Referrers(x)') = Cardinality(Referrers(x)) - 1
        /\ \A y \in Buf \ {x} : Referrers(y)' = Referrers(y)
    BY <1>1, <1>2, <1>3, <1>8, DropRef
  <2>2. Cardinality(Referrers(x)) \in Nat
    BY RefFinite
  <2> QED
    BY SMTT(40), <1>1, <1>2, <1>8, <2>1, <2>2 DEF Counted
<1>11. Locked'
  BY SMTT(40), <1>1, <1>2, <1>8 DEF Locked
<1>12. Clean'
  BY SMTT(40), <1>1, <1>2, <1>8 DEF Clean
<1> QED
  BY <1>2, <1>7, <1>9, <1>10, <1>11, <1>12 DEF IInv

LEMMA NextIInv ==
  ASSUME BufCacheConstants, IInv, [Next]_vars
  PROVE  IInv'
<1>1. CASE UNCHANGED vars
  BY SMTT(40), <1>1 DEF IInv, TypeOK, Listed, OneBuffer, Counted, Referrers, Asked, Locked, Clean,
              vars, cache
<1>2. CASE Next
  BY ZenonT(60), <1>2, HitStep, RecycleStep, AcquireStep, ReadStep, WriteStep, PinStep, UnpinStep,
     ReleaseStep, BrelseStep DEF Next
<1> QED
  BY SMTT(40), <1>1, <1>2

LEMMA Invariance ==
  ASSUME BufCacheConstants
  PROVE  Spec => []IInv
<1>1. Init => IInv
  BY InitIInv
<1>2. IInv /\ [Next]_vars => IInv'
  BY NextIInv
<1> QED
  BY <1>1, <1>2, PTL DEF Spec

-----------------------------------------------------------------------------
(* What bio.c promises *)

LEMMA BusyFinite ==
  ASSUME BufCacheConstants
  PROVE  IsFiniteSet(Busy) /\ Cardinality(Busy) \in Nat
<1>1. Busy \in SUBSET Hand
  BY DEF Busy
<1> QED
  BY <1>1, HandFinite, FS_Subset, FS_CardinalityType

(* Every buffer in use is pinned, or has a process that refers to it. *)
LEMMA Enough ==
  ASSUME BufCacheConstants, IInv, Unused = {}
  PROVE  NBUF <= Cardinality(Busy) + Cardinality(pins)
<1> DEFINE D == {x \in Buf : \E q \in Busy : b[q] = x}
<1>1. /\ TypeOK /\ Listed /\ Counted /\ NBUF \in Nat \ {0}
  BY DEF IInv, BufCacheConstants
<1>2. Buf \subseteq pins \cup D
  <2> SUFFICES ASSUME NEW x \in Buf, x \notin pins PROVE x \in D
    OBVIOUS
  <2>1. PICK k \in 1 .. NBUF : lru[k] = x
    BY ZenonT(60), <1>1 DEF Listed
  <2>2. refcnt[x] # 0
    BY <2>1 DEF Unused
  <2>3. Referrers(x) # {}
    <3>1. refcnt[x] = Cardinality(Referrers(x)) + 0
      BY <1>1 DEF Counted
    <3>2. Cardinality({}) = 0
      BY FS_EmptySet
    <3> QED
      BY SMTT(40), <2>2, <3>1, <3>2
  <2> QED
    BY <2>3 DEF Referrers, Busy
<1>3. IsFiniteSet(Busy) /\ Cardinality(Busy) \in Nat
  BY BusyFinite
<1>4. IsFiniteSet(D) /\ Cardinality(D) <= Cardinality(Busy) /\ Cardinality(D) \in Nat
  <2> DEFINE T == {q \in Busy : b[q] \in D}
             f == [q \in T |-> b[q]]
  <2>1. f \in Surjection(T, D)
    BY DEF Surjection
  <2>2. T \in SUBSET Busy /\ D \in SUBSET Buf
    OBVIOUS
  <2> HIDE DEF T, D
  <2>3. IsFiniteSet(T) /\ Cardinality(T) <= Cardinality(Busy) /\ Cardinality(T) \in Nat
    BY SMTT(40), <1>3, <2>2, FS_Subset, FS_CardinalityType
  <2>4. IsFiniteSet(D) /\ Cardinality(D) <= Cardinality(T)
    BY <2>1, <2>3, FS_Surjection
  <2>5. Cardinality(D) \in Nat /\ Cardinality(Busy) \in Nat
    BY <1>3, <2>4, FS_CardinalityType
  <2> QED
    BY SMTT(40), <2>3, <2>4, <2>5
<1>5. IsFiniteSet(pins) /\ Cardinality(pins) \in Nat
  BY <1>1, PinsFinite DEF TypeOK
<1> HIDE DEF D
<1>6. /\ IsFiniteSet(pins \cup D)
      /\ Cardinality(pins \cup D) <= Cardinality(pins) + Cardinality(D)
  <2>1. /\ IsFiniteSet(pins \cup D)
        /\ Cardinality(pins \cup D) = Cardinality(pins) + Cardinality(D) - Cardinality(pins \cap D)
    BY SMTT(40), <1>4, <1>5, FS_Union
  <2>2. Cardinality(pins \cap D) \in Nat
    BY <1>5, FS_Subset, FS_CardinalityType
  <2> QED
    BY <1>4, <1>5, <2>1, <2>2
<1>7. Cardinality(Buf) = NBUF /\ Cardinality(Buf) <= Cardinality(pins \cup D)
  BY SMTT(40), <1>1, <1>2, <1>6, FS_Interval, FS_Subset DEF Buf
<1>8. Cardinality(pins \cup D) \in Nat
  BY <1>6, FS_CardinalityType
<1> QED
  BY <1>1, <1>3, <1>4, <1>5, <1>6, <1>7, <1>8

(* A block is cached once, counts are exact, and bget() (kernel/bio.c) has  *)
(* a buffer to recycle unless the hands of the processes and the log take   *)
(* up all of them, whatever the number of buffers.                          *)
THEOREM BufCacheSound ==
  ASSUME BufCacheConstants
  PROVE  Spec => []BuffersSound
<1>1. IInv => BuffersSound
  BY Enough DEF IInv, OneBuffer, Counted, BuffersSound
<1> QED
  BY <1>1, Invariance, PTL

(* With two buffers for a process and one for a pinned block, the           *)
(* panic("bget: no buffers") of bget() (kernel/bio.c) is out of reach: a    *)
(* process that asks for a block has a hand free.                           *)
THEOREM BgetNeverPanics ==
  ASSUME BufCacheConstants, NBUF >= 2 * Cardinality(Proc) + MaxPins
  PROVE  Spec => []BgetFinds
<1>1. ASSUME IInv PROVE BgetFinds
  <2> SUFFICES ASSUME NEW p \in Hand, pc[p] = "idle", Unused = {} PROVE FALSE
    BY DEF BgetFinds, Asks
  <2>1. NBUF <= Cardinality(Busy) + Cardinality(pins)
    BY <1>1, Enough
  <2>2. /\ Busy \in SUBSET (Hand \ {p})
        /\ IsFiniteSet(Hand) /\ Cardinality(Hand) = 2 * Cardinality(Proc)
    BY HandFinite DEF Busy
  <2>3. /\ IsFiniteSet(Hand \ {p}) /\ Cardinality(Hand \ {p}) = Cardinality(Hand) - 1
        /\ Cardinality(Hand) \in Nat
    BY <2>2, FS_RemoveElement, FS_CardinalityType
  <2>4. Cardinality(Busy) <= Cardinality(Hand \ {p})
    BY <2>2, <2>3, FS_Subset
  <2>5. /\ Cardinality(pins) <= MaxPins /\ Cardinality(pins) \in Nat
        /\ NBUF \in Nat /\ MaxPins \in Nat /\ Cardinality(Busy) \in Nat
    BY <1>1, PinsFinite, BusyFinite DEF IInv, TypeOK, BufCacheConstants
  <2> QED
    BY <2>1, <2>2, <2>3, <2>4, <2>5
<1> QED
  BY <1>1, Invariance, PTL

-----------------------------------------------------------------------------
(* The cache implements a store of blocks *)

(* What the refinement mapping is in the states of IInv. *)
Represents ==
  /\ Content \in [Block -> Val]
  /\ \A x \in Buf : valid[x] => Content[blockno[x]] = data[x]
  /\ \A n \in Block : (\A x \in Buf : blockno[x] = n => ~valid[x]) => Content[n] = disk[n]
  /\ Holder \in [Block -> Hand \cup {NoProc}]
  /\ \A p \in Hand : pc[p] = "held" => Holder[want[p]] = p
  /\ \A n \in Block :
       (\A p \in Hand : pc[p] = "held" => want[p] # n) => Holder[n] = NoProc

LEMMA Abstraction ==
  ASSUME BufCacheConstants, IInv
  PROVE  Represents
<1> DEFINE c(n) == {x \in Cached(n) : valid[x]}
           h(n) == {p \in Hand : pc[p] = "held" /\ want[p] = n}
<1>1. /\ TypeOK /\ OneBuffer /\ Asked /\ Locked /\ Clean
  BY DEF IInv
<1>2. /\ Content = [n \in Block |-> IF c(n) = {} THEN disk[n] ELSE data[CHOOSE x \in c(n) : TRUE]]
      /\ Holder = [n \in Block |-> IF h(n) = {} THEN NoProc ELSE CHOOSE p \in h(n) : TRUE]
  BY DEF Content, Holder
<1>3. /\ \A n \in Block : c(n) # {} => (CHOOSE x \in c(n) : TRUE) \in c(n)
      /\ \A n \in Block : h(n) # {} => (CHOOSE p \in h(n) : TRUE) \in h(n)
  OBVIOUS
<1>4. /\ \A n \in Block : c(n) \subseteq Buf /\ h(n) \subseteq Hand
  BY DEF Cached
<1>5. ASSUME NEW n \in Block, NEW x \in c(n), NEW y \in c(n) PROVE x = y
  BY <1>1 DEF Cached, OneBuffer, BufCacheConstants
<1>6. ASSUME NEW n \in Block, NEW p \in h(n), NEW q \in h(n) PROVE p = q
  <2>1. pc[p] = "held" /\ pc[q] = "held" /\ p \in Hand /\ q \in Hand /\ want[p] = want[q]
    BY SMTT(40)
  <2>2. b[q] \in Buf /\ blockno[b[q]] = blockno[b[p]] /\ b[p] \in Buf /\ lock[b[p]] = p
    BY SMTT(40), <1>1, <2>1, HeldBuffer
  <2>3. b[q] = b[p]
    BY SMTT(40), <2>1, <2>2, HeldBuffer
  <2> QED
    BY <1>1, <2>1, <2>2, <2>3 DEF Locked
<1>7. ASSUME NEW x \in Buf, valid[x] PROVE blockno[x] \in Block /\ x \in c(blockno[x])
  BY SMTT(40), <1>1, <1>7 DEF Clean, Cached
<1>8. ASSUME NEW p \in Hand, pc[p] = "held" PROVE want[p] \in Block /\ p \in h(want[p])
  BY <1>1, <1>8 DEF Asked
<1>9. \A n \in Block : (\A x \in Buf : blockno[x] = n => ~valid[x]) => c(n) = {}
  BY DEF Cached
<1>10. \A n \in Block : (\A p \in Hand : pc[p] = "held" => want[p] # n) => h(n) = {}
  OBVIOUS
<1> HIDE DEF c, h
<1>11. Content \in [Block -> Val] /\ Holder \in [Block -> Hand \cup {NoProc}]
  <2>1. ASSUME NEW n \in Block
        PROVE  (IF c(n) = {} THEN disk[n] ELSE data[CHOOSE x \in c(n) : TRUE]) \in Val
    BY <1>1, <1>3, <1>4 DEF TypeOK
  <2>2. ASSUME NEW n \in Block
        PROVE  (IF h(n) = {} THEN NoProc ELSE CHOOSE p \in h(n) : TRUE) \in Hand \cup {NoProc}
    BY Zenon, <1>3, <1>4
  <2> QED
    BY SMTT(40), <1>2, <2>1, <2>2
<1>12. ASSUME NEW x \in Buf, valid[x] PROVE Content[blockno[x]] = data[x]
  <2>1. PICK n \in Block : n = blockno[x] /\ x \in c(n)
    BY ZenonT(60), <1>7, <1>12
  <2>2. (CHOOSE y \in c(n) : TRUE) = x /\ c(n) # {}
    BY SMTT(40), <1>3, <1>5, <2>1
  <2> QED
    BY ZenonT(30), <1>2, <2>1, <2>2
<1>13. ASSUME NEW p \in Hand, pc[p] = "held" PROVE Holder[want[p]] = p
  <2>1. PICK n \in Block : n = want[p] /\ p \in h(n)
    BY <1>8, <1>13
  <2>2. (CHOOSE q \in h(n) : TRUE) = p /\ h(n) # {}
    BY SMTT(40), <1>3, <1>6, <2>1
  <2> QED
    BY SMTT(40), <1>2, <2>1, <2>2
<1>14. /\ \A n \in Block : (\A x \in Buf : blockno[x] = n => ~valid[x]) => Content[n] = disk[n]
       /\ \A n \in Block : (\A p \in Hand : pc[p] = "held" => want[p] # n) => Holder[n] = NoProc
  BY SMTT(40), <1>2, <1>9, <1>10
<1> QED
  BY ZenonT(60), <1>11, <1>12, <1>13, <1>14 DEF Represents

(* Nobody takes or gives up a block. *)
LEMMA SameHolder ==
  ASSUME Represents, Represents',
         \A q \in Hand : pc'[q] = "held" <=> pc[q] = "held",
         \A q \in Hand : pc[q] = "held" => want'[q] = want[q]
  PROVE  Holder' = Holder
<1>1. \A n \in Block : Holder'[n] = Holder[n]
  <2> SUFFICES ASSUME NEW n \in Block PROVE Holder'[n] = Holder[n]
    BY SMTT(40)
  <2>1. CASE \E q \in Hand : pc[q] = "held" /\ want[q] = n
    BY SMTT(40), <2>1 DEF Represents
  <2>2. CASE \A q \in Hand : pc[q] = "held" => want[q] # n
    BY SMTT(40), <2>2 DEF Represents
  <2> QED
    BY <2>1, <2>2
<1>2. Holder \in [Block -> Hand \cup {NoProc}] /\ Holder' \in [Block -> Hand \cup {NoProc}]
  BY ZenonT(60) DEF Represents
<1> QED
  BY <1>1, <1>2

(* The content of a block whose valid buffer, if any, keeps its data, and  *)
(* whose home keeps its content.                                           *)
LEMMA SameContent ==
  ASSUME Represents, Represents', NEW n \in Block,
         \A x \in Buf : /\ blockno'[x] = n /\ valid'[x] <=> blockno[x] = n /\ valid[x]
                        /\ blockno[x] = n /\ valid[x] => data'[x] = data[x],
         disk'[n] = disk[n]
  PROVE  Content'[n] = Content[n]
<1>1. CASE \E x \in Buf : blockno[x] = n /\ valid[x]
  <2>1. PICK x \in Buf : blockno[x] = n /\ valid[x]
    BY <1>1
  <2>2. blockno'[x] = n /\ valid'[x] /\ data'[x] = data[x]
    BY ZenonT(30), <2>1
  <2> QED
    BY SMTT(40), <2>1, <2>2 DEF Represents
<1>2. CASE \A x \in Buf : blockno[x] = n => ~valid[x]
  <2>1. \A x \in Buf : blockno'[x] = n => ~valid'[x]
    BY <1>2
  <2> QED
    BY ZenonT(60), <1>2, <2>1 DEF Represents
<1> QED
  BY ZenonT(30), <1>1, <1>2

LEMMA ContentFunctions ==
  ASSUME Represents, Represents', NEW n \in Block, NEW v,
         \A m \in Block \ {n} : Content'[m] = Content[m], Content'[n] = v
  PROVE  Content' = [Content EXCEPT ![n] = v]
<1>1. Content \in [Block -> Val] /\ Content' \in [Block -> Val]
  BY DEF Represents
<1> QED
  BY SMTT(40), <1>1

LEMMA HolderFunctions ==
  ASSUME Represents, Represents', NEW n \in Block, NEW v,
         \A m \in Block \ {n} : Holder'[m] = Holder[m], Holder'[n] = v
  PROVE  Holder' = [Holder EXCEPT ![n] = v]
<1>1. Holder \in [Block -> Hand \cup {NoProc}] /\ Holder' \in [Block -> Hand \cup {NoProc}]
  BY ZenonT(60) DEF Represents
<1> QED
  BY ZenonT(60), <1>1

LEMMA RecycleStutters ==
  ASSUME BufCacheConstants, IInv, Represents, Represents',
         NEW p \in Hand, NEW n \in Block, bget_recycle(p, n)
  PROVE  Content' = Content /\ Holder' = Holder
<1>1. PICK x \in Buf : /\ refcnt[x] = 0 /\ x \notin pins
                       /\ blockno' = [blockno EXCEPT ![x] = n]
                       /\ valid' = [valid EXCEPT ![x] = FALSE]
  BY RecycleStep
<1>2. /\ pc[p] = "idle" /\ pc' = [pc EXCEPT ![p] = "lock"]
      /\ want' = [want EXCEPT ![p] = n] /\ disk' = disk /\ data' = data
      /\ \A y \in Buf : blockno[y] # n
  BY DEF bget_recycle, Goto, Cached, Asks
<1>3. TypeOK /\ OneBuffer /\ Clean
  BY DEF IInv
<1>4. /\ blockno'[x] = n /\ ~valid'[x]
      /\ \A y \in Buf \ {x} : blockno'[y] = blockno[y] /\ valid'[y] = valid[y]
      /\ pc'[p] = "lock"
      /\ \A q \in Hand \ {p} : pc'[q] = pc[q] /\ want'[q] = want[q]
  BY ZenonT(30), <1>1, <1>2, <1>3 DEF TypeOK
<1>5. Holder' = Holder
  BY ZenonT(40), <1>2, <1>4, SameHolder
<1>6. ASSUME NEW m \in Block PROVE Content'[m] = Content[m]
  <2>1. CASE blockno[x] = m /\ valid[x]
    <3>1. Content[m] = disk[m]
      BY ZenonT(30), <1>1, <1>3, <2>1 DEF Clean, Represents
    <3>2. m # n /\ \A y \in Buf \ {x} : blockno[y] # m
      BY ZenonT(60), <1>2, <1>3, <2>1 DEF OneBuffer, BufCacheConstants
    <3>3. \A y \in Buf : blockno'[y] = m => ~valid'[y]
      BY ZenonT(60), <1>4, <3>2
    <3> QED
      BY Zenon, <1>2, <3>1, <3>3 DEF Represents
  <2>2. CASE ~(blockno[x] = m /\ valid[x])
    BY ZenonT(60), <1>2, <1>4, <2>2, SameContent
  <2> QED
    BY Zenon, <2>1, <2>2
<1>7. Content' = Content
  <2>1. Content \in [Block -> Val] /\ Content' \in [Block -> Val]
    BY Zenon DEF Represents
  <2> QED
    BY SMTT(40), <1>6, <2>1
<1> QED
  BY <1>5, <1>7

(* A process gets the block when it has the buffer and the buffer is valid. *)
LEMMA NobodyHolds ==
  ASSUME BufCacheConstants, IInv, Represents, NEW p \in Hand, pc[p] \in {"lock", "read"},
         pc[p] = "lock" => lock[b[p]] = NoProc
  PROVE  /\ want[p] \in Block /\ Holder[want[p]] = NoProc
         /\ \A q \in Hand : pc[q] = "held" => want[q] # want[p]
<1>1. want[p] \in Block /\ b[p] \in Buf /\ blockno[b[p]] = want[p]
  BY ZenonT(40) DEF IInv, Asked, TypeOK
<1>2. ASSUME NEW q \in Hand, pc[q] = "held", want[q] = want[p] PROVE FALSE
  <2>1. /\ blockno[b[q]] = blockno[b[p]] /\ lock[b[q]] = q
        /\ \A y \in Buf \ {b[q]} : blockno[y] # blockno[b[q]]
    BY SMTT(40), <1>1, <1>2, HeldBuffer
  <2>2. b[q] = b[p] /\ q # p
    BY SMTT(40), <1>1, <1>2, <2>1
  <2> QED
    BY SMTT(40), <1>1, <1>2, <2>1, <2>2 DEF IInv, Locked, BufCacheConstants
<1> QED
  BY ZenonT(60), <1>1, <1>2 DEF Represents

LEMMA HeldNow ==
  ASSUME BufCacheConstants, IInv, Represents, Represents',
         NEW p \in Hand, pc[p] \in {"lock", "read"}, want' = want,
         pc[p] = "lock" => lock[b[p]] = NoProc,
         pc' = [pc EXCEPT ![p] = "held"]
  PROVE  /\ want[p] \in Block /\ Holder[want[p]] = NoProc
         /\ Holder' = [Holder EXCEPT ![want[p]] = p]
<1>1. PICK n \in Block : /\ n = want[p] /\ Holder[n] = NoProc
                         /\ \A q \in Hand : pc[q] = "held" => want[q] # n
  BY NobodyHolds
<1>2. pc'[p] = "held" /\ \A q \in Hand \ {p} : pc'[q] = pc[q]
  BY ZenonT(30) DEF IInv, TypeOK
<1>3. Holder'[n] = p
  BY ZenonT(60), <1>1, <1>2 DEF Represents
<1>4. ASSUME NEW m \in Block \ {n} PROVE Holder'[m] = Holder[m]
  <2>1. CASE \E q \in Hand : pc[q] = "held" /\ want[q] = m
    <3>1. PICK q \in Hand : pc[q] = "held" /\ want[q] = m
      BY <2>1
    <3>2. pc'[q] = "held"
      BY ZenonT(30), <1>2, <3>1
    <3> QED
      BY ZenonT(60), <3>1, <3>2 DEF Represents
  <2>2. CASE \A q \in Hand : pc[q] = "held" => want[q] # m
    <3>1. \A q \in Hand : pc'[q] = "held" => want'[q] # m
      BY Zenon, <1>1, <1>2, <1>4, <2>2
    <3> QED
      BY ZenonT(60), <2>2, <3>1 DEF Represents
  <2> QED
    BY ZenonT(30), <2>1, <2>2
<1> QED
  BY SMTT(40), <1>1, <1>3, <1>4, HolderFunctions

(* Steps of the cache are steps of the store. *)
LEMMA AcquireLocks ==
  ASSUME BufCacheConstants, IInv, Represents, Represents', NEW p \in Hand, acquiresleep(p)
  PROVE  [Store!Next]_<<Content, Holder>>
<1>1. /\ pc[p] = "lock" /\ lock[b[p]] = NoProc
      /\ UNCHANGED <<blockno, valid, data, disk, want>>
  BY ZenonT(30) DEF acquiresleep
<1>2. Content' = Content
  <2>1. \A n \in Block : Content'[n] = Content[n]
    BY Zenon, <1>1, SameContent
  <2>2. Content \in [Block -> Val] /\ Content' \in [Block -> Val]
    BY Zenon DEF Represents
  <2> QED
    BY SMTT(40), <2>1, <2>2
<1>3. CASE valid[b[p]]
  <2>1. pc' = [pc EXCEPT ![p] = "held"]
    BY <1>3 DEF acquiresleep, Goto
  <2>2. Store!Lock(p, want[p]) /\ want[p] \in Block
    BY ZenonT(30), <1>1, <1>2, <2>1, HeldNow DEF Store!Lock
  <2> QED
    BY SMTT(40), <2>2 DEF Store!Next
<1>4. CASE ~valid[b[p]]
  <2>1. pc' = [pc EXCEPT ![p] = "read"]
    BY SMTT(40), <1>4 DEF acquiresleep, Goto
  <2>2. pc'[p] = "read" /\ \A q \in Hand \ {p} : pc'[q] = pc[q]
    BY ZenonT(60), <2>1 DEF IInv, TypeOK
  <2>3. Holder' = Holder
    BY ZenonT(60), <1>1, <2>2, SameHolder
  <2> QED
    BY SMTT(40), <1>2, <2>3
<1> QED
  BY Zenon, <1>3, <1>4

LEMMA ReadLocks ==
  ASSUME BufCacheConstants, IInv, Represents, Represents', NEW p \in Hand, bread(p)
  PROVE  [Store!Next]_<<Content, Holder>>
<1>1. /\ pc[p] = "read" /\ pc' = [pc EXCEPT ![p] = "held"]
      /\ data' = [data EXCEPT ![b[p]] = disk[blockno[b[p]]]]
      /\ valid' = [valid EXCEPT ![b[p]] = TRUE]
      /\ UNCHANGED <<blockno, disk, want>>
  BY SMTT(40) DEF bread, Goto
<1>2. PICK x \in Buf : /\ x = b[p] /\ blockno[x] \in Block /\ ~valid[x]
                       /\ \A y \in Buf \ {x} : blockno[y] # blockno[x]
  BY ZenonT(60), <1>1, HeldBuffer DEF IInv, Clean
<1>3. /\ valid'[x] /\ data'[x] = disk[blockno[x]]
      /\ \A y \in Buf \ {x} : valid'[y] = valid[y] /\ data'[y] = data[y]
  BY Zenon, <1>1, <1>2 DEF IInv, TypeOK
<1>4. ASSUME NEW n \in Block PROVE Content'[n] = Content[n]
  <2>1. CASE n = blockno[x]
    <3>1. Content[n] = disk[n]
      BY ZenonT(30), <1>2, <2>1 DEF Represents
    <3>2. Content'[n] = data'[x]
      BY ZenonT(60), <1>1, <1>3, <2>1 DEF Represents
    <3> QED
      BY Zenon, <1>3, <2>1, <3>1, <3>2
  <2>2. CASE n # blockno[x]
    BY ZenonT(40), <1>1, <1>3, <2>2, SameContent
  <2> QED
    BY Zenon, <2>1, <2>2
<1>5. Content' = Content
  <2>1. Content \in [Block -> Val] /\ Content' \in [Block -> Val]
    BY Zenon DEF Represents
  <2> QED
    BY SMTT(40), <1>4, <2>1
<1>6. Store!Lock(p, want[p]) /\ want[p] \in Block
  BY ZenonT(30), <1>1, <1>5, HeldNow DEF Store!Lock
<1> QED
  BY SMTT(40), <1>6 DEF Store!Next

LEMMA HolderChanges ==
  ASSUME BufCacheConstants, IInv, Represents, Represents', NEW p \in Hand, NEW v \in Val,
         pc[p] = "held", UNCHANGED <<blockno, valid, pc, b, want>>,
         data' = [data EXCEPT ![b[p]] = v],
         \A n \in Block \ {blockno[b[p]]} : disk'[n] = disk[n]
  PROVE  [Store!Next]_<<Content, Holder>>
<1>1. PICK x \in Buf : /\ x = b[p] /\ blockno[x] \in Block /\ blockno[x] = want[p] /\ valid[x]
  BY ZenonT(60), HeldBuffer DEF IInv, Clean
<1>2. data'[x] = v /\ \A y \in Buf \ {x} : data'[y] = data[y]
  BY <1>1 DEF IInv, TypeOK
<1>3. PICK n \in Block : n = blockno[x]
  BY Zenon, <1>1
<1>4. Content'[n] = v
  BY ZenonT(120), <1>1, <1>2, <1>3 DEF Represents
<1>5. \A m \in Block \ {n} : Content'[m] = Content[m]
  BY ZenonT(40), <1>1, <1>2, <1>3, SameContent
<1>6. Content' = [Content EXCEPT ![n] = v]
  BY ZenonT(60), <1>4, <1>5, ContentFunctions
<1>7. Holder' = Holder
  BY ZenonT(60), SameHolder
<1>8. Holder[n] = p
  BY SMTT(40), <1>1, <1>3 DEF Represents
<1>9. Store!Change(p, n, v)
  BY ZenonT(60), <1>6, <1>7, <1>8 DEF Store!Change
<1> QED
  BY ZenonT(60), <1>9 DEF Store!Next

LEMMA UnpinStutters ==
  ASSUME BufCacheConstants, IInv, Represents, Represents', NEW p \in Hand, bunpin(p)
  PROVE  Content' = Content /\ Holder' = Holder
<1>1. /\ pc[p] = "held"
      /\ disk' = [disk EXCEPT ![blockno[b[p]]] = data[b[p]]]
      /\ UNCHANGED <<blockno, valid, data, pc, want>>
  BY Zenon DEF bunpin
<1>2. PICK x \in Buf : x = b[p] /\ blockno[x] \in Block /\ valid[x]
  BY Zenon, <1>1, HeldBuffer DEF IInv, Clean
<1>3. \A n \in Block \ {blockno[x]} : disk'[n] = disk[n]
  BY Zenon, <1>1, <1>2 DEF IInv, TypeOK
<1>4. ASSUME NEW n \in Block PROVE Content'[n] = Content[n]
  <2>1. CASE n = blockno[x]
    <3>1. Content[n] = data[x]
      BY ZenonT(60), <1>2, <2>1 DEF Represents
    <3>2. blockno'[x] = n /\ valid'[x] /\ data'[x] = data[x]
      BY Zenon, <1>1, <1>2, <2>1
    <3>3. Content'[n] = data'[x]
      BY ZenonT(60), <3>2 DEF Represents
    <3> QED
      BY Zenon, <3>1, <3>2, <3>3
  <2>2. CASE n # blockno[x]
    BY ZenonT(60), <1>1, <1>3, <2>2, SameContent
  <2> QED
    BY Zenon, <2>1, <2>2
<1>5. Content' = Content
  <2>1. Content \in [Block -> Val] /\ Content' \in [Block -> Val]
    BY Zenon DEF Represents
  <2> QED
    BY SMTT(40), <1>4, <2>1
<1>6. Holder' = Holder
  BY ZenonT(60), <1>1, SameHolder
<1> QED
  BY Zenon, <1>5, <1>6

LEMMA ReleaseUnlocks ==
  ASSUME BufCacheConstants, IInv, Represents, Represents', NEW p \in Hand, releasesleep(p)
  PROVE  [Store!Next]_<<Content, Holder>>
<1>1. /\ pc[p] = "held" /\ pc' = [pc EXCEPT ![p] = "unref"]
      /\ UNCHANGED <<blockno, valid, data, disk, b, want>>
  BY DEF releasesleep, Goto
<1>2. Content' = Content
  BY SMTT(40), <1>1 DEF Content, Cached
<1>3. PICK n \in Block : n = want[p] /\ Holder[n] = p
  BY ZenonT(40), <1>1, HeldBuffer DEF Represents
<1>4. pc'[p] = "unref" /\ \A q \in Hand \ {p} : pc'[q] = pc[q]
  BY <1>1 DEF IInv, TypeOK
<1>5. \A q \in Hand \ {p} : pc[q] = "held" => want[q] # n
  BY ZenonT(60), <1>3 DEF Represents
<1>6. Holder'[n] = NoProc
  <2>1. \A q \in Hand : pc'[q] = "held" => want'[q] # n
    BY <1>1, <1>4, <1>5
  <2> QED
    BY ZenonT(60), <2>1 DEF Represents
<1>7. ASSUME NEW m \in Block \ {n} PROVE Holder'[m] = Holder[m]
  <2>1. CASE \E q \in Hand : pc[q] = "held" /\ want[q] = m
    <3>1. PICK q \in Hand : pc[q] = "held" /\ want[q] = m
      BY Zenon, <2>1
    <3>2. pc'[q] = "held"
      BY Zenon, <1>3, <1>4, <1>7, <3>1
    <3> QED
      BY ZenonT(40), <1>1, <3>1, <3>2 DEF Represents
  <2>2. CASE \A q \in Hand : pc[q] = "held" => want[q] # m
    <3>1. \A q \in Hand : pc'[q] = "held" => want'[q] # m
      BY SMTT(40), <1>1, <1>4, <2>2
    <3> QED
      BY ZenonT(40), <2>2, <3>1 DEF Represents
  <2> QED
    BY ZenonT(30), <2>1, <2>2
<1>8. Holder' = [Holder EXCEPT ![n] = NoProc]
  BY <1>6, <1>7, HolderFunctions
<1>9. Store!Unlock(p, n)
  BY <1>2, <1>3, <1>8 DEF Store!Unlock
<1> QED
  BY <1>9 DEF Store!Next

LEMMA RestStutters ==
  ASSUME BufCacheConstants, IInv, Represents, Represents', NEW p \in Hand,
         brelse(p) \/ \E n \in Block : bget_hit(p, n)
  PROVE  Content' = Content /\ Holder' = Holder
<1>1. UNCHANGED <<blockno, valid, data, disk>>
  BY ZenonT(30) DEF brelse, bget_hit
<1>2. Content' = Content
  BY SMTT(40), <1>1 DEF Content, Cached
<1>3. /\ \A q \in Hand \ {p} : pc'[q] = pc[q] /\ want'[q] = want[q]
      /\ pc[p] # "held" /\ pc'[p] # "held"
  BY ZenonT(60) DEF brelse, bget_hit, Goto, Asks, IInv, TypeOK
<1>4. Holder' = Holder
  BY ZenonT(40), <1>3, SameHolder
<1> QED
  BY <1>2, <1>4

LEMMA NextImplements ==
  ASSUME BufCacheConstants, IInv, Represents, Represents', [Next]_vars
  PROVE  [Store!Next]_<<Content, Holder>>
<1>1. CASE UNCHANGED vars
  <2>1. UNCHANGED <<blockno, valid, data, disk, pc, want>>
    BY SMTT(40), <1>1 DEF vars, cache
  <2>2. Content' = Content /\ Holder' = Holder
    BY SMTT(40), <2>1 DEF Content, Cached, Holder
  <2> QED
    BY <2>2
<1>2. CASE Next
  <2>1. PICK p \in Hand :
          \/ \E n \in Block : bget_hit(p, n) \/ bget_recycle(p, n)
          \/ acquiresleep(p) \/ bread(p)
          \/ \E v \in Val : bwrite(p, v) \/ bpin(p, v)
          \/ bunpin(p) \/ releasesleep(p) \/ brelse(p)
    BY <1>2 DEF Next
  <2>2. ASSUME NEW v \in Val, bwrite(p, v) PROVE [Store!Next]_<<Content, Holder>>
    <3>1. /\ pc[p] = "held" /\ UNCHANGED <<blockno, valid, pc, b, want>>
          /\ data' = [data EXCEPT ![b[p]] = v]
          /\ \A n \in Block \ {blockno[b[p]]} : disk'[n] = disk[n]
      BY SMTT(40), <2>2 DEF bwrite, IInv, TypeOK
    <3> QED
      BY ZenonT(40), <3>1, HolderChanges
  <2>3. ASSUME NEW v \in Val, bpin(p, v) PROVE [Store!Next]_<<Content, Holder>>
    <3>1. /\ pc[p] = "held" /\ UNCHANGED <<blockno, valid, pc, b, want>>
          /\ data' = [data EXCEPT ![b[p]] = v]
          /\ \A n \in Block \ {blockno[b[p]]} : disk'[n] = disk[n]
      BY <2>3 DEF bpin
    <3> QED
      BY ZenonT(40), <3>1, HolderChanges
  <2>4. CASE acquiresleep(p) \/ bread(p) \/ releasesleep(p)
    BY SMTT(40), <2>4, AcquireLocks, ReadLocks, ReleaseUnlocks
  <2>5. CASE \/ bunpin(p) \/ brelse(p)
             \/ \E n \in Block : bget_hit(p, n) \/ bget_recycle(p, n)
    BY SMTT(40), <2>5, UnpinStutters, RecycleStutters, RestStutters
  <2> QED
    BY SMTT(40), <2>1, <2>2, <2>3, <2>4, <2>5
<1> QED
  BY <1>1, <1>2

(* The cache implements a store with one content per block, which only the *)
(* process that has the block locked changes, although bget(), bread(),    *)
(* bwrite(), bpin(), bunpin() and brelse() (kernel/bio.c) keep it in       *)
(* buffers that come and go.                                               *)
THEOREM CacheIsBlockStore ==
  ASSUME BufCacheConstants
  PROVE  Spec => IsBlockStore
<1>1. Init => Store!Init
  <2> SUFFICES ASSUME Init PROVE Store!Init
    OBVIOUS
  <2>1. Represents
    BY InitIInv, Abstraction
  <2>2. \A p \in Hand : pc[p] # "held"
    BY ZenonT(30) DEF Init
  <2>3. Content \in [Block -> Val] /\ Holder = [n \in Block |-> NoProc]
    BY <2>1, <2>2 DEF Represents
  <2> QED
    BY <2>3 DEF Store!Init
<1>2. IInv => Represents
  BY Abstraction
<1>3. IInv /\ Represents /\ Represents' /\ [Next]_vars => [Store!Next]_<<Content, Holder>>
  BY NextImplements
<1>4. Spec => []IInv
  BY Invariance
<1> QED
  BY <1>1, <1>2, <1>3, <1>4, PTL DEF Spec, IsBlockStore, Store!Spec

=============================================================================
