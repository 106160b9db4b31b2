----------------------------- MODULE VirtioProofs ---------------------------
(***************************************************************************)
(* Proofs about the disk driver, for any number of processes and of        *)
(* descriptors and every width of the ring indices: descriptors, buffers   *)
(* and completions belong to one waiting process each.                     *)
(***************************************************************************)
EXTENDS VirtioDisk, FiniteSetTheorems, WellFoundedInduction, TLAPS

(* Arithmetic of the rings *)

(* Quotient and remainder, as the provers know them. *)
LEMMA DivMod ==
  ASSUME NEW m \in Nat \ {0}, NEW a \in Nat
  PROVE  /\ a \div m \in Nat
         /\ a = m * (a \div m) + (a % m)
         /\ a % m \in 0 .. m - 1
  <1>1. a % m \in 0 .. m - 1
    OBVIOUS
  <1>2. a \div m \in Nat
    OBVIOUS
  <1>3. a = m * (a \div m) + (a % m)
    OBVIOUS
  <1> QED
    BY <1>1, <1>2, <1>3

(* Multiples of m are at least m apart. *)
LEMMA Multiples ==
  ASSUME NEW m \in Nat \ {0}, NEW k \in Int, NEW j \in Int
  PROVE  /\ k > 0 => m * k >= m
         /\ k < 0 => m * k <= -m
         /\ m * (k + j) = m * k + m * j
         /\ m * (k - j) = m * k - m * j
         /\ m * 0 = 0
  OBVIOUS

(* The remainder is the only one. *)
LEMMA ModUnique ==
  ASSUME NEW m \in Nat \ {0}, NEW a \in Nat, NEW q \in Int, NEW r \in 0 .. m - 1,
         a = m * q + r
  PROVE  a % m = r
  <1> DEFINE d == a \div m
             k == q - d
  <1>1. d \in Nat /\ a = m * d + (a % m) /\ a % m \in 0 .. m - 1
    BY Zenon, DivMod
  <1>2. k \in Int /\ m * k = m * q - m * d
    BY <1>1, Multiples
  <1>3. m * q \in Int /\ m * d \in Int
    BY <1>1
  <1> DEFINE mq == m * q
             md == m * d
             mk == m * k
             rest == a % m
  <1>4. mk = rest - r
    <2>1. /\ a = mq + r /\ a = md + rest /\ mk = mq - md /\ rest \in 0 .. m - 1
          /\ mq \in Int /\ md \in Int
      BY <1>1, <1>2, <1>3
    <2> HIDE DEF mq, md, mk, rest
    <2> QED
      BY <2>1
  <1> HIDE DEF d, k
  <1>5. k = 0
    <2>1. ~(k > 0)
      BY <1>1, <1>2, <1>4, Multiples
    <2>2. ~(k < 0)
      BY <1>1, <1>2, <1>4, Multiples
    <2> QED
      BY <1>2, <2>1, <2>2
  <1> QED
    BY <1>1, <1>4, <1>5, Multiples

(* Small remainders, without the quotient. *)
LEMMA ModNear ==
  ASSUME NEW m \in Nat \ {0}, NEW a \in 0 .. 2 * m - 1
  PROVE  a % m = IF a < m THEN a ELSE a - m
OBVIOUS

(* The distance from counter r to counter w, both modulo U. *)
Distance(r, w, U) == (w + U - r) % U

LEMMA DistanceIs ==
  ASSUME NEW U \in Nat \ {0}, NEW r \in 0 .. U - 1, NEW w \in 0 .. U - 1
  PROVE  Distance(r, w, U) = IF r <= w THEN w - r ELSE w + U - r
<1>1. PICK a \in 0 .. 2 * U - 1 : a = w + U - r
  OBVIOUS
<1>2. a % U = IF a < U THEN a ELSE a - U
  BY Zenon, ModNear
<1> QED
  BY <1>1, <1>2 DEF Distance

LEMMA DistanceRange ==
  ASSUME NEW U \in Nat \ {0}, NEW r \in 0 .. U - 1, NEW w \in 0 .. U - 1
  PROVE  Distance(r, w, U) \in 0 .. U - 1 /\ (r = w <=> Distance(r, w, U) = 0)
BY DistanceIs

(* A distance tells two counters apart. *)
LEMMA DistanceTells ==
  ASSUME NEW U \in Nat \ {0}, NEW r \in 0 .. U - 1, NEW w \in 0 .. U - 1,
         NEW v \in 0 .. U - 1, Distance(r, w, U) = Distance(r, v, U)
  PROVE  w = v
<1>1. /\ Distance(r, w, U) = IF r <= w THEN w - r ELSE w + U - r
      /\ Distance(r, v, U) = IF r <= v THEN v - r ELSE v + U - r
  BY DistanceIs
<1>2. (IF r <= w THEN w - r ELSE w + U - r) = (IF r <= v THEN v - r ELSE v + U - r)
  BY Zenon, <1>1
<1> QED
  BY <1>2

LEMMA Successor ==
  ASSUME NEW U \in Nat \ {0}, NEW c \in 0 .. U - 1
  PROVE  /\ (c + 1) % U = IF c = U - 1 THEN 0 ELSE c + 1
         /\ (c + 1) % U \in 0 .. U - 1
<1>1. PICK a \in 0 .. 2 * U - 1 : a = c + 1
  OBVIOUS
<1>2. a % U = IF a < U THEN a ELSE a - U
  BY Zenon, ModNear
<1> QED
  BY <1>1, <1>2

(* What a step of either counter does to the distance. *)
LEMMA DistanceGrows ==
  ASSUME NEW U \in Nat \ {0}, NEW r \in 0 .. U - 1, NEW w \in 0 .. U - 1,
         Distance(r, w, U) < U - 1
  PROVE  Distance(r, (w + 1) % U, U) = Distance(r, w, U) + 1
<1>1. PICK v \in 0 .. U - 1 : v = (w + 1) % U /\ v = IF w = U - 1 THEN 0 ELSE w + 1
  BY Successor
<1>2. /\ Distance(r, w, U) = IF r <= w THEN w - r ELSE w + U - r
      /\ Distance(r, v, U) = IF r <= v THEN v - r ELSE v + U - r
  BY DistanceIs
<1>3. Distance(r, v, U) = Distance(r, w, U) + 1
  BY <1>1, <1>2
<1> QED
  BY <1>1, <1>3

LEMMA DistanceShrinks ==
  ASSUME NEW U \in Nat \ {0}, NEW r \in 0 .. U - 1, NEW w \in 0 .. U - 1
  PROVE  /\ r # w => Distance((r + 1) % U, w, U) = Distance(r, w, U) - 1
         /\ r = w => Distance((r + 1) % U, w, U) = U - 1
<1>1. PICK v \in 0 .. U - 1 : v = (r + 1) % U /\ v = IF r = U - 1 THEN 0 ELSE r + 1
  BY Successor
<1>2. /\ Distance(r, w, U) = IF r <= w THEN w - r ELSE w + U - r
      /\ Distance(v, w, U) = IF v <= w THEN w - v ELSE w + U - v
  BY DistanceIs
<1>3. /\ r # w => Distance(v, w, U) = Distance(r, w, U) - 1
      /\ r = w => Distance(v, w, U) = U - 1
  BY <1>1, <1>2
<1> QED
  BY <1>1, <1>3

(* 8 divides 2^16: the slot of the next index is the next slot. *)
LEMMA NextSlot ==
  ASSUME VirtioConstants, NEW x \in 0 .. UINT16 - 1
  PROVE  Inc(x) % NUM = ((x % NUM) + 1) % NUM
<1>1. NUM \in Nat \ {0} /\ UINT16 \in Nat \ {0} /\ UINT16 % NUM = 0 /\ NUM > 1
  BY DEF VirtioConstants
<1> DEFINE r == x % NUM
           q == x \div NUM
<1>2. x \in Nat /\ x + 1 \in Nat /\ q \in Nat /\ x = NUM * q + r /\ r \in 0 .. NUM - 1
  <2>1. x \in Nat /\ x + 1 \in Nat
    BY <1>1
  <2>2. q \in Nat /\ x = NUM * q + r /\ r \in 0 .. NUM - 1
    BY Zenon, <1>1, <2>1, DivMod
  <2> QED
    BY <2>1, <2>2
<1> HIDE DEF r, q
<1>3. (x + 1) % NUM = (r + 1) % NUM
  <2>1. CASE r < NUM - 1
    <3>1. x + 1 = NUM * q + (r + 1) /\ r + 1 \in 0 .. NUM - 1 /\ q \in Int
      BY <1>1, <1>2, <2>1
    <3>2. (x + 1) % NUM = r + 1
      BY <1>1, <1>2, <3>1, ModUnique
    <3>3. (r + 1) % NUM = r + 1
      <4>1. (r + 1) % NUM = IF r = NUM - 1 THEN 0 ELSE r + 1
        BY <1>1, <1>2, Successor
      <4> QED
        BY <1>1, <1>2, <2>1, <4>1
    <3> QED
      BY <3>2, <3>3
  <2>2. CASE r = NUM - 1
    <3>1. NUM * (q + 1) = NUM * q + NUM * 1 /\ NUM * 1 = NUM
      BY <1>1, <1>2, Multiples
    <3>2. x + 1 = NUM * (q + 1) + 0 /\ q + 1 \in Int /\ 0 \in 0 .. NUM - 1
      BY <1>1, <1>2, <2>2, <3>1
    <3>3. (x + 1) % NUM = 0
      BY <1>1, <1>2, <3>2, ModUnique
    <3>4. (r + 1) % NUM = 0
      BY <1>1, <1>2, <2>2, Successor
    <3> QED
      BY <3>3, <3>4
  <2> QED
    BY <1>1, <1>2, <2>1, <2>2
<1>4. Inc(x) % NUM = (x + 1) % NUM
  <2>1. CASE x + 1 < UINT16
    BY <1>1, <2>1, Successor DEF Inc
  <2>2. CASE x + 1 = UINT16
    <3>1. Inc(x) = 0
      BY <1>1, <2>2, Successor DEF Inc
    <3>2. 0 % NUM = 0
      BY <1>1, ModNear
    <3> QED
      BY <1>1, <2>2, <3>1, <3>2
  <2> QED
    BY <1>1, <2>1, <2>2
<1> QED
  BY <1>3, <1>4 DEF r

-----------------------------------------------------------------------------
(* The inductive invariant *)

TypeOK ==
  /\ free \subseteq Desc
  /\ next \in [Desc -> Desc \cup {None}]
  /\ addr \in [Desc -> Proc \cup {NoProc}]
  /\ info \in [Desc -> Proc \cup {NoProc}]
  /\ avail_ring \in [Desc -> Desc \cup {None}]
  /\ used_ring \in [Desc -> Desc \cup {None}]
  /\ avail_idx \in 0 .. UINT16 - 1
  /\ used_idx_dev \in 0 .. UINT16 - 1
  /\ used_idx \in 0 .. UINT16 - 1
  /\ seen \in 0 .. UINT16 - 1
  /\ inflight \subseteq Desc
  /\ head \in [Proc -> Desc \cup {None}]
  /\ pc \in [Proc -> {"idle", "alloc", "wait"}]

(* The entries of ring r from index lo to index hi are those not yet read; *)
(* no two are the same.                                                    *)
Ring(r, lo, hi) ==
  /\ Distance(lo % NUM, hi % NUM, NUM) = Distance(lo, hi, UINT16)
  /\ \A s \in Desc : r[s] # None <=> Distance(lo % NUM, s, NUM) < Distance(lo, hi, UINT16)
  /\ \A s, t \in Desc : r[s] = r[t] /\ r[s] # None => s = t

RingInv ==
  /\ Ring(avail_ring, seen, avail_idx)
  /\ Ring(used_ring, used_idx, used_idx_dev)
  /\ \A s \in Desc : avail_ring[s] \notin inflight

(* A waiting process has three descriptors in a row; the others are free.  *)
ChainInv ==
  /\ \A p \in Proc : pc[p] = "wait" =>
       /\ head[p] \in Desc /\ next[head[p]] \in Desc /\ next[next[head[p]]] \in Desc
       /\ head[p] # next[head[p]]
       /\ head[p] # next[next[head[p]]]
       /\ next[head[p]] # next[next[head[p]]]
       /\ Chain(head[p]) \cap free = {}
       /\ addr[head[p]] = p /\ info[head[p]] = p
  /\ \A p, q \in Proc : pc[p] = "wait" /\ pc[q] = "wait" /\ p # q
                          => Chain(head[p]) \cap Chain(head[q]) = {}
  /\ \A d \in Desc \ free : \E p \in Proc : pc[p] = "wait" /\ d \in Chain(head[p])

(* d is the first descriptor of a request that has not been acknowledged.  *)
Pending(d) ==
  /\ addr[d] \in Proc
  /\ pc[addr[d]] = "wait"
  /\ head[addr[d]] = d
  /\ addr[d] \in busy

(* A request is in the avail ring, then in the device, then in the used    *)
(* ring; from there on its data has been transferred.                      *)
RequestInv ==
  /\ \A d \in Desc : d \in inflight \/ (\E s \in Desc : avail_ring[s] = d)
                       => Pending(d) /\ addr[d] \notin served
  /\ \A d \in Desc : (\E s \in Desc : used_ring[s] = d) => Pending(d) /\ addr[d] \in served
  /\ \A p \in Proc : p \in served => pc[p] = "wait"
  /\ \A p \in Proc : pc[p] = "wait" /\ p \notin busy => p \in served

IInv == TypeOK /\ RingInv /\ ChainInv /\ RequestInv

(* A request is acknowledged only if it has succeeded. *)
StatusInv == \A p \in Proc : pc[p] = "wait" /\ p \notin busy => head[p] \in status

-----------------------------------------------------------------------------
(* Rings *)

LEMMA Sizes ==
  ASSUME VirtioConstants
  PROVE  /\ NUM \in Nat \ {0, 1, 2} /\ UINT16 \in Nat \ {0} /\ NUM <= UINT16
         /\ Desc = 0 .. NUM - 1 /\ None \notin Desc
         /\ \A x \in 0 .. UINT16 - 1 : x % NUM \in Desc
         /\ \A x \in 0 .. UINT16 - 1 : Inc(x) \in 0 .. UINT16 - 1
<1>1. NUM \in Nat \ {0, 1, 2} /\ UINT16 \in Nat \ {0} /\ UINT16 % NUM = 0
  BY DEF VirtioConstants
<1>2. NUM <= UINT16
  <2> SUFFICES ASSUME UINT16 < NUM PROVE FALSE
    BY <1>1
  <2>1. UINT16 \in 0 .. 2 * NUM - 1
    BY <1>1
  <2>2. UINT16 % NUM = UINT16
    BY <1>1, <2>1, ModNear
  <2> QED
    BY <1>1, <2>2
<1>3. Desc = 0 .. NUM - 1 /\ None \notin Desc
  BY <1>1 DEF Desc, None
<1>4. ASSUME NEW x \in 0 .. UINT16 - 1
      PROVE  x % NUM \in Desc /\ Inc(x) \in 0 .. UINT16 - 1
  <2>1. x \in Nat /\ x + 1 \in Nat /\ NUM \in Nat \ {0}
    BY <1>1
  <2> QED
    BY Zenon, <1>1, <1>3, <2>1, DivMod DEF Inc
<1> QED
  BY Zenon, <1>1, <1>2, <1>3, <1>4

(* An entry is added where the ring is empty, as long as one slot is left. *)
LEMMA Push ==
  ASSUME VirtioConstants, NEW r \in [Desc -> Desc \cup {None}],
         NEW lo \in 0 .. UINT16 - 1, NEW hi \in 0 .. UINT16 - 1, Ring(r, lo, hi),
         Distance(lo, hi, UINT16) + 1 < NUM,
         NEW d \in Desc, \A s \in Desc : r[s] # d
  PROVE  Ring([r EXCEPT ![hi % NUM] = d], lo, Inc(hi)) /\ r[hi % NUM] = None
<1> DEFINE n == Distance(lo, hi, UINT16)
           a == lo % NUM
           c == hi % NUM
           new == [r EXCEPT ![c] = d]
<1>1. /\ NUM \in Nat \ {0} /\ UINT16 \in Nat \ {0} /\ NUM <= UINT16 /\ Desc = 0 .. NUM - 1
      /\ None \notin Desc /\ a \in 0 .. NUM - 1 /\ c \in 0 .. NUM - 1
  BY Sizes
<1>2. n \in 0 .. UINT16 - 1 /\ Distance(lo, Inc(hi), UINT16) = n + 1
  <2>1. n \in 0 .. UINT16 - 1
    BY <1>1, DistanceRange
  <2>2. Distance(lo, hi, UINT16) < UINT16 - 1
    BY SMTT(40), <1>1, <2>1
  <2> QED
    BY <1>1, <2>1, <2>2, DistanceGrows DEF Inc
<1>3. /\ Distance(a, c, NUM) = n
      /\ \A s \in Desc : r[s] # None <=> Distance(a, s, NUM) < n
      /\ \A s, t \in Desc : r[s] = r[t] /\ r[s] # None => s = t
  BY DEF Ring
<1>4. Inc(hi) % NUM = (c + 1) % NUM
  BY NextSlot
<1> HIDE DEF n, a, c
<1>5. Distance(a, Inc(hi) % NUM, NUM) = n + 1
  <2>1. n < NUM - 1
    BY <1>1, <1>2 DEF n
  <2> QED
    BY <1>1, <1>3, <1>4, <2>1, DistanceGrows
<1>6. \A s \in Desc : Distance(a, s, NUM) \in Int /\ (Distance(a, s, NUM) = n <=> s = c)
  <2> SUFFICES ASSUME NEW s \in Desc
               PROVE  Distance(a, s, NUM) \in Int /\ (Distance(a, s, NUM) = n <=> s = c)
    OBVIOUS
  <2>1. Distance(a, s, NUM) \in 0 .. NUM - 1
    BY Zenon, <1>1, DistanceRange
  <2>2. Distance(a, s, NUM) = Distance(a, c, NUM) => s = c
    BY <1>1, DistanceTells
  <2> QED
    BY <1>3, <2>1, <2>2
<1>7. r[c] = None
  BY <1>1, <1>2, <1>3, <1>6
<1>8. /\ new[c] = d /\ \A s \in Desc : s # c => new[s] = r[s]
  BY <1>1
<1>9. \A s \in Desc : new[s] # None <=> Distance(a, s, NUM) < n + 1
  <2>0. UINT16 \in Nat /\ None \notin Desc /\ n \in 0 .. UINT16 - 1
    BY Zenon, <1>1, <1>2
  <2>1. n \in Int /\ d # None
    <3> HIDE DEF new
    <3>1. n \in Int
      BY <2>0
    <3>2. d # None
      BY Zenon, <2>0
    <3> QED
      BY Zenon, <3>1, <3>2
  <2>2. ASSUME NEW s \in Desc, s # c
        PROVE  new[s] # None <=> Distance(a, s, NUM) < n + 1
    BY <1>3, <1>6, <1>8, <2>1, <2>2
  <2>3. new[c] # None /\ Distance(a, c, NUM) < n + 1
    BY <1>3, <1>8, <2>1
  <2> QED
    BY Zenon, <2>2, <2>3
<1>10. \A s, t \in Desc : new[s] = new[t] /\ new[s] # None => s = t
  BY <1>1, <1>3, <1>8
<1> HIDE DEF new
<1>11. Distance(a, Inc(hi) % NUM, NUM) = Distance(lo, Inc(hi), UINT16)
  BY <1>2, <1>5
<1>12. \A s \in Desc : new[s] # None <=> Distance(a, s, NUM) < Distance(lo, Inc(hi), UINT16)
  BY <1>2, <1>9
<1>13. Ring(new, lo, Inc(hi))
  BY <1>10, <1>11, <1>12 DEF Ring, a
<1> QED
  BY <1>7, <1>13 DEF new, c

(* The first entry is read. *)
LEMMA Pop ==
  ASSUME VirtioConstants, NEW r \in [Desc -> Desc \cup {None}],
         NEW lo \in 0 .. UINT16 - 1, NEW hi \in 0 .. UINT16 - 1, Ring(r, lo, hi),
         lo # hi
  PROVE  Ring([r EXCEPT ![lo % NUM] = None], Inc(lo), hi) /\ r[lo % NUM] \in Desc
<1> DEFINE n == Distance(lo, hi, UINT16)
           a == lo % NUM
           c == hi % NUM
           e == (a + 1) % NUM
           new == [r EXCEPT ![a] = None]
<1>1. /\ NUM \in Nat \ {0, 1} /\ UINT16 \in Nat \ {0} /\ NUM <= UINT16 /\ Desc = 0 .. NUM - 1
      /\ None \notin Desc /\ a \in 0 .. NUM - 1 /\ c \in 0 .. NUM - 1
  BY Sizes
<1>2. n \in 0 .. UINT16 - 1 /\ n > 0 /\ Distance(Inc(lo), hi, UINT16) = n - 1
  <2>1. n \in 0 .. UINT16 - 1 /\ n # 0
    BY ZenonT(40), <1>1, DistanceRange
  <2>2. Distance(Inc(lo), hi, UINT16) = n - 1
    BY <1>1, DistanceShrinks DEF Inc
  <2> QED
    BY <1>1, <2>1, <2>2
<1>3. /\ Distance(a, c, NUM) = n
      /\ \A s \in Desc : r[s] # None <=> Distance(a, s, NUM) < n
      /\ \A s, t \in Desc : r[s] = r[t] /\ r[s] # None => s = t
  BY DEF Ring
<1>4. Inc(lo) % NUM = e
  BY NextSlot
<1> HIDE DEF n, a, c
<1>5. Distance(e, c, NUM) = n - 1
  <2>1. a = c <=> Distance(a, c, NUM) = 0
    BY <1>1, DistanceRange
  <2>2. a # c
    BY <1>2, <1>3, <2>1
  <2> QED
    BY <1>1, <1>3, <2>2, DistanceShrinks
<1>6. ASSUME NEW s \in Desc
      PROVE  /\ Distance(a, s, NUM) \in Int /\ Distance(e, s, NUM) \in Int
             /\ s = a => Distance(a, s, NUM) = 0 /\ Distance(e, s, NUM) = NUM - 1
             /\ s # a => Distance(e, s, NUM) = Distance(a, s, NUM) - 1
  <2>1. Distance(a, s, NUM) \in 0 .. NUM - 1 /\ (a = s <=> Distance(a, s, NUM) = 0)
    BY Zenon, <1>1, DistanceRange
  <2>2. /\ s = a => Distance(e, s, NUM) = NUM - 1
        /\ s # a => Distance(e, s, NUM) = Distance(a, s, NUM) - 1
    BY SMTT(40), <1>1, DistanceShrinks
  <2> QED
    BY <1>1, <2>1, <2>2
<1> HIDE DEF e
<1>7. n <= NUM - 1
  BY <1>1, <1>3, DistanceRange
<1>8. r[a] \in Desc
  BY <1>1, <1>2, <1>3, <1>6
<1>9. new[a] = None /\ \A s \in Desc : s # a => new[s] = r[s]
  BY <1>1
<1>10. \A s \in Desc : new[s] # None <=> Distance(e, s, NUM) < n - 1
  <2> SUFFICES ASSUME NEW s \in Desc
               PROVE  new[s] # None <=> Distance(e, s, NUM) < n - 1
    OBVIOUS
  <2>1. CASE s = a
    BY <1>1, <1>2, <1>6, <1>7, <1>9, <2>1
  <2>2. CASE s # a
    BY <1>2, <1>3, <1>6, <1>9, <2>2
  <2> QED
    BY <2>1, <2>2
<1>11. \A s, t \in Desc : new[s] = new[t] /\ new[s] # None => s = t
  BY <1>1, <1>3, <1>9
<1> HIDE DEF new
<1>12. Ring(new, Inc(lo), hi)
  BY <1>2, <1>4, <1>5, <1>10, <1>11 DEF Ring, c
<1> QED
  BY <1>8, <1>12 DEF new, a

(* A ring whose entries are all in a set that lacks two descriptors has    *)
(* room for another.                                                       *)
LEMMA Room ==
  ASSUME VirtioConstants, NEW r \in [Desc -> Desc \cup {None}],
         NEW lo \in 0 .. UINT16 - 1, NEW hi \in 0 .. UINT16 - 1, Ring(r, lo, hi),
         NEW x \in Desc, NEW y \in Desc, x # y, \A s \in Desc : r[s] # x /\ r[s] # y
  PROVE  Distance(lo, hi, UINT16) + 1 < NUM
<1> DEFINE n == Distance(lo, hi, UINT16)
           a == lo % NUM
           c == hi % NUM
           S == Desc \ {c}
           T == Desc \ {x, y}
<1>1. /\ NUM \in Nat \ {0, 1} /\ UINT16 \in Nat \ {0} /\ Desc = 0 .. NUM - 1
      /\ None \notin Desc /\ a \in 0 .. NUM - 1 /\ c \in 0 .. NUM - 1
  BY Sizes
<1>2. /\ Distance(a, c, NUM) = n
      /\ \A s \in Desc : r[s] # None <=> Distance(a, s, NUM) < n
      /\ \A s, t \in Desc : r[s] = r[t] /\ r[s] # None => s = t
  BY DEF Ring
<1> HIDE DEF n, a, c
<1>3. n \in 0 .. NUM - 1
  BY <1>1, <1>2, DistanceRange
<1> SUFFICES ASSUME n = NUM - 1 PROVE FALSE
  BY <1>1, <1>3 DEF n
<1>4. ASSUME NEW s \in S PROVE r[s] \in T
  <2>1. Distance(a, s, NUM) \in 0 .. NUM - 1 /\ Distance(a, s, NUM) # n
    <3>1. s \in 0 .. NUM - 1 /\ s # c
      BY <1>1
    <3>2. Distance(a, s, NUM) \in 0 .. NUM - 1
      BY Zenon, <1>1, <3>1, DistanceRange
    <3>3. Distance(a, s, NUM) # Distance(a, c, NUM)
      BY <1>1, <3>1, DistanceTells
    <3> QED
      BY <1>2, <3>2, <3>3
  <2>2. Distance(a, s, NUM) < n
    BY <1>1, <1>2, <2>1
  <2> QED
    BY <1>2, <2>2
<1>5. IsFiniteSet(Desc) /\ Cardinality(Desc) = NUM
  <2>1. 0 \in Int /\ NUM - 1 \in Int
    BY <1>1
  <2> QED
    BY <1>1, <2>1, FS_Interval
<1>6. IsFiniteSet(S) /\ Cardinality(S) = NUM - 1
  <2>1. c \in Desc
    BY <1>1
  <2>2. IsFiniteSet(S) /\ Cardinality(S) = Cardinality(Desc) - 1
    BY <1>5, <2>1, FS_RemoveElement
  <2> QED
    BY <1>5, <2>2
<1>7. IsFiniteSet(T) /\ Cardinality(T) = NUM - 2
  <2>1. IsFiniteSet(Desc \ {x}) /\ Cardinality(Desc \ {x}) = NUM - 1
    BY <1>5, FS_RemoveElement
  <2>2. T = (Desc \ {x}) \ {y} /\ y \in Desc \ {x}
    OBVIOUS
  <2>3. IsFiniteSet(T) /\ Cardinality(T) = Cardinality(Desc \ {x}) - 1
    BY <2>1, <2>2, FS_RemoveElement
  <2> QED
    BY <1>1, <2>1, <2>3
<1>8. Cardinality(T) < Cardinality(S)
  BY <1>1, <1>6, <1>7
<1> DEFINE g == [s \in S |-> r[s]]
<1>9. g \in [S -> T] /\ \A s, t \in S : g[s] = g[t] => s = t
  BY SMTT(40), <1>1, <1>2, <1>4
<1> HIDE DEF S, T, g
<1> QED
  BY <1>6, <1>7, <1>8, <1>9, FS_PigeonHole

-----------------------------------------------------------------------------
(* Descriptors *)

LEMMA DescFinite ==
  ASSUME VirtioConstants, NEW S \in SUBSET Desc
  PROVE  IsFiniteSet(S) /\ Cardinality(S) \in Nat
<1>1. Desc = 0 .. NUM - 1 /\ 0 \in Int /\ NUM - 1 \in Int
  BY Sizes
<1>2. IsFiniteSet(Desc)
  BY <1>1, FS_Interval
<1>3. IsFiniteSet(S)
  BY <1>2, FS_Subset
<1> QED
  BY <1>3, FS_CardinalityType

LEMMA Least ==
  ASSUME VirtioConstants, NEW S \in SUBSET Desc, S # {}
  PROVE  Min(S) \in S
<1> DEFINE Before(k) == {j \in S : j < k}
           T == {Before(k) : k \in S}
           R == StrictSubsetOrdering(Desc)
<1>1. IsFiniteSet(Desc)
  BY DescFinite
<1>2. IsWellFoundedOn(R, SUBSET Desc)
  BY Zenon, <1>1, FS_StrictSubsetOrderingWellFounded, FS_FiniteSubsetsOfFinite
<1>3. T \subseteq SUBSET Desc /\ T # {}
  BY Zenon
<1>4. PICK s \in T : \A u \in T : ~(<<u, s>> \in R)
  <2> HIDE DEF T, R
  <2> QED
    BY <1>2, <1>3, WFMin
<1>5. PICK k \in S : s = Before(k)
  OBVIOUS
<1>6. S \subseteq Int
  BY Sizes
<1>7. ASSUME NEW j \in S, j < k PROVE FALSE
  <2>1. Before(j) \subseteq Before(k) /\ j \in Before(k) /\ j \notin Before(j)
    <3>1. j \in Int /\ k \in Int /\ \A i \in S : i \in Int
      BY <1>6
    <3>2. ~(j < j) /\ \A i \in S : i < j => i < k
      BY <1>7, <3>1
    <3> QED
      BY <1>7, <3>2
  <2>2. Before(j) \in T /\ Before(j) \subseteq Desc /\ Before(k) \subseteq Desc
    OBVIOUS
  <2> HIDE DEF Before, T
  <2>3. <<Before(j), Before(k)>> \in R
    BY <2>1, <2>2 DEF StrictSubsetOrdering
  <2> QED
    BY <1>4, <1>5, <2>2, <2>3
<1>8. \A j \in S : k =< j
  BY <1>6, <1>7
<1> QED
  BY <1>8 DEF Min

(* alloc3_desc() finds three different descriptors. *)
LEMMA Three ==
  ASSUME VirtioConstants, NEW S \in SUBSET Desc, Cardinality(S) >= 3
  PROVE  /\ Min(S) \in S
         /\ Min(S \ {Min(S)}) \in S \ {Min(S)}
         /\ Min(S \ {Min(S), Min(S \ {Min(S)})}) \in S \ {Min(S), Min(S \ {Min(S)})}
<1>1. IsFiniteSet(S) /\ Cardinality(S) \in Nat /\ Cardinality({}) = 0
  BY DescFinite, FS_EmptySet
<1>2. Min(S) \in S
  BY <1>1, Least
<1> DEFINE x == Min(S)
           A == S \ {x}
           y == Min(A)
           B == S \ {x, y}
<1>3. IsFiniteSet(A) /\ Cardinality(A) = Cardinality(S) - 1
  BY <1>1, <1>2, FS_RemoveElement
<1>4. y \in A
  <2>1. A \in SUBSET Desc /\ A # {}
    BY <1>1, <1>3
  <2> HIDE DEF A
  <2> QED
    BY <2>1, Least
<1>5. B = A \ {y}
  OBVIOUS
<1>6. Cardinality(A \ {y}) = Cardinality(A) - 1
  BY <1>3, <1>4, FS_RemoveElement
<1>7. Min(B) \in B
  <2>1. Cardinality(A \ {y}) = Cardinality(S) - 1 - 1
    BY <1>3, <1>6
  <2> HIDE DEF y
  <2>3. Cardinality(A \ {y}) # 0
    BY <1>1, <2>1
  <2>2. B \in SUBSET Desc /\ B # {}
    BY <1>1, <1>5, <2>3
  <2> HIDE DEF B
  <2> QED
    BY <2>2, Least
<1> QED
  BY <1>2, <1>4, <1>7

(* A chain whose descriptors are left alone stays a chain. *)
LEMMA SameChain ==
  ASSUME NEW p \in Proc, head'[p] = head[p],
         \A d \in Chain(head[p]) : next'[d] = next[d]
  PROVE  /\ Chain(head[p])' = Chain(head[p])
         /\ next'[head'[p]] = next[head[p]]
         /\ next'[next'[head'[p]]] = next[next[head[p]]]
<1>1. head[p] \in Chain(head[p]) /\ next[head[p]] \in Chain(head[p])
  BY DEF Chain
<1>2. /\ next'[head'[p]] = next[head[p]]
      /\ next'[next'[head'[p]]] = next[next[head[p]]]
  BY <1>1
<1> QED
  BY <1>2 DEF Chain

(* Requests that are under way have different processes, and the first     *)
(* descriptor of one is in no chain but its own.                           *)
LEMMA PendingFacts ==
  ASSUME IInv, NEW d \in Desc, Pending(d)
  PROVE  /\ d \notin free
         /\ info[d] = addr[d]
         /\ next[d] \in Desc /\ next[d] # d
         /\ \A p \in Proc : pc[p] = "wait" /\ d \in Chain(head[p]) => p = addr[d]
         /\ \A e \in Desc : Pending(e) /\ addr[e] = addr[d] => e = d
         /\ \A e \in Desc : Pending(e) => e # next[d]
<1>1. ChainInv
  BY DEF IInv
<1> DEFINE p == addr[d]
<1>2. p \in Proc /\ pc[p] = "wait" /\ head[p] = d
  BY SMTT(40) DEF Pending
<1>3. /\ d \in Chain(head[p]) /\ next[d] \in Chain(head[p])
      /\ Chain(head[p]) \cap free = {}
      /\ info[d] = p /\ next[d] \in Desc /\ next[d] # d
  BY <1>1, <1>2 DEF ChainInv, Chain
<1>4. \A q \in Proc : pc[q] = "wait" /\ Chain(head[q]) \cap Chain(head[p]) # {} => q = p
  BY SMTT(40), <1>1, <1>2 DEF ChainInv
<1>5. ASSUME NEW e \in Desc, Pending(e)
      PROVE  (addr[e] = addr[d] => e = d) /\ e # next[d]
  <2>1. /\ addr[e] \in Proc /\ pc[addr[e]] = "wait" /\ head[addr[e]] = e
        /\ e \in Chain(head[addr[e]])
    BY <1>5 DEF Pending, Chain
  <2> QED
    BY <1>2, <1>3, <1>4, <2>1
<1> QED
  BY <1>3, <1>4, <1>5

-----------------------------------------------------------------------------
(* The steps *)

LEMMA InitIInv ==
  ASSUME VirtioConstants, Init
  PROVE  IInv
<1>1. /\ NUM \in Nat \ {0} /\ UINT16 \in Nat \ {0} /\ Desc = 0 .. NUM - 1 /\ None \notin Desc
      /\ 0 \in 0 .. UINT16 - 1 /\ NoProc \notin Proc
  BY Sizes DEF VirtioConstants
<1>2. TypeOK
  BY <1>1 DEF Init, TypeOK
<1>3. Ring([d \in Desc |-> None], 0, 0)
  <2>1. 0 % NUM \in 0 .. NUM - 1
    BY <1>1, Sizes
  <2>2. Distance(0, 0, UINT16) = 0 /\ Distance(0 % NUM, 0 % NUM, NUM) = 0
    BY <1>1, <2>1, DistanceRange
  <2>3. \A s \in Desc : ~(Distance(0 % NUM, s, NUM) < 0)
    <3>1. \A s \in Desc : Distance(0 % NUM, s, NUM) \in 0 .. NUM - 1
      BY <1>1, <2>1, DistanceRange
    <3> QED
      BY <1>1, <3>1
  <2> QED
    BY <2>2, <2>3 DEF Ring
<1>4. RingInv
  BY <1>3 DEF Init, RingInv
<1>5. ChainInv
  BY DEF Init, ChainInv
<1>6. RequestInv
  BY <1>1 DEF Init, RequestInv
<1> QED
  BY <1>2, <1>4, <1>5, <1>6 DEF IInv

LEMMA SubmitStep ==
  ASSUME VirtioConstants, IInv, NEW p \in Proc, rw_submit(p)
  PROVE  IInv'
<1>1. TypeOK /\ RingInv /\ ChainInv /\ RequestInv
  BY DEF IInv
<1>2. PICK x \in free, y \in free, z \in free :
        /\ x # y /\ x # z /\ y # z
        /\ free' = free \ {x, y, z}
        /\ next' = [next EXCEPT ![x] = y, ![y] = z, ![z] = None]
        /\ addr' = [addr EXCEPT ![x] = p]
        /\ info' = [info EXCEPT ![x] = p]
        /\ avail_ring' = [avail_ring EXCEPT ![avail_idx % NUM] = x]
        /\ head' = [head EXCEPT ![p] = x]
  <2>1. free \in SUBSET Desc /\ Cardinality(free) >= 3
    BY <1>1 DEF TypeOK, rw_submit
  <2> DEFINE i0 == Min(free)
             i1 == Min(free \ {i0})
             i2 == Min(free \ {i0, i1})
  <2>2. i0 \in free /\ i1 \in free \ {i0} /\ i2 \in free \ {i0, i1}
    BY <2>1, Three
  <2>3. /\ free' = free \ {i0, i1, i2}
        /\ next' = [next EXCEPT ![i0] = i1, ![i1] = i2, ![i2] = None]
        /\ addr' = [addr EXCEPT ![i0] = p]
        /\ info' = [info EXCEPT ![i0] = p]
        /\ avail_ring' = [avail_ring EXCEPT ![avail_idx % NUM] = i0]
        /\ head' = [head EXCEPT ![p] = i0]
    BY DEF rw_submit
  <2> HIDE DEF i0, i1, i2
  <2> QED
    BY ZenonT(40), <2>2, <2>3
<1>3. /\ pc[p] # "wait"
      /\ avail_idx' = Inc(avail_idx) /\ busy' = busy \cup {p} /\ served' = served
      /\ pc' = [pc EXCEPT ![p] = "wait"]
      /\ used_ring' = used_ring /\ used_idx_dev' = used_idx_dev /\ seen' = seen
      /\ inflight' = inflight /\ used_idx' = used_idx
  BY DEF rw_submit, Allocating
<1>4. /\ x \in Desc /\ y \in Desc /\ z \in Desc /\ None \notin Desc
      /\ avail_idx \in 0 .. UINT16 - 1 /\ seen \in 0 .. UINT16 - 1
      /\ avail_idx % NUM \in Desc /\ Inc(avail_idx) \in 0 .. UINT16 - 1
  BY SMTT(40), <1>1, <1>2, Sizes DEF TypeOK
<1>5. TypeOK'
  BY SMTT(40), <1>1, <1>2, <1>3, <1>4 DEF TypeOK
<1>6. /\ next'[x] = y /\ next'[y] = z /\ next'[z] = None
      /\ \A d \in Desc : d \notin {x, y, z} => next'[d] = next[d]
      /\ addr'[x] = p /\ info'[x] = p
      /\ \A d \in Desc : d # x => addr'[d] = addr[d] /\ info'[d] = info[d]
      /\ head'[p] = x /\ \A q \in Proc : q # p => head'[q] = head[q]
      /\ pc'[p] = "wait" /\ \A q \in Proc : q # p => pc'[q] = pc[q]
      /\ avail_ring'[avail_idx % NUM] = x
      /\ \A s \in Desc : s # avail_idx % NUM => avail_ring'[s] = avail_ring[s]
  BY SMTT(40), <1>1, <1>2, <1>3, <1>4 DEF TypeOK
<1>7. ASSUME NEW d \in Desc, Pending(d)
      PROVE  d \notin free /\ Pending(d)' /\ addr'[d] = addr[d] /\ addr[d] # p
  <2>1. d \notin free
    BY SMTT(40), <1>7, PendingFacts
  <2>2. addr[d] \in Proc /\ pc[addr[d]] = "wait" /\ head[addr[d]] = d /\ addr[d] \in busy
    BY <1>7 DEF Pending
  <2> QED
    BY SMTT(40), <1>2, <1>3, <1>6, <2>1, <2>2 DEF Pending
<1>8. \A s \in Desc : avail_ring[s] \notin free /\ used_ring[s] \notin free
  BY <1>1, <1>7 DEF TypeOK, RequestInv
<1>9. RingInv'
  <2>1. avail_ring \in [Desc -> Desc \cup {None}] /\ Ring(avail_ring, seen, avail_idx)
    BY <1>1 DEF TypeOK, RingInv
  <2>2. Distance(seen, avail_idx, UINT16) + 1 < NUM
    BY <1>2, <1>4, <1>8, <2>1, Room
  <2>3. Ring([avail_ring EXCEPT ![avail_idx % NUM] = x], seen, Inc(avail_idx))
    <3>1. \A s \in Desc : avail_ring[s] # x
      BY SMTT(40), <1>2, <1>8
    <3> QED
      BY ZenonT(40), <1>4, <2>1, <2>2, <3>1, Push
  <2>4. Ring(avail_ring, seen, avail_idx)'
    BY SMTT(40), <1>2, <1>3, <2>3 DEF Ring
  <2>5. Ring(used_ring, used_idx, used_idx_dev)'
    BY SMTT(40), <1>1, <1>3 DEF RingInv, Ring
  <2>6. x \notin inflight
    BY SMTT(40), <1>1, <1>2, <1>4, <1>7 DEF RequestInv
  <2>7. \A s \in Desc : avail_ring'[s] \notin inflight'
    BY SMTT(30), <1>1, <1>3, <1>4, <1>6, <2>6 DEF RingInv
  <2> QED
    BY <2>4, <2>5, <2>7 DEF RingInv
<1>10. ASSUME NEW q \in Proc, pc[q] = "wait"
       PROVE  /\ q # p /\ Chain(head[q])' = Chain(head[q]) /\ head'[q] = head[q]
              /\ Chain(head[q]) \subseteq Desc /\ Chain(head[q]) \cap free = {}
              /\ head'[q] \in Desc
              /\ next'[head'[q]] = next[head[q]]
              /\ next'[next'[head'[q]]] = next[next[head[q]]]
              /\ addr'[head'[q]] = q /\ info'[head'[q]] = q
  <2>1. q # p /\ head'[q] = head[q]
    BY ZenonT(40), <1>3, <1>6, <1>10
  <2>2. Chain(head[q]) \subseteq Desc /\ Chain(head[q]) \cap free = {} /\ head[q] \in Desc
    BY SMTT(40), <1>1, <1>10 DEF ChainInv, Chain
  <2>3. \A d \in Chain(head[q]) : next'[d] = next[d]
    BY ZenonT(30), <1>2, <1>6, <2>2
  <2>4. head[q] # x /\ addr[head[q]] = q /\ info[head[q]] = q
    BY ZenonT(60), <1>1, <1>2, <1>10, <2>2 DEF ChainInv, Chain
  <2> QED
    BY SMTT(30), <1>6, <2>1, <2>2, <2>3, <2>4, SameChain
<1>11. Chain(head[p])' = {x, y, z}
  BY ZenonT(60), <1>6 DEF Chain
<1>12. ChainInv'
  <2>1. ASSUME NEW q \in Proc, pc'[q] = "wait"
        PROVE  /\ head'[q] \in Desc /\ next'[head'[q]] \in Desc
               /\ next'[next'[head'[q]]] \in Desc
               /\ head'[q] # next'[head'[q]]
               /\ head'[q] # next'[next'[head'[q]]]
               /\ next'[head'[q]] # next'[next'[head'[q]]]
               /\ Chain(head[q])' \cap free' = {}
               /\ addr'[head'[q]] = q /\ info'[head'[q]] = q
    <3>1. CASE q = p
      <4>1. /\ head'[q] = x /\ next'[head'[q]] = y /\ next'[next'[head'[q]]] = z
            /\ addr'[head'[q]] = q /\ info'[head'[q]] = q
        BY <1>6, <3>1
      <4>2. Chain(head[q])' \cap free' = {}
        BY ZenonT(30), <1>2, <1>11, <3>1
      <4> QED
        BY ZenonT(30), <1>2, <1>4, <4>1, <4>2
    <3>2. CASE q # p
      <4>1. pc[q] = "wait"
        BY SMTT(40), <1>6, <2>1, <3>2
      <4>2. Chain(head[q])' \cap free' = {}
        BY SMTT(40), <1>2, <1>10, <4>1
      <4>3. /\ head[q] \in Desc /\ next[head[q]] \in Desc /\ next[next[head[q]]] \in Desc
            /\ head[q] # next[head[q]]
            /\ head[q] # next[next[head[q]]]
            /\ next[head[q]] # next[next[head[q]]]
        BY <1>1, <4>1 DEF ChainInv
      <4> QED
        BY ZenonT(60), <1>10, <4>1, <4>2, <4>3
    <3> QED
      BY <3>1, <3>2
  <2>2. ASSUME NEW q \in Proc, NEW t \in Proc, pc'[q] = "wait", pc'[t] = "wait", q # t
        PROVE  Chain(head[q])' \cap Chain(head[t])' = {}
    <3>1. CASE q = p
      BY SMTT(40), <1>2, <1>6, <1>10, <1>11, <2>2, <3>1
    <3>2. CASE t = p
      BY SMTT(40), <1>2, <1>6, <1>10, <1>11, <2>2, <3>2
    <3>3. CASE q # p /\ t # p
      BY SMTT(40), <1>1, <1>6, <1>10, <2>2, <3>3 DEF ChainInv
    <3> QED
      BY ZenonT(40), <3>1, <3>2, <3>3
  <2>3. ASSUME NEW d \in Desc \ free'
        PROVE  \E q \in Proc : pc'[q] = "wait" /\ d \in Chain(head[q])'
    <3>1. CASE d \in {x, y, z}
      BY Zenon, <1>6, <1>11, <3>1
    <3>2. CASE d \notin {x, y, z}
      <4>1. PICK q \in Proc : pc[q] = "wait" /\ d \in Chain(head[q])
        BY Zenon, <1>1, <1>2, <3>2 DEF ChainInv
      <4> QED
        BY ZenonT(60), <1>6, <1>10, <4>1
    <3> QED
      BY <3>1, <3>2
  <2> QED
    BY ZenonT(60), <2>1, <2>2, <2>3 DEF ChainInv
<1>13. RequestInv'
  <2>1. p \notin served
    BY ZenonT(60), <1>1, <1>3 DEF RequestInv
  <2>7. /\ busy' = busy \cup {p} /\ served' = served /\ pc'[p] = "wait"
        /\ \A q \in Proc : q # p => pc'[q] = pc[q]
    BY Zenon, <1>3, <1>6
  <2>8. addr'[x] = p /\ head'[p] = x
    BY Zenon, <1>6
  <2>9. /\ \A q \in Proc : q \in served => pc[q] = "wait"
        /\ \A q \in Proc : pc[q] = "wait" /\ q \notin busy => q \in served
    BY Zenon, <1>1 DEF RequestInv
  <2>2. Pending(x)' /\ addr'[x] \notin served'
    BY <2>1, <2>7, <2>8 DEF Pending
  <2>3. ASSUME NEW d \in Desc, d \in inflight' \/ \E s \in Desc : avail_ring'[s] = d
        PROVE  Pending(d)' /\ addr'[d] \notin served'
    <3>1. CASE d = x
      BY <2>2, <3>1
    <3>2. CASE d # x
      <4>1. d \in inflight \/ \E s \in Desc : avail_ring[s] = d
        BY <1>3, <1>6, <2>3, <3>2
      <4>2. Pending(d) /\ addr[d] \notin served
        BY ZenonT(30), <1>1, <4>1 DEF RequestInv
      <4> QED
        BY ZenonT(30), <1>3, <1>7, <4>2
    <3> QED
      BY <3>1, <3>2
  <2>4. ASSUME NEW d \in Desc, \E s \in Desc : used_ring'[s] = d
        PROVE  Pending(d)' /\ addr'[d] \in served'
    <3>1. Pending(d) /\ addr[d] \in served
      BY ZenonT(40), <1>1, <1>3, <2>4 DEF RequestInv
    <3> QED
      BY Zenon, <1>7, <2>7, <3>1
  <2>5. \A q \in Proc : q \in served' => pc'[q] = "wait"
    BY SMTT(40), <2>7, <2>9
  <2>6. \A q \in Proc : pc'[q] = "wait" /\ q \notin busy' => q \in served'
    BY SMTT(40), <2>7, <2>9
  <2> QED
    BY ZenonT(40), <2>3, <2>4, <2>5, <2>6 DEF RequestInv
<1> QED
  BY <1>5, <1>9, <1>12, <1>13 DEF IInv

(* free_chain() returns the three descriptors of the process that is done. *)
LEMMA FinishStep ==
  ASSUME VirtioConstants, IInv, NEW p \in Proc, rw_finish(p)
  PROVE  IInv'
<1>1. TypeOK /\ RingInv /\ ChainInv /\ RequestInv
  BY DEF IInv
<1>2. PICK h \in Desc : /\ h = head[p]
                       /\ next[h] \in Desc /\ next[next[h]] \in Desc
  <2>1. pc[p] = "wait"
    BY Zenon DEF rw_finish, Done
  <2> QED
    BY Zenon, <1>1, <2>1 DEF ChainInv
<1>3. PICK C \in SUBSET Desc : C = Chain(h) /\ h \in C
  BY ZenonT(30), <1>2 DEF Chain
<1>4. /\ pc[p] = "wait" /\ p \notin busy
      /\ info' = [info EXCEPT ![h] = NoProc]
      /\ free' = free \cup C
      /\ next' = [d \in Desc |-> IF d \in C THEN None ELSE next[d]]
      /\ addr' = [addr EXCEPT ![h] = NoProc]
      /\ head' = [head EXCEPT ![p] = None]
      /\ pc' = [pc EXCEPT ![p] = "idle"]
      /\ served' = served \ {p}
      /\ avail_ring' = avail_ring /\ avail_idx' = avail_idx /\ busy' = busy
      /\ used_ring' = used_ring /\ used_idx_dev' = used_idx_dev /\ seen' = seen
      /\ inflight' = inflight /\ used_idx' = used_idx
  BY ZenonT(60), <1>2, <1>3 DEF rw_finish, Done
<1>5. TypeOK'
  BY SMTT(40), <1>1, <1>3, <1>4 DEF TypeOK
<1>6. /\ \A d \in Desc : d \notin C => next'[d] = next[d]
      /\ \A d \in Desc : d # h => addr'[d] = addr[d] /\ info'[d] = info[d]
      /\ \A q \in Proc : q # p => head'[q] = head[q] /\ pc'[q] = pc[q]
      /\ pc'[p] = "idle"
  BY <1>1, <1>4 DEF TypeOK
<1>7. RingInv'
  BY Zenon, <1>1, <1>4 DEF RingInv, Ring
<1>8. ASSUME NEW q \in Proc, q # p, pc[q] = "wait"
      PROVE  /\ Chain(head[q])' = Chain(head[q]) /\ head'[q] = head[q]
             /\ Chain(head[q]) \cap C = {}
             /\ next'[head'[q]] = next[head[q]]
             /\ next'[next'[head'[q]]] = next[next[head[q]]]
             /\ addr'[head'[q]] = q /\ info'[head'[q]] = q
  <2>1. Chain(head[q]) \cap C = {}
    BY ZenonT(30), <1>1, <1>2, <1>3, <1>4, <1>8 DEF ChainInv
  <2>2. Chain(head[q]) \subseteq Desc /\ head[q] \in Chain(head[q])
    <3>1. head[q] \in Desc /\ next[head[q]] \in Desc /\ next[next[head[q]]] \in Desc
      BY Zenon, <1>1, <1>8 DEF ChainInv
    <3> QED
      BY Zenon, <3>1 DEF Chain
  <2>3. \A d \in Chain(head[q]) : next'[d] = next[d]
    BY ZenonT(30), <1>6, <2>1, <2>2
  <2>4. head'[q] = head[q]
    BY Zenon, <1>6, <1>8
  <2>5. head[q] # h /\ addr[head[q]] = q /\ info[head[q]] = q
    BY Zenon, <1>1, <1>3, <1>8, <2>1, <2>2 DEF ChainInv
  <2> QED
    BY ZenonT(30), <1>6, <2>1, <2>2, <2>3, <2>4, <2>5, SameChain
<1>9. ChainInv'
  <2>1. ASSUME NEW q \in Proc, pc'[q] = "wait"
        PROVE  q # p /\ pc[q] = "wait"
    BY ZenonT(30), <1>6, <2>1
  <2>2. ASSUME NEW q \in Proc, pc'[q] = "wait"
        PROVE  /\ head'[q] \in Desc /\ next'[head'[q]] \in Desc
               /\ next'[next'[head'[q]]] \in Desc
               /\ head'[q] # next'[head'[q]]
               /\ head'[q] # next'[next'[head'[q]]]
               /\ next'[head'[q]] # next'[next'[head'[q]]]
               /\ Chain(head[q])' \cap free' = {}
               /\ addr'[head'[q]] = q /\ info'[head'[q]] = q
    <3>1. q # p /\ pc[q] = "wait"
      BY Zenon, <2>1, <2>2
    <3>2. /\ head[q] \in Desc /\ next[head[q]] \in Desc /\ next[next[head[q]]] \in Desc
          /\ head[q] # next[head[q]]
          /\ head[q] # next[next[head[q]]]
          /\ next[head[q]] # next[next[head[q]]]
          /\ Chain(head[q]) \cap free = {}
      BY ZenonT(40), <1>1, <3>1 DEF ChainInv
    <3>3. Chain(head[q])' \cap free' = {}
      BY SMTT(40), <1>4, <1>8, <3>1, <3>2
    <3> QED
      BY <1>8, <3>1, <3>2, <3>3
  <2>3. ASSUME NEW q \in Proc, NEW t \in Proc, pc'[q] = "wait", pc'[t] = "wait", q # t
        PROVE  Chain(head[q])' \cap Chain(head[t])' = {}
    <3>1. q # p /\ pc[q] = "wait" /\ t # p /\ pc[t] = "wait"
      BY Zenon, <2>1, <2>3
    <3> QED
      BY SMTT(40), <1>1, <1>8, <2>3, <3>1 DEF ChainInv
  <2>4. ASSUME NEW d \in Desc \ free'
        PROVE  \E q \in Proc : pc'[q] = "wait" /\ d \in Chain(head[q])'
    <3>1. PICK q \in Proc : pc[q] = "wait" /\ d \in Chain(head[q])
      BY ZenonT(60), <1>1, <1>4 DEF ChainInv
    <3>2. q # p
      BY <1>2, <1>3, <1>4, <3>1
    <3>3. pc'[q] = "wait" /\ d \in Chain(head[q])'
      BY ZenonT(30), <1>6, <1>8, <3>1, <3>2
    <3> QED
      BY ZenonT(40), <3>3
  <2> QED
    BY ZenonT(60), <2>2, <2>3, <2>4 DEF ChainInv
<1>10. ASSUME NEW d \in Desc, Pending(d)
       PROVE  Pending(d)' /\ addr'[d] = addr[d] /\ addr[d] # p
  <2>1. addr[d] \in Proc /\ pc[addr[d]] = "wait" /\ head[addr[d]] = d /\ addr[d] \in busy
    BY <1>10 DEF Pending
  <2>2. addr[d] # p
    BY ZenonT(30), <1>4, <2>1
  <2>3. d # h
    BY ZenonT(60), <1>1, <1>2, <1>4, <2>2 DEF ChainInv
  <2> QED
    BY SMTT(40), <1>4, <1>6, <2>1, <2>2, <2>3 DEF Pending
<1>11. RequestInv'
  <2>1. ASSUME NEW d \in Desc, d \in inflight' \/ \E s \in Desc : avail_ring'[s] = d
        PROVE  Pending(d)' /\ addr'[d] \notin served'
    <3>1. Pending(d) /\ addr[d] \notin served
      BY ZenonT(60), <1>1, <1>4, <2>1 DEF RequestInv
    <3> QED
      BY SMTT(30), <1>4, <1>10, <3>1
  <2>2. ASSUME NEW d \in Desc, \E s \in Desc : used_ring'[s] = d
        PROVE  Pending(d)' /\ addr'[d] \in served'
    <3>1. Pending(d) /\ addr[d] \in served
      BY Zenon, <1>1, <1>4, <2>2 DEF RequestInv
    <3> QED
      BY SMTT(30), <1>4, <1>10, <3>1
  <2>3. \A q \in Proc : q \in served' => pc'[q] = "wait"
    BY Zenon, <1>1, <1>4, <1>6 DEF RequestInv
  <2>4. \A q \in Proc : pc'[q] = "wait" /\ q \notin busy' => q \in served'
    BY ZenonT(30), <1>1, <1>4, <1>6 DEF RequestInv
  <2> QED
    BY ZenonT(60), <2>1, <2>2, <2>3, <2>4 DEF RequestInv
<1> QED
  BY ZenonT(40), <1>5, <1>7, <1>9, <1>11 DEF IInv

(* Where neither descriptors nor processes change, chains do not. *)
LEMMA ChainStays ==
  ASSUME ChainInv, UNCHANGED <<free, next, addr, info, head, pc>>
  PROVE  ChainInv'
BY ZenonT(60) DEF ChainInv, Chain

LEMMA TakeStep ==
  ASSUME VirtioConstants, IInv, dev_take
  PROVE  IInv'
<1>1. TypeOK /\ RingInv /\ ChainInv /\ RequestInv
  BY DEF IInv
<1>2. PICK a, e : a = seen % NUM /\ e = avail_ring[a]
  OBVIOUS
<1>3. /\ seen # avail_idx /\ inflight' = inflight \cup {e}
      /\ avail_ring' = [avail_ring EXCEPT ![a] = None] /\ seen' = Inc(seen)
      /\ UNCHANGED <<free, next, addr, info, head, pc>>
      /\ avail_idx' = avail_idx /\ busy' = busy /\ used_ring' = used_ring
      /\ used_idx_dev' = used_idx_dev /\ served' = served /\ used_idx' = used_idx
  BY <1>2 DEF dev_take, procs
<1>4. /\ avail_ring \in [Desc -> Desc \cup {None}]
      /\ seen \in 0 .. UINT16 - 1 /\ avail_idx \in 0 .. UINT16 - 1
      /\ Ring(avail_ring, seen, avail_idx)
  BY <1>1 DEF TypeOK, RingInv
<1>5. Ring([avail_ring EXCEPT ![a] = None], Inc(seen), avail_idx) /\ e \in Desc
  BY ZenonT(30), <1>2, <1>3, <1>4, Pop
<1>6. None \notin Desc /\ a \in Desc /\ Inc(seen) \in 0 .. UINT16 - 1
  BY SMTT(40), <1>2, <1>4, Sizes
<1>7. TypeOK'
  BY SMTT(40), <1>1, <1>3, <1>5, <1>6 DEF TypeOK
<1>8. avail_ring'[a] = None /\ \A s \in Desc : s # a => avail_ring'[s] = avail_ring[s]
  BY <1>3, <1>4, <1>6
<1>9. RingInv'
  <2>1. Ring(avail_ring, seen, avail_idx)'
    BY Zenon, <1>3, <1>5 DEF Ring
  <2>2. Ring(used_ring, used_idx, used_idx_dev)'
    BY Zenon, <1>1, <1>3 DEF RingInv, Ring
  <2>3. ASSUME NEW s \in Desc PROVE avail_ring'[s] \notin inflight'
    <3>1. CASE s = a
      BY SMTT(40), <1>1, <1>3, <1>5, <1>6, <1>8, <3>1 DEF TypeOK
    <3>2. CASE s # a
      <4>1. avail_ring[s] # e
        BY <1>2, <1>4, <1>5, <1>6, <3>2 DEF Ring
      <4> QED
        BY SMTT(40), <1>1, <1>3, <1>8, <3>2, <4>1 DEF RingInv
    <3> QED
      BY SMTT(40), <3>1, <3>2
  <2> QED
    BY <2>1, <2>2, <2>3 DEF RingInv
<1>10. ChainInv'
  BY ZenonT(30), <1>1, <1>3, ChainStays
<1>11. RequestInv'
  <2>1. \A d \in Desc : Pending(d)' = Pending(d) /\ addr'[d] = addr[d]
    BY SMTT(40), <1>3 DEF Pending
  <2>2. \A d \in Desc : d \in inflight' \/ (\E s \in Desc : avail_ring'[s] = d)
                          => d \in inflight \/ \E s \in Desc : avail_ring[s] = d
    BY <1>2, <1>3, <1>6, <1>8
  <2> QED
    BY SMTT(40), <1>1, <1>3, <2>1, <2>2 DEF RequestInv
<1> QED
  BY <1>7, <1>9, <1>10, <1>11 DEF IInv

LEMMA CompleteStep ==
  ASSUME VirtioConstants, IInv, NEW d \in Desc, dev_complete(d)
  PROVE  IInv'
<1>1. TypeOK /\ RingInv /\ ChainInv /\ RequestInv
  BY DEF IInv
<1>2. PICK c : c = used_idx_dev % NUM
  BY SMTT(40)
<1>3. /\ d \in inflight /\ inflight' = inflight \ {d} /\ served' = served \cup {addr[d]}
      /\ used_ring' = [used_ring EXCEPT ![c] = d] /\ used_idx_dev' = Inc(used_idx_dev)
      /\ UNCHANGED <<free, next, addr, info, head, pc>>
      /\ avail_ring' = avail_ring /\ avail_idx' = avail_idx /\ seen' = seen
      /\ busy' = busy /\ used_idx' = used_idx
  BY <1>2 DEF dev_complete, driver, procs
<1>4. /\ used_ring \in [Desc -> Desc \cup {None}]
      /\ used_idx \in 0 .. UINT16 - 1 /\ used_idx_dev \in 0 .. UINT16 - 1
      /\ Ring(used_ring, used_idx, used_idx_dev)
  BY <1>1 DEF TypeOK, RingInv
<1>5. Pending(d) /\ addr[d] \notin served
  BY ZenonT(30), <1>1, <1>3 DEF RequestInv
<1>6. next[d] \in Desc /\ next[d] # d
  BY SMTT(40), <1>5, PendingFacts
<1>7. \A s \in Desc : used_ring[s] # d /\ used_ring[s] # next[d]
  <2> SUFFICES ASSUME NEW s \in Desc, used_ring[s] \in Desc
               PROVE  used_ring[s] # d /\ used_ring[s] # next[d]
    BY SMTT(40), <1>6
  <2>1. Pending(used_ring[s]) /\ addr[used_ring[s]] \in served
    BY SMTT(40), <1>1 DEF RequestInv
  <2> QED
    BY <1>5, <2>1, PendingFacts
<1>8. Distance(used_idx, used_idx_dev, UINT16) + 1 < NUM
  BY <1>4, <1>6, <1>7, Room
<1>9. Ring([used_ring EXCEPT ![c] = d], used_idx, Inc(used_idx_dev))
  BY ZenonT(30), <1>2, <1>4, <1>7, <1>8, Push
<1>10. c \in Desc /\ Inc(used_idx_dev) \in 0 .. UINT16 - 1
  BY SMTT(40), <1>2, <1>4, Sizes
<1>11. TypeOK'
  BY SMTT(40), <1>1, <1>3, <1>10 DEF TypeOK
<1>12. used_ring'[c] = d /\ \A s \in Desc : s # c => used_ring'[s] = used_ring[s]
  BY SMTT(40), <1>3, <1>4, <1>10
<1>13. RingInv'
  <2>1. Ring(used_ring, used_idx, used_idx_dev)'
    BY ZenonT(30), <1>3, <1>9 DEF Ring
  <2>2. Ring(avail_ring, seen, avail_idx)'
    BY <1>1, <1>3 DEF RingInv, Ring
  <2> QED
    BY <1>1, <1>3, <2>1, <2>2 DEF RingInv
<1>14. ChainInv'
  BY Zenon, <1>1, <1>3, ChainStays
<1>15. RequestInv'
  <2>1. \A e \in Desc : Pending(e)' = Pending(e) /\ addr'[e] = addr[e]
    BY <1>3 DEF Pending
  <2>2. ASSUME NEW e \in Desc, e \in inflight' \/ \E s \in Desc : avail_ring'[s] = e
        PROVE  Pending(e)' /\ addr'[e] \notin served'
    <3>1. Pending(e) /\ addr[e] \notin served
      BY Zenon, <1>1, <1>3, <2>2 DEF RequestInv
    <3>2. e # d
      BY ZenonT(30), <1>1, <1>3, <2>2 DEF RingInv
    <3>3. addr[e] # addr[d]
      BY ZenonT(60), <1>5, <3>1, <3>2, PendingFacts
    <3> QED
      BY Zenon, <1>3, <2>1, <3>1, <3>3
  <2>3. ASSUME NEW e \in Desc, \E s \in Desc : used_ring'[s] = e
        PROVE  Pending(e)' /\ addr'[e] \in served'
    <3>1. CASE e = d
      BY ZenonT(30), <1>3, <1>5, <2>1, <3>1
    <3>2. CASE e # d
      <4>1. \E s \in Desc : used_ring[s] = e
        BY Zenon, <1>12, <2>3, <3>2
      <4> QED
        BY ZenonT(40), <1>1, <1>3, <2>1, <4>1 DEF RequestInv
    <3> QED
      BY <3>1, <3>2
  <2>4. \A q \in Proc : q \in served' => pc'[q] = "wait"
    BY Zenon, <1>1, <1>3, <1>5 DEF RequestInv, Pending
  <2>5. \A q \in Proc : pc'[q] = "wait" /\ q \notin busy' => q \in served'
    BY ZenonT(30), <1>1, <1>3 DEF RequestInv
  <2> QED
    BY ZenonT(30), <2>2, <2>3, <2>4, <2>5 DEF RequestInv
<1> QED
  BY <1>11, <1>13, <1>14, <1>15 DEF IInv

(* The handler acknowledges the request whose chain the device names. *)
LEMMA IntrStep ==
  ASSUME VirtioConstants, IInv, intr_step
  PROVE  IInv'
<1>1. TypeOK /\ RingInv /\ ChainInv /\ RequestInv
  BY DEF IInv
<1>2. PICK a, d : a = used_idx % NUM /\ d = used_ring[a]
  OBVIOUS
<1>3. /\ used_idx # used_idx_dev /\ busy' = busy \ {info[d]}
      /\ used_ring' = [used_ring EXCEPT ![a] = None] /\ used_idx' = Inc(used_idx)
      /\ UNCHANGED <<free, next, addr, info, head, pc>>
      /\ avail_ring' = avail_ring /\ avail_idx' = avail_idx /\ seen' = seen
      /\ used_idx_dev' = used_idx_dev /\ inflight' = inflight /\ served' = served
  BY <1>2 DEF intr_step, UsedId, driver
<1>4. /\ used_ring \in [Desc -> Desc \cup {None}]
      /\ used_idx \in 0 .. UINT16 - 1 /\ used_idx_dev \in 0 .. UINT16 - 1
      /\ Ring(used_ring, used_idx, used_idx_dev)
  BY <1>1 DEF TypeOK, RingInv
<1>5. Ring([used_ring EXCEPT ![a] = None], Inc(used_idx), used_idx_dev) /\ d \in Desc
  BY ZenonT(30), <1>2, <1>3, <1>4, Pop
<1>6. None \notin Desc /\ a \in Desc /\ Inc(used_idx) \in 0 .. UINT16 - 1
  BY <1>2, <1>4, Sizes
<1>7. TypeOK'
  BY SMTT(40), <1>1, <1>3, <1>6 DEF TypeOK
<1>8. used_ring'[a] = None /\ \A s \in Desc : s # a => used_ring'[s] = used_ring[s]
  BY SMTT(40), <1>3, <1>4, <1>6
<1>9. RingInv'
  <2>1. Ring(used_ring, used_idx, used_idx_dev)'
    BY ZenonT(30), <1>3, <1>5 DEF Ring
  <2>2. Ring(avail_ring, seen, avail_idx)'
    BY <1>1, <1>3 DEF RingInv, Ring
  <2> QED
    BY <1>1, <1>3, <2>1, <2>2 DEF RingInv
<1>10. ChainInv'
  BY <1>1, <1>3, ChainStays
<1>11. Pending(d) /\ addr[d] \in served
  BY Zenon, <1>1, <1>2, <1>5, <1>6 DEF RequestInv
<1>12. info[d] = addr[d]
  BY Zenon, <1>5, <1>11, PendingFacts
<1>13. ASSUME NEW e \in Desc, Pending(e), e # d
       PROVE  Pending(e)' /\ addr'[e] = addr[e]
  <2>1. addr[e] # addr[d]
    BY ZenonT(30), <1>5, <1>11, <1>13, PendingFacts
  <2> QED
    BY ZenonT(30), <1>3, <1>12, <1>13, <2>1 DEF Pending
<1>14. RequestInv'
  <2>1. ASSUME NEW e \in Desc, e \in inflight' \/ \E s \in Desc : avail_ring'[s] = e
        PROVE  Pending(e)' /\ addr'[e] \notin served'
    <3>1. Pending(e) /\ addr[e] \notin served
      BY SMTT(40), <1>1, <1>3, <2>1 DEF RequestInv
    <3> QED
      BY ZenonT(30), <1>3, <1>11, <1>13, <3>1
  <2>2. ASSUME NEW e \in Desc, NEW s \in Desc, used_ring'[s] = e
        PROVE  Pending(e)' /\ addr'[e] \in served'
    <3>1. s # a /\ used_ring[s] = e
      BY ZenonT(30), <1>6, <1>8, <2>2
    <3>2. e # d
      BY <1>2, <1>4, <1>5, <1>6, <3>1 DEF Ring
    <3>3. Pending(e) /\ addr[e] \in served
      BY Zenon, <1>1, <3>1 DEF RequestInv
    <3> QED
      BY <1>3, <1>13, <3>2, <3>3
  <2>3. \A q \in Proc : q \in served' => pc'[q] = "wait"
    BY ZenonT(30), <1>1, <1>3 DEF RequestInv
  <2>4. \A q \in Proc : pc'[q] = "wait" /\ q \notin busy' => q \in served'
    BY <1>1, <1>3, <1>11, <1>12 DEF RequestInv
  <2> QED
    BY Zenon, <2>1, <2>2, <2>3, <2>4 DEF RequestInv
<1> QED
  BY <1>7, <1>9, <1>10, <1>14 DEF IInv

(* Sleeping, waking and entering or leaving the handler move no request. *)
LEMMA OtherStep ==
  ASSUME VirtioConstants, IInv,
         \/ \E p \in Proc : rw_full(p) \/ rw_sleep(p) \/ kill(p)
         \/ intr_enter \/ intr_panic \/ intr_exit \/ UNCHANGED vars
  PROVE  IInv'
<1>0. \/ \E p \in Proc : rw_full(p) \/ rw_sleep(p) \/ kill(p)
      \/ intr_enter \/ intr_exit \/ UNCHANGED vars
  BY DEF intr_panic
<1>1. TypeOK /\ RingInv /\ ChainInv /\ RequestInv
  BY ZenonT(30) DEF IInv
<1>2. /\ UNCHANGED <<free, next, addr, info, head>>
      /\ avail_ring' = avail_ring /\ avail_idx' = avail_idx /\ seen' = seen
      /\ used_ring' = used_ring /\ used_idx_dev' = used_idx_dev /\ used_idx' = used_idx
      /\ inflight' = inflight /\ served' = served /\ busy' = busy
  BY <1>0 DEF rw_full, rw_sleep, kill, intr_enter, intr_exit, vars, driver, procs, device
<1>3. /\ pc' \in [Proc -> {"idle", "alloc", "wait"}]
      /\ \A p \in Proc : pc'[p] = "wait" <=> pc[p] = "wait"
  <2>1. ASSUME NEW p \in Proc, rw_full(p)
        PROVE  /\ pc' \in [Proc -> {"idle", "alloc", "wait"}]
               /\ \A q \in Proc : pc'[q] = "wait" <=> pc[q] = "wait"
    BY ZenonT(30), <1>1, <2>1 DEF TypeOK, rw_full, Allocating
  <2>2. CASE \/ \E p \in Proc : rw_sleep(p) \/ kill(p)
             \/ intr_enter \/ intr_exit \/ UNCHANGED vars
    BY <1>1, <2>2 DEF TypeOK, rw_sleep, kill, intr_enter, intr_exit, vars, procs
  <2> QED
    BY <1>0, <2>1, <2>2
<1>4. TypeOK'
  BY Zenon, <1>1, <1>2, <1>3 DEF TypeOK
<1>5. RingInv'
  BY Zenon, <1>1, <1>2 DEF RingInv, Ring
<1>6. ChainInv'
  <2>1. \A p \in Proc : Chain(head[p])' = Chain(head[p])
    BY Zenon, <1>2 DEF Chain
  <2>2. /\ \A p \in Proc : pc'[p] = "wait" =>
              /\ head'[p] \in Desc /\ next'[head'[p]] \in Desc
              /\ next'[next'[head'[p]]] \in Desc
              /\ head'[p] # next'[head'[p]]
              /\ head'[p] # next'[next'[head'[p]]]
              /\ next'[head'[p]] # next'[next'[head'[p]]]
              /\ Chain(head[p])' \cap free' = {}
              /\ addr'[head'[p]] = p /\ info'[head'[p]] = p
    BY Zenon, <1>1, <1>2, <1>3, <2>1 DEF ChainInv
  <2>3. \A p, q \in Proc : pc'[p] = "wait" /\ pc'[q] = "wait" /\ p # q
                             => Chain(head[p])' \cap Chain(head[q])' = {}
    <3>1. ASSUME NEW p \in Proc, NEW q \in Proc, pc'[p] = "wait", pc'[q] = "wait", p # q
          PROVE  Chain(head[p])' \cap Chain(head[q])' = {}
      <4>1. Chain(head[p]) \cap Chain(head[q]) = {}
        BY Zenon, <1>1, <1>3, <3>1 DEF ChainInv
      <4> QED
        BY Zenon, <2>1, <4>1
    <3> QED
      BY Zenon, <3>1
  <2>4. \A d \in Desc \ free' : \E p \in Proc : pc'[p] = "wait" /\ d \in Chain(head[p])'
    <3>1. ASSUME NEW d \in Desc \ free' PROVE \E p \in Proc : pc'[p] = "wait" /\ d \in Chain(head[p])'
      <4>1. PICK p \in Proc : pc[p] = "wait" /\ d \in Chain(head[p])
        BY Zenon, <1>1, <1>2, <3>1 DEF ChainInv
      <4> QED
        BY Zenon, <1>3, <2>1, <4>1
    <3> QED
      BY Zenon, <3>1
  <2> QED
    BY Zenon, <2>2, <2>3, <2>4 DEF ChainInv
<1>7. RequestInv'
  BY Zenon, <1>1, <1>2, <1>3 DEF RequestInv, Pending
<1> QED
  BY <1>4, <1>5, <1>6, <1>7 DEF IInv

(* The entry of the used ring that the handler looks at next. *)
LEMMA UsedPending ==
  ASSUME VirtioConstants, IInv, used_idx # used_idx_dev
  PROVE  UsedId \in Desc /\ Pending(UsedId) /\ info[UsedId] = addr[UsedId]
<1>1. TypeOK /\ RingInv /\ RequestInv
  BY DEF IInv
<1>2. PICK a, d : a = used_idx % NUM /\ d = used_ring[a]
  OBVIOUS
<1>3. /\ used_ring \in [Desc -> Desc \cup {None}]
      /\ used_idx \in 0 .. UINT16 - 1 /\ used_idx_dev \in 0 .. UINT16 - 1
      /\ Ring(used_ring, used_idx, used_idx_dev)
  BY <1>1 DEF TypeOK, RingInv
<1>4. d \in Desc
  BY ZenonT(30), <1>2, <1>3, Pop
<1>5. a \in Desc
  BY <1>2, <1>3, Sizes
<1>6. Pending(d)
  BY Zenon, <1>1, <1>2, <1>4, <1>5 DEF RequestInv
<1>7. info[d] = addr[d]
  BY Zenon, <1>4, <1>6, PendingFacts
<1>8. UsedId = d
  BY Zenon, <1>2 DEF UsedId
<1> QED
  BY Zenon, <1>4, <1>6, <1>7, <1>8

LEMMA StatusStep ==
  ASSUME VirtioConstants, IInv, StatusInv, [Next]_vars
  PROVE  StatusInv'
<1>1. TypeOK /\ ChainInv
  BY DEF IInv
<1>2. ASSUME NEW p \in Proc, rw_submit(p) PROVE StatusInv'
  <2>1. free \in SUBSET Desc /\ Cardinality(free) >= 3
    BY <1>1, <1>2 DEF TypeOK, rw_submit
  <2>2. PICK x \in free : status' = status \ {x} /\ head' = [head EXCEPT ![p] = x]
    <3> DEFINE i0 == Min(free)
    <3>1. i0 \in free
      BY Zenon, <2>1, Three
    <3>2. status' = status \ {i0} /\ head' = [head EXCEPT ![p] = i0]
      BY Zenon, <1>2 DEF rw_submit
    <3> QED
      BY Zenon, <3>1, <3>2
  <2>3. busy' = busy \cup {p} /\ pc' = [pc EXCEPT ![p] = "wait"]
    BY Zenon, <1>2 DEF rw_submit
  <2>4. ASSUME NEW q \in Proc, pc'[q] = "wait", q \notin busy' PROVE head'[q] \in status'
    <3>1. q # p /\ q \notin busy
      BY Zenon, <2>3, <2>4
    <3>2. pc[q] = "wait" /\ head'[q] = head[q]
      BY Zenon, <1>1, <2>2, <2>3, <2>4, <3>1 DEF TypeOK
    <3>3. head[q] \in status
      BY Zenon, <3>1, <3>2 DEF StatusInv
    <3>4. head[q] \notin free
      BY Zenon, <1>1, <3>2 DEF ChainInv, Chain
    <3>5. head[q] # x
      BY Zenon, <3>4
    <3>6. head[q] \in status'
      BY SMTT(40), <2>2, <3>3, <3>5
    <3> QED
      BY Zenon, <3>2, <3>6
  <2> QED
    BY Zenon, <2>4 DEF StatusInv
<1>3. ASSUME NEW p \in Proc, rw_finish(p) PROVE StatusInv'
  <2>1. /\ pc' = [pc EXCEPT ![p] = "idle"] /\ head' = [head EXCEPT ![p] = None]
        /\ busy' = busy /\ status' = status
    BY Zenon, <1>3 DEF rw_finish
  <2>2. pc'[p] = "idle" /\ \A q \in Proc : q # p => pc'[q] = pc[q] /\ head'[q] = head[q]
    BY Zenon, <1>1, <2>1 DEF TypeOK
  <2> QED
    BY SMTT(40), <2>1, <2>2 DEF StatusInv
<1>4. ASSUME NEW p \in Proc, rw_full(p) PROVE StatusInv'
  <2>1. pc' = [pc EXCEPT ![p] = "alloc"] /\ head' = head /\ busy' = busy /\ status' = status
    BY Zenon, <1>4 DEF rw_full, device
  <2>2. pc'[p] = "alloc" /\ \A q \in Proc : q # p => pc'[q] = pc[q]
    BY Zenon, <1>1, <2>1 DEF TypeOK
  <2> QED
    BY SMTT(40), <2>1, <2>2 DEF StatusInv
<1>5. CASE intr_step
  <2>1. PICK d : d = UsedId
    BY Zenon
  <2>2. /\ used_idx # used_idx_dev /\ d \in status /\ busy' = busy \ {info[d]}
        /\ pc' = pc /\ head' = head /\ status' = status
    BY Zenon, <1>5, <2>1 DEF intr_step
  <2>3. d \in Desc /\ Pending(d) /\ info[d] = addr[d]
    BY Zenon, <2>1, <2>2, UsedPending
  <2>4. head[info[d]] = d
    BY Zenon, <2>3 DEF Pending
  <2> QED
    BY SMTT(40), <2>2, <2>4 DEF StatusInv
<1>6. ASSUME NEW d \in Desc, dev_complete(d) PROVE StatusInv'
  <2>1. pc' = pc /\ head' = head /\ busy' = busy /\ status \subseteq status'
    BY SMTT(40), <1>6 DEF dev_complete, procs
  <2> QED
    BY SMTT(40), <2>1 DEF StatusInv
<1>7. CASE \/ \E p \in Proc : rw_sleep(p) \/ kill(p)
           \/ dev_take \/ intr_enter \/ intr_panic \/ intr_exit \/ UNCHANGED vars
  <2>1. pc' = pc /\ head' = head /\ busy' = busy /\ status' = status
    BY ZenonT(60), <1>7
    DEF rw_sleep, kill, dev_take, intr_enter, intr_panic, intr_exit, vars, procs, device
  <2> QED
    BY SMTT(40), <2>1 DEF StatusInv
<1> QED
  BY SMTT(40), <1>2, <1>3, <1>4, <1>5, <1>6, <1>7 DEF Next

LEMMA Invariance ==
  ASSUME VirtioConstants
  PROVE  Spec => [](IInv /\ StatusInv)
<1>1. Init => IInv /\ StatusInv
  <2>1. ASSUME Init PROVE \A p \in Proc : pc[p] = "idle"
    BY Zenon, <2>1 DEF Init
  <2>2. ASSUME Init PROVE StatusInv
    BY <2>1, <2>2 DEF StatusInv
  <2> QED
    BY InitIInv, <2>2
<1>2. IInv /\ [Next]_vars => IInv'
  BY SubmitStep, FinishStep, TakeStep, CompleteStep, IntrStep, OtherStep DEF Next
<1>3. IInv /\ StatusInv /\ [Next]_vars => StatusInv'
  BY StatusStep
<1> QED
  BY <1>1, <1>2, <1>3, PTL DEF Spec

(* virtio_disk_rw() and virtio_disk_intr() (kernel/virtio_disk.c) keep the *)
(* descriptors apart: each is free or in the chain of one waiting process, *)
(* the device works only on buffers whose process waits, and a process     *)
(* returns after its own transfer and only if that succeeded, however      *)
(* requests are reordered and wherever the indices of the rings wrap.      *)
THEOREM VirtioTransfersOwned ==
  ASSUME VirtioConstants
  PROVE  Spec => []TransfersOwned
<1>1. ASSUME IInv, StatusInv
      PROVE  TransfersOwned
  <2>1. TypeOK /\ ChainInv /\ RequestInv
    BY <1>1 DEF IInv
  <2>2. ASSUME NEW p \in Proc, pc[p] = "wait"
        PROVE  /\ Cardinality(Chain(head[p])) = 3 /\ Chain(head[p]) \cap free = {}
               /\ Chain(head[p]) \subseteq Desc
    <3> DEFINE x == head[p]
               y == next[x]
               z == next[y]
    <3>1. x # y /\ x # z /\ y # z /\ Chain(x) = {x, y, z}
          /\ Chain(x) \cap free = {} /\ Chain(x) \subseteq Desc
      BY <2>1, <2>2 DEF ChainInv, Chain
    <3> HIDE DEF x, y, z
    <3>2. IsFiniteSet({x}) /\ Cardinality({x}) = 1
      BY Zenon, FS_Singleton
    <3>3. IsFiniteSet({x} \cup {y}) /\ Cardinality({x} \cup {y}) = 2
      <4>1. y \notin {x}
        BY <3>1
      <4>2. IsFiniteSet({x} \cup {y}) /\ Cardinality({x} \cup {y}) = Cardinality({x}) + 1
        BY <3>2, <4>1, FS_AddElement
      <4> QED
        BY <3>2, <4>2
    <3>4. Cardinality({x} \cup {y} \cup {z}) = 3
      <4>1. z \notin {x} \cup {y}
        BY SMTT(40), <3>1
      <4>2. Cardinality({x} \cup {y} \cup {z}) = Cardinality({x} \cup {y}) + 1
        BY <3>3, <4>1, FS_AddElement
      <4> QED
        BY <3>3, <4>2
    <3>5. {x} \cup {y} \cup {z} = {x, y, z}
      BY Zenon
    <3> QED
      BY ZenonT(30), <3>1, <3>4, <3>5 DEF x
  <2>3. \A p, q \in Proc : pc[p] = "wait" /\ pc[q] = "wait" /\ p # q
                             => Chain(head[p]) \cap Chain(head[q]) = {}
    BY ZenonT(40), <2>1 DEF ChainInv
  <2>4. free \cup UNION {Chain(head[p]) : p \in {q \in Proc : pc[q] = "wait"}} = Desc
    BY SMTT(30), <2>1, <2>2 DEF TypeOK, ChainInv
  <2>5. ASSUME NEW d \in ({avail_ring[s] : s \in Desc} \ {None}) \cup inflight
        PROVE  addr[d] \in (busy \cap {p \in Proc : pc[p] = "wait"}) \ served
    <3>1. d \in Desc /\ (d \in inflight \/ \E s \in Desc : avail_ring[s] = d)
      BY SMTT(40), <2>1 DEF TypeOK
    <3> QED
      BY SMTT(40), <2>1, <3>1 DEF RequestInv, Pending
  <2>6. \A p \in {q \in Proc : pc[q] = "wait"} \ busy : p \in served /\ head[p] \in status
    BY <1>1, <2>1 DEF RequestInv, StatusInv
  <2> QED
    BY <2>2, <2>3, <2>4, <2>5, <2>6 DEF TransfersOwned
<1> QED
  BY <1>1, Invariance, PTL
=============================================================================
