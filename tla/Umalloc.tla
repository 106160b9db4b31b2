------------------------------- MODULE Umalloc -------------------------------
(***************************************************************************)
(* The user-level allocator of user/umalloc.c.  Addresses and sizes are in *)
(* units of a Header.  Address 1 is the static base, below the heap, which *)
(* begins at 2; address 0 is the null pointer.                             *)
(*                                                                         *)
(* sbrk() extends the heap by what it is asked for, or fails beyond LIMIT. *)
(* The program may also call sbrk() itself, a multiple of a Header, which  *)
(* leaves a gap that is not malloc's.  Requests are small enough that      *)
(* nu * sizeof(Header) fits sbrk()'s int.  A header that no longer begins  *)
(* a block, and the ptr of a block in use, are set to 0: the code leaves   *)
(* them, and writes them before it reads them again.                       *)
(***************************************************************************)
EXTENDS Integers, FiniteSets

CONSTANTS
  HDR,          \* sizeof(Header)
  CORE,         \* the least number of units morecore() asks for (4096)
  LIMIT,        \* the heap may grow up to this address
  Requests,     \* the nbytes a program asks for
  Gaps          \* the units a program takes with its own sbrk()

UmallocAssumption ==
  /\ {HDR, CORE, LIMIT} \subseteq Nat \ {0}
  /\ Requests \subseteq Nat /\ Gaps \subseteq Nat

VARIABLES
  h,            \* ptr and size of the header at each address, and freep
  brk,          \* the end of the heap
  owned,        \* the units morecore() got
  used          \* [block -> nbytes]: what malloc() returned and is not freed

vars == <<h, brk, owned, used>>

null == 0
base == 1

Init ==
  /\ h = [ptr |-> [a \in base..LIMIT |-> null], size |-> [a \in base..LIMIT |-> 0],
          freep |-> null]
  /\ brk = base + 1 /\ owned = {} /\ used = << >>

-----------------------------------------------------------------------------
(* for(p = freep; ...) of free(): the free block after which bp belongs.   *)
RECURSIVE Place(_, _, _)
Place(m, p, bp) ==
  LET next == m.ptr[p]
  IN IF (bp > p /\ bp < next) \/ (p >= next /\ (bp > p \/ bp < next)) THEN p
     ELSE Place(m, next, bp)

MutNoLowerMerge(m, bp) ==
  LET p == Place(m, m.freep, bp)
      next == m.ptr[p]
      up == IF bp + m.size[bp] = next
              THEN [m EXCEPT !.size[bp] = @ + m.size[next], !.ptr[bp] = m.ptr[next],
                             !.size[next] = 0, !.ptr[next] = null]
              ELSE [m EXCEPT !.ptr[bp] = next]
  IN [up EXCEPT !.ptr[p] = bp, !.freep = p]

(* The block is linked in after p, joined with the free block above it and *)
(* with p, where they touch.                                               *)
free(m, bp) ==
  LET p == Place(m, m.freep, bp)
      next == m.ptr[p]
      up == IF bp + m.size[bp] = next
              THEN [m EXCEPT !.size[bp] = @ + m.size[next], !.ptr[bp] = m.ptr[next],
                             !.size[next] = 0, !.ptr[next] = null]
              ELSE [m EXCEPT !.ptr[bp] = next]
      low == IF p + up.size[p] = bp
               THEN [up EXCEPT !.size[p] = @ + up.size[bp], !.ptr[p] = up.ptr[bp],
                               !.size[bp] = 0, !.ptr[bp] = null]
               ELSE [up EXCEPT !.ptr[p] = bp]
  IN [low EXCEPT !.freep = p]

nunits(nbytes) == (nbytes + HDR - 1) \div HDR + 1

More(nu) == IF nu < CORE THEN CORE ELSE nu

(* The state of the allocator while malloc() runs: m, the heap's end e and *)
(* the units o.  morecore() gives its new block to free().                 *)
Grows(e, nu) == e + More(nu) <= LIMIT

morecore(s, nu) ==
  [s EXCEPT !.m = free([s.m EXCEPT !.size[s.e] = More(nu)], s.e),
            !.e = @ + More(nu), !.o = @ \cup s.e..(s.e + More(nu) - 1)]

(* The block taken from p: p itself when it fits exactly, or its tail.     *)
Take(m, prevp, p, nu) ==
  LET rest == m.size[p] - nu
  IN IF rest = 0 THEN [bp |-> p, m |-> [m EXCEPT !.ptr[prevp] = m.ptr[p], !.ptr[p] = null,
                                                    !.freep = prevp]]
     ELSE [bp |-> p + rest,
           m |-> [m EXCEPT !.size[p] = rest, !.size[p + rest] = nu, !.freep = prevp]]

(* for(p = prevp->s.ptr; ; prevp = p, p = p->s.ptr) of malloc().           *)
RECURSIVE Scan(_, _, _, _)
Scan(s, prevp, p, nu) ==
  IF s.m.size[p] >= nu
    THEN LET t == Take(s.m, prevp, p, nu) IN [s EXCEPT !.m = t.m, !.bp = t.bp]
  ELSE IF p # s.m.freep THEN Scan(s, p, s.m.ptr[p], nu)
  ELSE IF ~Grows(s.e, nu) THEN s
  ELSE LET t == morecore(s, nu) IN Scan(t, t.m.freep, t.m.ptr[t.m.freep], nu)

Started(m) == IF m.freep = null
                THEN [m EXCEPT !.ptr[base] = base, !.size[base] = 0, !.freep = base]
                ELSE m

malloc(nbytes) ==
  LET m == Started(h)
      s == Scan([m |-> m, e |-> brk, o |-> owned, bp |-> null],
                m.freep, m.ptr[m.freep], nunits(nbytes))
  IN /\ h' = s.m /\ brk' = s.e /\ owned' = s.o
     /\ used' = [b \in DOMAIN used \cup ({s.bp} \ {null}) |->
                   IF b = s.bp THEN nbytes ELSE used[b]]

release(b) ==
  /\ h' = free(h, b)
  /\ used' = [c \in DOMAIN used \ {b} |-> used[c]]
  /\ UNCHANGED <<brk, owned>>

(* The program calls sbrk() itself.                                        *)
sbrk(n) == brk + n <= LIMIT /\ brk' = brk + n /\ UNCHANGED <<h, owned, used>>

Next ==
  \/ \E nbytes \in Requests : malloc(nbytes)
  \/ \E b \in DOMAIN used : release(b)
  \/ \E n \in Gaps : sbrk(n)

Spec == Init /\ [][Next]_vars

-----------------------------------------------------------------------------
RECURSIVE Ring(_, _)
Ring(p, seen) == IF p \in seen THEN seen ELSE Ring(h.ptr[p], seen \cup {p})

Units(b) == b..(b + h.size[b] - 1)

(* Whatever the order of malloc() and free(), the units that morecore()    *)
(* got are exactly the free blocks and the blocks in use, none overlapping *)
(* another and none lost; each block in use has room for its header and    *)
(* the bytes asked for; the free list is a ring in address order in which  *)
(* no two blocks touch.                                                    *)
HeapTiled ==
  LET ring == Ring(base, {})
      blocks == (ring \ {base}) \cup DOMAIN used
  IN h.freep # null =>
       /\ h.freep \in ring /\ ring \cap DOMAIN used = {}
       /\ UNION {Units(b) : b \in blocks} = owned
       /\ \A b, c \in blocks : b # c => Units(b) \cap Units(c) = {}
       /\ \A b \in DOMAIN used : (h.size[b] - 1) * HDR >= used[b]
       /\ \A b \in ring : b < h.ptr[b] => b + h.size[b] < h.ptr[b]
       /\ Cardinality({b \in ring : b >= h.ptr[b]}) = 1

=============================================================================
