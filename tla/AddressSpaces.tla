--------------------------- MODULE AddressSpaces ----------------------------
(***************************************************************************)
(* What user memory promises: every process has an array of pages of its   *)
(* own, which only that process changes. A call that fails changes none.   *)
(***************************************************************************)
EXTENDS Naturals, Sequences

CONSTANTS Proc, Val,
          Images,  \* what exec() may load
          Zero,    \* a page that has just been added
          None     \* no process

VARIABLE img

Init == \E p \in Proc : \E v \in Val :
          img = [q \in Proc |-> IF q = p THEN <<v>> ELSE None]

(* What one process does to its own pages, from a to b. *)
Exec(a, b) == b \in Images
Grow(a, b) == b = a \o [k \in 1 .. Len(b) - Len(a) |-> Zero]
Shrink(a, b) == b = SubSeq(a, 1, Len(b))
Store(a, b) == \E k \in 1 .. Len(a) : \E v \in Val : b = [a EXCEPT ![k] = v]

(* The steps from the images old to the images new. *)
Fork(p, q, old, new) == old[q] = None /\ new = [old EXCEPT ![q] = old[p]]
Reap(p, old, new) == new = [old EXCEPT ![p] = None]
Own(p, old, new) ==
  /\ new = [old EXCEPT ![p] = new[p]]
  /\ new[p] # None
  /\ \/ Exec(old[p], new[p]) \/ Store(old[p], new[p])
     \/ Len(old[p]) <= Len(new[p]) /\ Grow(old[p], new[p])
     \/ Len(new[p]) <= Len(old[p]) /\ Shrink(old[p], new[p])

Step(old, new) ==
  old # new /\ \E p \in Proc :
    /\ old[p] # None
    /\ Own(p, old, new) \/ Reap(p, old, new) \/ \E q \in Proc : Fork(p, q, old, new)

Spec == Init /\ [][Step(img, img')]_img
=============================================================================
