----------------------------- MODULE FileStore ------------------------------
(***************************************************************************)
(* What the block layer promises: every inode is an array of bytes of its  *)
(* own. A write lands in one file, over what is there or at its end; one   *)
(* that fails half way has stored a beginning of its bytes. What it stored *)
(* beyond the bytes it reports may be undone later, and nothing else.      *)
(***************************************************************************)
EXTENDS Integers, Sequences

CONSTANTS Inum, Byte, Initial, MaxWrite

VARIABLES
  content,
  undo   \* of each file: <<k, v>> where byte k may become v again

(* old with t bytes v from off on; the file grows by the first tot only. *)
Overlay(old, off, v, t, tot) ==
  [k \in 1 .. (IF off + tot > Len(old) THEN off + tot ELSE Len(old)) |->
     IF k > off /\ k <= off + t THEN v ELSE old[k]]

(* The steps of one file, from content old and undo u to new and w. *)
Write(old, new, u, w) ==
  \E off \in 0 .. Len(old), v \in Byte, t \in 0 .. MaxWrite : \E tot \in 0 .. t :
    /\ new = Overlay(old, off, v, t, tot)
    /\ \A x \in w :
         \/ x \in u /\ x[1] \notin off + 1 .. off + tot
         \/ x[1] \in off + tot + 1 .. off + t /\ x[1] <= Len(old) /\ x[2] = old[x[1]]

Truncate(new, w) == new = << >> /\ w = {}

(* The bytes that are no longer to be undone have been. *)
Revert(old, new, u, w) ==
  /\ w \subseteq u
  /\ DOMAIN new = DOMAIN old
  /\ \A k \in DOMAIN old :
       LET back == {x \in u \ w : x[1] = k} IN
       IF back = {} THEN new[k] = old[k] ELSE \E x \in back : new[k] = x[2]

Step(old, new, u, w) ==
  \E i \in Inum :
    /\ new = [old EXCEPT ![i] = new[i]] /\ w = [u EXCEPT ![i] = w[i]]
    /\ \/ Truncate(new[i], w[i])
       \/ Write(old[i], new[i], u[i], w[i])
       \/ Revert(old[i], new[i], u[i], w[i])

Init == content = Initial /\ undo = [i \in Inum |-> {}]
Next == <<content, undo>> # <<content, undo>>' /\ Step(content, content', undo, undo')
Spec == Init /\ [][Next]_<<content, undo>>
=============================================================================
