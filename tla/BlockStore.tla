----------------------------- MODULE BlockStore -----------------------------
(***************************************************************************)
(* What the buffer cache promises: every block has one content, which only *)
(* the process that has the block locked can see or change.                *)
(***************************************************************************)
CONSTANTS Proc, Block, Val, NoProc

VARIABLES content, holder

Init == /\ content \in [Block -> Val]
        /\ holder = [b \in Block |-> NoProc]

Lock(p, b) ==
  /\ holder[b] = NoProc
  /\ holder' = [holder EXCEPT ![b] = p]
  /\ UNCHANGED content

Change(p, b, v) ==
  /\ holder[b] = p
  /\ content' = [content EXCEPT ![b] = v]
  /\ UNCHANGED holder

Unlock(p, b) ==
  /\ holder[b] = p
  /\ holder' = [holder EXCEPT ![b] = NoProc]
  /\ UNCHANGED content

Next == \E p \in Proc, b \in Block :
          Lock(p, b) \/ Unlock(p, b) \/ \E v \in Val : Change(p, b, v)

Spec == Init /\ [][Next]_<<content, holder>>
=============================================================================
