------------------------------- MODULE Mutex --------------------------------
(***************************************************************************)
(* What a sleep lock promises: the section it guards has at most one       *)
(* process inside, and the lock names that process, whom holdingsleep()    *)
(* recognises.                                                             *)
(***************************************************************************)
CONSTANTS Proc, NoProc

VARIABLES inside, holder

Init == inside = {} /\ holder = NoProc

Enter(p) == inside = {} /\ inside' = {p} /\ holder' = p

Leave(p) == inside = {p} /\ inside' = {} /\ holder' = NoProc

Next == \E p \in Proc : Enter(p) \/ Leave(p)

Spec == Init /\ [][Next]_<<inside, holder>>
=============================================================================
