----------------------------- MODULE ByteQueue ------------------------------
(***************************************************************************)
(* What a pipe promises: a queue of bounded size, in which bytes leave in  *)
(* the order in which they came.                                           *)
(***************************************************************************)
EXTENDS Naturals, Sequences

CONSTANTS Byte, Size

VARIABLE queue

Init == queue = << >>

Put(b) == Len(queue) < Size /\ queue' = Append(queue, b)

Take == queue # << >> /\ queue' = Tail(queue)

Next == (\E b \in Byte : Put(b)) \/ Take

Spec == Init /\ [][Next]_queue
=============================================================================
