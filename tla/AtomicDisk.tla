----------------------------- MODULE AtomicDisk -----------------------------
(***************************************************************************)
(* What the xv6 log promises to the file system calls above it: a set of   *)
(* blocks whose durable contents change only in one indivisible step, and  *)
(* only at an instant at which no file system call is in progress, so that *)
(* a crash keeps or loses each call as a whole.                            *)
(***************************************************************************)
CONSTANTS Proc,   \* processes making file system calls
          Block,  \* disk blocks outside the log
          Val     \* contents of a block

VARIABLES mem,      \* block contents as file system calls see them
          durable,  \* block contents a crash would leave
          active    \* processes between begin_op() and end_op()

vars == <<mem, durable, active>>

TypeOK == /\ mem \in [Block -> Val]
          /\ durable \in [Block -> Val]
          /\ active \subseteq Proc

Init == /\ durable \in [Block -> Val]
        /\ mem = durable
        /\ active = {}

Begin(p) == /\ p \notin active
            /\ active' = active \cup {p}
            /\ UNCHANGED <<mem, durable>>

Write(p, b, v) == /\ p \in active
                  /\ mem' = [mem EXCEPT ![b] = v]
                  /\ UNCHANGED <<durable, active>>

End(p) == /\ p \in active
          /\ active' = active \ {p}
          /\ UNCHANGED <<mem, durable>>

(* The only step that makes writes durable: all of them, between calls. *)
Commit == /\ active = {}
          /\ durable' = mem
          /\ UNCHANGED <<mem, active>>

(* Power loss: the calls in progress, and those not yet committed, vanish. *)
Crash == /\ mem' = durable
         /\ active' = {}
         /\ UNCHANGED durable

Next == \/ \E p \in Proc : Begin(p) \/ End(p)
        \/ \E p \in Proc, b \in Block, v \in Val : Write(p, b, v)
        \/ Commit
        \/ Crash

Spec == Init /\ [][Next]_vars
=============================================================================
