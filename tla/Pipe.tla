-------------------------------- MODULE Pipe --------------------------------
(***************************************************************************)
(* A pipe (kernel/pipe.c) between several writers and readers, which share *)
(* the two open files after fork(). Between two steps of a call that holds *)
(* pi->lock only kill() can intervene, and p->killed is the one thing the  *)
(* loops read that the lock does not protect. sleep() and wakeup() are     *)
(* atomic, as module SleepLock shows.                                      *)
(***************************************************************************)
EXTENDS Naturals, Sequences

CONSTANTS Writers, Readers, \* the processes that hold each end
          Byte,
          Free,             \* nobody holds pi->lock
          PIPESIZE,
          UINT,             \* nread and nwrite are counted modulo this
          Counts,           \* bound: the n of reads and writes
          Victims           \* bound: the processes that may be killed

Procs == Writers \cup Readers

(* 512 divides 2^32, so the index into data survives the wrap. *)
PipeConstants ==
  /\ PIPESIZE \in Nat \ {0}
  /\ UINT \in Nat
  /\ PIPESIZE < UINT
  /\ UINT % PIPESIZE = 0
  /\ Counts \subseteq Nat
  /\ Writers \cap Readers = {}
  /\ Free \notin Procs
  /\ Victims \subseteq Procs

VARIABLES
  data, nread, nwrite, readopen, writeopen,  \* struct pipe
  lock,    \* holder of pi->lock
  ends,    \* the processes whose descriptor of their end is open
  killed,  \* p->killed
  chan,    \* what a sleeping process sleeps on
  pc, n, i \* the call in progress, its count and its loop variable

pipe == <<data, nread, nwrite, readopen, writeopen>>
vars == <<pipe, lock, ends, killed, chan, pc, n, i>>

(* pipealloc(), then fork() of every other holder of an end. *)
Init ==
  /\ data \in [0 .. PIPESIZE - 1 -> Byte]
  /\ nread = 0
  /\ nwrite = 0
  /\ readopen = TRUE
  /\ writeopen = TRUE
  /\ lock = Free
  /\ ends = Procs
  /\ killed = {}
  /\ chan = [p \in Procs |-> "none"]
  /\ pc = [p \in Procs |-> "idle"]
  /\ n = [p \in Procs |-> 0]
  /\ i = [p \in Procs |-> 0]

Empty == nread = nwrite

MutFullLate == nwrite = (nread + PIPESIZE + 1) % UINT

Full == nwrite = (nread + PIPESIZE) % UINT

Goto(p, l) == pc' = [pc EXCEPT ![p] = l]

Awake(p) == chan[p] = "none"

Wakeup(c) == [q \in Procs |-> IF chan[q] = c THEN "none" ELSE chan[q]]

(* A call returns: the lock is released, its locals are dead. *)
Return(p) ==
  /\ lock' = Free
  /\ n' = [n EXCEPT ![p] = 0]
  /\ i' = [i EXCEPT ![p] = 0]
  /\ Goto(p, "idle")

(* sleep(), when chans are the channels of all processes afterwards. *)
Sleep(p, chans, woken) ==
  /\ lock' = Free
  /\ chan' = chans
  /\ Goto(p, woken)

-----------------------------------------------------------------------------
(* pipewrite() *)

(* A read or a write starts. usertrap() does not let a killed process in.  *)
call(p, count) ==
  /\ pc[p] = "idle"
  /\ p \in ends \ killed
  /\ lock = Free
  /\ lock' = p
  /\ n' = [n EXCEPT ![p] = count]
  /\ Goto(p, IF p \in Writers THEN "write" ELSE "read")
  /\ UNCHANGED <<pipe, ends, killed, chan, i>>

(* sleep() ends: the lock is taken again. *)
reacquire(p) ==
  /\ pc[p] \in {"woken_w", "woken_r"}
  /\ Awake(p)
  /\ lock = Free
  /\ lock' = p
  /\ Goto(p, IF p \in Writers THEN "write" ELSE "read")
  /\ UNCHANGED <<pipe, ends, killed, chan, n, i>>

(* The head of the loop. A writer that gives up returns without waking a   *)
(* reader, whatever it has written.                                        *)
write_check(p) ==
  /\ pc[p] = "write"
  /\ \/ /\ i[p] = n[p]
        /\ chan' = Wakeup("nread")
        /\ Return(p)
     \/ /\ i[p] < n[p]
        /\ ~readopen \/ p \in killed
        /\ Return(p)
        /\ UNCHANGED chan
     \/ /\ i[p] < n[p]
        /\ readopen /\ p \notin killed
        /\ Goto(p, "put")
        /\ UNCHANGED <<lock, chan, n, i>>
  /\ UNCHANGED <<pipe, ends, killed>>

(* data[nwrite++ % PIPESIZE] = ch *)
Store ==
  /\ data' \in {[data EXCEPT ![nwrite % PIPESIZE] = b] : b \in Byte}
  /\ nwrite' = (nwrite + 1) % UINT

(* The rest of the loop body: sleep when full, else copy a byte in, which  *)
(* may fail.                                                               *)
write_put(p) ==
  /\ pc[p] = "put"
  /\ \/ /\ Full
        /\ Sleep(p, [Wakeup("nread") EXCEPT ![p] = "nwrite"], "woken_w")
        /\ UNCHANGED <<data, nwrite, n, i>>
     \/ /\ ~Full
        /\ Store
        /\ i' = [i EXCEPT ![p] = @ + 1]
        /\ Goto(p, "write")
        /\ UNCHANGED <<lock, chan, n>>
     \/ /\ ~Full
        /\ chan' = Wakeup("nread")
        /\ Return(p)
        /\ UNCHANGED <<data, nwrite>>
  /\ UNCHANGED <<nread, readopen, writeopen, ends, killed>>

-----------------------------------------------------------------------------
(* piperead() *)

read_check(p) ==
  /\ pc[p] = "read"
  /\ \/ /\ Empty /\ writeopen
        /\ \/ p \in killed /\ Return(p)
           \/ p \notin killed /\ Goto(p, "empty") /\ UNCHANGED <<lock, n, i>>
     \/ /\ ~Empty \/ ~writeopen
        /\ Goto(p, "copy")
        /\ UNCHANGED <<lock, n, i>>
  /\ UNCHANGED <<pipe, ends, killed, chan>>

read_sleep(p) ==
  /\ pc[p] = "empty"
  /\ Sleep(p, [chan EXCEPT ![p] = "nread"], "woken_r")
  /\ UNCHANGED <<pipe, ends, killed, n, i>>

MutNoWakeup == chan

(* wakeup(&pi->nwrite) at the end of piperead(). *)
WakeWriters == Wakeup("nwrite")

(* One round of the copy loop; a byte that copyout() fails to deliver has  *)
(* left the pipe.                                                          *)
read_copy(p) ==
  /\ pc[p] = "copy"
  /\ \/ /\ i[p] < n[p] /\ ~Empty
        /\ nread' = (nread + 1) % UINT
        /\ \/ /\ i' = [i EXCEPT ![p] = @ + 1]
              /\ UNCHANGED <<lock, chan, pc, n>>
           \/ chan' = WakeWriters /\ Return(p)
     \/ /\ i[p] = n[p] \/ Empty
        /\ chan' = WakeWriters
        /\ Return(p)
        /\ UNCHANGED nread
  /\ UNCHANGED <<data, nwrite, readopen, writeopen, ends, killed>>

-----------------------------------------------------------------------------
pipeclose(p) ==
  /\ readopen' = (readopen /\ p \notin Readers)
  /\ writeopen' = (writeopen /\ p \notin Writers)
  /\ chan' = Wakeup(IF p \in Writers THEN "nread" ELSE "nwrite")

(* close(), or exit(): fileclose() calls pipeclose() for the last holder.  *)
close(p) ==
  LET end == IF p \in Writers THEN Writers ELSE Readers IN
  /\ pc[p] = "idle"
  /\ p \in ends
  /\ lock = Free
  /\ ends' = ends \ {p}
  /\ \/ ends \cap end # {p} /\ UNCHANGED <<readopen, writeopen, chan>>
     \/ ends \cap end = {p} /\ pipeclose(p)
  /\ UNCHANGED <<data, nread, nwrite, lock, killed, pc, n, i>>

kill(p) ==
  /\ p \in Victims \ killed
  /\ killed' = killed \cup {p}
  /\ chan' = [chan EXCEPT ![p] = "none"]
  /\ UNCHANGED <<pipe, lock, ends, pc, n, i>>

Step(p) == \/ reacquire(p)
           \/ write_check(p) \/ write_put(p)
           \/ read_check(p) \/ read_sleep(p) \/ read_copy(p)

Next ==
  \E p \in Procs : \/ \E count \in Counts : call(p, count)
                   \/ Step(p) \/ close(p) \/ kill(p)

Spec == Init /\ [][Next]_vars

-----------------------------------------------------------------------------
(* Properties *)

(* The bytes in the buffer, oldest first. *)
Contents == [k \in 1 .. (nwrite + UINT - nread) % UINT |->
               data[(nread + k - 1) % PIPESIZE]]

(* Whatever the wrapping counters do, the pipe is a queue of at most        *)
(* PIPESIZE bytes.                                                          *)
Stream == INSTANCE ByteQueue WITH queue <- Contents, Size <- PIPESIZE
IsQueue == Stream!Spec

(* A writer sleeps only while the pipe is full and has a reader, a reader   *)
(* only while it is empty and has a writer: no change of the counters or of *)
(* the two flags is without the wakeup of the side that waits for it.       *)
NoneStranded ==
  lock = Free =>
    \A p \in Procs : /\ chan[p] = "nwrite" => Full /\ readopen
                     /\ chan[p] = "nread" => Empty /\ writeopen
=============================================================================
