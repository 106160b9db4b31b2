----------------------------- MODULE SleepLock ------------------------------
(***************************************************************************)
(* Sleep locks (kernel/sleeplock.c) over sleep(), wakeup(), sched(),       *)
(* yield() and scheduler() of kernel/proc.c, at the grain of single lock   *)
(* operations: processes on several CPUs contend for one sleep lock, are   *)
(* preempted by timer interrupts and woken spuriously by kill().           *)
(*                                                                         *)
(* A spin lock is owned by a CPU. p->lock is taken by the process that     *)
(* goes to sleep and released by the scheduler of the same CPU, and the    *)
(* other way round when the process runs again.                            *)
(***************************************************************************)
EXTENDS Naturals

CONSTANTS NPROC,  \* processes are 1 .. NPROC, in process table order
          CPU,    \* the cores
          NoCPU,  \* a free spin lock
          NoProc  \* no process: the core runs its scheduler

Procs == 1 .. NPROC

SleepLockConstants ==
  /\ NPROC \in Nat \ {0}
  /\ NoCPU \notin CPU
  /\ NoProc \notin Procs

VARIABLES
  locked,  \* lk->locked of the sleep lock
  owner,   \* lk->pid of the sleep lock
  lk,      \* the CPU that holds the spin lock lk->lk
  plock,   \* the CPU that holds p->lock
  state,   \* p->state
  chan,    \* p->chan is the sleep lock
  cpu,     \* the process whose kernel thread a CPU is executing
  pc,      \* what that thread does next
  ret,     \* where a preempted thread continues
  scan     \* loop variable of wakeup()

sleeplock == <<locked, owner, lk>>
vars == <<locked, owner, lk, plock, state, chan, cpu, pc, ret, scan>>

(* Every process has been forked and waits for a CPU, at a point at which  *)
(* it holds no lock.                                                       *)
Init ==
  /\ locked = FALSE
  /\ owner = NoProc
  /\ lk = NoCPU
  /\ plock = [p \in Procs |-> NoCPU]
  /\ state = [p \in Procs |-> "RUNNABLE"]
  /\ chan = [p \in Procs |-> FALSE]
  /\ cpu = [c \in CPU |-> NoProc]
  /\ pc = [p \in Procs |-> "resume"]
  /\ ret = [p \in Procs |-> "idle"]
  /\ scan = [p \in Procs |-> 1]

Goto(p, l) == pc' = [pc EXCEPT ![p] = l]

(* p executes on c and is at l. *)
At(c, p, l) == cpu[c] = p /\ pc[p] = l

-----------------------------------------------------------------------------
(* acquiresleep() *)

(* acquiresleep() or releasesleep() is called, or sleep() ends: acquire(lk) *)
(* turns interrupts off, so that the process is not preempted as it spins. *)
call(c, p) ==
  /\ \/ At(c, p, "idle") /\ Goto(p, "acq")
     \/ At(c, p, "again") /\ Goto(p, "acq")
     \/ At(c, p, "cs") /\ Goto(p, "racq")
  /\ UNCHANGED <<locked, owner, lk, plock, state, chan, cpu, ret, scan>>

acquire_lk(c, p) ==
  /\ \/ At(c, p, "acq") /\ Goto(p, "test")
     \/ At(c, p, "racq") /\ Goto(p, "rel")
  /\ lk = NoCPU
  /\ lk' = c
  /\ UNCHANGED <<locked, owner, plock, state, chan, cpu, ret, scan>>

MutNoTest(c, p) ==
  /\ At(c, p, "test")
  /\ locked' = TRUE
  /\ owner' = p
  /\ lk' = NoCPU
  /\ Goto(p, "cs")
  /\ UNCHANGED <<plock, state, chan, cpu, ret, scan>>

(* The while test: take the lock and release lk->lk, or call sleep(). *)
acquiresleep(c, p) ==
  /\ At(c, p, "test")
  /\ \/ /\ ~locked
        /\ locked' = TRUE
        /\ owner' = p
        /\ lk' = NoCPU
        /\ Goto(p, "cs")
     \/ /\ locked
        /\ Goto(p, "slp_lock")
        /\ UNCHANGED sleeplock
  /\ UNCHANGED <<plock, state, chan, cpu, ret, scan>>

-----------------------------------------------------------------------------
(* sleep(lk, &lk->lk) *)

MutLockFirst(c, p) ==
  /\ \/ /\ At(c, p, "slp_lock")
        /\ lk' = NoCPU
        /\ Goto(p, "slp_rel")
        /\ UNCHANGED plock
     \/ /\ At(c, p, "slp_rel")
        /\ plock[p] = NoCPU
        /\ plock' = [plock EXCEPT ![p] = c]
        /\ Goto(p, "slp_set")
        /\ UNCHANGED lk
  /\ UNCHANGED <<locked, owner, state, chan, cpu, ret, scan>>

(* acquire(&p->lock), and only then release(lk). *)
sleep_locks(c, p) ==
  /\ \/ /\ At(c, p, "slp_lock")
        /\ plock[p] = NoCPU
        /\ plock' = [plock EXCEPT ![p] = c]
        /\ Goto(p, "slp_rel")
        /\ UNCHANGED lk
     \/ /\ At(c, p, "slp_rel")
        /\ lk' = NoCPU
        /\ Goto(p, "slp_set")
        /\ UNCHANGED plock
  /\ UNCHANGED <<locked, owner, state, chan, cpu, ret, scan>>

sleep_set(c, p) ==
  /\ At(c, p, "slp_set")
  /\ chan' = [chan EXCEPT ![p] = TRUE]
  /\ state' = [state EXCEPT ![p] = "SLEEPING"]
  /\ ret' = [ret EXCEPT ![p] = "again"]
  /\ Goto(p, "sched")
  /\ UNCHANGED <<locked, owner, lk, plock, cpu, scan>>

(* swtch() to the scheduler's context: the process no longer executes. *)
sched(c, p) ==
  /\ At(c, p, "sched")
  /\ cpu' = [cpu EXCEPT ![c] = NoProc]
  /\ Goto(p, "resume")
  /\ UNCHANGED <<locked, owner, lk, plock, state, chan, ret, scan>>

(* The end of sleep() or of yield(): release(&p->lock), then go on; after  *)
(* sleep(), to acquire(lk) and the while test again.                       *)
resume(c, p) ==
  /\ At(c, p, "resume")
  /\ chan' = [chan EXCEPT ![p] = FALSE]
  /\ plock' = [plock EXCEPT ![p] = NoCPU]
  /\ Goto(p, ret[p])
  /\ UNCHANGED <<locked, owner, lk, state, cpu, ret, scan>>

-----------------------------------------------------------------------------
(* releasesleep() and wakeup(lk) *)

releasesleep(c, p) ==
  /\ At(c, p, "rel")
  /\ locked' = FALSE
  /\ owner' = NoProc
  /\ scan' = [scan EXCEPT ![p] = 1]
  /\ Goto(p, "wake")
  /\ UNCHANGED <<lk, plock, state, chan, cpu, ret>>

(* One round of the loop of wakeup(): q's state is examined and changed    *)
(* under q's lock. After the loop, release(&lk->lk).                       *)
wakeup(c, p) ==
  LET q == scan[p] IN
  /\ At(c, p, "wake")
  /\ \/ /\ q <= NPROC
        /\ q # p => plock[q] = NoCPU
        /\ state' = IF q # p /\ state[q] = "SLEEPING" /\ chan[q]
                    THEN [state EXCEPT ![q] = "RUNNABLE"]
                    ELSE state
        /\ scan' = [scan EXCEPT ![p] = q + 1]
        /\ UNCHANGED <<lk, pc>>
     \/ /\ q = NPROC + 1
        /\ lk' = NoCPU
        /\ Goto(p, "idle")
        /\ UNCHANGED <<state, scan>>
  /\ UNCHANGED <<locked, owner, plock, chan, cpu, ret>>

-----------------------------------------------------------------------------
(* Preemption, kill() and the scheduler *)

(* A timer interrupt makes the process yield(); interrupts are on only     *)
(* where it holds no spin lock.                                            *)
yield(c, p) ==
  /\ cpu[c] = p
  /\ pc[p] \in {"idle", "again", "cs"}
  /\ plock[p] = NoCPU
  /\ plock' = [plock EXCEPT ![p] = c]
  /\ state' = [state EXCEPT ![p] = "RUNNABLE"]
  /\ ret' = [ret EXCEPT ![p] = pc[p]]
  /\ Goto(p, "sched")
  /\ UNCHANGED <<locked, owner, lk, chan, cpu, scan>>

(* A process outside the lock kills q: a sleeping victim is made runnable. *)
kill(c, p, q) ==
  /\ At(c, p, "idle")
  /\ plock[q] = NoCPU
  /\ state[q] = "SLEEPING"
  /\ state' = [state EXCEPT ![q] = "RUNNABLE"]
  /\ UNCHANGED <<locked, owner, lk, plock, chan, cpu, pc, ret, scan>>

MutTestUnlocked(c, p) ==
  /\ cpu[c] = NoProc
  /\ \A q \in Procs : plock[q] # c
  /\ state[p] = "RUNNABLE"
  /\ plock' = [plock EXCEPT ![p] = c]
  /\ state' = [state EXCEPT ![p] = "RUNNING"]
  /\ cpu' = [cpu EXCEPT ![c] = p]
  /\ UNCHANGED <<locked, owner, lk, chan, pc, ret, scan>>

(* The scheduler of c finds p runnable and switches to it, with p->lock    *)
(* held.                                                                   *)
scheduler_run(c, p) ==
  /\ cpu[c] = NoProc
  /\ \A q \in Procs : plock[q] # c
  /\ plock[p] = NoCPU
  /\ state[p] = "RUNNABLE"
  /\ plock' = [plock EXCEPT ![p] = c]
  /\ state' = [state EXCEPT ![p] = "RUNNING"]
  /\ cpu' = [cpu EXCEPT ![c] = p]
  /\ UNCHANGED <<locked, owner, lk, chan, pc, ret, scan>>

(* Back in the scheduler from p: c->proc = 0 and release(&p->lock). *)
scheduler_release(c, p) ==
  /\ cpu[c] = NoProc
  /\ plock[p] = c
  /\ plock' = [plock EXCEPT ![p] = NoCPU]
  /\ UNCHANGED <<locked, owner, lk, state, chan, cpu, pc, ret, scan>>

Thread(c, p) ==
  \/ acquire_lk(c, p) \/ acquiresleep(c, p)
  \/ sleep_locks(c, p) \/ sleep_set(c, p) \/ sched(c, p) \/ resume(c, p)
  \/ releasesleep(c, p) \/ wakeup(c, p)

Next ==
  \E c \in CPU, p \in Procs :
    \/ call(c, p) \/ Thread(c, p) \/ yield(c, p)
    \/ scheduler_run(c, p) \/ scheduler_release(c, p)
    \/ \E q \in Procs : kill(c, p, q)

Spec == Init /\ [][Next]_vars

(* A CPU keeps executing; a scheduler that scans the table again and again *)
(* runs a process that is runnable again and again; a CPU that spins on a  *)
(* spin lock that is released again and again gets it. No process has to   *)
(* ask for the sleep lock, or to leave the section it protects.            *)
Fairness ==
  /\ \A c \in CPU : WF_vars(\E p \in Procs : scheduler_release(c, p))
  /\ \A p \in Procs :
       SF_vars(\E c \in CPU : scheduler_run(c, p) \/ Thread(c, p))

FairSpec == Spec /\ Fairness

-----------------------------------------------------------------------------
(* Properties *)

InSection(p) == \/ pc[p] \in {"cs", "racq", "rel"}
                \/ pc[p] \in {"sched", "resume"} /\ ret[p] = "cs"

(* The section between acquiresleep() and releasesleep() is exclusive, and  *)
(* lk->pid names the process in it, so holdingsleep() answers right.        *)
Lock == INSTANCE Mutex WITH Proc <- Procs,
                            inside <- {p \in Procs : InSection(p)},
                            holder <- IF locked THEN owner ELSE NoProc
IsMutex == Lock!Spec

(* A kernel stack is used by one CPU at a time: a process that another      *)
(* scheduler could pick is not executing anywhere, although sleep() and     *)
(* yield() change p->state before they leave the stack. And sched() never   *)
(* panics: its caller holds p->lock and no other spin lock, and has changed *)
(* the state.                                                               *)
OneStack ==
  /\ \A c, d \in CPU : cpu[c] = cpu[d] /\ cpu[c] # NoProc => c = d
  /\ \A c \in CPU, p \in Procs :
       /\ cpu[c] = p => state[p] = "RUNNING" \/ plock[p] = c
       /\ At(c, p, "sched") => /\ plock[p] = c
                               /\ lk # c
                               /\ \A q \in Procs : plock[q] = c => q = p
                               /\ state[p] # "RUNNING"

(* A process asleep on the lock does not stay asleep once the lock is free. *)
WaitersWake == \A p \in Procs : (state[p] = "SLEEPING" /\ ~locked)
                                  ~> state[p] # "SLEEPING"
=============================================================================
