----------------------------- MODULE ProcTable ------------------------------
(***************************************************************************)
(* Process creation and death (kernel/proc.c): fork, exit, wait and kill   *)
(* over the process table, with wait_lock and the p->lock of every slot.   *)
(*                                                                         *)
(* A section that takes a p->lock, does not sleep and releases it is one   *)
(* step, which waits for the lock to be free. fork() keeps np->lock over   *)
(* several steps, and exit() leaves its own p->lock to the scheduler.      *)
(* sleep() and wakeup() are atomic here: module SleepLock shows that their *)
(* steps behave so. There are as many CPUs as processes.                   *)
(***************************************************************************)
EXTENDS Naturals, FiniteSets

CONSTANTS NPROC,    \* slots are 1 .. NPROC
          Free,     \* a lock nobody holds, a slot without parent or child
          MaxPid,   \* bound: fork() is not called after this many pids
          KillPids  \* the arguments of kill()

Slot == 1 .. NPROC
initproc == 1

ASSUME ProcTableConstants ==
  /\ NPROC \in Nat \ {0}
  /\ MaxPid \in Nat \ {0}
  /\ KillPids \subseteq Nat
  /\ Free \notin Slot

VARIABLES
  state, pid, parent, killed,  \* the fields of struct proc
  plock,      \* the process whose thread holds the slot's lock
  wait_lock,  \* the process that holds wait_lock
  nextpid,
  pc,         \* what the process's kernel thread does next
  child,      \* np in fork()
  scan,       \* pp in wait()
  havekids    \* in wait()

table == <<state, pid, parent, killed, nextpid>>
locals == <<child, scan, havekids>>
vars == <<table, plock, wait_lock, pc, locals>>

(* After userinit(): the table holds the first process. *)
Init ==
  /\ state = [q \in Slot |-> IF q = initproc THEN "RUNNABLE" ELSE "UNUSED"]
  /\ pid = [q \in Slot |-> IF q = initproc THEN 1 ELSE 0]
  /\ parent = [q \in Slot |-> Free]
  /\ killed = [q \in Slot |-> FALSE]
  /\ plock = [q \in Slot |-> Free]
  /\ wait_lock = Free
  /\ nextpid = 2
  /\ pc = [q \in Slot |-> IF q = initproc THEN "user" ELSE "none"]
  /\ child = [q \in Slot |-> Free]
  /\ scan = [q \in Slot |-> 1]
  /\ havekids = [q \in Slot |-> FALSE]

At(p, l) == state[p] = "RUNNING" /\ pc[p] = l

Goto(p, l) == pc' = [pc EXCEPT ![p] = l]

(* The effect of wakeup(c) for every c in chans. A process in wait() sleeps *)
(* on its own slot.                                                         *)
Woken(chans) == [q \in Slot |-> IF q \in chans /\ state[q] = "SLEEPING"
                                THEN "RUNNABLE" ELSE state[q]]

freeproc(q) ==
  /\ state' = [state EXCEPT ![q] = "UNUSED"]
  /\ pid' = [pid EXCEPT ![q] = 0]
  /\ parent' = [parent EXCEPT ![q] = Free]
  /\ killed' = [killed EXCEPT ![q] = FALSE]
  /\ UNCHANGED nextpid

-----------------------------------------------------------------------------
(* The scheduler picks p, which finds out in usertrap() if it was killed.   *)
scheduler(p) ==
  /\ state[p] = "RUNNABLE"
  /\ plock[p] = Free
  /\ state' = [state EXCEPT ![p] = "RUNNING"]
  /\ UNCHANGED <<pid, parent, killed, nextpid, plock, wait_lock, pc, locals>>

(* usertrap() lets a process make a system call unless it was killed. *)
InSyscall(p) == At(p, "user") /\ ~killed[p]

-----------------------------------------------------------------------------
(* fork() *)

(* p->pid = allocpid() *)
allocpid(np) == pid' = [pid EXCEPT ![np] = nextpid] /\ nextpid' = nextpid + 1

(* allocproc(): np's lock is held on return. *)
allocproc(p, np) ==
  /\ InSyscall(p)
  /\ nextpid <= MaxPid
  /\ state[np] = "UNUSED"
  /\ plock[np] = Free
  /\ plock' = [plock EXCEPT ![np] = p]
  /\ allocpid(np)
  /\ state' = [state EXCEPT ![np] = "USED"]
  /\ child' = [child EXCEPT ![p] = np]
  /\ Goto(p, "copy")
  /\ UNCHANGED <<parent, killed, wait_lock, scan, havekids>>

(* Copy memory, registers and files, or run out of memory. *)
fork_copy(p) ==
  LET np == child[p] IN
  /\ At(p, "copy")
  /\ plock' = [plock EXCEPT ![np] = Free]
  /\ \/ /\ Goto(p, "adopt")
        /\ UNCHANGED <<table, child>>
     \/ /\ freeproc(np)
        /\ child' = [child EXCEPT ![p] = Free]
        /\ Goto(p, "user")
  /\ UNCHANGED <<wait_lock, scan, havekids>>

(* np->parent = p under wait_lock. *)
fork_adopt(p) ==
  /\ At(p, "adopt")
  /\ wait_lock = Free
  /\ parent' = [parent EXCEPT ![child[p]] = p]
  /\ Goto(p, "ready")
  /\ UNCHANGED <<state, pid, killed, nextpid, plock, wait_lock, locals>>

fork_ready(p) ==
  LET np == child[p] IN
  /\ At(p, "ready")
  /\ plock[np] = Free
  /\ state' = [state EXCEPT ![np] = "RUNNABLE"]
  /\ pc' = [pc EXCEPT ![p] = "user", ![np] = "user"]
  /\ child' = [child EXCEPT ![p] = Free]
  /\ UNCHANGED <<pid, parent, killed, nextpid, plock, wait_lock, scan, havekids>>

-----------------------------------------------------------------------------
(* exit() *)

(* A system call, or usertrap() once p is killed. exit() panics for init,   *)
(* which calls it when its fork() or its wait() fails.                      *)
exit_call(p) ==
  /\ At(p, "user")
  /\ Goto(p, IF p = initproc THEN "panic" ELSE "exit")
  /\ UNCHANGED <<table, plock, wait_lock, locals>>

(* panic() loops for ever on its CPU; the other CPUs go on. *)
panic(p) == At(p, "panic") /\ UNCHANGED vars

exit_lock(p) ==
  /\ At(p, "exit")
  /\ wait_lock = Free
  /\ wait_lock' = p
  /\ Goto(p, "reparent")
  /\ UNCHANGED <<table, plock, locals>>

MutNoInitWakeup(p) ==
  /\ parent' = [q \in Slot |-> IF parent[q] = p THEN initproc ELSE parent[q]]
  /\ state' = Woken({parent[p]})

MutLiveOnly(p) ==
  /\ parent' = [q \in Slot |-> IF parent[q] = p /\ state[q] # "ZOMBIE"
                               THEN initproc ELSE parent[q]]
  /\ state' = Woken({parent[p], initproc})

(* reparent(p) wakes init if p has children; then wakeup(p->parent). *)
Bequeath(p) ==
  /\ parent' = [q \in Slot |-> IF parent[q] = p THEN initproc ELSE parent[q]]
  /\ state' = Woken({parent[p]} \cup
                    (IF \E q \in Slot : parent[q] = p THEN {initproc} ELSE {}))

exit_reparent(p) ==
  /\ At(p, "reparent")
  /\ Bequeath(p)
  /\ Goto(p, "zombie")
  /\ UNCHANGED <<pid, killed, nextpid, plock, wait_lock, locals>>

exit_zombie(p) ==
  /\ At(p, "zombie")
  /\ plock[p] = Free
  /\ plock' = [plock EXCEPT ![p] = p]
  /\ state' = [state EXCEPT ![p] = "ZOMBIE"]
  /\ wait_lock' = Free
  /\ Goto(p, "swtch")
  /\ UNCHANGED <<pid, parent, killed, nextpid, locals>>

(* swtch() to the scheduler, which releases p->lock: p's kernel stack is    *)
(* not in use from now on.                                                  *)
exit_swtch(p) ==
  /\ pc[p] = "swtch"
  /\ plock' = [plock EXCEPT ![p] = Free]
  /\ Goto(p, "none")
  /\ UNCHANGED <<table, wait_lock, locals>>

-----------------------------------------------------------------------------
(* wait() *)

(* Called, or woken in sleep(): acquire(&wait_lock) and scan the table. *)
wait_lock_scan(p) ==
  /\ InSyscall(p) \/ At(p, "woken")
  /\ wait_lock = Free
  /\ wait_lock' = p
  /\ Goto(p, "scan")
  /\ UNCHANGED <<table, plock, locals>>

(* wait() returns or sleeps: its locals are dead. *)
ScanOver(p) ==
  /\ wait_lock' = Free
  /\ scan' = [scan EXCEPT ![p] = 1]
  /\ havekids' = [havekids EXCEPT ![p] = FALSE]

(* The slot is p's child's and its lock can be taken. *)
ChildLocked(p, q) == parent[q] = p /\ plock[q] = Free

MutZombiesOnly(p) == havekids' = havekids

SawChild(p) == havekids' = [havekids EXCEPT ![p] = TRUE]

(* The children of p that the scan has not reached. p->parent only changes  *)
(* under wait_lock, which p holds, so the slots between can be skipped.     *)
Ahead(p) == {q \in scan[p] .. NPROC : parent[q] = p}

(* The next child in the scan. Storing the exit status may fail, except for *)
(* init, which passes a null address.                                       *)
wait_scan(p) ==
  /\ At(p, "scan")
  /\ \E pp \in Ahead(p) :
       /\ \A q \in Ahead(p) : pp <= q
       /\ ChildLocked(p, pp)
       /\ \/ /\ state[pp] # "ZOMBIE"
             /\ scan' = [scan EXCEPT ![p] = pp + 1]
             /\ SawChild(p)
             /\ UNCHANGED <<table, wait_lock, pc>>
          \/ /\ state[pp] = "ZOMBIE"
             /\ \/ freeproc(pp)
                \/ p # initproc /\ UNCHANGED table
             /\ ScanOver(p)
             /\ Goto(p, "user")
  /\ UNCHANGED <<plock, child>>

MutIgnoresKill(p) == ~havekids[p]

GiveUp(p) == ~havekids[p] \/ killed[p]

(* After the loop, killed(p) is read under p->lock, which is released       *)
(* before sleep() takes it again.                                           *)
wait_decide(p) ==
  /\ At(p, "scan")
  /\ Ahead(p) = {}
  /\ plock[p] = Free
  /\ IF GiveUp(p)
     THEN ScanOver(p) /\ Goto(p, "user")
     ELSE Goto(p, "sleep") /\ UNCHANGED <<wait_lock, scan, havekids>>
  /\ UNCHANGED <<table, plock, child>>

(* sleep(p, &wait_lock) *)
wait_sleep(p) ==
  /\ At(p, "sleep")
  /\ plock[p] = Free
  /\ ScanOver(p)
  /\ state' = [state EXCEPT ![p] = "SLEEPING"]
  /\ Goto(p, "woken")
  /\ UNCHANGED <<pid, parent, killed, nextpid, plock, child>>

-----------------------------------------------------------------------------
(* kill(n): the slot whose pid is n, if there is one. *)
kill(p, n) ==
  /\ InSyscall(p)
  /\ \E q \in Slot :
       /\ pid[q] = n
       /\ plock[q] = Free
       /\ killed' = [killed EXCEPT ![q] = TRUE]
       /\ state' = IF state[q] = "SLEEPING"
                   THEN [state EXCEPT ![q] = "RUNNABLE"] ELSE state
  /\ UNCHANGED <<pid, parent, nextpid, plock, wait_lock, pc, locals>>

-----------------------------------------------------------------------------
Forking(p) == \/ \E np \in Slot : allocproc(p, np)
              \/ fork_copy(p) \/ fork_adopt(p) \/ fork_ready(p)

Exiting(p) == \/ exit_lock(p) \/ exit_reparent(p) \/ exit_zombie(p)
              \/ exit_swtch(p)

Waiting(p) == \/ wait_lock_scan(p) \/ wait_scan(p) \/ wait_decide(p)
              \/ wait_sleep(p)

Next ==
  \E p \in Slot :
    \/ scheduler(p) \/ Forking(p) \/ exit_call(p) \/ Exiting(p) \/ Waiting(p)
    \/ panic(p) \/ \E n \in KillPids : kill(p, n)

Spec == Init /\ [][Next]_vars

(* A system call, once made, goes on: CPUs keep executing, the scheduler   *)
(* comes back to a runnable process, a lock released again and again is    *)
(* got. init calls wait() whenever it is not in a system call              *)
(* (user/init.c); a process that was killed exits at its next trap.        *)
Fairness ==
  /\ \A p \in Slot :
       SF_vars(/\ pc[p] # "user"
               /\ \/ scheduler(p) \/ Forking(p) \/ Exiting(p) \/ Waiting(p))
  /\ \A p \in Slot : WF_vars(pc[p] = "user" /\ scheduler(p))
  /\ \A p \in Slot \ {initproc} : WF_vars(killed[p] /\ exit_call(p))
  /\ SF_vars(wait_lock_scan(initproc))

FairSpec == Spec /\ Fairness

-----------------------------------------------------------------------------
(* Properties *)

Alive(q) == state[q] \in {"RUNNABLE", "RUNNING", "SLEEPING"}

(* Every process, alive or zombie, has a parent that is alive and has not   *)
(* yet given its children away: reparent() and fork() never leave a process *)
(* that no wait() can find. No exit is missed: a process asleep in wait()   *)
(* has no zombie child. And a slot is not freed, let alone reused, while    *)
(* its exiting process still executes on its kernel stack ("make sure the   *)
(* child isn't still in exit() or swtch()" in wait()).                      *)
TableSound ==
  \A q \in Slot :
    /\ q # initproc /\ (Alive(q) \/ state[q] = "ZOMBIE") =>
         /\ parent[q] # Free
         /\ Alive(parent[q])
         /\ pc[parent[q]] # "zombie"
    /\ state[q] = "ZOMBIE" /\ parent[q] # Free => state[parent[q]] # "SLEEPING"
    /\ pc[q] # "none" => state[q] \notin {"UNUSED", "USED"}

(* wait() answers -1 to a process that was not killed only if it has no     *)
(* child, or failed to store the status of a zombie it has found.           *)
WaitAnswer ==
  [][\A p \in Slot :
       /\ pc[p] = "scan" /\ pc'[p] = "user" /\ state' = state /\ ~killed[p]
       /\ \E q \in Slot : parent[q] = p
       => \E q \in Slot : parent[q] = p /\ state[q] = "ZOMBIE"]_vars

(* init buries every zombie it is the parent of, its own children and the   *)
(* ones it has inherited, unless it has itself called exit() and panicked.  *)
InitReaps ==
  \A q \in Slot \ {initproc} : (state[q] = "ZOMBIE" /\ parent[q] = initproc)
                    ~> (state[q] = "UNUSED" \/ pc[initproc] = "panic")

(* A killed process dies, wherever in fork(), exit() or wait() the kill     *)
(* found it or woke it up: the one exception is a wait() that has read      *)
(* p->killed already and not yet called sleep(), which sleeps on.           *)
KilledExits ==
  \A q \in Slot \ {initproc} :
    (killed[q] /\ Alive(q) /\ state[q] # "SLEEPING" /\ pc[q] # "sleep")
      ~> ~Alive(q)
=============================================================================
