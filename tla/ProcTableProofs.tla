-------------------------- MODULE ProcTableProofs ---------------------------
(***************************************************************************)
(* Proofs about fork, exit, wait and kill, for a process table of any size *)
(* and any number of pids: no process is orphaned, no exit is missed, no   *)
(* kernel stack is reused while it runs, and wait() answers correctly.     *)
(***************************************************************************)
EXTENDS ProcTable, Integers, TLAPS

(* The inductive invariant *)

States == {"UNUSED", "USED", "SLEEPING", "RUNNABLE", "RUNNING", "ZOMBIE"}
Forks == {"copy", "adopt", "ready"}
Locked == {"reparent", "zombie", "scan", "sleep"}
Places == {"user", "woken", "none", "swtch", "exit", "panic"} \cup Forks \cup Locked

TypeOK ==
  /\ state \in [Slot -> States]
  /\ pid \in [Slot -> Nat]
  /\ parent \in [Slot -> Slot \cup {Free}]
  /\ killed \in [Slot -> BOOLEAN]
  /\ plock \in [Slot -> Slot \cup {Free}]
  /\ wait_lock \in Slot \cup {Free}
  /\ nextpid \in Nat
  /\ pc \in [Slot -> Places]
  /\ child \in [Slot -> Slot \cup {Free}]
  /\ scan \in [Slot -> Nat \ {0}]
  /\ havekids \in [Slot -> BOOLEAN]

(* A slot has a kernel thread from fork() to the end of exit(), and only a *)
(* thread in user mode or in sleep() can be off its CPU.                   *)
ThreadInv ==
  \A q \in Slot :
    /\ state[q] \in {"UNUSED", "USED"} => pc[q] = "none"
    /\ state[q] = "ZOMBIE" => pc[q] \in {"none", "swtch"}
    /\ state[q] \in {"RUNNABLE", "RUNNING", "SLEEPING"} => pc[q] \notin {"none", "swtch"}
    /\ state[q] = "RUNNABLE" => pc[q] \in {"user", "woken"}
    /\ state[q] = "SLEEPING" => pc[q] = "woken"

(* wait_lock is held in the second half of exit() and in wait(), the lock  *)
(* of a slot over several steps only by the fork() that fills it and by    *)
(* the exit() that empties it.                                             *)
LockInv ==
  /\ \A q \in Slot : wait_lock = q <=> pc[q] \in Locked
  /\ \A q \in Slot : pc[q] = "swtch" => plock[q] = q

(* The slot a fork() fills belongs to it alone, and has a parent only once *)
(* it is about to run.                                                     *)
ForkInv ==
  /\ \A p \in Slot : pc[p] \in Forks => child[p] \in Slot /\ state[child[p]] = "USED"
  /\ \A p, q \in Slot : pc[p] \in Forks /\ pc[q] \in Forks /\ child[p] = child[q] => p = q
  /\ \A p \in Slot : pc[p] = "ready" => parent[child[p]] = p
  /\ \A q \in Slot : state[q] = "UNUSED" => parent[q] = Free
  /\ \A q \in Slot : state[q] = "USED" /\ parent[q] # Free =>
                       pc[parent[q]] = "ready" /\ child[parent[q]] = q

(* init never dies, and every process has a parent that can wait for it.   *)
FamilyInv ==
  /\ Alive(initproc)
  /\ parent[initproc] = Free
  /\ pc[initproc] \notin {"exit", "reparent", "zombie"}
  /\ \A q \in Slot \ {initproc} : Alive(q) \/ state[q] = "ZOMBIE" =>
       /\ parent[q] # Free
       /\ Alive(parent[q])
       /\ pc[parent[q]] # "zombie"

(* A parent is not asleep when its child is, or is about to become, a      *)
(* zombie.                                                                 *)
AwakeInv ==
  \A q \in Slot : parent[q] # Free /\ (state[q] = "ZOMBIE" \/ pc[q] = "zombie")
                    => state[parent[q]] # "SLEEPING"

(* The children that the scan of wait() has passed were seen, and are not  *)
(* zombies.                                                                *)
ScanInv ==
  \A p \in Slot :
    /\ pc[p] \notin {"scan", "sleep"} => scan[p] = 1
    /\ pc[p] = "scan" => \A q \in Slot :
         parent[q] = p /\ q < scan[p] => state[q] # "ZOMBIE" /\ havekids[p]
    /\ pc[p] = "sleep" => \A q \in Slot : parent[q] = p => state[q] # "ZOMBIE"

IInv ==
  /\ TypeOK
  /\ ThreadInv
  /\ LockInv
  /\ ForkInv
  /\ FamilyInv
  /\ AwakeInv
  /\ ScanInv

(* Slots are numbers, init has one, and Free is none. *)
LEMMA SlotFacts == initproc \in Slot /\ Free \notin Slot /\ Slot \subseteq Nat \ {0}
BY ProcTableConstants DEF initproc, Slot

(* The scheduler changes no more than the state. *)
LEMMA SchedulerStep ==
  ASSUME IInv, NEW p \in Slot, scheduler(p)
  PROVE  IInv'
<1> USE SlotFacts
<1>1. TypeOK'
  BY DEF IInv, TypeOK, Places, Forks, Locked, States, scheduler, At, table, locals
<1>2. ThreadInv'
  BY DEF IInv, ThreadInv, LockInv, ForkInv, TypeOK, Places, Forks, Locked, scheduler, At, table, locals
<1>3. LockInv'
  BY DEF IInv, LockInv, ThreadInv, ForkInv, TypeOK, Locked, Forks, scheduler, At, table, locals
<1>4. ForkInv'
  BY DEF IInv, ForkInv, ThreadInv, LockInv, FamilyInv, TypeOK, Alive, Locked, Forks, scheduler, At, table, locals
<1>5. FamilyInv'
  BY DEF IInv, FamilyInv, ThreadInv, ForkInv, TypeOK, Alive, Locked, Forks, scheduler, At, table, locals
<1>6. AwakeInv'
  BY DEF IInv, AwakeInv, ThreadInv, LockInv, ForkInv, FamilyInv, TypeOK, Alive, Locked, Forks, scheduler, At, table, locals
<1>7. ScanInv'
  BY DEF IInv, ScanInv, ThreadInv, LockInv, ForkInv, TypeOK, Locked, Forks, scheduler, At, table, locals
<1> QED
  BY <1>1, <1>2, <1>3, <1>4, <1>5, <1>6, <1>7 DEF IInv

(* fork() takes a slot that is nobody's. *)
LEMMA AllocprocStep ==
  ASSUME IInv, NEW p \in Slot, NEW np \in Slot, allocproc(p, np)
  PROVE  IInv'
<1> USE SlotFacts
<1>1. TypeOK'
  BY DEF IInv, TypeOK, Places, Forks, Locked, States, allocproc, At, InSyscall, allocpid, Goto, table, locals
<1>2. ThreadInv'
  BY DEF IInv, ThreadInv, LockInv, ForkInv, TypeOK, Places, Forks, Locked, allocproc, At, InSyscall, allocpid, Goto, table, locals
<1>3. LockInv'
  BY DEF IInv, LockInv, ThreadInv, ForkInv, TypeOK, Locked, Forks, allocproc, At, InSyscall, allocpid, Goto, table, locals
<1>4. ForkInv'
  BY DEF IInv, ForkInv, ThreadInv, LockInv, FamilyInv, TypeOK, Alive, Locked, Forks, allocproc, At, InSyscall, allocpid, Goto, table, locals
<1>5. FamilyInv'
  BY DEF IInv, FamilyInv, ThreadInv, ForkInv, TypeOK, Alive, Locked, Forks, allocproc, At, InSyscall, allocpid, Goto, table, locals
<1>6. AwakeInv'
  BY DEF IInv, AwakeInv, ThreadInv, LockInv, ForkInv, FamilyInv, TypeOK, Alive, Locked, Forks, allocproc, At, InSyscall, allocpid, Goto, table, locals
<1>7. ScanInv'
  BY DEF IInv, ScanInv, ThreadInv, LockInv, ForkInv, TypeOK, Locked, Forks, allocproc, At, InSyscall, allocpid, Goto, table, locals
<1> QED
  BY <1>1, <1>2, <1>3, <1>4, <1>5, <1>6, <1>7 DEF IInv

(* fork() fills the slot or gives it back. *)
LEMMA ForkCopyStep ==
  ASSUME IInv, NEW p \in Slot, fork_copy(p)
  PROVE  IInv'
<1> USE SlotFacts
<1> DEFINE np == child[p]
<1>0. /\ TypeOK /\ ThreadInv /\ LockInv /\ ForkInv /\ FamilyInv /\ AwakeInv /\ ScanInv
      /\ state[p] = "RUNNING" /\ pc[p] = "copy"
      /\ np \in Slot /\ np # p /\ state[np] = "USED" /\ pc[np] = "none" /\ parent[np] = Free
      /\ plock' = [plock EXCEPT ![np] = Free]
      /\ UNCHANGED <<wait_lock, scan, havekids>>
  <2>1. state[p] = "RUNNING" /\ pc[p] = "copy"
    BY DEF fork_copy, At
  <2>2. np \in Slot /\ state[np] = "USED" /\ np # p /\ pc[np] = "none"
    BY ZenonT(40), <2>1 DEF IInv, ForkInv, ThreadInv, Forks
  <2>3. ASSUME NEW r \in Slot, parent[np] = r
        PROVE  FALSE
    <3>1. pc[r] = "ready" /\ child[r] = np
      BY Zenon, <2>2, <2>3 DEF IInv, ForkInv
    <3> QED
      BY <2>1, <3>1 DEF IInv, ForkInv, Forks
  <2> QED
    BY Zenon, <2>1, <2>2, <2>3 DEF IInv, TypeOK, fork_copy
<1>1. CASE Goto(p, "adopt") /\ UNCHANGED <<table, child>>
  <2> USE <1>0, <1>1 DEF Goto, table, TypeOK
  <2>1. TypeOK'
    BY DEF Places, Forks
  <2>2. ThreadInv' /\ LockInv'
    BY DEF ThreadInv, LockInv, Locked
  <2>3. ForkInv'
    BY DEF ForkInv, Forks
  <2>4. FamilyInv' /\ AwakeInv'
    BY DEF FamilyInv, AwakeInv, Alive
  <2>5. ScanInv'
    BY DEF ScanInv
  <2> QED
    BY <2>1, <2>2, <2>3, <2>4, <2>5 DEF IInv
<1>2. CASE /\ freeproc(np)
           /\ child' = [child EXCEPT ![p] = Free]
           /\ Goto(p, "user")
  <2> USE <1>0, <1>2 DEF Goto, freeproc, TypeOK
  <2>1. TypeOK'
    BY DEF Places, States
  <2>2. ThreadInv' /\ LockInv'
    BY DEF ThreadInv, LockInv, Locked
  <2>3. ForkInv'
    BY DEF ForkInv, Forks
  <2>4. FamilyInv'
    BY DEF FamilyInv, Alive
  <2>5. AwakeInv'
    BY DEF AwakeInv
  <2>6. ScanInv'
    BY DEF ScanInv
  <2> QED
    BY <2>1, <2>2, <2>3, <2>4, <2>5, <2>6 DEF IInv
<1> QED
  BY <1>1, <1>2 DEF fork_copy

(* The slot gets its parent while it is still USED. *)
LEMMA ForkAdoptStep ==
  ASSUME IInv, NEW p \in Slot, fork_adopt(p)
  PROVE  IInv'
<1> USE SlotFacts
<1>1. TypeOK'
  BY Zenon DEF IInv, TypeOK, Places, Forks, Locked, States, fork_adopt, At, Goto, table, locals
<1>2. ThreadInv'
  BY DEF IInv, ThreadInv, LockInv, ForkInv, TypeOK, Places, Forks, Locked, fork_adopt, At, Goto, table, locals
<1>3. LockInv'
  BY DEF IInv, LockInv, ThreadInv, ForkInv, TypeOK, Locked, Forks, fork_adopt, At, Goto, table, locals
<1>4. ForkInv'
  BY DEF IInv, ForkInv, ThreadInv, LockInv, FamilyInv, TypeOK, Alive, Locked, Forks, fork_adopt, At, Goto, table, locals
<1>5. FamilyInv'
  BY DEF IInv, FamilyInv, ThreadInv, ForkInv, TypeOK, Alive, Locked, Forks, fork_adopt, At, Goto, table, locals
<1>6. AwakeInv'
  BY DEF IInv, AwakeInv, ThreadInv, LockInv, ForkInv, FamilyInv, TypeOK, Alive, Locked, Forks, fork_adopt, At, Goto, table, locals
<1>7. ScanInv'
  BY DEF IInv, ScanInv, ThreadInv, LockInv, ForkInv, TypeOK, Locked, Forks, fork_adopt, At, Goto, table, locals
<1> QED
  BY <1>1, <1>2, <1>3, <1>4, <1>5, <1>6, <1>7 DEF IInv

(* The new process has a live parent from the start. *)
LEMMA ForkReadyStep ==
  ASSUME IInv, NEW p \in Slot, fork_ready(p)
  PROVE  IInv'
<1> USE SlotFacts
<1> DEFINE np == child[p]
<1>0. /\ TypeOK /\ ThreadInv /\ LockInv /\ ForkInv /\ FamilyInv /\ AwakeInv /\ ScanInv
      /\ state[p] = "RUNNING" /\ pc[p] = "ready"
      /\ np \in Slot /\ np # p /\ np # initproc
      /\ state[np] = "USED" /\ pc[np] = "none" /\ parent[np] = p
      /\ state' = [state EXCEPT ![np] = "RUNNABLE"]
      /\ pc' = [pc EXCEPT ![p] = "user", ![np] = "user"]
      /\ child' = [child EXCEPT ![p] = Free]
      /\ UNCHANGED <<pid, parent, killed, nextpid, plock, wait_lock, scan, havekids>>
  BY ZenonT(120) DEF IInv, TypeOK, ThreadInv, ForkInv, FamilyInv, Alive, Forks, fork_ready, At
<1> USE <1>0
<1>1. TypeOK'
  BY DEF TypeOK, Places, States
<1>2. ThreadInv' /\ LockInv'
  BY DEF TypeOK, ThreadInv, LockInv, Locked
<1>3. ForkInv'
  <2>1. \A q \in Slot : pc'[q] \in Forks => /\ q # p /\ q # np
                                           /\ pc[q] = pc'[q] /\ child'[q] = child[q]
                                           /\ child[q] \in Slot /\ child[q] # np
    BY DEF TypeOK, ForkInv, Forks
  <2>2. \A q \in Slot : state'[q] = "USED" /\ parent'[q] # Free =>
          /\ q # np /\ parent[q] # p /\ parent[q] # np
          /\ pc[parent[q]] = "ready" /\ child[parent[q]] = q
    BY DEF TypeOK, ForkInv
  <2>3. \A s \in Slot : pc'[s] \in Forks => child'[s] \in Slot /\ state'[child'[s]] = "USED"
    BY <2>1 DEF TypeOK, ForkInv, Forks
  <2>4. \A r, s \in Slot : pc'[r] \in Forks /\ pc'[s] \in Forks /\ child'[r] = child'[s] => r = s
    BY <2>1 DEF ForkInv
  <2>5. \A s \in Slot : pc'[s] = "ready" => parent'[child'[s]] = s
    BY <2>1 DEF ForkInv, Forks
  <2>6. \A s \in Slot : state'[s] = "UNUSED" => parent'[s] = Free
    BY DEF TypeOK, ForkInv
  <2>7. \A s \in Slot : state'[s] = "USED" /\ parent'[s] # Free =>
                          pc'[parent'[s]] = "ready" /\ child'[parent'[s]] = s
    <3> SUFFICES ASSUME NEW s \in Slot, state'[s] = "USED", parent'[s] # Free
                 PROVE  pc'[parent'[s]] = "ready" /\ child'[parent'[s]] = s
      BY Zenon
    <3>1. PICK r \in Slot : r = parent[s] /\ r = parent'[s]
      BY Zenon DEF TypeOK
    <3>2. r # p /\ r # np /\ pc[r] = "ready" /\ child[r] = s
      BY <2>2, <3>1
    <3>3. pc'[r] = pc[r] /\ child'[r] = child[r]
      BY <3>2 DEF TypeOK
    <3> QED
      BY <3>1, <3>2, <3>3
  <2> QED
    BY Zenon, <2>3, <2>4, <2>5, <2>6, <2>7 DEF ForkInv
<1>4. FamilyInv'
  BY ZenonT(120) DEF TypeOK, FamilyInv, Alive
<1>5. AwakeInv'
  BY DEF TypeOK, AwakeInv
<1>6. ScanInv'
  BY DEF TypeOK, ScanInv
<1> QED
  BY <1>1, <1>2, <1>3, <1>4, <1>5, <1>6 DEF IInv

(* exit() is entered by any process, and panics for init. *)
LEMMA ExitCallStep ==
  ASSUME IInv, NEW p \in Slot, exit_call(p)
  PROVE  IInv'
<1> USE SlotFacts
<1>1. TypeOK'
  BY DEF IInv, TypeOK, Places, Forks, Locked, States, exit_call, At, Goto, table, locals
<1>2. ThreadInv'
  BY DEF IInv, ThreadInv, LockInv, ForkInv, TypeOK, Places, Forks, Locked, exit_call, At, Goto, table, locals
<1>3. LockInv'
  BY DEF IInv, LockInv, ThreadInv, ForkInv, TypeOK, Locked, Forks, exit_call, At, Goto, table, locals
<1>4. ForkInv'
  BY DEF IInv, ForkInv, ThreadInv, LockInv, FamilyInv, TypeOK, Alive, Locked, Forks, exit_call, At, Goto, table, locals
<1>5. FamilyInv'
  BY DEF IInv, FamilyInv, ThreadInv, ForkInv, TypeOK, Alive, Locked, Forks, exit_call, At, Goto, table, locals
<1>6. AwakeInv'
  BY DEF IInv, AwakeInv, ThreadInv, LockInv, ForkInv, FamilyInv, TypeOK, Alive, Locked, Forks, exit_call, At, Goto, table, locals
<1>7. ScanInv'
  BY DEF IInv, ScanInv, ThreadInv, LockInv, ForkInv, TypeOK, Locked, Forks, exit_call, At, Goto, table, locals
<1> QED
  BY <1>1, <1>2, <1>3, <1>4, <1>5, <1>6, <1>7 DEF IInv

(* exit() takes wait_lock. *)
LEMMA ExitLockStep ==
  ASSUME IInv, NEW p \in Slot, exit_lock(p)
  PROVE  IInv'
<1> USE SlotFacts
<1>1. TypeOK'
  BY DEF IInv, TypeOK, Places, Forks, Locked, States, exit_lock, At, Goto, table, locals
<1>2. ThreadInv'
  BY DEF IInv, ThreadInv, LockInv, ForkInv, TypeOK, Places, Forks, Locked, exit_lock, At, Goto, table, locals
<1>3. LockInv'
  BY DEF IInv, LockInv, ThreadInv, ForkInv, TypeOK, Locked, Forks, exit_lock, At, Goto, table, locals
<1>4. ForkInv'
  BY DEF IInv, ForkInv, ThreadInv, LockInv, FamilyInv, TypeOK, Alive, Locked, Forks, exit_lock, At, Goto, table, locals
<1>5. FamilyInv'
  BY DEF IInv, FamilyInv, ThreadInv, ForkInv, TypeOK, Alive, Locked, Forks, exit_lock, At, Goto, table, locals
<1>6. AwakeInv'
  BY DEF IInv, AwakeInv, ThreadInv, LockInv, ForkInv, FamilyInv, TypeOK, Alive, Locked, Forks, exit_lock, At, Goto, table, locals
<1>7. ScanInv'
  BY DEF IInv, ScanInv, ThreadInv, LockInv, ForkInv, TypeOK, Locked, Forks, exit_lock, At, Goto, table, locals
<1> QED
  BY <1>1, <1>2, <1>3, <1>4, <1>5, <1>6, <1>7 DEF IInv

(* exit() gives every child to init and wakes who may have to wait(). *)
LEMMA ExitReparentStep ==
  ASSUME IInv, NEW p \in Slot, exit_reparent(p)
  PROVE  IInv'
<1> USE SlotFacts
<1>1. TypeOK'
  BY DEF IInv, TypeOK, Places, Forks, Locked, States, exit_reparent, At, Bequeath, Woken, Goto, table, locals
<1>2. ThreadInv'
  BY DEF IInv, ThreadInv, LockInv, ForkInv, TypeOK, Places, Forks, Locked, exit_reparent, At, Bequeath, Woken, Goto, table, locals
<1>3. LockInv'
  BY DEF IInv, LockInv, ThreadInv, ForkInv, TypeOK, Locked, Forks, exit_reparent, At, Bequeath, Woken, Goto, table, locals
<1>4. ForkInv'
  BY DEF IInv, ForkInv, ThreadInv, LockInv, FamilyInv, TypeOK, Alive, Locked, Forks, exit_reparent, At, Bequeath, Woken, Goto, table, locals
<1>5. FamilyInv'
  BY DEF IInv, FamilyInv, ThreadInv, ForkInv, TypeOK, Alive, Locked, Forks, exit_reparent, At, Bequeath, Woken, Goto, table, locals
<1>6. AwakeInv'
  BY DEF IInv, AwakeInv, ThreadInv, LockInv, ForkInv, FamilyInv, TypeOK, Alive, Locked, Forks, exit_reparent, At, Bequeath, Woken, Goto, table, locals
<1>7. ScanInv'
  BY DEF IInv, ScanInv, ThreadInv, LockInv, ForkInv, TypeOK, Locked, Forks, exit_reparent, At, Bequeath, Woken, Goto, table, locals
<1> QED
  BY <1>1, <1>2, <1>3, <1>4, <1>5, <1>6, <1>7 DEF IInv

(* A zombie has no children, and a parent that is awake. *)
LEMMA ExitZombieStep ==
  ASSUME IInv, NEW p \in Slot, exit_zombie(p)
  PROVE  IInv'
<1> USE SlotFacts
<1>1. TypeOK'
  BY DEF IInv, TypeOK, Places, Forks, Locked, States, exit_zombie, At, Goto, table, locals
<1>2. ThreadInv'
  BY DEF IInv, ThreadInv, LockInv, ForkInv, TypeOK, Places, Forks, Locked, exit_zombie, At, Goto, table, locals
<1>3. LockInv'
  BY DEF IInv, LockInv, ThreadInv, ForkInv, TypeOK, Locked, Forks, exit_zombie, At, Goto, table, locals
<1>4. ForkInv'
  BY DEF IInv, ForkInv, ThreadInv, LockInv, FamilyInv, TypeOK, Alive, Locked, Forks, exit_zombie, At, Goto, table, locals
<1>5. FamilyInv'
  BY DEF IInv, FamilyInv, ThreadInv, ForkInv, TypeOK, Alive, Locked, Forks, exit_zombie, At, Goto, table, locals
<1>6. AwakeInv'
  BY DEF IInv, AwakeInv, ThreadInv, LockInv, ForkInv, FamilyInv, TypeOK, Alive, Locked, Forks, exit_zombie, At, Goto, table, locals
<1>7. ScanInv'
  BY DEF IInv, ScanInv, ThreadInv, LockInv, ForkInv, TypeOK, Locked, Forks, exit_zombie, At, Goto, table, locals
<1> QED
  BY <1>1, <1>2, <1>3, <1>4, <1>5, <1>6, <1>7 DEF IInv

(* The last instruction on a kernel stack. *)
LEMMA ExitSwtchStep ==
  ASSUME IInv, NEW p \in Slot, exit_swtch(p)
  PROVE  IInv'
<1> USE SlotFacts
<1>1. TypeOK'
  BY DEF IInv, TypeOK, Places, Forks, Locked, States, exit_swtch, At, Goto, table, locals
<1>2. ThreadInv'
  BY DEF IInv, ThreadInv, LockInv, ForkInv, TypeOK, Places, Forks, Locked, exit_swtch, At, Goto, table, locals
<1>3. LockInv'
  BY DEF IInv, LockInv, ThreadInv, ForkInv, TypeOK, Locked, Forks, exit_swtch, At, Goto, table, locals
<1>4. ForkInv'
  BY DEF IInv, ForkInv, ThreadInv, LockInv, FamilyInv, TypeOK, Alive, Locked, Forks, exit_swtch, At, Goto, table, locals
<1>5. FamilyInv'
  BY DEF IInv, FamilyInv, ThreadInv, ForkInv, TypeOK, Alive, Locked, Forks, exit_swtch, At, Goto, table, locals
<1>6. AwakeInv'
  BY DEF IInv, AwakeInv, ThreadInv, LockInv, ForkInv, FamilyInv, TypeOK, Alive, Locked, Forks, exit_swtch, At, Goto, table, locals
<1>7. ScanInv'
  BY DEF IInv, ScanInv, ThreadInv, LockInv, ForkInv, TypeOK, Locked, Forks, exit_swtch, At, Goto, table, locals
<1> QED
  BY <1>1, <1>2, <1>3, <1>4, <1>5, <1>6, <1>7 DEF IInv

(* wait() begins a scan. *)
LEMMA WaitLockScanStep ==
  ASSUME IInv, NEW p \in Slot, wait_lock_scan(p)
  PROVE  IInv'
<1> USE SlotFacts
<1>1. TypeOK'
  BY DEF IInv, TypeOK, Places, Forks, Locked, States, wait_lock_scan, At, InSyscall, Goto, table, locals
<1>2. ThreadInv'
  BY DEF IInv, ThreadInv, LockInv, ForkInv, TypeOK, Places, Forks, Locked, wait_lock_scan, At, InSyscall, Goto, table, locals
<1>3. LockInv'
  BY DEF IInv, LockInv, ThreadInv, ForkInv, TypeOK, Locked, Forks, wait_lock_scan, At, InSyscall, Goto, table, locals
<1>4. ForkInv'
  BY DEF IInv, ForkInv, ThreadInv, LockInv, FamilyInv, TypeOK, Alive, Locked, Forks, wait_lock_scan, At, InSyscall, Goto, table, locals
<1>5. FamilyInv'
  BY DEF IInv, FamilyInv, ThreadInv, ForkInv, TypeOK, Alive, Locked, Forks, wait_lock_scan, At, InSyscall, Goto, table, locals
<1>6. AwakeInv'
  BY DEF IInv, AwakeInv, ThreadInv, LockInv, ForkInv, FamilyInv, TypeOK, Alive, Locked, Forks, wait_lock_scan, At, InSyscall, Goto, table, locals
<1>7. ScanInv'
  BY DEF IInv, ScanInv, ThreadInv, LockInv, ForkInv, TypeOK, Locked, Forks, wait_lock_scan, At, InSyscall, Goto, table, locals
<1> QED
  BY <1>1, <1>2, <1>3, <1>4, <1>5, <1>6, <1>7 DEF IInv

(* wait() passes a child or buries it. *)
LEMMA WaitScanStep ==
  ASSUME IInv, NEW p \in Slot, wait_scan(p)
  PROVE  IInv'
<1> USE SlotFacts
<1>0. /\ TypeOK /\ ThreadInv /\ LockInv /\ ForkInv /\ FamilyInv /\ AwakeInv /\ ScanInv
      /\ state[p] = "RUNNING" /\ pc[p] = "scan" /\ wait_lock = p
      /\ UNCHANGED <<plock, child>>
  BY DEF IInv, LockInv, Locked, wait_scan, At
<1>1. PICK pp \in Ahead(p) :
        /\ \A q \in Ahead(p) : pp <= q
        /\ ChildLocked(p, pp)
        /\ \/ /\ state[pp] # "ZOMBIE"
              /\ scan' = [scan EXCEPT ![p] = pp + 1]
              /\ SawChild(p)
              /\ UNCHANGED <<table, wait_lock, pc>>
           \/ /\ state[pp] = "ZOMBIE"
              /\ \/ freeproc(pp)
                 \/ p # initproc /\ UNCHANGED table
              /\ ScanOver(p)
              /\ Goto(p, "user")
  BY DEF wait_scan
<1>2. /\ pp \in Slot /\ parent[pp] = p /\ plock[pp] = Free
      /\ \A q \in Slot : parent[q] = p /\ q < pp + 1 => q = pp \/ q < scan[p]
  BY SMTT(40), <1>0, <1>1 DEF Ahead, ChildLocked, Slot, TypeOK
<1>3. CASE /\ state[pp] # "ZOMBIE"
           /\ scan' = [scan EXCEPT ![p] = pp + 1]
           /\ SawChild(p)
           /\ UNCHANGED <<table, wait_lock, pc>>
  <2> USE <1>0, <1>2, <1>3 DEF SawChild, table, TypeOK
  <2>1. TypeOK'
    BY SMTT(40)
  <2>2. ThreadInv' /\ LockInv' /\ ForkInv' /\ FamilyInv' /\ AwakeInv'
    BY DEF ThreadInv, LockInv, ForkInv, FamilyInv, AwakeInv, Alive
  <2>3. ScanInv'
    BY SMTT(40) DEF ScanInv
  <2> QED
    BY <2>1, <2>2, <2>3 DEF IInv
<1>4. CASE state[pp] = "ZOMBIE" /\ freeproc(pp) /\ ScanOver(p) /\ Goto(p, "user")
  <2>0. pc[pp] = "none" /\ pp # p /\ pp # initproc
    BY <1>0, <1>2, <1>4 DEF ThreadInv, LockInv, FamilyInv, Alive
  <2> USE <1>0, <1>2, <1>4, <2>0 DEF freeproc, ScanOver, Goto, TypeOK
  <2>1. TypeOK'
    BY DEF Places, States
  <2>2. ThreadInv' /\ LockInv'
    BY DEF ThreadInv, LockInv, Locked
  <2>3. ForkInv'
    BY DEF ForkInv, Forks
  <2>4. FamilyInv'
    BY DEF FamilyInv, Alive
  <2>5. AwakeInv'
    BY DEF AwakeInv
  <2>6. ScanInv'
    BY DEF ScanInv, LockInv, Locked
  <2> QED
    BY <2>1, <2>2, <2>3, <2>4, <2>5, <2>6 DEF IInv
<1>5. CASE UNCHANGED table /\ ScanOver(p) /\ Goto(p, "user")
  <2> USE <1>0, <1>5 DEF table, ScanOver, Goto, TypeOK
  <2>1. TypeOK'
    BY DEF Places
  <2>2. ThreadInv' /\ LockInv'
    BY DEF ThreadInv, LockInv, Locked
  <2>3. ForkInv'
    BY DEF ForkInv, Forks
  <2>4. FamilyInv' /\ AwakeInv'
    BY DEF FamilyInv, AwakeInv, Alive
  <2>5. ScanInv'
    BY DEF ScanInv
  <2> QED
    BY <2>1, <2>2, <2>3, <2>4, <2>5 DEF IInv
<1> QED
  BY <1>1, <1>3, <1>4, <1>5

(* wait() has seen the whole table. *)
LEMMA WaitDecideStep ==
  ASSUME IInv, NEW p \in Slot, wait_decide(p)
  PROVE  IInv'
<1> USE SlotFacts
<1>0. /\ TypeOK /\ ThreadInv /\ LockInv /\ ForkInv /\ FamilyInv /\ AwakeInv /\ ScanInv
      /\ state[p] = "RUNNING" /\ pc[p] = "scan" /\ wait_lock = p
      /\ UNCHANGED <<table, plock, child>>
  BY DEF IInv, LockInv, Locked, wait_decide, At
<1>1. \A q \in Slot : parent[q] = p => state[q] # "ZOMBIE"
  <2>1. \A q \in Slot : parent[q] = p => q < scan[p]
    BY SMTT(40), <1>0 DEF wait_decide, Ahead, Slot, TypeOK
  <2> QED
    BY <1>0, <2>1 DEF ScanInv
<1>2. CASE ScanOver(p) /\ Goto(p, "user")
  <2> USE <1>0, <1>2 DEF table, ScanOver, Goto, TypeOK
  <2>1. TypeOK'
    BY DEF Places
  <2>2. ThreadInv' /\ LockInv'
    BY DEF ThreadInv, LockInv, Locked
  <2>3. ForkInv'
    BY DEF ForkInv, Forks
  <2>4. FamilyInv' /\ AwakeInv'
    BY DEF FamilyInv, AwakeInv, Alive
  <2>5. ScanInv'
    BY DEF ScanInv
  <2> QED
    BY <2>1, <2>2, <2>3, <2>4, <2>5 DEF IInv
<1>3. CASE Goto(p, "sleep") /\ UNCHANGED <<wait_lock, scan, havekids>>
  <2> USE <1>0, <1>1, <1>3 DEF table, Goto, TypeOK
  <2>1. TypeOK'
    BY DEF Places, Locked
  <2>2. ThreadInv' /\ LockInv'
    BY DEF ThreadInv, LockInv, Locked
  <2>3. ForkInv'
    BY DEF ForkInv, Forks
  <2>4. FamilyInv' /\ AwakeInv'
    BY DEF FamilyInv, AwakeInv, Alive
  <2>5. ScanInv'
    BY DEF ScanInv
  <2> QED
    BY <2>1, <2>2, <2>3, <2>4, <2>5 DEF IInv
<1> QED
  BY <1>2, <1>3 DEF wait_decide

(* wait() sleeps. *)
LEMMA WaitSleepStep ==
  ASSUME IInv, NEW p \in Slot, wait_sleep(p)
  PROVE  IInv'
<1> USE SlotFacts
<1>1. TypeOK'
  BY DEF IInv, TypeOK, Places, Forks, Locked, States, wait_sleep, At, ScanOver, Goto, table, locals
<1>2. ThreadInv'
  BY DEF IInv, ThreadInv, LockInv, ForkInv, TypeOK, Places, Forks, Locked, wait_sleep, At, ScanOver, Goto, table, locals
<1>3. LockInv'
  BY SMTT(40)
    DEF IInv, LockInv, ThreadInv, ForkInv, TypeOK, Locked, Forks, wait_sleep, At, ScanOver, Goto, table, locals
<1>4. ForkInv'
  BY DEF IInv, ForkInv, ThreadInv, LockInv, FamilyInv, TypeOK, Alive, Locked, Forks, wait_sleep, At, ScanOver, Goto, table, locals
<1>5. FamilyInv'
  BY SMTT(40)
    DEF IInv, FamilyInv, ThreadInv, ForkInv, TypeOK, Alive, Locked, Forks, wait_sleep, At, ScanOver, Goto, table, locals
<1>6. AwakeInv'
  BY SMTT(40)
    DEF IInv, AwakeInv, ScanInv, ThreadInv, LockInv, ForkInv, FamilyInv, TypeOK, Alive, Locked, Forks, wait_sleep, At, ScanOver, Goto, table, locals
<1>7. ScanInv'
  BY DEF IInv, ScanInv, ThreadInv, LockInv, ForkInv, TypeOK, Locked, Forks, wait_sleep, At, ScanOver, Goto, table, locals
<1> QED
  BY <1>1, <1>2, <1>3, <1>4, <1>5, <1>6, <1>7 DEF IInv

(* kill() wakes its victim. *)
LEMMA KillStep ==
  ASSUME IInv, NEW p \in Slot, NEW k \in KillPids, kill(p, k)
  PROVE  IInv'
<1> USE SlotFacts
<1>0. /\ TypeOK /\ ThreadInv /\ LockInv /\ ForkInv /\ FamilyInv /\ AwakeInv /\ ScanInv
      /\ UNCHANGED <<pid, parent, nextpid, plock, wait_lock, pc, locals>>
  BY DEF IInv, kill
<1>1. PICK q \in Slot :
        /\ killed' = [killed EXCEPT ![q] = TRUE]
        /\ state' = IF state[q] = "SLEEPING"
                    THEN [state EXCEPT ![q] = "RUNNABLE"] ELSE state
  BY Zenon DEF kill
<1>2. /\ state' \in [Slot -> States]
      /\ \A r \in Slot : state'[r] = state[r] \/ (state[r] = "SLEEPING" /\ state'[r] = "RUNNABLE")
      /\ \A r \in Slot : Alive(r)' = Alive(r)
  BY <1>0, <1>1 DEF TypeOK, States, Alive
<1> USE <1>0, <1>2 DEF locals
<1>3. TypeOK'
  BY <1>1 DEF TypeOK
<1>4. ThreadInv' /\ LockInv'
  BY DEF ThreadInv, LockInv
<1>5. ForkInv'
  <2>1. \A r \in Slot : /\ state'[r] = "USED" <=> state[r] = "USED"
                        /\ state'[r] = "UNUSED" <=> state[r] = "UNUSED"
    OBVIOUS
  <2>2. \A s \in Slot : pc[s] \in Forks => child[s] \in Slot /\ state'[child[s]] = "USED"
    BY Zenon, <2>1 DEF ForkInv
  <2>3. \A r, s \in Slot : pc[r] \in Forks /\ pc[s] \in Forks /\ child[r] = child[s] => r = s
    BY <2>1 DEF ForkInv
  <2>4. \A s \in Slot : pc[s] = "ready" => parent[child[s]] = s
    BY DEF ForkInv
  <2>5. \A s \in Slot : state'[s] = "UNUSED" => parent[s] = Free
    BY <2>1 DEF ForkInv
  <2>6. \A s \in Slot : state'[s] = "USED" /\ parent[s] # Free =>
                          pc[parent[s]] = "ready" /\ child[parent[s]] = s
    BY <2>1 DEF ForkInv
  <2> QED
    BY <2>2, <2>3, <2>4, <2>5, <2>6 DEF ForkInv
<1>6. FamilyInv'
  BY ZenonT(120) DEF FamilyInv, Alive, TypeOK
<1>7. AwakeInv'
  BY ZenonT(120) DEF AwakeInv, TypeOK
<1>8. ScanInv'
  BY DEF ScanInv
<1> QED
  BY <1>3, <1>4, <1>5, <1>6, <1>7, <1>8 DEF IInv

LEMMA InitIInv ==
  ASSUME Init
  PROVE  IInv
<1> USE SlotFacts DEF Init
<1>1. TypeOK
  BY DEF TypeOK, States, Places
<1>2. ThreadInv /\ LockInv /\ ForkInv
  BY DEF ThreadInv, LockInv, ForkInv, Forks, Locked
<1>3. FamilyInv /\ AwakeInv /\ ScanInv
  BY DEF FamilyInv, AwakeInv, ScanInv, Alive
<1> QED
  BY <1>1, <1>2, <1>3 DEF IInv

LEMMA NextIInv ==
  ASSUME IInv, [Next]_vars
  PROVE  IInv'
<1>1. ASSUME NEW p \in Slot, Forking(p) \/ Exiting(p) \/ Waiting(p)
      PROVE  IInv'
  BY <1>1, AllocprocStep, ForkCopyStep, ForkAdoptStep, ForkReadyStep,
     ExitLockStep, ExitReparentStep, ExitZombieStep, ExitSwtchStep,
     WaitLockScanStep, WaitScanStep, WaitDecideStep, WaitSleepStep
  DEF Forking, Exiting, Waiting
<1>2. CASE UNCHANGED vars
  BY SMTT(40), <1>2 DEF vars, table, locals, IInv, TypeOK, ThreadInv, LockInv, ForkInv,
              FamilyInv, AwakeInv, ScanInv, Alive
<1>3. CASE Next
  <2>1. \A p \in Slot : ~panic(p) \/ UNCHANGED vars
    BY DEF panic
  <2> QED
    BY SMTT(40), <1>1, <1>2, <1>3, <2>1, SchedulerStep, ExitCallStep, KillStep DEF Next
<1> QED
  BY <1>2, <1>3

LEMMA AlwaysIInv == Spec => []IInv
BY InitIInv, NextIInv, PTL DEF Spec

(* In a table of any size: every process has a live parent that can still  *)
(* wait for it, nobody sleeps in wait() beside a zombie child, and a slot  *)
(* is freed only after its exiting process has left its kernel stack.      *)
THEOREM ProcTableSound == Spec => []TableSound
<1>1. ASSUME IInv
      PROVE  TableSound
  <2>1. ASSUME NEW q \in Slot
        PROVE  /\ q # initproc /\ (Alive(q) \/ state[q] = "ZOMBIE") =>
                    parent[q] # Free /\ Alive(parent[q]) /\ pc[parent[q]] # "zombie"
               /\ state[q] = "ZOMBIE" /\ parent[q] # Free => state[parent[q]] # "SLEEPING"
               /\ pc[q] # "none" => state[q] \notin {"UNUSED", "USED"}
    BY <1>1 DEF IInv, FamilyInv, AwakeInv, ThreadInv
  <2> QED
    BY ZenonT(60), <2>1 DEF TableSound
<1> QED
  BY <1>1, AlwaysIInv, PTL

(* A wait() that was not killed answers -1 only if the caller has no child *)
(* or has found a zombie whose status it failed to store.                  *)
THEOREM WaitAnswersCorrectly == Spec => WaitAnswer
<1> DEFINE Answer(p) ==
      /\ pc[p] = "scan" /\ pc'[p] = "user" /\ state' = state /\ ~killed[p]
      /\ \E q \in Slot : parent[q] = p
      => \E q \in Slot : parent[q] = p /\ state[q] = "ZOMBIE"
<1>1. ASSUME IInv, [Next]_vars, NEW p \in Slot
      PROVE  Answer(p)
  <2> SUFFICES ASSUME pc[p] = "scan", pc'[p] = "user", state' = state, ~killed[p],
                      NEW c \in Slot, parent[c] = p
               PROVE  \E q \in Slot : parent[q] = p /\ state[q] = "ZOMBIE"
    BY SMTT(30)
  <2>1. wait_scan(p) \/ wait_decide(p)
    <3>1. pc'[p] # pc[p] /\ pc \in [Slot -> Places]
      BY SMTT(40), <1>1 DEF IInv, TypeOK
    <3>2. PICK r \in Slot : Forking(r) \/ exit_call(r) \/ Exiting(r) \/ Waiting(r)
      BY ZenonT(60), <1>1, <3>1 DEF Next, vars, scheduler, panic, kill
    <3>3. ASSUME Forking(r)
          PROVE  FALSE
      <4>1. CASE fork_ready(r)
        BY <1>1, <3>1, <4>1 DEF IInv, ForkInv, ThreadInv, Forks, fork_ready, At
      <4> QED
        BY ZenonT(60), <3>1, <3>3, <4>1 DEF Forking, allocproc, InSyscall, fork_copy, fork_adopt, At, Goto
    <3>4. ~exit_call(r) /\ ~Exiting(r)
      BY SMTT(40), <3>1
        DEF exit_call, Exiting, exit_lock, exit_reparent, exit_zombie, exit_swtch, At, Goto
    <3>5. ~wait_lock_scan(r) /\ ~wait_sleep(r)
      BY SMTT(30), <3>1 DEF wait_lock_scan, wait_sleep, InSyscall, At, Goto
    <3>6. r = p
      BY ZenonT(60), <3>1, <3>2, <3>3, <3>4, <3>5 DEF Waiting, wait_scan, wait_decide, Goto
    <3> QED
      BY <3>2, <3>3, <3>4, <3>5, <3>6 DEF Waiting
  <2>2. CASE wait_scan(p)
    <3>1. PICK pp \in Ahead(p) : state[pp] = "ZOMBIE" \/ UNCHANGED pc
      BY ZenonT(60), <2>2 DEF wait_scan
    <3>2. pp \in Slot /\ parent[pp] = p
      BY <1>1, <3>1 DEF Ahead, IInv, TypeOK, Slot
    <3> QED
      BY SMTT(30), <3>1, <3>2
  <2>3. CASE wait_decide(p)
    <3>1. c < scan[p]
      BY <1>1, <2>3 DEF wait_decide, Ahead, IInv, TypeOK, Slot
    <3>2. havekids[p]
      BY <1>1, <3>1 DEF IInv, ScanInv
    <3> QED
      BY <1>1, <2>3, <3>2 DEF wait_decide, GiveUp, Goto, IInv, TypeOK
  <2> QED
    BY <2>1, <2>2, <2>3
<1>2. ASSUME IInv, [Next]_vars
      PROVE  [\A p \in Slot : Answer(p)]_vars
  BY <1>1, <1>2
<1> QED
  BY <1>2, AlwaysIInv, PTL DEF Spec, WaitAnswer

=============================================================================
