---------------------------- MODULE ClockProofs -----------------------------
(***************************************************************************)
(* Proofs about locks, interrupts and the clock, for any number of CPUs    *)
(* and processes, every width of the tick counter and all arguments of     *)
(* sleep(): the interrupt flag is right at every instruction that matters, *)
(* noff counts the locks exactly, and sleep(n) lasts n ticks.              *)
(***************************************************************************)
EXTENDS Clock, TLAPS

(* The inductive invariant *)

(* Where a thread can be outside of interrupts: a scheduler, and a process *)
(* with its interrupts on, or waiting for or holding a lock.               *)
Scheduling == {"intr_on", "scan", "spin", "back"}
Interruptible == {"user", "sys_sleep", "relock", "return", "return 0", "return -1", "exit"}
Spinning == {"spin", "start", "again"}
Holding == {"forkret", "while", "awake"}
Processing == Interruptible \cup Holding \cup {"start", "again", "userret", "zombie"}

InClock == {"clockintr", "wakeup", "release"}
Switching == {"yield", "resumed", "exit"}

CpuState == [noff : 0 .. 1, intena : BOOLEAN, sie : BOOLEAN,
             stvec : {"uservec", "kernelvec"}, proc : Proc \cup {Idle}]

TypeOK ==
  /\ cpu \in [Cpu -> CpuState]
  /\ timer \subseteq Cpu
  /\ lk \in [Lock -> Cpu \cup {Free}]
  /\ pc \in [Thread -> Scheduling \cup Processing]
  /\ trap \in [Thread -> {"none", "sret"} \cup InClock \cup Switching]
  /\ \A c \in Cpu : pc[c] \in Scheduling /\ trap[c] \in {"none", "sret"} \cup InClock
  /\ \A p \in Proc : pc[p] \in Processing /\ trap[p] # "sret"
  /\ next \in [Cpu -> Proc]
  /\ waking \in Proc
  /\ saved \in [Proc -> BOOLEAN]
  /\ state \in [Proc -> {"SLEEPING", "RUNNABLE", "RUNNING", "ZOMBIE"}]
  /\ killed \in [Proc -> BOOLEAN]

(* A process runs on one CPU, whose scheduler waits for it in swtch().     *)
RunInv ==
  /\ \A c \in Cpu : cpu[c].proc # Idle =>
       /\ state[cpu[c].proc] = "RUNNING"
       /\ pc[c] = "back" /\ trap[c] = "none" /\ next[c] = cpu[c].proc
  /\ \A c, d \in Cpu : cpu[c].proc = cpu[d].proc /\ cpu[c].proc # Idle => c = d

(* An interrupt finds a thread only where interrupts are on; a process     *)
(* that does not run is in yield(), in sleep(), new or dead.               *)
PlaceInv ==
  /\ \A c \in Cpu : trap[c] # "none" => pc[c] \in {"intr_on", "scan"}
  /\ \A p \in Proc : trap[p] # "none" => pc[p] \in Interruptible
  /\ \A p \in Proc : (\A c \in Cpu : cpu[c].proc # p) =>
       \/ trap[p] = "resumed"
       \/ trap[p] = "none" /\ pc[p] \in {"forkret", "awake", "zombie"}
  /\ \A p \in Proc : pc[p] = "zombie" => state[p] = "ZOMBIE"
  /\ \A p \in Proc : pc[p] = "awake" => saved[p]

(* The locks of a CPU, whose thread s is at l, in an interrupt at r, and   *)
(* whose scheduler is at slot nx.                                          *)
Owned(s, l, r, nx) ==
  IF r \in {"wakeup", "release"} THEN {tickslock}
  ELSE IF r = "resumed" THEN {s}
  ELSE IF r # "none" THEN {}
  ELSE IF l = "while" THEN {tickslock}
  ELSE IF l \in {"forkret", "awake"} THEN {s}
  ELSE IF l = "back" THEN {nx}
  ELSE {}

Holds(l, r) ==
  \/ r \in {"wakeup", "release", "resumed"}
  \/ r = "none" /\ l \in {"while", "forkret", "awake", "back"}

(* The state k of such a CPU. *)
Flags(k, l, r) ==
  /\ k.noff = IF Holds(l, r) \/ (r = "none" /\ l \in Spinning) THEN 1 ELSE 0
  /\ k.noff = 1 \/ r # "none" => ~k.sie
  /\ r \in {"wakeup", "release"} => ~k.intena
  /\ r = "none" /\ l \in {"start", "while", "again", "awake"} => k.intena
  /\ r = "none" /\ l \in {"sys_sleep", "relock", "return 0", "return -1", "user"} => k.sie
  /\ r = "none" /\ l = "userret" => ~k.sie
  /\ k.stvec = "uservec" <=> r = "none" /\ l \in {"user", "userret"}

LockOK(c) ==
  \A m \in Lock : lk[m] = c <=> m \in Owned(On(c), pc[On(c)], trap[On(c)], next[c])

FlagOK(c) == Flags(cpu[c], pc[On(c)], trap[On(c)])

FInv ==
  /\ TypeOK
  /\ RunInv
  /\ PlaceInv
  /\ \A c \in Cpu : LockOK(c) /\ FlagOK(c)

(* In the loop of sys_sleep(), ticks - ticks0 counts the ticks slept until *)
(* there are n of them.                                                    *)
Looping == {"while", "awake", "relock", "again"}

NapInv ==
  /\ ticks \in 0 .. UINT - 1
  /\ ticks0 \in [Proc -> 0 .. UINT - 1]
  /\ n \in [Proc -> 0 .. UINT - 1]
  /\ slept \in [Proc -> Nat]
  /\ \A p \in Proc : slept[p] <= n[p]
  /\ \A p \in Proc : pc[p] \in Looping /\ slept[p] < n[p]
                       => (ticks - ticks0[p]) % UINT = slept[p]
  /\ SleptEnough

-----------------------------------------------------------------------------
(* What every step has in common *)

LEMMA Names ==
  /\ Proc \cap Cpu = {}
  /\ Thread = Proc \cup Cpu
  /\ Lock = Proc \cup {tickslock}
  /\ Idle \notin Thread
  /\ tickslock \notin Proc
  /\ Free \notin Cpu
  /\ Zero \in Cpu
BY ClockConstants DEF Proc, Cpu, Thread, Lock, Idle, tickslock, Zero

(* What an assignment to one entry of a table does. *)
LEMMA Assigned ==
  ASSUME NEW S, NEW T, NEW f \in [S -> T], NEW x \in S, NEW v \in T
  PROVE  /\ [f EXCEPT ![x] = v] \in [S -> T]
         /\ [f EXCEPT ![x] = v][x] = v
         /\ \A y \in S \ {x} : [f EXCEPT ![x] = v][y] = f[y]
OBVIOUS

(* A thread is on one CPU. *)
LEMMA OnFacts ==
  ASSUME FInv, NEW c \in Cpu
  PROVE  /\ On(c) \in Thread
         /\ On(c) \in Cpu <=> cpu[c].proc = Idle
         /\ cpu[c].proc = Idle => On(c) = c
         /\ cpu[c].proc # Idle => On(c) = cpu[c].proc /\ On(c) \in Proc
         /\ \A d \in Cpu \ {c} : On(d) # On(c) /\ On(d) # c
BY Names DEF FInv, TypeOK, RunInv, CpuState, On

(* A step of CPU c, of its thread and its scheduler, does not concern the  *)
(* others: it only has to leave c itself in order.                         *)
LEMMA Frame ==
  ASSUME FInv, NEW c \in Cpu,
         \A d \in Cpu \ {c} : cpu'[d] = cpu[d] /\ next'[d] = next[d],
         \A t \in Thread \ {c, On(c)} : pc'[t] = pc[t] /\ trap'[t] = trap[t],
         \A l \in Lock : lk'[l] # lk[l] => lk[l] \in {Free, c} /\ lk'[l] \in {Free, c},
         LockOK(c)', FlagOK(c)'
  PROVE  \A d \in Cpu : LockOK(d)' /\ FlagOK(d)'
<1> SUFFICES ASSUME NEW d \in Cpu \ {c}
             PROVE  LockOK(d)' /\ FlagOK(d)'
  OBVIOUS
<1>1. On(d)' = On(d)
  BY DEF On
<1>2. pc'[On(d)] = pc[On(d)] /\ trap'[On(d)] = trap[On(d)]
  BY OnFacts
<1>3. LockOK(d)'
  BY <1>1, <1>2, Names DEF LockOK, FInv
<1>4. FlagOK(d)'
  BY <1>1, <1>2 DEF FlagOK, FInv
<1> QED
  BY <1>3, <1>4

(* A step of the thread on c that does not switch to another thread. *)
LEMMA Move ==
  ASSUME FInv, TypeOK', NEW c \in Cpu, NEW t, t = On(c),
         cpu'[c].proc = cpu[c].proc,
         \A d \in Cpu \ {c} : cpu'[d] = cpu[d] /\ next'[d] = next[d],
         \A s \in Thread \ {t} : pc'[s] = pc[s] /\ trap'[s] = trap[s],
         \A m \in Lock : lk'[m] # lk[m] => lk[m] \in {Free, c} /\ lk'[m] \in {Free, c},
         cpu[c].proc # Idle => next'[c] = next[c],
         \A p \in Proc : state[p] \in {"RUNNING", "ZOMBIE"} => state'[p] = state[p],
         saved' = saved,
         trap'[t] # "none" => pc'[t] \in {"intr_on", "scan"} \cup Interruptible,
         pc'[t] \notin {"zombie", "awake"},
         \A m \in Lock : lk'[m] = c <=> m \in Owned(t, pc'[t], trap'[t], next'[c]),
         Flags(cpu'[c], pc'[t], trap'[t])
  PROVE  FInv'
<1>1. On(c)' = t
  BY DEF On
<1>2. \A d \in Cpu : LockOK(d)' /\ FlagOK(d)'
  <2>1. LockOK(c)' /\ FlagOK(c)'
    BY <1>1 DEF LockOK, FlagOK
  <2> QED
    BY <2>1, Frame
<1>3. \A d \in Cpu : cpu'[d].proc = cpu[d].proc
  OBVIOUS
<1>4. RunInv'
  <2>1. ASSUME NEW d \in Cpu, cpu'[d].proc # Idle
        PROVE  /\ state'[cpu'[d].proc] = "RUNNING"
               /\ pc'[d] = "back" /\ trap'[d] = "none" /\ next'[d] = cpu'[d].proc
    <3>1. d # t /\ d \in Thread
      BY <1>3, <2>1, OnFacts, Names
    <3>2. cpu[d].proc \in Proc
      BY <1>3, <2>1 DEF FInv, TypeOK, CpuState
    <3> QED
      BY <1>3, <2>1, <3>1, <3>2 DEF FInv, RunInv
  <2> QED
    BY <1>3, <2>1 DEF FInv, RunInv
<1>5. PlaceInv'
  <2>0. /\ \A d \in Cpu : pc'[d] \in Scheduling
        /\ \A p \in Proc : pc'[p] \in Processing
    BY DEF TypeOK
  <2>1. \A d \in Cpu : trap'[d] # "none" => pc'[d] \in {"intr_on", "scan"}
    BY ZenonT(120), <2>0, Names DEF FInv, PlaceInv, Scheduling, Interruptible
  <2>2. \A p \in Proc : trap'[p] # "none" => pc'[p] \in Interruptible
    BY ZenonT(120), <2>0, Names DEF FInv, PlaceInv, Processing, Interruptible, Holding
  <2>3. \A p \in Proc : (\A d \in Cpu : cpu'[d].proc # p) =>
           \/ trap'[p] = "resumed"
           \/ trap'[p] = "none" /\ pc'[p] \in {"forkret", "awake", "zombie"}
    BY <1>3, Names, OnFacts DEF FInv, PlaceInv
  <2>4. \A p \in Proc : pc'[p] = "zombie" => state'[p] = "ZOMBIE"
    BY Names DEF FInv, PlaceInv
  <2>5. \A p \in Proc : pc'[p] = "awake" => saved'[p]
    BY Names DEF FInv, PlaceInv
  <2> QED
    BY <2>1, <2>2, <2>3, <2>4, <2>5 DEF PlaceInv
<1> QED
  BY <1>2, <1>4, <1>5 DEF FInv

(* Where the thread on c is tells which thread it is. *)
LEMMA CpuFacts ==
  ASSUME FInv, NEW c \in Cpu
  PROVE  /\ cpu[c] \in CpuState
         /\ On(c) \in Thread
         /\ Flags(cpu[c], pc[On(c)], trap[On(c)])
         /\ \A m \in Lock : lk[m] = c <=> m \in Owned(On(c), pc[On(c)], trap[On(c)], next[c])
         /\ next[c] \in Proc
         /\ pc[On(c)] \in Scheduling => On(c) = c /\ cpu[c].proc = Idle
         /\ pc[On(c)] \notin Scheduling =>
              /\ On(c) \in Proc /\ cpu[c].proc = On(c) /\ next[c] = On(c)
              /\ state[On(c)] = "RUNNING"
              /\ pc[On(c)] \in Processing \ {"zombie"}
<1>1. /\ cpu[c] \in CpuState /\ next[c] \in Proc
      /\ \A d \in Cpu : pc[d] \in Scheduling
      /\ \A p \in Proc : pc[p] \in Processing
  BY DEF FInv, TypeOK
<1>2. /\ Flags(cpu[c], pc[On(c)], trap[On(c)])
      /\ \A m \in Lock : lk[m] = c <=> m \in Owned(On(c), pc[On(c)], trap[On(c)], next[c])
  BY DEF FInv, LockOK, FlagOK
<1>3. /\ On(c) \in Thread
      /\ cpu[c].proc = Idle => On(c) = c
      /\ cpu[c].proc # Idle => On(c) = cpu[c].proc /\ On(c) \in Proc
  BY OnFacts
<1>4. \A l : ~(l \in Scheduling /\ l \in Processing)
  BY Zenon DEF Scheduling, Processing, Interruptible, Holding
<1>5. cpu[c].proc # Idle =>
        /\ state[On(c)] = "RUNNING" /\ next[c] = On(c)
        /\ pc[On(c)] # "zombie"
  BY <1>3 DEF FInv, RunInv, PlaceInv
<1> QED
  BY <1>1, <1>2, <1>3, <1>4, <1>5

(* The records that push_off() and pop_off() make. *)
LEMMA PushOff ==
  ASSUME NEW k \in CpuState, k.noff = 0
  PROVE  /\ push_off(k) \in CpuState
         /\ push_off(k).noff = 1
         /\ push_off(k).intena <=> k.sie
         /\ ~push_off(k).sie
         /\ push_off(k).stvec = k.stvec
         /\ push_off(k).proc = k.proc
<1>1. push_off(k) \in CpuState
  <2> DEFINE b == IF k.noff = 0 THEN k.sie ELSE k.intena
  <2>1. b \in BOOLEAN /\ k.noff + 1 \in 0 .. 1
    BY DEF CpuState
  <2>2. push_off(k) = [k EXCEPT !.noff = k.noff + 1, !.intena = b, !.sie = FALSE]
    BY DEF push_off
  <2> HIDE DEF b
  <2> QED
    BY Zenon, <2>1, <2>2 DEF CpuState
<1>2. push_off(k).noff = 1 /\ ~push_off(k).sie
  BY DEF CpuState, push_off
<1>3. push_off(k).intena <=> k.sie
  BY DEF CpuState, push_off
<1>4. push_off(k).stvec = k.stvec /\ push_off(k).proc = k.proc
  BY DEF CpuState, push_off
<1> QED
  BY <1>1, <1>2, <1>3, <1>4

LEMMA PopOff ==
  ASSUME NEW k \in CpuState, k.noff = 1
  PROVE  /\ pop_off(k) \in CpuState
         /\ pop_off(k).noff = 0
         /\ pop_off(k).sie <=> k.sie \/ k.intena
         /\ pop_off(k).stvec = k.stvec
         /\ pop_off(k).proc = k.proc
<1>1. pop_off(k) \in CpuState
  <2> DEFINE b == IF k.noff = 1 /\ k.intena THEN TRUE ELSE k.sie
  <2>1. k.sie \in BOOLEAN /\ k.noff - 1 \in 0 .. 1
    BY DEF CpuState
  <2>2. b \in BOOLEAN
    BY <2>1, Zenon
  <2>3. pop_off(k) = [k EXCEPT !.noff = k.noff - 1, !.sie = b]
    BY DEF pop_off
  <2> HIDE DEF b
  <2> QED
    BY Zenon, <2>1, <2>2, <2>3 DEF CpuState
<1>2. pop_off(k).noff = 0
  BY DEF CpuState, pop_off
<1>3. pop_off(k).sie <=> k.sie \/ k.intena
  BY DEF CpuState, pop_off
<1>4. pop_off(k).stvec = k.stvec /\ pop_off(k).proc = k.proc
  BY DEF CpuState, pop_off
<1> QED
  BY <1>1, <1>2, <1>3, <1>4

LEMMA IntrOn ==
  ASSUME NEW k \in CpuState
  PROVE  /\ [k EXCEPT !.sie = TRUE] \in CpuState
         /\ [k EXCEPT !.sie = TRUE].noff = k.noff
         /\ [k EXCEPT !.sie = TRUE].intena = k.intena
         /\ [k EXCEPT !.sie = TRUE].sie
         /\ [k EXCEPT !.sie = TRUE].stvec = k.stvec
         /\ [k EXCEPT !.sie = TRUE].proc = k.proc
BY Zenon DEF CpuState

LEMMA Uservec ==
  ASSUME NEW k \in CpuState
  PROVE  /\ uservec(k) \in CpuState
         /\ uservec(k).noff = k.noff
         /\ uservec(k).intena = k.intena
         /\ ~uservec(k).sie
         /\ uservec(k).stvec = "kernelvec"
         /\ uservec(k).proc = k.proc
BY Zenon DEF CpuState, uservec

(* A step outside of interrupts that leaves the thread on its CPU. *)
LEMMA MoveOut ==
  ASSUME FInv, NEW c \in Cpu, trap[On(c)] = "none",
         cpu' \in [Cpu -> CpuState],
         \A d \in Cpu \ {c} : cpu'[d] = cpu[d],
         cpu'[c].proc = cpu[c].proc,
         pc' \in [Thread -> Scheduling \cup Processing],
         \A s \in Thread \ {On(c)} : pc'[s] = pc[s],
         pc[On(c)] \in Scheduling => pc'[On(c)] \in Scheduling,
         pc[On(c)] \notin Scheduling => pc'[On(c)] \in Processing \ {"zombie", "awake"},
         next' \in [Cpu -> Proc],
         \A d \in Cpu \ {c} : next'[d] = next[d],
         pc[On(c)] \notin Scheduling => next'[c] = next[c],
         lk' \in [Lock -> Cpu \cup {Free}],
         \A m \in Lock : lk'[m] # lk[m] => lk[m] \in {Free, c} /\ lk'[m] \in {Free, c},
         UNCHANGED <<trap, saved, procs, waking, timer>>,
         \A m \in Lock : lk'[m] = c <=> m \in Owned(On(c), pc'[On(c)], "none", next'[c]),
         Flags(cpu'[c], pc'[On(c)], "none")
  PROVE  FInv'
<1> DEFINE t == On(c)
<1>0. /\ TypeOK
      /\ t \in Thread
      /\ pc[t] \in Scheduling => t = c /\ cpu[c].proc = Idle
      /\ pc[t] \notin Scheduling => t \in Proc
  BY CpuFacts DEF FInv
<1>1. TypeOK'
  <2>1. \A d \in Cpu : pc'[d] \in Scheduling
    BY <1>0, Names DEF TypeOK
  <2>2. \A p \in Proc : pc'[p] \in Processing
    BY <1>0, Names DEF TypeOK
  <2> QED
    BY <1>0, <2>1, <2>2 DEF TypeOK, procs
<1>2. pc'[t] \notin {"zombie", "awake"}
  BY DEF Scheduling
<1>3. cpu[c].proc # Idle => pc[t] \notin Scheduling
  BY CpuFacts
<1> HIDE DEF t
<1> QED
  BY SMTT(40), <1>0, <1>1, <1>2, <1>3, Move DEF procs, t

-----------------------------------------------------------------------------
(* The steps one by one *)

(* scheduler() turns interrupts on. *)
LEMMA SchedulerIntrOnStep ==
  ASSUME FInv, NEW c \in Cpu, scheduler_intr_on(c)
  PROVE  FInv'
<1> DEFINE t == On(c)
           k == cpu[c]
           l == "scan"
           j == [k EXCEPT !.sie = TRUE]
<1>1. /\ trap[t] = "none" /\ pc[t] = "intr_on"
      /\ k \in CpuState /\ Flags(k, "intr_on", "none") /\ t = c /\ next[c] \in Proc
      /\ \A m \in Lock : lk[m] = c <=> m \in Owned(t, "intr_on", "none", next[c])
  BY CpuFacts DEF Scheduling, scheduler_intr_on, At
<1>2. /\ cpu' = [cpu EXCEPT ![c] = j]
      /\ pc' = [pc EXCEPT ![t] = l]
      /\ next' \in [Cpu -> Proc] /\ \A d \in Cpu \ {c} : next'[d] = next[d]
      /\ UNCHANGED <<trap, saved, procs, waking, timer>>
  BY <1>1, ClockConstants DEF FInv, TypeOK, scheduler_intr_on, At, Goto, Proc
<1>3. j \in CpuState /\ j.proc = k.proc /\ Flags(j, l, "none")
  BY <1>1, IntrOn DEF Flags, Holds, Spinning
<1>4. lk' = lk
  BY <1>1, Names DEF Owned, scheduler_intr_on, At, Goto
<1>5. lk' \in [Lock -> Cpu \cup {Free}]
  BY <1>1, <1>4, Names DEF FInv, TypeOK
<1>6. \A m \in Lock : /\ lk'[m] # lk[m] => lk[m] \in {Free, c} /\ lk'[m] \in {Free, c}
                      /\ lk'[m] = c <=> m \in Owned(t, l, "none", next'[c])
  BY <1>1, <1>4, <1>5, Names DEF FInv, TypeOK, Owned
<1>7. pc[t] \in Scheduling /\ l \in Scheduling
  BY SMTT(40), <1>1 DEF Scheduling, Processing, Interruptible, Holding
<1> HIDE DEF l, j
<1>8. /\ cpu' \in [Cpu -> CpuState] /\ cpu'[c] = j
      /\ \A d \in Cpu \ {c} : cpu'[d] = cpu[d]
      /\ pc' \in [Thread -> Scheduling \cup Processing] /\ pc'[t] = l
      /\ \A s \in Thread \ {t} : pc'[s] = pc[s]
  <2>1. /\ cpu \in [Cpu -> CpuState] /\ pc \in [Thread -> Scheduling \cup Processing]
        /\ next \in [Cpu -> Proc] /\ t \in Thread /\ l \in Scheduling \cup Processing
    BY Zenon, <1>7, CpuFacts DEF FInv, TypeOK
  <2> HIDE DEF t
  <2> QED
    BY ZenonT(40), <1>2, <1>3, <2>1, Assigned
<1> QED
  BY <1>1, <1>2, <1>3, <1>5, <1>6, <1>7, <1>8, MoveOut

(* acquire() of the next slot's lock begins. *)
LEMMA SchedulerAcquireStep ==
  ASSUME FInv, NEW c \in Cpu, scheduler_acquire(c)
  PROVE  FInv'
<1> DEFINE t == On(c)
           k == cpu[c]
           l == "spin"
           j == push_off(k)
<1>1. /\ trap[t] = "none" /\ pc[t] = "scan"
      /\ k \in CpuState /\ Flags(k, "scan", "none") /\ t = c /\ next[c] \in Proc
      /\ \A m \in Lock : lk[m] = c <=> m \in Owned(t, "scan", "none", next[c])
  BY CpuFacts DEF Scheduling, scheduler_acquire, At
<1>2. /\ cpu' = [cpu EXCEPT ![c] = j]
      /\ pc' = [pc EXCEPT ![t] = l]
      /\ next' \in [Cpu -> Proc] /\ \A d \in Cpu \ {c} : next'[d] = next[d]
      /\ UNCHANGED <<trap, saved, procs, waking, timer, next>>
  BY <1>1, ClockConstants DEF FInv, TypeOK, scheduler_acquire, At, Goto, BeginAcquire
<1>3. j \in CpuState /\ j.proc = k.proc /\ Flags(j, l, "none")
  BY <1>1, PushOff DEF Flags, Holds, Spinning
<1>4. lk' = lk
  BY <1>1, Names DEF Owned, scheduler_acquire, At, Goto, BeginAcquire
<1>5. lk' \in [Lock -> Cpu \cup {Free}]
  BY <1>1, <1>4, Names DEF FInv, TypeOK
<1>6. \A m \in Lock : /\ lk'[m] # lk[m] => lk[m] \in {Free, c} /\ lk'[m] \in {Free, c}
                      /\ lk'[m] = c <=> m \in Owned(t, l, "none", next'[c])
  BY <1>1, <1>4, <1>5, Names DEF FInv, TypeOK, Owned
<1>7. pc[t] \in Scheduling /\ l \in Scheduling
  BY SMTT(40), <1>1 DEF Scheduling, Processing, Interruptible, Holding
<1> HIDE DEF l, j
<1>8. /\ cpu' \in [Cpu -> CpuState] /\ cpu'[c] = j
      /\ \A d \in Cpu \ {c} : cpu'[d] = cpu[d]
      /\ pc' \in [Thread -> Scheduling \cup Processing] /\ pc'[t] = l
      /\ \A s \in Thread \ {t} : pc'[s] = pc[s]
  <2>1. /\ cpu \in [Cpu -> CpuState] /\ pc \in [Thread -> Scheduling \cup Processing]
        /\ next \in [Cpu -> Proc] /\ t \in Thread /\ l \in Scheduling \cup Processing
    BY Zenon, <1>7, CpuFacts DEF FInv, TypeOK
  <2> HIDE DEF t
  <2> QED
    BY ZenonT(40), <1>2, <1>3, <2>1, Assigned
<1> QED
  BY <1>1, <1>2, <1>3, <1>5, <1>6, <1>7, <1>8, MoveOut

(* The scheduler's lock comes back with the process, or was not given away. *)
LEMMA SchedulerReleaseStep ==
  ASSUME FInv, NEW c \in Cpu, scheduler_release(c)
  PROVE  FInv'
<1> DEFINE t == On(c)
           k == cpu[c]
           l == IF next[c] = NPROC THEN "intr_on" ELSE "scan"
           j == pop_off(k)
<1>1. /\ trap[t] = "none" /\ pc[t] = "back"
      /\ k \in CpuState /\ Flags(k, "back", "none") /\ t = c /\ next[c] \in Proc
      /\ \A m \in Lock : lk[m] = c <=> m \in Owned(t, "back", "none", next[c])
  BY CpuFacts DEF Scheduling, scheduler_release, At
<1>2. /\ cpu' = [cpu EXCEPT ![c] = j]
      /\ pc' = [pc EXCEPT ![t] = l]
      /\ next' \in [Cpu -> Proc] /\ \A d \in Cpu \ {c} : next'[d] = next[d]
      /\ UNCHANGED <<trap, saved, procs, waking, timer>>
  BY SMTT(40), <1>1, ClockConstants DEF FInv, TypeOK, scheduler_release, At, Goto, release, Proc
<1>3. j \in CpuState /\ j.proc = k.proc /\ Flags(j, l, "none")
  BY <1>1, PopOff DEF Flags, Holds, Spinning
<1>4. lk[next[c]] = c /\ lk' = [lk EXCEPT ![next[c]] = Free]
  BY <1>1, Names DEF Owned, scheduler_release, At, Goto, release
<1>5. lk' \in [Lock -> Cpu \cup {Free}]
  BY SMTT(40), <1>1, <1>4, Names DEF FInv, TypeOK
<1>6. \A m \in Lock : /\ lk'[m] # lk[m] => lk[m] \in {Free, c} /\ lk'[m] \in {Free, c}
                      /\ lk'[m] = c <=> m \in Owned(t, l, "none", next'[c])
  BY <1>1, <1>4, <1>5, Names DEF FInv, TypeOK, Owned
<1>7. pc[t] \in Scheduling /\ l \in Scheduling
  BY ZenonT(40), <1>1 DEF Scheduling, Processing, Interruptible, Holding
<1> HIDE DEF l, j
<1>8. /\ cpu' \in [Cpu -> CpuState] /\ cpu'[c] = j
      /\ \A d \in Cpu \ {c} : cpu'[d] = cpu[d]
      /\ pc' \in [Thread -> Scheduling \cup Processing] /\ pc'[t] = l
      /\ \A s \in Thread \ {t} : pc'[s] = pc[s]
  <2>1. /\ cpu \in [Cpu -> CpuState] /\ pc \in [Thread -> Scheduling \cup Processing]
        /\ next \in [Cpu -> Proc] /\ t \in Thread /\ l \in Scheduling \cup Processing
    BY Zenon, <1>7, CpuFacts DEF FInv, TypeOK
  <2> HIDE DEF t
  <2> QED
    BY ZenonT(40), <1>2, <1>3, <2>1, Assigned
<1> QED
  BY SMTT(30), <1>1, <1>2, <1>3, <1>5, <1>6, <1>7, <1>8, MoveOut

(* A new process lets go of the lock that the scheduler took. *)
LEMMA ForkretStep ==
  ASSUME FInv, NEW c \in Cpu, forkret(c)
  PROVE  FInv'
<1> DEFINE t == On(c)
           k == cpu[c]
           l == "return"
           j == pop_off(k)
<1>1. /\ trap[t] = "none" /\ pc[t] = "forkret"
      /\ k \in CpuState /\ Flags(k, "forkret", "none") /\ t \in Proc /\ next[c] \in Proc
      /\ \A m \in Lock : lk[m] = c <=> m \in Owned(t, "forkret", "none", next[c])
  BY ZenonT(60), CpuFacts DEF Scheduling, forkret, At
<1>2. /\ cpu' = [cpu EXCEPT ![c] = j]
      /\ pc' = [pc EXCEPT ![t] = l]
      /\ next' \in [Cpu -> Proc] /\ \A d \in Cpu \ {c} : next'[d] = next[d]
      /\ UNCHANGED <<trap, saved, procs, waking, timer, next>>
  BY <1>1, ClockConstants DEF FInv, TypeOK, forkret, At, Goto, release
<1>3. j \in CpuState /\ j.proc = k.proc /\ Flags(j, l, "none")
  BY <1>1, PopOff DEF Flags, Holds, Spinning
<1>4. lk[t] = c /\ lk' = [lk EXCEPT ![t] = Free]
  BY <1>1, Names DEF Owned, forkret, At, Goto, release
<1>5. lk' \in [Lock -> Cpu \cup {Free}]
  BY SMTT(40), <1>1, <1>4, Names DEF FInv, TypeOK
<1>6. \A m \in Lock : /\ lk'[m] # lk[m] => lk[m] \in {Free, c} /\ lk'[m] \in {Free, c}
                      /\ lk'[m] = c <=> m \in Owned(t, l, "none", next'[c])
  BY <1>1, <1>4, <1>5, Names DEF FInv, TypeOK, Owned
<1>7. pc[t] \notin Scheduling /\ l \in Processing \ {"zombie", "awake"}
  BY ZenonT(30), <1>1 DEF Scheduling, Processing, Interruptible, Holding
<1> HIDE DEF l, j
<1>8. /\ cpu' \in [Cpu -> CpuState] /\ cpu'[c] = j
      /\ \A d \in Cpu \ {c} : cpu'[d] = cpu[d]
      /\ pc' \in [Thread -> Scheduling \cup Processing] /\ pc'[t] = l
      /\ \A s \in Thread \ {t} : pc'[s] = pc[s]
  <2>1. /\ cpu \in [Cpu -> CpuState] /\ pc \in [Thread -> Scheduling \cup Processing]
        /\ next \in [Cpu -> Proc] /\ t \in Thread /\ l \in Scheduling \cup Processing
    BY Zenon, <1>7, CpuFacts DEF FInv, TypeOK
  <2> HIDE DEF t
  <2> QED
    BY ZenonT(40), <1>2, <1>3, <2>1, Assigned
<1> QED
  BY ZenonT(120), <1>1, <1>2, <1>3, <1>5, <1>6, <1>7, <1>8, MoveOut

(* sys_sleep() asks for tickslock. *)
LEMMA SysSleepStep ==
  ASSUME FInv, NEW c \in Cpu, sys_sleep(c)
  PROVE  FInv'
<1> DEFINE t == On(c)
           k == cpu[c]
           l == "start"
           j == push_off(k)
<1>1. /\ trap[t] = "none" /\ pc[t] = "sys_sleep"
      /\ k \in CpuState /\ Flags(k, "sys_sleep", "none") /\ t \in Proc /\ next[c] \in Proc
      /\ \A m \in Lock : lk[m] = c <=> m \in Owned(t, "sys_sleep", "none", next[c])
  BY ZenonT(60), CpuFacts DEF Scheduling, sys_sleep, At
<1>2. /\ cpu' = [cpu EXCEPT ![c] = j]
      /\ pc' = [pc EXCEPT ![t] = l]
      /\ next' \in [Cpu -> Proc] /\ \A d \in Cpu \ {c} : next'[d] = next[d]
      /\ UNCHANGED <<trap, saved, procs, waking, timer, next>>
  BY <1>1, ClockConstants DEF FInv, TypeOK, sys_sleep, At, Goto, BeginAcquire
<1>3. j \in CpuState /\ j.proc = k.proc /\ Flags(j, l, "none")
  BY <1>1, PushOff DEF Flags, Holds, Spinning
<1>4. lk' = lk
  BY <1>1, Names DEF Owned, sys_sleep, At, Goto, BeginAcquire
<1>5. lk' \in [Lock -> Cpu \cup {Free}]
  BY Zenon, <1>1, <1>4, Names DEF FInv, TypeOK
<1>6. \A m \in Lock : /\ lk'[m] # lk[m] => lk[m] \in {Free, c} /\ lk'[m] \in {Free, c}
                      /\ lk'[m] = c <=> m \in Owned(t, l, "none", next'[c])
  BY <1>1, <1>4, <1>5, Names DEF FInv, TypeOK, Owned
<1>7. pc[t] \notin Scheduling /\ l \in Processing \ {"zombie", "awake"}
  BY <1>1 DEF Scheduling, Processing, Interruptible, Holding
<1> HIDE DEF l, j
<1>8. /\ cpu' \in [Cpu -> CpuState] /\ cpu'[c] = j
      /\ \A d \in Cpu \ {c} : cpu'[d] = cpu[d]
      /\ pc' \in [Thread -> Scheduling \cup Processing] /\ pc'[t] = l
      /\ \A s \in Thread \ {t} : pc'[s] = pc[s]
  <2>1. /\ cpu \in [Cpu -> CpuState] /\ pc \in [Thread -> Scheduling \cup Processing]
        /\ next \in [Cpu -> Proc] /\ t \in Thread /\ l \in Scheduling \cup Processing
    BY Zenon, <1>7, CpuFacts DEF FInv, TypeOK
  <2> HIDE DEF t
  <2> QED
    BY ZenonT(40), <1>2, <1>3, <2>1, Assigned
<1> QED
  BY ZenonT(120), <1>1, <1>2, <1>3, <1>5, <1>6, <1>7, <1>8, MoveOut

(* sys_sleep() has tickslock. *)
LEMMA SysSleepStartStep ==
  ASSUME FInv, NEW c \in Cpu, sys_sleep_start(c)
  PROVE  FInv'
<1> DEFINE t == On(c)
           k == cpu[c]
           l == "while"
           j == k
<1>1. /\ trap[t] = "none" /\ pc[t] = "start"
      /\ k \in CpuState /\ Flags(k, "start", "none") /\ t \in Proc /\ next[c] \in Proc
      /\ \A m \in Lock : lk[m] = c <=> m \in Owned(t, "start", "none", next[c])
  BY ZenonT(60), CpuFacts DEF Scheduling, sys_sleep_start, At
<1>2. /\ cpu' = [cpu EXCEPT ![c] = j]
      /\ pc' = [pc EXCEPT ![t] = l]
      /\ next' \in [Cpu -> Proc] /\ \A d \in Cpu \ {c} : next'[d] = next[d]
      /\ UNCHANGED <<trap, saved, procs, waking, timer, next>>
  BY Zenon, <1>1, ClockConstants DEF FInv, TypeOK, sys_sleep_start, At, Goto, Take
<1>3. j \in CpuState /\ j.proc = k.proc /\ Flags(j, l, "none")
  BY <1>1 DEF Flags, Holds, Spinning
<1>4. lk[tickslock] = Free /\ lk' = [lk EXCEPT ![tickslock] = c]
  BY <1>1, Names DEF Owned, sys_sleep_start, At, Goto, Take
<1>5. lk' \in [Lock -> Cpu \cup {Free}]
  BY <1>1, <1>4, Names DEF FInv, TypeOK
<1>6. \A m \in Lock : /\ lk'[m] # lk[m] => lk[m] \in {Free, c} /\ lk'[m] \in {Free, c}
                      /\ lk'[m] = c <=> m \in Owned(t, l, "none", next'[c])
  BY <1>1, <1>4, <1>5, Names DEF FInv, TypeOK, Owned
<1>7. pc[t] \notin Scheduling /\ l \in Processing \ {"zombie", "awake"}
  BY <1>1 DEF Scheduling, Processing, Interruptible, Holding
<1> HIDE DEF l, j
<1>8. /\ cpu' \in [Cpu -> CpuState] /\ cpu'[c] = j
      /\ \A d \in Cpu \ {c} : cpu'[d] = cpu[d]
      /\ pc' \in [Thread -> Scheduling \cup Processing] /\ pc'[t] = l
      /\ \A s \in Thread \ {t} : pc'[s] = pc[s]
  <2>1. /\ cpu \in [Cpu -> CpuState] /\ pc \in [Thread -> Scheduling \cup Processing]
        /\ next \in [Cpu -> Proc] /\ t \in Thread /\ l \in Scheduling \cup Processing
    BY Zenon, <1>7, CpuFacts DEF FInv, TypeOK
  <2> HIDE DEF t
  <2> QED
    BY ZenonT(40), <1>2, <1>3, <2>1, Assigned
<1> QED
  BY ZenonT(120), <1>1, <1>2, <1>3, <1>5, <1>6, <1>7, <1>8, MoveOut

(* The loop of sys_sleep() ends, with interrupts on. *)
LEMMA SysSleepReturnStep ==
  ASSUME FInv, NEW c \in Cpu, sys_sleep_return(c)
  PROVE  FInv'
<1> DEFINE t == On(c)
           k == cpu[c]
           l == IF Early(t) THEN "return -1" ELSE "return 0"
           j == pop_off(k)
<1>1. /\ trap[t] = "none" /\ pc[t] = "while"
      /\ k \in CpuState /\ Flags(k, "while", "none") /\ t \in Proc /\ next[c] \in Proc
      /\ \A m \in Lock : lk[m] = c <=> m \in Owned(t, "while", "none", next[c])
  BY ZenonT(120), CpuFacts DEF Scheduling, sys_sleep_return, At
<1>2. /\ cpu' = [cpu EXCEPT ![c] = j]
      /\ pc' = [pc EXCEPT ![t] = l]
      /\ next' \in [Cpu -> Proc] /\ \A d \in Cpu \ {c} : next'[d] = next[d]
      /\ UNCHANGED <<trap, saved, procs, waking, timer, next>>
  BY Zenon, <1>1, ClockConstants DEF FInv, TypeOK, sys_sleep_return, At, Goto, release
<1>3. j \in CpuState /\ j.proc = k.proc /\ Flags(j, l, "none")
  BY SMTT(40), <1>1, PopOff DEF Flags, Holds, Spinning
<1>4. lk[tickslock] = c /\ lk' = [lk EXCEPT ![tickslock] = Free]
  BY Zenon, <1>1, Names DEF Owned, sys_sleep_return, At, Goto, release
<1>5. lk' \in [Lock -> Cpu \cup {Free}]
  BY ZenonT(40), <1>1, <1>4, Names DEF FInv, TypeOK
<1>6. \A m \in Lock : /\ lk'[m] # lk[m] => lk[m] \in {Free, c} /\ lk'[m] \in {Free, c}
                      /\ lk'[m] = c <=> m \in Owned(t, l, "none", next'[c])
  BY ZenonT(60), <1>1, <1>4, <1>5, Names DEF FInv, TypeOK, Owned
<1>7. pc[t] \notin Scheduling /\ l \in Processing \ {"zombie", "awake"}
  BY ZenonT(40), <1>1 DEF Scheduling, Processing, Interruptible, Holding
<1> HIDE DEF l, j
<1>8. /\ cpu' \in [Cpu -> CpuState] /\ cpu'[c] = j
      /\ \A d \in Cpu \ {c} : cpu'[d] = cpu[d]
      /\ pc' \in [Thread -> Scheduling \cup Processing] /\ pc'[t] = l
      /\ \A s \in Thread \ {t} : pc'[s] = pc[s]
  <2>1. /\ cpu \in [Cpu -> CpuState] /\ pc \in [Thread -> Scheduling \cup Processing]
        /\ next \in [Cpu -> Proc] /\ t \in Thread /\ l \in Scheduling \cup Processing
    BY Zenon, <1>7, CpuFacts DEF FInv, TypeOK
  <2> HIDE DEF t
  <2> QED
    BY ZenonT(40), <1>2, <1>3, <2>1, Assigned
<1> QED
  BY ZenonT(120), <1>1, <1>2, <1>3, <1>5, <1>6, <1>7, <1>8, MoveOut

(* sleep() goes on, perhaps on another CPU, with interrupts on. *)
LEMMA SleepAwakeStep ==
  ASSUME FInv, NEW c \in Cpu, sleep_awake(c)
  PROVE  FInv'
<1> DEFINE t == On(c)
           k == cpu[c]
           l == "relock"
           j == pop_off(k)
<1>1. /\ trap[t] = "none" /\ pc[t] = "awake"
      /\ k \in CpuState /\ Flags(k, "awake", "none") /\ t \in Proc /\ next[c] \in Proc
      /\ \A m \in Lock : lk[m] = c <=> m \in Owned(t, "awake", "none", next[c])
  BY ZenonT(60), CpuFacts DEF Scheduling, sleep_awake, At
<1>2. /\ cpu' = [cpu EXCEPT ![c] = j]
      /\ pc' = [pc EXCEPT ![t] = l]
      /\ next' \in [Cpu -> Proc] /\ \A d \in Cpu \ {c} : next'[d] = next[d]
      /\ UNCHANGED <<trap, saved, procs, waking, timer, next>>
  BY <1>1, ClockConstants DEF FInv, TypeOK, sleep_awake, At, Goto, release
<1>3. j \in CpuState /\ j.proc = k.proc /\ Flags(j, l, "none")
  BY SMTT(40), <1>1, PopOff DEF Flags, Holds, Spinning
<1>4. lk[t] = c /\ lk' = [lk EXCEPT ![t] = Free]
  BY <1>1, Names DEF Owned, sleep_awake, At, Goto, release
<1>5. lk' \in [Lock -> Cpu \cup {Free}]
  BY SMTT(40), <1>1, <1>4, Names DEF FInv, TypeOK
<1>6. \A m \in Lock : /\ lk'[m] # lk[m] => lk[m] \in {Free, c} /\ lk'[m] \in {Free, c}
                      /\ lk'[m] = c <=> m \in Owned(t, l, "none", next'[c])
  BY <1>1, <1>4, <1>5, Names DEF FInv, TypeOK, Owned
<1>7. pc[t] \notin Scheduling /\ l \in Processing \ {"zombie", "awake"}
  BY <1>1 DEF Scheduling, Processing, Interruptible, Holding
<1> HIDE DEF l, j
<1>8. /\ cpu' \in [Cpu -> CpuState] /\ cpu'[c] = j
      /\ \A d \in Cpu \ {c} : cpu'[d] = cpu[d]
      /\ pc' \in [Thread -> Scheduling \cup Processing] /\ pc'[t] = l
      /\ \A s \in Thread \ {t} : pc'[s] = pc[s]
  <2>1. /\ cpu \in [Cpu -> CpuState] /\ pc \in [Thread -> Scheduling \cup Processing]
        /\ next \in [Cpu -> Proc] /\ t \in Thread /\ l \in Scheduling \cup Processing
    BY Zenon, <1>7, CpuFacts DEF FInv, TypeOK
  <2> HIDE DEF t
  <2> QED
    BY ZenonT(40), <1>2, <1>3, <2>1, Assigned
<1> QED
  BY ZenonT(120), <1>1, <1>2, <1>3, <1>5, <1>6, <1>7, <1>8, MoveOut

(* sleep() asks for tickslock again. *)
LEMMA SleepRelockStep ==
  ASSUME FInv, NEW c \in Cpu, sleep_relock(c)
  PROVE  FInv'
<1> DEFINE t == On(c)
           k == cpu[c]
           l == "again"
           j == push_off(k)
<1>1. /\ trap[t] = "none" /\ pc[t] = "relock"
      /\ k \in CpuState /\ Flags(k, "relock", "none") /\ t \in Proc /\ next[c] \in Proc
      /\ \A m \in Lock : lk[m] = c <=> m \in Owned(t, "relock", "none", next[c])
  BY CpuFacts DEF Scheduling, sleep_relock, At
<1>2. /\ cpu' = [cpu EXCEPT ![c] = j]
      /\ pc' = [pc EXCEPT ![t] = l]
      /\ next' \in [Cpu -> Proc] /\ \A d \in Cpu \ {c} : next'[d] = next[d]
      /\ UNCHANGED <<trap, saved, procs, waking, timer, next>>
  BY <1>1, ClockConstants DEF FInv, TypeOK, sleep_relock, At, Goto, BeginAcquire
<1>3. j \in CpuState /\ j.proc = k.proc /\ Flags(j, l, "none")
  BY ZenonT(60), <1>1, PushOff DEF Flags, Holds, Spinning
<1>4. lk' = lk
  BY <1>1, Names DEF Owned, sleep_relock, At, Goto, BeginAcquire
<1>5. lk' \in [Lock -> Cpu \cup {Free}]
  BY Zenon, <1>1, <1>4, Names DEF FInv, TypeOK
<1>6. \A m \in Lock : /\ lk'[m] # lk[m] => lk[m] \in {Free, c} /\ lk'[m] \in {Free, c}
                      /\ lk'[m] = c <=> m \in Owned(t, l, "none", next'[c])
  BY <1>1, <1>4, <1>5, Names DEF FInv, TypeOK, Owned
<1>7. pc[t] \notin Scheduling /\ l \in Processing \ {"zombie", "awake"}
  BY <1>1 DEF Scheduling, Processing, Interruptible, Holding
<1> HIDE DEF l, j
<1>8. /\ cpu' \in [Cpu -> CpuState] /\ cpu'[c] = j
      /\ \A d \in Cpu \ {c} : cpu'[d] = cpu[d]
      /\ pc' \in [Thread -> Scheduling \cup Processing] /\ pc'[t] = l
      /\ \A s \in Thread \ {t} : pc'[s] = pc[s]
  <2>1. /\ cpu \in [Cpu -> CpuState] /\ pc \in [Thread -> Scheduling \cup Processing]
        /\ next \in [Cpu -> Proc] /\ t \in Thread /\ l \in Scheduling \cup Processing
    BY Zenon, <1>7, CpuFacts DEF FInv, TypeOK
  <2> HIDE DEF t
  <2> QED
    BY ZenonT(40), <1>2, <1>3, <2>1, Assigned
<1> QED
  BY ZenonT(120), <1>1, <1>2, <1>3, <1>5, <1>6, <1>7, <1>8, MoveOut

(* sleep() has tickslock again. *)
LEMMA SleepAgainStep ==
  ASSUME FInv, NEW c \in Cpu, sleep_again(c)
  PROVE  FInv'
<1> DEFINE t == On(c)
           k == cpu[c]
           l == "while"
           j == k
<1>1. /\ trap[t] = "none" /\ pc[t] = "again"
      /\ k \in CpuState /\ Flags(k, "again", "none") /\ t \in Proc /\ next[c] \in Proc
      /\ \A m \in Lock : lk[m] = c <=> m \in Owned(t, "again", "none", next[c])
  BY ZenonT(60), CpuFacts DEF Scheduling, sleep_again, At
<1>2. /\ cpu' = [cpu EXCEPT ![c] = j]
      /\ pc' = [pc EXCEPT ![t] = l]
      /\ next' \in [Cpu -> Proc] /\ \A d \in Cpu \ {c} : next'[d] = next[d]
      /\ UNCHANGED <<trap, saved, procs, waking, timer, next>>
  BY <1>1, ClockConstants DEF FInv, TypeOK, sleep_again, At, Goto, Take
<1>3. j \in CpuState /\ j.proc = k.proc /\ Flags(j, l, "none")
  BY ZenonT(60), <1>1 DEF Flags, Holds, Spinning
<1>4. lk[tickslock] = Free /\ lk' = [lk EXCEPT ![tickslock] = c]
  BY <1>1, Names DEF Owned, sleep_again, At, Goto, Take
<1>5. lk' \in [Lock -> Cpu \cup {Free}]
  BY ZenonT(30), <1>1, <1>4, Names DEF FInv, TypeOK
<1>6. \A m \in Lock : /\ lk'[m] # lk[m] => lk[m] \in {Free, c} /\ lk'[m] \in {Free, c}
                      /\ lk'[m] = c <=> m \in Owned(t, l, "none", next'[c])
  BY ZenonT(60), <1>1, <1>4, <1>5, Names DEF FInv, TypeOK, Owned
<1>7. pc[t] \notin Scheduling /\ l \in Processing \ {"zombie", "awake"}
  BY ZenonT(60), <1>1 DEF Scheduling, Processing, Interruptible, Holding
<1> HIDE DEF l, j
<1>8. /\ cpu' \in [Cpu -> CpuState] /\ cpu'[c] = j
      /\ \A d \in Cpu \ {c} : cpu'[d] = cpu[d]
      /\ pc' \in [Thread -> Scheduling \cup Processing] /\ pc'[t] = l
      /\ \A s \in Thread \ {t} : pc'[s] = pc[s]
  <2>1. /\ cpu \in [Cpu -> CpuState] /\ pc \in [Thread -> Scheduling \cup Processing]
        /\ next \in [Cpu -> Proc] /\ t \in Thread /\ l \in Scheduling \cup Processing
    BY Zenon, <1>7, CpuFacts DEF FInv, TypeOK
  <2> HIDE DEF t
  <2> QED
    BY ZenonT(40), <1>2, <1>3, <2>1, Assigned
<1> QED
  BY ZenonT(120), <1>1, <1>2, <1>3, <1>5, <1>6, <1>7, <1>8, MoveOut

(* sret to user mode. *)
LEMMA UserretStep ==
  ASSUME FInv, NEW c \in Cpu, userret(c)
  PROVE  FInv'
<1> DEFINE t == On(c)
           k == cpu[c]
           l == "user"
           j == [k EXCEPT !.sie = TRUE]
<1>1. /\ trap[t] = "none" /\ pc[t] = "userret"
      /\ k \in CpuState /\ Flags(k, "userret", "none") /\ t \in Proc /\ next[c] \in Proc
      /\ \A m \in Lock : lk[m] = c <=> m \in Owned(t, "userret", "none", next[c])
  BY CpuFacts DEF Scheduling, userret, At
<1>2. /\ cpu' = [cpu EXCEPT ![c] = j]
      /\ pc' = [pc EXCEPT ![t] = l]
      /\ next' \in [Cpu -> Proc] /\ \A d \in Cpu \ {c} : next'[d] = next[d]
      /\ UNCHANGED <<trap, saved, procs, waking, timer, next>>
  BY <1>1, ClockConstants DEF FInv, TypeOK, userret, At, Goto
<1>3. j \in CpuState /\ j.proc = k.proc /\ Flags(j, l, "none")
  BY <1>1, IntrOn DEF Flags, Holds, Spinning
<1>4. lk' = lk
  BY <1>1, Names DEF Owned, userret, At, Goto
<1>5. lk' \in [Lock -> Cpu \cup {Free}]
  BY ZenonT(60), <1>1, <1>4, Names DEF FInv, TypeOK
<1>6. \A m \in Lock : /\ lk'[m] # lk[m] => lk[m] \in {Free, c} /\ lk'[m] \in {Free, c}
                      /\ lk'[m] = c <=> m \in Owned(t, l, "none", next'[c])
  BY ZenonT(60), <1>1, <1>4, <1>5, Names DEF FInv, TypeOK, Owned
<1>7. pc[t] \notin Scheduling /\ l \in Processing \ {"zombie", "awake"}
  BY Zenon, <1>1 DEF Scheduling, Processing, Interruptible, Holding
<1> HIDE DEF l, j
<1>8. /\ cpu' \in [Cpu -> CpuState] /\ cpu'[c] = j
      /\ \A d \in Cpu \ {c} : cpu'[d] = cpu[d]
      /\ pc' \in [Thread -> Scheduling \cup Processing] /\ pc'[t] = l
      /\ \A s \in Thread \ {t} : pc'[s] = pc[s]
  <2>1. /\ cpu \in [Cpu -> CpuState] /\ pc \in [Thread -> Scheduling \cup Processing]
        /\ next \in [Cpu -> Proc] /\ t \in Thread /\ l \in Scheduling \cup Processing
    BY Zenon, <1>7, CpuFacts DEF FInv, TypeOK
  <2> HIDE DEF t
  <2> QED
    BY ZenonT(40), <1>2, <1>3, <2>1, Assigned
<1> QED
  BY <1>1, <1>2, <1>3, <1>5, <1>6, <1>7, <1>8, MoveOut

(* The end of usertrap(), and usertrapret() *)
LEMMA UsertrapretStep ==
  ASSUME FInv, NEW c \in Cpu, usertrapret(c)
  PROVE  FInv'
<1> DEFINE t == On(c)
           k == cpu[c]
           dies == killed[t] /\ pc[t] # "return"
           l == IF dies THEN "exit" ELSE "userret"
           j == IF dies THEN k ELSE [k EXCEPT !.sie = FALSE, !.stvec = "uservec"]
<1>1. /\ trap[t] = "none" /\ pc[t] \in {"return", "return 0", "return -1"}
      /\ k \in CpuState /\ Flags(k, pc[t], "none") /\ t \in Proc
      /\ \A m \in Lock : lk[m] = c <=> m \in Owned(t, pc[t], "none", next[c])
  BY Zenon, CpuFacts DEF Scheduling, usertrapret, Returning, At
<1>2. /\ cpu' = [cpu EXCEPT ![c] = j]
      /\ pc' = [pc EXCEPT ![t] = l]
      /\ UNCHANGED <<trap, saved, procs, waking, timer, next, lk>>
  <2>1. CASE dies
    BY <2>1 DEF usertrapret, LeaveKernel, Goto, FInv, TypeOK
  <2>2. CASE ~dies
    BY Zenon, <2>2 DEF usertrapret, LeaveKernel, Goto, FInv, TypeOK
  <2> QED
    BY <2>1, <2>2
<1>3. j \in CpuState /\ j.proc = k.proc /\ Flags(j, l, "none")
  BY Zenon, <1>1 DEF Flags, Holds, Spinning, CpuState
<1>4. lk' \in [Lock -> Cpu \cup {Free}]
  BY <1>2 DEF FInv, TypeOK
<1>5. \A m \in Lock : lk'[m] = c <=> m \in Owned(t, l, "none", next'[c])
  BY ZenonT(30), <1>1, <1>2 DEF Owned
<1>6. pc[t] \notin Scheduling /\ l \in Processing \ {"zombie", "awake"}
  BY ZenonT(30), <1>1 DEF Scheduling, Processing, Interruptible
<1> HIDE DEF l, j
<1>7. /\ cpu' \in [Cpu -> CpuState] /\ cpu'[c] = j
      /\ \A d \in Cpu \ {c} : cpu'[d] = cpu[d]
      /\ pc' \in [Thread -> Scheduling \cup Processing] /\ pc'[t] = l
      /\ \A s \in Thread \ {t} : pc'[s] = pc[s]
      /\ next' \in [Cpu -> Proc]
  <2>1. /\ cpu \in [Cpu -> CpuState] /\ pc \in [Thread -> Scheduling \cup Processing]
        /\ next \in [Cpu -> Proc] /\ t \in Thread /\ l \in Scheduling \cup Processing
    BY Zenon, <1>6, CpuFacts DEF FInv, TypeOK
  <2> HIDE DEF t
  <2> QED
    BY ZenonT(40), <1>2, <1>3, <2>1, Assigned
<1> QED
  BY ZenonT(120), <1>1, <1>2, <1>3, <1>4, <1>5, <1>6, <1>7, MoveOut

(* A system call comes in with interrupts on, unless the process dies. *)
LEMMA EcallStep ==
  ASSUME FInv, NEW c \in Cpu, NEW nap, ecall(c, nap)
  PROVE  FInv'
<1> DEFINE t == On(c)
           k == cpu[c]
           l == IF killed[t] THEN "exit" ELSE "sys_sleep"
           j == [uservec(k) EXCEPT !.sie = ~killed[t]]
<1>1. /\ trap[t] = "none" /\ pc[t] = "user"
      /\ k \in CpuState /\ Flags(k, "user", "none") /\ t \in Proc
      /\ \A m \in Lock : lk[m] = c <=> m \in Owned(t, "user", "none", next[c])
  BY CpuFacts DEF Scheduling, ecall, At
<1>2. /\ cpu' = [cpu EXCEPT ![c] = j]
      /\ pc' = [pc EXCEPT ![t] = l]
      /\ UNCHANGED <<trap, saved, procs, waking, timer, next, lk>>
  BY DEF ecall, Goto, FInv, TypeOK
<1>3. j \in CpuState /\ j.proc = k.proc /\ Flags(j, l, "none")
  <2>1. uservec(k) \in CpuState /\ killed[t] \in BOOLEAN
    BY <1>1, Uservec DEF FInv, TypeOK
  <2>2. /\ j \in CpuState /\ j.noff = uservec(k).noff /\ j.sie = ~killed[t]
        /\ j.stvec = uservec(k).stvec /\ j.proc = uservec(k).proc
    <3> HIDE DEF t, k
    <3> QED
      BY Zenon, <2>1 DEF CpuState
  <2> QED
    BY ZenonT(40), <1>1, <2>2, Uservec DEF Flags, Holds, Spinning
<1>4. lk' \in [Lock -> Cpu \cup {Free}]
  BY <1>2 DEF FInv, TypeOK
<1>5. \A m \in Lock : lk'[m] = c <=> m \in Owned(t, l, "none", next'[c])
  BY Zenon, <1>1, <1>2 DEF Owned
<1>6. pc[t] \notin Scheduling /\ l \in Processing \ {"zombie", "awake"}
  BY ZenonT(40), <1>1 DEF Scheduling, Processing, Interruptible
<1> HIDE DEF l, j
<1>7. /\ cpu' \in [Cpu -> CpuState] /\ cpu'[c] = j
      /\ \A d \in Cpu \ {c} : cpu'[d] = cpu[d]
      /\ pc' \in [Thread -> Scheduling \cup Processing] /\ pc'[t] = l
      /\ \A s \in Thread \ {t} : pc'[s] = pc[s]
      /\ next' \in [Cpu -> Proc]
  <2>1. /\ cpu \in [Cpu -> CpuState] /\ pc \in [Thread -> Scheduling \cup Processing]
        /\ next \in [Cpu -> Proc] /\ t \in Thread /\ l \in Scheduling \cup Processing
    BY Zenon, <1>6, CpuFacts DEF FInv, TypeOK
  <2> HIDE DEF t
  <2> QED
    BY ZenonT(40), <1>2, <1>3, <2>1, Assigned
<1> QED
  BY SMTT(40), <1>1, <1>2, <1>3, <1>4, <1>5, <1>6, <1>7, MoveOut

(* A step of an interrupt that leaves the thread on its CPU. *)
LEMMA MoveTrap ==
  ASSUME FInv, NEW c \in Cpu,
         cpu' \in [Cpu -> CpuState],
         \A d \in Cpu \ {c} : cpu'[d] = cpu[d],
         cpu'[c].proc = cpu[c].proc,
         UNCHANGED <<pc, next, saved, killed>>,
         timer' \subseteq Cpu,
         waking' \in Proc,
         state' \in [Proc -> {"SLEEPING", "RUNNABLE", "RUNNING", "ZOMBIE"}],
         \A p \in Proc : state[p] \in {"RUNNING", "ZOMBIE"} => state'[p] = state[p],
         trap' \in [Thread -> {"none", "sret"} \cup InClock \cup Switching],
         \A s \in Thread \ {On(c)} : trap'[s] = trap[s],
         cpu[c].proc = Idle => trap'[On(c)] \in {"sret"} \cup InClock,
         cpu[c].proc # Idle => trap'[On(c)] \in InClock \cup Switching,
         pc[On(c)] \in {"intr_on", "scan"} \cup Interruptible,
         lk' \in [Lock -> Cpu \cup {Free}],
         \A m \in Lock : lk'[m] # lk[m] => lk[m] \in {Free, c} /\ lk'[m] \in {Free, c},
         \A m \in Lock : lk'[m] = c <=> m \in Owned(On(c), pc[On(c)], trap'[On(c)], next[c]),
         Flags(cpu'[c], pc[On(c)], trap'[On(c)])
  PROVE  FInv'
<1> DEFINE t == On(c)
<1>0. /\ TypeOK
      /\ t \in Thread
      /\ cpu[c].proc = Idle => t = c
      /\ cpu[c].proc # Idle => t \in Proc
  BY ZenonT(60), OnFacts DEF FInv
<1>1. TypeOK'
  <2>1. \A d \in Cpu : trap'[d] \in {"none", "sret"} \cup InClock
    BY SMTT(40), <1>0, Names DEF TypeOK
  <2>2. \A p \in Proc : trap'[p] # "sret"
    BY SMTT(30), <1>0, Names DEF TypeOK, InClock, Switching
  <2> QED
    BY <1>0, <2>1, <2>2 DEF TypeOK
<1>2. pc[t] \notin {"zombie", "awake"}
  BY ZenonT(30) DEF Interruptible
<1> HIDE DEF t
<1> QED
  BY ZenonT(120), <1>0, <1>1, <1>2, Move DEF t

(* An interrupt comes only where the thread holds no lock and waits for none. *)
LEMMA InterruptStep ==
  ASSUME FInv, NEW c \in Cpu, interrupt(c)
  PROVE  FInv'
<1> DEFINE t == On(c)
           k == cpu[c]
           r == trap'[t]
<1>1. /\ k \in CpuState /\ t \in Thread /\ Flags(k, pc[t], trap[t])
      /\ \A m \in Lock : lk[m] = c <=> m \in Owned(t, pc[t], trap[t], next[c])
      /\ k.proc = Idle => t = c
      /\ k.proc # Idle => t \in Proc /\ pc[t] # "zombie"
  BY Zenon, CpuFacts, OnFacts DEF Processing, Interruptible, Holding, Scheduling
<1>2. trap[t] = "none" /\ k.noff = 0
  BY Zenon, <1>1 DEF Flags, interrupt, CpuState
<1>3. pc[t] \in {"intr_on", "scan"} \cup Interruptible
  <2>1. /\ t \in Cpu => pc[t] \in Scheduling
        /\ t \in Proc => pc[t] \in Processing
    BY ZenonT(40) DEF FInv, TypeOK
  <2>2. pc[t] # "userret"
    BY ZenonT(60), <1>1, <1>2 DEF Flags, interrupt
  <2>3. ~Holds(pc[t], "none") /\ pc[t] \notin Spinning
    <3>1. Flags(k, pc[t], "none") /\ k.noff = 0
      BY Zenon, <1>1, <1>2
    <3>2. CASE Holds(pc[t], "none") \/ pc[t] \in Spinning
      <4>1. k.noff = 1
        BY <3>1, <3>2, ZenonT(30) DEF Flags
      <4> QED
        BY <3>1, <4>1
    <3> QED
      BY Zenon, <3>2
  <2> QED
    BY ZenonT(60), <1>1, <2>1, <2>2, <2>3, OnFacts
      DEF Scheduling, Processing, Holding, Holds, Spinning
<1>4. /\ cpu' = [cpu EXCEPT ![c] = uservec(k)]
      /\ trap' = [trap EXCEPT ![t] = r]
      /\ r \in {"clockintr", "sret", "exit", "yield"}
      /\ k.proc = Idle => r \in {"clockintr", "sret"}
      /\ k.proc # Idle => r \in {"clockintr", "exit", "yield"}
      /\ timer' \subseteq Cpu
      /\ UNCHANGED <<lk, pc, next, saved, procs, waking>>
  <2>0. TypeOK
    BY DEF FInv
  <2> QED
    BY <1>1, <2>0 DEF interrupt, Served, GotoTrap, TypeOK
<1>5. /\ uservec(k) \in CpuState /\ uservec(k).proc = k.proc
      /\ Flags(uservec(k), pc[t], r)
  <2>1. /\ uservec(k) \in CpuState /\ uservec(k).noff = 0 /\ ~uservec(k).sie
        /\ uservec(k).stvec = "kernelvec" /\ uservec(k).proc = k.proc
    BY Zenon, <1>1, <1>2, Uservec
  <2> QED
    BY ZenonT(30), <1>4, <2>1 DEF Flags, Holds
<1>6. /\ \A m \in Lock : lk'[m] = c <=> m \in Owned(t, pc[t], r, next[c])
      /\ lk' = lk /\ lk \in [Lock -> Cpu \cup {Free}]
  BY ZenonT(30), <1>1, <1>2, <1>3, <1>4 DEF Owned, Interruptible, FInv, TypeOK
<1>7. /\ cpu' \in [Cpu -> CpuState] /\ cpu'[c] = uservec(k)
      /\ \A d \in Cpu \ {c} : cpu'[d] = cpu[d]
      /\ trap' \in [Thread -> {"none", "sret"} \cup InClock \cup Switching]
      /\ \A s \in Thread \ {t} : trap'[s] = trap[s]
      /\ state' = state /\ killed' = killed
      /\ state \in [Proc -> {"SLEEPING", "RUNNABLE", "RUNNING", "ZOMBIE"}]
      /\ waking' \in Proc
  BY <1>4, <1>5 DEF FInv, TypeOK, InClock, Switching, procs
<1>8. /\ k.proc = Idle => r \in {"sret"} \cup InClock
      /\ k.proc # Idle => r \in InClock \cup Switching
  BY SMTT(40), <1>4 DEF InClock, Switching
<1> QED
  BY ZenonT(40), <1>3, <1>4, <1>5, <1>6, <1>7, <1>8, MoveTrap

(* Where the thread is while clockintr() runs. *)
LEMMA InClockFacts ==
  ASSUME FInv, NEW c \in Cpu, trap[On(c)] # "none"
  PROVE  /\ cpu[c] \in CpuState /\ On(c) \in Thread
         /\ Flags(cpu[c], pc[On(c)], trap[On(c)])
         /\ \A m \in Lock : lk[m] = c <=> m \in Owned(On(c), pc[On(c)], trap[On(c)], next[c])
         /\ pc[On(c)] \in {"intr_on", "scan"} \cup Interruptible
         /\ cpu[c].proc = Idle => On(c) = c /\ pc[On(c)] \in {"intr_on", "scan"}
         /\ cpu[c].proc # Idle => On(c) \in Proc /\ On(c) = cpu[c].proc /\ next[c] = On(c)
                                    /\ pc[On(c)] \in Interruptible
                                    /\ state[On(c)] = "RUNNING"
                                    /\ pc[c] = "back" /\ trap[c] = "none"
         /\ cpu \in [Cpu -> CpuState] /\ timer \subseteq Cpu
         /\ lk \in [Lock -> Cpu \cup {Free}]
         /\ trap \in [Thread -> {"none", "sret"} \cup InClock \cup Switching]
         /\ waking \in Proc
         /\ state \in [Proc -> {"SLEEPING", "RUNNABLE", "RUNNING", "ZOMBIE"}]
<1>1. /\ TypeOK /\ RunInv /\ PlaceInv
  BY ZenonT(30) DEF FInv
<1>2. /\ On(c) \in Thread
      /\ cpu[c].proc = Idle => On(c) = c
      /\ cpu[c].proc # Idle => On(c) \in Proc /\ On(c) = cpu[c].proc
  BY OnFacts
<1>3. /\ cpu[c].proc = Idle => pc[On(c)] \in {"intr_on", "scan"}
      /\ cpu[c].proc # Idle => pc[On(c)] \in Interruptible
  BY <1>1, <1>2 DEF PlaceInv
<1>4. cpu[c].proc # Idle => /\ state[On(c)] = "RUNNING" /\ next[c] = On(c)
                            /\ pc[c] = "back" /\ trap[c] = "none"
  BY Zenon, <1>1, <1>2 DEF RunInv
<1> QED
  BY <1>1, <1>2, <1>3, <1>4, CpuFacts DEF TypeOK

LEMMA ClockintrTickStep ==
  ASSUME FInv, NEW c \in Cpu, clockintr_tick(c)
  PROVE  FInv'
<1> DEFINE t == On(c)
           k == cpu[c]
<1>1. trap[t] = "clockintr" /\ lk[tickslock] = Free
  BY Zenon DEF clockintr_tick, In, acquire, Take
<1>2. /\ cpu' = [cpu EXCEPT ![c] = push_off(k)]
      /\ trap' = [trap EXCEPT ![t] = "wakeup"]
      /\ lk' = [lk EXCEPT ![tickslock] = c]
      /\ UNCHANGED <<timer, pc, next, saved, state, killed, waking>>
  BY ZenonT(30) DEF clockintr_tick, GotoTrap, acquire, Take, procs
<1>3. /\ push_off(k) \in CpuState /\ push_off(k).proc = k.proc
      /\ Flags(push_off(k), pc[t], "wakeup")
  <2>1. k \in CpuState /\ k.noff = 0 /\ ~k.sie /\ k.stvec = "kernelvec"
    BY ZenonT(30), <1>1, InClockFacts DEF Flags, Holds, CpuState
  <2>2. /\ push_off(k) \in CpuState /\ push_off(k).noff = 1 /\ ~push_off(k).intena
        /\ ~push_off(k).sie /\ push_off(k).stvec = "kernelvec" /\ push_off(k).proc = k.proc
    BY Zenon, <2>1, PushOff
  <2> QED
    BY Zenon, <2>2 DEF Flags, Holds
<1>4. /\ \A m \in Lock : lk'[m] = c <=> m \in Owned(t, pc[t], "wakeup", next[c])
      /\ \A m \in Lock : lk'[m] # lk[m] => lk[m] \in {Free, c} /\ lk'[m] \in {Free, c}
      /\ lk' \in [Lock -> Cpu \cup {Free}]
  BY ZenonT(120), <1>1, <1>2, InClockFacts, Names DEF Owned
<1>5. /\ cpu' \in [Cpu -> CpuState] /\ cpu'[c] = push_off(k)
      /\ \A d \in Cpu \ {c} : cpu'[d] = cpu[d]
      /\ trap' \in [Thread -> {"none", "sret"} \cup InClock \cup Switching]
      /\ trap'[t] = "wakeup"
      /\ \A s \in Thread \ {t} : trap'[s] = trap[s]
  <2>0. "wakeup" \in InClock
    BY Zenon DEF InClock
  <2>1. /\ cpu \in [Cpu -> CpuState] /\ t \in Thread
        /\ "wakeup" \in {"none", "sret"} \cup InClock \cup Switching
        /\ trap \in [Thread -> {"none", "sret"} \cup InClock \cup Switching]
    BY Zenon, <1>1, <2>0, InClockFacts
  <2> HIDE DEF t, k
  <2> QED
    BY ZenonT(40), <1>2, <1>3, <2>1, Assigned
<1>6. "wakeup" \in InClock
  BY DEF InClock
<1>7. /\ cpu'[c].proc = cpu[c].proc
      /\ UNCHANGED <<pc, next, saved, killed>>
      /\ timer' \subseteq Cpu
      /\ waking' \in Proc
      /\ state' = state /\ state \in [Proc -> {"SLEEPING", "RUNNABLE", "RUNNING", "ZOMBIE"}]
      /\ pc[t] \in {"intr_on", "scan"} \cup Interruptible
  BY ZenonT(30), <1>1, <1>2, <1>3, <1>5, InClockFacts DEF FInv, TypeOK
<1>8. Flags(cpu'[c], pc[t], trap'[t]) /\ trap'[t] \in InClock
  BY ZenonT(30), <1>3, <1>5, <1>6
<1> QED
  BY ZenonT(60), <1>4, <1>5, <1>7, <1>8, MoveTrap

LEMMA ClockintrWakeupStep ==
  ASSUME FInv, NEW c \in Cpu, clockintr_wakeup(c)
  PROVE  FInv'
<1> DEFINE t == On(c)
           k == cpu[c]
           r == trap'[t]
<1>1. trap[t] = "wakeup"
  BY DEF clockintr_wakeup, In
<1>2. /\ UNCHANGED <<cpu, timer, lk, pc, next, saved, killed>>
      /\ trap' = [trap EXCEPT ![t] = r] /\ r \in {"wakeup", "release"}
      /\ waking' = IF waking = NPROC THEN 1 ELSE waking + 1
      /\ state' \in {state, Woken(waking)}
  BY ZenonT(30), <1>1, InClockFacts DEF clockintr_wakeup
<1>3. waking' \in Proc
  BY SMTT(40), <1>1, <1>2, InClockFacts, ClockConstants DEF Proc
<1>4. /\ state' \in [Proc -> {"SLEEPING", "RUNNABLE", "RUNNING", "ZOMBIE"}]
      /\ \A p \in Proc : state[p] \in {"RUNNING", "ZOMBIE"} => state'[p] = state[p]
  BY <1>1, <1>2, InClockFacts DEF Woken
<1>5. Flags(k, pc[t], r)
  BY ZenonT(30), <1>1, <1>2, InClockFacts DEF Flags, Holds
<1>6. \A m \in Lock : lk'[m] = c <=> m \in Owned(t, pc[t], r, next[c])
  BY ZenonT(40), <1>1, <1>2, InClockFacts DEF Owned
<1>7. /\ trap' \in [Thread -> {"none", "sret"} \cup InClock \cup Switching]
      /\ \A s \in Thread \ {t} : trap'[s] = trap[s]
      /\ r \in InClock
  BY SMTT(40), <1>1, <1>2, InClockFacts DEF InClock
<1> QED
  BY ZenonT(30), <1>1, <1>2, <1>3, <1>4, <1>5, <1>6, <1>7, InClockFacts, MoveTrap

LEMMA ClockintrReleaseStep ==
  ASSUME FInv, NEW c \in Cpu, clockintr_release(c)
  PROVE  FInv'
<1> DEFINE t == On(c)
           k == cpu[c]
           r == trap'[t]
<1>1. trap[t] = "release"
  BY DEF clockintr_release, In
<1>2. /\ cpu' = [cpu EXCEPT ![c] = pop_off(k)]
      /\ trap' = [trap EXCEPT ![t] = r]
      /\ r \in {"sret", "exit", "yield"}
      /\ k.proc = Idle => r = "sret"
      /\ k.proc # Idle => r \in {"exit", "yield"}
      /\ lk' = [lk EXCEPT ![tickslock] = Free]
      /\ timer' \subseteq Cpu
      /\ UNCHANGED <<pc, next, saved, state, killed, waking>>
  BY Zenon, <1>1, InClockFacts DEF clockintr_release, GotoTrap, release, Served, procs
<1>3. /\ pop_off(k) \in CpuState /\ pop_off(k).proc = k.proc
      /\ Flags(pop_off(k), pc[t], r)
  <2>1. k \in CpuState /\ k.noff = 1 /\ ~k.sie /\ ~k.intena /\ k.stvec = "kernelvec"
    BY ZenonT(30), <1>1, InClockFacts DEF Flags, Holds, CpuState
  <2>2. /\ pop_off(k) \in CpuState /\ pop_off(k).noff = 0
        /\ ~pop_off(k).sie /\ pop_off(k).stvec = "kernelvec" /\ pop_off(k).proc = k.proc
    BY Zenon, <2>1, PopOff
  <2> QED
    BY ZenonT(30), <1>2, <2>2 DEF Flags, Holds
<1>4. /\ \A m \in Lock : lk'[m] = c <=> m \in Owned(t, pc[t], r, next[c])
      /\ \A m \in Lock : lk'[m] # lk[m] => lk[m] \in {Free, c} /\ lk'[m] \in {Free, c}
      /\ lk' \in [Lock -> Cpu \cup {Free}]
  <2>1. /\ Owned(t, pc[t], trap[t], next[c]) = {tickslock}
        /\ Owned(t, pc[t], r, next[c]) = {}
    BY Zenon, <1>1, <1>2 DEF Owned
  <2>2. /\ lk \in [Lock -> Cpu \cup {Free}] /\ tickslock \in Lock /\ Free # c
        /\ \A m \in Lock : lk[m] = c <=> m = tickslock
    BY ZenonT(40), <1>1, <2>1, InClockFacts, Names
  <2> QED
    BY Zenon, <1>2, <2>1, <2>2
<1>5. /\ cpu' \in [Cpu -> CpuState] /\ cpu'[c] = pop_off(k)
      /\ \A d \in Cpu \ {c} : cpu'[d] = cpu[d]
      /\ trap' \in [Thread -> {"none", "sret"} \cup InClock \cup Switching]
      /\ \A s \in Thread \ {t} : trap'[s] = trap[s]
  BY SMTT(40), <1>1, <1>2, <1>3, InClockFacts DEF InClock, Switching
<1>6. /\ k.proc = Idle => r \in {"sret"} \cup InClock
      /\ k.proc # Idle => r \in InClock \cup Switching
  BY Zenon, <1>2 DEF InClock, Switching
<1>7. /\ cpu'[c].proc = cpu[c].proc
      /\ UNCHANGED <<pc, next, saved, killed>>
      /\ timer' \subseteq Cpu
      /\ waking' \in Proc
      /\ state' = state /\ state \in [Proc -> {"SLEEPING", "RUNNABLE", "RUNNING", "ZOMBIE"}]
      /\ pc[t] \in {"intr_on", "scan"} \cup Interruptible
  BY ZenonT(30), <1>1, <1>2, <1>3, <1>5, InClockFacts DEF FInv, TypeOK
<1>8. Flags(cpu'[c], pc[t], trap'[t])
  BY ZenonT(30), <1>3, <1>5
<1> QED
  BY ZenonT(60), <1>4, <1>5, <1>6, <1>7, <1>8, MoveTrap

(* kerneltrap() and usertrap() return: p->lock of yield() is released. *)
LEMMA TrapReturnStep ==
  ASSUME FInv, NEW c \in Cpu, trap_return(c)
  PROVE  FInv'
<1> DEFINE t == On(c)
           k == cpu[c]
           h == IF trap[t] = "resumed" THEN pop_off(k) ELSE k
           j == [h EXCEPT !.sie = h.sie \/ pc[t] # "user"]
           l == IF pc[t] = "user" THEN "return" ELSE pc[t]
<1>1. trap[t] \in {"resumed", "sret"}
  BY DEF trap_return, In
<1>2. /\ cpu' = [cpu EXCEPT ![c] = j]
      /\ trap' = [trap EXCEPT ![t] = "none"]
      /\ lk' = IF trap[t] = "resumed" THEN [lk EXCEPT ![t] = Free] ELSE lk
      /\ pc' = [pc EXCEPT ![t] = l]
      /\ UNCHANGED <<timer, next, saved, state, killed, waking>>
  BY ZenonT(30) DEF trap_return, In, GotoTrap, procs, FInv, TypeOK
<1>3. k \in CpuState /\ k.stvec = "kernelvec"
  BY ZenonT(40), <1>1, InClockFacts DEF Flags, CpuState
<1>4. h \in CpuState /\ h.proc = k.proc /\ h.stvec = "kernelvec" /\ h.noff = 0
  <2>1. CASE trap[t] = "resumed"
    <3>1. k.noff = 1
      BY ZenonT(30), <2>1, InClockFacts DEF Flags, Holds
    <3> QED
      BY Zenon, <1>3, <2>1, <3>1, PopOff
  <2>2. CASE trap[t] = "sret"
    <3>1. k.noff = 0
      BY ZenonT(30), <2>2, InClockFacts DEF Flags, Holds
    <3> QED
      BY Zenon, <1>3, <2>2, <3>1
  <2> QED
    BY ZenonT(60), <1>1, <2>1, <2>2
<1> HIDE DEF h
<1>5. /\ j \in CpuState /\ j.proc = k.proc /\ j.stvec = "kernelvec" /\ j.noff = 0
      /\ j.sie <=> h.sie \/ pc[t] # "user"
  <2> DEFINE b == h.sie \/ pc[t] # "user"
  <2>1. b \in BOOLEAN
    OBVIOUS
  <2>2. j = [h EXCEPT !.sie = b]
    OBVIOUS
  <2> HIDE DEF b, j
  <2>3. /\ j \in CpuState /\ j.proc = k.proc /\ j.stvec = "kernelvec" /\ j.noff = 0
        /\ j.sie = b
    BY <1>4, <2>1, <2>2 DEF CpuState
  <2> QED
    BY Zenon, <2>3 DEF b
<1>6. /\ t \in Cpu => t = c /\ l \in {"intr_on", "scan"}
      /\ t \in Proc => l \in Interruptible \ {"user"}
      /\ l \in ({"intr_on", "scan"} \cup Interruptible) \ {"user"}
  <2>1. /\ t \in Cpu => t = c /\ pc[t] \in {"intr_on", "scan"}
        /\ t \in Proc => pc[t] \in Interruptible
        /\ t \in Cpu \/ t \in Proc
    BY ZenonT(60), <1>1, InClockFacts, OnFacts, Names
  <2>2. "return" \in Interruptible /\ "return" \notin {"intr_on", "scan", "user"}
    BY DEF Interruptible
  <2>3. pc[t] \in {"intr_on", "scan"} => l = pc[t] /\ l # "user"
    OBVIOUS
  <2>4. pc[t] \in Interruptible => l \in Interruptible \ {"user"}
    BY <2>2
  <2> HIDE DEF l
  <2> QED
    BY ZenonT(60), <2>1, <2>3, <2>4
<1>7. Flags(j, l, "none")
  <2>1. /\ ~Holds(l, "none") /\ l \notin Spinning
        /\ l \notin {"start", "while", "again", "awake", "userret", "user"}
    BY Zenon, <1>6 DEF Holds, Spinning, Interruptible
  <2>2. l # "return" => l = pc[t] /\ pc[t] # "user"
    OBVIOUS
  <2> HIDE DEF l, j
  <2>3. l # "return" => j.sie
    BY ZenonT(30), <1>5, <2>2
  <2> QED
    <3>1. j.noff = IF Holds(l, "none") \/ ("none" = "none" /\ l \in Spinning) THEN 1 ELSE 0
      BY <1>5, <2>1, Zenon
    <3>2. j.noff # 1
      BY <1>5
    <3> QED
      BY Zenon, <1>5, <2>1, <2>3, <3>1, <3>2 DEF Flags
<1> HIDE DEF l, j
<1>8. /\ \A m \in Lock : lk'[m] = c <=> m \in Owned(t, l, "none", next[c])
      /\ \A m \in Lock : lk'[m] # lk[m] => lk[m] \in {Free, c} /\ lk'[m] \in {Free, c}
      /\ lk' \in [Lock -> Cpu \cup {Free}]
  <2>1. Owned(t, l, "none", next[c]) = {}
    BY Zenon, <1>6 DEF Owned, Interruptible
  <2>2. Free # c /\ lk \in [Lock -> Cpu \cup {Free}]
    BY Names DEF FInv, TypeOK
  <2>3. CASE trap[t] = "resumed"
    <3>1. \A m \in Lock : lk[m] = c <=> m = t
      BY SMTT(40), <2>3, InClockFacts DEF Owned
    <3> QED
      BY ZenonT(30), <1>2, <2>1, <2>2, <2>3, <3>1
  <2>4. CASE trap[t] = "sret"
    <3>1. \A m \in Lock : lk[m] # c
      BY ZenonT(30), <2>4, InClockFacts DEF Owned
    <3> QED
      BY <1>2, <2>1, <2>2, <2>4, <3>1
  <2> QED
    BY <1>1, <2>3, <2>4
<1>9. /\ cpu' \in [Cpu -> CpuState] /\ cpu'[c] = j
      /\ \A d \in Cpu \ {c} : cpu'[d] = cpu[d]
      /\ trap' \in [Thread -> {"none", "sret"} \cup InClock \cup Switching]
      /\ trap'[t] = "none" /\ pc'[t] = l
      /\ \A s \in Thread \ {t} : trap'[s] = trap[s] /\ pc'[s] = pc[s]
      /\ pc' \in [Thread -> Scheduling \cup Processing]
  <2>1. /\ cpu \in [Cpu -> CpuState] /\ t \in Thread
        /\ trap \in [Thread -> {"none", "sret"} \cup InClock \cup Switching]
    BY ZenonT(30), <1>1, InClockFacts
  <2>2. l \in Scheduling \cup Processing
    BY Zenon, <1>6 DEF Scheduling, Processing
  <2>3. pc \in [Thread -> Scheduling \cup Processing]
    BY ZenonT(30) DEF FInv, TypeOK
  <2>4. /\ cpu' \in [Cpu -> CpuState] /\ cpu'[c] = j
        /\ \A d \in Cpu \ {c} : cpu'[d] = cpu[d]
    BY Zenon, <1>2, <1>5, <2>1
  <2>5. /\ trap' \in [Thread -> {"none", "sret"} \cup InClock \cup Switching]
        /\ trap'[t] = "none"
        /\ \A s \in Thread \ {t} : trap'[s] = trap[s]
    BY Zenon, <1>2, <2>1
  <2>6. /\ pc' \in [Thread -> Scheduling \cup Processing] /\ pc'[t] = l
        /\ \A s \in Thread \ {t} : pc'[s] = pc[s]
    BY Zenon, <1>2, <2>1, <2>2, <2>3
  <2> QED
    BY Zenon, <2>4, <2>5, <2>6
<1>10. TypeOK'
  <2>1. /\ timer' \subseteq Cpu /\ next' \in [Cpu -> Proc] /\ waking' \in Proc
        /\ saved' \in [Proc -> BOOLEAN] /\ killed' \in [Proc -> BOOLEAN]
        /\ state' \in [Proc -> {"SLEEPING", "RUNNABLE", "RUNNING", "ZOMBIE"}]
    BY <1>2 DEF FInv, TypeOK
  <2>2. \A d \in Cpu : pc'[d] \in Scheduling /\ trap'[d] \in {"none", "sret"} \cup InClock
    BY ZenonT(30), <1>6, <1>9, Names DEF FInv, TypeOK, Scheduling
  <2>3. \A p \in Proc : pc'[p] \in Processing /\ trap'[p] # "sret"
    BY <1>6, <1>9, Names DEF FInv, TypeOK, Processing
  <2> QED
    BY ZenonT(40), <1>8, <1>9, <2>1, <2>2, <2>3 DEF TypeOK
<1>11. l \notin {"zombie", "awake"}
  BY ZenonT(30), <1>6 DEF Interruptible
<1> HIDE DEF t
<1> QED
  BY <1>2, <1>5, <1>7, <1>8, <1>9, <1>10, <1>11, Move DEF t

-----------------------------------------------------------------------------
(* swtch() *)

(* A process leaves the CPU with its own lock held, for the scheduler.     *)
LEMMA SwitchAway ==
  ASSUME FInv, TypeOK', NEW c \in Cpu, NEW p \in Proc, p = On(c), cpu[c].proc = p,
         cpu'[c].proc = Idle, cpu'[c].noff = 1, ~cpu'[c].sie, cpu'[c].stvec = "kernelvec",
         \A d \in Cpu \ {c} : cpu'[d] = cpu[d],
         next' = next,
         \A s \in Thread \ {p} : pc'[s] = pc[s] /\ trap'[s] = trap[s],
         \A q \in Proc \ {p} : state'[q] = state[q] /\ saved'[q] = saved[q],
         \A m \in Lock : lk'[m] # lk[m] => lk[m] \in {Free, c} /\ lk'[m] \in {Free, c},
         \A m \in Lock : lk'[m] = c <=> m = p,
         \/ trap'[p] = "resumed" /\ pc'[p] \in Interruptible
         \/ trap'[p] = "none" /\ pc'[p] = "awake" /\ saved'[p]
         \/ trap'[p] = "none" /\ pc'[p] = "zombie" /\ state'[p] = "ZOMBIE"
  PROVE  FInv'
<1>1. /\ TypeOK /\ RunInv /\ PlaceInv /\ p \notin Cpu /\ c \notin Proc /\ p # Idle
      /\ c \in Thread
  BY ZenonT(30), Names DEF FInv
<1>2. /\ On(c)' = c
      /\ pc'[c] = "back" /\ trap'[c] = "none" /\ next'[c] = p
  <2>1. pc[c] = "back" /\ trap[c] = "none" /\ next[c] = p
    BY Zenon, <1>1 DEF RunInv
  <2>2. c \in Thread \ {p}
    BY Zenon, <1>1
  <2>3. On(c)' = c
    BY Zenon DEF On
  <2> QED
    BY Zenon, <2>1, <2>2, <2>3
<1>3. LockOK(c)' /\ FlagOK(c)'
  <2>1. LockOK(c)'
    BY <1>2 DEF LockOK, Owned
  <2>2. FlagOK(c)'
    <3>1. Flags(cpu'[c], "back", "none")
      BY Zenon DEF Flags, Holds
    <3> QED
      BY Zenon, <1>2, <3>1 DEF FlagOK
  <2> QED
    BY ZenonT(30), <2>1, <2>2
<1>4. \A d \in Cpu : LockOK(d)' /\ FlagOK(d)'
  <2>1. \A s \in Thread \ {c, On(c)} : pc'[s] = pc[s] /\ trap'[s] = trap[s]
    BY ZenonT(30)
  <2>2. \A d \in Cpu \ {c} : cpu'[d] = cpu[d] /\ next'[d] = next[d]
    BY ZenonT(40)
  <2> QED
    BY Zenon, <1>3, <2>1, <2>2, Frame
<1>5. RunInv'
  <2>1. ASSUME NEW d \in Cpu, cpu'[d].proc # Idle
        PROVE  /\ d # c /\ cpu'[d] = cpu[d] /\ cpu[d].proc \in Proc \ {p}
               /\ state'[cpu'[d].proc] = "RUNNING"
               /\ pc'[d] = "back" /\ trap'[d] = "none" /\ next'[d] = cpu'[d].proc
    <3>1. d # c /\ cpu'[d] = cpu[d]
      BY ZenonT(40), <2>1
    <3>2. cpu[d].proc \in Proc \ {p}
      BY SMTT(30), <1>1, <2>1, <3>1 DEF RunInv, TypeOK, CpuState
    <3>3. d \in Thread \ {p}
      BY Zenon, <1>1, Names
    <3> QED
      BY SMTT(30), <1>1, <2>1, <3>1, <3>2, <3>3 DEF RunInv
  <2> QED
    BY SMTT(40), <1>1, <2>1 DEF RunInv
<1>6. PlaceInv'
  <2>1. \A d \in Cpu : trap'[d] # "none" => pc'[d] \in {"intr_on", "scan"}
    BY ZenonT(120), <1>1, Names DEF PlaceInv
  <2>2. ASSUME NEW q \in Proc
        PROVE  /\ trap'[q] # "none" => pc'[q] \in Interruptible
               /\ (\A d \in Cpu : cpu'[d].proc # q) =>
                    \/ trap'[q] = "resumed"
                    \/ trap'[q] = "none" /\ pc'[q] \in {"forkret", "awake", "zombie"}
               /\ pc'[q] = "zombie" => state'[q] = "ZOMBIE"
               /\ pc'[q] = "awake" => saved'[q]
    <3>1. CASE q = p
      BY ZenonT(30), <3>1 DEF Interruptible
    <3>2. CASE q # p
      <4>1. q \in Thread /\ q # p
        BY Zenon, <3>2, Names
      <4>2. /\ pc'[q] = pc[q] /\ trap'[q] = trap[q] /\ state'[q] = state[q]
            /\ saved'[q] = saved[q]
        BY ZenonT(30), <4>1
      <4>3. \A d \in Cpu : cpu[d].proc = q => cpu'[d].proc = q
        BY ZenonT(60), <3>2
      <4> QED
        BY SMTT(40), <1>1, <4>2, <4>3 DEF PlaceInv
    <3> QED
      BY Zenon, <3>1, <3>2
  <2> QED
    BY Zenon, <2>1, <2>2 DEF PlaceInv
<1> QED
  BY ZenonT(30), <1>4, <1>5, <1>6 DEF FInv

LEMMA NoProc ==
  ASSUME NEW k \in CpuState
  PROVE  /\ [k EXCEPT !.proc = Idle] \in CpuState
         /\ [k EXCEPT !.proc = Idle].noff = k.noff
         /\ [k EXCEPT !.proc = Idle].sie = k.sie
         /\ [k EXCEPT !.proc = Idle].stvec = k.stvec
         /\ [k EXCEPT !.proc = Idle].proc = Idle
BY DEF CpuState

(* The two locks of sleep(). *)
LEMMA PushPop ==
  ASSUME NEW k \in CpuState, k.noff = 1
  PROVE  /\ pop_off(push_off(k)) \in CpuState
         /\ pop_off(push_off(k)).noff = 1
         /\ ~pop_off(push_off(k)).sie
         /\ pop_off(push_off(k)).intena = k.intena
         /\ pop_off(push_off(k)).stvec = k.stvec
<1> DEFINE b == IF k.noff = 0 THEN k.sie ELSE k.intena
           g == [k EXCEPT !.noff = k.noff + 1, !.intena = b, !.sie = FALSE]
           d == IF g.noff = 1 /\ g.intena THEN TRUE ELSE g.sie
<1>1. b = k.intena /\ k.intena \in BOOLEAN
  BY DEF CpuState
<1>2. push_off(k) = g
  BY DEF push_off
<1> HIDE DEF b
<1>3. /\ g \in [noff : 0 .. 2, intena : BOOLEAN, sie : BOOLEAN,
                stvec : {"uservec", "kernelvec"}, proc : Proc \cup {Idle}]
      /\ g.noff = 2 /\ g.intena = b /\ g.sie = FALSE /\ g.stvec = k.stvec
  <2>1. b \in BOOLEAN /\ k.noff + 1 = 2 /\ 2 \in 0 .. 2
    BY <1>1
  <2>2. g = [k EXCEPT !.noff = 2, !.intena = b, !.sie = FALSE]
    BY <2>1
  <2> HIDE DEF g
  <2> QED
    BY Zenon, <2>1, <2>2 DEF CpuState
<1>4. pop_off(g) = [g EXCEPT !.noff = g.noff - 1, !.sie = d]
  BY DEF pop_off
<1>5. d = FALSE
  BY <1>3
<1> HIDE DEF d
<1> HIDE DEF g
<1>6. pop_off(g) = [g EXCEPT !.noff = 1, !.sie = FALSE]
  <2>1. g.noff - 1 = 1
    BY <1>3
  <2> QED
    BY Zenon, <1>4, <1>5, <2>1
<1>7. /\ pop_off(g) \in CpuState /\ pop_off(g).noff = 1 /\ pop_off(g).sie = FALSE
      /\ pop_off(g).intena = b /\ pop_off(g).stvec = k.stvec
  BY ZenonT(40), <1>1, <1>3, <1>6 DEF CpuState
<1> QED
  BY <1>1, <1>2, <1>7

LEMMA YieldStep ==
  ASSUME FInv, NEW c \in Cpu, yield(c)
  PROVE  FInv'
<1> DEFINE p == On(c)
           k == cpu[c]
           j == [push_off(k) EXCEPT !.proc = Idle]
<1>1. trap[p] = "yield" /\ lk[p] = Free /\ TypeOK
  BY SMTT(40) DEF yield, In, FInv
<1>2. p \in Proc /\ k.proc = p /\ pc[p] \in Interruptible
  <2>1. k.proc # Idle
    BY <1>1, OnFacts DEF TypeOK, InClock
  <2> QED
    BY SMTT(40), <1>1, <2>1, InClockFacts
<1>3. /\ cpu' = [cpu EXCEPT ![c] = j]
      /\ saved' = [saved EXCEPT ![p] = push_off(k).intena]
      /\ trap' = [trap EXCEPT ![p] = "resumed"]
      /\ lk' = [lk EXCEPT ![p] = c]
      /\ state' = [state EXCEPT ![p] = "RUNNABLE"]
      /\ UNCHANGED <<timer, pc, next, killed, waking>>
  BY DEF yield, sched, GotoTrap
<1>4. k \in CpuState /\ k.noff = 0 /\ k.stvec = "kernelvec"
  BY ZenonT(30), <1>1, InClockFacts DEF Flags, Holds, CpuState
<1>5. /\ push_off(k) \in CpuState /\ push_off(k).noff = 1 /\ ~push_off(k).sie
      /\ push_off(k).stvec = "kernelvec" /\ push_off(k).intena \in BOOLEAN
  BY <1>4, PushOff DEF CpuState
<1>6. j \in CpuState /\ j.noff = 1 /\ ~j.sie /\ j.stvec = "kernelvec" /\ j.proc = Idle
  BY Zenon, <1>5, NoProc
<1> HIDE DEF j
<1>7. /\ \A m \in Lock : lk'[m] = c <=> m = p
      /\ \A m \in Lock : lk'[m] # lk[m] => lk[m] \in {Free, c} /\ lk'[m] \in {Free, c}
      /\ lk' \in [Lock -> Cpu \cup {Free}]
  <2>1. \A m \in Lock : lk[m] # c
    BY Zenon, <1>1, InClockFacts DEF Owned
  <2> QED
    BY Zenon, <1>1, <1>2, <1>3, <2>1, Names DEF TypeOK
<1>8. /\ cpu' \in [Cpu -> CpuState] /\ cpu'[c] = j
      /\ \A d \in Cpu \ {c} : cpu'[d] = cpu[d]
      /\ trap' \in [Thread -> {"none", "sret"} \cup InClock \cup Switching]
      /\ trap'[p] = "resumed"
      /\ \A s \in Thread \ {p} : trap'[s] = trap[s] /\ pc'[s] = pc[s]
      /\ saved' \in [Proc -> BOOLEAN]
      /\ state' \in [Proc -> {"SLEEPING", "RUNNABLE", "RUNNING", "ZOMBIE"}]
      /\ \A q \in Proc \ {p} : state'[q] = state[q] /\ saved'[q] = saved[q]
  BY ZenonT(120), <1>1, <1>2, <1>3, <1>5, <1>6, Names DEF TypeOK, Switching
<1>9. TypeOK'
  BY SMTT(40), <1>1, <1>2, <1>3, <1>7, <1>8, Names DEF TypeOK
<1>10. /\ p \in Proc /\ p = On(c) /\ cpu[c].proc = p /\ next' = next
       /\ cpu'[c].proc = Idle /\ cpu'[c].noff = 1 /\ ~cpu'[c].sie
       /\ cpu'[c].stvec = "kernelvec"
       /\ trap'[p] = "resumed" /\ pc'[p] \in Interruptible
  BY ZenonT(30), <1>2, <1>3, <1>6, <1>8
<1> HIDE DEF p
<1> QED
  BY SMTT(40), <1>7, <1>8, <1>9, <1>10, SwitchAway

LEMMA ExitStep ==
  ASSUME FInv, NEW c \in Cpu, exit(c)
  PROVE  FInv'
<1> DEFINE p == On(c)
           k == cpu[c]
           j == [push_off(k) EXCEPT !.proc = Idle]
<1>1. /\ trap[p] = "exit" \/ (trap[p] = "none" /\ pc[p] = "exit")
      /\ lk[p] = Free /\ TypeOK
  BY DEF exit, In, At, FInv
<1>2. p \in Proc /\ k.proc = p
  <2>1. k.proc # Idle
    BY <1>1, OnFacts DEF TypeOK, InClock, Scheduling
  <2> QED
    BY ZenonT(60), <2>1, OnFacts
<1>3. /\ cpu' = [cpu EXCEPT ![c] = j]
      /\ trap' = [trap EXCEPT ![p] = "none"]
      /\ pc' = [pc EXCEPT ![p] = "zombie"]
      /\ lk' = [lk EXCEPT ![p] = c]
      /\ state' = [state EXCEPT ![p] = "ZOMBIE"]
      /\ UNCHANGED <<timer, next, saved, killed, waking>>
  BY Zenon DEF exit, GotoTrap, Goto
<1>4. k \in CpuState /\ k.noff = 0 /\ k.stvec = "kernelvec"
  BY ZenonT(30), <1>1, CpuFacts DEF Flags, Holds, Spinning, CpuState
<1>5. /\ push_off(k) \in CpuState /\ push_off(k).noff = 1 /\ ~push_off(k).sie
      /\ push_off(k).stvec = "kernelvec"
  BY <1>4, PushOff
<1>6. j \in CpuState /\ j.noff = 1 /\ ~j.sie /\ j.stvec = "kernelvec" /\ j.proc = Idle
  BY Zenon, <1>5, NoProc
<1> HIDE DEF j
<1>7. /\ \A m \in Lock : lk'[m] = c <=> m = p
      /\ \A m \in Lock : lk'[m] # lk[m] => lk[m] \in {Free, c} /\ lk'[m] \in {Free, c}
      /\ lk' \in [Lock -> Cpu \cup {Free}]
  <2>1. \A m \in Lock : lk[m] # c
    BY SMTT(40), <1>1, CpuFacts DEF Owned
  <2> QED
    BY ZenonT(40), <1>1, <1>2, <1>3, <2>1, Names DEF TypeOK
<1>8. /\ cpu' \in [Cpu -> CpuState] /\ cpu'[c] = j
      /\ \A d \in Cpu \ {c} : cpu'[d] = cpu[d]
      /\ trap' \in [Thread -> {"none", "sret"} \cup InClock \cup Switching]
      /\ trap'[p] = "none" /\ pc'[p] = "zombie" /\ state'[p] = "ZOMBIE"
      /\ pc' \in [Thread -> Scheduling \cup Processing]
      /\ \A s \in Thread \ {p} : trap'[s] = trap[s] /\ pc'[s] = pc[s]
      /\ state' \in [Proc -> {"SLEEPING", "RUNNABLE", "RUNNING", "ZOMBIE"}]
      /\ \A q \in Proc \ {p} : state'[q] = state[q]
  BY ZenonT(40), <1>1, <1>2, <1>3, <1>6, Names DEF TypeOK, Processing
<1>9. TypeOK'
  <2>1. "zombie" \in Processing
    BY Zenon DEF Processing
  <2> QED
    BY SMTT(40), <1>1, <1>2, <1>3, <1>7, <1>8, <2>1, Names DEF TypeOK
<1>10. /\ p \in Proc /\ p = On(c) /\ cpu[c].proc = p /\ next' = next
       /\ cpu'[c].proc = Idle /\ cpu'[c].noff = 1 /\ ~cpu'[c].sie
       /\ cpu'[c].stvec = "kernelvec"
       /\ saved' = saved
  BY ZenonT(30), <1>2, <1>3, <1>6, <1>8
<1> HIDE DEF p
<1> QED
  BY ZenonT(120), <1>7, <1>8, <1>9, <1>10, SwitchAway

(* sleep() calls sched() with the interrupts that acquire() found on.      *)
LEMMA SysSleepSleepStep ==
  ASSUME FInv, NEW c \in Cpu, sys_sleep_sleep(c)
  PROVE  FInv'
<1> DEFINE p == On(c)
           k == cpu[c]
           h == pop_off(push_off(k))
           j == [h EXCEPT !.proc = Idle]
<1>1. /\ trap[p] = "none" /\ pc[p] = "while" /\ lk[p] = Free /\ TypeOK
      /\ p \in Proc /\ k.proc = p
  BY Zenon, CpuFacts DEF sys_sleep_sleep, At, FInv, Scheduling
<1>2. /\ cpu' = [cpu EXCEPT ![c] = j]
      /\ saved' = [saved EXCEPT ![p] = h.intena]
      /\ pc' = [pc EXCEPT ![p] = "awake"]
      /\ lk' = [lk EXCEPT ![p] = c, ![tickslock] = Free]
      /\ state' = [state EXCEPT ![p] = "SLEEPING"]
      /\ UNCHANGED <<timer, trap, next, killed, waking>>
  BY DEF sys_sleep_sleep, sched, Goto
<1>3. k \in CpuState /\ k.noff = 1 /\ ~k.sie /\ k.intena /\ k.stvec = "kernelvec"
  BY ZenonT(30), <1>1, CpuFacts DEF Flags, Holds, Spinning, CpuState
<1>4. /\ h \in CpuState /\ h.noff = 1 /\ ~h.sie /\ h.intena = k.intena
      /\ h.stvec = "kernelvec"
  BY ZenonT(30), <1>3, PushPop
<1> HIDE DEF h
<1>5. j \in CpuState /\ j.noff = 1 /\ ~j.sie /\ j.stvec = "kernelvec" /\ j.proc = Idle
  BY SMTT(40), <1>4, NoProc
<1> HIDE DEF j
<1>6. /\ \A m \in Lock : lk'[m] = c <=> m = p
      /\ \A m \in Lock : lk'[m] # lk[m] => lk[m] \in {Free, c} /\ lk'[m] \in {Free, c}
      /\ lk' \in [Lock -> Cpu \cup {Free}]
  <2>1. \A m \in Lock : lk[m] = c <=> m = tickslock
    BY SMTT(40), <1>1, CpuFacts DEF Owned
  <2>2. p # tickslock /\ p \in Lock /\ tickslock \in Lock /\ Free # c
    BY <1>1, Names
  <2> QED
    BY ZenonT(60), <1>1, <1>2, <2>1, <2>2 DEF TypeOK
<1>7. h.intena \in BOOLEAN /\ h.intena
  BY Zenon, <1>3, <1>4
<1>8. /\ cpu' \in [Cpu -> CpuState] /\ cpu'[c] = j
      /\ \A d \in Cpu \ {c} : cpu'[d] = cpu[d]
      /\ trap'[p] = "none" /\ pc'[p] = "awake" /\ saved'[p]
      /\ pc' \in [Thread -> Scheduling \cup Processing]
      /\ \A s \in Thread \ {p} : trap'[s] = trap[s] /\ pc'[s] = pc[s]
      /\ saved' \in [Proc -> BOOLEAN]
      /\ state' \in [Proc -> {"SLEEPING", "RUNNABLE", "RUNNING", "ZOMBIE"}]
      /\ \A q \in Proc \ {p} : state'[q] = state[q] /\ saved'[q] = saved[q]
  BY ZenonT(120), <1>1, <1>2, <1>5, <1>7, Names DEF TypeOK, Processing, Holding
<1>9. TypeOK'
  <2>1. "awake" \in Processing
    BY DEF Processing, Holding
  <2> QED
    BY SMTT(40), <1>1, <1>2, <1>6, <1>8, <2>1, Names DEF TypeOK
<1>10. /\ p \in Proc /\ p = On(c) /\ cpu[c].proc = p /\ next' = next
       /\ cpu'[c].proc = Idle /\ cpu'[c].noff = 1 /\ ~cpu'[c].sie
       /\ cpu'[c].stvec = "kernelvec"
       /\ trap'[p] = "none" /\ pc'[p] = "awake" /\ saved'[p]
  BY ZenonT(30), <1>1, <1>2, <1>5, <1>8
<1> HIDE DEF p
<1> QED
  BY SMTT(40), <1>6, <1>8, <1>9, <1>10, SwitchAway

(* scheduler() finds the process where it left the CPU, with its lock held. *)
LEMMA SchedulerRunStep ==
  ASSUME FInv, NEW c \in Cpu, scheduler_run(c)
  PROVE  FInv'
<1> DEFINE p == next[c]
           k == cpu[c]
<1>1. /\ On(c) = c /\ k.proc = Idle /\ trap[c] = "none" /\ pc[c] = "spin"
      /\ lk[p] = Free /\ p \in Proc /\ k \in CpuState
      /\ Flags(k, "spin", "none")
      /\ \A m \in Lock : lk[m] = c <=> m \in Owned(c, "spin", "none", p)
  <2>1. trap[On(c)] = "none" /\ pc[On(c)] = "spin" /\ lk[p] = Free
    BY Zenon DEF scheduler_run, At, Take
  <2> QED
    BY ZenonT(40), <2>1, CpuFacts DEF Scheduling
<1>2. /\ TypeOK /\ RunInv /\ PlaceInv /\ p \notin Cpu /\ c \notin Proc /\ p # Idle
      /\ c \in Thread /\ p \in Thread /\ Free # c /\ p \in Lock
  BY ZenonT(40), <1>1, Names DEF FInv
<1>3. /\ lk' = [lk EXCEPT ![p] = c]
      /\ pc' = [pc EXCEPT ![c] = "back"]
      /\ UNCHANGED <<timer, trap, next, saved, killed, waking>>
  BY Zenon DEF scheduler_run, Take, Goto
<1>4. k.noff = 1 /\ ~k.sie /\ k.stvec = "kernelvec"
  BY Zenon, <1>1 DEF Flags, Spinning, CpuState
<1>5. /\ \A m \in Lock : lk'[m] = c <=> m = p
      /\ \A m \in Lock : lk'[m] # lk[m] => lk[m] \in {Free, c} /\ lk'[m] \in {Free, c}
      /\ lk' \in [Lock -> Cpu \cup {Free}]
  <2>1. \A m \in Lock : lk[m] # c
    BY ZenonT(30), <1>1 DEF Owned
  <2> QED
    BY Zenon, <1>1, <1>2, <1>3, <2>1 DEF TypeOK
<1>6. /\ pc' \in [Thread -> Scheduling \cup Processing] /\ pc'[c] = "back"
      /\ \A s \in Thread \ {c} : pc'[s] = pc[s]
      /\ "back" \in Scheduling
  BY Zenon, <1>2, <1>3 DEF TypeOK, Scheduling
<1>7. CASE state[p] # "RUNNABLE"
  <2>1. UNCHANGED <<cpu, state>>
    BY SMTT(40), <1>7 DEF scheduler_run
  <2>2. Flags(k, "back", "none")
    BY <1>4 DEF Flags, Holds
  <2>3. \A m \in Lock : lk'[m] = c <=> m \in Owned(c, "back", "none", p)
    BY SMTT(40), <1>5 DEF Owned
  <2>4. TypeOK'
    BY <1>2, <1>3, <1>5, <1>6, <2>1 DEF TypeOK
  <2>5. /\ cpu' = cpu /\ next' = next /\ saved' = saved /\ state' = state /\ trap' = trap
        /\ trap'[c] = "none" /\ pc'[c] = "back" /\ next'[c] = p
    BY Zenon, <1>1, <1>3, <1>6, <2>1
  <2>6. /\ \A m \in Lock : lk'[m] = c <=> m \in Owned(c, pc'[c], trap'[c], next'[c])
        /\ Flags(cpu'[c], pc'[c], trap'[c])
    BY Zenon, <2>2, <2>3, <2>5
  <2> HIDE DEF p
  <2>7. /\ c = On(c) /\ cpu'[c].proc = cpu[c].proc
        /\ \A d \in Cpu \ {c} : cpu'[d] = cpu[d] /\ next'[d] = next[d]
        /\ \A s \in Thread \ {c} : pc'[s] = pc[s] /\ trap'[s] = trap[s]
        /\ cpu[c].proc # Idle => next'[c] = next[c]
        /\ \A q \in Proc : state[q] \in {"RUNNING", "ZOMBIE"} => state'[q] = state[q]
        /\ trap'[c] # "none" => pc'[c] \in {"intr_on", "scan"} \cup Interruptible
        /\ pc'[c] \notin {"zombie", "awake"}
    BY ZenonT(30), <1>1, <1>6, <2>5
  <2> QED
    BY Zenon, <1>5, <2>4, <2>5, <2>6, <2>7, Move
<1>8. CASE state[p] = "RUNNABLE"
  <2> DEFINE b == IF pc[p] = "forkret" THEN k.intena ELSE saved[p]
             j == [k EXCEPT !.proc = p, !.intena = b]
  <2>1. state' = [state EXCEPT ![p] = "RUNNING"] /\ cpu' = [cpu EXCEPT ![c] = j]
    BY ZenonT(40), <1>2, <1>8 DEF scheduler_run, TypeOK
  <2>2. b \in BOOLEAN /\ (pc[p] # "forkret" => b = saved[p])
    BY <1>1, <1>2 DEF CpuState, TypeOK
  <2> HIDE DEF b
  <2>3. /\ j \in CpuState /\ j.noff = 1 /\ ~j.sie /\ j.stvec = "kernelvec" /\ j.proc = p
        /\ j.intena = b
    BY ZenonT(30), <1>1, <1>4, <2>2 DEF CpuState
  <2> HIDE DEF j
  <2>4. /\ cpu' \in [Cpu -> CpuState] /\ cpu'[c] = j
        /\ \A d \in Cpu \ {c} : cpu'[d] = cpu[d]
        /\ state' \in [Proc -> {"SLEEPING", "RUNNABLE", "RUNNING", "ZOMBIE"}]
        /\ state'[p] = "RUNNING"
        /\ \A q \in Proc \ {p} : state'[q] = state[q]
    BY SMTT(40), <1>1, <1>2, <2>1, <2>3 DEF TypeOK
  <2>5. TypeOK'
    BY <1>2, <1>3, <1>5, <1>6, <2>4 DEF TypeOK
  <2>6. \A d \in Cpu : cpu[d].proc # p
    BY Zenon, <1>2, <1>8 DEF RunInv
  <2>7. \/ trap[p] = "resumed"
        \/ trap[p] = "none" /\ pc[p] \in {"forkret", "awake"}
    BY Zenon, <1>1, <1>2, <1>8, <2>6 DEF PlaceInv
  <2>8. /\ On(c)' = p /\ pc'[p] = pc[p] /\ trap'[p] = trap[p] /\ next'[c] = p
    BY Zenon, <1>2, <1>3, <1>6, <2>3, <2>4 DEF On
  <2>9. LockOK(c)'
    <3>1. Owned(p, pc[p], trap[p], p) = {p}
      BY Zenon, <2>7 DEF Owned
    <3> QED
      BY Zenon, <1>5, <2>8, <3>1 DEF LockOK
  <2>10. FlagOK(c)'
    <3>1. pc[p] = "awake" => j.intena
      BY Zenon, <1>1, <1>2, <2>2, <2>3 DEF PlaceInv
    <3>2. Flags(j, pc[p], trap[p])
      BY ZenonT(30), <2>3, <2>7, <3>1 DEF Flags, Holds
    <3> QED
      BY Zenon, <2>4, <2>8, <3>2 DEF FlagOK
  <2>11. \A d \in Cpu : LockOK(d)' /\ FlagOK(d)'
    <3>1. \A s \in Thread \ {c, On(c)} : pc'[s] = pc[s] /\ trap'[s] = trap[s]
      BY Zenon, <1>3, <1>6
    <3>2. \A d \in Cpu \ {c} : cpu'[d] = cpu[d] /\ next'[d] = next[d]
      BY ZenonT(40), <1>3, <2>4
    <3> QED
      BY ZenonT(30), <1>5, <2>9, <2>10, <3>1, <3>2, Frame
  <2>12. RunInv'
    <3>1. ASSUME NEW d \in Cpu \ {c}, cpu'[d].proc # Idle
          PROVE  /\ cpu'[d] = cpu[d] /\ cpu[d].proc \in Proc \ {p}
                 /\ state'[cpu'[d].proc] = "RUNNING"
                 /\ pc'[d] = "back" /\ trap'[d] = "none" /\ next'[d] = cpu'[d].proc
      <4>1. cpu'[d] = cpu[d] /\ cpu[d].proc \in Proc \ {p}
        BY SMTT(40), <1>2, <2>4, <2>6, <3>1 DEF TypeOK, CpuState
      <4>2. d \in Thread \ {c}
        BY Names
      <4> QED
        BY SMTT(40), <1>2, <1>3, <1>6, <2>4, <3>1, <4>1, <4>2 DEF RunInv
    <3>2. cpu'[c].proc = p /\ trap'[c] = "none"
      BY Zenon, <1>1, <1>3, <2>3, <2>4
    <3> QED
      BY SMTT(40), <1>2, <1>6, <2>4, <2>8, <3>1, <3>2 DEF RunInv
  <2>13. PlaceInv'
    <3>1. \A d \in Cpu : trap'[d] # "none" => pc'[d] \in {"intr_on", "scan"}
      BY ZenonT(40), <1>1, <1>2, <1>3, <1>6, Names DEF PlaceInv
    <3>2. ASSUME NEW q \in Proc
          PROVE  /\ trap'[q] # "none" => pc'[q] \in Interruptible
                 /\ (\A d \in Cpu : cpu'[d].proc # q) =>
                      \/ trap'[q] = "resumed"
                      \/ trap'[q] = "none" /\ pc'[q] \in {"forkret", "awake", "zombie"}
                 /\ pc'[q] = "zombie" => state'[q] = "ZOMBIE"
                 /\ pc'[q] = "awake" => saved'[q]
      <4>1. q \in Thread \ {c}
        BY Zenon, <1>2, Names
      <4>2. pc'[q] = pc[q] /\ trap'[q] = trap[q] /\ saved'[q] = saved[q]
        BY Zenon, <1>3, <1>6, <4>1
      <4>3. \A d \in Cpu : cpu[d].proc = q => cpu'[d].proc = q
        BY ZenonT(30), <1>1, <1>2, <2>4, Names
      <4>4. pc[q] = "zombie" => q # p
        BY ZenonT(60), <1>2, <1>8 DEF PlaceInv
      <4> QED
        BY SMTT(40), <1>2, <2>4, <4>2, <4>3, <4>4 DEF PlaceInv
    <3> QED
      BY Zenon, <3>1, <3>2 DEF PlaceInv
  <2> QED
    BY <2>5, <2>11, <2>12, <2>13 DEF FInv
<1> QED
  BY Zenon, <1>7, <1>8

-----------------------------------------------------------------------------
(* The interrupt flag *)

LEMMA InitFInv == Init => FInv
<1> SUFFICES ASSUME Init PROVE FInv
  OBVIOUS
<1>1. /\ 1 \in Proc /\ Zero \in Cpu
      /\ Thread = Proc \cup Cpu /\ Proc \cap Cpu = {} /\ Idle \notin Thread /\ Free \notin Cpu
  BY SMTT(30), Names, ClockConstants DEF Proc
<1>2. TypeOK
  BY SMTT(40), <1>1 DEF Init, TypeOK, CpuState, Scheduling, Processing, Holding
<1>3. RunInv /\ PlaceInv
  BY ZenonT(60), <1>1 DEF Init, RunInv, PlaceInv
<1>4. ASSUME NEW c \in Cpu PROVE LockOK(c) /\ FlagOK(c)
  <2>1. /\ On(c) = c /\ pc[c] = "intr_on" /\ trap[c] = "none"
        /\ cpu[c].noff = 0 /\ ~cpu[c].sie /\ cpu[c].stvec = "kernelvec"
    BY Zenon, <1>1 DEF Init, On
  <2>2. LockOK(c)
    BY ZenonT(30), <1>1, <2>1 DEF Init, LockOK, Owned
  <2>3. FlagOK(c)
    BY <2>1 DEF FlagOK, Flags, Holds, Spinning
  <2> QED
    BY Zenon, <2>2, <2>3
<1> QED
  BY <1>2, <1>3, <1>4 DEF FInv

(* What the environment does: a timer goes off, a process is killed. *)
LEMMA OutsideStep ==
  ASSUME FInv, UNCHANGED <<cpu, lk, threads>>,
         timer' \subseteq Cpu, killed' \in [Proc -> BOOLEAN],
         state' \in [Proc -> {"SLEEPING", "RUNNABLE", "RUNNING", "ZOMBIE"}],
         \A p \in Proc : state[p] \in {"RUNNING", "ZOMBIE"} => state'[p] = state[p]
  PROVE  FInv'
<1>1. TypeOK'
  BY SMTT(40) DEF FInv, TypeOK, threads
<1>2. RunInv'
  BY SMTT(30) DEF FInv, TypeOK, CpuState, RunInv, threads
<1>3. PlaceInv'
  BY Zenon DEF FInv, PlaceInv, threads
<1>4. \A c \in Cpu : LockOK(c)' /\ FlagOK(c)'
  BY Zenon DEF FInv, LockOK, FlagOK, On, threads
<1> QED
  BY ZenonT(30), <1>1, <1>2, <1>3, <1>4 DEF FInv

LEMMA NextFInv == FInv /\ [Next]_vars => FInv'
<1> SUFFICES ASSUME FInv, [Next]_vars PROVE FInv'
  OBVIOUS
<1>0. TypeOK
  BY DEF FInv
<1>1. ASSUME NEW c \in Cpu, Run(c) PROVE FInv'
  BY ZenonT(40), <1>1, SchedulerIntrOnStep, SchedulerAcquireStep, SchedulerRunStep, SchedulerReleaseStep,
     ForkretStep, InterruptStep, ClockintrTickStep, ClockintrWakeupStep, ClockintrReleaseStep,
     YieldStep, TrapReturnStep, ExitStep, SysSleepStep, SysSleepStartStep, SysSleepReturnStep,
     SysSleepSleepStep, SleepAwakeStep, SleepRelockStep, SleepAgainStep, UsertrapretStep,
     UserretStep DEF Run
<1>2. ASSUME NEW c \in Cpu, tick(c) PROVE FInv'
  BY <1>0, <1>2, OutsideStep DEF tick, procs, TypeOK
<1>3. ASSUME NEW c \in Cpu, NEW k \in Naps, ecall(c, k) PROVE FInv'
  BY <1>3, EcallStep
<1>4. ASSUME NEW p \in Proc, kill(p) PROVE FInv'
  BY ZenonT(40), <1>0, <1>4, OutsideStep DEF kill, Woken, TypeOK
<1>5. CASE UNCHANGED vars
  BY SMTT(40), <1>0, <1>5, OutsideStep DEF vars, procs, TypeOK
<1> QED
  BY <1>1, <1>2, <1>3, <1>4, <1>5 DEF Next

(* The cardinality of a set of at most one element, from its definition. *)
LEMMA SmallSets ==
  ASSUME NEW S, NEW m, S \subseteq {m}
  PROVE  Cardinality(S) = IF S = {} THEN 0 ELSE 1
<1> DEFINE Def(T, f) == IF T = {} THEN 0 ELSE 1 + f[T \ {CHOOSE x : x \in T}]
           Is(f) == f = [T \in SUBSET S |-> Def(T, f)]
           W == [T \in SUBSET S |-> IF T = {} THEN 0 ELSE 1]
           CS == CHOOSE f : Is(f)
<1>1. ASSUME NEW T \in SUBSET S, T # {} PROVE T \ {CHOOSE x : x \in T} = {}
  <2>1. (CHOOSE x : x \in T) \in T
    BY <1>1
  <2> QED
    BY <1>1, <2>1
<1>2. Is(W)
  <2>1. {} \in SUBSET S /\ W[{}] = 0
    OBVIOUS
  <2>2. ASSUME NEW T \in SUBSET S PROVE Def(T, W) = IF T = {} THEN 0 ELSE 1
    <3>1. CASE T = {}
      BY <3>1
    <3>2. CASE T # {}
      <4>1. Def(T, W) = 1 + W[T \ {CHOOSE x : x \in T}]
        BY <3>2
      <4>2. Def(T, W) = 1 + 0
        BY <1>1, <2>1, <3>2, <4>1
      <4> QED
        BY <3>2, <4>2
    <3> QED
      BY <3>1, <3>2
  <2> HIDE DEF Def
  <2> QED
    BY ZenonT(40), <2>2
<1>3. Is(CS)
  <2> HIDE DEF Is
  <2> QED
    BY <1>2
<1>4. CS[{}] = 0 /\ CS[S] = IF S = {} THEN 0 ELSE 1 + CS[S \ {CHOOSE x : x \in S}]
  <2> HIDE DEF CS
  <2> QED
    BY <1>3
<1>5. Cardinality(S) = CS[S]
  BY DEF Cardinality
<1> HIDE DEF CS
<1> QED
  BY <1>1, <1>4, <1>5

(* push_off() and pop_off() count the locks of a CPU exactly, interrupts   *)
(* are off from the first acquire() to the last release(), sched() hands   *)
(* intena to the process that resumes, and traps go where they must: with  *)
(* every number of CPUs and processes, and however timer interrupts,       *)
(* yield(), sleep(), kill() and exit() interleave.                         *)
THEOREM ClockInterruptFlag == Spec => []InterruptFlag
<1>1. FInv => InterruptFlag
  <2> SUFFICES ASSUME FInv, NEW c \in Cpu
               PROVE  /\ cpu[c].noff = Held(c) + Waiting(c)
                      /\ cpu[c].noff > 0 => ~cpu[c].sie
                      /\ (trap[On(c)] = "none"
                            /\ pc[On(c)] \in {"sys_sleep", "relock", "return 0", "return -1"})
                           => cpu[c].sie
                      /\ cpu[c].sie =>
                           (cpu[c].stvec = "uservec") = (trap[On(c)] = "none" /\ pc[On(c)] = "user")
    BY ZenonT(30) DEF InterruptFlag
  <2> DEFINE t == On(c)
             k == cpu[c]
             O == Owned(t, pc[t], trap[t], next[c])
  <2>1. /\ k \in CpuState /\ Flags(k, pc[t], trap[t]) /\ t \in Thread /\ next[c] \in Proc
        /\ \A m \in Lock : lk[m] = c <=> m \in O
    BY ZenonT(30), CpuFacts
  <2>2. trap[t] # "none" => pc[t] \in {"intr_on", "scan"} \cup Interruptible
    BY Zenon, InClockFacts
  <2>3. Held(c) = IF Holds(pc[t], trap[t]) THEN 1 ELSE 0
    <3>1. O = {l \in Lock : lk[l] = c}
      <4>1. O \subseteq Lock
        <5>1. trap[t] = "resumed" \/ pc[t] \in {"forkret", "awake"} => t \in Proc
          BY Zenon, <2>1, Names DEF FInv, TypeOK, InClock, Scheduling
        <5> QED
          BY ZenonT(30), <2>1, <5>1, Names DEF Owned
      <4> QED
        BY ZenonT(30), <2>1, <4>1
    <3>2. CASE Holds(pc[t], trap[t])
      <4>1. \E m : O = {m}
        BY ZenonT(30), <3>2 DEF Holds, Owned
      <4>2. Cardinality(O) = 1
        <5> HIDE DEF O
        <5> QED
          BY <4>1, SmallSets
      <4> QED
        BY ZenonT(30), <3>1, <3>2, <4>2 DEF Held
    <3>3. CASE ~Holds(pc[t], trap[t])
      <4>1. O = {}
        BY <3>3 DEF Holds, Owned
      <4>2. Cardinality(O) = 0
        <5> HIDE DEF O
        <5> QED
          BY SMTT(40), <4>1, SmallSets
      <4> QED
        BY ZenonT(30), <3>1, <3>3, <4>2 DEF Held
    <3> QED
      BY ZenonT(30), <3>2, <3>3
  <2>4. Waiting(c) = IF trap[t] = "none" /\ pc[t] \in Spinning THEN 1 ELSE 0
    BY ZenonT(30), <2>2 DEF Waiting, Spinning, Interruptible
  <2>5. ~(Holds(pc[t], trap[t]) /\ trap[t] = "none" /\ pc[t] \in Spinning)
    BY DEF Holds, Spinning
  <2>6. k.noff = Held(c) + Waiting(c)
    <3> DEFINE H == Holds(pc[t], trap[t])
               W == trap[t] = "none" /\ pc[t] \in Spinning
    <3>1. k.noff = IF H \/ W THEN 1 ELSE 0
      BY <2>1, ZenonT(30) DEF Flags
    <3>2. ~(H /\ W)
      BY Zenon, <2>5
    <3> HIDE DEF H, W
    <3>3. Held(c) = (IF H THEN 1 ELSE 0) /\ Waiting(c) = (IF W THEN 1 ELSE 0)
      BY Zenon, <2>3, <2>4 DEF H, W
    <3> QED
      BY <3>1, <3>2, <3>3
  <2>7. k.noff > 0 => ~k.sie
    <3>1. k.noff > 0 => k.noff = 1
      BY SMTT(60), <2>1 DEF CpuState
    <3> QED
      BY ZenonT(30), <2>1, <3>1 DEF Flags
  <2>8. (trap[t] = "none" /\ pc[t] \in {"sys_sleep", "relock", "return 0", "return -1"}) => k.sie
    BY Zenon, <2>1 DEF Flags
  <2>9. k.sie => (k.stvec = "uservec") = (trap[t] = "none" /\ pc[t] = "user")
    BY Zenon, <2>1 DEF Flags
  <2> QED
    BY ZenonT(30), <2>6, <2>7, <2>8, <2>9
<1> QED
  BY <1>1, InitFInv, NextFInv, PTL DEF Spec

-----------------------------------------------------------------------------
(* sleep(n) *)

(* Unsigned differences *)
LEMMA ModSmall ==
  ASSUME NEW m \in Nat \ {0}, NEW x \in -(m - 1) .. m
  PROVE  x % m = IF x < 0 THEN x + m ELSE IF x = m THEN 0 ELSE x
OBVIOUS

(* A tick adds 1 to ticks - ticks0, unless the difference wraps. *)
LEMMA TickDifference ==
  ASSUME NEW m \in Nat \ {0}, NEW a \in 0 .. m - 1, NEW b \in 0 .. m - 1,
         NEW e \in 0 .. m - 1, e = (a - b) % m, e + 1 < m
  PROVE  (((a + 1) % m) - b) % m = e + 1
<1>1. PICK d \in -(m - 1) .. m : d = a - b
  OBVIOUS
<1>2. e = IF d < 0 THEN d + m ELSE IF d = m THEN 0 ELSE d
  BY Zenon, <1>1, ModSmall
<1>3. PICK s \in -(m - 1) .. m : s = a + 1
  OBVIOUS
<1>4. s % m = IF s = m THEN 0 ELSE s
  <2>1. s % m = IF s < 0 THEN s + m ELSE IF s = m THEN 0 ELSE s
    BY Zenon, ModSmall
  <2> QED
    BY <1>3, <2>1
<1> DEFINE w == s % m
<1>5. PICK f \in -(m - 1) .. m : f = w - b
  <2>1. w \in 0 .. m - 1
    BY <1>3, <1>4
  <2> HIDE DEF w
  <2> QED
    BY <2>1
<1>6. f % m = IF f < 0 THEN f + m ELSE IF f = m THEN 0 ELSE f
  BY ZenonT(30), ModSmall
<1>7. f % m = e + 1
  <2>1. w = IF s = m THEN 0 ELSE s
    BY SMTT(40), <1>4
  <2> HIDE DEF w
  <2> QED
    BY <1>1, <1>2, <1>3, <1>5, <1>6, <2>1
<1> QED
  BY <1>3, <1>5, <1>7

LEMMA InitNapInv == Init => NapInv
BY SMTT(30), ClockConstants DEF Init, NapInv, SleptEnough, Looping, Thread

(* A step that is not a tick and does not begin or end a sleep. *)
LEMMA NapStays ==
  ASSUME NapInv, UNCHANGED <<ticks, napping>>,
         \A p \in Proc : pc'[p] \in Looping => pc[p] \in Looping,
         \A p \in Proc : pc'[p] = "return 0" => pc[p] = "return 0" \/ slept[p] = n[p]
  PROVE  NapInv'
BY ZenonT(30) DEF NapInv, napping, SleptEnough

LEMMA NextNapInv == FInv /\ NapInv /\ [Next]_vars => NapInv'
<1> SUFFICES ASSUME FInv, NapInv, [Next]_vars PROVE NapInv'
  OBVIOUS
<1>0. TypeOK
  BY DEF FInv
<1> DEFINE Kept == UNCHANGED <<ticks, napping>>
<1>1. ASSUME NEW c \in Cpu, clockintr_tick(c) PROVE NapInv'
  <2>1. /\ ticks' = (ticks + 1) % UINT
        /\ slept' = [p \in Proc |-> IF pc[p] \in {"user", "forkret"} \/ slept[p] = n[p]
                                    THEN slept[p] ELSE slept[p] + 1]
        /\ UNCHANGED <<ticks0, n, pc>>
    BY ZenonT(30), <1>1 DEF clockintr_tick
  <2>2. /\ ticks \in 0 .. UINT - 1 /\ ticks0 \in [Proc -> 0 .. UINT - 1]
        /\ n \in [Proc -> 0 .. UINT - 1] /\ slept \in [Proc -> Nat]
        /\ \A p \in Proc : slept[p] <= n[p]
        /\ UINT \in Nat \ {0}
    BY ClockConstants DEF NapInv
  <2>3. ticks' \in 0 .. UINT - 1
    BY <2>1, <2>2
  <2>4. slept' \in [Proc -> Nat] /\ \A p \in Proc : slept'[p] <= n[p]
    BY SMTT(40), <2>1, <2>2
  <2>5. ASSUME NEW p \in Proc, pc[p] \in Looping, slept'[p] < n[p]
        PROVE  (ticks' - ticks0[p]) % UINT = slept'[p]
    <3>1. slept'[p] = slept[p] + 1 /\ slept[p] < n[p]
      BY <2>1, <2>2, <2>5 DEF Looping
    <3>2. (ticks - ticks0[p]) % UINT = slept[p]
      BY ZenonT(40), <2>5, <3>1 DEF NapInv
    <3>3. slept[p] \in 0 .. UINT - 1 /\ slept[p] + 1 < UINT
      BY SMTT(40), <2>2, <2>5, <3>1
    <3>4. PICK b \in 0 .. UINT - 1, e \in 0 .. UINT - 1 : b = ticks0[p] /\ e = slept[p]
      BY SMTT(40), <2>2, <3>3
    <3>5. (((ticks + 1) % UINT) - b) % UINT = e + 1
      BY SMTT(40), <2>2, <3>2, <3>3, <3>4, TickDifference
    <3> QED
      BY SMTT(40), <2>1, <3>1, <3>4, <3>5
  <2>6. SleptEnough'
    BY ZenonT(30), <2>1, <2>2 DEF SleptEnough, NapInv
  <2> QED
    BY ZenonT(40), <2>1, <2>2, <2>3, <2>4, <2>5, <2>6 DEF NapInv
<1>2. ASSUME NEW c \in Cpu, NEW k \in Naps, ecall(c, k) PROVE NapInv'
  <2> DEFINE t == On(c)
  <2>1. /\ t \in Thread
        /\ pc' = [pc EXCEPT ![t] = IF killed[t] THEN "exit" ELSE "sys_sleep"]
        /\ n' = [n EXCEPT ![t] = k] /\ slept' = [slept EXCEPT ![t] = 0]
        /\ UNCHANGED <<ticks, ticks0>> /\ k \in 0 .. UINT - 1
    BY Zenon, <1>2, CpuFacts, ClockConstants DEF ecall, Goto
  <2>2. pc'[t] \in {"exit", "sys_sleep"} /\ \A p \in Thread \ {t} : pc'[p] = pc[p]
    BY SMTT(40), <1>0, <2>1 DEF TypeOK
  <2>3. \A p \in Proc : IF p = t THEN n'[p] = k /\ slept'[p] = 0
                        ELSE n'[p] = n[p] /\ slept'[p] = slept[p]
    BY <2>1 DEF NapInv
  <2>4. n' \in [Proc -> 0 .. UINT - 1] /\ slept' \in [Proc -> Nat]
    BY ZenonT(30), <2>1 DEF NapInv
  <2>5. \A p \in Proc : p \in Thread
    BY Names
  <2> HIDE DEF t
  <2>6. \A p \in Proc : slept'[p] <= n'[p]
    BY <2>1, <2>3 DEF NapInv
  <2>7. \A p \in Proc : pc'[p] \in Looping \cup {"return 0"} => p # t /\ pc'[p] = pc[p]
    BY Zenon, <2>2, <2>5 DEF Looping
  <2>8. SleptEnough'
    BY Zenon, <2>3, <2>7 DEF NapInv, SleptEnough
  <2> QED
    BY Zenon, <2>1, <2>3, <2>4, <2>6, <2>7, <2>8 DEF NapInv
<1>3. ASSUME NEW c \in Cpu, sys_sleep_start(c) PROVE NapInv'
  <2> DEFINE t == On(c)
  <2>1. /\ t \in Proc
        /\ pc' = [pc EXCEPT ![t] = "while"]
        /\ ticks0' = [ticks0 EXCEPT ![t] = ticks] /\ slept' = [slept EXCEPT ![t] = 0]
        /\ UNCHANGED <<ticks, n>>
    BY ZenonT(30), <1>3, CpuFacts DEF sys_sleep_start, At, Goto, Scheduling
  <2>2. pc'[t] = "while" /\ \A p \in Thread \ {t} : pc'[p] = pc[p]
    BY SMTT(40), <1>0, <2>1, Names DEF TypeOK
  <2>3. \A p \in Proc : IF p = t THEN ticks0'[p] = ticks /\ slept'[p] = 0
                        ELSE ticks0'[p] = ticks0[p] /\ slept'[p] = slept[p]
    BY SMTT(40), <2>1 DEF NapInv
  <2>4. /\ ticks0' \in [Proc -> 0 .. UINT - 1] /\ slept' \in [Proc -> Nat]
        /\ ticks \in Int /\ UINT \in Nat \ {0}
    BY <2>1, ClockConstants DEF NapInv
  <2>5. (ticks - ticks) % UINT = 0
    BY <2>4
  <2>6. \A p \in Proc : p \in Thread
    BY Names
  <2> HIDE DEF t
  <2>7. \A p \in Proc : slept'[p] <= n'[p]
    BY <2>1, <2>3 DEF NapInv
  <2>8. ASSUME NEW p \in Proc, pc'[p] \in Looping, slept'[p] < n'[p]
        PROVE  (ticks' - ticks0'[p]) % UINT = slept'[p]
    BY Zenon, <2>1, <2>2, <2>3, <2>5, <2>6, <2>8 DEF NapInv
  <2>9. SleptEnough'
    BY ZenonT(30), <2>1, <2>2, <2>3, <2>6 DEF NapInv, SleptEnough
  <2> QED
    BY Zenon, <2>1, <2>4, <2>7, <2>8, <2>9 DEF NapInv
<1>4. ASSUME NEW c \in Cpu, sys_sleep_return(c) PROVE NapInv'
  <2> DEFINE t == On(c)
  <2>1. /\ t \in Proc /\ pc[t] = "while" /\ Kept
        /\ pc' = [pc EXCEPT ![t] = IF Early(t) THEN "return -1" ELSE "return 0"]
    BY ZenonT(30), <1>4, CpuFacts DEF sys_sleep_return, At, Goto, Scheduling
  <2>2. ~Early(t) => slept[t] = n[t]
    <3>1. pc[t] \in Looping /\ slept[t] \in Nat /\ n[t] \in Nat /\ slept[t] <= n[t]
      <4>1. pc[t] \in Looping
        BY Zenon, <2>1 DEF Looping
      <4>2. UINT \in Nat
        BY ClockConstants
      <4>3. /\ n \in [Proc -> 0 .. UINT - 1] /\ slept \in [Proc -> Nat]
            /\ \A p \in Proc : slept[p] <= n[p]
        BY DEF NapInv
      <4>4. t \in Proc
        BY ZenonT(30), <2>1
      <4> HIDE DEF t
      <4> QED
        BY <4>1, <4>2, <4>3, <4>4
    <3>2. slept[t] < n[t] => Early(t)
      BY ZenonT(30), <2>1, <3>1 DEF Early, NapInv
    <3> QED
      BY SMTT(40), <3>1, <3>2
  <2>3. /\ pc'[t] \in {"return -1", "return 0"} /\ \A p \in Thread \ {t} : pc'[p] = pc[p]
        /\ pc'[t] = "return 0" => ~Early(t)
    BY ZenonT(30), <1>0, <2>1, Names DEF TypeOK
  <2>4. \A p \in Proc : p \in Thread
    BY Names
  <2> HIDE DEF t
  <2> QED
    BY ZenonT(30), <2>1, <2>2, <2>3, <2>4, NapStays DEF Looping
<1>5. ASSUME NEW c \in Cpu, usertrapret(c) PROVE NapInv'
  <2> DEFINE t == On(c)
  <2>1. /\ t \in Thread /\ pc'[t] \in {"exit", "userret"}
        /\ \A p \in Thread \ {t} : pc'[p] = pc[p]
        /\ ticks0' = [ticks0 EXCEPT ![t] = 0] /\ n' = [n EXCEPT ![t] = 0]
        /\ slept' = [slept EXCEPT ![t] = 0] /\ UNCHANGED ticks
    BY SMTT(30), <1>0, <1>5, CpuFacts DEF usertrapret, LeaveKernel, Goto, TypeOK
  <2>2. \A p \in Proc : IF p = t THEN n'[p] = 0 /\ slept'[p] = 0
                        ELSE n'[p] = n[p] /\ slept'[p] = slept[p] /\ ticks0'[p] = ticks0[p]
    BY Zenon, <2>1 DEF NapInv
  <2>3. /\ ticks0' \in [Proc -> 0 .. UINT - 1] /\ n' \in [Proc -> 0 .. UINT - 1]
        /\ slept' \in [Proc -> Nat]
    <3>1. 0 \in 0 .. UINT - 1
      BY SMTT(40), ClockConstants
    <3> QED
      BY ZenonT(30), <2>1, <3>1 DEF NapInv
  <2>4. \A p \in Proc : p \in Thread
    BY Names
  <2> HIDE DEF t
  <2>5. \A p \in Proc : slept'[p] <= n'[p]
    BY <2>1, <2>2 DEF NapInv
  <2>6. \A p \in Proc : pc'[p] \in Looping \cup {"return 0"} => p # t /\ pc'[p] = pc[p]
    BY Zenon, <2>1, <2>4 DEF Looping
  <2>7. SleptEnough'
    BY ZenonT(30), <2>2, <2>6 DEF NapInv, SleptEnough
  <2> QED
    BY ZenonT(30), <2>1, <2>2, <2>3, <2>5, <2>6, <2>7 DEF NapInv
<1>6. ASSUME NEW c \in Cpu, Kept,
             \E l \in {"scan", "spin", "back", "intr_on", "return", "start", "zombie", "user"} :
               pc' \in {pc, [pc EXCEPT ![c] = l], [pc EXCEPT ![On(c)] = l]}
      PROVE  NapInv'
  <2>1. PICK l \in {"scan", "spin", "back", "intr_on", "return", "start", "zombie", "user"} :
             pc' \in {pc, [pc EXCEPT ![c] = l], [pc EXCEPT ![On(c)] = l]}
    BY Zenon, <1>6
  <2>2. ASSUME NEW p \in Proc PROVE pc'[p] = pc[p] \/ pc'[p] = l
    BY Zenon, <1>0, <2>1, Names DEF TypeOK
  <2> QED
    BY ZenonT(30), <1>6, <2>1, <2>2, NapStays DEF Looping
<1>7. ASSUME NEW c \in Cpu, Kept, pc[On(c)] \in Looping,
             \E l \in Looping : pc' = [pc EXCEPT ![On(c)] = l]
      PROVE  NapInv'
  <2>1. PICK l \in Looping : pc' = [pc EXCEPT ![On(c)] = l]
    BY ZenonT(30), <1>7
  <2>2. ASSUME NEW p \in Proc PROVE pc'[p] = pc[p] \/ (p = On(c) /\ pc'[p] = l)
    BY SMTT(40), <1>0, <2>1, Names DEF TypeOK
  <2> QED
    BY ZenonT(30), <1>7, <2>1, <2>2, NapStays DEF Looping
<1>8. ASSUME NEW c \in Cpu, Run(c) PROVE NapInv'
  <2>1. CASE scheduler_intr_on(c) \/ scheduler_acquire(c) \/ scheduler_run(c) \/ scheduler_release(c)
    BY <2>1, <1>6 DEF scheduler_intr_on, scheduler_acquire, scheduler_run, scheduler_release,
                      BeginAcquire, Goto
  <2>2. CASE forkret(c) \/ sys_sleep(c) \/ userret(c) \/ exit(c)
    BY Zenon, <2>2, <1>6 DEF forkret, sys_sleep, userret, exit, BeginAcquire, Goto
  <2>3. CASE interrupt(c) \/ clockintr_wakeup(c) \/ clockintr_release(c) \/ yield(c)
    BY ZenonT(30), <2>3, <1>6 DEF interrupt, clockintr_wakeup, clockintr_release, yield
  <2>4. CASE trap_return(c)
    BY ZenonT(30), <2>4, <1>6 DEF trap_return
  <2>5. CASE sys_sleep_sleep(c) \/ sleep_awake(c) \/ sleep_relock(c) \/ sleep_again(c)
    BY ZenonT(30), <2>5, <1>7 DEF sys_sleep_sleep, sleep_awake, sleep_relock, sleep_again, At,
                      BeginAcquire, Goto, Looping
  <2> QED
    BY SMTT(40), <1>1, <1>3, <1>4, <1>5, <1>8, <2>1, <2>2, <2>3, <2>4, <2>5 DEF Run
<1>9. CASE UNCHANGED <<ticks, napping, pc>>
  BY Zenon, <1>9, NapStays
<1> QED
  BY <1>2, <1>8, <1>9 DEF Next, tick, kill, threads, vars

(* sleep(n) returns 0 after n ticks of the clock, whatever the width of    *)
(* the counter and wherever it wraps: sys_sleep() compares ticks - ticks0, *)
(* the unsigned difference, with n.                                        *)
THEOREM ClockSleptEnough == Spec => []SleptEnough
<1>1. NapInv => SleptEnough
  BY DEF NapInv
<1> QED
  BY <1>1, InitFInv, NextFInv, InitNapInv, NextNapInv, PTL DEF Spec

=============================================================================
