-------------------------- MODULE SleepLockProofs ---------------------------
(***************************************************************************)
(* Proofs about sleep locks, for every number of processes and of CPUs:    *)
(* the lock excludes, no kernel stack runs on two CPUs, no wakeup is lost. *)
(***************************************************************************)
EXTENDS SleepLock, TLAPS

PC == {"idle", "acq", "test", "slp_lock", "slp_rel", "slp_set", "sched", "resume",
       "again", "cs", "racq", "rel", "wake"}

TypeOK ==
  /\ locked \in BOOLEAN
  /\ owner \in Procs \cup {NoProc}
  /\ lk \in CPU \cup {NoCPU}
  /\ plock \in [Procs -> CPU \cup {NoCPU}]
  /\ state \in [Procs -> {"RUNNABLE", "RUNNING", "SLEEPING"}]
  /\ chan \in [Procs -> BOOLEAN]
  /\ cpu \in [CPU -> Procs \cup {NoProc}]
  /\ pc \in [Procs -> PC]
  /\ ret \in [Procs -> {"idle", "again", "cs"}]
  /\ scan \in [Procs -> 1 .. NPROC + 1]

(* Where a thread holds its own p->lock, and where it holds lk->lk. *)
HasPlock == {"slp_rel", "slp_set", "sched", "resume"}
HasLk == {"test", "slp_lock", "slp_rel", "rel", "wake"}

(* Who executes, and who holds p->lock: a thread on a CPU, from sleep() or *)
(* yield() to the switch and again after it; the scheduler in between.     *)
PlaceInv ==
  /\ \A c, d \in CPU : cpu[c] = cpu[d] /\ cpu[c] # NoProc => c = d
  /\ \A p \in Procs : (\A c \in CPU : cpu[c] # p) =>
                        pc[p] = "resume" /\ state[p] # "RUNNING"
  /\ \A c \in CPU : cpu[c] # NoProc =>
       LET p == cpu[c] IN
       /\ pc[p] = "sched" <=> state[p] # "RUNNING"
       /\ pc[p] \in HasPlock => plock[p] = c
       /\ \A q \in Procs : plock[q] = c => q = p /\ pc[p] \in HasPlock
  /\ \A c \in CPU : cpu[c] = NoProc =>
       /\ \A q, r \in Procs : plock[q] = c /\ plock[r] = c => q = r
       /\ \A q \in Procs : plock[q] = c => \A d \in CPU : cpu[d] # q

(* lk->lk is held by the CPU of the one thread that is where it is held. *)
SpinInv ==
  /\ \A c \in CPU : cpu[c] # NoProc /\ pc[cpu[c]] \in HasLk => lk = c
  /\ lk # NoCPU => cpu[lk] # NoProc /\ pc[cpu[lk]] \in HasLk

(* The process in the section is the owner of the lock. *)
SectionInv ==
  /\ \A p \in Procs : InSection(p) => locked /\ owner = p
  /\ locked => owner \in Procs /\ InSection(owner)
  /\ ~locked => owner = NoProc

(* A process that is to be woken for the lock: wakeup() has not passed it. *)
ToWake(p) == \E q \in Procs : pc[q] = "wake" /\ scan[q] <= p

(* A process sleeps on the lock only while the lock is held, or while the  *)
(* wakeup() of the process that released it is still to come to it: a      *)
(* wakeup() between the while test of acquiresleep() and the change of     *)
(* p->state in sleep() is not lost.                                        *)
NoLostWakeup == \A p \in Procs : state[p] = "SLEEPING" /\ ~locked => ToWake(p)

WakeInv ==
  /\ \A p \in Procs : state[p] = "SLEEPING" => chan[p]
  /\ \A p \in Procs : pc[p] \in {"slp_lock", "slp_rel"} => locked
  /\ \A p \in Procs : pc[p] = "slp_set" /\ ~locked => ToWake(p)
  /\ NoLostWakeup

IInv == TypeOK /\ PlaceInv /\ SpinInv /\ SectionInv /\ WakeInv

Step(c, p) ==
  \/ call(c, p) \/ Thread(c, p) \/ yield(c, p)
  \/ scheduler_run(c, p) \/ scheduler_release(c, p)
  \/ \E q \in Procs : kill(c, p, q)

(* Every step keeps the types. *)
LEMMA TypeStep ==
  ASSUME SleepLockConstants, TypeOK, NEW c \in CPU, NEW p \in Procs, Step(c, p)
  PROVE  TypeOK'
<1> USE DEF SleepLockConstants, At, Goto, TypeOK, PC, Procs
<1>1. CASE call(c, p)
  BY <1>1 DEF call
<1>2. CASE acquire_lk(c, p)
  BY <1>2 DEF acquire_lk
<1>3. CASE acquiresleep(c, p)
  BY ZenonT(120), <1>3 DEF acquiresleep, sleeplock
<1>4. CASE sleep_locks(c, p)
  <2>1. CASE pc[p] = "slp_lock"
    BY SMTT(40), <1>4, <2>1 DEF sleep_locks
  <2>2. CASE pc[p] = "slp_rel"
    BY <1>4, <2>2 DEF sleep_locks
  <2> QED
    BY SMTT(40), <1>4, <2>1, <2>2 DEF sleep_locks
<1>5. CASE sleep_set(c, p)
  BY <1>5 DEF sleep_set
<1>6. CASE sched(c, p)
  BY <1>6 DEF sched
<1>7. CASE resume(c, p)
  BY <1>7 DEF resume
<1>8. CASE releasesleep(c, p)
  <2>1. 1 \in 1 .. NPROC + 1
    OBVIOUS
  <2> QED
    BY ZenonT(40), <1>8, <2>1 DEF releasesleep
<1>9. CASE wakeup(c, p)
  <2>1. CASE scan[p] <= NPROC
    <3>1. scan[p] \in Procs /\ scan[p] + 1 \in 1 .. NPROC + 1
      BY <2>1
    <3>2. state' \in [Procs -> {"RUNNABLE", "RUNNING", "SLEEPING"}]
      <4>1. state' \in {state, [state EXCEPT ![scan[p]] = "RUNNABLE"]}
        BY <1>9, <2>1 DEF wakeup
      <4> QED
        BY ZenonT(40), <4>1
    <3>3. scan' \in [Procs -> 1 .. NPROC + 1]
      BY ZenonT(40), <1>9, <2>1, <3>1 DEF wakeup
    <3> QED
      BY ZenonT(60), <1>9, <2>1, <3>2, <3>3 DEF wakeup
  <2>2. CASE scan[p] = NPROC + 1
    BY <1>9, <2>2 DEF wakeup
  <2> QED
    BY ZenonT(60), <1>9, <2>1, <2>2 DEF wakeup
<1>10. CASE yield(c, p)
  BY <1>10 DEF yield
<1>11. CASE scheduler_run(c, p)
  BY <1>11 DEF scheduler_run
<1>12. CASE scheduler_release(c, p)
  BY <1>12 DEF scheduler_release
<1>13. ASSUME NEW q \in Procs, kill(c, p, q) PROVE TypeOK'
  BY SMTT(40), <1>13 DEF kill
<1> QED
  BY ZenonT(40), <1>1, <1>2, <1>3, <1>4, <1>5, <1>6, <1>7, <1>8, <1>9, <1>10, <1>11, <1>12, <1>13
    DEF Step, Thread

(* Every step keeps threads and p->lock where they belong. *)
LEMMA PlaceStep ==
  ASSUME SleepLockConstants, TypeOK, PlaceInv, NEW c \in CPU, NEW p \in Procs, Step(c, p)
  PROVE  PlaceInv'
<1> USE DEF SleepLockConstants, At, Goto, TypeOK, PlaceInv, HasPlock
<1>1. CASE call(c, p)
  BY <1>1 DEF call
<1>2. CASE acquire_lk(c, p)
  BY <1>2 DEF acquire_lk
<1>3. CASE acquiresleep(c, p)
  BY <1>3 DEF acquiresleep, sleeplock
<1>4. CASE sleep_locks(c, p)
  <2>1. CASE pc[p] = "slp_lock"
    BY <1>4, <2>1 DEF sleep_locks
  <2>2. CASE pc[p] = "slp_rel"
    BY <1>4, <2>2 DEF sleep_locks
  <2> QED
    BY <1>4, <2>1, <2>2 DEF sleep_locks
<1>5. CASE sleep_set(c, p)
  BY <1>5 DEF sleep_set
<1>6. CASE sched(c, p)
  BY SMTT(40), <1>6 DEF sched
<1>7. CASE resume(c, p)
  <2>1. CASE ret[p] = "idle"
    BY <1>7, <2>1 DEF resume
  <2>2. CASE ret[p] = "again"
    BY <1>7, <2>2 DEF resume
  <2>3. CASE ret[p] = "cs"
    BY <1>7, <2>3 DEF resume
  <2> QED
    BY <1>7, <2>1, <2>2, <2>3 DEF resume
<1>8. CASE releasesleep(c, p)
  BY SMTT(40), <1>8 DEF releasesleep
<1>9. CASE wakeup(c, p)
  <2>1. CASE scan[p] <= NPROC
    BY <1>9, <2>1 DEF wakeup
  <2>2. CASE scan[p] = NPROC + 1
    BY <1>9, <2>2 DEF wakeup
  <2> QED
    BY <1>9, <2>1, <2>2 DEF wakeup
<1>10. CASE yield(c, p)
  BY <1>10 DEF yield
<1>11. CASE scheduler_run(c, p)
  BY <1>11 DEF scheduler_run
<1>12. CASE scheduler_release(c, p)
  BY <1>12 DEF scheduler_release
<1>13. ASSUME NEW q \in Procs, kill(c, p, q) PROVE PlaceInv'
  BY SMTT(40), <1>13 DEF kill
<1> QED
  BY ZenonT(40), <1>1, <1>2, <1>3, <1>4, <1>5, <1>6, <1>7, <1>8, <1>9, <1>10, <1>11, <1>12, <1>13
    DEF Step, Thread

(* Every step keeps lk->lk with the thread that acquired it. *)
LEMMA SpinStep ==
  ASSUME SleepLockConstants, TypeOK, PlaceInv, SpinInv, NEW c \in CPU, NEW p \in Procs, Step(c, p)
  PROVE  SpinInv'
<1> USE DEF SleepLockConstants, At, Goto, TypeOK, PlaceInv, SpinInv, HasLk, HasPlock
<1>1. CASE call(c, p)
  BY <1>1 DEF call
<1>2. CASE acquire_lk(c, p)
  BY <1>2 DEF acquire_lk
<1>3. CASE acquiresleep(c, p)
  <2>1. CASE locked
    BY <1>3, <2>1 DEF acquiresleep, sleeplock
  <2>2. CASE ~locked
    BY <1>3, <2>2 DEF acquiresleep, sleeplock
  <2> QED
    BY <1>3, <2>1, <2>2 DEF acquiresleep, sleeplock
<1>4. CASE sleep_locks(c, p)
  <2>1. CASE pc[p] = "slp_lock"
    BY <1>4, <2>1 DEF sleep_locks
  <2>2. CASE pc[p] = "slp_rel"
    BY <1>4, <2>2 DEF sleep_locks
  <2> QED
    BY <1>4, <2>1, <2>2 DEF sleep_locks
<1>5. CASE sleep_set(c, p)
  BY <1>5 DEF sleep_set
<1>6. CASE sched(c, p)
  BY <1>6 DEF sched
<1>7. CASE resume(c, p)
  <2>1. CASE ret[p] = "idle"
    BY SMTT(40), <1>7, <2>1 DEF resume
  <2>2. CASE ret[p] = "again"
    BY <1>7, <2>2 DEF resume
  <2>3. CASE ret[p] = "cs"
    BY <1>7, <2>3 DEF resume
  <2> QED
    BY <1>7, <2>1, <2>2, <2>3 DEF resume
<1>8. CASE releasesleep(c, p)
  BY <1>8 DEF releasesleep
<1>9. CASE wakeup(c, p)
  BY <1>9 DEF wakeup
<1>10. CASE yield(c, p)
  BY SMTT(40), <1>10 DEF yield
<1>11. CASE scheduler_run(c, p)
  BY <1>11 DEF scheduler_run
<1>12. CASE scheduler_release(c, p)
  BY <1>12 DEF scheduler_release
<1>13. ASSUME NEW q \in Procs, kill(c, p, q) PROVE SpinInv'
  BY SMTT(40), <1>13 DEF kill
<1> QED
  BY ZenonT(40), <1>1, <1>2, <1>3, <1>4, <1>5, <1>6, <1>7, <1>8, <1>9, <1>10, <1>11, <1>12, <1>13
    DEF Step, Thread

(* Every step keeps the owner the process in the section. *)
LEMMA SectionStep ==
  ASSUME SleepLockConstants, TypeOK, PlaceInv, SectionInv, NEW c \in CPU, NEW p \in Procs, Step(c, p)
  PROVE  SectionInv'
<1> USE DEF SleepLockConstants, At, Goto, TypeOK, PlaceInv, SectionInv, InSection
<1>1. CASE call(c, p)
  BY <1>1 DEF call
<1>2. CASE acquire_lk(c, p)
  BY <1>2 DEF acquire_lk
<1>3. CASE acquiresleep(c, p)
  BY <1>3 DEF acquiresleep, sleeplock
<1>4. CASE sleep_locks(c, p)
  BY <1>4 DEF sleep_locks
<1>5. CASE sleep_set(c, p)
  BY <1>5 DEF sleep_set
<1>6. CASE sched(c, p)
  BY SMTT(40), <1>6 DEF sched
<1>7. CASE resume(c, p)
  <2>1. CASE ret[p] = "idle"
    BY <1>7, <2>1 DEF resume
  <2>2. CASE ret[p] = "again"
    BY <1>7, <2>2 DEF resume
  <2>3. CASE ret[p] = "cs"
    BY <1>7, <2>3 DEF resume
  <2> QED
    BY SMTT(40), <1>7, <2>1, <2>2, <2>3 DEF resume
<1>8. CASE releasesleep(c, p)
  BY <1>8 DEF releasesleep
<1>9. CASE wakeup(c, p)
  BY <1>9 DEF wakeup
<1>10. CASE yield(c, p)
  BY <1>10 DEF yield
<1>11. CASE scheduler_run(c, p)
  BY <1>11 DEF scheduler_run
<1>12. CASE scheduler_release(c, p)
  BY SMTT(40), <1>12 DEF scheduler_release
<1>13. ASSUME NEW q \in Procs, kill(c, p, q) PROVE SectionInv'
  BY SMTT(40), <1>13 DEF kill
<1> QED
  BY ZenonT(40), <1>1, <1>2, <1>3, <1>4, <1>5, <1>6, <1>7, <1>8, <1>9, <1>10, <1>11, <1>12, <1>13
    DEF Step, Thread

(* Every step keeps a wakeup ahead of a process that has to be woken. *)
LEMMA WakeStep ==
  ASSUME SleepLockConstants, IInv, NEW c \in CPU, NEW p \in Procs, Step(c, p)
  PROVE  WakeInv'
<1> USE DEF SleepLockConstants, At, Goto, TypeOK, PlaceInv, SpinInv, SectionInv, InSection, WakeInv, IInv, NoLostWakeup, HasLk, HasPlock
<1>1. CASE call(c, p)
  <2>1. \A x \in Procs : ToWake(x) => ToWake(x)'
    BY SMTT(40), <1>1 DEF ToWake, call
  <2> QED
    BY SMTT(40), <1>1, <2>1 DEF call
<1>2. CASE acquire_lk(c, p)
  <2>1. \A x \in Procs : ToWake(x) => ToWake(x)'
    BY SMTT(40), <1>2 DEF ToWake, acquire_lk
  <2> QED
    BY SMTT(40), <1>2, <2>1 DEF acquire_lk
<1>3. CASE acquiresleep(c, p)
  <2>1. \A x \in Procs : ToWake(x) => ToWake(x)'
    BY <1>3 DEF ToWake, acquiresleep, sleeplock
  <2> QED
    BY SMTT(40), <1>3, <2>1 DEF acquiresleep, sleeplock
<1>4. CASE sleep_locks(c, p)
  <2>1. \A x \in Procs : ToWake(x) => ToWake(x)'
    BY SMTT(40), <1>4 DEF ToWake, sleep_locks
  <2> QED
    BY SMTT(40), <1>4, <2>1 DEF sleep_locks
<1>5. CASE sleep_set(c, p)
  <2>1. \A x \in Procs : ToWake(x) => ToWake(x)'
    BY SMTT(40), <1>5 DEF ToWake, sleep_set
  <2> QED
    BY SMTT(40), <1>5, <2>1 DEF sleep_set
<1>6. CASE sched(c, p)
  <2>1. \A x \in Procs : ToWake(x) => ToWake(x)'
    BY SMTT(40), <1>6 DEF ToWake, sched
  <2> QED
    BY SMTT(40), <1>6, <2>1 DEF sched
<1>7. CASE resume(c, p)
  <2>1. \A x \in Procs : ToWake(x) => ToWake(x)'
    BY <1>7 DEF ToWake, resume
  <2> QED
    BY SMTT(40), <1>7, <2>1 DEF resume
<1>8. CASE releasesleep(c, p)
  <2>1. \A x \in Procs : ToWake(x)'
    BY SMTT(40), <1>8 DEF ToWake, releasesleep, Procs
  <2> QED
    BY SMTT(40), <1>8, <2>1 DEF releasesleep
<1>9. CASE wakeup(c, p)
  <2>1. CASE scan[p] <= NPROC
    <3> DEFINE q == scan[p]
    <3>1. q \in Procs
      BY SMTT(40), <2>1 DEF Procs
    <3>2. \A x \in Procs \ {q} : ToWake(x) => ToWake(x)'
      <4> SUFFICES ASSUME NEW x \in Procs \ {q}, NEW r \in Procs,
                          pc[r] = "wake", scan[r] <= x
                   PROVE  pc'[r] = "wake" /\ scan'[r] <= x
        BY SMTT(40) DEF ToWake
      <4>1. scan' = [scan EXCEPT ![p] = q + 1] /\ pc' = pc
        BY SMTT(40), <1>9, <2>1 DEF wakeup
      <4>2. x \in Nat /\ q \in Nat /\ x # q
        BY SMTT(40), <3>1 DEF Procs
      <4>3. scan'[r] = IF r = p THEN q + 1 ELSE scan[r]
        BY SMTT(40), <4>1
      <4> QED
        BY SMTT(40), <4>1, <4>2, <4>3
    <3>3. pc[q] # "slp_set"
      BY SMTT(40), <1>9, <2>1, <3>1 DEF wakeup
    <3>4. state'[q] # "SLEEPING"
      BY SMTT(40), <1>9, <2>1, <3>1 DEF wakeup
    <3>5. /\ pc' = pc /\ chan' = chan /\ locked' = locked
          /\ \A x \in Procs : state'[x] = "SLEEPING" => state[x] = "SLEEPING"
      BY SMTT(40), <1>9, <2>1 DEF wakeup
    <3> HIDE DEF q
    <3> QED
      BY SMTT(40), <3>1, <3>2, <3>3, <3>4, <3>5
  <2>2. CASE scan[p] = NPROC + 1
    <3>1. \A x \in Procs : ToWake(x) => ToWake(x)'
      <4> SUFFICES ASSUME NEW x \in Procs, NEW r \in Procs,
                          pc[r] = "wake", scan[r] <= x
                   PROVE  pc'[r] = "wake" /\ scan'[r] <= x
        BY SMTT(40) DEF ToWake
      <4>1. scan' = scan /\ pc' = [pc EXCEPT ![p] = "idle"]
        BY <1>9, <2>2 DEF wakeup
      <4>2. r # p
        BY SMTT(40), <2>2 DEF Procs
      <4> QED
        BY SMTT(40), <4>1, <4>2
    <3> QED
      BY SMTT(40), <1>9, <2>2, <3>1 DEF wakeup
  <2> QED
    BY SMTT(40), <1>9, <2>1, <2>2 DEF wakeup
<1>10. CASE yield(c, p)
  <2>1. \A x \in Procs : ToWake(x) => ToWake(x)'
    BY SMTT(40), <1>10 DEF ToWake, yield
  <2> QED
    BY SMTT(40), <1>10, <2>1 DEF yield
<1>11. CASE scheduler_run(c, p)
  <2>1. \A x \in Procs : ToWake(x) => ToWake(x)'
    BY SMTT(40), <1>11 DEF ToWake, scheduler_run
  <2> QED
    BY SMTT(40), <1>11, <2>1 DEF scheduler_run
<1>12. CASE scheduler_release(c, p)
  <2>1. \A x \in Procs : ToWake(x) => ToWake(x)'
    BY SMTT(40), <1>12 DEF ToWake, scheduler_release
  <2> QED
    BY SMTT(40), <1>12, <2>1 DEF scheduler_release
<1>13. ASSUME NEW q \in Procs, kill(c, p, q) PROVE WakeInv'
  BY <1>13 DEF kill, ToWake
<1> QED
  BY ZenonT(40), <1>1, <1>2, <1>3, <1>4, <1>5, <1>6, <1>7, <1>8, <1>9, <1>10, <1>11, <1>12, <1>13
    DEF Step, Thread

-----------------------------------------------------------------------------
(* The inductive invariant. *)
LEMMA Inductive == ASSUME SleepLockConstants PROVE Spec => []IInv
<1>1. Init => IInv
  <2> SUFFICES ASSUME Init PROVE IInv
    OBVIOUS
  <2>1. 1 \in 1 .. NPROC + 1
    BY DEF SleepLockConstants
  <2>2. TypeOK
    BY ZenonT(40), <2>1 DEF Init, TypeOK, PC
  <2>3. PlaceInv /\ SpinInv
    BY DEF Init, PlaceInv, SpinInv, SleepLockConstants
  <2>4. SectionInv /\ WakeInv
    BY DEF Init, SectionInv, InSection, WakeInv, NoLostWakeup
  <2> QED
    BY <2>2, <2>3, <2>4 DEF IInv
<1>2. IInv /\ [Next]_vars => IInv'
  <2> SUFFICES ASSUME IInv, [Next]_vars PROVE IInv'
    OBVIOUS
  <2>1. CASE UNCHANGED vars
    BY <2>1 DEF IInv, vars, TypeOK, PlaceInv, SpinInv, SectionInv, InSection, WakeInv,
                NoLostWakeup, ToWake
  <2>2. ASSUME NEW c \in CPU, NEW p \in Procs, Step(c, p) PROVE IInv'
    BY <2>2, TypeStep, PlaceStep, SpinStep, SectionStep, WakeStep DEF IInv
  <2> QED
    BY <2>1, <2>2 DEF Next, Step
<1> QED
  BY <1>1, <1>2, PTL DEF Spec

(* For every number of processes and of CPUs, no kernel stack is used by   *)
(* two CPUs, although sleep() and yield() change p->state before swtch(),  *)
(* and none of the panics of sched() happens.                              *)
THEOREM StackExclusive == ASSUME SleepLockConstants PROVE Spec => []OneStack
<1>1. IInv => OneStack
  BY SMTT(40) DEF IInv, TypeOK, PlaceInv, SpinInv, OneStack, At, HasPlock, HasLk,
         SleepLockConstants
<1> QED
  BY <1>1, Inductive, PTL

(* For every number of processes and of CPUs, a process sleeps on a free    *)
(* lock only while a wakeup() that has not passed it is going on: the       *)
(* order of the locks in sleep() loses no wakeup.                           *)
THEOREM WakeupKept == ASSUME SleepLockConstants PROVE Spec => []NoLostWakeup
<1>1. IInv => NoLostWakeup
  BY ZenonT(60) DEF IInv, WakeInv
<1> QED
  BY <1>1, Inductive, PTL

(* For every number of processes and of CPUs, acquiresleep() and            *)
(* releasesleep() implement mutual exclusion, with lk->pid the holder.      *)
THEOREM MutexImplemented == ASSUME SleepLockConstants PROVE Spec => IsMutex
<1> DEFINE inside == {p \in Procs : InSection(p)}
           holder == IF locked THEN owner ELSE NoProc
<1>1. Init => Lock!Init
  BY DEF Init, Lock!Init, InSection
<1>2. IInv /\ [Next]_vars => [Lock!Next]_<<inside, holder>>
  <2> SUFFICES ASSUME IInv, [Next]_vars PROVE [Lock!Next]_<<inside, holder>>
    OBVIOUS
  <2>1. CASE UNCHANGED vars
    BY <2>1 DEF vars, InSection
  <2>2. ASSUME NEW c \in CPU, NEW p \in Procs, acquiresleep(c, p), ~locked
        PROVE  Lock!Enter(p)
    BY <2>2 DEF acquiresleep, At, Goto, Lock!Enter, InSection, IInv, TypeOK, SectionInv
  <2>3. ASSUME NEW c \in CPU, NEW p \in Procs, releasesleep(c, p)
        PROVE  Lock!Leave(p)
    BY <2>3 DEF releasesleep, At, Goto, Lock!Leave, InSection, IInv, TypeOK, SectionInv
  <2>4. ASSUME NEW c \in CPU, NEW p \in Procs, Step(c, p),
               ~(acquiresleep(c, p) /\ ~locked), ~releasesleep(c, p)
        PROVE  UNCHANGED <<inside, holder>>
    <3>1. locked' = locked /\ owner' = owner
      BY ZenonT(60), <2>4 DEF Step, Thread, call, acquire_lk, acquiresleep, sleep_locks, sleep_set,
                  sched, resume, wakeup, yield, scheduler_run, scheduler_release, kill,
                  sleeplock
    <3>2. \A x \in Procs : InSection(x)' <=> InSection(x)
      BY SMTT(40), <2>4 DEF Step, Thread, call, acquire_lk, acquiresleep, sleep_locks, sleep_set,
                  sched, resume, wakeup, yield, scheduler_run, scheduler_release, kill,
                  sleeplock, At, Goto, InSection, IInv, TypeOK
    <3> QED
      BY SMTT(40), <3>1, <3>2
  <2> QED
    BY <2>1, <2>2, <2>3, <2>4 DEF Next, Step, Lock!Next
<1> QED
  BY <1>1, <1>2, Inductive, PTL DEF Spec, IsMutex, Lock!Spec
=============================================================================
