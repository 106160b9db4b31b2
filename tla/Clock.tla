------------------------------- MODULE Clock --------------------------------
(***************************************************************************)
(* Interrupts: push_off, pop_off, acquire and release of kernel/spinlock.c *)
(* with the interrupt flag of every CPU, usertrap, usertrapret, kerneltrap *)
(* and clockintr of kernel/trap.c, scheduler, sched and yield, and the     *)
(* system calls on the clock, sleep() and uptime(), of kernel/sysproc.c.   *)
(*                                                                         *)
(* The timer may interrupt a CPU before every instruction that has         *)
(* interrupts on: in user mode, in a system call and in the scheduler. A   *)
(* step is what happens without interrupts and without waiting for a lock. *)
(* A CPU that waits for a lock has interrupts off.                         *)
(***************************************************************************)
EXTENDS Integers, FiniteSets

CONSTANTS NPROC, NCPU, Free,
          UINT,    \* 2^32, where ticks wraps
          Naps,    \* the arguments of sleep()
          Callers, \* bound: the processes that make system calls
          Victims  \* bound: the processes that are killed

Proc == 1 .. NPROC
Cpu == -NCPU .. -1       \* CPU 0 of the code is -1
Zero == -1
Idle == 0                \* no process
tickslock == 0
Lock == Proc \cup {tickslock}

ASSUME ClockConstants ==
  /\ {NPROC, NCPU} \subseteq Nat \ {0}
  /\ Free \notin Cpu
  /\ UINT \in Nat \ {0} /\ Naps \subseteq 0 .. UINT - 1 /\ Callers \cup Victims \subseteq Proc

VARIABLES
  cpu,    \* [noff, intena, sie, stvec, proc]: struct cpu, the interrupt flag
          \* and where a trap goes
  timer,  \* the CPUs with a timer interrupt pending
  lk,     \* the CPU that holds each lock
  pc,     \* what each thread does next outside of interrupts; the thread of
          \* a CPU's scheduler has the CPU's name
  trap,   \* what each thread does next in an interrupt
  next,   \* p of the loop in scheduler()
  waking, \* p of the loop in wakeup(), which only CPU 0 calls
  saved,  \* intena of sched()
  state, killed, ticks,
  ticks0, n,  \* of sys_sleep()
  slept   \* history: the ticks since sys_sleep() was called, up to n

threads == <<pc, trap, next, waking, saved>>
napping == <<ticks0, n, slept>>
procs == <<state, killed>>
vars == <<cpu, timer, lk, threads, procs, ticks, napping>>

Thread == Proc \cup Cpu

(* main() has called scheduler() on every CPU; fork() has made processes. *)
Init ==
  /\ cpu = [c \in Cpu |-> [noff |-> 0, intena |-> FALSE, sie |-> FALSE,
                           stvec |-> "kernelvec", proc |-> Idle]]
  /\ timer = {}
  /\ lk = [l \in Lock |-> Free]
  /\ pc = [t \in Thread |-> IF t \in Cpu THEN "intr_on" ELSE "forkret"]
  /\ trap = [t \in Thread |-> "none"]
  /\ next = [c \in Cpu |-> 1]
  /\ waking = 1
  /\ saved = [p \in Proc |-> FALSE]
  /\ state = [p \in Proc |-> "RUNNABLE"]
  /\ killed = [p \in Proc |-> FALSE]
  /\ ticks \in {0, UINT - 1}
  /\ ticks0 = [p \in Proc |-> 0]
  /\ n = [p \in Proc |-> 0]
  /\ slept = [p \in Proc |-> 0]

(* The thread that runs on CPU c. *)
On(c) == IF cpu[c].proc = Idle THEN c ELSE cpu[c].proc

(* CPU c runs its thread outside of an interrupt, at l; inside of one, at l. *)
At(c, l) == /\ trap[On(c)] = "none" /\ pc[On(c)] = l
            /\ ~(c \in timer /\ cpu[c].sie)
In(c, l) == trap[On(c)] = l

Goto(t, l) == pc' = [pc EXCEPT ![t] = l]
GotoTrap(t, l) == trap' = [trap EXCEPT ![t] = l]

-----------------------------------------------------------------------------
(* spinlock.c *)

MutAlwaysSaves(k) == [k EXCEPT !.noff = @ + 1, !.intena = k.sie, !.sie = FALSE]

push_off(k) ==
  [k EXCEPT !.noff = @ + 1, !.intena = IF k.noff = 0 THEN k.sie ELSE @, !.sie = FALSE]

pop_off(k) ==
  [k EXCEPT !.noff = @ - 1, !.sie = IF k.noff = 1 /\ k.intena THEN TRUE ELSE @]

(* The first half of acquire(); then the thread waits for the lock at l. *)
BeginAcquire(c, l) ==
  /\ cpu' = [cpu EXCEPT ![c] = push_off(@)]
  /\ Goto(On(c), l)
  /\ UNCHANGED <<timer, lk, trap, next, saved, procs, ticks, napping, waking>>

Take(c, l) == lk[l] = Free /\ lk' = [lk EXCEPT ![l] = c]

(* acquire() where interrupts are off already. *)
acquire(c, l) == Take(c, l) /\ cpu' = [cpu EXCEPT ![c] = push_off(@)]

release(c, l) ==
  /\ lk' = [lk EXCEPT ![l] = Free]
  /\ cpu' = [cpu EXCEPT ![c] = pop_off(@)]

-----------------------------------------------------------------------------
(* scheduler() *)

MutNoIntrOn(c) ==
  /\ At(c, "intr_on")
  /\ Goto(c, "scan")
  /\ next' = [next EXCEPT ![c] = 1]
  /\ UNCHANGED <<cpu, timer, lk, trap, saved, procs, ticks, napping, waking>>

(* A round begins. wfi at the end of the last one only saves power. *)
scheduler_intr_on(c) ==
  /\ At(c, "intr_on")
  /\ cpu' = [cpu EXCEPT ![c].sie = TRUE]
  /\ Goto(c, "scan")
  /\ next' = [next EXCEPT ![c] = 1]
  /\ UNCHANGED <<timer, lk, trap, saved, procs, ticks, napping, waking>>

scheduler_acquire(c) == At(c, "scan") /\ BeginAcquire(c, "spin")

(* The lock is taken and the process runs, if it is RUNNABLE. *)
scheduler_run(c) ==
  LET p == next[c] IN
  /\ At(c, "spin")
  /\ Take(c, p)
  /\ Goto(c, "back")
  /\ IF state[p] = "RUNNABLE"
     THEN /\ state' = [state EXCEPT ![p] = "RUNNING"]
          /\ cpu' = [cpu EXCEPT ![c].proc = p, ![c].intena =
                       IF pc[p] = "forkret" THEN @ ELSE saved[p]]
             ELSE UNCHANGED <<state, cpu>>
  /\ UNCHANGED <<timer, trap, next, saved, killed, ticks, napping, waking>>

scheduler_release(c) ==
  LET last == next[c] = NPROC IN
  /\ At(c, "back")
  /\ release(c, next[c])
  /\ Goto(c, IF last THEN "intr_on" ELSE "scan")
  /\ next' = [next EXCEPT ![c] = IF last THEN 1 ELSE @ + 1]
  /\ UNCHANGED <<timer, trap, saved, procs, ticks, napping, waking>>

(* sched() of p on a CPU in state k: swtch() to the scheduler, which goes  *)
(* on at "back". scheduler_run() resumes p and restores intena.            *)
sched(c, p, k) ==
  /\ saved' = [saved EXCEPT ![p] = k.intena]
  /\ cpu' = [cpu EXCEPT ![c] = [k EXCEPT !.proc = Idle]]

forkret(c) ==
  /\ At(c, "forkret")
  /\ release(c, On(c))
  /\ Goto(On(c), "return")
  /\ UNCHANGED <<timer, trap, next, saved, procs, ticks, napping, waking>>

-----------------------------------------------------------------------------
(* Interrupts *)

(* The timer of c reaches stimecmp. *)
tick(c) ==
  /\ c \notin timer
  /\ timer' = timer \cup {c}
  /\ UNCHANGED <<cpu, lk, threads, procs, ticks, napping>>

(* The end of clockintr(): w_stimecmp() clears the request. usertrap() and *)
(* kerneltrap() then yield(), unless the scheduler was interrupted.        *)
Served(c) ==
  /\ timer' = timer \ {c}
  /\ GotoTrap(On(c), IF cpu[c].proc = Idle THEN "sret"
                     ELSE IF pc[On(c)] = "user" /\ killed[On(c)] THEN "exit"
                     ELSE "yield")

(* The hardware turns interrupts off and jumps to stvec: to uservec, which *)
(* calls usertrap(), which sends traps to kernelvec, or to kernelvec,      *)
(* which calls kerneltrap().                                               *)
uservec(k) == [k EXCEPT !.sie = FALSE, !.stvec = "kernelvec"]

interrupt(c) ==
  /\ c \in timer /\ cpu[c].sie
  /\ cpu' = [cpu EXCEPT ![c] = uservec(@)]
  /\ IF c = Zero THEN GotoTrap(On(c), "clockintr") /\ UNCHANGED timer ELSE Served(c)
  /\ UNCHANGED <<lk, pc, next, saved, procs, ticks, napping, waking>>

(* clockintr() on CPU 0, and wakeup(&ticks): a p->lock at a time. *)
clockintr_tick(c) ==
  /\ In(c, "clockintr")
  /\ acquire(c, tickslock)
  /\ ticks' = (ticks + 1) % UINT
  /\ slept' = [p \in Proc |-> IF pc[p] \in {"user", "forkret"} \/ slept[p] = n[p] THEN slept[p]
                              ELSE slept[p] + 1]
  /\ GotoTrap(On(c), "wakeup")
  /\ UNCHANGED <<timer, pc, next, saved, procs, ticks0, n, waking>>

Woken(p) == [state EXCEPT ![p] = IF @ = "SLEEPING" THEN "RUNNABLE" ELSE @]

clockintr_wakeup(c) ==
  LET p == waking IN
  /\ In(c, "wakeup")
  /\ p # cpu[c].proc => lk[p] = Free
  /\ state' = IF p # cpu[c].proc THEN Woken(p) ELSE state
  /\ waking' = IF p = NPROC THEN 1 ELSE p + 1
  /\ trap' = IF p = NPROC THEN [trap EXCEPT ![On(c)] = "release"] ELSE trap
  /\ UNCHANGED <<cpu, timer, lk, pc, next, saved, killed, ticks, napping>>

clockintr_release(c) ==
  /\ In(c, "release")
  /\ release(c, tickslock)
  /\ Served(c)
  /\ UNCHANGED <<pc, next, saved, procs, ticks, napping, waking>>

yield(c) ==
  LET p == On(c) IN
  /\ In(c, "yield")
  /\ lk[p] = Free
  /\ lk' = [lk EXCEPT ![p] = c]
  /\ state' = [state EXCEPT ![p] = "RUNNABLE"]
  /\ sched(c, p, push_off(cpu[c]))
  /\ GotoTrap(p, "resumed")
  /\ UNCHANGED <<timer, pc, next, killed, ticks, napping, waking>>

(* kerneltrap() returns to what it interrupted, usertrap() calls           *)
(* usertrapret(); yield() has released p->lock before.                     *)
trap_return(c) ==
  LET t == On(c) IN
  /\ In(c, "resumed") \/ In(c, "sret")
  /\ GotoTrap(t, "none")
  /\ lk' = IF In(c, "resumed") THEN [lk EXCEPT ![t] = Free] ELSE lk
  /\ LET k == IF In(c, "resumed") THEN pop_off(cpu[c]) ELSE cpu[c]
     IN cpu' = [cpu EXCEPT ![c] = [k EXCEPT !.sie = @ \/ pc[t] # "user"]]
  /\ pc' = IF pc[t] = "user" THEN [pc EXCEPT ![t] = "return"] ELSE pc
  /\ UNCHANGED <<timer, next, saved, procs, ticks, napping, waking>>

(* exit() of a killed process, which never runs again. *)
exit(c) ==
  LET p == On(c) IN
  /\ In(c, "exit") \/ At(c, "exit")
  /\ lk[p] = Free
  /\ lk' = [lk EXCEPT ![p] = c]
  /\ state' = [state EXCEPT ![p] = "ZOMBIE"]
  /\ cpu' = [cpu EXCEPT ![c] = [push_off(@) EXCEPT !.proc = Idle]]
  /\ GotoTrap(p, "none") /\ Goto(p, "zombie")
  /\ UNCHANGED <<timer, next, saved, killed, ticks, napping, waking>>

-----------------------------------------------------------------------------
(* System calls *)

(* usertrap() turns interrupts on and calls sys_sleep(). *)
ecall(c, k) ==
  LET p == On(c) IN
  /\ At(c, "user") /\ p \in Callers
  /\ cpu' = [cpu EXCEPT ![c] = [uservec(@) EXCEPT !.sie = ~killed[p]]]
  /\ Goto(p, IF killed[p] THEN "exit" ELSE "sys_sleep")
  /\ n' = [n EXCEPT ![p] = k]
  /\ slept' = [slept EXCEPT ![p] = 0]
  /\ UNCHANGED <<timer, lk, trap, next, saved, procs, ticks, ticks0, waking>>

sys_sleep(c) == At(c, "sys_sleep") /\ BeginAcquire(c, "start")

sys_sleep_start(c) ==
  LET p == On(c) IN
  /\ At(c, "start")
  /\ Take(c, tickslock)
  /\ ticks0' = [ticks0 EXCEPT ![p] = ticks]
  /\ slept' = [slept EXCEPT ![p] = 0]
  /\ Goto(p, "while")
  /\ UNCHANGED <<cpu, timer, trap, next, saved, procs, ticks, n, waking>>

MutDeadline(p) == ticks < (ticks0[p] + n[p]) % UINT

(* ticks - ticks0 < n, in unsigned arithmetic. *)
Early(p) == (ticks - ticks0[p]) % UINT < n[p]

(* The loop ends: with 0, or with -1 if the process was killed. *)
sys_sleep_return(c) ==
  LET p == On(c) IN
  /\ At(c, "while")
  /\ ~Early(p) \/ killed[p]
  /\ release(c, tickslock)
  /\ Goto(p, IF Early(p) THEN "return -1" ELSE "return 0")
  /\ UNCHANGED <<timer, trap, next, saved, procs, ticks, napping, waking>>

(* sleep(&ticks, &tickslock): p->lock is taken, tickslock given up. *)
sys_sleep_sleep(c) ==
  LET p == On(c) IN
  /\ At(c, "while")
  /\ Early(p) /\ ~killed[p]
  /\ lk[p] = Free
  /\ lk' = [lk EXCEPT ![p] = c, ![tickslock] = Free]
  /\ state' = [state EXCEPT ![p] = "SLEEPING"]
  /\ sched(c, p, pop_off(push_off(cpu[c])))
  /\ Goto(p, "awake")
  /\ UNCHANGED <<timer, trap, next, killed, ticks, napping, waking>>

sleep_awake(c) ==
  /\ At(c, "awake")
  /\ release(c, On(c))
  /\ Goto(On(c), "relock")
  /\ UNCHANGED <<timer, trap, next, saved, procs, ticks, napping, waking>>

sleep_relock(c) == At(c, "relock") /\ BeginAcquire(c, "again")

sleep_again(c) ==
  /\ At(c, "again")
  /\ Take(c, tickslock)
  /\ Goto(On(c), "while")
  /\ UNCHANGED <<cpu, timer, trap, next, saved, procs, ticks, napping, waking>>

Returning(c) == At(c, "return") \/ At(c, "return 0") \/ At(c, "return -1")
LeaveKernel(p) ==
  /\ ticks0' = [ticks0 EXCEPT ![p] = 0]
  /\ n' = [n EXCEPT ![p] = 0]
  /\ slept' = [slept EXCEPT ![p] = 0]
  /\ Goto(p, IF killed[p] /\ pc[p] # "return" THEN "exit" ELSE "userret")

(* The end of usertrap(), and usertrapret() up to the trampoline. *)
usertrapret(c) ==
  LET p == On(c) IN
  /\ Returning(c)
  /\ LeaveKernel(p)
  /\ cpu' = IF killed[p] /\ pc[p] # "return" THEN cpu
            ELSE [cpu EXCEPT ![c].sie = FALSE, ![c].stvec = "uservec"]
  /\ UNCHANGED <<timer, lk, trap, next, saved, procs, ticks, waking>>

(* sret to user mode, where interrupts are on. *)
userret(c) ==
  /\ At(c, "userret")
  /\ cpu' = [cpu EXCEPT ![c].sie = TRUE]
  /\ Goto(On(c), "user")
  /\ UNCHANGED <<timer, lk, trap, next, saved, procs, ticks, napping, waking>>

kill(p) ==
  /\ p \in Victims /\ ~killed[p]
  /\ lk[p] = Free
  /\ killed' = [killed EXCEPT ![p] = TRUE]
  /\ state' = Woken(p)
  /\ UNCHANGED <<cpu, timer, lk, threads, ticks, napping>>

Run(c) ==
  \/ scheduler_intr_on(c) \/ scheduler_acquire(c) \/ scheduler_run(c)
  \/ scheduler_release(c) \/ forkret(c)
  \/ interrupt(c) \/ clockintr_tick(c) \/ clockintr_wakeup(c) \/ clockintr_release(c)
  \/ yield(c) \/ trap_return(c) \/ exit(c)
  \/ sys_sleep(c) \/ sys_sleep_start(c) \/ sys_sleep_return(c) \/ sys_sleep_sleep(c)
  \/ sleep_awake(c) \/ sleep_relock(c) \/ sleep_again(c)
  \/ usertrapret(c) \/ userret(c)

Next ==
  \/ \E c \in Cpu : Run(c) \/ tick(c) \/ \E k \in Naps : ecall(c, k)
  \/ \E p \in Proc : kill(p)

Spec == Init /\ [][Next]_vars

(* A CPU that can go on does, one that waits for a lock finds it free in   *)
(* the end, and its timer runs. A user program need not make another       *)
(* system call.                                                            *)
Fairness == \A c \in Cpu : SF_vars(Run(c)) /\ WF_vars(tick(c))
FairSpec == Spec /\ Fairness

-----------------------------------------------------------------------------
(* Properties *)

(* The locks a CPU holds or waits for. *)
Held(c) == Cardinality({l \in Lock : lk[l] = c})
Waiting(c) == IF pc[On(c)] \in {"spin", "start", "again"} THEN 1 ELSE 0

(* noff counts the locks exactly, interrupts are off while there are any,  *)
(* and a system call that holds none has them on, as it had before: also   *)
(* when it was switched away from, in the middle of an interrupt or of     *)
(* sleep(), and goes on on another CPU. So no panic() of pop_off() or      *)
(* sched() is reached, and no interrupt finds a lock taken that its own    *)
(* CPU holds. A trap goes where it must: while interrupts are on, stvec is *)
(* uservec if and only if the CPU is in user mode.                         *)
InterruptFlag ==
  \A c \in Cpu :
    /\ cpu[c].noff = Held(c) + Waiting(c)
    /\ cpu[c].noff > 0 => ~cpu[c].sie
    /\ (trap[On(c)] = "none" /\ pc[On(c)] \in {"sys_sleep", "relock", "return 0", "return -1"})
         => cpu[c].sie
    /\ cpu[c].sie =>
         (cpu[c].stvec = "uservec") = (trap[On(c)] = "none" /\ pc[On(c)] = "user")

(* sleep(n) returns 0 only after n ticks, also when the counter wraps.     *)
SleptEnough == \A p \in Proc : pc[p] = "return 0" => slept[p] = n[p]

(* Everybody who sleeps on the clock is woken: CPU 0 never stays with its  *)
(* interrupts off, also when the last process that ran there had them off  *)
(* and all others sleep.                                                   *)
SleepersWake == \A p \in Proc : state[p] = "SLEEPING" ~> state[p] # "SLEEPING"
=============================================================================
