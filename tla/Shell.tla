-------------------------------- MODULE Shell --------------------------------
(***************************************************************************)
(* init (user/init.c) and the shell (user/sh.c) with the processes that    *)
(* runcmd() forks: who holds which end of which pipe, and who waits for    *)
(* whom.                                                                   *)
(*                                                                         *)
(* A process has a slot p with its parent, its open files fds, the point   *)
(* pc it has reached, its copy of the line it was forked to run (the buf   *)
(* that fork() copied), the command cmd still to run and, for a script,    *)
(* the lines left.  fork(), wait(), exit(), pipe(), open(), dup() and      *)
(* close() are the kernel's, seen here through what they promise; each may *)
(* fail where the code tests for it, at most MaxFaults times.  A run of    *)
(* calls that touches only the process's own descriptors is one step with  *)
(* the call that follows it: nobody else can see the states between.       *)
(*                                                                         *)
(* An open file is <<kind, name, job>>.  A pipe is named for the word its  *)
(* reader starts with and the line (job) it is part of, which no two pipes *)
(* open at a time share.  job, bg and broken only serve the properties.    *)
(***************************************************************************)
EXTENDS ShellParser, Integers

CONSTANTS
  NP,           \* process slots; 1 is init
  NFD,          \* highest descriptor: pipes need two more than 0, 1, 2
  Lines,        \* a sequence: the lines that may be typed first, second, ...
  Script,       \* the lines of the script that ./s runs, each ending in \n
  MAXSCRIPT,    \* sizeof buf in execscript()
  MaxFaults     \* failures of fork, exec, open and pipe in a behaviour

ASSUME ShellAssumption ==
  NP \in Nat /\ NFD \in Nat /\ MAXSCRIPT \in Nat /\ MaxFaults \in Nat

VARIABLES
  proc,         \* [slot -> process]
  typed,        \* lines typed so far
  faults,       \* failures so far
  broken        \* jobs in which a fork failed

vars == <<buf, proc, typed, faults, broken>>

Slots == 1..NP
init == 1

(* What parsecmd() makes of the lines that are run, as a table.            *)
Command == [s \in UNION Range(Lines) \cup {Front(Script[i]) : i \in DOMAIN Script} |-> parsecmd(s)]

Closed == <<"closed", "", 0>>
console == <<"console", "", 0>>
Free == [parent |-> 0, fds |-> [d \in 0..NFD |-> Closed], pc |-> "unused",
         line |-> << >>, cmd |-> execcmd, script |-> << >>, p0 |-> 0, p1 |-> 0,
         job |-> 0, bg |-> FALSE]

(* init has opened the console as 0 and duplicated it to 1 and 2.          *)
ShInit ==
  /\ Init
  /\ proc = [p \in Slots |-> IF p = init
               THEN [Free EXCEPT !.pc = "init_fork",
                                 !.fds = [d \in 0..NFD |-> IF d < 3 THEN console ELSE Closed]]
               ELSE Free]
  /\ typed = 0 /\ faults = 0 /\ broken = {}

At(p, pc) == proc[p].pc = pc
Children(p) == {q \in Slots : proc[q].parent = p /\ proc[q].pc # "unused"}

-----------------------------------------------------------------------------
(* System calls (external), on one process record or on the table          *)

(* The lowest free descriptor of a process.                                *)
fdalloc(fds) == Min({d \in 0..NFD : fds[d] = Closed})

open(fds, f) == [fds EXCEPT ![fdalloc(fds)] = f]
close(fds, d) == [fds EXCEPT ![d] = Closed]
dup(fds, d) == open(fds, fds[d])

(* exit(): the files are closed and init adopts the children.              *)
Exited(t, p) ==
  [q \in Slots |->
     IF q = p THEN [t[p] EXCEPT !.pc = "zombie", !.fds = Free.fds]
     ELSE IF t[q].parent = p THEN [t[q] EXCEPT !.parent = init]
     ELSE t[q]]

(* fork(): p goes on as parent, and a free slot gets child, a copy of p    *)
(* that goes on elsewhere.  NP is large enough for every line of Lines.    *)
fork(p, parent, child) ==
  LET q == Min({x \in Slots : At(x, "unused")})
  IN proc' = [proc EXCEPT ![p] = parent, ![q] = [child EXCEPT !.parent = p]]

Fault == faults < MaxFaults /\ faults' = faults + 1 /\ UNCHANGED <<buf, typed>>

Quiet == UNCHANGED <<buf, typed, faults, broken>>

(* fork1() panics, and so exits, when fork() fails.                        *)
fork1_fails(p) ==
  /\ p # init
  /\ Fault
  /\ proc' = Exited(proc, p)
  /\ broken' = broken \cup {proc[p].job}

(* wait(0) frees a zombie child; without children it returns -1.           *)
wait(p, then) ==
  \/ \E q \in Children(p) :
       /\ At(q, "zombie")
       /\ proc' = [proc EXCEPT ![q] = Free, ![p] = then]
  \/ Children(p) = {} /\ proc' = [proc EXCEPT ![p] = then]

-----------------------------------------------------------------------------
(* init                                                                    *)

(* The loop forks a shell. When fork() fails init exits, which the kernel  *)
(* does not survive: exit() of init is a panic("init exiting").            *)
init_fork ==
  /\ At(init, "init_fork")
  /\ \/ /\ fork(init, [proc[init] EXCEPT !.pc = "init_wait"],
                       [proc[init] EXCEPT !.pc = "exec_sh"])
        /\ Quiet
     \/ proc' = [proc EXCEPT ![init].pc = "init_panic"] /\ Fault /\ UNCHANGED broken

(* panic() loops for ever. *)
init_panic == At(init, "init_panic") /\ UNCHANGED vars

(* The shell opens the console until 0, 1 and 2 are open; without a shell  *)
(* the child exits, and init forks another.                                *)
OpenThree(fds) == [d \in 0..NFD |-> IF d < 3 /\ fds[d] = Closed THEN console ELSE fds[d]]

exec_sh(p) ==
  /\ At(p, "exec_sh")
  /\ \/ proc' = [proc EXCEPT ![p].pc = "prompt", ![p].fds = OpenThree(@)] /\ Quiet
     \/ proc' = Exited(proc, p) /\ Fault /\ UNCHANGED broken

(* init's copy of pid: the shell is the only child that reads commands. It *)
(* is a child until it is waited for, so wait() never returns an error.    *)
IsShell(q) == proc[q].line = << >> /\ proc[q].job = 0

init_wait ==
  /\ At(init, "init_wait")
  /\ \E q \in Children(init) :
       /\ At(q, "zombie")
       /\ proc' = [proc EXCEPT ![q] = Free,
                               ![init].pc = IF IsShell(q) THEN "init_fork" ELSE @]
  /\ Quiet

-----------------------------------------------------------------------------
(* main()                                                                  *)

(* getcmd() returns a line, or -1 at the end of the input.                 *)
getcmd_line(p) ==
  /\ At(p, "prompt") /\ typed < Len(Lines)
  /\ \E s \in Lines[typed + 1] :
       LET cd == Len(s) > 2 /\ s[1] = "c" /\ s[2] = "d" /\ s[3] = " "
           script == Len(s) > 1 /\ s[1] = "." /\ s[2] = "/"
       IN /\ buf' = s
          /\ proc' = [proc EXCEPT ![p].pc = IF cd THEN "prompt"
                                            ELSE IF script THEN "fork_script" ELSE "fork"]
  /\ typed' = typed + 1
  /\ UNCHANGED <<faults, broken>>

getcmd_eof(p) ==
  /\ At(p, "prompt")
  /\ proc' = Exited(proc, p)
  /\ Quiet

(* if(fork1() == 0) runcmd(parsecmd(buf)), or execscript(): a line that    *)
(* does not parse makes the child panic.                                   *)
RunLine(p, s, job) ==
  [proc[p] EXCEPT !.line = s, !.job = job, !.script = << >>,
     !.pc = IF Command[s].ok THEN "runcmd" ELSE "panic", !.cmd = Command[s].cmd]

main_fork(p) ==
  \/ /\ At(p, "fork") \/ At(p, "fork_script")
     /\ fork(p, [proc[p] EXCEPT !.pc = "main_wait"],
             IF At(p, "fork") THEN RunLine(p, buf, typed)
             ELSE [proc[p] EXCEPT !.line = buf, !.job = typed, !.pc = "execscript"])
     /\ Quiet
  \/ (At(p, "fork") \/ At(p, "fork_script")) /\ fork1_fails(p)

main_wait(p) ==
  /\ At(p, "main_wait")
  /\ wait(p, [proc[p] EXCEPT !.pc = "prompt"])
  /\ Quiet

panic(p) == At(p, "panic") /\ proc' = Exited(proc, p) /\ Quiet

-----------------------------------------------------------------------------
(* execscript(), which main() follows with exit(1).  The script stays open *)
(* as a further descriptor in the processes that run its lines.            *)

execscript_open(p) ==
  /\ At(p, "execscript")
  /\ \/ proc' = [proc EXCEPT ![p].fds = open(@, <<"script", "", 0>>),
                              ![p].script = Script, ![p].pc = "script_next"] /\ Quiet
     \/ proc' = Exited(proc, p) /\ Fault /\ UNCHANGED broken

(* A line is run when its newline is read: an empty line is skipped, one   *)
(* of MAXSCRIPT - 1 characters ends the script, and so does the end of the *)
(* file, even after the characters of a last line.                         *)
execscript_line(p) ==
  LET left == proc[p].script
      s == Head(left)
      text == Front(s)
      runs == left # << >> /\ Last(s) = "\n" /\ Len(text) < MAXSCRIPT - 1
      next == [proc[p] EXCEPT !.script = Tail(left)]
  IN /\ At(p, "script_next")
     /\ \/ /\ ~runs
           /\ proc' = Exited(proc, p) /\ Quiet
        \/ /\ runs
           /\ \/ text = << >> /\ proc' = [proc EXCEPT ![p] = next] /\ Quiet
              \/ /\ text # << >>
                 /\ fork(p, [next EXCEPT !.pc = "script_wait"], RunLine(p, text, proc[p].job))
                 /\ Quiet
              \/ text # << >> /\ fork1_fails(p)

execscript_wait(p) ==
  /\ At(p, "script_wait")
  /\ wait(p, [proc[p] EXCEPT !.pc = "script_next"])
  /\ Quiet

-----------------------------------------------------------------------------
(* runcmd(), one action for each case of its switch and each call in it    *)
(* that other processes can see.                                           *)

Runs(p, type) == At(p, "runcmd") /\ proc[p].cmd.type = type

(* exec() of a program, or exit() when there is no word or exec() fails.   *)
runcmd_exec(p) ==
  /\ Runs(p, "EXEC")
  /\ \/ proc[p].cmd.argv # << >> /\ proc' = [proc EXCEPT ![p].pc = "prog"] /\ Quiet
     \/ proc[p].cmd.argv = << >> /\ proc' = Exited(proc, p) /\ Quiet
     \/ proc[p].cmd.argv # << >> /\ proc' = Exited(proc, p) /\ Fault /\ UNCHANGED broken

file(p, c) == <<"file", proc[p].line[c.file[1]], 0>>

runcmd_redir(p) ==
  LET c == proc[p].cmd
  IN /\ Runs(p, "REDIR")
     /\ \/ /\ proc' = [proc EXCEPT ![p].fds = open(close(@, c.fd), file(p, c)),
                                   ![p].cmd = c.cmd]
           /\ Quiet
        \/ proc' = Exited(proc, p) /\ Fault /\ UNCHANGED broken

runcmd_list(p) ==
  LET c == proc[p].cmd
  IN /\ Runs(p, "LIST")
     /\ \/ /\ fork(p, [proc[p] EXCEPT !.pc = "list_wait"], [proc[p] EXCEPT !.cmd = c.left])
           /\ Quiet
        \/ fork1_fails(p)

runcmd_right(p) ==
  /\ At(p, "list_wait")
  /\ wait(p, [proc[p] EXCEPT !.pc = "runcmd", !.cmd = @.right])
  /\ Quiet

runcmd_back(p) ==
  LET c == proc[p].cmd
  IN /\ Runs(p, "BACK")
     /\ \/ /\ fork(p, [proc[p] EXCEPT !.pc = "exit"],
                      [proc[p] EXCEPT !.cmd = c.cmd, !.bg = TRUE])
           /\ Quiet
        \/ fork1_fails(p)

(* The first word of a command names the pipe it reads from.               *)
RECURSIVE First(_)
First(c) == CASE c.type = "EXEC" -> IF c.argv = << >> THEN 0 ELSE c.argv[1][1]
              [] c.type \in {"REDIR", "BACK"} -> First(c.cmd)
              [] OTHER -> IF First(c.left) # 0 THEN First(c.left) ELSE First(c.right)

Pipe(end, s, c, job) ==
  LET q == First(c.right) IN <<end, IF q = 0 THEN "" ELSE s[q], job>>

runcmd_pipe(p) ==
  LET c == proc[p].cmd
      fds == proc[p].fds
      one == open(fds, Pipe("read", proc[p].line, c, proc[p].job))
      two == open(one, Pipe("write", proc[p].line, c, proc[p].job))
  IN /\ Runs(p, "PIPE")
     /\ \/ /\ proc' = [proc EXCEPT ![p].fds = two, ![p].p0 = fdalloc(fds),
                                   ![p].p1 = fdalloc(one), ![p].pc = "pipe_left"]
           /\ Quiet
        \/ proc' = Exited(proc, p) /\ Fault /\ UNCHANGED broken

pipe_fork_left(p) ==
  /\ At(p, "pipe_left")
  /\ \/ /\ fork(p, [proc[p] EXCEPT !.pc = "pipe_right"], [proc[p] EXCEPT !.pc = "left"])
        /\ Quiet
     \/ fork1_fails(p)

pipe_fork_right(p) ==
  /\ At(p, "pipe_right")
  /\ \/ /\ fork(p, [proc[p] EXCEPT !.pc = "pipe_close"], [proc[p] EXCEPT !.pc = "right"])
        /\ Quiet
     \/ fork1_fails(p)

(* The left child's standard output becomes the pipe's write end, the      *)
(* right child's standard input its read end; both close p[0] and p[1].    *)
pipe_left(p) ==
  LET me == proc[p]
  IN /\ At(p, "left")
     /\ proc' = [proc EXCEPT ![p].pc = "runcmd", ![p].cmd = @.left,
          ![p].fds = close(close(dup(close(@, 1), me.p1), me.p0), me.p1)]
     /\ Quiet

MutKeepsWriteEnd(p) ==
  LET me == proc[p]
  IN /\ At(p, "right")
     /\ proc' = [proc EXCEPT ![p].pc = "runcmd", ![p].cmd = @.right,
          ![p].fds = close(dup(close(@, 0), me.p0), me.p0)]
     /\ Quiet

pipe_right(p) ==
  LET me == proc[p]
  IN /\ At(p, "right")
     /\ proc' = [proc EXCEPT ![p].pc = "runcmd", ![p].cmd = @.right,
          ![p].fds = close(close(dup(close(@, 0), me.p0), me.p0), me.p1)]
     /\ Quiet

MutKeepsEnds(p) ==
  /\ At(p, "pipe_close")
  /\ proc' = [proc EXCEPT ![p].pc = "pipe_wait"]
  /\ Quiet

pipe_close(p) ==
  /\ At(p, "pipe_close")
  /\ proc' = [proc EXCEPT ![p].pc = "pipe_wait",
                          ![p].fds = close(close(@, proc[p].p0), proc[p].p1)]
  /\ Quiet

MutWaitsOnce(p) ==
  /\ At(p, "pipe_wait")
  /\ wait(p, [proc[p] EXCEPT !.pc = "exit"])
  /\ Quiet

(* wait(0) twice                                                           *)
pipe_wait(p) ==
  /\ At(p, "pipe_wait") \/ At(p, "pipe_wait2")
  /\ wait(p, [proc[p] EXCEPT !.pc = IF @ = "pipe_wait" THEN "pipe_wait2" ELSE "exit"])
  /\ Quiet

exit(p) == At(p, "exit") /\ proc' = Exited(proc, p) /\ Quiet

-----------------------------------------------------------------------------
(* A program reads its standard input to the end, which for a pipe is when *)
(* nobody has the write end open, or stops reading early.                  *)
prog_eof(p) ==
  LET in == proc[p].fds[0]
  IN /\ At(p, "prog")
     /\ in[1] = "read" =>
          \A q \in Slots : \A d \in 0..NFD : proc[q].fds[d] # <<"write", in[2], in[3]>>
     /\ proc' = Exited(proc, p)
     /\ Quiet

prog_quits(p) == At(p, "prog") /\ proc' = Exited(proc, p) /\ Quiet

Step(p) ==
  \/ exec_sh(p) \/ main_fork(p) \/ main_wait(p) \/ panic(p)
  \/ execscript_open(p) \/ execscript_line(p) \/ execscript_wait(p)
  \/ runcmd_exec(p) \/ runcmd_redir(p) \/ runcmd_list(p) \/ runcmd_right(p)
  \/ runcmd_back(p) \/ runcmd_pipe(p) \/ pipe_fork_left(p) \/ pipe_fork_right(p)
  \/ pipe_left(p) \/ pipe_right(p) \/ pipe_close(p) \/ pipe_wait(p)
  \/ exit(p) \/ prog_eof(p)

ShNext ==
  \/ init_fork \/ init_wait \/ init_panic
  \/ \E p \in Slots : Step(p) \/ getcmd_line(p) \/ getcmd_eof(p) \/ prog_quits(p)

(* The kernel's scheduler runs every runnable process.  Nothing makes a    *)
(* user type, or a program stop before its input ends.                     *)
Fairness == WF_vars(init_fork \/ init_wait) /\ \A p \in Slots : WF_vars(Step(p))

ShSpec == ShInit /\ [][ShNext]_vars /\ Fairness

-----------------------------------------------------------------------------
(* The descriptors 0 and 1 that a command line means for the execcmd with  *)
(* these words, found by walking down the command.                         *)
RECURSIVE Wires(_, _, _, _, _)
Wires(p, c, argv, in, out) ==
  CASE c.type = "EXEC" -> IF c.argv = argv THEN {<<in, out>>} ELSE {}
    [] c.type = "REDIR" -> Wires(p, c.cmd, argv, IF c.fd = 0 THEN file(p, c) ELSE in,
                                                 IF c.fd = 1 THEN file(p, c) ELSE out)
    [] c.type = "PIPE" ->
         Wires(p, c.left, argv, in, Pipe("write", proc[p].line, c, proc[p].job))
         \cup Wires(p, c.right, argv, Pipe("read", proc[p].line, c, proc[p].job), out)
    [] c.type = "LIST" -> Wires(p, c.left, argv, in, out) \cup Wires(p, c.right, argv, in, out)
    [] OTHER -> Wires(p, c.cmd, argv, in, out)

(* Every program runs with exactly the standard input and output that its  *)
(* command line means, whatever nesting of pipes, lists, blocks and        *)
(* redirections led to it, and holds no further end of a pipe that would   *)
(* keep a reader from seeing the end of its input.  runcmd() relies on     *)
(* close() and dup() or open() picking the lowest free descriptor.         *)
Wired ==
  \A p \in Slots : At(p, "prog") =>
    LET fds == proc[p].fds
    IN /\ Wires(p, Command[proc[p].line].cmd, proc[p].cmd.argv, console, console)
            = {<<fds[0], fds[1]>>}
       /\ fds[2] = console
       /\ \A d \in 3..NFD : fds[d][1] \notin {"read", "write"}

(* When the shell prompts, every process of the lines typed before has     *)
(* exited and been waited for, but for those put in the background with &  *)
(* and those a failed fork cut off: the single wait(0) of main() is enough *)
(* because each level of runcmd() waits for what it forked.                *)
ForegroundDone ==
  \A sh \in Slots : At(sh, "prompt") =>
    \A q \in Slots \ {init, sh} :
      At(q, "unused") \/ proc[q].bg \/ proc[q].job \in broken

Prompting == \E sh \in Slots : At(sh, "prompt")

InitGone == At(init, "init_panic")

(* The shell always comes back to its prompt: no pipeline waits for an end *)
(* of input that some process of the pipeline itself keeps from coming,    *)
(* and init starts a new shell when one exits or cannot be executed. Only  *)
(* a fork() of init itself that fails ends this.                           *)
PromptReturns == []<>(Prompting \/ InitGone)

=============================================================================
