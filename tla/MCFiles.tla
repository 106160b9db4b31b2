------------------------------ MODULE MCFiles ------------------------------
(***************************************************************************)
(* What system calls on files reach, in one run: open files (module        *)
(* OpenFile), names and inodes (Inodes), and pipes (Pipe). A behaviour is  *)
(* one of the three, as part says, and the others stay in an initial       *)
(* state.                                                                  *)
(***************************************************************************)
EXTENDS OpenFile, MCRequests, TLC

CONSTANTS Inum, Root, None, Name, Requests, MaxLink,
          Readers, Byte, PIPESIZE, Counts, Victims

VARIABLES part,
          disk, itable, cwd, file, ipc, ret, path, new, ip, dp, puts, phase,
          data, nread, nwrite, readopen, writeopen, lock, ends, killed, chan, ppc, n, i

I == INSTANCE Inodes WITH pc <- ipc
P == INSTANCE Pipe WITH pc <- ppc, Writers <- Proc
ASSUME OpenFileConstants /\ I!InodesConstants /\ P!PipeConstants

inodevars == <<disk, itable, cwd, file, ipc, ret, path, new, ip, dp, puts, phase>>
pipevars == <<data, nread, nwrite, readopen, writeopen, lock, ends, killed, chan, ppc, n, i>>

Symmetry == Permutations(Proc) \cup Permutations(Inum \ {Root})

MCInit ==
  /\ part \in {"file", "inodes", "pipe"}
  /\ Init
  /\ I!Init
  /\ P!Init
  /\ part # "pipe" => data = [k \in 0 .. PIPESIZE - 1 |-> 0]

(* A pipe whose ends are all closed is done with. *)
Finished == ends = {} /\ UNCHANGED pipevars

MCNext ==
  \/ part = "file" /\ Next /\ UNCHANGED <<part, inodevars, pipevars>>
  \/ part = "inodes" /\ I!Next /\ UNCHANGED <<part, vars, pipevars>>
  \/ part = "pipe" /\ (P!Next \/ Finished) /\ UNCHANGED <<part, vars, inodevars>>

MCSpec == MCInit /\ [][MCNext]_<<part, vars, inodevars, pipevars>>

(* No panic of fs.c is reached by calls whose paths have no ".." (see       *)
(* Inodes).                                                                 *)
NoPanic == I!NoPanic

(* Links and references are counted right (see Inodes).                     *)
CountsExact == I!CountsExact

(* Processes never wait for each other's inodes in a circle (see Inodes).   *)
NoLockCycle == I!NoLockCycle

(* Nobody sleeps at a pipe that is ready (see Pipe).                        *)
NoneStranded == part = "pipe" => P!NoneStranded

(* The pipe is a bounded queue of bytes (see Pipe).                         *)
IsQueue == P!IsQueue
=============================================================================
