----------------------------- MODULE MCSleepers -----------------------------
(***************************************************************************)
(* Sleep locks (module SleepLock) and the disk driver (VirtioDisk) in one  *)
(* run: a behaviour is one of the first or one of the second, as part      *)
(* says, and the other stays in its initial state.                         *)
(***************************************************************************)
EXTENDS SleepLock, TLC

CONSTANTS NUM, UINT16

VARIABLES part, free, next, addr, info, status, avail_ring, avail_idx, used_ring,
          used_idx_dev, used_idx, busy, head, dpc, asleep, intr, seen, inflight,
          irq, served

V == INSTANCE VirtioDisk WITH Proc <- Procs, pc <- dpc
ASSUME SleepLockConstants /\ V!VirtioConstants

diskvars == <<free, next, addr, info, status, avail_ring, avail_idx, used_ring,
              used_idx_dev, used_idx, busy, head, dpc, asleep, intr, seen, inflight,
              irq, served>>
allvars == <<part, vars, diskvars>>

MCInit == part \in {"disk", "lock"} /\ Init /\ V!Init

Disk(A) == part = "disk" /\ A /\ UNCHANGED <<part, vars>>
Sleep(A) == part = "lock" /\ A /\ UNCHANGED <<part, diskvars>>

MCNext == Disk(V!Next) \/ Sleep(Next)

(* The fairness of each module, for the part that runs. As only one does,  *)
(* strong fairness of a step of each of them is fairness of their union.   *)
MCFairness ==
  /\ WF_allvars(Disk(V!dev_take))
  /\ \A d \in V!Desc : WF_allvars(Disk(V!dev_complete(d)))
  /\ WF_allvars(Disk(V!intr_enter)) /\ WF_allvars(Disk(V!intr_step \/ V!intr_exit))
  /\ \A c \in CPU : WF_allvars(Sleep(\E p \in Procs : scheduler_release(c, p)))
  /\ \A p \in Procs :
       SF_allvars(\/ Disk(V!rw_finish(p))
                  \/ Sleep(\E c \in CPU : scheduler_run(c, p) \/ Thread(c, p)))

MCSpec == MCInit /\ [][MCNext]_allvars /\ MCFairness

(* A transfer belongs to the process that waits for it (see VirtioDisk).    *)
TransfersOwned == V!TransfersOwned

(* Every request to the disk is completed (see VirtioDisk): of one process, *)
(* since the driver and the device do not tell processes apart.             *)
EveryRequestCompletes == V!RequestsComplete(1)
=============================================================================
