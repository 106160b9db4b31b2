----------------------------- MODULE VirtioDisk -----------------------------
(***************************************************************************)
(* The disk driver (kernel/virtio_disk.c) and the virtio device behind it. *)
(* Processes submit requests with virtio_disk_rw(), the device takes them  *)
(* from the avail ring, completes them in any order and interrupts, and    *)
(* virtio_disk_intr() works through the used ring while the device goes on *)
(* adding to it. A section under vdisk_lock that meets no device access is *)
(* one step. A request is named by the process that waits for it: its      *)
(* buffer is locked, so no one else submits it.                            *)
(***************************************************************************)
EXTENDS Integers, FiniteSetsExt

CONSTANTS Proc,
          NoProc,
          NUM,     \* descriptors, and entries of each ring
          UINT16   \* avail->idx, used->idx and used_idx are counted modulo this

Desc == 0 .. NUM - 1
None == -1

(* 8 divides 2^16, so idx % NUM survives the wrap; a ring always has room. *)
VirtioConstants ==
  /\ NUM \in Nat \ {0, 1, 2}
  /\ UINT16 \in Nat \ {0}
  /\ UINT16 % NUM = 0
  /\ NoProc \notin Proc

VARIABLES
  free,       \* the free descriptors
  next,       \* desc[].next, None where flags has no VRING_DESC_F_NEXT
  addr,       \* the buffer that a chain's data descriptor points to
  info,       \* disk.info[].b
  status,     \* disk.info[].status is 0
  avail_ring, avail_idx,
  used_ring, used_idx_dev,  \* used->ring, used->idx
  used_idx,   \* disk.used_idx
  busy,       \* the processes p with b->disk = 1
  head,       \* idx[0] of a waiting process
  pc,         \* "idle", or the sleep() a process is in or returns from
  asleep,
  intr,       \* virtio_disk_intr() runs, holding vdisk_lock
  seen,       \* device: how far it has read the avail ring
  inflight,   \* device: the chains it works on
  irq,        \* device: the interrupt line
  served      \* device: the buffers it is done with since they were submitted

driver == <<free, next, addr, info, avail_ring, avail_idx>>
procs == <<busy, head, pc, asleep>>
device == <<used_ring, used_idx_dev, seen, inflight, irq, served, status>>
vars == <<driver, procs, device, used_idx, intr>>

(* After virtio_disk_init(). *)
Init ==
  /\ free = Desc
  /\ next = [d \in Desc |-> None]
  /\ addr = [d \in Desc |-> NoProc]
  /\ info = [d \in Desc |-> NoProc]
  /\ status = Desc
  /\ avail_ring = [d \in Desc |-> None]
  /\ used_ring = [d \in Desc |-> None]
  /\ avail_idx = 0 /\ used_idx_dev = 0 /\ used_idx = 0 /\ seen = 0
  /\ busy = {}
  /\ head = [p \in Proc |-> None]
  /\ pc = [p \in Proc |-> "idle"]
  /\ asleep = {}
  /\ intr = FALSE
  /\ inflight = {}
  /\ irq = FALSE
  /\ served = {}

Inc(idx) == (idx + 1) % UINT16

-----------------------------------------------------------------------------
(* virtio_disk_rw() *)

(* The call, or the return from sleep(&disk.free[0]). *)
Allocating(p) ==
  /\ ~intr
  /\ pc[p] \in {"idle", "alloc"}
  /\ p \notin asleep

(* The processes asleep after wakeup(&disk.free[0]). *)
WakeAllocators == {p \in asleep : pc[p] # "alloc"}

(* alloc3_desc() takes the three lowest free descriptors; the request is   *)
(* put in the avail ring and the process sleeps until b->disk is 0.        *)
rw_submit(p) ==
  LET i0 == Min(free)
      i1 == Min(free \ {i0})
      i2 == Min(free \ {i0, i1})
  IN
  /\ Allocating(p)
  /\ Cardinality(free) >= 3
  /\ free' = free \ {i0, i1, i2}
  /\ next' = [next EXCEPT ![i0] = i1, ![i1] = i2,
                          ![i2] = None]
  /\ addr' = [addr EXCEPT ![i0] = p]
  /\ status' = status \ {i0}
  /\ info' = [info EXCEPT ![i0] = p]
  /\ avail_ring' = [avail_ring EXCEPT ![avail_idx % NUM] = i0]
  /\ avail_idx' = Inc(avail_idx)
  /\ busy' = busy \cup {p}
  /\ head' = [head EXCEPT ![p] = i0]
  /\ pc' = [pc EXCEPT ![p] = "wait"]
  /\ asleep' = asleep \cup {p}
  /\ UNCHANGED <<used_ring, used_idx_dev, seen, inflight, irq, served,
                 used_idx, intr>>

(* alloc3_desc() fails: free_desc() of what it got wakes the other waiting *)
(* processes, then this one sleeps.                                        *)
rw_full(p) ==
  /\ Allocating(p)
  /\ Cardinality(free) < 3
  /\ pc' = [pc EXCEPT ![p] = "alloc"]
  /\ asleep' = (IF free = {} THEN asleep ELSE WakeAllocators) \cup {p}
  /\ UNCHANGED <<driver, busy, head, device, used_idx, intr>>

(* The descriptors free_chain(d) frees. *)
Chain(d) == {d, next[d], next[next[d]]}

(* kill() makes a sleeping process runnable, whatever it waits for. *)
kill(p) ==
  /\ p \in asleep
  /\ asleep' = asleep \ {p}
  /\ UNCHANGED <<driver, busy, head, pc, device, used_idx, intr>>

MutWokenOnce(p) == p \in Proc

(* The condition to leave the loop: b->disk = 0. *)
Done(p) == p \notin busy

rw_sleep(p) ==
  /\ ~intr
  /\ pc[p] = "wait"
  /\ p \notin asleep
  /\ ~Done(p)
  /\ asleep' = asleep \cup {p}
  /\ UNCHANGED <<driver, busy, head, pc, device, used_idx, intr>>

(* Woken with b->disk = 0: free_chain(), whose free_desc() wakes processes *)
(* that wait for descriptors. used_ring and served are no longer read for  *)
(* this request.                                                           *)
rw_finish(p) ==
  /\ ~intr
  /\ pc[p] = "wait"
  /\ p \notin asleep
  /\ Done(p)
  /\ info' = [info EXCEPT ![head[p]] = NoProc]
  /\ free' = free \cup Chain(head[p])
  /\ next' = [d \in Desc |-> IF d \in Chain(head[p]) THEN None ELSE next[d]]
  /\ addr' = [addr EXCEPT ![head[p]] = NoProc]
  /\ asleep' = WakeAllocators
  /\ head' = [head EXCEPT ![p] = None]
  /\ pc' = [pc EXCEPT ![p] = "idle"]
  /\ served' = served \ {p}
  /\ UNCHANGED <<avail_ring, avail_idx, busy, used_ring, used_idx_dev, seen,
                 inflight, irq, status, used_idx, intr>>

-----------------------------------------------------------------------------
(* The device *)

(* It reads the next entry of the avail ring. *)
dev_take ==
  /\ seen # avail_idx
  /\ inflight' = inflight \cup {avail_ring[seen % NUM]}
  /\ avail_ring' = [avail_ring EXCEPT ![seen % NUM] = None]
  /\ seen' = Inc(seen)
  /\ UNCHANGED <<free, next, addr, info, avail_idx, procs, used_ring,
                 used_idx_dev, irq, served, status, used_idx, intr>>

(* It transfers the data of some chain, or fails to, writes the status,    *)
(* adds the chain to the used ring and interrupts.                         *)
dev_complete(d) ==
  /\ d \in inflight
  /\ inflight' = inflight \ {d}
  /\ served' = served \cup {addr[d]}
  /\ status' \in {status, status \cup {d}}
  /\ used_ring' = [used_ring EXCEPT ![used_idx_dev % NUM] = d]
  /\ used_idx_dev' = Inc(used_idx_dev)
  /\ irq' = TRUE
  /\ UNCHANGED <<driver, procs, seen, used_idx, intr>>

-----------------------------------------------------------------------------
(* virtio_disk_intr() *)

(* INTERRUPT_ACK comes before the used ring is read. *)
intr_enter ==
  /\ irq
  /\ ~intr
  /\ intr' = TRUE
  /\ irq' = FALSE
  /\ UNCHANGED <<driver, procs, used_ring, used_idx_dev, seen, inflight,
                 served, status, used_idx>>

(* used->ring[used_idx % NUM].id *)
UsedId == used_ring[used_idx % NUM]

(* One round of the loop. *)
intr_step ==
  LET id == UsedId IN
  /\ intr
  /\ used_idx # used_idx_dev
  /\ id \in status
  /\ busy' = busy \ {info[id]}
  /\ asleep' = asleep \ {info[id]}
  /\ used_ring' = [used_ring EXCEPT ![used_idx % NUM] = None]
  /\ used_idx' = Inc(used_idx)
  /\ UNCHANGED <<driver, head, pc, used_idx_dev, seen, inflight, irq, served,
                 status, intr>>

(* A transfer has failed: panic(), with vdisk_lock held. *)
Panicked == intr /\ used_idx # used_idx_dev /\ UsedId \notin status

intr_panic == Panicked /\ UNCHANGED vars

MutOneEntry ==
  /\ intr
  /\ intr' = FALSE
  /\ UNCHANGED <<driver, procs, device, used_idx>>

intr_exit ==
  /\ intr
  /\ used_idx = used_idx_dev
  /\ intr' = FALSE
  /\ UNCHANGED <<driver, procs, device, used_idx>>

-----------------------------------------------------------------------------
Next ==
  \/ \E p \in Proc : rw_submit(p) \/ rw_full(p) \/ rw_sleep(p) \/ rw_finish(p)
                  \/ kill(p)
  \/ dev_take
  \/ \E d \in Desc : dev_complete(d)
  \/ intr_enter \/ intr_step \/ intr_panic \/ intr_exit

Spec == Init /\ [][Next]_vars

(* The device finishes every request it takes and CPUs take its           *)
(* interrupts; a process that is awake gets vdisk_lock in the end.         *)
Fairness ==
  /\ WF_vars(dev_take) /\ \A d \in Desc : WF_vars(dev_complete(d))
  /\ WF_vars(intr_enter) /\ WF_vars(intr_step \/ intr_exit)
  /\ \A p \in Proc : SF_vars(rw_finish(p))

FairSpec == Spec /\ Fairness

-----------------------------------------------------------------------------
(* Properties *)

(* Every descriptor is either free or in the chain of exactly one waiting   *)
(* process; the device transfers to and from a buffer only while the        *)
(* process that submitted it waits with b->disk set; and virtio_disk_rw()   *)
(* does not return before its own transfer is done, and has succeeded,      *)
(* although completions arrive out of order, the indices wrap and kill()    *)
(* wakes any sleeper.                                                       *)
TransfersOwned ==
  LET waiting == {p \in Proc : pc[p] = "wait"}
      chain(p) == Chain(head[p])
      queued == {avail_ring[d] : d \in Desc} \ {None}
  IN /\ \A p \in waiting : Cardinality(chain(p)) = 3 /\ chain(p) \cap free = {}
     /\ \A p, q \in waiting : p # q => chain(p) \cap chain(q) = {}
     /\ free \cup UNION {chain(p) : p \in waiting} = Desc
     /\ \A d \in queued \cup inflight : addr[d] \in (busy \cap waiting) \ served
     /\ \A p \in waiting \ busy : p \in served /\ head[p] \in status

(* A request of p is completed, unless some transfer has failed: no         *)
(* completion is overlooked, even one that the device adds while the        *)
(* handler runs.                                                            *)
RequestsComplete(p) == pc[p] = "wait" ~> (pc[p] = "idle" \/ Panicked)
=============================================================================
