----------------------------- MODULE LogProofs ------------------------------
(***************************************************************************)
(* Proofs about the log, for every number of processes, of blocks and of   *)
(* block contents, and every log geometry.                                 *)
(***************************************************************************)
EXTENDS Log, FiniteSetTheorems, TLAPS

(* The process running commit(). *)
Committer(p) == pc[p] \in {"wlog", "install", "done"}

(* At most one process commits, and no call is in progress meanwhile. *)
CommitInv ==
  /\ \A p \in Proc : Committer(p) => committing
  /\ \A p, q \in Proc : Committer(p) /\ Committer(q) => p = q
  /\ committing => Active = {}
  /\ boot # "up" => ~committing /\ \A p \in Proc : pc[p] = "idle"

(* How the two copies of the header agree, phase by phase. *)
HeadInv ==
  /\ \A p \in Proc : pc[p] = "done" => lh = << >>
  /\ \A p \in Proc : pc[p] = "install" => dhead = lh
  /\ boot = "up" /\ ~Installing => dhead = << >>
  /\ boot = "install" => lh = dhead
  /\ \A p \in Proc : pc[p] \in {"wlog", "install"} => tail <= Len(lh)
  /\ boot = "install" => tail <= Len(lh)

(* A list of blocks that fits in the log and names each block once. *)
GoodList(h) ==
  /\ Len(h) <= NLOG - 1
  /\ Len(h) <= LOGSIZE
  /\ \A i, j \in 1 .. Len(h) : h[i] = h[j] => i = j

ListInv == GoodList(lh) /\ GoodList(dhead)

(* A process holds a modified buffer exactly between its change of the   *)
(* data and its log_write(), and no other process holds the same one.    *)
BufInv ==
  /\ \A p \in Proc : pc[p] = "write" <=> buf[p] # NoBlock
  /\ \A p, q \in Proc : buf[p] = buf[q] /\ buf[p] # NoBlock => p = q

CountInv == outstanding = Cardinality(Active)

WroteInv ==
  \A p \in Active :
    /\ wrote[p] \subseteq Entries(lh)
    /\ Cardinality(wrote[p]) <= OpBlocks
    /\ pc[p] = "write" => Cardinality(wrote[p] \cup {buf[p]}) <= OpBlocks

(* The log blocks still reserved for the calls in progress: MAXOPBLOCKS   *)
(* for each, less those it has used.                                      *)
Reserve == {t \in Active \X (1 .. MAXOPBLOCKS) : t[2] > Cardinality(wrote[t[1]])}

SpaceInv == Len(lh) + Cardinality(Reserve) <= LOGSIZE

IInv ==
  /\ TypeOK
  /\ CommitInv
  /\ HeadInv
  /\ ListInv
  /\ BufInv
  /\ CountInv
  /\ WroteInv
  /\ SpaceInv
  /\ PinsBalanced

-----------------------------------------------------------------------------
USE DEF disk, bufs, logv, procs

LEMMA InitIInv == Init => IInv
  <1> SUFFICES ASSUME Init PROVE IInv
    OBVIOUS
  <1> USE LogConstants DEF Init
  <1>1. TypeOK
    <2>1. pc \in [Proc -> PC] /\ boot \in {"read_head", "install", "up"}
      BY DEF PC
    <2>2. committing \in BOOLEAN /\ outstanding \in Nat /\ tail \in Nat
      BY Zenon
    <2>3. lh \in Seq(Block) /\ dhead \in Seq(Block)
      OBVIOUS
    <2>4. /\ cache \in [Block -> Val \cup {Absent}]
          /\ pin \in [Block -> Nat]
      OBVIOUS
    <2>5. /\ buf \in [Proc -> Block \cup {NoBlock}]
          /\ wrote \in [Proc -> SUBSET Block]
      OBVIOUS
    <2> QED
      BY <2>1, <2>2, <2>3, <2>4, <2>5 DEF TypeOK
  <1>2. Active = {}
    BY DEF Active
  <1>3. CommitInv /\ HeadInv /\ ListInv /\ BufInv /\ WroteInv /\ PinsBalanced
    BY <1>2 DEF CommitInv, Committer, HeadInv, ListInv, GoodList, BufInv, WroteInv,
                PinsBalanced, NotInstalled, Installing
  <1>4. CountInv
    BY <1>2, FS_EmptySet DEF CountInv
  <1>5. Reserve = {}
    BY <1>2 DEF Reserve
  <1>6. SpaceInv
    BY <1>5, FS_EmptySet DEF SpaceInv
  <1> QED
    BY <1>1, <1>3, <1>4, <1>6 DEF IInv

(* log.outstanding counts the calls in progress, so it is positive while   *)
(* one is.                                                                *)
LEMMA ActiveCounted ==
  ASSUME TypeOK, CountInv
  PROVE  /\ IsFiniteSet(Active)
         /\ \A p \in Active : outstanding >= 1
  <1>1. IsFiniteSet(Active)
    BY LogConstants, FS_Subset DEF Active
  <1>2. ASSUME NEW p \in Active PROVE outstanding >= 1
    BY <1>1, FS_EmptySet, FS_CardinalityType DEF CountInv
  <1> QED
    BY <1>1, <1>2

(* When the count is 1, the caller of end_op() is the only call left. *)
LEMMA LastCall ==
  ASSUME TypeOK, CountInv, outstanding = 1, NEW p \in Active
  PROVE  Active \ {p} = {}
  <1>1. Cardinality(Active) = 1 /\ IsFiniteSet(Active)
    BY ActiveCounted DEF CountInv
  <1>2. PICK x : Active = {x}
    BY <1>1, FS_Singleton
  <1> QED
    BY <1>2

(* Installing a block writes block contents to a block. *)
LEMMA InstallType ==
  ASSUME TypeOK, ListInv, tail < Len(lh),
         home' = [home EXCEPT ![lh[tail + 1]] = dlog[tail + 1]],
         cache' = [cache EXCEPT ![lh[tail + 1]] = dlog[tail + 1]],
         tail' = tail + 1
  PROVE  /\ home' \in [Block -> Val]
         /\ cache' \in [Block -> Val \cup {Absent}]
         /\ tail' \in Nat
  <1>1. tail + 1 \in Slots /\ dlog[tail + 1] \in Val
    BY LogConstants DEF ListInv, GoodList, Slots, TypeOK
  <1> QED
    BY <1>1 DEF TypeOK

(* Every step keeps the types; the subtractions in end_op() and in bunpin() *)
(* stay natural because the counters are exact.                             *)
LEMMA TypeStep == IInv /\ [Next]_vars => TypeOK'
  <1> SUFFICES ASSUME IInv, [Next]_vars PROVE TypeOK'
    OBVIOUS
  <1> USE LogConstants DEF IInv, TypeOK
  <1>1. ASSUME NEW b \in Block, bread(b) \/ bget_recycle(b) PROVE TypeOK'
    BY Zenon, <1>1 DEF bread, bget_recycle
  <1>2. ASSUME NEW p \in Proc, begin_op(p) PROVE TypeOK'
    <2>1. pc' \in [Proc -> PC]
      BY Zenon, <1>2 DEF begin_op, PC
    <2>2. outstanding' \in Nat /\ wrote' \in [Proc -> SUBSET Block]
      <3>1. CASE Blocked
        BY <1>2, <3>1 DEF begin_op
      <3>2. CASE ~Blocked
        <4>1. outstanding' = outstanding + 1 /\ wrote' = [wrote EXCEPT ![p] = {}]
          BY SMTT(40), <1>2, <3>2 DEF begin_op
        <4> QED
          BY <4>1
      <3> QED
        BY <3>1, <3>2
    <2> QED
      BY <1>2, <2>1, <2>2 DEF begin_op
  <1>3. ASSUME NEW p \in Proc, NEW b \in Block, NEW v \in Val, modify(p, b, v)
        PROVE TypeOK'
    BY <1>3 DEF modify, PC
  <1>4. ASSUME NEW p \in Proc, log_write(p) PROVE TypeOK'
    <2>1. buf[p] \in Block
      BY <1>4 DEF log_write, BufInv
    <2>2. lh' \in Seq(Block) /\ pin' \in [Block -> Nat]
      <3>1. CASE Logged(buf[p])
        BY <1>4, <3>1 DEF log_write
      <3>2. CASE ~Logged(buf[p])
        <4>1. /\ lh' = Append(lh, buf[p])
              /\ pin' = [pin EXCEPT ![buf[p]] = @ + 1]
          BY <1>4, <3>2 DEF log_write
        <4> QED
          BY <2>1, <4>1
      <3> QED
        BY <3>1, <3>2
    <2>3. /\ pc' \in [Proc -> PC]
          /\ buf' \in [Proc -> Block \cup {NoBlock}]
          /\ wrote' \in [Proc -> SUBSET Block]
      BY <1>4, <2>1 DEF log_write, PC
    <2> QED
      BY <1>4, <2>2, <2>3 DEF log_write
  <1>5. ASSUME NEW p \in Proc, end_op(p) PROVE TypeOK'
    <2>1. outstanding' \in Nat
      BY <1>5, ActiveCounted DEF end_op, Active
    <2>2. pc' \in [Proc -> PC]
      BY ZenonT(30), <1>5 DEF end_op, PC, Wakeup
    <2>3. committing' \in BOOLEAN /\ tail' \in Nat
      <3>1. CASE outstanding = 1
        BY <1>5, <3>1 DEF end_op
      <3>2. CASE outstanding # 1
        BY <1>5, <3>2 DEF end_op
      <3> QED
        BY <3>1, <3>2
    <2> QED
      BY <1>5, <2>1, <2>2, <2>3 DEF end_op
  <1>6. ASSUME NEW p \in Proc, write_log(p) PROVE TypeOK'
    <2>1. lh[tail + 1] \in Block
      BY <1>6 DEF write_log
    <2>2. Contents(lh[tail + 1]) \in Val
      BY <2>1 DEF Contents
    <2>3. dlog' \in [Slots -> Val] /\ cache' \in [Block -> Val \cup {Absent}]
      BY Zenon, <1>6, <2>1, <2>2 DEF write_log
    <2> QED
      BY <1>6, <2>3 DEF write_log
  <1>7. ASSUME NEW p \in Proc, write_head(p) PROVE TypeOK'
    BY <1>7 DEF write_head, PC
  <1>8. ASSUME NEW p \in Proc, install_trans(p) PROVE TypeOK'
    <2>1. lh[tail + 1] \in NotInstalled
      <3>1. boot = "up" /\ Installing
        BY <1>8 DEF install_trans, Installing, CommitInv
      <3>2. tail + 1 \in (tail + 1) .. Len(lh)
        BY <1>8 DEF install_trans, InstallBlock
      <3>3. NotInstalled = {lh[i] : i \in (tail + 1) .. Len(lh)}
        BY <3>1 DEF NotInstalled
      <3> QED
        BY <3>2, <3>3
    <2>2. pin' \in [Block -> Nat]
      BY <1>8, <2>1 DEF install_trans, InstallBlock, Unpinned, PinsBalanced
    <2> QED
      BY Zenon, <1>8, <2>2, InstallType DEF install_trans, InstallBlock
  <1>9. ASSUME NEW p \in Proc, erase(p) PROVE TypeOK'
    BY <1>9 DEF erase, PC
  <1>10. ASSUME NEW p \in Proc, end_commit(p) PROVE TypeOK'
    BY Zenon, <1>10 DEF end_commit, PC, Wakeup
  <1>11. CASE read_head
    BY <1>11 DEF read_head
  <1>12. CASE recover_install
    <2>1. pin' \in [Block -> Nat]
      BY <1>12 DEF recover_install, InstallBlock, Unpinned
    <2> QED
      BY Zenon, <1>12, <2>1, InstallType DEF recover_install, InstallBlock
  <1>13. CASE recover_erase
    BY <1>13 DEF recover_erase
  <1>14. CASE Crash
    <2>1. home' \in [Block -> Val] /\ dlog' \in [Slots -> Val]
      <3>1. CASE UNCHANGED <<home, dlog>>
        BY <3>1
      <3>2. ASSUME NEW v \in Val, dlog' = [dlog EXCEPT ![tail + 1] = v],
                   UNCHANGED home
            PROVE home' \in [Block -> Val] /\ dlog' \in [Slots -> Val]
        BY Zenon, <3>2
      <3>3. ASSUME NEW v \in Val, home' = [home EXCEPT ![lh[tail + 1]] = v],
                   UNCHANGED dlog
            PROVE home' \in [Block -> Val] /\ dlog' \in [Slots -> Val]
        BY Zenon, <3>3
      <3> QED
        BY ZenonT(40), <1>14, <3>1, <3>2, <3>3 DEF Crash
    <2>2. /\ pc' \in [Proc -> PC]
          /\ buf' \in [Proc -> Block \cup {NoBlock}]
          /\ wrote' \in [Proc -> SUBSET Block]
      BY <1>14 DEF Crash, PC
    <2>3. /\ cache' \in [Block -> Val \cup {Absent}]
          /\ pin' \in [Block -> Nat]
      BY <1>14 DEF Crash
    <2>4. /\ lh' \in Seq(Block) /\ dhead' \in Seq(Block)
          /\ outstanding' \in Nat /\ tail' \in Nat
      BY <1>14 DEF Crash
    <2>5. committing' \in BOOLEAN /\ boot' \in {"read_head", "install", "up"}
      BY Zenon, <1>14 DEF Crash
    <2> QED
      BY <2>1, <2>2, <2>3, <2>4, <2>5
  <1>15. CASE UNCHANGED vars
    BY <1>15 DEF vars
  <1> QED
    BY ZenonT(30), <1>1, <1>2, <1>3, <1>4, <1>5, <1>6, <1>7, <1>8, <1>9, <1>10, <1>11,
       <1>12, <1>13, <1>14, <1>15 DEF Next, commit

(* Which calls are in progress after each step. *)
LEMMA ActiveStep ==
  ASSUME TypeOK
  PROVE  /\ \A p \in Proc : begin_op(p) =>
              /\ p \notin Active
              /\ Active' = IF Blocked THEN Active ELSE Active \cup {p}
         /\ \A p \in Proc : end_op(p) => p \in Active /\ Active' = Active \ {p}
         /\ \A p \in Proc, b \in Block, v \in Val :
              modify(p, b, v) => p \in Active /\ Active' = Active
         /\ \A p \in Proc : log_write(p) => p \in Active /\ Active' = Active
         /\ \A p \in Proc : commit(p) => Active' = Active
         /\ Crash => Active' = {}
         /\ UNCHANGED pc => Active' = Active
  <1> USE DEF TypeOK, Active, PC
  <1>1. ASSUME NEW p \in Proc, begin_op(p)
        PROVE  /\ p \notin Active
               /\ Active' = IF Blocked THEN Active ELSE Active \cup {p}
    <2>1. CASE Blocked
      BY <1>1, <2>1 DEF begin_op
    <2>2. CASE ~Blocked
      BY <1>1, <2>2 DEF begin_op
    <2> QED
      BY <2>1, <2>2
  <1>2. ASSUME NEW p \in Proc, end_op(p)
        PROVE  p \in Active /\ Active' = Active \ {p}
    <2>1. pc[p] = "op"
      BY <1>2 DEF end_op
    <2>2. CASE outstanding = 1
      BY <1>2, <2>1, <2>2 DEF end_op
    <2>3. CASE outstanding # 1
      BY <1>2, <2>1, <2>3 DEF end_op, Wakeup
    <2> QED
      BY <2>2, <2>3
  <1>3. ASSUME NEW p \in Proc, NEW b \in Block, NEW v \in Val, modify(p, b, v)
        PROVE  p \in Active /\ Active' = Active
    BY <1>3 DEF modify
  <1>4. ASSUME NEW p \in Proc, log_write(p)
        PROVE  p \in Active /\ Active' = Active
    BY <1>4 DEF log_write
  <1>5. ASSUME NEW p \in Proc, commit(p) PROVE Active' = Active
    <2>1. CASE write_log(p)
      BY <2>1 DEF write_log
    <2>2. CASE write_head(p)
      BY <2>2 DEF write_head
    <2>3. CASE install_trans(p)
      BY <2>3 DEF install_trans, InstallBlock
    <2>4. CASE erase(p)
      BY <2>4 DEF erase
    <2>5. CASE end_commit(p)
      BY <2>5 DEF end_commit, Wakeup
    <2> QED
      BY <1>5, <2>1, <2>2, <2>3, <2>4, <2>5 DEF commit
  <1>6. Crash => Active' = {}
    BY DEF Crash
  <1>7. UNCHANGED pc => Active' = Active
    OBVIOUS
  <1> QED
    BY <1>1, <1>2, <1>3, <1>4, <1>5, <1>6, <1>7

(* The steps that leave the process states alone. *)
Quiet == \/ \E b \in Block : bread(b) \/ bget_recycle(b)
         \/ UNCHANGED vars

(* A commit starts only when the last call ends, and begin_op() lets no     *)
(* call in until it is over.                                                *)
LEMMA CommitStep == IInv /\ [Next]_vars => CommitInv'
  <1> SUFFICES ASSUME IInv, [Next]_vars PROVE CommitInv'
    OBVIOUS
  <1> USE LogConstants DEF IInv, TypeOK, CommitInv, Committer, Active, PC
  <1>1. CASE Quiet
    BY SMTT(40), <1>1 DEF Quiet, bread, bget_recycle, vars
  <1>2. ASSUME NEW p \in Proc, begin_op(p) PROVE CommitInv'
    <2>1. CASE Blocked
      <3>1. Active' = Active
        BY SMTT(40), <1>2, <2>1, ActiveStep
      <3>2. \A q \in Proc : Committer(q)' => Committer(q)
        BY <1>2, <2>1 DEF begin_op
      <3>3. boot = "up" /\ UNCHANGED <<boot, committing>>
        BY <1>2 DEF begin_op
      <3> HIDE DEF Active, Committer
      <3> QED
        BY SMTT(40), <3>1, <3>2, <3>3
    <2>2. CASE ~Blocked
      BY <1>2, <2>2 DEF begin_op, Blocked
    <2> QED
      BY SMTT(40), <2>1, <2>2
  <1>3. ASSUME NEW p \in Proc, NEW b \in Block, NEW v \in Val, modify(p, b, v)
        PROVE CommitInv'
    BY <1>3 DEF modify
  <1>4. ASSUME NEW p \in Proc, log_write(p) PROVE CommitInv'
    BY <1>4 DEF log_write
  <1>5. ASSUME NEW p \in Proc, end_op(p) PROVE CommitInv'
    <2>1. CASE outstanding = 1
      <3>1. Active' = {}
        BY ZenonT(60), <1>5, <2>1, ActiveCounted, ActiveStep, LastCall
      <3>2. \A q \in Proc : q # p => ~Committer(q)
        BY Zenon, <1>5 DEF end_op
      <3> QED
        BY ZenonT(120), <1>5, <2>1, <3>1, <3>2 DEF end_op
    <2>2. CASE outstanding # 1
      <3>1. \A q \in Proc : ~Committer(q)'
        BY ZenonT(40), <1>5, <2>2 DEF end_op, Wakeup
      <3>2. ~committing' /\ UNCHANGED boot /\ boot = "up"
        BY SMTT(40), <1>5, <2>2 DEF end_op
      <3> HIDE DEF Active, Committer
      <3> QED
        BY ZenonT(60), <3>1, <3>2
    <2> QED
      BY <2>1, <2>2
  <1>6. ASSUME NEW p \in Proc, write_log(p) PROVE CommitInv'
    BY <1>6 DEF write_log
  <1>7. ASSUME NEW p \in Proc, write_head(p) PROVE CommitInv'
    BY <1>7 DEF write_head
  <1>8. ASSUME NEW p \in Proc, install_trans(p) PROVE CommitInv'
    BY <1>8 DEF install_trans, InstallBlock
  <1>9. ASSUME NEW p \in Proc, erase(p) PROVE CommitInv'
    BY <1>9 DEF erase
  <1>10. ASSUME NEW p \in Proc, end_commit(p) PROVE CommitInv'
    BY <1>10 DEF end_commit, Wakeup
  <1>11. CASE read_head
    BY <1>11 DEF read_head
  <1>12. CASE recover_install
    BY <1>12 DEF recover_install, InstallBlock
  <1>13. CASE recover_erase
    BY SMTT(40), <1>13 DEF recover_erase
  <1>14. CASE Crash
    BY <1>14 DEF Crash
  <1> QED
    BY ZenonT(30), <1>1, <1>2, <1>3, <1>4, <1>5, <1>6, <1>7, <1>8, <1>9, <1>10, <1>11,
       <1>12, <1>13, <1>14 DEF Next, commit, Quiet

(* The header on disk is the list in memory from write_head() until the log *)
(* is erased, and is empty otherwise.                                       *)
LEMMA HeadStep == IInv /\ [Next]_vars => HeadInv'
  <1> SUFFICES ASSUME IInv, [Next]_vars PROVE HeadInv'
    OBVIOUS
  <1> USE LogConstants DEF IInv, TypeOK, HeadInv, CommitInv, Committer,
                           Installing, PC
  <1>1. CASE Quiet
    BY SMTT(40), <1>1 DEF Quiet, bread, bget_recycle, vars
  <1>2. ASSUME NEW p \in Proc, begin_op(p) PROVE HeadInv'
    BY SMTT(40), <1>2 DEF begin_op
  <1>3. ASSUME NEW p \in Proc, NEW b \in Block, NEW v \in Val, modify(p, b, v)
        PROVE HeadInv'
    BY SMTT(40), <1>3 DEF modify
  <1>4. ASSUME NEW p \in Proc, log_write(p) PROVE HeadInv'
    BY SMTT(40), <1>4 DEF log_write, Active
  <1>5. ASSUME NEW p \in Proc, end_op(p) PROVE HeadInv'
    <2>1. CASE outstanding = 1
      BY SMTT(40), <1>5, <2>1 DEF end_op
    <2>2. CASE outstanding # 1
      <3>1. UNCHANGED <<lh, dhead, boot, tail>>
        BY SMTT(40), <1>5, <2>2 DEF end_op
      <3>2. pc' = Wakeup([pc EXCEPT ![p] = "idle"])
        BY SMTT(40), <1>5, <2>2 DEF end_op
      <3>3. \A q \in Proc : /\ pc'[q] \in {"done", "install", "wlog"} => pc'[q] = pc[q]
                            /\ pc[q] = "install" => pc'[q] = "install"
        BY SMTT(40), <1>5, <3>2 DEF end_op, Wakeup
      <3> QED
        BY SMTT(40), <3>1, <3>3
    <2> QED
      BY SMTT(40), <2>1, <2>2
  <1>6. ASSUME NEW p \in Proc, write_log(p) PROVE HeadInv'
    BY <1>6 DEF write_log
  <1>7. ASSUME NEW p \in Proc, write_head(p) PROVE HeadInv'
    BY SMTT(40), <1>7 DEF write_head
  <1>8. ASSUME NEW p \in Proc, install_trans(p) PROVE HeadInv'
    BY <1>8 DEF install_trans, InstallBlock
  <1>9. ASSUME NEW p \in Proc, erase(p) PROVE HeadInv'
    BY <1>9 DEF erase
  <1>10. ASSUME NEW p \in Proc, end_commit(p) PROVE HeadInv'
    BY <1>10 DEF end_commit, Wakeup
  <1>11. CASE read_head
    BY SMTT(40), <1>11 DEF read_head
  <1>12. CASE recover_install
    BY <1>12 DEF recover_install, InstallBlock
  <1>13. CASE recover_erase
    BY SMTT(40), <1>13 DEF recover_erase
  <1>14. CASE Crash
    BY <1>14 DEF Crash
  <1> QED
    BY ZenonT(30), <1>1, <1>2, <1>3, <1>4, <1>5, <1>6, <1>7, <1>8, <1>9, <1>10, <1>11,
       <1>12, <1>13, <1>14 DEF Next, commit, Quiet

(* What appending a block to the list does to its length and its entries. *)
LEMMA LogAppend ==
  ASSUME NEW h \in Seq(Block), NEW b \in Block
  PROVE  LET g == Append(h, b) IN
         /\ Len(g) = Len(h) + 1
         /\ g[Len(h) + 1] = b
         /\ \A i \in 1 .. Len(h) : g[i] = h[i]
         /\ Entries(g) = Entries(h) \cup {b}
  <1> DEFINE g == Append(h, b)
  <1>1. /\ Len(g) = Len(h) + 1
        /\ g[Len(h) + 1] = b
        /\ \A i \in 1 .. Len(h) : g[i] = h[i]
    OBVIOUS
  <1> HIDE DEF g
  <1>2. Entries(g) = Entries(h) \cup {b}
    BY <1>1 DEF Entries
  <1> QED
    BY <1>1, <1>2 DEF g

(* log_write() adds a block only if it is new and there is room for it. *)
LEMMA ListStep == IInv /\ [Next]_vars => ListInv'
  <1> SUFFICES ASSUME IInv, [Next]_vars PROVE ListInv'
    OBVIOUS
  <1> USE LogConstants DEF IInv, ListInv
  <1>1. CASE UNCHANGED <<lh, dhead>>
    BY <1>1 DEF GoodList
  <1>2. ASSUME NEW p \in Proc, log_write(p) PROVE ListInv'
    <2>1. UNCHANGED dhead
      BY <1>2 DEF log_write
    <2>2. CASE Logged(buf[p])
      BY <1>1, <1>2, <2>1, <2>2 DEF log_write
    <2>3. CASE ~Logged(buf[p])
      <3>1. buf[p] \in Block /\ lh' = Append(lh, buf[p])
        BY <1>2, <2>3 DEF log_write, BufInv, TypeOK
      <3>2. /\ Len(lh') = Len(lh) + 1
            /\ lh'[Len(lh) + 1] = buf[p]
            /\ \A i \in 1 .. Len(lh) : lh'[i] = lh[i]
        BY SMTT(40), <3>1, LogAppend DEF TypeOK
      <3>3. Len(lh) < LOGSIZE /\ Len(lh) < NLOG - 1 /\ Len(lh) \in Nat
        BY <1>2 DEF log_write, TooBig, TypeOK
      <3>4. \A i \in 1 .. Len(lh) : lh[i] # buf[p]
        BY <2>3 DEF Logged, Entries
      <3>5. GoodList(lh')
        BY SMTT(40), <3>2, <3>3, <3>4 DEF GoodList
      <3> QED
        BY <2>1, <3>5 DEF GoodList
    <2> QED
      BY SMTT(40), <2>2, <2>3
  <1>3. GoodList(<< >>)
    BY DEF GoodList
  <1>4. ASSUME NEW p \in Proc, write_head(p) PROVE ListInv'
    BY <1>4 DEF write_head, GoodList
  <1>5. ASSUME NEW p \in Proc, erase(p) PROVE ListInv'
    BY <1>3, <1>5 DEF erase
  <1>6. CASE read_head
    BY <1>6 DEF read_head, GoodList
  <1>7. CASE recover_erase
    BY ZenonT(60), <1>3, <1>7 DEF recover_erase
  <1>8. CASE Crash
    BY <1>3, <1>8 DEF Crash, GoodList
  <1> QED
    BY ZenonT(30), <1>1, <1>2, <1>4, <1>5, <1>6, <1>7, <1>8
    DEF Next, commit, bread, bget_recycle, begin_op, modify, end_op, write_log,
        install_trans, end_commit, recover_install, InstallBlock, vars

(* Buffers are locked by one process at a time. *)
LEMMA BufStep == IInv /\ [Next]_vars => BufInv'
  <1> SUFFICES ASSUME IInv, [Next]_vars PROVE BufInv'
    OBVIOUS
  <1> USE LogConstants DEF IInv, TypeOK, BufInv, PC
  <1>1. CASE UNCHANGED <<pc, buf>>
    BY <1>1
  <1>2. ASSUME NEW p \in Proc, begin_op(p) PROVE BufInv'
    BY <1>2 DEF begin_op
  <1>3. ASSUME NEW p \in Proc, NEW b \in Block, NEW v \in Val, modify(p, b, v)
        PROVE BufInv'
    BY ZenonT(60), <1>3 DEF modify
  <1>4. ASSUME NEW p \in Proc, log_write(p) PROVE BufInv'
    BY ZenonT(60), <1>4 DEF log_write
  <1>5. ASSUME NEW p \in Proc, end_op(p) PROVE BufInv'
    <2>1. UNCHANGED buf
      BY ZenonT(60), <1>5 DEF end_op
    <2>2. \A q \in Proc : pc'[q] = "write" <=> pc[q] = "write"
      <3>1. CASE outstanding = 1
        BY ZenonT(60), <1>5, <3>1 DEF end_op
      <3>2. CASE outstanding # 1
        <4>1. pc' = Wakeup([pc EXCEPT ![p] = "idle"])
          BY ZenonT(60), <1>5, <3>2 DEF end_op
        <4> QED
          BY SMTT(40), <1>5, <4>1 DEF end_op, Wakeup
      <3> QED
        BY ZenonT(60), <3>1, <3>2
    <2> QED
      BY ZenonT(60), <2>1, <2>2
  <1>6. ASSUME NEW p \in Proc, write_head(p) \/ erase(p) PROVE BufInv'
    BY ZenonT(60), <1>6 DEF write_head, erase
  <1>7. ASSUME NEW p \in Proc, end_commit(p) PROVE BufInv'
    BY ZenonT(60), <1>7 DEF end_commit, Wakeup
  <1>8. CASE Crash
    BY ZenonT(60), <1>8 DEF Crash
  <1> QED
    BY ZenonT(30), <1>1, <1>2, <1>3, <1>4, <1>5, <1>6, <1>7, <1>8
    DEF Next, commit, bread, bget_recycle, write_log, install_trans, read_head,
        recover_install, recover_erase, InstallBlock, vars

(* log.outstanding stays the number of calls in progress. *)
LEMMA CountStep == IInv /\ [Next]_vars => CountInv'
  <1> SUFFICES ASSUME IInv, [Next]_vars PROVE CountInv'
    OBVIOUS
  <1> USE DEF IInv, CountInv
  <1>0. IsFiniteSet(Active) /\ outstanding \in Nat
    BY ActiveCounted DEF TypeOK
  <1>1. CASE Active' = Active /\ UNCHANGED outstanding
    BY <1>1
  <1>2. ASSUME NEW p \in Proc, begin_op(p) PROVE CountInv'
    <2>1. CASE Blocked
      BY ZenonT(60), <1>1, <1>2, <2>1, ActiveStep DEF begin_op
    <2>2. CASE ~Blocked
      <3>1. outstanding' = outstanding + 1
        BY <1>2, <2>2 DEF begin_op
      <3>2. p \notin Active /\ Active' = Active \cup {p}
        BY <1>2, <2>2, ActiveStep
      <3> QED
        BY <1>0, <3>1, <3>2, FS_AddElement
    <2> QED
      BY <2>1, <2>2
  <1>3. ASSUME NEW p \in Proc, end_op(p) PROVE CountInv'
    <2>1. outstanding' = outstanding - 1
      BY <1>3 DEF end_op
    <2>2. p \in Active /\ Active' = Active \ {p}
      BY <1>3, ActiveStep
    <2> QED
      BY <1>0, <2>1, <2>2, FS_RemoveElement
  <1>4. CASE Crash
    BY ZenonT(40), <1>4, ActiveStep, FS_EmptySet DEF Crash
  <1>5. ASSUME NEW p \in Proc, commit(p) PROVE CountInv'
    <2>1. UNCHANGED outstanding
      BY Zenon, <1>5 DEF commit, write_log, write_head, install_trans, InstallBlock,
                  erase, end_commit
    <2> QED
      BY <1>1, <1>5, <2>1, ActiveStep
  <1>6. ASSUME NEW p \in Proc, NEW b \in Block, NEW v \in Val, modify(p, b, v)
        PROVE CountInv'
    <2>1. UNCHANGED outstanding
      BY <1>6 DEF modify
    <2> QED
      BY SMTT(40), <1>1, <1>6, <2>1, ActiveStep
  <1>7. CASE UNCHANGED <<pc, outstanding>>
    BY SMTT(40), <1>1, <1>7, ActiveStep
  <1>8. ASSUME NEW p \in Proc, log_write(p) PROVE CountInv'
    <2>1. UNCHANGED outstanding
      BY SMTT(40), <1>8 DEF log_write
    <2> QED
      BY <1>1, <1>8, <2>1, ActiveStep
  <1> QED
    BY ZenonT(30), <1>2, <1>3, <1>4, <1>5, <1>6, <1>7, <1>8
    DEF Next, bread, bget_recycle, read_head, recover_install, recover_erase,
        InstallBlock, vars

LEMMA WroteFinite ==
  ASSUME TypeOK, NEW p \in Proc
  PROVE  IsFiniteSet(wrote[p]) /\ Cardinality(wrote[p]) \in Nat
  BY LogConstants, FS_Subset, FS_CardinalityType DEF TypeOK

(* What a call has logged is in the list, and is no more than it may log. *)
LEMMA WroteStep == IInv /\ [Next]_vars => WroteInv'
  <1> SUFFICES ASSUME IInv, [Next]_vars PROVE WroteInv'
    OBVIOUS
  <1> USE LogConstants DEF IInv
  <1>1. CASE UNCHANGED <<pc, lh, wrote, buf>>
    BY Zenon, <1>1 DEF WroteInv, Active
  <1>2. ASSUME NEW p \in Proc, begin_op(p) PROVE WroteInv'
    <2>1. CASE Blocked
      <3>1. \A q \in Active : pc'[q] = pc[q]
        BY ZenonT(60), <1>2, <2>1, ActiveStep DEF begin_op, Active, TypeOK
      <3> QED
        BY ZenonT(30), <1>2, <2>1, <3>1, ActiveStep DEF begin_op, WroteInv
    <2>2. CASE ~Blocked
      <3>1. wrote'[p] = {} /\ pc'[p] = "op"
        BY <1>2, <2>2 DEF begin_op, TypeOK
      <3>2. \A q \in Active : pc'[q] = pc[q] /\ wrote'[q] = wrote[q]
        <4>1. p \notin Active
          BY <1>2, ActiveStep
        <4>2. /\ pc' = [pc EXCEPT ![p] = "op"]
              /\ wrote' = [wrote EXCEPT ![p] = {}]
          BY SMTT(40), <1>2, <2>2 DEF begin_op
        <4> QED
          BY <4>1, <4>2 DEF Active, TypeOK
      <3>3. UNCHANGED <<lh, buf>> /\ Active' = Active \cup {p}
        BY <1>2, <2>2, ActiveStep DEF begin_op
      <3>4. \A q \in Active : /\ wrote'[q] \subseteq Entries(lh)'
                              /\ Cardinality(wrote'[q]) <= OpBlocks
                              /\ pc'[q] = "write" =>
                                   Cardinality(wrote'[q] \cup {buf'[q]}) <= OpBlocks
        BY ZenonT(30), <3>2, <3>3 DEF WroteInv, Entries
      <3>5. wrote'[p] \subseteq Entries(lh)' /\ Cardinality(wrote'[p]) <= OpBlocks
        BY <3>1, FS_EmptySet
      <3> QED
        BY ZenonT(30), <3>1, <3>3, <3>4, <3>5 DEF WroteInv
    <2> QED
      BY <2>1, <2>2
  <1>3. ASSUME NEW p \in Proc, NEW b \in Block, NEW v \in Val, modify(p, b, v)
        PROVE WroteInv'
    <2>1. \A q \in Active : q # p => pc'[q] = pc[q] /\ buf'[q] = buf[q]
      BY <1>3 DEF modify, Active, TypeOK
    <2>2. buf'[p] = b /\ UNCHANGED <<lh, wrote>> /\ Active' = Active
      BY ZenonT(40), <1>3, ActiveStep DEF modify, TypeOK
    <2>3. Cardinality(wrote[p] \cup {b}) <= OpBlocks
      BY <1>3 DEF modify
    <2> QED
      BY ZenonT(30), <2>1, <2>2, <2>3 DEF WroteInv
  <1>4. ASSUME NEW p \in Proc, log_write(p) PROVE WroteInv'
    <2>1. /\ pc[p] = "write" /\ pc'[p] = "op" /\ p \in Active /\ Active' = Active
          /\ wrote'[p] = wrote[p] \cup {buf[p]}
      BY ZenonT(30), <1>4, ActiveStep DEF log_write, TypeOK
    <2>2. \A q \in Active : q # p => /\ pc'[q] = pc[q] /\ buf'[q] = buf[q]
                                     /\ wrote'[q] = wrote[q]
      BY <1>4 DEF log_write, Active, TypeOK
    <2>3. Entries(lh)' = Entries(lh) \cup {buf[p]}
      <3>1. CASE Logged(buf[p])
        BY <1>4, <3>1 DEF log_write, Logged
      <3>2. CASE ~Logged(buf[p])
        <4>1. buf[p] \in Block /\ lh' = Append(lh, buf[p]) /\ lh \in Seq(Block)
          BY ZenonT(40), <1>4, <3>2 DEF log_write, BufInv, TypeOK
        <4>2. Entries(Append(lh, buf[p])) = Entries(lh) \cup {buf[p]}
          BY SMTT(40), <4>1, LogAppend
        <4> QED
          BY <4>1, <4>2
      <3> QED
        BY SMTT(40), <3>1, <3>2
    <2> QED
      BY Zenon, <2>1, <2>2, <2>3 DEF WroteInv
  <1>5. ASSUME NEW p \in Proc, end_op(p) PROVE WroteInv'
    <2>1. \A q \in Active \ {p} : pc'[q] = pc[q]
      BY <1>5 DEF end_op, Wakeup, Active, TypeOK
    <2>2. Active' = Active \ {p} /\ UNCHANGED <<lh, wrote, buf>>
      BY Zenon, <1>5, ActiveStep DEF end_op
    <2> QED
      BY SMTT(40), <2>1, <2>2 DEF WroteInv
  <1>6. ASSUME NEW p \in Proc, commit(p) PROVE WroteInv'
    <2>1. Committer(p)
      BY ZenonT(40), <1>6 DEF commit, write_log, write_head, install_trans, erase,
                  end_commit, Committer
    <2>2. Active' = {}
      BY <1>6, <2>1, ActiveStep DEF CommitInv
    <2> QED
      BY Zenon, <2>2 DEF WroteInv
  <1>7. CASE boot # "up" /\ UNCHANGED pc
    <2>1. Active' = {}
      BY <1>7 DEF CommitInv, Active
    <2> QED
      BY Zenon, <2>1 DEF WroteInv
  <1>8. CASE Crash
    BY Zenon, <1>8, ActiveStep DEF WroteInv
  <1> QED
    BY ZenonT(30), <1>1, <1>2, <1>3, <1>4, <1>5, <1>6, <1>7, <1>8
    DEF Next, bread, bget_recycle, read_head, recover_install, recover_erase,
        InstallBlock, vars

(* The blocks MAXOPBLOCKS allots to a set of calls. *)
LEMMA Allotment ==
  ASSUME NEW A, IsFiniteSet(A)
  PROVE  /\ IsFiniteSet(A \X (1 .. MAXOPBLOCKS))
         /\ Cardinality(A \X (1 .. MAXOPBLOCKS)) = Cardinality(A) * MAXOPBLOCKS
  <1>1. IsFiniteSet(1 .. MAXOPBLOCKS) /\ Cardinality(1 .. MAXOPBLOCKS) = MAXOPBLOCKS
    BY FS_Interval, LogConstants
  <1> QED
    BY Zenon, <1>1, FS_Product

LEMMA ReserveFinite ==
  ASSUME TypeOK, CountInv
  PROVE  IsFiniteSet(Reserve) /\ Cardinality(Reserve) \in Nat
  <1>1. IsFiniteSet(Active \X (1 .. MAXOPBLOCKS))
    BY ActiveCounted, Allotment
  <1>2. IsFiniteSet(Reserve)
    BY <1>1, FS_Subset DEF Reserve
  <1> QED
    BY <1>2, FS_CardinalityType

(* begin_op() reserves room for the whole call, and each block the call     *)
(* adds to the log comes out of its own reservation.                        *)
LEMMA SpaceStep == IInv /\ [Next]_vars => SpaceInv'
  <1> SUFFICES ASSUME IInv, [Next]_vars PROVE SpaceInv'
    OBVIOUS
  <1> USE LogConstants DEF IInv
  <1>0. Len(lh) \in Nat /\ Len(dhead) \in Nat /\ outstanding \in Nat
    BY DEF TypeOK
  <1>a. Len(lh') <= LOGSIZE /\ Len(lh') \in Nat
    <2>1. TypeOK' /\ ListInv'
      BY ZenonT(60), TypeStep, ListStep
    <2>2. lh' \in Seq(Block)
      BY <2>1 DEF TypeOK
    <2> QED
      BY <2>1, <2>2 DEF ListInv, GoodList
  <1>1. CASE Reserve' \subseteq Reserve /\ UNCHANGED lh
    <2>1. Cardinality(Reserve') <= Cardinality(Reserve) /\ Cardinality(Reserve') \in Nat
      BY <1>1, ReserveFinite, FS_Subset, FS_CardinalityType
    <2> QED
      BY SMTT(40), <1>0, <1>1, <2>1, ReserveFinite DEF SpaceInv
  <1>2. CASE UNCHANGED <<wrote, lh>> /\ Active' = Active
    BY <1>1, <1>2 DEF Reserve
  <1>3. ASSUME NEW p \in Proc, begin_op(p) PROVE SpaceInv'
    <2>1. CASE Blocked
      BY ZenonT(60), <1>2, <1>3, <2>1, ActiveStep DEF begin_op
    <2>2. CASE ~Blocked
      <3>1. /\ Len(lh) + (outstanding + 1) * MAXOPBLOCKS <= LOGSIZE
            /\ outstanding' = outstanding + 1 /\ UNCHANGED lh
        BY SMTT(40), <1>0, <1>3, <2>2 DEF begin_op, Blocked
      <3>2. IsFiniteSet(Active') /\ Cardinality(Active') = outstanding'
        <4>1. Active' = Active \cup {p}
          BY <1>3, <2>2, ActiveStep
        <4> QED
          BY SMTT(40), <4>1, ActiveCounted, CountStep, FS_AddElement DEF CountInv
      <3>3. /\ IsFiniteSet(Active' \X (1 .. MAXOPBLOCKS))
            /\ Cardinality(Active' \X (1 .. MAXOPBLOCKS)) = outstanding' * MAXOPBLOCKS
        BY <3>2, Allotment
      <3>4. Reserve' \subseteq Active' \X (1 .. MAXOPBLOCKS)
        BY DEF Reserve
      <3>5. Cardinality(Reserve') <= outstanding' * MAXOPBLOCKS /\ Cardinality(Reserve') \in Nat
        BY <3>3, <3>4, FS_Subset, FS_CardinalityType
      <3> QED
        BY SMTT(40), <1>0, <3>1, <3>5 DEF SpaceInv
    <2> QED
      BY ZenonT(60), <2>1, <2>2
  <1>4. ASSUME NEW p \in Proc, log_write(p) PROVE SpaceInv'
    <2> DEFINE c == Cardinality(wrote[p])
    <2>1. /\ p \in Active /\ Active' = Active /\ buf[p] \in Block
          /\ wrote' = [wrote EXCEPT ![p] = wrote[p] \cup {buf[p]}]
          /\ wrote'[p] = wrote[p] \cup {buf[p]}
          /\ \A q \in Active : q # p => wrote'[q] = wrote[q]
      <3>1. p \in Active /\ Active' = Active
        BY ZenonT(60), <1>4, ActiveStep
      <3>2. buf[p] \in Block
        BY <1>4 DEF log_write, TypeOK, BufInv
      <3>3. wrote' = [wrote EXCEPT ![p] = wrote[p] \cup {buf[p]}]
        BY <1>4 DEF log_write
      <3> QED
        BY ZenonT(60), <3>1, <3>2, <3>3 DEF TypeOK, Active
    <2>2. c \in Nat /\ Cardinality(wrote'[p]) = IF buf[p] \in wrote[p] THEN c ELSE c + 1
      BY ZenonT(40), <2>1, WroteFinite, FS_AddElement
    <2> HIDE DEF c
    <2>3. Reserve' = {t \in Active \X (1 .. MAXOPBLOCKS) :
                       t[2] > IF t[1] = p THEN Cardinality(wrote'[p])
                                         ELSE Cardinality(wrote[t[1]])}
      BY <2>1 DEF Reserve
    <2>4. CASE Logged(buf[p])
      <3>1. UNCHANGED lh
        BY ZenonT(60), <1>4, <2>4 DEF log_write
      <3>2. Reserve' \subseteq Reserve
        BY <2>2, <2>3 DEF Reserve, c
      <3> QED
        BY ZenonT(60), <1>1, <3>1, <3>2
    <2>5. CASE ~Logged(buf[p])
      <3>1. buf[p] \notin wrote[p]
        BY SMTT(40), <2>1, <2>5 DEF WroteInv, Logged
      <3>2. c + 1 \in 1 .. MAXOPBLOCKS
        <4>1. Cardinality(wrote[p] \cup {buf[p]}) <= OpBlocks
          BY ZenonT(60), <1>4, <2>1 DEF log_write, WroteInv
        <4> QED
          BY SMTT(40), <2>1, <2>2, <3>1, <4>1
      <3>3. <<p, c + 1>> \in Reserve
        BY <2>1, <2>2, <3>2 DEF Reserve, c
      <3>4. Reserve' \subseteq Reserve \ {<<p, c + 1>>}
        <4> SUFFICES ASSUME NEW t \in Reserve'
                     PROVE  t \in Reserve /\ t # <<p, c + 1>>
          BY SMTT(40)
        <4>1. CASE t[1] = p
          BY SMTT(40), <2>2, <2>3, <3>1, <4>1 DEF Reserve, c
        <4>2. CASE t[1] # p
          BY SMTT(40), <2>3, <4>2 DEF Reserve
        <4> QED
          BY <4>1, <4>2
      <3>5. /\ IsFiniteSet(Reserve \ {<<p, c + 1>>})
            /\ Cardinality(Reserve \ {<<p, c + 1>>}) = Cardinality(Reserve) - 1
        BY SMTT(40), <3>3, ReserveFinite, FS_RemoveElement
      <3>6. Cardinality(Reserve') <= Cardinality(Reserve) - 1 /\ Cardinality(Reserve') \in Nat
        BY ZenonT(30), <3>4, <3>5, FS_Subset, FS_CardinalityType
      <3>7. Len(lh') = Len(lh) + 1
        BY ZenonT(60), <1>4, <2>1, <2>5, LogAppend DEF log_write, TypeOK
      <3> QED
        BY SMTT(40), <1>0, <3>6, <3>7, ReserveFinite DEF SpaceInv
    <2> QED
      BY ZenonT(30), <2>4, <2>5
  <1>5. ASSUME NEW p \in Proc, end_op(p) PROVE SpaceInv'
    BY Zenon, <1>1, <1>5, ActiveStep DEF end_op, Reserve
  <1>6. CASE Active' = {} /\ Len(lh') <= LOGSIZE /\ Len(lh') \in Nat
    <2>1. Reserve' = {}
      BY <1>6 DEF Reserve
    <2> QED
      BY <1>6, <2>1, FS_EmptySet DEF SpaceInv
  <1>7. ASSUME NEW p \in Proc, commit(p) PROVE SpaceInv'
    <2>1. Active' = {}
      BY Zenon, <1>7, ActiveStep DEF commit, write_log, write_head, install_trans,
                              erase, end_commit, Committer, CommitInv
    <2> QED
      BY <1>a, <1>6, <2>1
  <1>8. CASE read_head \/ recover_install \/ recover_erase
    <2>1. Active' = {}
      BY Zenon, <1>8 DEF read_head, recover_install, recover_erase, InstallBlock,
                  CommitInv, Active
    <2> QED
      BY <1>a, <1>6, <2>1
  <1>9. CASE Crash
    BY <1>a, <1>6, <1>9, ActiveStep
  <1>10. ASSUME NEW p \in Proc, NEW b \in Block, NEW v \in Val, modify(p, b, v)
         PROVE SpaceInv'
    BY ZenonT(40), <1>2, <1>10, ActiveStep DEF modify
  <1>11. CASE UNCHANGED <<pc, wrote, lh>>
    BY <1>2, <1>11, ActiveStep
  <1> QED
    BY ZenonT(30), <1>3, <1>4, <1>5, <1>7, <1>8, <1>9, <1>10, <1>11
    DEF Next, bread, bget_recycle, vars

(* log_write() pins a block when it adds it to the list, and install_trans() *)
(* unpins it when it copies it home.                                         *)
LEMMA PinsStep == IInv /\ [Next]_vars => PinsBalanced'
  <1> SUFFICES ASSUME IInv, [Next]_vars PROVE PinsBalanced'
    OBVIOUS
  <1> USE LogConstants DEF IInv
  <1>0. lh \in Seq(Block) /\ Len(lh) \in Nat /\ tail \in Nat
    BY DEF TypeOK
  <1>1. CASE NotInstalled' = NotInstalled /\ UNCHANGED pin
    BY <1>1 DEF PinsBalanced
  <1>2. CASE UNCHANGED <<boot, lh, pin>> /\ ~Installing /\ ~Installing'
    BY ZenonT(40), <1>1, <1>2 DEF NotInstalled
  <1>3. CASE UNCHANGED <<boot, lh, pin, tail, pc>>
    BY ZenonT(60), <1>1, <1>3 DEF NotInstalled, Installing
  <1>4. ASSUME NEW p \in Proc, begin_op(p) PROVE PinsBalanced'
    <2>1. Installing' <=> Installing
      BY <1>4 DEF begin_op, Installing, TypeOK, PC
    <2> QED
      BY ZenonT(60), <1>1, <1>4, <2>1 DEF begin_op, NotInstalled
  <1>5. ASSUME NEW p \in Proc, NEW b \in Block, NEW v \in Val, modify(p, b, v)
        PROVE PinsBalanced'
    <2>1. Installing' <=> Installing
      BY <1>5 DEF modify, Installing, TypeOK, PC
    <2> QED
      BY ZenonT(30), <1>1, <1>5, <2>1 DEF modify, NotInstalled
  <1>6. ASSUME NEW p \in Proc, log_write(p) PROVE PinsBalanced'
    <2>1. boot = "up" /\ ~Installing /\ ~Installing' /\ UNCHANGED boot
      BY ZenonT(60), <1>6 DEF log_write, Installing, TypeOK, PC, CommitInv, Committer, Active
    <2>2. NotInstalled = Entries(lh) /\ NotInstalled' = Entries(lh')
      BY Zenon, <2>1 DEF NotInstalled, Entries
    <2>3. CASE Logged(buf[p])
      <3>1. UNCHANGED <<lh, pin, boot>>
        BY ZenonT(30), <1>6, <2>3 DEF log_write
      <3> QED
        BY Zenon, <1>1, <2>2, <3>1
    <2>4. CASE ~Logged(buf[p])
      <3>1. /\ buf[p] \in Block /\ lh' = Append(lh, buf[p])
            /\ pin' = [pin EXCEPT ![buf[p]] = @ + 1]
        BY ZenonT(40), <1>6, <2>4 DEF log_write, BufInv, TypeOK
      <3>2. NotInstalled' = NotInstalled \cup {buf[p]} /\ buf[p] \notin NotInstalled
        BY ZenonT(60), <1>0, <2>2, <2>4, <3>1, LogAppend DEF Logged
      <3> QED
        BY SMTT(30), <3>1, <3>2 DEF PinsBalanced, TypeOK
    <2> QED
      BY ZenonT(60), <2>3, <2>4
  <1>7. ASSUME NEW p \in Proc, end_op(p) PROVE PinsBalanced'
    <2>1. ~Installing
      BY <1>7 DEF end_op, Installing, CommitInv, Committer
    <2>2. ~Installing'
      <3>1. CASE outstanding = 1
        BY ZenonT(60), <1>7, <2>1, <3>1 DEF end_op, Installing, TypeOK
      <3>2. CASE outstanding # 1
        BY ZenonT(30), <1>7, <2>1, <3>2 DEF end_op, Installing, Wakeup, TypeOK
      <3> QED
        BY ZenonT(60), <3>1, <3>2
    <2> QED
      BY ZenonT(60), <1>2, <1>7, <2>1, <2>2 DEF end_op
  <1>8. ASSUME NEW p \in Proc, write_log(p) PROVE PinsBalanced'
    <2>1. ~Installing /\ ~Installing'
      BY SMTT(40), <1>8 DEF write_log, Installing, CommitInv, Committer
    <2> QED
      BY SMTT(40), <1>2, <1>8, <2>1 DEF write_log
  <1>9. ASSUME NEW p \in Proc, write_head(p) PROVE PinsBalanced'
    <2>1. ~Installing /\ Installing' /\ tail' = 0 /\ UNCHANGED <<boot, lh, pin>>
      BY ZenonT(60), <1>9 DEF write_head, Installing, CommitInv, Committer, TypeOK
    <2> QED
      BY SMTT(40), <1>1, <2>1 DEF NotInstalled
  <1>10. ASSUME NEW p \in Proc, install_trans(p) PROVE PinsBalanced'
    <2>1. /\ Installing /\ Installing' /\ boot = "up" /\ UNCHANGED <<boot, lh>>
          /\ tail < Len(lh) /\ tail' = tail + 1
          /\ pin' = [pin EXCEPT ![lh[tail + 1]] = @ - 1]
      BY ZenonT(30), <1>10 DEF install_trans, InstallBlock, Unpinned, Installing, CommitInv
    <2>2. NotInstalled = {lh[i] : i \in tail + 1 .. Len(lh)}
      BY ZenonT(60), <2>1 DEF NotInstalled
    <2>3. NotInstalled' = {lh[i] : i \in tail + 2 .. Len(lh)}
      BY SMTT(40), <1>0, <2>1 DEF NotInstalled
    <2>4. \A i, j \in 1 .. Len(lh) : lh[i] = lh[j] => i = j
      BY SMTT(40) DEF ListInv, GoodList
    <2>5. lh[tail + 1] \in NotInstalled /\ NotInstalled' = NotInstalled \ {lh[tail + 1]}
      <3>1. tail + 1 \in tail + 1 .. Len(lh)
        BY SMTT(40), <1>0, <2>1
      <3>2. lh[tail + 1] \in NotInstalled
        BY SMTT(40), <2>2, <3>1
      <3>3. \A i \in tail + 1 .. Len(lh) :
              i \in tail + 2 .. Len(lh) <=> lh[i] # lh[tail + 1]
        BY <1>0, <2>1, <2>4
      <3>4. tail + 2 .. Len(lh) \subseteq tail + 1 .. Len(lh)
        BY <1>0
      <3> QED
        BY SMTT(40), <2>2, <2>3, <3>2, <3>3, <3>4
    <2> QED
      BY SMTT(40), <1>0, <2>1, <2>5 DEF PinsBalanced, TypeOK
  <1>11. ASSUME NEW p \in Proc, erase(p) PROVE PinsBalanced'
    <2>1. /\ Installing /\ boot = "up" /\ tail = Len(lh)
          /\ lh' = << >> /\ UNCHANGED <<boot, pin, tail>>
      BY SMTT(40), <1>11 DEF erase, Installing, CommitInv
    <2>2. NotInstalled = {}
      BY <1>0, <2>1 DEF NotInstalled
    <2>3. NotInstalled' = {}
      BY SMTT(40), <1>0, <2>1 DEF NotInstalled
    <2> QED
      BY SMTT(40), <1>1, <2>1, <2>2, <2>3
  <1>12. ASSUME NEW p \in Proc, end_commit(p) PROVE PinsBalanced'
    <2>1. ~Installing
      BY <1>12 DEF end_commit, Installing, CommitInv, Committer
    <2>2. ~Installing'
      BY ZenonT(30), <1>12, <2>1 DEF end_commit, Installing, Wakeup, TypeOK
    <2> QED
      BY SMTT(40), <1>2, <1>12, <2>1, <2>2 DEF end_commit
  <1>13. CASE read_head \/ recover_install
    BY ZenonT(60), <1>1, <1>13 DEF read_head, recover_install, InstallBlock, Unpinned,
                       NotInstalled
  <1>14. CASE recover_erase
    <2>1. ~Installing' /\ lh' = << >> /\ UNCHANGED pin /\ boot = "install"
      BY ZenonT(30), <1>14 DEF recover_erase, Installing, CommitInv
    <2>2. NotInstalled = {}
      BY <2>1 DEF NotInstalled
    <2>3. NotInstalled' = {}
      <3>1. 1 .. Len(lh') = {}
        BY SMTT(40), <2>1
      <3> QED
        BY Zenon, <2>1, <3>1 DEF NotInstalled
    <2> QED
      BY <1>1, <2>1, <2>2, <2>3
  <1>15. CASE Crash
    BY ZenonT(60), <1>15 DEF Crash, PinsBalanced, NotInstalled
  <1> QED
    BY ZenonT(30), <1>3, <1>4, <1>5, <1>6, <1>7, <1>8, <1>9, <1>10, <1>11, <1>12, <1>13,
       <1>14, <1>15
    DEF Next, commit, bread, bget_recycle, vars

-----------------------------------------------------------------------------
(* The control invariant holds in every reachable state. *)
THEOREM LogInvariant == Spec => []IInv
  <1>1. IInv /\ [Next]_vars => IInv'
    BY TypeStep, CommitStep, HeadStep, ListStep, BufStep, CountStep, WroteStep,
       SpaceStep, PinsStep DEF IInv
  <1> QED
    BY <1>1, InitIInv, PTL DEF Spec

(* Type correctness of the log: in particular log.outstanding and the pin   *)
(* counts never go below zero, whatever the interleaving and the crashes.   *)
THEOREM LogTypeCorrect == Spec => []TypeOK
  BY LogInvariant, PTL DEF IInv

(* log_write()'s bpin() and install_trans()'s bunpin() match, for any       *)
(* number of processes and any log size.                                    *)
THEOREM LogPinsBalanced == Spec => []PinsBalanced
  BY LogInvariant, PTL DEF IInv

(* begin_op()'s reservation is enough: if every call leaves the slack       *)
(* LogRoom asks for, no panic() of log.c is reachable.                      *)
THEOREM LogNoPanic ==
  ASSUME LogRoom
  PROVE  Spec => []NoPanic
  <1>1. IInv => NoPanic
    <2> SUFFICES ASSUME IInv, NEW p \in Proc
                 PROVE  /\ pc[p] = "write" => ~TooBig /\ outstanding >= 1
                        /\ pc[p] = "op" => ~committing
      BY DEF NoPanic
    <2> USE LogConstants DEF IInv
    <2>1. ASSUME pc[p] = "write" PROVE ~TooBig /\ outstanding >= 1
      <3>1. p \in Active
        BY SMTT(40), <2>1 DEF Active
      <3> DEFINE left == {p} \X (OpBlocks + 1 .. MAXOPBLOCKS)
      <3>2. left \subseteq Reserve
        <4>1. Cardinality(wrote[p]) \in Nat /\ Cardinality(wrote[p]) <= OpBlocks
          BY ZenonT(40), <3>1, WroteFinite DEF WroteInv
        <4>2. ASSUME NEW k \in OpBlocks + 1 .. MAXOPBLOCKS
              PROVE  k \in 1 .. MAXOPBLOCKS /\ k > Cardinality(wrote[p])
          BY SMTT(40), <4>1
        <4> QED
          BY <3>1, <4>2 DEF Reserve
      <3>3. IsFiniteSet(left) /\ Cardinality(left) = MAXOPBLOCKS - OpBlocks
        <4>1. /\ IsFiniteSet(OpBlocks + 1 .. MAXOPBLOCKS)
              /\ Cardinality(OpBlocks + 1 .. MAXOPBLOCKS) = MAXOPBLOCKS - OpBlocks
          BY FS_Interval DEF LogRoom
        <4>2. IsFiniteSet({p}) /\ Cardinality({p}) = 1
          BY ZenonT(40), FS_Singleton
        <4> QED
          BY SMTT(40), <4>1, <4>2, FS_Product
      <3>4. Cardinality(left) <= Cardinality(Reserve)
        BY SMTT(40), <3>2, ReserveFinite, FS_Subset
      <3> HIDE DEF left
      <3>5. Len(lh) + (MAXOPBLOCKS - OpBlocks) <= LOGSIZE /\ Len(lh) \in Nat
        BY SMTT(40), <3>3, <3>4, ReserveFinite DEF SpaceInv, TypeOK
      <3> QED
        BY SMTT(40), <3>1, <3>5, ActiveCounted DEF LogRoom, TooBig
    <2>2. ASSUME pc[p] = "op" PROVE ~committing
      BY SMTT(40), <2>2 DEF CommitInv, Active
    <2> QED
      BY <2>1, <2>2
  <1> QED
    BY <1>1, LogInvariant, PTL

-----------------------------------------------------------------------------
(* The log implements the atomic disk: the control invariant above is      *)
(* joined by one about the contents of the cache, of the home blocks and   *)
(* of the log.                                                             *)

(* A buffer that bget() may recycle holds nothing that the disk does not;  *)
(* one that it may not is in memory.                                       *)
CacheInv ==
  \A b \in Block : IF Recyclable(b) THEN cache[b] \in {Absent, home[b]}
                                    ELSE cache[b] # Absent

(* What commit() and recovery have copied so far, and still have to. *)
CopyInv ==
  /\ (\E p \in Proc : pc[p] = "wlog") => \A i \in 1 .. tail : dlog[i] = Contents(lh[i])
  /\ Installing => \A i \in 1 .. Len(lh) : dlog[i] = Contents(lh[i])
  /\ Installing \/ boot = "install" => \A i \in 1 .. tail : home[lh[i]] = dlog[i]

(* Between transactions the log is empty. *)
QuietInv == boot = "up" /\ outstanding = 0 /\ ~committing => lh = << >>

DataInv == CacheInv /\ CopyInv /\ QuietInv

-----------------------------------------------------------------------------
(* A loop over a list that has not begun has copied nothing. *)
LEMMA EmptyInterval == 1 .. 0 = {}
  OBVIOUS

(* Every entry of the list names a block. *)
LEMMA EntryBlocks ==
  ASSUME IInv
  PROVE  \A i \in 1 .. Len(lh) : lh[i] \in Block
  <1>1. lh \in Seq(Block)
    BY Zenon DEF IInv, TypeOK
  <1> QED
    BY <1>1

(* The entry of the list that write_log() or install_trans() is at: it has a *)
(* slot of the log, and no entry before it is for the same block.           *)
LEMMA NextEntry ==
  ASSUME IInv, tail < Len(lh)
  PROVE  /\ tail + 1 \in 1 .. Len(lh) /\ tail + 1 \in Slots
         /\ lh[tail + 1] \in Block /\ dlog[tail + 1] \in Val
         /\ \A i \in 1 .. tail : i \in Slots /\ i # tail + 1
         /\ \A i \in 1 .. tail : lh[i] \in Block /\ lh[i] # lh[tail + 1]
         /\ \A i \in 1 .. tail + 1 : i \in 1 .. tail \/ i = tail + 1
  <1>1. /\ lh \in Seq(Block) /\ dlog \in [Slots -> Val] /\ tail \in Nat
        /\ Len(lh) <= NLOG - 1 /\ \A i, j \in 1 .. Len(lh) : lh[i] = lh[j] => i = j
    BY Zenon DEF IInv, TypeOK, ListInv, GoodList
  <1>2. tail + 1 \in 1 .. Len(lh) /\ tail + 1 \in Slots
    BY <1>1, LogConstants DEF Slots
  <1>3. lh[tail + 1] \in Block /\ dlog[tail + 1] \in Val
    BY <1>1, <1>2
  <1>4. \A i \in 1 .. tail : i \in 1 .. Len(lh) /\ i # tail + 1
    BY <1>1
  <1>5. \A i \in 1 .. tail : lh[i] \in Block /\ lh[i] # lh[tail + 1]
    BY <1>1, <1>2, <1>4
  <1>6. \A i \in 1 .. tail + 1 : i \in 1 .. tail \/ i = tail + 1
    BY <1>1
  <1>7. \A i \in 1 .. tail : i \in Slots
    BY <1>1, <1>2, LogConstants DEF Slots
  <1> QED
    BY Zenon, <1>2, <1>3, <1>4, <1>5, <1>6, <1>7

(* Where no transaction is in the way, a buffer may be recycled. *)
LEMMA Unheld ==
  ASSUME IInv, NEW b \in Block
  PROVE  /\ boot # "up" => Recyclable(b)
         /\ Active = {} /\ b \notin Entries(lh) => Recyclable(b)
         /\ boot = "up" /\ ~Installing /\ b \in Entries(lh) => pin[b] = 1
  <1> USE DEF IInv
  <1>1. lh \in Seq(Block) /\ Len(lh) \in Nat /\ tail \in Nat
    BY SMTT(30) DEF TypeOK
  <1>2. Active = {} => \A p \in Proc : buf[p] = NoBlock
    BY ZenonT(60) DEF BufInv, Active
  <1>3. boot # "up" => Active = {} /\ NotInstalled = {}
    BY DEF CommitInv, Active, NotInstalled
  <1>4. NotInstalled \subseteq Entries(lh)
    BY <1>1 DEF NotInstalled, Entries
  <1>5. boot = "up" /\ ~Installing => NotInstalled = Entries(lh)
    BY ZenonT(30) DEF NotInstalled, Entries
  <1> QED
    BY SMTT(40), <1>2, <1>3, <1>4, <1>5, LogConstants DEF Recyclable, PinsBalanced

(* write_log() reads buffers that are in memory. *)
LEMMA WriteLogReads ==
  ASSUME IInv, CacheInv, NEW p \in Proc, write_log(p)
  PROVE  cache' = cache
  <1> DEFINE b == lh[tail + 1]
  <1>1. tail + 1 \in 1 .. Len(lh) /\ b \in Block
    BY Zenon, NextEntry DEF write_log
  <1>2. b \in Block /\ b \in Entries(lh)
    BY Zenon, <1>1 DEF Entries
  <1> USE DEF IInv, TypeOK
  <1>3. boot = "up" /\ ~Installing
    BY SMTT(40) DEF write_log, Installing, CommitInv, Committer
  <1>4. pin[b] = 1
    BY SMTT(40), <1>2, <1>3, Unheld
  <1>5. cache[b] # Absent
    BY <1>2, <1>4 DEF CacheInv, Recyclable
  <1> QED
    BY <1>2, <1>5 DEF write_log, Contents

(* Every step keeps the buffers that may be recycled clean. *)
LEMMA CacheStep == IInv /\ CacheInv /\ [Next]_vars => CacheInv'
  <1> SUFFICES ASSUME IInv, CacheInv, [Next]_vars PROVE CacheInv'
    OBVIOUS
  <1> USE LogConstants DEF IInv, CacheInv, Recyclable, TypeOK
  <1>1. CASE UNCHANGED <<cache, home, pin, buf>>
    BY ZenonT(30), <1>1
  <1>2. ASSUME NEW b \in Block, bread(b) \/ bget_recycle(b) PROVE CacheInv'
    BY SMTT(40), <1>2 DEF bread, bget_recycle
  <1>3. ASSUME NEW p \in Proc, NEW b \in Block, NEW v \in Val, modify(p, b, v)
        PROVE CacheInv'
    <2>1. /\ cache' = [cache EXCEPT ![b] = v] /\ buf' = [buf EXCEPT ![p] = b]
          /\ UNCHANGED <<home, pin>> /\ buf[p] = NoBlock
      BY Zenon, <1>3 DEF modify, BufInv
    <2> QED
      BY SMTT(30), <2>1
  <1>4. ASSUME NEW p \in Proc, log_write(p) PROVE CacheInv'
    <2> DEFINE b == buf[p]
    <2>1. b \in Block /\ buf' = [buf EXCEPT ![p] = NoBlock] /\ UNCHANGED <<cache, home>>
      BY ZenonT(60), <1>4 DEF log_write, BufInv
    <2>2. boot = "up" /\ ~Installing
      BY ZenonT(60), <1>4 DEF log_write, Installing, CommitInv, Committer, Active
    <2>3. pin'[b] # 0 /\ \A x \in Block \ {b} : pin'[x] = pin[x]
      <3>1. CASE Logged(b)
        BY SMTT(40), <1>4, <2>1, <2>2, <3>1, Unheld DEF log_write, Logged
      <3>2. CASE ~Logged(b)
        BY SMTT(30), <1>4, <2>1, <3>2 DEF log_write
      <3> QED
        BY ZenonT(40), <3>1, <3>2
    <2> HIDE DEF b
    <2>4. \A x \in Block \ {b} : (\A q \in Proc : buf'[q] # x) <=> (\A q \in Proc : buf[q] # x)
      BY <2>1 DEF b
    <2>5. cache[b] # Absent
      BY Zenon, <2>1 DEF b
    <2> QED
      BY ZenonT(120), <2>1, <2>3, <2>4, <2>5
  <1>5. ASSUME NEW p \in Proc, write_log(p) PROVE CacheInv'
    BY ZenonT(30), <1>1, <1>5, WriteLogReads DEF write_log
  <1>6. ASSUME NEW p \in Proc, install_trans(p) PROVE CacheInv'
    <2>1. /\ home' = [home EXCEPT ![lh[tail + 1]] = dlog[tail + 1]]
          /\ cache' = [cache EXCEPT ![lh[tail + 1]] = dlog[tail + 1]]
          /\ pin' = [pin EXCEPT ![lh[tail + 1]] = @ - 1]
          /\ lh[tail + 1] \in Block /\ dlog[tail + 1] \in Val /\ buf' = buf
      BY Zenon, <1>6, NextEntry DEF install_trans, InstallBlock, Unpinned
    <2> QED
      BY ZenonT(40), <2>1
  <1>7. CASE recover_install
    <2>1. /\ home' = [home EXCEPT ![lh[tail + 1]] = dlog[tail + 1]]
          /\ cache' = [cache EXCEPT ![lh[tail + 1]] = dlog[tail + 1]]
          /\ lh[tail + 1] \in Block /\ dlog[tail + 1] \in Val
          /\ pin' = pin /\ buf' = buf
      BY Zenon, <1>7, NextEntry DEF recover_install, InstallBlock, Unpinned
    <2> QED
      BY ZenonT(40), <2>1
  <1>8. CASE Crash
    BY Zenon, <1>8 DEF Crash
  <1> QED
    BY ZenonT(30), <1>1, <1>2, <1>3, <1>4, <1>5, <1>6, <1>7, <1>8
    DEF Next, commit, vars, begin_op, end_op, write_head, erase, end_commit,
        read_head, recover_erase

(* The contents that a reader sees change only in modify(). *)
LEMMA ContentsKept ==
  ASSUME IInv, CacheInv, CopyInv, NEW x \in Block,
         \/ \E b \in Block : bread(b) \/ bget_recycle(b)
         \/ \E p \in Proc : write_log(p) \/ install_trans(p)
  PROVE  Contents(x)' = Contents(x)
  <1> USE LogConstants DEF IInv, TypeOK
  <1>1. ASSUME NEW b \in Block, bread(b) \/ bget_recycle(b)
        PROVE  Contents(x)' = Contents(x)
    BY Zenon, <1>1 DEF bread, bget_recycle, Contents, CacheInv
  <1>2. ASSUME NEW p \in Proc, write_log(p) PROVE Contents(x)' = Contents(x)
    BY ZenonT(30), <1>2, WriteLogReads DEF write_log, Contents
  <1>3. ASSUME NEW p \in Proc, install_trans(p) PROVE Contents(x)' = Contents(x)
    <2>1. /\ home' = [home EXCEPT ![lh[tail + 1]] = dlog[tail + 1]]
          /\ cache' = [cache EXCEPT ![lh[tail + 1]] = dlog[tail + 1]]
          /\ tail < Len(lh)
      BY Zenon, <1>3 DEF install_trans, InstallBlock
    <2>2. tail + 1 \in 1 .. Len(lh) /\ lh[tail + 1] \in Block /\ dlog[tail + 1] \in Val
      BY Zenon, <2>1, NextEntry
    <2>3. dlog[tail + 1] = Contents(lh[tail + 1])
      BY ZenonT(40), <1>3, <2>2 DEF install_trans, Installing, CopyInv
    <2> QED
      BY ZenonT(30), <2>1, <2>2, <2>3 DEF Contents
  <1> QED
    BY Zenon, <1>1, <1>2, <1>3

(* A call in progress excludes commit() and recovery. *)
LEMMA ActiveAlone ==
  ASSUME IInv, NEW p \in Active
  PROVE  /\ boot = "up"
         /\ \A q \in Proc : pc[q] \notin {"wlog", "install", "done"}
  BY DEF IInv, CommitInv, Committer, Active

(* Every step keeps the copies that commit() and recovery made. *)
LEMMA CopyStep == IInv /\ CacheInv /\ CopyInv /\ [Next]_vars => CopyInv'
  <1> SUFFICES ASSUME IInv, CacheInv, CopyInv, [Next]_vars PROVE CopyInv'
    BY Zenon
  <1> USE LogConstants DEF IInv, TypeOK
  <1>1. CASE (\A p \in Proc : pc'[p] \notin {"wlog", "install"}) /\ boot' # "install"
    BY ZenonT(30), <1>1 DEF CopyInv, Installing
  <1>2. ASSUME UNCHANGED <<lh, tail, dlog, home, boot>>,
               \A x \in Block : Contents(x)' = Contents(x),
               \A p \in Proc : /\ pc'[p] = "wlog" <=> pc[p] = "wlog"
                               /\ pc'[p] = "install" <=> pc[p] = "install"
        PROVE  CopyInv'
    <2>1. \A i \in 1 .. Len(lh) : lh[i] \in Block
      BY Zenon, EntryBlocks
    <2>2. (\E p \in Proc : pc[p] = "wlog") => tail <= Len(lh)
      BY Zenon DEF HeadInv
    <2> QED
      <3>1. /\ (\E p \in Proc : pc'[p] = "wlog") <=> (\E p \in Proc : pc[p] = "wlog")
            /\ Installing' <=> Installing
        BY ZenonT(30), <1>2 DEF Installing
      <3>2. Installing => \A i \in 1 .. Len(lh) : dlog[i] = Contents(lh[i])'
        BY ZenonT(30), <1>2, <2>1 DEF CopyInv
      <3>3. ASSUME NEW p \in Proc, pc[p] = "wlog", NEW i \in 1 .. tail
            PROVE  dlog[i] = Contents(lh[i])'
        <4>1. tail \in Nat /\ Len(lh) \in Nat /\ tail <= Len(lh)
          BY SMTT(40), <2>2, <3>3
        <4>2. i \in 1 .. Len(lh)
          BY SMTT(40), <4>1
        <4> QED
          BY ZenonT(30), <1>2, <2>1, <3>3, <4>2 DEF CopyInv
      <3> QED
        BY ZenonT(30), <1>2, <3>1, <3>2, <3>3 DEF CopyInv
  <1>3. CASE UNCHANGED vars
    BY Zenon, <1>2, <1>3 DEF vars, Contents
  <1>4. ASSUME NEW b \in Block, bread(b) \/ bget_recycle(b) PROVE CopyInv'
    BY ZenonT(30), <1>2, <1>4, ContentsKept DEF bread, bget_recycle
  <1>5. ASSUME NEW p \in Proc, begin_op(p) PROVE CopyInv'
    BY ZenonT(30), <1>2, <1>5 DEF begin_op, Contents, PC
  <1>6. ASSUME NEW p \in Proc, NEW b \in Block, NEW v \in Val, modify(p, b, v)
        PROVE  CopyInv'
    BY Zenon, <1>1, <1>6, ActiveAlone DEF modify, Active
  <1>7. ASSUME NEW p \in Proc, log_write(p) PROVE CopyInv'
    BY Zenon, <1>1, <1>7, ActiveAlone DEF log_write, Active
  <1>8. ASSUME NEW p \in Proc, end_op(p) PROVE CopyInv'
    <2>0. boot' = "up" /\ \A q \in Proc : pc[q] \notin {"wlog", "install", "done"}
      BY ZenonT(40), <1>8, ActiveAlone DEF end_op, Active
    <2>1. CASE outstanding = 1
      <3>1. tail' = 0 /\ \A q \in Proc : pc'[q] # "install"
        BY Zenon, <1>8, <2>0, <2>1 DEF end_op
      <3>2. 1 .. tail' = {}
        BY Zenon, <3>1, EmptyInterval
      <3> QED
        BY Zenon, <2>0, <3>1, <3>2 DEF CopyInv, Installing
    <2>2. CASE outstanding # 1
      BY Zenon, <1>1, <1>8, <2>0, <2>2 DEF end_op, Wakeup
    <2> QED
      BY Zenon, <2>1, <2>2
  <1>9. ASSUME NEW p \in Proc, write_log(p) PROVE CopyInv'
    <2>1. /\ tail + 1 \in 1 .. Len(lh) /\ tail' = tail + 1
          /\ dlog' = [dlog EXCEPT ![tail + 1] = Contents(lh[tail + 1])]
          /\ pc' = pc /\ lh' = lh /\ boot' = boot
      BY Zenon, <1>9, NextEntry DEF write_log
    <2>2. boot = "up" /\ \A q \in Proc : pc[q] # "install"
      BY Zenon, <1>9 DEF write_log, CommitInv, Committer
    <2>3. \A x \in Block : Contents(x)' = Contents(x)
      BY Zenon, <1>9, ContentsKept
    <2>4. /\ tail + 1 \in Slots /\ lh[tail + 1] \in Block
          /\ \A i \in 1 .. tail : lh[i] \in Block /\ i \in Slots /\ i # tail + 1
          /\ \A i \in 1 .. tail' : i \in 1 .. tail \/ i = tail + 1
      BY Zenon, <1>9, <2>1, NextEntry DEF write_log
    <2>5. \A i \in 1 .. tail : dlog[i] = Contents(lh[i])
      BY ZenonT(40), <1>9 DEF write_log, CopyInv
    <2>6. ASSUME NEW i \in 1 .. tail' PROVE dlog'[i] = Contents(lh[i]) /\ lh[i] \in Block
      <3>1. CASE i \in 1 .. tail
        BY ZenonT(40), <2>1, <2>4, <2>5, <3>1
      <3>2. CASE i = tail + 1
        BY ZenonT(40), <2>1, <2>4, <3>2
      <3> QED
        BY Zenon, <2>4, <2>6, <3>1, <3>2
    <2> QED
      BY ZenonT(120), <2>1, <2>2, <2>3, <2>6 DEF CopyInv, Installing
  <1>10. ASSUME NEW p \in Proc, write_head(p) PROVE CopyInv'
    <2>1. /\ tail = Len(lh) /\ tail' = 0 /\ UNCHANGED <<lh, dlog, home, cache, boot>>
          /\ boot = "up" /\ \A q \in Proc : pc'[q] # "wlog"
      BY Zenon, <1>10 DEF write_head, HeadReady, CommitInv, Committer
    <2>2. \A i \in 1 .. Len(lh) : dlog[i] = Contents(lh[i])
      BY Zenon, <1>10, <2>1 DEF write_head, CopyInv
    <2>3. 1 .. tail' = {}
      BY Zenon, <2>1, EmptyInterval
    <2> QED
      BY ZenonT(40), <2>1, <2>2, <2>3 DEF CopyInv, Contents
  <1>11. ASSUME NEW recovering \in BOOLEAN, InstallBlock(recovering),
                \A i \in 1 .. tail : home[lh[i]] = dlog[i]
         PROVE  \A i \in 1 .. tail' : home'[lh'[i]] = dlog'[i]
    <2>1. /\ home' = [home EXCEPT ![lh[tail + 1]] = dlog[tail + 1]]
          /\ tail + 1 \in 1 .. Len(lh) /\ tail' = tail + 1 /\ UNCHANGED <<lh, dlog>>
      BY Zenon, <1>11, NextEntry DEF InstallBlock
    <2>2. \A i \in 1 .. tail : lh[i] # lh[tail + 1] /\ lh[i] \in Block
      BY Zenon, <1>11, NextEntry DEF InstallBlock
    <2>3. lh[tail + 1] \in Block /\ \A i \in 1 .. tail' : i \in 1 .. tail \/ i = tail + 1
      BY Zenon, <1>11, <2>1, NextEntry DEF InstallBlock
    <2>4. ASSUME NEW i \in 1 .. tail' PROVE home'[lh'[i]] = dlog'[i]
      <3>1. CASE i \in 1 .. tail
        BY ZenonT(40), <1>11, <2>1, <2>2, <3>1
      <3>2. CASE i = tail + 1
        BY ZenonT(40), <2>1, <2>3, <3>2
      <3>3. i \in 1 .. tail \/ i = tail + 1
        BY Zenon, <2>3, <2>4
      <3> QED
        BY Zenon, <3>1, <3>2, <3>3
    <2> QED
      BY ZenonT(40), <2>4
  <1>12. ASSUME NEW p \in Proc, install_trans(p) PROVE CopyInv'
    <2>1. /\ Installing /\ UNCHANGED <<lh, dlog, boot, pc>>
          /\ boot = "up" /\ \A q \in Proc : pc[q] # "wlog"
      BY Zenon, <1>12 DEF install_trans, InstallBlock, Installing, CommitInv, Committer
    <2>2. \A i \in 1 .. tail' : home'[lh'[i]] = dlog'[i]
      BY ZenonT(30), <1>11, <1>12, <2>1 DEF install_trans, CopyInv
    <2>3. \A i \in 1 .. Len(lh) : lh[i] \in Block /\ dlog[i] = Contents(lh[i])
      BY Zenon, <2>1, EntryBlocks DEF CopyInv
    <2>4. \A x \in Block : Contents(x)' = Contents(x)
      BY <1>12, ContentsKept
    <2>5. \A i \in 1 .. Len(lh) : dlog[i] = Contents(lh[i])'
      <3> SUFFICES ASSUME NEW i \in 1 .. Len(lh) PROVE dlog[i] = Contents(lh[i])'
        OBVIOUS
      <3>1. lh[i] \in Block /\ dlog[i] = Contents(lh[i])
        BY Zenon, <2>3
      <3>2. Contents(lh[i])' = Contents(lh[i])
        BY Zenon, <2>1, <2>4, <3>1 DEF Contents
      <3> QED
        BY Zenon, <3>1, <3>2
    <2> QED
      BY ZenonT(40), <2>1, <2>2, <2>5 DEF CopyInv
  <1>13. ASSUME NEW p \in Proc, erase(p) \/ end_commit(p) PROVE CopyInv'
    <2>1. boot' = "up" /\ \A q \in Proc : pc'[q] \notin {"wlog", "install"}
      BY ZenonT(40), <1>13 DEF erase, end_commit, Wakeup, CommitInv, Committer
    <2> QED
      BY Zenon, <1>1, <2>1
  <1>14. CASE read_head
    <2>1. /\ boot' = "install" /\ tail' = 0
          /\ \A p \in Proc : pc'[p] = "idle"
      BY ZenonT(40), <1>14 DEF read_head, CommitInv
    <2>2. 1 .. tail' = {}
      BY Zenon, <2>1, EmptyInterval
    <2> QED
      BY Zenon, <2>1, <2>2 DEF CopyInv, Installing
  <1>15. CASE recover_install
    <2>1. boot = "install" /\ UNCHANGED pc /\ \A q \in Proc : pc[q] = "idle"
      BY ZenonT(60), <1>15 DEF recover_install, InstallBlock, CommitInv
    <2>2. \A i \in 1 .. tail' : home'[lh'[i]] = dlog'[i]
      BY ZenonT(30), <1>11, <1>15 DEF recover_install, CopyInv
    <2> QED
      BY ZenonT(60), <2>1, <2>2 DEF CopyInv, Installing
  <1>16. CASE recover_erase \/ Crash
    BY ZenonT(60), <1>1, <1>16 DEF recover_erase, Crash, CommitInv
  <1> QED
    BY ZenonT(30), <1>3, <1>4, <1>5, <1>6, <1>7, <1>8, <1>9, <1>10, <1>12, <1>13, <1>14,
       <1>15, <1>16 DEF Next, commit

(* Every step keeps the log empty between transactions. *)
LEMMA QuietStep == IInv /\ QuietInv /\ [Next]_vars => QuietInv'
  <1> SUFFICES ASSUME IInv, QuietInv, [Next]_vars PROVE QuietInv'
    OBVIOUS
  <1> USE LogConstants DEF IInv, TypeOK, QuietInv
  <1>1. CASE UNCHANGED <<boot, outstanding, committing, lh>>
    BY Zenon, <1>1
  <1>2. CASE lh' = << >> \/ boot' # "up"
    BY ZenonT(30), <1>2
  <1>3. ASSUME NEW p \in Proc, begin_op(p) PROVE QuietInv'
    BY SMTT(40), <1>3 DEF begin_op
  <1>4. ASSUME NEW p \in Proc, log_write(p) PROVE QuietInv'
    BY SMTT(40), <1>4 DEF log_write
  <1>5. ASSUME NEW p \in Proc, end_op(p) PROVE QuietInv'
    BY SMTT(30), <1>5 DEF end_op
  <1>6. ASSUME NEW p \in Proc, end_commit(p) PROVE QuietInv'
    BY <1>6 DEF end_commit, HeadInv
  <1>7. ASSUME NEW p \in Proc, write_log(p) \/ write_head(p) \/ install_trans(p)
        PROVE  QuietInv'
    BY ZenonT(30), <1>1, <1>7 DEF write_log, write_head, install_trans, InstallBlock
  <1>8. CASE read_head \/ recover_install \/ recover_erase \/ Crash
    BY Zenon, <1>2, <1>8 DEF read_head, recover_install, InstallBlock, recover_erase, Crash
  <1> QED
    BY ZenonT(30), <1>1, <1>2, <1>3, <1>4, <1>5, <1>6, <1>7, <1>8
    DEF Next, commit, vars, bread, bget_recycle, modify, erase

-----------------------------------------------------------------------------
(* What a crash would leave, block by block. *)
LEMMA DurableAt ==
  ASSUME IInv, NEW b \in Block
  PROVE  /\ \A i \in 1 .. Len(dhead) : dhead[i] = b => Durable[b] = dlog[i]
         /\ b \notin Entries(dhead) => Durable[b] = home[b]
  <1>1. ASSUME NEW i \in 1 .. Len(dhead), dhead[i] = b
        PROVE  b \in Entries(dhead) /\ (CHOOSE j \in 1 .. Len(dhead) : dhead[j] = b) = i
    BY SMTT(40), <1>1 DEF IInv, ListInv, GoodList, Entries
  <1> QED
    BY ZenonT(40), <1>1 DEF Durable

(* With nothing in the log, what a crash would leave is the home blocks. *)
LEMMA DurableHome ==
  ASSUME TypeOK, dhead = << >>
  PROVE  Durable = home
  BY DEF Durable, Entries, TypeOK

(* Once a committed transaction is installed, its log is not needed. *)
LEMMA DurableInstalled ==
  ASSUME IInv, CopyInv, Installing \/ boot = "install", tail = Len(lh), lh = dhead
  PROVE  Durable = home
  <1>1. \A i \in 1 .. Len(dhead) : home[dhead[i]] = dlog[i]
    BY SMTT(40) DEF CopyInv
  <1>2. ASSUME NEW b \in Block PROVE Durable[b] = home[b]
    <2>1. CASE b \in Entries(dhead)
      BY <1>1, <2>1, DurableAt DEF Entries
    <2> QED
      BY SMTT(40), <2>1, DurableAt
  <1>3. home = [b \in Block |-> home[b]]
    BY Zenon DEF IInv, TypeOK
  <1>4. Durable = [b \in Block |-> Durable[b]]
    <2> DEFINE left(b) == IF b \in Entries(dhead)
                          THEN dlog[CHOOSE i \in 1 .. Len(dhead) : dhead[i] = b]
                          ELSE home[b]
    <2>1. Durable = [b \in Block |-> left(b)]
      BY ZenonT(40) DEF Durable
    <2> HIDE DEF left
    <2> QED
      BY <2>1
  <1> QED
    BY SMTT(40), <1>2, <1>3, <1>4

(* Writing to the home of a block of the committed transaction does not    *)
(* change what a crash would leave.                                        *)
LEMMA DurableShadowed ==
  ASSUME IInv, NEW b \in Entries(dhead), NEW v,
         home' = [home EXCEPT ![b] = v], UNCHANGED <<dlog, dhead>>
  PROVE  Durable' = Durable
  BY SMTT(40) DEF Durable, IInv, TypeOK, Entries

(* The process that writes the log finds no committed transaction in it. *)
LEMMA LogFree ==
  ASSUME IInv, NEW p \in Proc, pc[p] = "wlog"
  PROVE  boot = "up" /\ dhead = << >> /\ Active = {} /\ ~Installing
  BY SMTT(40) DEF IInv, CommitInv, Committer, HeadInv, Installing

(* The process that installs works on the committed transaction. *)
LEMMA InstallingPhase ==
  ASSUME IInv, Installing
  PROVE  boot = "up" /\ lh = dhead /\ Active = {}
  BY DEF IInv, CommitInv, Committer, HeadInv, Installing

-----------------------------------------------------------------------------
(* Control and contents together. *)
LEMMA LogDataInvariant == Spec => [](IInv /\ DataInv)
  <1>1. Init => DataInv
    <2> SUFFICES ASSUME Init PROVE DataInv
      OBVIOUS
    <2>1. CacheInv
      <3> SUFFICES ASSUME NEW b \in Block PROVE Recyclable(b) /\ cache[b] = Absent
        BY ZenonT(40) DEF CacheInv
      <3> QED
        BY ZenonT(30), LogConstants DEF Init, Recyclable
    <2>2. \A p \in Proc : pc[p] = "idle"
      BY SMTT(40) DEF Init
    <2>3. CopyInv /\ QuietInv
      BY <2>2 DEF Init, CopyInv, QuietInv, Installing
    <2> QED
      BY <2>1, <2>3 DEF DataInv
  <1>2. IInv /\ DataInv /\ [Next]_vars => DataInv'
    BY CacheStep, CopyStep, QuietStep DEF DataInv
  <1> QED
    BY <1>1, <1>2, LogInvariant, PTL DEF Spec

(* Once the end_op() of the last call has returned, everything the calls    *)
(* wrote is on disk, whatever the interleaving, the number of processes and *)
(* the size of the log, and whatever crashes there were before.             *)
THEOREM LogQuiescentDurable == Spec => []QuiescentDurable
  <1>1. IInv /\ DataInv => QuiescentDurable
    <2> SUFFICES ASSUME IInv, DataInv, boot = "up", outstanding = 0, ~committing
                 PROVE  Durable = Mem
      BY DEF QuiescentDurable
    <2>1. lh = << >> /\ ~Installing
      BY DEF DataInv, QuietInv, IInv, CommitInv, Committer, Installing
    <2>2. dhead = << >>
      BY <2>1 DEF IInv, HeadInv
    <2>3. Active = {}
      BY SMTT(30), ActiveCounted DEF IInv
    <2>4. ASSUME NEW b \in Block PROVE Contents(b) = home[b]
      <3>1. b \notin Entries(lh)
        BY <2>1 DEF Entries
      <3>2. Recyclable(b)
        BY Zenon, <2>3, <3>1, Unheld
      <3> QED
        BY Zenon, <3>2 DEF DataInv, CacheInv, Contents
    <2> QED
      BY <2>2, <2>4, DurableHome DEF Mem, IInv, TypeOK
  <1> QED
    BY <1>1, LogDataInvariant, PTL

(* One step of the log is one step of the atomic disk, or none. *)
LEMMA AtomicStep ==
  IInv /\ DataInv /\ [Next]_vars => [Atomic!Next]_<<Mem, Durable, Active>>
  <1> SUFFICES ASSUME IInv, DataInv, [Next]_vars
               PROVE  [Atomic!Next]_<<Mem, Durable, Active>>
    OBVIOUS
  <1> USE DEF DataInv
  <1>0. TypeOK
    BY DEF IInv
  <1>1. CASE UNCHANGED <<Mem, Durable, Active>>
    BY SMTT(40), <1>1
  <1>2. UNCHANGED disk => Durable' = Durable
    BY DEF Durable
  <1>3. ASSUME boot = "up", boot' = "up", \A x \in Block : Contents(x)' = Contents(x)
        PROVE  Mem' = Mem
    BY <1>3 DEF Mem
  <1>4. CASE UNCHANGED vars
    BY ZenonT(30), <1>0, <1>2, <1>4, ActiveStep DEF vars, Mem, Contents
  <1>5. ASSUME NEW b \in Block, bread(b) \/ bget_recycle(b)
        PROVE  UNCHANGED <<Mem, Durable, Active>>
    BY ZenonT(40), <1>0, <1>2, <1>3, <1>5, ContentsKept, ActiveStep DEF bread, bget_recycle
  <1>6. ASSUME NEW p \in Proc, begin_op(p)
        PROVE  Atomic!Begin(p) \/ UNCHANGED <<Mem, Durable, Active>>
    <2>1. UNCHANGED <<Mem, Durable>>
      BY <1>2, <1>3, <1>6 DEF begin_op, Contents
    <2> QED
      BY ZenonT(30), <1>0, <1>6, <2>1, ActiveStep DEF Atomic!Begin
  <1>7. ASSUME NEW p \in Proc, NEW b \in Block, NEW v \in Val, modify(p, b, v)
        PROVE  Atomic!Write(p, b, v)
    <2>1. p \in Active /\ Active' = Active
      BY Zenon, <1>0, <1>7, ActiveStep
    <2>2. boot = "up" /\ boot' = "up"
      BY Zenon, <1>7, <2>1, ActiveAlone DEF modify
    <2>3. Durable' = Durable
      BY ZenonT(30), <1>2, <1>7 DEF modify
    <2>4. \A x \in Block : Contents(x)' = IF x = b THEN v ELSE Contents(x)
      BY <1>0, <1>7, LogConstants DEF modify, Contents, TypeOK
    <2>5. Mem' = [Mem EXCEPT ![b] = v]
      BY ZenonT(40), <2>2, <2>4 DEF Mem
    <2> QED
      BY <2>1, <2>3, <2>5 DEF Atomic!Write
  <1>8. ASSUME NEW p \in Proc, log_write(p) PROVE UNCHANGED <<Mem, Durable, Active>>
    <2>1. p \in Active /\ Active' = Active
      BY Zenon, <1>0, <1>8, ActiveStep
    <2>2. boot = "up" /\ boot' = "up"
      BY Zenon, <1>8, <2>1, ActiveAlone DEF log_write
    <2> QED
      BY ZenonT(40), <1>2, <1>3, <1>8, <2>1, <2>2 DEF log_write, Contents
  <1>9. ASSUME NEW p \in Proc, end_op(p) PROVE Atomic!End(p)
    <2>1. p \in Active /\ Active' = Active \ {p}
      BY Zenon, <1>0, <1>9, ActiveStep
    <2>2. boot = "up" /\ boot' = "up"
      BY Zenon, <1>9, <2>1, ActiveAlone DEF end_op
    <2> QED
      BY Zenon, <1>2, <1>3, <1>9, <2>1, <2>2 DEF end_op, Contents, Atomic!End
  <1>10. ASSUME NEW p \in Proc, write_log(p) PROVE UNCHANGED <<Mem, Durable, Active>>
    <2>1. boot = "up" /\ dhead = << >> /\ UNCHANGED <<boot, dhead, home, pc>>
      BY ZenonT(40), <1>10, LogFree DEF write_log
    <2>2. Durable' = Durable
      BY SMTT(30), <1>0, <2>1 DEF Durable, Entries, TypeOK
    <2> QED
      BY ZenonT(40), <1>0, <1>3, <1>10, <2>1, <2>2, ContentsKept, ActiveStep
  <1>11. ASSUME NEW p \in Proc, write_head(p) PROVE Atomic!Commit
    <2>1. /\ boot = "up" /\ Active = {} /\ tail = Len(lh) /\ dhead' = lh
          /\ UNCHANGED <<boot, home, dlog, cache, lh>>
      BY Zenon, <1>11, LogFree DEF write_head, HeadReady
    <2>2. \A i \in 1 .. Len(lh) : dlog[i] = Contents(lh[i])
      BY ZenonT(40), <1>11, <2>1 DEF write_head, CopyInv
    <2>3. \A b \in Block : b \notin Entries(lh) => Contents(b) = home[b]
      BY ZenonT(40), <2>1, Unheld DEF CacheInv, Contents
    <2>4. ASSUME NEW b \in Entries(dhead')
          PROVE  dlog'[CHOOSE i \in 1 .. Len(dhead') : dhead'[i] = b] = Contents(b)
      <3> DEFINE k == CHOOSE i \in 1 .. Len(dhead') : dhead'[i] = b
      <3>1. k \in 1 .. Len(dhead') /\ dhead'[k] = b
        BY Zenon DEF Entries
      <3> QED
        BY Zenon, <2>1, <2>2, <3>1
    <2>5. Durable' = Mem
      <3> DEFINE there(b) == IF b \in Entries(dhead')
                             THEN dlog'[CHOOSE i \in 1 .. Len(dhead') : dhead'[i] = b]
                             ELSE home'[b]
      <3>1. Durable' = [b \in Block |-> there(b)]
        BY Zenon DEF Durable
      <3>2. Mem = [b \in Block |-> Contents(b)]
        BY Zenon, <2>1 DEF Mem
      <3>3. ASSUME NEW b \in Block PROVE there(b) = Contents(b)
        BY ZenonT(40), <2>1, <2>3, <2>4
      <3> HIDE DEF there
      <3> QED
        BY Zenon, <3>1, <3>2, <3>3
    <2> QED
      BY ZenonT(30), <1>0, <1>3, <1>11, <2>1, <2>5, ActiveStep DEF commit, Contents, Atomic!Commit
  <1>12. ASSUME NEW p \in Proc, install_trans(p) PROVE UNCHANGED <<Mem, Durable, Active>>
    <2>1. Installing
      BY ZenonT(40), <1>12 DEF install_trans, Installing
    <2>2. /\ boot = "up" /\ lh = dhead /\ tail + 1 \in 1 .. Len(lh)
          /\ home' = [home EXCEPT ![lh[tail + 1]] = dlog[tail + 1]]
          /\ UNCHANGED <<boot, dlog, dhead, pc>>
      BY SMTT(40), <1>0, <1>12, <2>1, InstallingPhase DEF install_trans, InstallBlock, TypeOK
    <2>3. lh[tail + 1] \in Entries(dhead)
      BY ZenonT(60), <2>2 DEF Entries
    <2>4. Durable' = Durable
      BY ZenonT(30), <2>2, <2>3, DurableShadowed
    <2> QED
      BY <1>0, <1>3, <1>12, <2>2, <2>4, ContentsKept, ActiveStep
  <1>13. ASSUME NEW p \in Proc, erase(p) PROVE UNCHANGED <<Mem, Durable, Active>>
    <2>1. Installing /\ tail = Len(lh) /\ dhead' = << >> /\ UNCHANGED <<home, cache, boot>>
      BY <1>13 DEF erase, Installing
    <2>2. boot = "up" /\ lh = dhead
      BY <2>1, InstallingPhase
    <2>3. Durable = home
      BY SMTT(40), <2>1, <2>2, DurableInstalled
    <2>4. Durable' = home
      BY SMTT(30), <1>0, <2>1 DEF Durable, Entries, TypeOK
    <2> QED
      BY ZenonT(40), <1>0, <1>3, <1>13, <2>1, <2>2, <2>3, <2>4, ActiveStep DEF commit, Contents
  <1>14. ASSUME NEW p \in Proc, end_commit(p) PROVE UNCHANGED <<Mem, Durable, Active>>
    <2>1. boot = "up"
      BY <1>14 DEF end_commit, IInv, CommitInv
    <2> QED
      BY ZenonT(30), <1>0, <1>2, <1>3, <1>14, <2>1, ActiveStep DEF commit, end_commit, Contents
  <1>15. CASE read_head
    BY Zenon, <1>0, <1>2, <1>15, ActiveStep DEF read_head, Mem
  <1>16. CASE recover_install
    <2>1. /\ boot = "install" /\ lh = dhead /\ tail + 1 \in 1 .. Len(lh)
          /\ home' = [home EXCEPT ![lh[tail + 1]] = dlog[tail + 1]]
          /\ UNCHANGED <<boot, dlog, dhead, pc>>
      BY SMTT(40), <1>0, <1>16 DEF recover_install, InstallBlock, TypeOK, IInv, HeadInv
    <2>2. lh[tail + 1] \in Entries(dhead)
      BY <2>1 DEF Entries
    <2>3. Durable' = Durable
      BY ZenonT(30), <2>1, <2>2, DurableShadowed
    <2> QED
      BY ZenonT(40), <1>0, <2>1, <2>3, ActiveStep DEF Mem
  <1>17. CASE recover_erase
    <2>1. /\ boot = "install" /\ boot' = "up" /\ lh = dhead /\ tail = Len(lh)
          /\ dhead' = << >> /\ UNCHANGED <<home, cache, pc>>
      BY <1>17 DEF recover_erase, IInv, HeadInv
    <2>2. Durable = home
      BY ZenonT(60), <2>1, DurableInstalled
    <2>3. Durable' = home
      BY SMTT(30), <1>0, <2>1 DEF Durable, Entries, TypeOK
    <2>4. \A b \in Block : Contents(b)' = home[b]
      BY ZenonT(30), <2>1, Unheld DEF CacheInv, Contents
    <2>5. Mem' = home
      BY ZenonT(40), <1>0, <2>1, <2>4 DEF Mem, TypeOK
    <2> QED
      BY SMTT(40), <1>0, <2>1, <2>2, <2>3, <2>5, ActiveStep DEF Mem
  <1>18. CASE Crash
    <2>1. Durable' = Durable
      <3>1. CASE UNCHANGED <<home, dlog>>
        BY ZenonT(40), <1>2, <1>18, <3>1 DEF Crash
      <3>2. ASSUME NEW p \in Proc, pc[p] = "wlog", UNCHANGED home PROVE Durable' = Durable
        BY SMTT(40), <1>0, <1>18, <3>2, LogFree DEF Crash, Durable, Entries, TypeOK
      <3>3. ASSUME boot = "install" \/ Installing, tail < Len(lh), NEW v \in Val,
                   home' = [home EXCEPT ![lh[tail + 1]] = v], UNCHANGED dlog
            PROVE  Durable' = Durable
        <4>1. lh = dhead
          BY <3>3, InstallingPhase DEF IInv, HeadInv
        <4>2. lh[tail + 1] \in Entries(dhead)
          <5>1. tail + 1 \in 1 .. Len(lh)
            BY SMTT(40), <1>0, <3>3 DEF TypeOK
          <5> QED
            BY SMTT(40), <4>1, <5>1 DEF Entries
        <4> QED
          BY ZenonT(30), <1>18, <3>3, <4>2, DurableShadowed DEF Crash
      <3> QED
        BY ZenonT(30), <1>18, <3>1, <3>2, <3>3 DEF Crash
    <2>2. Mem' = Durable'
      BY <1>18 DEF Crash, Mem
    <2> QED
      BY <1>0, <1>18, <2>1, <2>2, ActiveStep DEF Atomic!Next, Atomic!Crash
  <1> QED
    BY ZenonT(40), <1>4, <1>5, <1>6, <1>7, <1>8, <1>9, <1>10, <1>11, <1>12, <1>13, <1>14,
       <1>15, <1>16, <1>17, <1>18 DEF Next, commit, Atomic!Next

(* The log implements the atomic disk for any number of processes, blocks   *)
(* and contents and any log geometry: a crash at any point of commit() or   *)
(* of recover_from_log() keeps or loses each file system call as a whole.   *)
THEOREM LogCrashAtomicity == Spec => CrashAtomicity
  <1>1. Init => Atomic!Init
    <2> SUFFICES ASSUME Init PROVE Atomic!Init
      OBVIOUS
    <2>1. Durable = home
      BY DEF Init, Durable, Entries
    <2>2. Active = {} /\ Mem = Durable
      BY DEF Init, Active, Mem
    <2> QED
      BY SMTT(40), <2>1, <2>2 DEF Init, Atomic!Init
  <1> QED
    BY <1>1, AtomicStep, LogDataInvariant, PTL
    DEF Spec, CrashAtomicity, Atomic!Spec, Atomic!vars
=============================================================================
