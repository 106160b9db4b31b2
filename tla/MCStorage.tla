----------------------------- MODULE MCStorage -----------------------------
(***************************************************************************)
(* What the kernel keeps between processes and a device, in one run: the   *)
(* log (module Log), the cache of blocks (BufCache) and the line being     *)
(* typed (Console). A behaviour is one of the three, as part says, and the *)
(* others stay in an initial state.                                        *)
(***************************************************************************)
EXTENDS Log, TLC

CONSTANTS CBlock, Bit, NBUF, NoProc, MaxPins, b1, b2, b3,
          INPUT_BUF_SIZE, UINT, MaxCount, Victims

VARIABLES part, blockno, valid, refcnt, lock, data, lru, cdisk, cpc, b, want, pins,
          cbuf, r, w, e, rpc, n, target, killed

(* The block of the log and an indirect block are held while another is. *)
MCInner == (b1 :> {b2, b3}) @@ (b2 :> {b3}) @@ (b3 :> {})

Cache == INSTANCE BufCache WITH Block <- CBlock, Inner <- MCInner,
                               Val <- Bit, disk <- cdisk, pc <- cpc
Input == INSTANCE Console WITH Readers <- Proc, buf <- cbuf, pc <- rpc
ASSUME Cache!BufCacheConstants /\ Input!ConsoleConstants

cachevars == <<blockno, valid, refcnt, lock, data, lru, cdisk, cpc, b, want, pins>>
consvars == <<cbuf, r, w, e, rpc, n, target, killed>>

Symmetry == Permutations(Proc) \cup Permutations(Bit)

(* A part that stays has one initial state. *)
MCInit ==
  /\ part \in {"log", "cache", "console"}
  /\ Init
  /\ Cache!Init
  /\ Input!Init
  /\ part # "cache" => LET v == CHOOSE x \in Bit : TRUE IN
                         data = [x \in Cache!Buf |-> v] /\ cdisk = [x \in CBlock |-> v]
  /\ part # "log" => LET v == CHOOSE x \in Val : TRUE IN
                       home = [x \in Block |-> v] /\ dlog = [s \in Slots |-> v]

MCNext ==
  \/ part = "log" /\ Next /\ UNCHANGED <<part, cachevars, consvars>>
  \/ part = "cache" /\ Cache!Next /\ UNCHANGED <<part, vars, consvars>>
  \/ part = "console" /\ Input!Next /\ UNCHANGED <<part, vars, cachevars>>

MCSpec == MCInit /\ [][MCNext]_<<part, vars, cachevars, consvars>>

(* The buffers of the cache: one for a block, counted right (see BufCache). *)
BuffersSound == Cache!BuffersSound

(* The cache implements a store of blocks (see BufCache).                   *)
IsBlockStore == Cache!IsBlockStore

(* Input is edited, handed over and read by lines (see Console).            *)
IsLineDiscipline == Input!IsLineDiscipline
=============================================================================
