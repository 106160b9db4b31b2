----------------------------- MODULE PipeProofs -----------------------------
(***************************************************************************)
(* Proofs about pipes, for every number of writers and readers, every size *)
(* of the buffer and every width of the counters: the pipe is a bounded    *)
(* queue, and nobody sleeps beside what they wait for.                     *)
(***************************************************************************)
EXTENDS Pipe, Integers, SequenceTheorems, TLAPS

(* Quotient and remainder, as the provers know them. *)
LEMMA DivMod ==
  ASSUME NEW m \in Nat \ {0}, NEW a \in Nat
  PROVE  /\ a \div m \in Nat
         /\ a = m * (a \div m) + (a % m)
         /\ a % m \in 0 .. m - 1
  <1>1. a % m \in 0 .. m - 1
    OBVIOUS
  <1>2. a \div m \in Nat
    OBVIOUS
  <1>3. a = m * (a \div m) + (a % m)
    OBVIOUS
  <1> QED
    BY <1>1, <1>2, <1>3

(* Multiples of m are at least m apart. *)
LEMMA Multiples ==
  ASSUME NEW m \in Nat \ {0}, NEW k \in Int, NEW j \in Int
  PROVE  /\ k > 0 => m * k >= m
         /\ k < 0 => m * k <= -m
         /\ m * (k + j) = m * k + m * j
         /\ m * (k - j) = m * k - m * j
         /\ m * 0 = 0
  OBVIOUS

(* The remainder is the only one. *)
LEMMA ModUnique ==
  ASSUME NEW m \in Nat \ {0}, NEW a \in Nat, NEW q \in Int, NEW r \in 0 .. m - 1,
         a = m * q + r
  PROVE  a % m = r
  <1> DEFINE d == a \div m
             k == q - d
  <1>1. d \in Nat /\ a = m * d + (a % m) /\ a % m \in 0 .. m - 1
    BY Zenon, DivMod
  <1>2. k \in Int /\ m * k = m * q - m * d
    BY <1>1, Multiples
  <1>3. m * q \in Int /\ m * d \in Int
    BY <1>1
  <1> DEFINE mq == m * q
             md == m * d
             mk == m * k
             rest == a % m
  <1>4. mk = rest - r
    <2>1. /\ a = mq + r /\ a = md + rest /\ mk = mq - md /\ rest \in 0 .. m - 1
          /\ mq \in Int /\ md \in Int
      BY <1>1, <1>2, <1>3
    <2> HIDE DEF mq, md, mk, rest
    <2> QED
      BY <2>1
  <1> HIDE DEF d, k
  <1>5. k = 0
    <2>1. ~(k > 0)
      BY <1>1, <1>2, <1>4, Multiples
    <2>2. ~(k < 0)
      BY <1>1, <1>2, <1>4, Multiples
    <2> QED
      BY <1>2, <2>1, <2>2
  <1> QED
    BY <1>1, <1>4, <1>5, Multiples

(* Numbers less than m apart have different remainders. *)
LEMMA ModWindow ==
  ASSUME NEW m \in Nat \ {0}, NEW a \in Nat, NEW b \in Nat, a < b, b < a + m
  PROVE  a % m # b % m
  <1> DEFINE d == a \div m
             e == b \div m
             k == e - d
  <1>1. /\ d \in Nat /\ a = m * d + (a % m) /\ a % m \in 0 .. m - 1
        /\ e \in Nat /\ b = m * e + (b % m) /\ b % m \in 0 .. m - 1
    BY Zenon, DivMod
  <1>2. k \in Int /\ m * k = m * e - m * d
    BY <1>1, Multiples
  <1>3. m * e \in Int /\ m * d \in Int
    BY <1>1
  <1> HIDE DEF d, e, k
  <1> SUFFICES ASSUME a % m = b % m PROVE FALSE
    OBVIOUS
  <1>4. m * k = b - a
    BY <1>1, <1>2, <1>3
  <1>5. ~(k > 0) /\ ~(k < 0) /\ k # 0
    BY <1>2, <1>4, Multiples
  <1> QED
    BY <1>2, <1>5

(* A multiple of m does not change the remainder. *)
LEMMA ModMultiple ==
  ASSUME NEW m \in Nat \ {0}, NEW u \in Nat, u % m = 0, NEW a \in Nat
  PROVE  (a + u) % m = a % m
  <1> DEFINE d == a \div m
             e == u \div m
  <1>1. /\ d \in Nat /\ a = m * d + (a % m) /\ a % m \in 0 .. m - 1
        /\ e \in Nat /\ u = m * e + (u % m)
    BY Zenon, DivMod
  <1>2. m * (d + e) = m * d + m * e
    BY <1>1, Multiples
  <1>3. m * e \in Int /\ m * d \in Int
    BY <1>1
  <1> HIDE DEF d, e
  <1>4. a + u = m * (d + e) + (a % m)
    BY <1>1, <1>2, <1>3
  <1>5. a + u \in Nat /\ d + e \in Int
    BY <1>1
  <1> QED
    BY Zenon, <1>1, <1>4, <1>5, ModUnique

(* Small remainders, without the quotient. *)
LEMMA ModNear ==
  ASSUME NEW m \in Nat \ {0}, NEW a \in 0 .. 2 * m - 1
  PROVE  a % m = IF a < m THEN a ELSE a - m
OBVIOUS

(* The distance from counter r to counter w, both modulo U. *)
Distance(r, w, U) == (w + U - r) % U

LEMMA DistanceIs ==
  ASSUME NEW U \in Nat \ {0}, NEW r \in 0 .. U - 1, NEW w \in 0 .. U - 1
  PROVE  Distance(r, w, U) = IF r <= w THEN w - r ELSE w + U - r
<1>1. PICK a \in 0 .. 2 * U - 1 : a = w + U - r
  OBVIOUS
<1>2. a % U = IF a < U THEN a ELSE a - U
  BY Zenon, ModNear
<1> QED
  BY <1>1, <1>2 DEF Distance

(* What the tests of the loops say of the distance, and what a step of a   *)
(* counter does to it.                                                     *)
LEMMA DistanceSteps ==
  ASSUME NEW U \in Nat \ {0}, NEW r \in 0 .. U - 1, NEW w \in 0 .. U - 1,
         NEW s \in 0 .. U - 1
  PROVE  /\ Distance(r, w, U) \in 0 .. U - 1
         /\ r = w <=> Distance(r, w, U) = 0
         /\ w = (r + s) % U <=> Distance(r, w, U) = s
         /\ (w + 1) % U \in 0 .. U - 1
         /\ (r + 1) % U \in 0 .. U - 1
         /\ Distance(r, w, U) < U - 1
              => Distance(r, (w + 1) % U, U) = Distance(r, w, U) + 1
         /\ Distance(r, w, U) > 0
              => Distance((r + 1) % U, w, U) = Distance(r, w, U) - 1
<1>1. Distance(r, w, U) = IF r <= w THEN w - r ELSE w + U - r
  BY DistanceIs
<1>2. (r + s) % U = IF r + s < U THEN r + s ELSE r + s - U
  <2>1. PICK a \in 0 .. 2 * U - 1 : a = r + s
    OBVIOUS
  <2>2. a % U = IF a < U THEN a ELSE a - U
    BY Zenon, ModNear
  <2> QED
    BY <2>1, <2>2
<1>3. ASSUME NEW c \in 0 .. U - 1
      PROVE  (c + 1) % U = IF c = U - 1 THEN 0 ELSE c + 1
  <2>1. PICK a \in 0 .. 2 * U - 1 : a = c + 1
    OBVIOUS
  <2>2. a % U = IF a < U THEN a ELSE a - U
    BY Zenon, ModNear
  <2> QED
    BY <2>1, <2>2
<1>4. (w + 1) % U \in 0 .. U - 1 /\ (r + 1) % U \in 0 .. U - 1
  BY <1>3
<1>5. Distance(r, (w + 1) % U, U)
        = IF r <= (w + 1) % U THEN ((w + 1) % U) - r ELSE ((w + 1) % U) + U - r
  BY <1>4, DistanceIs
<1>6. Distance((r + 1) % U, w, U)
        = IF (r + 1) % U <= w THEN w - ((r + 1) % U) ELSE w + U - ((r + 1) % U)
  BY <1>4, DistanceIs
<1>7. /\ Distance(r, w, U) \in 0 .. U - 1
      /\ r = w <=> Distance(r, w, U) = 0
      /\ w = (r + s) % U <=> Distance(r, w, U) = s
  BY <1>1, <1>2
<1>8. Distance(r, w, U) < U - 1
              => Distance(r, (w + 1) % U, U) = Distance(r, w, U) + 1
  BY <1>1, <1>3, <1>5
<1>9. Distance(r, w, U) > 0
              => Distance((r + 1) % U, w, U) = Distance(r, w, U) - 1
  BY <1>1, <1>3, <1>6
<1> QED
  BY <1>4, <1>7, <1>8, <1>9

-----------------------------------------------------------------------------
(* The inductive invariant *)

Locals == {"idle", "write", "put", "read", "empty", "copy", "woken_w", "woken_r"}
Inside == {"write", "put", "read", "empty", "copy"}

LocalsOK ==
  /\ lock \in Procs \cup {Free}
  /\ pc \in [Procs -> Locals]
  /\ n \in [Procs -> Nat]
  /\ i \in [Procs -> Nat]

TypeOK ==
  /\ data \in [0 .. PIPESIZE - 1 -> Byte]
  /\ nread \in 0 .. UINT - 1
  /\ nwrite \in 0 .. UINT - 1
  /\ readopen \in BOOLEAN
  /\ writeopen \in BOOLEAN
  /\ ends \subseteq Procs
  /\ killed \subseteq Victims
  /\ chan \in [Procs -> {"none", "nread", "nwrite"}]
  /\ LocalsOK

(* The bytes in the pipe, which the wrapped counters tell. *)
Used == Distance(nread, nwrite, UINT)

(* The call that holds pi->lock is the one inside its loop. *)
LockInv == \A p \in Procs : pc[p] \in Inside <=> lock = p

(* Who is in a call has its end open, and an end that somebody has open is *)
(* open in struct pipe.                                                    *)
EndsInv ==
  /\ \A p \in Procs : pc[p] # "idle" => p \in ends
  /\ ends \cap Readers # {} => readopen
  /\ ends \cap Writers # {} => writeopen
  /\ \A p \in Procs : pc[p] \in {"write", "put", "woken_w"} => p \in Writers
  /\ \A p \in Procs : pc[p] \in {"read", "empty", "copy", "woken_r"} => p \in Readers

(* Who sleeps where, and what a call knows at a place inside its loop. *)
PlaceInv ==
  /\ \A p \in Procs : chan[p] = "nwrite" => pc[p] = "woken_w"
  /\ \A p \in Procs : chan[p] = "nread" => pc[p] = "woken_r"
  /\ \A p \in Procs : pc[p] = "put" => readopen
  /\ \A p \in Procs : pc[p] = "empty" => Empty /\ writeopen

(* A sleeper waits for something that has not happened, or the call that   *)
(* made it happen is still inside its loop and wakes the sleeper after it. *)
SleepInv ==
  /\ \A p \in Procs : chan[p] = "nwrite" =>
       readopen /\ (Full \/ \E q \in Procs : pc[q] = "copy")
  /\ \A p \in Procs : chan[p] = "nread" =>
       writeopen /\ (Empty \/ \E q \in Procs : pc[q] \in {"write", "put"})

IInv ==
  /\ TypeOK
  /\ Used <= PIPESIZE
  /\ LockInv
  /\ EndsInv
  /\ PlaceInv
  /\ killed \cap Writers = {} => SleepInv

(* The actions one by one. Of the sleepers only the branches that leave    *)
(* the loop, fill or drain the pipe, or close an end have something to say. *)
LEMMA CallStep ==
  ASSUME PipeConstants, IInv, NEW p \in Procs, NEW count \in Counts, call(p, count)
  PROVE  IInv'
<1> USE DEF PipeConstants, Procs
<1>1. TypeOK'
  BY DEF IInv, TypeOK, LocalsOK, call, Goto, pipe, Locals
<1>2. Used' <= PIPESIZE
  BY DEF IInv, Used, call, pipe
<1>3. LockInv'
  BY DEF IInv, TypeOK, LocalsOK, LockInv, call, Goto, Inside
<1>4. EndsInv'
  BY DEF IInv, TypeOK, LocalsOK, EndsInv, call, Goto, pipe
<1>5. PlaceInv'
  BY DEF IInv, TypeOK, LocalsOK, PlaceInv, call, Goto, pipe, Empty
<1>6. (killed \cap Writers = {} => SleepInv)'
  BY DEF IInv, TypeOK, LocalsOK, SleepInv, LockInv, Inside, call, Goto, pipe, Empty, Full
<1> QED
  BY <1>1, <1>2, <1>3, <1>4, <1>5, <1>6 DEF IInv

LEMMA ReacquireStep ==
  ASSUME PipeConstants, IInv, NEW p \in Procs, reacquire(p)
  PROVE  IInv'
<1> USE DEF PipeConstants, Procs
<1>1. TypeOK'
  BY DEF IInv, TypeOK, LocalsOK, reacquire, Goto, pipe, Locals
<1>2. Used' <= PIPESIZE
  BY DEF IInv, Used, reacquire, pipe
<1>3. LockInv'
  BY DEF IInv, TypeOK, LocalsOK, LockInv, reacquire, Goto, Inside
<1>4. EndsInv'
  BY DEF IInv, TypeOK, LocalsOK, EndsInv, reacquire, Goto, pipe
<1>5. PlaceInv'
  BY DEF IInv, TypeOK, LocalsOK, PlaceInv, reacquire, Goto, Awake, pipe, Empty
<1>6. (killed \cap Writers = {} => SleepInv)'
  BY DEF IInv, TypeOK, LocalsOK, SleepInv, LockInv, Inside, reacquire, Goto, pipe, Empty, Full
<1> QED
  BY <1>1, <1>2, <1>3, <1>4, <1>5, <1>6 DEF IInv

(* wakeup() takes everybody off one channel. *)
LEMMA WakeupChans ==
  ASSUME TypeOK, NEW c
  PROVE  /\ Wakeup(c) \in [Procs -> {"none", "nread", "nwrite"}]
         /\ \A q \in Procs : Wakeup(c)[q] # "none" => chan[q] # c /\ Wakeup(c)[q] = chan[q]
<1>1. \A q \in Procs : Wakeup(c)[q] = IF chan[q] = c THEN "none" ELSE chan[q]
  BY DEF Wakeup
<1>2. Wakeup(c) \in [Procs -> {"none", "nread", "nwrite"}]
  BY DEF TypeOK, Wakeup
<1> QED
  BY <1>1, <1>2

(* What return leaves behind is well typed. *)
LEMMA ReturnLocals ==
  ASSUME TypeOK, NEW p \in Procs, Return(p)
  PROVE  LocalsOK'
BY DEF TypeOK, LocalsOK, Return, Goto, Locals

(* The head of a writer's loop. A writer that gives up wakes no reader: if *)
(* it was not killed, the read end is closed and no reader is left.        *)
LEMMA WriteCheckStep ==
  ASSUME PipeConstants, IInv, NEW p \in Procs, write_check(p)
  PROVE  IInv'
<1> USE DEF PipeConstants
<1>w. /\ Wakeup("nread") \in [Procs -> {"none", "nread", "nwrite"}]
      /\ \A q \in Procs : Wakeup("nread")[q] # "none"
                            => chan[q] # "nread" /\ Wakeup("nread")[q] = chan[q]
  BY WakeupChans DEF IInv
<1>1. TypeOK'
  <2>1. chan' \in [Procs -> {"none", "nread", "nwrite"}]
    BY <1>w DEF IInv, TypeOK, LocalsOK, write_check
  <2>2. LocalsOK'
    <3>1. CASE Return(p)
      BY <3>1, ReturnLocals DEF IInv
    <3>2. CASE Goto(p, "put") /\ UNCHANGED <<lock, n, i>>
      BY <3>2 DEF IInv, TypeOK, LocalsOK, Goto, Locals
    <3> QED
      BY <3>1, <3>2 DEF write_check
  <2> QED
    BY SMTT(40), <2>1, <2>2 DEF IInv, TypeOK, LocalsOK, write_check, pipe
<1>2. Used' <= PIPESIZE
  BY DEF IInv, Used, write_check, pipe
<1>3. LockInv'
  BY ZenonT(40) DEF IInv, TypeOK, LocalsOK, LockInv, write_check, Return, Goto, Inside
<1>4. EndsInv'
  BY DEF IInv, TypeOK, LocalsOK, EndsInv, write_check, Return, Goto, pipe
<1>5. PlaceInv'
  BY <1>w DEF IInv, TypeOK, LocalsOK, PlaceInv, LockInv, write_check, Return, Goto, pipe, Empty, Inside
<1>6. ASSUME killed' \cap Writers = {}
      PROVE  SleepInv'
  <2>0. /\ SleepInv /\ LockInv /\ EndsInv /\ PlaceInv /\ TypeOK
        /\ pc[p] = "write" /\ p \in Writers /\ p \notin killed
        /\ \A q \in Procs : pc[q] \in Inside => q = p
        /\ Empty' = Empty /\ Full' = Full /\ readopen' = readopen /\ writeopen' = writeopen
    BY <1>6 DEF IInv, LockInv, EndsInv, Inside, write_check, pipe, Empty, Full
  <2>1. CASE chan' = Wakeup("nread") /\ Return(p)
    BY <2>0, <2>1, <1>w DEF SleepInv, Inside, Return, Goto, TypeOK, LocalsOK
  <2>2. CASE ~readopen /\ Return(p) /\ UNCHANGED chan
    <3>1. \A q \in Procs : chan[q] # "nread" /\ chan[q] # "nwrite"
      BY <2>0, <2>2 DEF SleepInv, EndsInv, PlaceInv
    <3> QED
      BY <3>1, <2>2 DEF SleepInv
  <2>3. CASE Goto(p, "put") /\ UNCHANGED <<lock, chan, n, i>>
    BY <2>0, <2>3 DEF SleepInv, Inside, Goto, TypeOK, LocalsOK
  <2> QED
    BY <2>0, <2>1, <2>2, <2>3 DEF write_check
<1> QED
  BY <1>1, <1>2, <1>3, <1>4, <1>5, <1>6 DEF IInv

(* The counters: what Full and Empty say, and what Store and a read of a   *)
(* byte do to the number of bytes in the pipe.                             *)
LEMMA Counters ==
  ASSUME PipeConstants, IInv
  PROVE  /\ Used \in 0 .. PIPESIZE
         /\ Empty <=> Used = 0
         /\ Full <=> Used = PIPESIZE
         /\ Used < PIPESIZE /\ nwrite' = (nwrite + 1) % UINT /\ nread' = nread
              => Used' = Used + 1 /\ nwrite' \in 0 .. UINT - 1
         /\ Used > 0 /\ nread' = (nread + 1) % UINT /\ nwrite' = nwrite
              => Used' = Used - 1 /\ nread' \in 0 .. UINT - 1
<1>1. /\ UINT \in Nat \ {0} /\ PIPESIZE \in 0 .. UINT - 1
      /\ nread \in 0 .. UINT - 1 /\ nwrite \in 0 .. UINT - 1
      /\ Used <= PIPESIZE
  BY DEF PipeConstants, IInv, TypeOK
<1>2. /\ Used \in 0 .. UINT - 1
      /\ nread = nwrite <=> Used = 0
      /\ nwrite = (nread + PIPESIZE) % UINT <=> Used = PIPESIZE
      /\ (nwrite + 1) % UINT \in 0 .. UINT - 1
      /\ (nread + 1) % UINT \in 0 .. UINT - 1
      /\ Used < UINT - 1 => Distance(nread, (nwrite + 1) % UINT, UINT) = Used + 1
      /\ Used > 0 => Distance((nread + 1) % UINT, nwrite, UINT) = Used - 1
  BY <1>1, DistanceSteps DEF Used
<1> QED
  BY <1>1, <1>2 DEF Used, Empty, Full

(* The body of a writer's loop. *)
LEMMA WritePutStep ==
  ASSUME PipeConstants, IInv, NEW p \in Procs, write_put(p)
  PROVE  IInv'
<1> USE DEF PipeConstants
<1>w. /\ Wakeup("nread") \in [Procs -> {"none", "nread", "nwrite"}]
      /\ \A q \in Procs : Wakeup("nread")[q] # "none"
                            => chan[q] # "nread" /\ Wakeup("nread")[q] = chan[q]
  BY WakeupChans DEF IInv
<1>0. /\ TypeOK /\ LockInv /\ EndsInv /\ PlaceInv /\ LocalsOK /\ Used <= PIPESIZE
      /\ pc[p] = "put" /\ p \in Writers /\ readopen
      /\ \A q \in Procs : pc[q] \in Inside => q = p
      /\ UNCHANGED <<nread, readopen, writeopen, ends, killed>>
  BY DEF IInv, LockInv, EndsInv, PlaceInv, Inside, write_put, TypeOK
<1>1. CASE /\ Full
           /\ Sleep(p, [Wakeup("nread") EXCEPT ![p] = "nwrite"], "woken_w")
           /\ UNCHANGED <<data, nwrite, n, i>>
  <2>0. /\ lock' = Free
        /\ chan' \in [Procs -> {"none", "nread", "nwrite"}]
        /\ chan'[p] = "nwrite"
        /\ \A q \in Procs \ {p} : chan'[q] # "none" => chan'[q] = chan[q] /\ chan[q] # "nread"
        /\ pc' = [pc EXCEPT ![p] = "woken_w"]
    BY <1>0, <1>1, <1>w DEF Sleep, Goto
  <2>1. TypeOK' /\ (Used <= PIPESIZE)'
    BY <1>0, <1>1, <2>0 DEF TypeOK, LocalsOK, Locals, Used
  <2>2. LockInv' /\ EndsInv'
    BY <1>0, <2>0 DEF LocalsOK, LockInv, EndsInv, Inside
  <2>3. PlaceInv'
    BY <1>0, <1>1, <2>0 DEF LocalsOK, PlaceInv, Inside
  <2>4. SleepInv'
    BY <1>0, <1>1, <2>0 DEF SleepInv, Full
  <2> QED
    BY <2>1, <2>2, <2>3, <2>4 DEF IInv
<1>2. CASE /\ ~Full
           /\ Store
           /\ i' = [i EXCEPT ![p] = @ + 1]
           /\ Goto(p, "write")
           /\ UNCHANGED <<lock, chan, n>>
  <2>1. Used' = Used + 1 /\ Used' <= PIPESIZE /\ nwrite' \in 0 .. UINT - 1
    BY <1>0, <1>2, Counters DEF Store
  <2>2. TypeOK'
    <3>1. data' \in [0 .. PIPESIZE - 1 -> Byte]
      BY ZenonT(60), <1>0, <1>2 DEF Store, TypeOK
    <3> QED
      BY SMTT(40), <3>1, <2>1, <1>0, <1>2 DEF TypeOK, LocalsOK, Locals, Goto
  <2>3. LockInv' /\ EndsInv'
    BY <1>0, <1>2 DEF LocalsOK, LockInv, EndsInv, Inside, Goto
  <2>4. PlaceInv'
    BY <1>0, <1>2 DEF LocalsOK, PlaceInv, Inside, Goto
  <2>5. ASSUME killed' \cap Writers = {}
        PROVE  SleepInv'
    <3>1. SleepInv
      BY <1>0, <2>5 DEF IInv
    <3>2. \A q \in Procs : chan[q] # "nwrite"
      BY <1>0, <1>2, <3>1 DEF SleepInv, Inside
    <3> QED
      BY <1>0, <1>2, <3>1, <3>2 DEF SleepInv, Goto, LocalsOK
  <2> QED
    BY SMTT(40), <2>1, <2>2, <2>3, <2>4, <2>5 DEF IInv
<1>3. CASE /\ ~Full
           /\ chan' = Wakeup("nread")
           /\ Return(p)
           /\ UNCHANGED <<data, nwrite>>
  <2>1. TypeOK' /\ (Used <= PIPESIZE)'
    BY <1>0, <1>3, <1>w, ReturnLocals DEF TypeOK, Used
  <2>2. LockInv' /\ EndsInv'
    BY <1>0, <1>3 DEF LocalsOK, LockInv, EndsInv, Inside, Return, Goto
  <2>3. PlaceInv'
    BY <1>0, <1>3, <1>w DEF LocalsOK, PlaceInv, Inside, Return, Goto
  <2>4. killed' \cap Writers = {} => SleepInv'
    BY <1>0, <1>3, <1>w DEF IInv, SleepInv, Full, Inside, Return, Goto, LocalsOK
  <2> QED
    BY <2>1, <2>2, <2>3, <2>4 DEF IInv
<1> QED
  BY <1>1, <1>2, <1>3 DEF write_put

(* The head of a reader's loop, and its sleep. *)
LEMMA ReadCheckStep ==
  ASSUME PipeConstants, IInv, NEW p \in Procs, read_check(p)
  PROVE  IInv'
<1> USE DEF PipeConstants
<1>0. /\ TypeOK /\ LocalsOK
      /\ pc[p] = "read"
      /\ UNCHANGED <<pipe, ends, killed, chan>>
  BY DEF IInv, TypeOK, read_check
<1>1. TypeOK' /\ (Used <= PIPESIZE)'
  <2>1. LocalsOK'
    <3>1. CASE Return(p)
      BY <1>0, <3>1, ReturnLocals
    <3>2. CASE (Goto(p, "empty") \/ Goto(p, "copy")) /\ UNCHANGED <<lock, n, i>>
      BY <1>0, <3>2 DEF LocalsOK, Goto, Locals
    <3> QED
      BY <3>1, <3>2 DEF read_check
  <2> QED
    BY <1>0, <2>1 DEF IInv, TypeOK, Used, pipe
<1>2. LockInv' /\ EndsInv'
  BY <1>0 DEF IInv, LocalsOK, LockInv, EndsInv, Inside, Return, Goto, pipe, read_check
<1>3. PlaceInv'
  BY <1>0 DEF IInv, LocalsOK, PlaceInv, Empty, Return, Goto, pipe, read_check
<1>4. (killed \cap Writers = {} => SleepInv)'
  BY <1>0 DEF IInv, LocalsOK, SleepInv, Empty, Full, LockInv, Inside, Return, Goto, pipe, read_check
<1> QED
  BY <1>1, <1>2, <1>3, <1>4 DEF IInv

LEMMA ReadSleepStep ==
  ASSUME PipeConstants, IInv, NEW p \in Procs, read_sleep(p)
  PROVE  IInv'
<1> USE DEF PipeConstants
<1>0. /\ TypeOK /\ LocalsOK
      /\ pc[p] = "empty" /\ Empty /\ writeopen
      /\ lock' = Free
      /\ pc' = [pc EXCEPT ![p] = "woken_r"]
      /\ chan' = [chan EXCEPT ![p] = "nread"]
      /\ UNCHANGED <<pipe, ends, killed, n, i>>
  BY DEF IInv, TypeOK, PlaceInv, read_sleep, Sleep, Goto
<1>1. TypeOK' /\ (Used <= PIPESIZE)'
  BY <1>0 DEF IInv, TypeOK, LocalsOK, Locals, Used, pipe
<1>2. LockInv' /\ EndsInv'
  BY <1>0 DEF IInv, LocalsOK, LockInv, EndsInv, Inside, pipe
<1>3. PlaceInv'
  BY <1>0 DEF IInv, TypeOK, LocalsOK, PlaceInv, Empty, pipe
<1>4. (killed \cap Writers = {} => SleepInv)'
  BY <1>0 DEF IInv, TypeOK, LocalsOK, SleepInv, Empty, Full, LockInv, Inside, pipe
<1> QED
  BY <1>1, <1>2, <1>3, <1>4 DEF IInv

(* The copy loop: who drains the pipe wakes the writers when it returns.   *)
LEMMA ReadCopyStep ==
  ASSUME PipeConstants, IInv, NEW p \in Procs, read_copy(p)
  PROVE  IInv'
<1> USE DEF PipeConstants
<1>w. /\ WakeWriters \in [Procs -> {"none", "nread", "nwrite"}]
      /\ \A q \in Procs : WakeWriters[q] # "none"
                            => chan[q] # "nwrite" /\ WakeWriters[q] = chan[q]
  BY WakeupChans DEF IInv, WakeWriters
<1>0. /\ TypeOK /\ LockInv /\ EndsInv /\ PlaceInv /\ LocalsOK /\ Used <= PIPESIZE
      /\ pc[p] = "copy" /\ p \in Readers
      /\ \A q \in Procs : pc[q] \in Inside => q = p
      /\ UNCHANGED <<data, nwrite, readopen, writeopen, ends, killed>>
  BY DEF IInv, LockInv, EndsInv, Inside, read_copy, TypeOK
<1>1. /\ Used' <= PIPESIZE /\ nread' \in 0 .. UINT - 1
      /\ nread' # nread => ~Empty
  <2>1. CASE ~Empty /\ nread' = (nread + 1) % UINT
    BY <1>0, <2>1, Counters
  <2>2. CASE UNCHANGED nread
    BY <1>0, <2>2 DEF Used, TypeOK
  <2> QED
    BY <2>1, <2>2 DEF read_copy
<1>2. ASSUME killed' \cap Writers = {}
      PROVE  /\ SleepInv
             /\ ~Empty => \A q \in Procs : chan[q] # "nread"
  BY <1>0, <1>2 DEF IInv, SleepInv, Inside
<1>3. CASE i' = [i EXCEPT ![p] = @ + 1] /\ ~Empty /\ UNCHANGED <<lock, chan, pc, n>>
  <2>1. TypeOK'
    BY SMTT(40), <1>0, <1>1, <1>3 DEF TypeOK, LocalsOK
  <2>2. LockInv' /\ EndsInv'
    BY <1>0, <1>3 DEF LockInv, EndsInv
  <2>3. PlaceInv'
    BY <1>0, <1>3 DEF PlaceInv, Inside
  <2>4. killed' \cap Writers = {} => SleepInv'
    BY <1>0, <1>2, <1>3 DEF SleepInv
  <2> QED
    BY <1>1, <2>1, <2>2, <2>3, <2>4 DEF IInv
<1>4. CASE chan' = WakeWriters /\ Return(p)
  <2>1. TypeOK'
    BY <1>0, <1>1, <1>4, <1>w, ReturnLocals DEF TypeOK
  <2>2. LockInv' /\ EndsInv'
    BY <1>0, <1>4 DEF LocalsOK, LockInv, EndsInv, Inside, Return, Goto
  <2>3. PlaceInv'
    BY SMTT(40), <1>0, <1>4, <1>w DEF LocalsOK, PlaceInv, Inside, Return, Goto
  <2>4. ASSUME killed' \cap Writers = {}
        PROVE  SleepInv'
    <3>1. \A q \in Procs : chan'[q] # "nwrite"
      BY <1>0, <1>4, <1>w DEF TypeOK
    <3>2. \A q \in Procs : chan'[q] = "nread" => writeopen /\ Empty /\ nread' = nread
      BY <1>0, <1>1, <1>2, <1>4, <1>w, <2>4 DEF SleepInv, Inside
    <3> QED
      BY <1>0, <3>1, <3>2 DEF SleepInv, Empty
  <2> QED
    BY <1>1, <2>1, <2>2, <2>3, <2>4 DEF IInv
<1> QED
  BY <1>3, <1>4 DEF read_copy

(* close(): the last holder of an end wakes the other side. *)
LEMMA CloseStep ==
  ASSUME PipeConstants, IInv, NEW p \in Procs, close(p)
  PROVE  IInv'
<1> USE DEF PipeConstants
<1> DEFINE end == IF p \in Writers THEN Writers ELSE Readers
           c   == IF p \in Writers THEN "nread" ELSE "nwrite"
<1>w. /\ Wakeup(c) \in [Procs -> {"none", "nread", "nwrite"}]
      /\ \A q \in Procs : Wakeup(c)[q] # "none"
                            => chan[q] # c /\ Wakeup(c)[q] = chan[q]
  BY WakeupChans DEF IInv
<1>0. /\ TypeOK /\ LockInv /\ EndsInv /\ PlaceInv /\ LocalsOK /\ Used <= PIPESIZE
      /\ pc[p] = "idle" /\ p \in ends
      /\ \A q \in Procs : pc[q] \notin Inside
      /\ ends' = ends \ {p}
      /\ UNCHANGED <<data, nread, nwrite, lock, killed, pc, n, i>>
  BY DEF IInv, LockInv, Inside, close, TypeOK
<1>1. killed' \cap Writers = {} => SleepInv
  BY <1>0 DEF IInv
<1>2. CASE ends \cap end # {p} /\ UNCHANGED <<readopen, writeopen, chan>>
  <2>1. TypeOK'
    BY <1>0, <1>2 DEF TypeOK, LocalsOK
  <2>2. Used' <= PIPESIZE /\ LockInv' /\ EndsInv'
    BY <1>0, <1>2 DEF Used, LockInv, EndsInv
  <2>3. PlaceInv'
    BY <1>0, <1>2 DEF PlaceInv, Inside
  <2>4. killed' \cap Writers = {} => SleepInv'
    BY <1>0, <1>1, <1>2 DEF SleepInv, Empty, Full
  <2> QED
    BY <2>1, <2>2, <2>3, <2>4 DEF IInv
<1>3. CASE ends \cap end = {p} /\ pipeclose(p)
  <2>1. TypeOK'
    BY <1>0, <1>3, <1>w DEF TypeOK, LocalsOK, pipeclose
  <2>2. Used' <= PIPESIZE /\ LockInv'
    BY <1>0 DEF Used, LockInv
  <2>3. EndsInv'
    BY ZenonT(40), <1>0, <1>3 DEF EndsInv, pipeclose, Procs
  <2>4. PlaceInv'
    BY <1>0, <1>3, <1>w DEF PlaceInv, Inside, pipeclose
  <2>5. ASSUME killed' \cap Writers = {}
        PROVE  SleepInv'
    <3>1. CASE p \in Writers
      BY Zenon, <1>0, <1>1, <1>3, <1>w, <2>5, <3>1 DEF SleepInv, Inside, Empty, Full, pipeclose
    <3>2. CASE p \notin Writers
      BY Zenon, <1>0, <1>1, <1>3, <1>w, <2>5, <3>2 DEF SleepInv, Inside, Empty, Full, pipeclose
    <3> QED
      BY <3>1, <3>2
  <2> QED
    BY SMTT(40), <2>1, <2>2, <2>3, <2>4, <2>5 DEF IInv
<1> QED
  BY <1>2, <1>3 DEF close

LEMMA KillStep ==
  ASSUME PipeConstants, IInv, NEW p \in Procs, kill(p)
  PROVE  IInv'
<1>0. /\ TypeOK /\ LockInv /\ EndsInv /\ PlaceInv /\ LocalsOK /\ Used <= PIPESIZE
      /\ killed' \cap Writers = {} => SleepInv
      /\ chan' \in [Procs -> {"none", "nread", "nwrite"}]
      /\ \A q \in Procs : chan'[q] # "none" => chan'[q] = chan[q]
      /\ killed' \subseteq Victims
      /\ UNCHANGED <<pipe, lock, ends, pc, n, i>>
  BY DEF IInv, TypeOK, kill
<1>1. TypeOK' /\ (Used <= PIPESIZE)'
  BY SMTT(40), <1>0 DEF TypeOK, LocalsOK, Used, pipe
<1>2. LockInv' /\ EndsInv'
  BY ZenonT(60), <1>0 DEF LockInv, EndsInv, pipe
<1>3. PlaceInv'
  BY <1>0 DEF PlaceInv, Empty, pipe
<1>4. (killed \cap Writers = {})' => SleepInv'
  BY <1>0 DEF SleepInv, Empty, Full, pipe
<1> QED
  BY <1>1, <1>2, <1>3, <1>4 DEF IInv

(* The invariant holds of every pipe. *)
LEMMA InitIInv ==
  ASSUME PipeConstants, Init
  PROVE  IInv
<1> USE DEF PipeConstants
<1>1. Used = 0
  <2>1. 0 \in 0 .. UINT - 1 /\ UINT \in Nat \ {0}
    OBVIOUS
  <2> QED
    BY <2>1, DistanceIs DEF Init, Used
<1>2. TypeOK
  BY DEF Init, TypeOK, LocalsOK, Locals
<1>3. LockInv /\ EndsInv /\ PlaceInv /\ SleepInv
  BY DEF Init, LockInv, EndsInv, PlaceInv, SleepInv, Inside
<1> QED
  BY <1>1, <1>2, <1>3 DEF IInv

LEMMA NextIInv ==
  ASSUME PipeConstants, IInv, [Next]_vars
  PROVE  IInv'
<1>1. CASE Next
  BY SMTT(30), <1>1, CallStep, ReacquireStep, WriteCheckStep, WritePutStep, ReadCheckStep,
     ReadSleepStep, ReadCopyStep, CloseStep, KillStep DEF Next, Step
<1>2. CASE UNCHANGED vars
  BY <1>2 DEF vars, pipe, IInv, TypeOK, LocalsOK, Used, LockInv, EndsInv,
              PlaceInv, SleepInv, Empty, Full
<1> QED
  BY <1>1, <1>2

LEMMA AlwaysIInv ==
  ASSUME PipeConstants
  PROVE  Spec => []IInv
BY InitIInv, NextIInv, PTL DEF Spec

(* piperead() and pipewrite() leave nobody asleep beside what they wait    *)
(* for, as long as no writer is killed: the writer that finds itself       *)
(* killed returns without the wakeup for the bytes it has written.         *)
THEOREM PipeNoneStranded ==
  ASSUME PipeConstants
  PROVE  Spec => [](killed \cap Writers = {} => NoneStranded)
<1>1. ASSUME IInv, killed \cap Writers = {}
      PROVE  NoneStranded
  BY <1>1 DEF PipeConstants, IInv, SleepInv, LockInv, Inside, NoneStranded
<1> QED
  BY <1>1, AlwaysIInv, PTL

-----------------------------------------------------------------------------
(* The pipe implements the queue *)

(* The place a counter points at does not see the wrap of the counter.     *)
LEMMA IndexWrap ==
  ASSUME PipeConstants, NEW c \in Nat, NEW d \in Nat, d = c \/ c = d + UINT
  PROVE  c % PIPESIZE = d % PIPESIZE
<1>1. PIPESIZE \in Nat \ {0} /\ UINT \in Nat /\ UINT % PIPESIZE = 0
  BY DEF PipeConstants
<1>2. CASE c = d + UINT
  BY Zenon, <1>1, <1>2, ModMultiple
<1> QED
  BY <1>2

(* The bytes in the pipe lie at different places, and the next one goes    *)
(* behind the last.                                                        *)
LEMMA Places ==
  ASSUME PipeConstants, IInv
  PROVE  /\ \A k \in 1 .. Used : Used < PIPESIZE =>
              (nread + k - 1) % PIPESIZE # nwrite % PIPESIZE
         /\ (nread + Used) % PIPESIZE = nwrite % PIPESIZE
         /\ \A k \in Nat : (nread + k) % PIPESIZE \in 0 .. PIPESIZE - 1
         /\ nwrite % PIPESIZE \in 0 .. PIPESIZE - 1
<1>1. /\ PIPESIZE \in Nat \ {0} /\ UINT \in Nat \ {0} /\ PIPESIZE < UINT
      /\ nread \in 0 .. UINT - 1 /\ nwrite \in 0 .. UINT - 1
  BY DEF PipeConstants, IInv, TypeOK
<1>2. Used \in 0 .. PIPESIZE
  BY Counters
<1>3. nwrite = nread + Used \/ nread + Used = nwrite + UINT
  BY <1>1, DistanceIs DEF Used
<1>4. (nread + Used) % PIPESIZE = nwrite % PIPESIZE
  <2>1. nread + Used \in Nat /\ nwrite \in Nat
    BY <1>1, <1>2
  <2> QED
    BY <1>3, <2>1, IndexWrap
<1>5. ASSUME NEW k \in 1 .. Used, Used < PIPESIZE
      PROVE  (nread + k - 1) % PIPESIZE # (nread + Used) % PIPESIZE
  <2>1. PICK a \in Nat, b \in Nat : a = nread + k - 1 /\ b = nread + Used
    BY <1>1, <1>2
  <2>2. a < b /\ b < a + PIPESIZE
    BY <1>1, <1>2, <1>5, <2>1
  <2> QED
    BY Zenon, <1>1, <2>1, <2>2, ModWindow
<1>6. ASSUME NEW c \in Nat
      PROVE  c % PIPESIZE \in 0 .. PIPESIZE - 1
  BY <1>1
<1>7. \A k \in Nat : (nread + k) % PIPESIZE \in 0 .. PIPESIZE - 1
  <2>1. \A k \in Nat : nread + k \in Nat
    BY <1>1
  <2> QED
    BY <1>6, <2>1
<1>8. nwrite % PIPESIZE \in 0 .. PIPESIZE - 1
  BY <1>1, <1>6
<1> QED
  BY <1>4, <1>5, <1>7, <1>8

LEMMA ContentsIs ==
  ASSUME PipeConstants, IInv
  PROVE  /\ Contents = [k \in 1 .. Used |-> data[(nread + k - 1) % PIPESIZE]]
         /\ Contents \in Seq(Byte)
         /\ Len(Contents) = Used
<1>1. Used \in Nat
  BY Counters
<1>2. Contents = [k \in 1 .. Used |-> data[(nread + k - 1) % PIPESIZE]]
  BY DEF Contents, Used, Distance
<1>3. \A k \in 1 .. Used : data[(nread + k - 1) % PIPESIZE] \in Byte
  <2>1. ASSUME NEW k \in 1 .. Used PROVE data[(nread + k - 1) % PIPESIZE] \in Byte
    <3>1. PICK j \in Nat : j = k - 1 /\ nread + k - 1 = nread + j
      BY <1>1 DEF IInv, TypeOK
    <3>2. (nread + j) % PIPESIZE \in 0 .. PIPESIZE - 1
      BY Places
    <3> QED
      BY <3>1, <3>2 DEF IInv, TypeOK
  <2> QED
    BY <2>1
<1> QED
  BY <1>1, <1>2, <1>3

(* A byte stored is a byte appended. *)
LEMMA StoreAppends ==
  ASSUME PipeConstants, IInv, ~Full, UNCHANGED nread,
         NEW b \in Byte, data' = [data EXCEPT ![nwrite % PIPESIZE] = b],
         nwrite' = (nwrite + 1) % UINT
  PROVE  Len(Contents) < PIPESIZE /\ Contents' = Append(Contents, b)
<1>1. Used \in 0 .. PIPESIZE - 1 /\ Used' = Used + 1
  BY Counters DEF PipeConstants
<1>2. ASSUME NEW k \in 1 .. Used + 1
      PROVE  data'[(nread' + k - 1) % PIPESIZE]
               = IF k = Used + 1 THEN b ELSE data[(nread + k - 1) % PIPESIZE]
  <2>1. CASE k = Used + 1
    <3>1. nread + k - 1 = nread + Used
      BY <1>1, <2>1 DEF IInv, TypeOK
    <3> QED
      BY <3>1, <2>1, Places DEF IInv, TypeOK
  <2>2. CASE k # Used + 1
    <3>1. k \in 1 .. Used
      BY <1>1, <2>2
    <3>2. (nread + k - 1) % PIPESIZE # nwrite % PIPESIZE
      BY <1>1, <3>1, Places DEF PipeConstants
    <3>3. PICK j \in Nat : j = k - 1 /\ nread + k - 1 = nread + j
      BY <1>1 DEF IInv, TypeOK
    <3>4. (nread + j) % PIPESIZE \in 0 .. PIPESIZE - 1
      BY Places
    <3> QED
      BY <2>2, <3>2, <3>3, <3>4 DEF IInv, TypeOK
  <2> QED
    BY <2>1, <2>2
<1>3. /\ Contents = [k \in 1 .. Used |-> data[(nread + k - 1) % PIPESIZE]]
      /\ Contents \in Seq(Byte)
      /\ Len(Contents) = Used
  BY ContentsIs
<1>4. Contents' = [k \in 1 .. Used + 1 |-> data'[(nread' + k - 1) % PIPESIZE]]
  BY <1>1 DEF Contents, Used, Distance
<1>5. Contents' = Append(Contents, b)
  BY <1>1, <1>2, <1>3, <1>4
<1> QED
  BY <1>1, <1>3, <1>5 DEF PipeConstants

(* A byte read is the head taken. *)
LEMMA ReadTakes ==
  ASSUME PipeConstants, IInv, ~Empty, UNCHANGED <<data, nwrite>>,
         nread' = (nread + 1) % UINT
  PROVE  Contents # << >> /\ Contents' = Tail(Contents)
<1>1. Used \in 1 .. PIPESIZE /\ Used' = Used - 1 /\ nread' \in 0 .. UINT - 1
  BY Counters DEF PipeConstants
<1>2. /\ Contents = [k \in 1 .. Used |-> data[(nread + k - 1) % PIPESIZE]]
      /\ Contents \in Seq(Byte)
      /\ Len(Contents) = Used
  BY ContentsIs
<1>3. Contents' = [k \in 1 .. Used - 1 |-> data[(nread' + k - 1) % PIPESIZE]]
  BY <1>1 DEF Contents, Used, Distance
<1>4. ASSUME NEW k \in 1 .. Used - 1
      PROVE  data[(nread' + k - 1) % PIPESIZE] = Contents[k + 1]
  <2>1. nread' = nread + 1 \/ nread + 1 = nread' + UINT
    <3>1. PICK a \in 0 .. 2 * UINT - 1 : a = nread + 1
      BY DEF PipeConstants, IInv, TypeOK
    <3>2. UINT \in Nat \ {0}
      BY DEF PipeConstants
    <3>3. a % UINT = IF a < UINT THEN a ELSE a - UINT
      BY Zenon, <3>2, ModNear
    <3> QED
      BY <3>1, <3>3 DEF PipeConstants, IInv, TypeOK
  <2>c. nread + k \in Nat /\ nread' + k - 1 \in Nat
    BY <1>1 DEF PipeConstants, IInv, TypeOK
  <2>2. PICK c \in Nat, d \in Nat : c = nread + k /\ d = nread' + k - 1
    BY <2>c
  <2>3. d = c \/ c = d + UINT
    BY SMTT(40), <1>1, <2>1, <2>2 DEF PipeConstants, IInv, TypeOK
  <2>4. c % PIPESIZE = d % PIPESIZE
    BY <2>3, IndexWrap
  <2>5. k + 1 \in 1 .. Used /\ nread + (k + 1) - 1 = c
    BY <1>1, <2>2 DEF PipeConstants, IInv, TypeOK
  <2> QED
    BY <1>2, <2>2, <2>4, <2>5
<1>5. Contents' = Tail(Contents)
  <2>1. /\ Tail(Contents) \in Seq(Byte)
        /\ Len(Tail(Contents)) = Used - 1
        /\ \A k \in 1 .. Len(Tail(Contents)) : Tail(Contents)[k] = Contents[k + 1]
    <3>1. Contents # << >>
      BY SMTT(40), <1>1, <1>2
    <3> QED
      BY Zenon, <1>2, <3>1, HeadTailProperties
  <2>2. Contents' \in Seq(Byte) /\ Len(Contents') = Used - 1
    <3>1. \A k \in 1 .. Used - 1 : k + 1 \in 1 .. Len(Contents)
      BY <1>1, <1>2
    <3>2. \A k \in 1 .. Used - 1 : Contents[k + 1] \in Byte
      BY Zenon, <1>2, <3>1, ElementOfSeq
    <3> QED
      BY SMTT(40), <1>1, <1>3, <1>4, <3>2
  <2> QED
    BY Zenon, <1>3, <1>4, <2>1, <2>2, SeqEqual
<1> QED
  BY <1>1, <1>2, <1>5

(* Whatever the wrapping counters do, every step of a pipe appends a byte  *)
(* to the queue, takes its head, or leaves it alone.                       *)
THEOREM PipeIsQueue ==
  ASSUME PipeConstants
  PROVE  Spec => IsQueue
<1>1. ASSUME Init
      PROVE  Stream!Init
  <2>1. Used = 0
    BY <1>1, InitIInv, Counters DEF Empty, Init
  <2> QED
    BY <2>1 DEF Stream!Init, Contents, Used, Distance
<1>2. ASSUME IInv, [Next]_vars
      PROVE  [Stream!Next]_Contents
  <2>1. CASE UNCHANGED <<data, nread, nwrite>>
    BY <2>1 DEF Contents
  <2>2. ASSUME NEW p \in Procs, write_put(p), Store, ~Full
        PROVE  Stream!Next
    <3>1. PICK b \in Byte : data' = [data EXCEPT ![nwrite % PIPESIZE] = b]
      BY <2>2 DEF Store
    <3>2. Len(Contents) < PIPESIZE /\ Contents' = Append(Contents, b)
      BY ZenonT(40), <1>2, <2>2, <3>1, StoreAppends DEF Store, write_put
    <3> QED
      BY <3>2 DEF Stream!Next, Stream!Put
  <2>3. ASSUME NEW p \in Procs, read_copy(p), ~Empty, nread' = (nread + 1) % UINT
        PROVE  Stream!Next
    BY ZenonT(60), <1>2, <2>3, ReadTakes DEF read_copy, Stream!Next, Stream!Take
  <2>4. ASSUME NEW p \in Procs, write_put(p) \/ read_copy(p)
        PROVE  [Stream!Next]_Contents
    BY ZenonT(60), <2>1, <2>2, <2>3, <2>4 DEF write_put, read_copy
  <2>5. CASE UNCHANGED vars
    BY SMTT(40), <2>1, <2>5 DEF vars, pipe
  <2>6. ASSUME NEW p \in Procs,
               \/ \E count \in Counts : call(p, count)
               \/ reacquire(p) \/ write_check(p) \/ read_check(p) \/ read_sleep(p)
               \/ close(p) \/ kill(p)
        PROVE  UNCHANGED <<data, nread, nwrite>>
    BY ZenonT(40), <2>6 DEF call, reacquire, write_check, read_check, read_sleep, close, kill, pipe
  <2> QED
    BY <1>2, <2>1, <2>4, <2>5, <2>6 DEF Next, Step
<1> QED
  BY <1>1, <1>2, AlwaysIInv, PTL DEF Spec, IsQueue, Stream!Spec

=============================================================================
