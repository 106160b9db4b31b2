------------------------------ MODULE Console -------------------------------
(***************************************************************************)
(* Console input (kernel/console.c): the interrupt handler edits the line  *)
(* being typed in a circular buffer and hands it over to the processes in  *)
(* consoleread(). Every section under cons.lock is one step; the echo,     *)
(* which is sent with the lock held, is in module Uart.                    *)
(***************************************************************************)
EXTENDS Naturals, Sequences, FiniteSetsExt

CONSTANTS Readers,
          INPUT_BUF_SIZE,
          UINT,      \* r, w and e are counted modulo this
          MaxCount,  \* bound: largest n of a read
          Victims    \* bound: the processes that may be killed

ConsoleConstants ==
  /\ INPUT_BUF_SIZE \in Nat \ {0}
  /\ UINT \in Nat
  /\ INPUT_BUF_SIZE < UINT
  /\ UINT % INPUT_BUF_SIZE = 0
  /\ MaxCount \in Nat
  /\ Victims \subseteq Readers

VARIABLES buf, r, w, e,  \* cons
          pc,            \* where a reader is
          n, target,     \* bytes it still wants, and wanted at first
          killed         \* p->killed

cons == <<buf, r, w, e>>
vars == <<cons, pc, n, target, killed>>

(* What is stored: an ordinary character, '\n' or control-D. *)
Char == {"x", "nl", "eof"}

(* What arrives: also '\r', NUL, control-H, control-U and control-P. *)
Key == Char \cup {"cr", "nul", "C-H", "C-U", "C-P"}

Init ==
  /\ buf \in [0 .. INPUT_BUF_SIZE - 1 -> {"x"}]
  /\ r = 0 /\ w = 0 /\ e = 0
  /\ pc = [p \in Readers |-> "idle"]
  /\ n = [p \in Readers |-> 0]
  /\ target = [p \in Readers |-> 0]
  /\ killed = {}

Minus(a, b) == (a + UINT - b) % UINT

At(i) == buf[i % INPUT_BUF_SIZE]

Woken == [p \in Readers |-> IF pc[p] = "asleep" THEN "read" ELSE pc[p]]

-----------------------------------------------------------------------------
(* consoleintr() *)

(* control-U: characters go until the line is empty, or up to a newline. *)
KillLine ==
  LET k == CHOOSE k \in 0 .. Minus(e, w) :
             /\ k = Minus(e, w) \/ At(Minus(e, k + 1)) = "nl"
             /\ \A j \in 0 .. k - 1 : At(Minus(e, j + 1)) # "nl"
  IN e' = Minus(e, k)

(* The default case: store if there is room, and hand the line over when   *)
(* it is complete or the buffer full.                                      *)
Store(c) ==
  LET ch == IF c = "cr" THEN "nl" ELSE c
      e1 == (e + 1) % UINT
  IN
  IF c # "nul" /\ Minus(e, r) < INPUT_BUF_SIZE
  THEN /\ buf' = [buf EXCEPT ![e % INPUT_BUF_SIZE] = ch]
       /\ e' = e1
       /\ IF ch \in {"nl", "eof"} \/ Minus(e1, r) = INPUT_BUF_SIZE
          THEN w' = e1 /\ pc' = Woken
          ELSE UNCHANGED <<w, pc>>
  ELSE UNCHANGED <<buf, w, e, pc>>

consoleintr(c) ==
  /\ CASE c = "C-P" -> UNCHANGED <<cons, pc>>
       [] c = "C-U" -> KillLine /\ UNCHANGED <<buf, r, w, pc>>
       [] c = "C-H" -> /\ e' = IF e # w THEN Minus(e, 1) ELSE e
                       /\ UNCHANGED <<buf, r, w, pc>>
       [] OTHER     -> Store(c) /\ UNCHANGED r
  /\ UNCHANGED <<n, target, killed>>

-----------------------------------------------------------------------------
(* consoleread() *)

read(p, count) ==
  /\ pc[p] = "idle"
  /\ p \notin killed
  /\ pc' = [pc EXCEPT ![p] = "read"]
  /\ n' = [n EXCEPT ![p] = count]
  /\ target' = [target EXCEPT ![p] = count]
  /\ UNCHANGED <<cons, killed>>

(* The call returns after consuming k characters. *)
Done(p, k) ==
  /\ r' = (r + k) % UINT
  /\ pc' = [pc EXCEPT ![p] = "idle"]
  /\ n' = [n EXCEPT ![p] = 0]
  /\ target' = [target EXCEPT ![p] = 0]

MutEofEaten(p, i) == Done(p, i)

(* The i-th character is control-D: it stays for the next call if this one *)
(* has bytes to return.                                                    *)
Eof(p, i) == Done(p, IF n[p] - (i - 1) < target[p] THEN i - 1 ELSE i)

(* The loop, up to the end of the call or the next sleep: characters are   *)
(* copied out until one ends the line, n have been copied, or none is left. *)
consoleread(p) ==
  LET avail == Minus(w, r)
      last  == Min({n[p], avail})
      ends  == {i \in 1 .. last : At((r + i - 1) % UINT) \in {"nl", "eof"}}
      i     == Min(ends)
  IN
  /\ pc[p] = "read"
  /\ \/ /\ ends # {}
        /\ IF At((r + i - 1) % UINT) = "eof" THEN Eof(p, i) ELSE Done(p, i)
     \/ /\ ends = {} /\ avail >= n[p]
        /\ Done(p, n[p])
     \/ /\ ends = {} /\ avail < n[p] /\ p \in killed
        /\ Done(p, avail)
     \/ /\ ends = {} /\ avail < n[p] /\ p \notin killed
        /\ r' = w
        /\ n' = [n EXCEPT ![p] = @ - avail]
        /\ pc' = [pc EXCEPT ![p] = "asleep"]
        /\ UNCHANGED target
  /\ UNCHANGED <<buf, w, e, killed>>

(* either_copyout() fails at character k + 1, which is lost. *)
copyout_fails(p, k) ==
  /\ pc[p] = "read"
  /\ k < Min({n[p], Minus(w, r)})
  /\ \A i \in 0 .. k - 1 : At((r + i) % UINT) \notin {"nl", "eof"}
  /\ At((r + k) % UINT) # "eof"
  /\ Done(p, k + 1)
  /\ UNCHANGED <<buf, w, e, killed>>

kill(p) ==
  /\ p \in Victims \ killed
  /\ killed' = killed \cup {p}
  /\ pc' = [pc EXCEPT ![p] = IF @ = "asleep" THEN "read" ELSE @]
  /\ UNCHANGED <<cons, n, target>>

Next ==
  \/ \E c \in Key : consoleintr(c)
  \/ \E p \in Readers : \/ \E count \in 1 .. MaxCount : read(p, count)
                        \/ \E k \in 0 .. MaxCount - 1 : copyout_fails(p, k)
                        \/ consoleread(p) \/ kill(p)

Spec == Init /\ [][Next]_vars

-----------------------------------------------------------------------------
(* Properties *)

Slice(from, to) == [k \in 1 .. Minus(to, from) |-> At((from + k - 1) % UINT)]
Lines == INSTANCE LineDiscipline WITH
  Size <- INPUT_BUF_SIZE, ready <- Slice(r, w), line <- Slice(w, e)

(* The buffer and its three indices, which wrap, are a line discipline:     *)
(* editing never reaches into what has been handed over, no character is    *)
(* lost, duplicated or reordered between the handler and the readers, and a *)
(* read never runs past a newline or swallows an end-of-file with data. A   *)
(* buffer without room for the key that would end the line is handed over,  *)
(* so input never wedges: a reader sleeps only while there is nothing to    *)
(* read, however the input was ended and whoever else was woken for it.     *)
IsLineDiscipline ==
  /\ Lines!Spec
  /\ [](\A p \in Readers : pc[p] = "asleep" => r = w)
=============================================================================
