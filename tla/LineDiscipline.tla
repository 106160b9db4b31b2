--------------------------- MODULE LineDiscipline ---------------------------
(***************************************************************************)
(* What console input promises: a line can be edited until it is ended;    *)
(* ended lines are read in order; a read gets at most one line, and an     *)
(* end-of-file mark is a read of its own, of nothing.                      *)
(***************************************************************************)
EXTENDS Naturals, Sequences

CONSTANTS Char, Size  \* Char has "nl" and "eof"

VARIABLES ready, line

Used == Len(ready) + Len(line)

Init == ready = << >> /\ line = << >>

(* A line ends with its newline or end-of-file, or when no space is left. *)
Type(c) ==
  /\ Used < Size
  /\ IF c \in {"nl", "eof"} \/ Used + 1 = Size
     THEN ready' = ready \o Append(line, c) /\ line' = << >>
     ELSE line' = Append(line, c) /\ UNCHANGED ready

Erase(k) == line' = SubSeq(line, 1, k) /\ UNCHANGED ready

(* The first k characters are taken. *)
Read(k) ==
  /\ \A i \in 1 .. k : /\ ready[i] = "nl" => i = k
                       /\ ready[i] = "eof" => k = 1
  /\ ready' = SubSeq(ready, k + 1, Len(ready))
  /\ UNCHANGED line

Next ==
  \/ \E c \in Char : Type(c)
  \/ line # << >> /\ Erase(0)
  \/ line # << >> /\ Erase(Len(line) - 1)
  \/ \E k \in 1 .. Len(ready) : Read(k)

Spec == Init /\ [][Next]_<<ready, line>>
=============================================================================
