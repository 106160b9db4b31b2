------------------------------ MODULE TextTools ------------------------------
(***************************************************************************)
(* The utilities that filter text: grep, wc, sort, head and tail.  Each    *)
(* reads its input to the end; grep and wc read whatever number of bytes   *)
(* read() returns, which from a pipe or the console is any number up to    *)
(* the size of the buffer, the others one byte at a time.                  *)
(* A character is a number: 0 is the newline, 1 a space, and the           *)
(* characters with a meaning in a pattern are named below.                 *)
(***************************************************************************)
EXTENDS Integers, SequencesExt

CONSTANTS
  GBUF,                 \* sizeof buf in grep.c
  MAXLINES, MAXLEN,     \* the arrays of sort.c, head.c and tail.c
  Jobs                  \* what to run: [tool, re (grep), n (head, tail), input]

ToolsAssumption == {GBUF, MAXLINES, MAXLEN} \subseteq Nat \ {0}

VARIABLES
  job,                  \* the command that runs
  input,                \* what is still to be read
  held,                 \* the bytes in grep's buffer
  count,                \* wc's counters
  out,                  \* the lines written
  done                  \* the program has exited

vars == <<job, input, held, count, out, done>>

newline == 0
space == 1
dot == 2
star == 3
caret == 4
dollar == 5

Zero == [l |-> 0, w |-> 0, c |-> 0, inword |-> FALSE]

NoJob == [tool |-> "none", re |-> << >>, n |-> 0, input |-> << >>]

Init ==
  /\ job = NoJob /\ input = << >> /\ held = << >>
  /\ count = Zero /\ out = << >> /\ done = FALSE

(* The shell runs a command.                                               *)
exec ==
  /\ job = NoJob
  /\ \E j \in Jobs : job' = j /\ input' = j.input
  /\ UNCHANGED <<held, count, out, done>>

Is(tool) == job.tool = tool /\ ~done

From(s, i) == SubSeq(s, i, Len(s))

-----------------------------------------------------------------------------
(* grep's matcher                                                          *)

RECURSIVE matchhere(_, _)
RECURSIVE matchstar(_, _, _)
MutStarOnce(c, re, text) ==
  \/ matchhere(re, text)
  \/ text # << >> /\ (text[1] = c \/ c = dot) /\ matchhere(re, Tail(text))

matchstar(c, re, text) ==
  \/ matchhere(re, text)
  \/ text # << >> /\ (text[1] = c \/ c = dot) /\ matchstar(c, re, Tail(text))

matchhere(re, text) ==
  IF re = << >> THEN TRUE
  ELSE IF Len(re) > 1 /\ re[2] = star THEN matchstar(re[1], From(re, 3), text)
  ELSE IF re = <<dollar>> THEN text = << >>
  ELSE text # << >> /\ re[1] \in {dot, text[1]} /\ matchhere(Tail(re), Tail(text))

match(re, text) ==
  IF re # << >> /\ re[1] = caret THEN matchhere(Tail(re), text)
  ELSE \E i \in 1..(Len(text) + 1) : matchhere(re, From(text, i))

(* while((q = strchr(p, '\n')) != 0): the lines in the buffer that match,  *)
(* and what follows the last newline.                                      *)
RECURSIVE GrepLines(_, _, _)
GrepLines(re, data, lines) ==
  LET ends == {i \in DOMAIN data : data[i] = newline}
      line == SubSeq(data, 1, Min(ends) - 1)
  IN IF ends = {} THEN [held |-> data, lines |-> lines]
     ELSE GrepLines(re, From(data, Min(ends) + 1),
                    IF match(re, line) THEN Append(lines, line) ELSE lines)

Room == GBUF - Len(held) - 1

(* One turn of the loop in grep(): n bytes are added to those held; the    *)
(* bytes of an unfinished line are moved to the front.                     *)
grep ==
  /\ Is("grep")
  /\ \E n \in 1..Min({Room, Len(input)}) :
       LET r == GrepLines(job.re, held \o SubSeq(input, 1, n), out)
       IN held' = r.held /\ out' = r.lines /\ input' = From(input, n + 1)
  /\ UNCHANGED <<job, count, done>>

(* read() returns 0 at the end of the input, and when the buffer is full.  *)
grep_end ==
  /\ Is("grep")
  /\ Room = 0 \/ input = << >>
  /\ done' = TRUE
  /\ UNCHANGED <<job, input, held, count, out>>

-----------------------------------------------------------------------------
(* wc                                                                      *)

Blank(c) == c \in {newline, space}

Counted(t, c) ==
  [l |-> t.l + (IF c = newline THEN 1 ELSE 0),
   w |-> t.w + (IF ~Blank(c) /\ ~t.inword THEN 1 ELSE 0),
   c |-> t.c + 1,
   inword |-> ~Blank(c)]

wc ==
  /\ Is("wc")
  /\ \E n \in DOMAIN input :
       /\ count' = FoldLeft(Counted, count, SubSeq(input, 1, n))
       /\ input' = From(input, n + 1)
  /\ UNCHANGED <<job, held, out, done>>

wc_end ==
  /\ Is("wc") /\ input = << >>
  /\ done' = TRUE
  /\ UNCHANGED <<job, input, held, count, out>>

-----------------------------------------------------------------------------
(* sort, head and tail                                                     *)

(* The body of the loop in readlines(), with the finished rows and the j   *)
(* bytes of the current one; after row MAXLINES - 1 the loop is left with  *)
(* j as it is.                                                             *)
Store(t, c) ==
  LET rows == Append(t.rows, t.row)
      full == Len(rows) >= MAXLINES
  IN IF t.full THEN t
     ELSE IF c = newline
       THEN [rows |-> rows, row |-> IF full THEN t.row ELSE << >>, full |-> full]
     ELSE IF Len(t.row) < MAXLEN - 1 THEN [t EXCEPT !.row = Append(@, c)]
     ELSE t

(* The last row, which may have no newline.  After a full table the row    *)
(* is past the end of the array: what it holds is any.                     *)
readlines(in, any) ==
  LET t == FoldLeft(Store, [rows |-> << >>, row |-> << >>, full |-> FALSE], in)
  IN IF t.row = << >> THEN t.rows
     ELSE Append(t.rows, IF t.full THEN any ELSE t.row)

(* strcmp(p, q) < 0                                                        *)
Less(p, q) ==
  \E k \in 0..Min({Len(p), Len(q)}) :
    /\ \A i \in 1..k : p[i] = q[i]
    /\ Len(q) > k /\ (Len(p) = k \/ p[k + 1] < q[k + 1])

swap(s, i, j) == [s EXCEPT ![i] = s[j], ![j] = s[i]]

(* for(i = left + 1; i <= right; i++): smaller lines move below last.      *)
RECURSIVE Partition(_, _, _, _, _)
Partition(s, left, right, last, i) ==
  IF i > right THEN [s |-> swap(s, left, last), last |-> last]
  ELSE IF Less(s[i], s[left])
    THEN Partition(swap(s, last + 1, i), left, right, last + 1, i + 1)
  ELSE Partition(s, left, right, last, i + 1)

(* Lines are numbered from 1 here and from 0 in the code, which rounds the *)
(* middle accordingly.                                                     *)
RECURSIVE qsort(_, _, _)
qsort(s, left, right) ==
  LET middle == (left + right - 2) \div 2 + 1
      r == Partition(swap(s, left, middle), left, right, left, left + 1)
  IN IF left >= right THEN s
     ELSE qsort(qsort(r.s, left, r.last - 1), r.last + 1, right)

sort(rows) == qsort(rows, 1, Len(rows))

printhead(rows, n) == SubSeq(rows, 1, Min({n, Len(rows)}))

printtail(rows, n) ==
  LET start == IF n > Len(rows) THEN 0 ELSE Len(rows) - n
  IN SubSeq(rows, start + 1, Len(rows))

lines ==
  /\ \E tool \in {"sort", "head", "tail"} : Is(tool)
  /\ \E any \in {<< >>, <<newline>>} :
       LET rows == readlines(input, any)
       IN out' = CASE job.tool = "sort" -> sort(rows)
                   [] job.tool = "head" -> printhead(rows, job.n)
                   [] job.tool = "tail" -> printtail(rows, job.n)
  /\ done' = TRUE
  /\ UNCHANGED <<job, input, held, count>>

exit ==
  /\ done
  /\ job' = NoJob /\ input' = << >> /\ held' = << >>
  /\ count' = Zero /\ out' = << >> /\ done' = FALSE

Next == exec \/ grep \/ grep_end \/ wc \/ wc_end \/ lines \/ exit

Spec == Init /\ [][Next]_vars

-----------------------------------------------------------------------------
(* Reference definitions                                                   *)

(* A pattern is a sequence of single characters and repetitions, and may   *)
(* be anchored at the end by a final dollar.                               *)
RECURSIVE Items(_)
Items(re) ==
  IF re \in {<< >>, <<dollar>>} THEN << >>
  ELSE IF Len(re) > 1 /\ re[2] = star
    THEN <<[c |-> re[1], many |-> TRUE]>> \o Items(From(re, 3))
  ELSE <<[c |-> re[1], many |-> FALSE]>> \o Items(Tail(re))

RECURSIVE Anchored(_)
Anchored(re) == re # << >> /\
  IF Len(re) > 1 /\ re[2] = star THEN Anchored(From(re, 3))
  ELSE re = <<dollar>> \/ Anchored(Tail(re))

(* Some number of characters for each item spells the text.                *)
Spells(items, text) ==
  \E n \in [DOMAIN items -> 0..Len(text)] :
    LET before(i) == FoldLeft(+, 0, [k \in 1..(i - 1) |-> n[k]])
    IN /\ before(Len(items) + 1) = Len(text)
       /\ \A i \in DOMAIN items :
            /\ items[i].many \/ n[i] = 1
            /\ \A k \in (before(i) + 1)..(before(i) + n[i]) : items[i].c \in {dot, text[k]}

Selected(re, text) ==
  LET first == re # << >> /\ re[1] = caret
      body == IF first THEN Tail(re) ELSE re
  IN \E i \in 1..(Len(text) + 1) : \E j \in (i - 1)..Len(text) :
       /\ first => i = 1
       /\ Anchored(body) => j = Len(text)
       /\ Spells(Items(body), SubSeq(text, i, j))

Ends(in) == SetToSortSeq({i \in DOMAIN in : in[i] = newline}, <)

(* The lines of a text that end in a newline, and all of them.             *)
Complete(in) ==
  LET e == Ends(in)
  IN [k \in DOMAIN e |-> SubSeq(in, IF k = 1 THEN 1 ELSE e[k - 1] + 1, e[k] - 1)]

All(in) ==
  LET e == Ends(in)
      rest == From(in, IF e = << >> THEN 1 ELSE Last(e) + 1)
  IN IF rest = << >> THEN Complete(in) ELSE Append(Complete(in), rest)

Cut(in) == [k \in DOMAIN All(in) |-> SubSeq(All(in)[k], 1, Min({MAXLEN - 1, Len(All(in)[k])}))]

(* The lines before the first that does not fit grep's buffer.             *)
Searched(in) ==
  LET long == {k \in DOMAIN All(in) : Len(All(in)[k]) >= GBUF - 1}
  IN SubSeq(Complete(in), 1, IF long = {} THEN Len(Complete(in)) ELSE Min(long) - 1)

Times(x, s) == Cardinality({i \in DOMAIN s : s[i] = x})

(* However read() cuts the input up: grep writes the lines its pattern     *)
(* matches, of those up to the first too long for its buffer or the last   *)
(* newline; wc counts lines, words and bytes; sort writes the same lines   *)
(* in order; head and tail the first and the last n.  The last three keep  *)
(* MAXLEN - 1 characters of a line, and are right for inputs of fewer      *)
(* than MAXLINES newlines only.                                            *)
OutputExact ==
  done =>
    LET in == job.input
        lineset == Cut(in)
        total == Len(lineset)
        small == Len(Complete(in)) < MAXLINES
    IN CASE job.tool = "grep" ->
              out = SelectSeq(Searched(in), LAMBDA x : Selected(job.re, x))
         [] job.tool = "wc" ->
              /\ count.l = Times(newline, in) /\ count.c = Len(in)
              /\ count.w = Cardinality({i \in DOMAIN in :
                              ~Blank(in[i]) /\ (i = 1 \/ Blank(in[i - 1]))})
         [] job.tool = "sort" -> small =>
              /\ \A i \in 1..(Len(out) - 1) : ~Less(out[i + 1], out[i])
              /\ Len(out) = total
              /\ \A x \in Range(lineset) : Times(x, out) = Times(x, lineset)
         [] job.tool = "head" -> small =>
              out = SubSeq(lineset, 1, Min({job.n, total}))
         [] job.tool = "tail" -> small =>
              out = SubSeq(lineset, Max({1, total - job.n + 1}), total)

=============================================================================
