------------------------------- MODULE MCBytes -------------------------------
(***************************************************************************)
(* Where bytes go, in one run: files on blocks (module Blocks), copies     *)
(* between kernel and user (UserCopy), the user allocator (Umalloc) and    *)
(* the text utilities (TextTools). A behaviour is one of the four, as part *)
(* says, and the others stay in their initial states.                      *)
(***************************************************************************)
EXTENDS Blocks, TLC

CONSTANTS PGSIZE, NPAGE, TOP, WORD, Addresses, Lengths, PageTables, Memories,
          HDR, CORE, LIMIT, Requests, Gaps,
          GBUF, MAXLINES, MAXLEN, Jobs

VARIABLES part, pt, mem, sz, kbuf, req, ret, h, brk, owned, used,
          job, input, held, count, out, done

U == INSTANCE UserCopy
M == INSTANCE Umalloc
T == INSTANCE TextTools
ASSUME U!CopyAssumption /\ M!UmallocAssumption /\ T!ToolsAssumption

copyvars == <<pt, mem, sz, kbuf, req, ret>>
heapvars == <<h, brk, owned, used>>
textvars == <<job, input, held, count, out, done>>

MCInit ==
  /\ part \in {"blocks", "copy", "malloc", "text"}
  /\ Init /\ U!Init /\ M!Init /\ T!Init

MCNext ==
  \/ part = "blocks" /\ Next /\ UNCHANGED <<part, copyvars, heapvars, textvars>>
  \/ part = "copy" /\ U!Next /\ UNCHANGED <<part, vars, heapvars, textvars>>
  \/ part = "malloc" /\ M!Next /\ UNCHANGED <<part, vars, copyvars, textvars>>
  \/ part = "text" /\ T!Next /\ UNCHANGED <<part, vars, copyvars, heapvars>>

MCSpec == MCInit /\ [][MCNext]_<<part, vars, copyvars, heapvars, textvars>>

-----------------------------------------------------------------------------
MCByte == [p \in Proc |-> p]
Symmetry == Permutations(Proc)
MCSources == << <<7>> >>

(* A guard page, a text page, a data page; the trampoline is not the       *)
(* process's. Consecutive pages are not in consecutive frames.             *)
User == {{"V"}, {"V", "U"}, {"V", "U", "W"}}
LastPage == NPAGE - 1
MCPageTables == {[p \in 0 .. LastPage |-> [frame |-> LastPage - p, flags |-> f[p]]] :
                   f \in {g \in [0 .. LastPage -> User \cup {{}}] : g[LastPage] = {"V"}}}

(* At most one NUL. *)
Limit == NPAGE * PGSIZE
Nul == 0
MCMemories == {[a \in 0 .. Limit - 1 |-> IF a = z THEN Nul ELSE a + 1] : z \in 0 .. Limit}

NEWLINE == 0
SPACE == 1
DOT == 2
STAR == 3
CARET == 4
DOLLAR == 5
A == 6
B == 7
ASSUME /\ <<Limit, Nul>> = <<U!MAXVA, U!NUL>>
       /\ <<NEWLINE, SPACE, DOT>> = <<T!newline, T!space, T!dot>>
       /\ <<STAR, CARET, DOLLAR>> = <<T!star, T!caret, T!dollar>>

Upto(S, n) == UNION {[1 .. k -> S] : k \in 0 .. n}
Job(tool, re, n, in) == [tool |-> tool, re |-> re, n |-> n, input |-> in]

(* One short line for every pattern of up to four characters, and a few    *)
(* patterns for every text of several lines.                               *)
MCJobs ==
  {Job("grep", re, 0, Append(in, NEWLINE)) :
     re \in Upto({A, DOT, STAR, CARET, DOLLAR}, 4),
     in \in Upto({A, B}, 3) \cup {<<STAR>>, <<A, STAR>>}}
  \cup {Job("grep", re, 0, in) :
     re \in {<<A>>, <<A, STAR, DOLLAR>>, <<A, STAR, A, DOLLAR>>, <<CARET, B>>},
     in \in Upto({A, B, NEWLINE}, 5)}
  \cup {Job("wc", << >>, 0, in) : in \in Upto({A, SPACE, NEWLINE}, 4)}
  \cup {Job("sort", << >>, 0, in) : in \in Upto({A, B, NEWLINE}, 6)}
  \cup {Job(tool, << >>, n, in) :
     tool \in {"head", "tail"}, n \in 0 .. 3, in \in Upto({A, NEWLINE}, 6)}

-----------------------------------------------------------------------------
(* Copies move the bytes asked for, or fail (see UserCopy).                 *)
CopiesExact == U!CopiesExact

(* Blocks free and in use make up the heap (see Umalloc).                   *)
HeapTiled == M!HeapTiled

(* The text utilities write what they should (see TextTools).               *)
OutputExact == T!OutputExact
=============================================================================
