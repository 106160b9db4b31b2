----------------------------- MODULE ShellParser -----------------------------
(***************************************************************************)
(* The command-line parser of user/sh.c.  A line is a sequence of          *)
(* one-character strings; positions in it are indices, the index past the  *)
(* end being es, where the terminating NUL is.  A command is a record      *)
(* whose words are the position pairs (q, eq) that the parser stores in    *)
(* argv/eargv and file/efile.                                              *)
(*                                                                         *)
(* A parse function returns [ok, at, cmd]: the position it left in *ps and *)
(* the command, or ok = FALSE when it called panic(), which exits.         *)
(*                                                                         *)
(* Words are told apart by their characters only, so one character of each *)
(* kind is enough.  malloc() is assumed to succeed: a command line of 100  *)
(* bytes needs less than the 64 KB that one morecore() brings.             *)
(***************************************************************************)
EXTENDS Naturals, SequencesExt

CONSTANTS
  MAXARGS,      \* entries in an execcmd's argv, the final 0 included
  NBUF,         \* sizeof buf in main()
  Chars         \* the characters that are typed

ASSUME ParserAssumption == MAXARGS \in Nat \ {0} /\ NBUF \in Nat \ {0}

VARIABLE buf    \* the line being typed, as gets() has it so far

whitespace == {" ", "\t", "\r", "\n"}
symbols == {"<", "|", ">", "&", ";", "(", ")"}
Nul == "nul"

(* One call of a function, then the rest of it, on the call's result.      *)
Then(r, Rest(_)) == Rest(r)

Char(s, i) == IF i <= Len(s) THEN s[i] ELSE Nul

(* while(s < es && strchr(whitespace, *s)) s++                             *)
Skip(s, i) == Min({j \in i..(Len(s) + 1) : Char(s, j) \notin whitespace})

WordEnd(s, i) ==
  Min({j \in i..(Len(s) + 1) : Char(s, j) \in whitespace \cup symbols \cup {Nul}})

Token(s, q, eq, ret) == [ret |-> ret, q |-> q, eq |-> eq, next |-> Skip(s, eq)]

MutNoAppend(s, i) ==
  Then(Skip(s, i), LAMBDA q :
    LET c == Char(s, q) IN
    CASE c = Nul -> Token(s, q, q, c)
      [] c \in symbols -> Token(s, q, q + 1, c)
      [] OTHER -> Token(s, q, WordEnd(s, q), "a"))

(* The token at *ps: what gettoken() returns, where the token begins and   *)
(* ends, and the new *ps.                                                  *)
gettoken(s, i) ==
  Then(Skip(s, i), LAMBDA q :
    LET c == Char(s, q)
        append == c = ">" /\ Char(s, q + 1) = ">"
    IN CASE c = Nul -> Token(s, q, q, c)
         [] append -> Token(s, q, q + 2, "+")
         [] c \in symbols /\ ~append -> Token(s, q, q + 1, c)
         [] OTHER -> Token(s, q, WordEnd(s, q), "a"))

(* peek() also moves *ps over white space; every reader of *ps skips it.   *)
peek(s, i, toks) == Char(s, Skip(s, i)) \in toks

-----------------------------------------------------------------------------
(* The constructors                                                        *)

execcmd == [type |-> "EXEC", argv |-> << >>]
redircmd(c, file, mode, fd) ==
  [type |-> "REDIR", cmd |-> c, file |-> file, mode |-> mode, fd |-> fd]
pipecmd(l, r) == [type |-> "PIPE", left |-> l, right |-> r]
listcmd(l, r) == [type |-> "LIST", left |-> l, right |-> r]
backcmd(c) == [type |-> "BACK", cmd |-> c]

Parsed(i, c) == [ok |-> TRUE, at |-> i, cmd |-> c]
Panic == [ok |-> FALSE, at |-> 0, cmd |-> execcmd]

(* cmd->argv[argc] = q: parseexec() keeps a pointer to the execcmd, which  *)
(* the redirections read so far enclose.                                   *)
RECURSIVE AddArg(_, _)
AddArg(c, word) ==
  IF c.type = "EXEC" THEN [c EXCEPT !.argv = Append(@, word)]
  ELSE [c EXCEPT !.cmd = AddArg(@, word)]

RECURSIVE Argc(_)
Argc(c) == IF c.type = "EXEC" THEN Len(c.argv) ELSE Argc(c.cmd)

RECURSIVE parseredirs(_, _)
parseredirs(s, r) ==
  IF ~r.ok \/ ~peek(s, r.at, {"<", ">"}) THEN r
  ELSE Then(gettoken(s, r.at), LAMBDA tok :
       Then(gettoken(s, tok.next), LAMBDA file :
         IF file.ret # "a" THEN Panic     \* missing file for redirection
         ELSE parseredirs(s,
                Parsed(file.next, redircmd(r.cmd, <<file.q, file.eq>>, tok.ret,
                                           IF tok.ret = "<" THEN 0 ELSE 1)))))

(* The loop of parseexec().                                                *)
RECURSIVE ParseArgs(_, _)
ParseArgs(s, r) ==
  IF ~r.ok \/ peek(s, r.at, {"|", ")", "&", ";"}) THEN r
  ELSE Then(gettoken(s, r.at), LAMBDA tok :
         IF tok.ret = Nul THEN [r EXCEPT !.at = tok.next]
         ELSE IF tok.ret # "a" \/ Argc(r.cmd) + 1 >= MAXARGS THEN Panic
         ELSE ParseArgs(s,
                parseredirs(s, Parsed(tok.next, AddArg(r.cmd, <<tok.q, tok.eq>>)))))

RECURSIVE parseline(_, _)
parseblock(s, i) ==
  Then(parseline(s, gettoken(s, i).next), LAMBDA r :
    IF ~r.ok \/ ~peek(s, r.at, {")"}) THEN Panic
    ELSE parseredirs(s, Parsed(gettoken(s, r.at).next, r.cmd)))

parseexec(s, i) ==
  IF peek(s, i, {"("}) THEN parseblock(s, i)
  ELSE ParseArgs(s, parseredirs(s, Parsed(i, execcmd)))

RECURSIVE parsepipe(_, _)
parsepipe(s, i) ==
  Then(parseexec(s, i), LAMBDA l :
    IF ~l.ok \/ ~peek(s, l.at, {"|"}) THEN l
    ELSE Then(parsepipe(s, gettoken(s, l.at).next), LAMBDA r :
           IF ~r.ok THEN r ELSE Parsed(r.at, pipecmd(l.cmd, r.cmd))))

RECURSIVE Backs(_, _)
Backs(s, r) == IF ~r.ok \/ ~peek(s, r.at, {"&"}) THEN r
               ELSE Backs(s, Parsed(gettoken(s, r.at).next, backcmd(r.cmd)))

parseline(s, i) ==
  Then(Backs(s, parsepipe(s, i)), LAMBDA l :
    IF ~l.ok \/ ~peek(s, l.at, {";"}) THEN l
    ELSE Then(parseline(s, gettoken(s, l.at).next), LAMBDA r :
           IF ~r.ok THEN r ELSE Parsed(r.at, listcmd(l.cmd, r.cmd))))

(* The positions where nulterminate() stores 0.                            *)
RECURSIVE nulterminate(_)
nulterminate(c) ==
  CASE c.type = "EXEC" -> {c.argv[i][2] : i \in DOMAIN c.argv}
    [] c.type = "REDIR" -> nulterminate(c.cmd) \cup {c.file[2]}
    [] c.type \in {"PIPE", "LIST"} -> nulterminate(c.left) \cup nulterminate(c.right)
    [] OTHER -> nulterminate(c.cmd)

(* The command; words are read later, from q up to the first stored NUL.   *)
parsecmd(s) ==
  Then(parseline(s, 1), LAMBDA r :
    IF ~r.ok \/ Skip(s, r.at) # Len(s) + 1 THEN Panic ELSE r)

(* The string that argv[i] = q points to once nulterminate() has run.      *)
Text(s, zeros, q) ==
  SubSeq(s, q, Min({j \in q..(Len(s) + 1) : j \in zeros \/ j = Len(s) + 1}) - 1)

-----------------------------------------------------------------------------
(* gets() reads the line one character at a time; getcmd() clears buf      *)
(* before the next one.                                                    *)
Init == buf = << >>

Complete(s) == s # << >> /\ (Len(s) + 1 >= NBUF \/ Last(s) \in {"\n", "\r"})

gets(c) == ~Complete(buf) /\ buf' = Append(buf, c)

getcmd == Complete(buf) /\ buf' = << >>

Next == getcmd \/ \E c \in Chars : gets(c)

Spec == Init /\ [][Next]_buf

-----------------------------------------------------------------------------
(* The grammar that the parse functions implement, as the set of commands  *)
(* that a sequence of tokens derives:                                      *)
(*   line  ::= backs | backs ";" line                                      *)
(*   backs ::= pipe | backs "&"                                            *)
(*   pipe  ::= exec | exec "|" pipe                                        *)
(*   exec  ::= "(" line ")" redir*  |  (word | redir)*                     *)
(*   redir ::= ("<" | ">" | ">>") word                                     *)
(* with words in place of positions in them.                               *)

IsWord(c) == c \notin whitespace \cup symbols

(* Tokens begin at a symbol that is not the second half of a ">>", or at   *)
(* the first character of a run of word characters.                        *)
Starts(s) ==
  LET Greater(p) == (p - 1) - Max({0} \cup {j \in 1..(p - 1) : s[j] # ">"})
  IN {p \in 1..Len(s) :
        \/ s[p] \in symbols /\ (s[p] = ">" => Greater(p) % 2 = 0)
        \/ IsWord(s[p]) /\ (p = 1 \/ ~IsWord(s[p - 1]))}

Tokens(s) ==
  LET Word(p) == SubSeq(s, p, Max({e \in p..Len(s) : \A j \in p..e : IsWord(s[j])}))
      Tok(p) == IF IsWord(s[p]) THEN [kind |-> "a", text |-> Word(p)]
               ELSE IF s[p] = ">" /\ Char(s, p + 1) = ">"
                 THEN [kind |-> "+", text |-> << >>]
               ELSE [kind |-> s[p], text |-> << >>]
      starts == SetToSortSeq(Starts(s), <)
  IN [i \in DOMAIN starts |-> Tok(starts[i])]

IsRedir(t) == t.kind \in {"<", ">", "+"}

(* Every redirection is followed by its file, and nothing else but words.  *)
Simple(ts) == \A i \in DOMAIN ts :
  \/ ts[i].kind = "a"
  \/ IsRedir(ts[i]) /\ i < Len(ts) /\ ts[i + 1].kind = "a"

Argument(ts, i) == ts[i].kind = "a" /\ (i = 1 \/ ~IsRedir(ts[i - 1]))

Arguments(ts) ==
  LET is == SetToSortSeq({i \in DOMAIN ts : Argument(ts, i)}, <)
  IN [k \in DOMAIN is |-> ts[is[k]].text]

Redirected(c, ts) ==
  LET is == SetToSortSeq({i \in DOMAIN ts : IsRedir(ts[i])}, <)
      Enclose(inner, i) == redircmd(inner, ts[i + 1].text, ts[i].kind,
                                    IF ts[i].kind = "<" THEN 0 ELSE 1)
  IN FoldLeft(Enclose, c, is)

From(ts, k) == SubSeq(ts, k, Len(ts))
Upto(ts, k) == SubSeq(ts, 1, k)
Where(ts, k) == {i \in DOMAIN ts : ts[i].kind = k}

RECURSIVE LineTrees(_)
ExecTrees(ts) ==
  (IF Simple(ts) /\ Len(Arguments(ts)) < MAXARGS
     THEN {Redirected([type |-> "EXEC", argv |-> Arguments(ts)], ts)} ELSE {})
  \cup UNION {{Redirected(c, From(ts, k + 1)) : c \in LineTrees(SubSeq(ts, 2, k - 1))} :
                k \in {j \in Where(ts, ")") :
                         /\ ts[1].kind = "(" /\ Simple(From(ts, j + 1))
                         /\ Arguments(From(ts, j + 1)) = << >>}}

RECURSIVE PipeTrees(_)
PipeTrees(ts) == ExecTrees(ts) \cup
  UNION {{pipecmd(l, r) : l \in ExecTrees(Upto(ts, k - 1)), r \in PipeTrees(From(ts, k + 1))} :
           k \in Where(ts, "|")}

RECURSIVE BackTrees(_)
BackTrees(ts) == PipeTrees(ts) \cup
  {backcmd(c) : c \in IF Len(ts) \in Where(ts, "&") THEN BackTrees(Front(ts)) ELSE {}}

LineTrees(ts) == BackTrees(ts) \cup
  UNION {{listcmd(l, r) : l \in BackTrees(Upto(ts, k - 1)), r \in LineTrees(From(ts, k + 1))} :
           k \in Where(ts, ";")}

(* A parsed command with the strings its pointers denote, the NULs stored. *)
RECURSIVE Words(_, _, _)
Words(s, zeros, c) ==
  CASE c.type = "EXEC" ->
         [c EXCEPT !.argv = [i \in DOMAIN @ |-> Text(s, zeros, @[i][1])]]
    [] c.type = "REDIR" ->
         [c EXCEPT !.cmd = Words(s, zeros, @), !.file = Text(s, zeros, @[1])]
    [] c.type \in {"PIPE", "LIST"} ->
         [c EXCEPT !.left = Words(s, zeros, @), !.right = Words(s, zeros, @)]
    [] OTHER -> [c EXCEPT !.cmd = Words(s, zeros, @)]

(* parsecmd() accepts exactly the lines of the grammar, the grammar is not *)
(* ambiguous, and the command built is the one it derives: each argument   *)
(* and file name is the whole word that was typed, which the NULs stored   *)
(* into the shared buffer by nulterminate() neither shorten nor lengthen.  *)
ParsesGrammar ==
  LineTrees(Tokens(buf)) =
    Then(parsecmd(buf), LAMBDA r :
      IF r.ok THEN {Words(buf, nulterminate(r.cmd), r.cmd)} ELSE {})

=============================================================================
