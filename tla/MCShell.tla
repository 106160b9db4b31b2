------------------------------- MODULE MCShell -------------------------------
(***************************************************************************)
(* The shell's parser on whatever is typed, and the shell running a few    *)
(* lines, in one run: part says which of the two a behaviour is.           *)
(***************************************************************************)
EXTENDS Shell

VARIABLE part

(* Pipelines of two and three commands, a block with a redirection before  *)
(* a pipe, a background pipeline, two redirections of one descriptor, two  *)
(* lines that do not parse, cd and a script; then a pipeline.              *)
MCLines == <<
  {<<"a", "|", "b", "|", "c">>, <<"(", "a", "<", "x", ";", "b", ")", "|", "c">>,
   <<"a", "|", "b", "&">>, <<"a", ">", "x", ">", "y">>, <<"|">>, <<"a", "&", ")">>,
   <<"c", "d", " ", "a">>, <<".", "/", "s">>},
  {<<"d", "|", "e">>} >>
MCScript == << <<"a", "|", "b", "\n">>, <<"\n">>, <<"c", "\n">>, <<"d">> >>

allvars == <<part, vars>>
MCInit == part \in {"parser", "shell"} /\ ShInit

Running(A) == part = "shell" /\ A /\ UNCHANGED part

MCNext ==
  \/ part = "parser" /\ Next /\ UNCHANGED <<part, proc, typed, faults, broken>>
  \/ Running(ShNext)

(* The fairness of module Shell, for the part that runs. *)
MCSpec ==
  /\ MCInit /\ [][MCNext]_allvars
  /\ WF_allvars(Running(init_fork \/ init_wait))
  /\ \A p \in Slots : WF_allvars(Running(Step(p)))

(* Whatever is typed is parsed by the grammar (see ShellParser).            *)
TypedParses == part = "parser" => ParsesGrammar

(* The shell comes back to its prompt (see Shell).                          *)
AlwaysPrompts == []<>(part = "shell" => Prompting \/ InitGone)
=============================================================================
