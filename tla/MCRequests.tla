----------------------------- MODULE MCRequests -----------------------------
(* The system calls that the runs about inodes make. *)

CONSTANTS a, b

Abs(s) == [abs |-> TRUE, elems |-> s]
Rel(s) == [abs |-> FALSE, elems |-> s]
Sys(c, w) == [call |-> c, old |-> w]

(* A directory /a, made, entered and removed while names appear in it. *)
Tree == {Sys("mkdir", Abs(<<a>>)), Sys("unlink", Abs(<<a>>)),
         Sys("chdir", Abs(<<a>>)),
         Sys("mkdir", Abs(<<a, b>>)), Sys("create", Abs(<<a, b>>)),
         Sys("open", Abs(<<a, b>>)), Sys("unlink", Abs(<<a, b>>)),
         Sys("create", Rel(<<b>>)), Sys("chdir", Abs(<<a, b>>)),
         [call |-> "link", old |-> Abs(<<a, b>>), new |-> Abs(<<b>>)],
         [call |-> "link", old |-> Abs(<<b>>), new |-> Abs(<<a, b>>)],
         Sys("unlink", Abs(<<b>>))}

Modes == {Sys("mkdir", Abs(<<a>>)), Sys("chmod", Abs(<<a>>))}
=============================================================================
