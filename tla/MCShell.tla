------------------------------ MODULE MCShell ------------------------------
(***************************************************************************)
(* A small instance of Shell: pipes hold one unit; commands that do        *)
(* nothing, filter their input, write one unit, or more than a pipe holds. *)
(***************************************************************************)
EXTENDS Shell

Cmd(reads, writes) == [reads |-> reads, writes |-> writes]
Idle == Cmd(FALSE, 0)
Filter == Cmd(TRUE, 1)
Short == Cmd(FALSE, 1)
Long == Cmd(FALSE, 2)

Line(cmds, end) == [cmds |-> cmds, end |-> end]
SomeLines ==
  {Line(<<c>>, end) : c \in {Idle, Filter}, end \in {"fg", "bg"}}
    \cup {Line(<<c, d>>, "fg") : c \in {Filter, Short, Long}, d \in {Idle, Filter}}
    \cup {Line(<<Short, Filter, Idle>>, "fg"), Line(<<Short, Filter, Filter>>, "fg"),
          Line(<<Short>>, "open"), Line(<<Short, Filter>>, "open"),
          Line(<< >>, "cd"), Line(<< >>, "exit"), Line(<<Short>>, "exit")}
=============================================================================
