------------------------------ MODULE Shell ------------------------------
(***************************************************************************)
(* The shell of shell/main.c: it reads a command line, forks the commands  *)
(* and waits for them, next to background commands that nobody waits for   *)
(* by name.                                                                *)
(*                                                                         *)
(* A command of a pipeline is forked only when wait() has returned after   *)
(* the one before it, and wait() returns for any child.  The terminal goes *)
(* to the group of a foreground command and comes back; pipelines and      *)
(* background commands never get it, and what reads from it anyway is      *)
(* stopped, which wait() does not report.                                  *)
(*                                                                         *)
(* Lines are parsed.  A command reads its standard input to the end, or    *)
(* nothing (this includes "< file"), and then writes.  Every command is    *)
(* found.  sigaction() is called with flags that have no value, taken to   *)
(* be 0.                                                                   *)
(***************************************************************************)
EXTENDS Integers, FiniteSets, Sequences

CONSTANTS
  Lines,      \* command lines: [cmds, end], see LineSet
  MaxProcs,   \* the number of commands that are started in all
  PipeSize    \* what a pipe holds

Progs == [reads: BOOLEAN, writes: Nat]
\* end: "fg", "bg" (&), "open" (the line ends with |), or a builtin command;
\* exit may also stand behind the last | of a pipeline.
LineSet == [cmds: Seq(Progs), end: {"fg", "bg", "open", "exit", "cd"}]

ASSUME ShellAssumption ==
  /\ Lines \subseteq LineSet
  /\ \A ln \in Lines :
       /\ ln.end \in {"fg", "bg", "open"} => ln.cmds # << >>
       /\ ln.end = "cd" => ln.cmds = << >>
       /\ ln.end = "bg" => Len(ln.cmds) = 1
  /\ MaxProcs \in Nat
  /\ PipeSize \in Nat \ {0}

Pids == 1 .. MaxProcs
SHELL == 0      \* the process group of the shell

VARIABLES
  pc,        \* where the shell is
  line,      \* what is left of the line
  last,      \* the pid that was forked last
  mine,      \* the pids of this line
  proc,      \* the children
  pipe,      \* the content of the pipe that each child writes to
  fds,       \* pdf: the pipes of which the shell has both ends open
  pre_pipe,  \* the child whose pipe the next command reads, or 0
  fg,        \* the group that has the terminal
  sigchld,   \* a SIGCHLD for sigmsg_BG() is pending
  pipe_pgid  \* whether the value that pipe_pgid never gets is one that works

shellVars == <<pc, line, last, mine, fds, pre_pipe, fg, pipe_pgid>>
vars == <<shellVars, proc, pipe, sigchld>>

Places == {"prompt", "parse", "waitStage", "waitLast", "give", "waitOne",
           "watch", "window", "handler", "exited"}
States == {"none", "forked", "run", "stopped", "zombie", "gone"}
Children == [st: States, from: Pids \cup {SHELL}, reads: BOOLEAN, left: Nat,
             piped: BOOLEAN, kind: {"none", "stage", "open", "one", "bg"}]
Nobody == [st |-> "none", from |-> SHELL, reads |-> FALSE, left |-> 0,
           piped |-> FALSE, kind |-> "none"]

TypeOK ==
  /\ pc \in Places
  /\ line \in LineSet
  /\ last \in 0 .. MaxProcs
  /\ mine \subseteq Pids
  /\ proc \in [Pids -> Children]
  /\ pipe \in [Pids -> 0 .. PipeSize]
  /\ fds \subseteq Pids
  /\ pre_pipe \in Pids \cup {0}
  /\ fg \in Pids \cup {SHELL}
  /\ sigchld \in BOOLEAN
  /\ pipe_pgid \in BOOLEAN

NoLine == [cmds |-> << >>, end |-> "fg"]

Init ==
  /\ pc = "prompt"
  /\ line = NoLine
  /\ last = 0
  /\ mine = {}
  /\ proc = [p \in Pids |-> Nobody]
  /\ pipe = [p \in Pids |-> 0]
  /\ fds = {}
  /\ pre_pipe = 0
  /\ fg = SHELL
  /\ sigchld = FALSE
  /\ pipe_pgid \in BOOLEAN

-----------------------------------------------------------------------------
(***************************************************************************)
(* The shell.                                                              *)
(***************************************************************************)
Prompt ==
  /\ pc' = "prompt"
  /\ line' = NoLine
  /\ mine' = {}
  /\ pre_pipe' = 0

\* The user types a line, as long as there are processes for it.
ReadLine ==
  /\ pc = "prompt"
  /\ \E ln \in Lines :
       /\ last + Len(ln.cmds) <= MaxProcs
       /\ line' = ln
  /\ pc' = "parse"
  /\ UNCHANGED <<last, mine, proc, pipe, fds, pre_pipe, fg, sigchld, pipe_pgid>>

Exits == pc' = "exited" /\ fds' = {} /\ UNCHANGED <<line, mine, pre_pipe>>

\* exit ends the shell wherever it stands; the commands before it have run.
Builtin ==
  /\ pc = "parse"
  /\ line.cmds = << >>
  /\ \/ line.end = "exit" /\ Exits
     \/ line.end = "cd" /\ Prompt /\ UNCHANGED fds
  /\ UNCHANGED <<last, proc, pipe, fg, sigchld, pipe_pgid>>

\* fork() of the next command, which reads from the pipe of pre_pipe or from
\* the terminal, and writes to a pipe of its own or to no pipe.
Fork(kind, piped) ==
  LET p == last + 1
      cmd == Head(line.cmds)
  IN  /\ last' = p
      /\ mine' = mine \cup {p}
      /\ line' = [line EXCEPT !.cmds = Tail(@)]
      /\ proc' = [proc EXCEPT ![p] =
           [st |-> "forked", from |-> pre_pipe, reads |-> cmd.reads,
            left |-> cmd.writes, piped |-> piped, kind |-> kind]]

\* Slip: the shell keeps both ends of the pipe of the command before.
ClosedSlip(q) == fds

\* After the fork the shell closes both ends of the pipe before.
Closed(q) == fds \ {q}

\* A command that a | follows.
IsLastOne == Len(line.cmds) = 1
Piped == ~IsLastOne \/ line.end \in {"open", "exit"}
InPipeline == pc = "parse" /\ line.cmds # << >> /\ (Piped \/ pre_pipe # 0)

ForkStage ==
  /\ InPipeline
  /\ Piped
  /\ Fork(IF IsLastOne /\ line.end = "open" THEN "open" ELSE "stage", TRUE)
  /\ fds' = Closed(pre_pipe) \cup {last + 1}
  /\ pc' = "waitStage"
  /\ UNCHANGED <<pipe, pre_pipe, fg, sigchld, pipe_pgid>>

ForkLast ==
  /\ InPipeline
  /\ ~Piped
  /\ Fork("stage", FALSE)
  /\ fds' = Closed(pre_pipe)
  /\ pc' = "waitLast"
  /\ UNCHANGED <<pipe, pre_pipe, fg, sigchld, pipe_pgid>>

\* wait(): any child that has ended.
Reap(p) == proc[p].st = "zombie" /\ proc' = [proc EXCEPT ![p].st = "gone"]

\* Slip: the next command is forked without a wait() for this one.
WaitStageSlip ==
  /\ pc = "waitStage"
  /\ pre_pipe' = last
  /\ pc' = "parse"
  /\ UNCHANGED <<line, last, mine, proc, pipe, fds, fg, sigchld, pipe_pgid>>

\* Slip: num is one too large when the next command reads pdf[num - 1].
WaitStageNumSlip ==
  /\ pc = "waitStage"
  /\ \E p \in Pids : Reap(p)
  /\ pre_pipe' = last + 1
  /\ pc' = "parse"
  /\ UNCHANGED <<line, last, mine, pipe, fds, fg, sigchld, pipe_pgid>>

WaitStage ==
  /\ pc = "waitStage"
  /\ \E p \in Pids : Reap(p)
  /\ pre_pipe' = last
  /\ pc' = "parse"
  /\ UNCHANGED <<line, last, mine, pipe, fds, fg, sigchld, pipe_pgid>>

\* Slip: the shell prompts without waiting for the last command.
WaitLastSlip ==
  /\ pc = "waitLast"
  /\ Prompt
  /\ UNCHANGED <<last, proc, pipe, fds, fg, sigchld, pipe_pgid>>

WaitLast ==
  /\ pc = "waitLast"
  /\ \E p \in Pids : Reap(p)
  /\ Prompt
  /\ UNCHANGED <<last, pipe, fds, fg, sigchld, pipe_pgid>>

\* A line that ends with | goes back to the prompt with the pipe open.
OpenEnd ==
  /\ pc = "parse"
  /\ line.cmds = << >>
  /\ line.end = "open"
  /\ Prompt
  /\ UNCHANGED <<last, proc, pipe, fds, fg, sigchld, pipe_pgid>>

\* A command alone.
ForkOne ==
  /\ pc = "parse"
  /\ line.cmds # << >> /\ ~InPipeline
  /\ Fork(IF line.end = "bg" THEN "bg" ELSE "one", FALSE)
  /\ pc' = IF line.end = "bg" THEN "watch" ELSE "give"
  /\ UNCHANGED <<pipe, fds, pre_pipe, fg, sigchld, pipe_pgid>>

\* tcsetpgrp(): fails when the child has not made its group yet.
GiveTerminal ==
  /\ pc = "give"
  /\ IF proc[last].st = "forked"
     THEN Exits /\ UNCHANGED fg
     ELSE pc' = "waitOne" /\ fg' = last /\ UNCHANGED <<line, mine, fds, pre_pipe>>
  /\ UNCHANGED <<last, proc, pipe, sigchld, pipe_pgid>>

\* Slip: the shell prompts without taking the terminal back.
WaitOneSlip ==
  /\ pc = "waitOne"
  /\ \E p \in Pids :
       /\ Reap(p)
       /\ IF p = last THEN Prompt ELSE UNCHANGED <<pc, line, mine, pre_pipe>>
  /\ UNCHANGED <<last, pipe, fds, fg, sigchld, pipe_pgid>>

\* wait() until it is the foreground command, and tcsetpgrp() again.
WaitOne ==
  /\ pc = "waitOne"
  /\ \E p \in Pids :
       /\ Reap(p)
       /\ IF p = last THEN Prompt /\ fg' = SHELL
                      ELSE UNCHANGED <<pc, line, mine, pre_pipe, fg>>
  /\ UNCHANGED <<last, pipe, fds, sigchld, pipe_pgid>>

\* signal(): sigmsg_BG() is the handler of SIGCHLD, until the next prompt.
Watch ==
  /\ pc = "watch"
  /\ pc' = "window"
  /\ UNCHANGED <<line, last, mine, proc, pipe, fds, pre_pipe, fg, sigchld, pipe_pgid>>

\* It waits for any child that has ended, whatever made the signal.
sigmsg_BG ==
  /\ pc = "window"
  /\ sigchld
  /\ sigchld' = FALSE
  /\ pc' = "handler"
  /\ UNCHANGED <<line, last, mine, proc, pipe, fds, pre_pipe, fg, pipe_pgid>>

WaitInHandler ==
  /\ pc = "handler"
  /\ \E p \in Pids : Reap(p)
  /\ pc' = "window"
  /\ UNCHANGED <<line, last, mine, pipe, fds, pre_pipe, fg, sigchld, pipe_pgid>>

EndWindow ==
  /\ pc = "window"
  /\ ~sigchld
  /\ Prompt
  /\ UNCHANGED <<last, proc, pipe, fds, fg, sigchld, pipe_pgid>>

ShellStep ==
  \/ Builtin \/ ForkStage \/ ForkLast \/ WaitStage \/ WaitLast \/ OpenEnd
  \/ ForkOne \/ GiveTerminal \/ WaitOne
  \/ Watch \/ sigmsg_BG \/ WaitInHandler \/ EndWindow

-----------------------------------------------------------------------------
(***************************************************************************)
(* The children.                                                           *)
(***************************************************************************)
Alive(p) == proc[p].st \in {"forked", "run", "stopped"}
Runs(p) == proc[p].st = "run"

\* The ends of the pipe that q writes to.  A child that is forked to read it
\* has a copy of both until it closes them; the pipe of a line that ends with
\* | stays open in the shell, and in every child that is forked later.
Inherited(q) == proc[q].kind = "open" /\ \E p \in Pids : p > q /\ Alive(p)
WriteEnd(q) ==
  \/ q \in fds
  \/ Alive(q)
  \/ \E p \in Pids : proc[p].st = "forked" /\ proc[p].from = q
ReadEnd(q) ==
  \/ q \in fds
  \/ \E p \in Pids : Alive(p) /\ proc[p].from = q
  \/ Inherited(q)

Becomes(p, st) == proc' = [proc EXCEPT ![p].st = st]
SigChld == sigchld' = (sigchld \/ pc \in {"window", "handler"})

\* setpgid() and execve().  A later command of a pipeline is to join the
\* group pipe_pgid, which only the first child has set; it may not exist.
Start(p) ==
  /\ proc[p].st = "forked"
  /\ IF proc[p].from # SHELL /\ ~pipe_pgid
     THEN Becomes(p, "zombie") /\ SigChld
     ELSE Becomes(p, "run") /\ UNCHANGED sigchld
  /\ UNCHANGED <<shellVars, pipe>>

\* Only the foreground group reads the terminal, until the user ends the
\* input; others are stopped, or see an error once the shell is gone.
ReadTerminal(p) ==
  /\ Runs(p) /\ proc[p].reads /\ proc[p].from = SHELL
  /\ IF fg = p \/ pc = "exited"
     THEN proc' = [proc EXCEPT ![p].reads = FALSE] /\ UNCHANGED sigchld
     ELSE Becomes(p, "stopped") /\ SigChld
  /\ UNCHANGED <<shellVars, pipe>>

ReadPipe(p) ==
  LET q == proc[p].from
  IN  /\ Runs(p) /\ proc[p].reads /\ q # SHELL
      /\ pipe[q] > 0
      /\ pipe' = [pipe EXCEPT ![q] = @ - 1]
      /\ UNCHANGED <<shellVars, proc, sigchld>>

ReadEof(p) ==
  LET q == proc[p].from
  IN  /\ Runs(p) /\ proc[p].reads /\ q # SHELL
      /\ pipe[q] = 0 /\ ~WriteEnd(q)
      /\ proc' = [proc EXCEPT ![p].reads = FALSE]
      /\ UNCHANGED <<shellVars, pipe, sigchld>>

Writes(p) == Runs(p) /\ ~proc[p].reads /\ proc[p].left > 0

Write(p) ==
  /\ Writes(p)
  /\ proc[p].piped => ReadEnd(p) /\ pipe[p] < PipeSize
  /\ proc' = [proc EXCEPT ![p].left = @ - 1]
  /\ pipe' = IF proc[p].piped THEN [pipe EXCEPT ![p] = @ + 1] ELSE pipe
  /\ UNCHANGED <<shellVars, sigchld>>

\* SIGPIPE: nobody can read what it writes.
BrokenPipe(p) ==
  /\ Writes(p)
  /\ proc[p].piped /\ ~ReadEnd(p)
  /\ Becomes(p, "zombie") /\ SigChld
  /\ UNCHANGED <<shellVars, pipe>>

Exit(p) ==
  /\ Runs(p) /\ ~proc[p].reads /\ proc[p].left = 0
  /\ Becomes(p, "zombie") /\ SigChld
  /\ UNCHANGED <<shellVars, pipe>>

ChildStep(p) ==
  \/ Start(p) \/ ReadTerminal(p) \/ ReadPipe(p) \/ ReadEof(p)
  \/ Write(p) \/ BrokenPipe(p) \/ Exit(p)

Next == ReadLine \/ ShellStep \/ \E p \in Pids : ChildStep(p)

Spec == Init /\ [][Next]_vars

\* The shell and its children are scheduled, and a user who is asked for input
\* ends it.
FairSpec == Spec /\ WF_vars(ShellStep) /\ \A p \in Pids : WF_vars(ChildStep(p))

-----------------------------------------------------------------------------
\* At the prompt the shell has its terminal back.
TerminalBack == pc = "prompt" => fg = SHELL

\* As many wait()s as commands: one of them is left behind at the prompt only
\* if wait() returned for a background command instead.
Left == {p \in Pids : proc[p].kind \in {"stage", "open", "one"} /\ proc[p].st # "gone"}
Taken == {p \in Pids : proc[p].kind = "bg" /\ proc[p].st = "gone"}
WaitsBalance == pc = "prompt" => Cardinality(Left) <= Cardinality(Taken)

\* The only pipes that stay open at the prompt are those of lines that end
\* with |.
NoPipeLeft == pc = "prompt" => \A q \in fds : proc[q].kind = "open"

\* A command has ended before the one that reads its output is there, and the
\* shell holds the pipe meanwhile: SIGPIPE only hits a command whose wait()
\* went to a background command.
SigpipeIsTaken ==
  (\E p \in Pids : Writes(p) /\ proc[p].piped /\ ~ReadEnd(p)) => Taken # {}

\* A line comes to its end, unless one of its commands reads the terminal
\* without having it, or writes more than a pipe holds before its reader is
\* there, or the handler waits for a background command that is stopped.
Blocked(p) ==
  \/ proc[p].st = "stopped"
  \/ Writes(p) /\ proc[p].piped /\ pipe[p] = PipeSize /\ p \in fds
Busy == pc \notin {"prompt", "exited"}
HandlerBlocked == pc = "handler" /\ \E p \in Pids : proc[p].st = "stopped"
LineEnds == Busy ~> (~Busy \/ HandlerBlocked \/ \E p \in mine : Blocked(p))
=============================================================================
