---------------------------- MODULE ShellProofs ----------------------------
(***************************************************************************)
(* Proofs about Shell, for any lines, any number of processes and any size *)
(* of a pipe.                                                              *)
(*                                                                         *)
(* The argument counts: every command that wait() is called for is in Left *)
(* until it is reaped, and a wait() that is not for one of them is for one *)
(* of Taken (Balance).  Hence, as long as nothing is in Taken, a command   *)
(* that writes to a pipe is the one that the shell waits for, with both    *)
(* ends of the pipe open (Written).                                        *)
(***************************************************************************)
EXTENDS Shell, FiniteSetTheorems, SequenceTheorems, TLAPS

\* Processes are numbered in the order of their forks.
Numbered ==
  \A p \in Pids : IF p > last THEN proc[p] = Nobody
                              ELSE proc[p].st # "none" /\ proc[p].kind # "none"
PipeKinds == \A p \in Pids : proc[p].piped => proc[p].kind \in {"stage", "open"}

\* What is left of a line, and what came before it.
Room == last + Len(line.cmds) <= MaxProcs
AtPrompt == pc = "prompt" => pre_pipe = 0
AtParse ==
  pc = "parse" =>
    /\ pre_pipe <= last
    /\ line.cmds = << >> =>
         \/ line.end = "exit"
         \/ line.end = "cd" /\ pre_pipe = 0
         \/ line.end = "open" /\ pre_pipe \in Pids /\ proc[pre_pipe].kind = "open"
    /\ line.cmds # << >> =>
         /\ line.end \in {"fg", "bg", "open", "exit"}
         /\ line.end = "bg" => Len(line.cmds) = 1 /\ pre_pipe = 0
AtWaitStage ==
  pc = "waitStage" =>
    /\ last \in Pids
    /\ line.end \in {"fg", "open", "exit"}
    /\ line.cmds = << >> =>
         line.end = "exit" \/ (line.end = "open" /\ proc[last].kind = "open")
AtOne ==
  pc \in {"give", "waitOne"} =>
    last \in Pids /\ proc[last].kind = "one" /\ proc[last].st # "gone"

Terminal == pc \notin {"waitOne", "exited"} => fg = SHELL
Pipes ==
  \A q \in fds : \/ proc[q].kind = "open"
                 \/ pc = "parse" /\ q = pre_pipe
                 \/ pc = "waitStage" /\ q = last

Waits == IF pc \in {"waitStage", "waitLast", "give", "waitOne"} THEN 1 ELSE 0
Balance == pc # "exited" => Cardinality(Left) <= Cardinality(Taken) + Waits
Written == Taken = {} => \A p \in Left : proc[p].piped => p \in fds /\ pc = "waitStage"

LineInv == Room /\ AtPrompt /\ AtParse /\ AtWaitStage /\ AtOne
Inv == TypeOK /\ Numbered /\ PipeKinds /\ LineInv /\ Terminal /\ Pipes
         /\ Balance /\ Written

-----------------------------------------------------------------------------
LEMMA InitInv == Init => Inv
<1>. SUFFICES ASSUME Init PROVE Inv
  OBVIOUS
<1>1. MaxProcs \in Nat /\ PipeSize \in Nat \ {0}
  BY ShellAssumption
<1>2. NoLine \in LineSet /\ Len(NoLine.cmds) = 0 /\ Nobody \in Children
  <2>1. << >> \in Seq(Progs) /\ Len(<< >>) = 0
    OBVIOUS
  <2>. QED
    BY <2>1 DEF NoLine, LineSet, Nobody, Children, States, SHELL
<1>3. TypeOK
  <2>1. pipe \in [Pids -> 0 .. PipeSize] /\ last \in 0 .. MaxProcs
    BY <1>1 DEF Init
  <2>2. line \in LineSet /\ proc \in [Pids -> Children]
    BY <1>2 DEF Init
  <2>3. /\ pc \in Places /\ mine \subseteq Pids /\ fds \subseteq Pids
        /\ pre_pipe \in Pids \cup {0} /\ fg \in Pids \cup {SHELL}
        /\ sigchld \in BOOLEAN /\ pipe_pgid \in BOOLEAN
    BY DEF Init, Places
  <2>. QED
    BY <2>1, <2>2, <2>3 DEF TypeOK
<1>4. Left = {} /\ Taken = {}
  BY DEF Init, Left, Taken, Nobody
<1>5. Balance /\ Written
  BY <1>4, FS_EmptySet DEF Balance, Written, Waits, Init
<1>6. Numbered /\ PipeKinds
  BY DEF Init, Numbered, PipeKinds, Nobody, Pids
<1>7. LineInv /\ Terminal /\ Pipes
  BY <1>1, <1>2 DEF Init, LineInv, Room, AtPrompt, AtParse, AtWaitStage, AtOne, Terminal, Pipes
<1>. QED
  BY <1>3, <1>5, <1>6, <1>7 DEF Inv

-----------------------------------------------------------------------------
(***************************************************************************)
(* What a fork and a wait() do to the children.                            *)
(***************************************************************************)
LEMMA ForkDoes ==
  ASSUME TypeOK, Numbered, PipeKinds, Room, line.cmds # << >>, pre_pipe <= last,
         NEW kind \in {"stage", "open", "one", "bg"}, NEW piped \in BOOLEAN,
         piped => kind \in {"stage", "open"}, Fork(kind, piped)
  PROVE  /\ last' \in Pids /\ last' = last + 1 /\ last' \in 0 .. MaxProcs
         /\ proc' \in [Pids -> Children]
         /\ line' \in LineSet /\ line'.end = line.end
         /\ line'.cmds = Tail(line.cmds) /\ Len(line'.cmds) = Len(line.cmds) - 1
         /\ mine' \subseteq Pids
         /\ proc'[last'].kind = kind /\ proc'[last'].piped = piped
         /\ proc'[last'].st = "forked"
         /\ \A p \in Pids : p # last' => proc'[p] = proc[p]
         /\ Numbered' /\ PipeKinds' /\ Room'
<1>1. /\ MaxProcs \in Nat /\ last \in 0 .. MaxProcs
      /\ line \in LineSet /\ line.cmds \in Seq(Progs) /\ line.cmds # << >>
      /\ proc \in [Pids -> Children] /\ mine \subseteq Pids
      /\ pre_pipe \in Pids \cup {0}
  BY ShellAssumption DEF TypeOK, LineSet
<1>2. /\ Len(line.cmds) \in Nat \ {0}
      /\ Head(line.cmds) \in Progs
      /\ Tail(line.cmds) \in Seq(Progs) /\ Len(Tail(line.cmds)) = Len(line.cmds) - 1
  BY <1>1, HeadTailProperties, EmptySeq, LenProperties
<1>3. last + 1 \in Pids /\ last + 1 \in 0 .. MaxProcs
  BY <1>1, <1>2 DEF Room, Pids
<1>4. /\ last' = last + 1 /\ mine' = mine \cup {last + 1}
      /\ line' = [line EXCEPT !.cmds = Tail(@)]
      /\ proc' = [proc EXCEPT ![last + 1] =
           [st |-> "forked", from |-> pre_pipe, reads |-> Head(line.cmds).reads,
            left |-> Head(line.cmds).writes, piped |-> piped, kind |-> kind]]
  BY DEF Fork
<1>5. line' \in LineSet /\ line'.end = line.end /\ line'.cmds = Tail(line.cmds)
  BY <1>1, <1>2, <1>4 DEF LineSet
<1>6. [st |-> "forked", from |-> pre_pipe, reads |-> Head(line.cmds).reads,
       left |-> Head(line.cmds).writes, piped |-> piped, kind |-> kind] \in Children
  BY <1>1, <1>2 DEF Children, Progs, States, SHELL
<1>7. /\ proc' \in [Pids -> Children]
      /\ proc'[last'].kind = kind /\ proc'[last'].piped = piped
      /\ proc'[last'].st = "forked"
      /\ \A p \in Pids : p # last' => proc'[p] = proc[p]
  BY <1>1, <1>3, <1>4, <1>6
<1>8. Numbered'
  BY <1>1, <1>3, <1>4, <1>7 DEF Numbered, Pids
<1>9. PipeKinds'
  BY <1>7 DEF PipeKinds
<1>10. Room'
  BY <1>1, <1>2, <1>4, <1>5 DEF Room
<1>. QED
  BY <1>1, <1>2, <1>3, <1>4, <1>5, <1>7, <1>8, <1>9, <1>10

LEMMA Counts ==
  ASSUME TypeOK
  PROVE  /\ IsFiniteSet(Left) /\ Cardinality(Left) \in Nat
         /\ IsFiniteSet(Taken) /\ Cardinality(Taken) \in Nat
         /\ Left \subseteq Pids /\ Taken \subseteq Pids
<1>1. IsFiniteSet(Pids)
  BY ShellAssumption, FS_Interval DEF Pids
<1>2. Left \subseteq Pids /\ Taken \subseteq Pids
  BY DEF Left, Taken
<1>. QED
  BY <1>1, <1>2, FS_Subset, FS_CardinalityType

\* A fork in the foreground is one more to wait for.
LEMMA ForkCounts ==
  ASSUME TypeOK, Numbered, last' \in Pids, last' = last + 1,
         \A p \in Pids : p # last' => proc'[p] = proc[p],
         proc'[last'].st = "forked",
         proc'[last'].kind \in {"stage", "open", "one", "bg"}
  PROVE  /\ Taken' = Taken
         /\ Left' = IF proc'[last'].kind = "bg" THEN Left ELSE Left \cup {last'}
         /\ Cardinality(Left') =
              Cardinality(Left) + IF proc'[last'].kind = "bg" THEN 0 ELSE 1
<1>1. proc[last'] = Nobody
  BY DEF Numbered, TypeOK
<1>2. last' \notin Left /\ last' \notin Taken
  BY <1>1 DEF Left, Taken, Nobody
<1>3. Taken' = Taken
  BY <1>2 DEF Taken
<1>4. Left' = IF proc'[last'].kind = "bg" THEN Left ELSE Left \cup {last'}
  BY <1>2 DEF Left
<1>5. Cardinality(Left) \in Nat /\ Cardinality(Left \cup {last'}) = Cardinality(Left) + 1
  BY <1>2, Counts, FS_AddElement
<1>. QED
  BY <1>3, <1>4, <1>5

\* wait() for p is one less to wait for, or one that was for another.
LEMMA ReapDoes ==
  ASSUME TypeOK, Numbered, PipeKinds, NEW p \in Pids, Reap(p), last' = last
  PROVE  /\ proc' \in [Pids -> Children]
         /\ proc'[p].st = "gone"
         /\ \A q \in Pids : /\ proc'[q].kind = proc[q].kind
                            /\ proc'[q].piped = proc[q].piped
                            /\ q # p => proc'[q] = proc[q]
         /\ Numbered' /\ PipeKinds'
         /\ \/ p \in Left /\ Left' = Left \ {p} /\ Taken' = Taken
            \/ p \notin Taken /\ Left' = Left /\ Taken' = Taken \cup {p}
         /\ Cardinality(Left') + Cardinality(Taken) + 1
              = Cardinality(Left) + Cardinality(Taken')
<1>1. /\ proc \in [Pids -> Children] /\ proc[p].st = "zombie"
      /\ proc' = [proc EXCEPT ![p].st = "gone"]
      /\ last \in Int
  BY ShellAssumption DEF TypeOK, Reap
<1>2. /\ proc' \in [Pids -> Children]
      /\ proc'[p].st = "gone"
      /\ \A q \in Pids : /\ proc'[q].kind = proc[q].kind
                         /\ proc'[q].piped = proc[q].piped
                         /\ q # p => proc'[q] = proc[q]
  BY <1>1 DEF Children, States
<1>3. proc[p].kind \in {"stage", "open", "one", "bg"}
  BY <1>1 DEF Numbered, Nobody, Children
<1>4. Numbered' /\ PipeKinds'
  <2>1. p <= last
    BY <1>1 DEF Numbered, Nobody, Pids
  <2>. QED
    BY <1>2, <1>3, <2>1 DEF Numbered, PipeKinds, Nobody
<1>5. CASE proc[p].kind = "bg"
  <2>1. p \notin Taken /\ Left' = Left /\ Taken' = Taken \cup {p}
    BY <1>1, <1>2, <1>5 DEF Left, Taken
  <2>2. Cardinality(Taken \cup {p}) = Cardinality(Taken) + 1
    BY <2>1, Counts, FS_AddElement
  <2>3. Cardinality(Left') + Cardinality(Taken) + 1
          = Cardinality(Left) + Cardinality(Taken')
    BY <2>1, <2>2, Counts
  <2>. QED
    BY <1>2, <1>4, <2>1, <2>3
<1>6. CASE proc[p].kind # "bg"
  <2>1. p \in Left /\ Left' = Left \ {p} /\ Taken' = Taken
    BY <1>1, <1>2, <1>3, <1>6 DEF Left, Taken
  <2>2. Cardinality(Left \ {p}) = Cardinality(Left) - 1
    BY <2>1, Counts, FS_RemoveElement
  <2>3. Cardinality(Left') + Cardinality(Taken) + 1
          = Cardinality(Left) + Cardinality(Taken')
    BY <2>1, <2>2, Counts
  <2>. QED
    BY <1>2, <1>4, <2>1, <2>3
<1>. QED
  BY <1>5, <1>6

\* A step without a fork and without a wait().
LEMMA SameChildren ==
  ASSUME proc' = proc, last' = last, Inv
  PROVE  Left' = Left /\ Taken' = Taken /\ Numbered' /\ PipeKinds'
  BY DEF Left, Taken, Inv, Numbered, PipeKinds

-----------------------------------------------------------------------------
(***************************************************************************)
(* The steps of the shell.                                                 *)
(***************************************************************************)
LEMMA NoLineFacts == NoLine \in LineSet /\ NoLine.cmds = << >> /\ Len(NoLine.cmds) = 0
<1>1. << >> \in Seq(Progs) /\ Len(<< >>) = 0
  OBVIOUS
<1>. QED
  BY <1>1 DEF NoLine, LineSet

LEMMA ReadLineInv == Inv /\ ReadLine => Inv'
<1>. SUFFICES ASSUME Inv, ReadLine PROVE Inv'
  OBVIOUS
<1>1. PICK ln \in Lines : last + Len(ln.cmds) <= MaxProcs /\ line' = ln
  BY DEF ReadLine
<1>2. /\ ln \in LineSet
      /\ ln.end \in {"fg", "bg", "open"} => ln.cmds # << >>
      /\ ln.end = "cd" => ln.cmds = << >>
      /\ ln.end = "bg" => Len(ln.cmds) = 1
      /\ ln.end \in {"fg", "bg", "open", "exit", "cd"}
  BY ShellAssumption DEF LineSet
<1>3. /\ pc = "prompt" /\ pc' = "parse"
      /\ UNCHANGED <<last, mine, proc, pipe, fds, pre_pipe, fg, sigchld, pipe_pgid>>
  BY DEF ReadLine
<1>4. Left' = Left /\ Taken' = Taken /\ Numbered' /\ PipeKinds'
  BY <1>3, SameChildren
<1>5. TypeOK'
  BY <1>1, <1>2, <1>3 DEF Inv, TypeOK, Places
<1>6. Terminal' /\ Pipes' /\ Balance' /\ Written'
  BY <1>3, <1>4 DEF Inv, Terminal, Pipes, Balance, Written, Waits
<1>7. pre_pipe' = 0 /\ 0 <= last
  BY <1>3, ShellAssumption DEF Inv, TypeOK, LineInv, AtPrompt
<1>. QED
  BY <1>1, <1>2, <1>3, <1>4, <1>5, <1>6, <1>7 DEF Inv, LineInv, Room, AtPrompt, AtParse, AtWaitStage, AtOne

LEMMA PromptKeeps ==
  ASSUME Inv, Prompt, last' = last
  PROVE  /\ line' \in LineSet /\ mine' \subseteq Pids /\ pre_pipe' \in Pids \cup {0}
         /\ pc' \in Places
         /\ LineInv'
<1>1. last \in 0 .. MaxProcs /\ MaxProcs \in Nat
  BY ShellAssumption DEF Inv, TypeOK
<1>. QED
  BY <1>1, NoLineFacts DEF Prompt, Places, LineInv, Room, AtPrompt, AtParse,
                           AtWaitStage, AtOne

\* Whatever ends a line leaves only pipes of lines that end with |.
LEMMA BuiltinInv == Inv /\ Builtin => Inv'
<1>. SUFFICES ASSUME Inv, Builtin PROVE Inv'
  OBVIOUS
<1>1. pc = "parse" /\ UNCHANGED <<last, proc, pipe, fg, sigchld, pipe_pgid>>
  BY DEF Builtin
<1>2. Left' = Left /\ Taken' = Taken /\ Numbered' /\ PipeKinds'
  BY <1>1, SameChildren
<1>3. CASE Exits
  <2>1. TypeOK'
    BY <1>1, <1>3 DEF Inv, TypeOK, Exits, Places
  <2>2. LineInv' /\ Terminal' /\ Pipes' /\ Balance'
    BY <1>1, <1>3 DEF Inv, Exits, LineInv, Room, AtPrompt, AtParse, AtWaitStage,
                      AtOne, Terminal, Pipes, Balance
  <2>3. Written'
    BY <1>1, <1>2 DEF Inv, Written
  <2>. QED
    BY <1>2, <2>1, <2>2, <2>3 DEF Inv
<1>4. CASE line.end = "cd" /\ Prompt /\ UNCHANGED fds
  <2>1. TypeOK'
    BY <1>1, <1>4, PromptKeeps DEF Inv, TypeOK
  <2>2. Terminal' /\ Balance' /\ Written'
    BY <1>1, <1>2, <1>4 DEF Inv, Prompt, Terminal, Balance, Written, Waits
  <2>3. pre_pipe = 0
    BY <1>1, <1>4 DEF Inv, LineInv, AtParse
  <2>4. Pipes'
    BY <1>1, <1>4, <2>3 DEF Inv, TypeOK, Pipes, Prompt, Pids
  <2>. QED
    BY <1>1, <1>2, <1>4, <2>1, <2>2, <2>4, PromptKeeps DEF Inv
<1>. QED
  BY <1>3, <1>4 DEF Builtin

LEMMA OpenEndInv == Inv /\ OpenEnd => Inv'
<1>. SUFFICES ASSUME Inv, OpenEnd PROVE Inv'
  OBVIOUS
<1>1. /\ pc = "parse" /\ line.cmds = << >> /\ line.end = "open" /\ Prompt
      /\ UNCHANGED <<last, proc, pipe, fds, fg, sigchld, pipe_pgid>>
  BY DEF OpenEnd
<1>2. Left' = Left /\ Taken' = Taken /\ Numbered' /\ PipeKinds'
  BY <1>1, SameChildren
<1>3. TypeOK'
  BY <1>1, PromptKeeps DEF Inv, TypeOK
<1>4. Terminal' /\ Balance' /\ Written'
  BY <1>1, <1>2 DEF Inv, Prompt, Terminal, Balance, Written, Waits
<1>5. proc[pre_pipe].kind = "open"
  BY <1>1 DEF Inv, LineInv, AtParse
<1>6. Pipes'
  BY <1>1, <1>5 DEF Inv, Pipes
<1>. QED
  BY <1>1, <1>2, <1>3, <1>4, <1>6, PromptKeeps DEF Inv

LEMMA GiveTerminalInv == Inv /\ GiveTerminal => Inv'
<1>. SUFFICES ASSUME Inv, GiveTerminal PROVE Inv'
  OBVIOUS
<1>1. pc = "give" /\ UNCHANGED <<last, proc, pipe, sigchld, pipe_pgid>>
  BY DEF GiveTerminal
<1>2. Left' = Left /\ Taken' = Taken /\ Numbered' /\ PipeKinds'
  BY <1>1, SameChildren
<1>3. Written'
  BY <1>1, <1>2 DEF Inv, Written
<1>4. CASE Exits /\ UNCHANGED fg
  <2>1. TypeOK'
    BY <1>1, <1>4 DEF Inv, TypeOK, Exits, Places
  <2>2. LineInv' /\ Terminal' /\ Pipes' /\ Balance'
    BY <1>1, <1>4 DEF Inv, Exits, LineInv, Room, AtPrompt, AtParse, AtWaitStage,
                      AtOne, Terminal, Pipes, Balance
  <2>. QED
    BY <1>2, <1>3, <2>1, <2>2 DEF Inv
<1>5. CASE pc' = "waitOne" /\ fg' = last /\ UNCHANGED <<line, mine, fds, pre_pipe>>
  <2>1. last \in Pids /\ proc[last].kind = "one" /\ proc[last].st # "gone"
    BY <1>1 DEF Inv, LineInv, AtOne
  <2>2. TypeOK'
    BY <1>1, <1>5, <2>1 DEF Inv, TypeOK, Places
  <2>3. LineInv'
    BY <1>1, <1>5, <2>1 DEF Inv, LineInv, Room, AtPrompt, AtParse, AtWaitStage, AtOne
  <2>4. Terminal' /\ Pipes' /\ Balance'
    BY <1>1, <1>2, <1>5 DEF Inv, Terminal, Pipes, Balance, Waits
  <2>. QED
    BY <1>2, <1>3, <2>2, <2>3, <2>4 DEF Inv
<1>. QED
  BY <1>4, <1>5 DEF GiveTerminal

LEMMA WindowInv == Inv /\ (Watch \/ sigmsg_BG \/ EndWindow) => Inv'
<1>. SUFFICES ASSUME Inv, Watch \/ sigmsg_BG \/ EndWindow PROVE Inv'
  OBVIOUS
<1>1. /\ pc \in {"watch", "window"}
      /\ UNCHANGED <<last, proc, pipe, fds, fg, pipe_pgid>>
      /\ sigchld' \in BOOLEAN
  BY DEF Watch, sigmsg_BG, EndWindow, Inv, TypeOK
<1>2. Left' = Left /\ Taken' = Taken /\ Numbered' /\ PipeKinds'
  BY <1>1, SameChildren
<1>3. \/ Prompt
      \/ pc' \in {"window", "handler"} /\ UNCHANGED <<line, mine, pre_pipe>>
  BY DEF Watch, sigmsg_BG, EndWindow
<1>4. CASE Prompt
  <2>1. TypeOK'
    BY <1>1, <1>4, PromptKeeps DEF Inv, TypeOK
  <2>2. Terminal' /\ Balance' /\ Written' /\ Pipes'
    BY <1>1, <1>2, <1>4 DEF Inv, Prompt, Terminal, Balance, Written, Waits, Pipes
  <2>. QED
    BY <1>1, <1>2, <1>4, <2>1, <2>2, PromptKeeps DEF Inv
<1>5. CASE pc' \in {"window", "handler"} /\ UNCHANGED <<line, mine, pre_pipe>>
  <2>1. TypeOK'
    BY <1>1, <1>5 DEF Inv, TypeOK, Places
  <2>2. LineInv'
    BY <1>1, <1>5 DEF Inv, LineInv, Room, AtPrompt, AtParse, AtWaitStage, AtOne
  <2>3. Terminal' /\ Balance' /\ Written' /\ Pipes'
    BY <1>1, <1>2, <1>5 DEF Inv, Terminal, Balance, Written, Waits, Pipes
  <2>. QED
    BY <1>2, <2>1, <2>2, <2>3 DEF Inv
<1>. QED
  BY <1>3, <1>4, <1>5

LEMMA ForkStageInv == Inv /\ ForkStage => Inv'
<1>. SUFFICES ASSUME Inv, ForkStage PROVE Inv'
  OBVIOUS
<1>1. /\ pc = "parse" /\ line.cmds # << >> /\ Piped
      /\ fds' = (fds \ {pre_pipe}) \cup {last + 1}
      /\ pc' = "waitStage"
      /\ UNCHANGED <<pipe, pre_pipe, fg, sigchld, pipe_pgid>>
  BY DEF ForkStage, InPipeline, Closed
<1>2. PICK kind \in {"stage", "open"} :
        /\ Fork(kind, TRUE)
        /\ kind = (IF IsLastOne /\ line.end = "open" THEN "open" ELSE "stage")
  BY DEF ForkStage
<1>3. /\ pre_pipe <= last
      /\ line.end \in {"fg", "bg", "open", "exit"}
      /\ line.end = "bg" => Len(line.cmds) = 1 /\ pre_pipe = 0
  BY <1>1 DEF Inv, LineInv, AtParse
<1>4. /\ last' \in Pids /\ last' = last + 1 /\ last' \in 0 .. MaxProcs
      /\ proc' \in [Pids -> Children]
      /\ line' \in LineSet /\ line'.end = line.end
      /\ Len(line'.cmds) = Len(line.cmds) - 1
      /\ mine' \subseteq Pids
      /\ proc'[last'].kind = kind /\ proc'[last'].piped = TRUE
      /\ proc'[last'].st = "forked"
      /\ \A p \in Pids : p # last' => proc'[p] = proc[p]
      /\ Numbered' /\ PipeKinds' /\ Room'
  BY <1>1, <1>2, <1>3, ForkDoes DEF Inv, LineInv
<1>5. /\ Taken' = Taken /\ Left' = Left \cup {last'}
      /\ Cardinality(Left') = Cardinality(Left) + 1
  BY <1>4, ForkCounts DEF Inv
<1>6. TypeOK'
  BY <1>1, <1>4 DEF Inv, TypeOK, Places
<1>7. /\ line'.end \in {"fg", "open", "exit"}
      /\ line'.cmds = << >> =>
           line'.end = "exit" \/ (line'.end = "open" /\ kind = "open")
  <2>1. line.cmds \in Seq(Progs) /\ line'.cmds \in Seq(Progs)
    BY <1>4 DEF Inv, TypeOK, LineSet
  <2>2. line'.cmds = << >> <=> Len(line'.cmds) = 0
    BY <2>1, EmptySeq
  <2>3. line'.cmds = << >> <=> Len(line.cmds) = 1
    BY <2>1, <2>2, <1>4, LenProperties
  <2>4. line'.cmds = << >> <=> IsLastOne
    BY <2>3 DEF IsLastOne
  <2>5. line'.end \in {"fg", "open", "exit"}
    <3>1. line'.end = "bg" => Len(line.cmds) = 1
      BY <1>3, <1>4
    <3>2. line'.end # "bg"
      BY <1>1, <1>4, <3>1 DEF Piped, IsLastOne
    <3>. QED
      BY <1>3, <1>4, <3>2
  <2>6. IsLastOne => line'.end \in {"open", "exit"}
    BY <1>1, <1>4 DEF Piped
  <2>7. IsLastOne /\ line'.end = "open" => kind = "open"
    BY <1>2, <1>4
  <2>. QED
    BY <2>4, <2>5, <2>6, <2>7
<1>8. LineInv'
  BY <1>1, <1>4, <1>7 DEF LineInv, AtPrompt, AtParse, AtWaitStage, AtOne
<1>9. Terminal'
  BY <1>1 DEF Inv, Terminal
<1>10. Pipes'
  BY <1>1, <1>4 DEF Inv, Pipes, Numbered, Nobody, TypeOK
<1>11. Balance'
  BY <1>1, <1>5, Counts DEF Inv, Balance, Waits
<1>12. Written'
  <2>1. ASSUME Taken = {}, NEW p \in Left PROVE ~proc[p].piped
    BY <2>1, <1>1 DEF Inv, Written
  <2>2. Left \subseteq Pids
    BY DEF Left
  <2>. QED
    BY <1>1, <1>4, <1>5, <2>1, <2>2 DEF Written
<1>. QED
  BY <1>4, <1>6, <1>8, <1>9, <1>10, <1>11, <1>12 DEF Inv

LEMMA ForkLastInv == Inv /\ ForkLast => Inv'
<1>. SUFFICES ASSUME Inv, ForkLast PROVE Inv'
  OBVIOUS
<1>1. /\ pc = "parse" /\ line.cmds # << >>
      /\ fds' = fds \ {pre_pipe}
      /\ pc' = "waitLast"
      /\ Fork("stage", FALSE)
      /\ UNCHANGED <<pipe, pre_pipe, fg, sigchld, pipe_pgid>>
  BY DEF ForkLast, InPipeline, Closed
<1>2. pre_pipe <= last
  BY <1>1 DEF Inv, LineInv, AtParse
<1>3. /\ last' \in Pids /\ last' = last + 1 /\ last' \in 0 .. MaxProcs
      /\ proc' \in [Pids -> Children]
      /\ line' \in LineSet
      /\ mine' \subseteq Pids
      /\ proc'[last'].kind = "stage" /\ proc'[last'].piped = FALSE
      /\ proc'[last'].st = "forked"
      /\ \A p \in Pids : p # last' => proc'[p] = proc[p]
      /\ Numbered' /\ PipeKinds' /\ Room'
  BY <1>1, <1>2, ForkDoes DEF Inv, LineInv
<1>4. /\ Taken' = Taken /\ Left' = Left \cup {last'}
      /\ Cardinality(Left') = Cardinality(Left) + 1
  BY <1>3, ForkCounts DEF Inv
<1>5. TypeOK'
  BY <1>1, <1>3 DEF Inv, TypeOK, Places
<1>6. LineInv' /\ Terminal'
  BY <1>1, <1>3 DEF Inv, LineInv, AtPrompt, AtParse, AtWaitStage, AtOne, Terminal
<1>7. Pipes'
  BY <1>1, <1>3 DEF Inv, Pipes, Numbered, Nobody, TypeOK
<1>8. Balance'
  BY <1>1, <1>4, Counts DEF Inv, Balance, Waits
<1>9. Written'
  <2>1. Left \subseteq Pids
    BY DEF Left
  <2>. QED
    BY <1>1, <1>3, <1>4, <2>1 DEF Inv, Written
<1>. QED
  BY <1>3, <1>5, <1>6, <1>7, <1>8, <1>9 DEF Inv

LEMMA ForkOneInv == Inv /\ ForkOne => Inv'
<1>. SUFFICES ASSUME Inv, ForkOne PROVE Inv'
  OBVIOUS
<1>1. /\ pc = "parse" /\ line.cmds # << >>
      /\ ~Piped /\ pre_pipe = 0
      /\ pc' = IF line.end = "bg" THEN "watch" ELSE "give"
      /\ UNCHANGED <<pipe, fds, pre_pipe, fg, sigchld, pipe_pgid>>
  BY DEF ForkOne, InPipeline
<1>2. PICK kind \in {"bg", "one"} :
        Fork(kind, FALSE) /\ kind = (IF line.end = "bg" THEN "bg" ELSE "one")
  BY DEF ForkOne
<1>3. pre_pipe <= last
  BY <1>1 DEF Inv, LineInv, AtParse
<1>4. /\ last' \in Pids /\ last' = last + 1 /\ last' \in 0 .. MaxProcs
      /\ proc' \in [Pids -> Children]
      /\ line' \in LineSet
      /\ mine' \subseteq Pids
      /\ proc'[last'].kind = kind /\ proc'[last'].piped = FALSE
      /\ proc'[last'].st = "forked"
      /\ \A p \in Pids : p # last' => proc'[p] = proc[p]
      /\ Numbered' /\ PipeKinds' /\ Room'
  BY <1>1, <1>2, <1>3, ForkDoes DEF Inv, LineInv
<1>5. /\ Taken' = Taken
      /\ Left' = IF kind = "bg" THEN Left ELSE Left \cup {last'}
      /\ Cardinality(Left') = Cardinality(Left) + IF kind = "bg" THEN 0 ELSE 1
  BY <1>4, ForkCounts DEF Inv
<1>6. TypeOK'
  BY <1>1, <1>4 DEF Inv, TypeOK, Places
<1>7. LineInv' /\ Terminal'
  BY <1>1, <1>2, <1>4 DEF Inv, LineInv, AtPrompt, AtParse, AtWaitStage, AtOne, Terminal
<1>8. Pipes'
  BY <1>1, <1>4 DEF Inv, Pipes, Numbered, Nobody, TypeOK, Pids
<1>9. Balance'
  BY <1>1, <1>2, <1>5, Counts DEF Inv, Balance, Waits
<1>10. Written'
  <2>1. Left \subseteq Pids
    BY DEF Left
  <2>. QED
    BY <1>1, <1>4, <1>5, <2>1 DEF Inv, Written
<1>. QED
  BY <1>4, <1>6, <1>7, <1>8, <1>9, <1>10 DEF Inv

\* The wait() after a stage: when no background command was ever taken, it
\* has returned for this stage, and nothing is left.
LEMMA WaitStageInv == Inv /\ WaitStage => Inv'
<1>. SUFFICES ASSUME Inv, WaitStage PROVE Inv'
  OBVIOUS
<1>1. /\ pc = "waitStage" /\ pre_pipe' = last /\ pc' = "parse"
      /\ UNCHANGED <<line, last, mine, pipe, fds, fg, sigchld, pipe_pgid>>
  BY DEF WaitStage
<1>2. PICK p \in Pids : Reap(p)
  BY DEF WaitStage
<1>3. /\ proc' \in [Pids -> Children]
      /\ \A q \in Pids : /\ proc'[q].kind = proc[q].kind
                         /\ proc'[q].piped = proc[q].piped
      /\ Numbered' /\ PipeKinds'
      /\ \/ p \in Left /\ Left' = Left \ {p} /\ Taken' = Taken
         \/ p \notin Taken /\ Left' = Left /\ Taken' = Taken \cup {p}
      /\ Cardinality(Left') + Cardinality(Taken) + 1
           = Cardinality(Left) + Cardinality(Taken')
  BY <1>1, <1>2, ReapDoes DEF Inv
<1>4. /\ last \in Pids
      /\ line.end \in {"fg", "open", "exit"}
      /\ line.cmds = << >> =>
           line.end = "exit" \/ (line.end = "open" /\ proc[last].kind = "open")
  BY <1>1 DEF Inv, LineInv, AtWaitStage
<1>5. TypeOK'
  BY <1>1, <1>3, <1>4 DEF Inv, TypeOK, Places
<1>6. LineInv'
  <2>1. pre_pipe' <= last'
    BY <1>1, <1>4 DEF Pids
  <2>. QED
    BY <1>1, <1>3, <1>4, <2>1
    DEF Inv, LineInv, Room, AtPrompt, AtParse, AtWaitStage, AtOne
<1>7. Terminal' /\ Pipes'
  BY <1>1, <1>3 DEF Inv, Terminal, Pipes, TypeOK
<1>8. /\ Cardinality(Left) \in Nat /\ Cardinality(Taken) \in Nat
      /\ IsFiniteSet(Left) /\ IsFiniteSet(Taken)
  BY Counts DEF Inv
<1>9. IsFiniteSet(Left') /\ Cardinality(Left') \in Nat /\ Cardinality(Taken') \in Nat
  BY <1>3, <1>8, FS_AddElement, FS_RemoveElement, FS_CardinalityType
<1>10. Balance'
  BY <1>1, <1>3, <1>8, <1>9 DEF Inv, Balance, Waits
<1>11. Written'
  <2>. SUFFICES ASSUME Taken' = {} PROVE Left' = {}
    BY DEF Written
  <2>1. Cardinality(Taken') = 0
    BY FS_EmptySet
  <2>2. Cardinality(Left') = 0
    BY <1>1, <1>9, <1>10, <2>1 DEF Balance, Waits
  <2>. QED
    BY <1>9, <2>2, FS_EmptySet
<1>. QED
  BY <1>3, <1>5, <1>6, <1>7, <1>10, <1>11 DEF Inv

\* A wait() after which the shell prompts or waits on, or goes on in the
\* window.
LEMMA WaitKeeps ==
  ASSUME Inv, NEW p \in Pids, Reap(p), last' = last, fds' = fds,
         pc \in {"waitLast", "waitOne", "handler"}
  PROVE  /\ proc' \in [Pids -> Children]
         /\ \A q \in Pids : q # p => proc'[q] = proc[q]
         /\ \A q \in Pids : proc'[q].kind = proc[q].kind
         /\ Numbered' /\ PipeKinds' /\ Written'
         /\ Cardinality(Left') \in Int /\ Cardinality(Taken') \in Int
         /\ Cardinality(Left') + 1 <= Cardinality(Taken') + Waits
<1>1. /\ proc' \in [Pids -> Children]
      /\ \A q \in Pids : /\ proc'[q].kind = proc[q].kind
                         /\ proc'[q].piped = proc[q].piped
                         /\ q # p => proc'[q] = proc[q]
      /\ Numbered' /\ PipeKinds'
      /\ \/ p \in Left /\ Left' = Left \ {p} /\ Taken' = Taken
         \/ p \notin Taken /\ Left' = Left /\ Taken' = Taken \cup {p}
      /\ Cardinality(Left') + Cardinality(Taken) + 1
           = Cardinality(Left) + Cardinality(Taken')
  BY ReapDoes DEF Inv
<1>2. /\ IsFiniteSet(Left) /\ IsFiniteSet(Taken)
      /\ Cardinality(Left) \in Nat /\ Cardinality(Taken) \in Nat
      /\ Left \subseteq Pids
  BY Counts DEF Inv
<1>3. IsFiniteSet(Left') /\ IsFiniteSet(Taken')
  BY <1>1, <1>2, FS_AddElement, FS_RemoveElement
<1>4. Cardinality(Left') \in Nat /\ Cardinality(Taken') \in Nat
  BY <1>3, FS_CardinalityType
<1>5. Written'
  BY <1>1, <1>2 DEF Inv, Written
<1>6. Cardinality(Left) <= Cardinality(Taken) + Waits
  BY DEF Inv, Balance
<1>. QED
  BY <1>1, <1>2, <1>4, <1>5, <1>6 DEF Waits

LEMMA WaitLastInv == Inv /\ WaitLast => Inv'
<1>. SUFFICES ASSUME Inv, WaitLast PROVE Inv'
  OBVIOUS
<1>1. /\ pc = "waitLast" /\ Prompt
      /\ UNCHANGED <<last, pipe, fds, fg, sigchld, pipe_pgid>>
  BY DEF WaitLast
<1>2. PICK p \in Pids : Reap(p)
  BY DEF WaitLast
<1>3. /\ proc' \in [Pids -> Children]
      /\ \A q \in Pids : proc'[q].kind = proc[q].kind
      /\ Numbered' /\ PipeKinds' /\ Written'
      /\ Cardinality(Left') \in Int /\ Cardinality(Taken') \in Int
      /\ Cardinality(Left') + 1 <= Cardinality(Taken') + Waits
  BY <1>1, <1>2, WaitKeeps
<1>4. TypeOK'
  BY <1>1, <1>3, PromptKeeps DEF Inv, TypeOK
<1>5. Terminal' /\ Pipes'
  BY <1>1, <1>3 DEF Inv, TypeOK, Terminal, Pipes, Prompt
<1>6. Balance'
  BY <1>1, <1>3 DEF Balance, Waits, Prompt
<1>. QED
  BY <1>1, <1>3, <1>4, <1>5, <1>6, PromptKeeps DEF Inv

LEMMA WaitOneInv == Inv /\ WaitOne => Inv'
<1>. SUFFICES ASSUME Inv, WaitOne PROVE Inv'
  OBVIOUS
<1>1. pc = "waitOne" /\ UNCHANGED <<last, pipe, fds, sigchld, pipe_pgid>>
  BY DEF WaitOne
<1>2. PICK p \in Pids :
        /\ Reap(p)
        /\ IF p = last THEN Prompt /\ fg' = SHELL
                       ELSE UNCHANGED <<pc, line, mine, pre_pipe, fg>>
  BY DEF WaitOne
<1>3. /\ proc' \in [Pids -> Children]
      /\ \A q \in Pids : q # p => proc'[q] = proc[q]
      /\ \A q \in Pids : proc'[q].kind = proc[q].kind
      /\ Numbered' /\ PipeKinds' /\ Written'
      /\ Cardinality(Left') \in Int /\ Cardinality(Taken') \in Int
      /\ Cardinality(Left') + 1 <= Cardinality(Taken') + Waits
  BY <1>1, <1>2, WaitKeeps
<1>4. CASE p = last
  <2>1. Prompt /\ fg' = SHELL
    BY <1>2, <1>4
  <2>2. TypeOK'
    BY <1>1, <1>3, <2>1, PromptKeeps DEF Inv, TypeOK
  <2>3. Terminal' /\ Pipes'
    BY <1>1, <1>3, <2>1 DEF Inv, TypeOK, Terminal, Pipes, Prompt
  <2>4. Balance'
    BY <1>1, <1>3, <2>1 DEF Balance, Waits, Prompt
  <2>. QED
    BY <1>1, <1>3, <2>1, <2>2, <2>3, <2>4, PromptKeeps DEF Inv
<1>5. CASE p # last
  <2>1. UNCHANGED <<pc, line, mine, pre_pipe, fg>>
    BY <1>2, <1>5
  <2>2. TypeOK'
    BY <1>1, <1>3, <2>1 DEF Inv, TypeOK
  <2>3. LineInv'
    BY <1>1, <1>3, <1>5, <2>1
    DEF Inv, LineInv, Room, AtPrompt, AtParse, AtWaitStage, AtOne
  <2>4. Terminal' /\ Pipes'
    BY <1>1, <1>3, <2>1 DEF Inv, TypeOK, Terminal, Pipes
  <2>5. Balance'
    BY <1>1, <1>3, <2>1 DEF Balance, Waits
  <2>. QED
    BY <1>3, <2>2, <2>3, <2>4, <2>5 DEF Inv
<1>. QED
  BY <1>4, <1>5

LEMMA WaitInHandlerInv == Inv /\ WaitInHandler => Inv'
<1>. SUFFICES ASSUME Inv, WaitInHandler PROVE Inv'
  OBVIOUS
<1>1. /\ pc = "handler" /\ pc' = "window"
      /\ UNCHANGED <<line, last, mine, pipe, fds, pre_pipe, fg, sigchld, pipe_pgid>>
  BY DEF WaitInHandler
<1>2. PICK p \in Pids : Reap(p)
  BY DEF WaitInHandler
<1>3. /\ proc' \in [Pids -> Children]
      /\ \A q \in Pids : proc'[q].kind = proc[q].kind
      /\ Numbered' /\ PipeKinds' /\ Written'
      /\ Cardinality(Left') \in Int /\ Cardinality(Taken') \in Int
      /\ Cardinality(Left') + 1 <= Cardinality(Taken') + Waits
  BY <1>1, <1>2, WaitKeeps
<1>4. TypeOK'
  BY <1>1, <1>3 DEF Inv, TypeOK, Places
<1>5. LineInv'
  BY <1>1, <1>3 DEF Inv, LineInv, Room, AtPrompt, AtParse, AtWaitStage, AtOne
<1>6. Terminal' /\ Pipes'
  BY <1>1, <1>3 DEF Inv, TypeOK, Terminal, Pipes
<1>7. Balance'
  BY <1>1, <1>3 DEF Balance, Waits
<1>. QED
  BY <1>3, <1>4, <1>5, <1>6, <1>7 DEF Inv

-----------------------------------------------------------------------------
(***************************************************************************)
(* The steps of the children: none forks, and none is reaped.              *)
(***************************************************************************)
\* A child that acts changes what is left of its work, or its state.
LEMMA ChildDoes ==
  ASSUME TypeOK, NEW p \in Pids, ChildStep(p)
  PROVE  /\ UNCHANGED shellVars
         /\ proc' \in [Pids -> Children]
         /\ pipe' \in [Pids -> 0 .. PipeSize]
         /\ sigchld' \in BOOLEAN
         /\ proc[p].st \in {"forked", "run"}
         /\ proc'[p].st \in {"run", "stopped", "zombie"}
         /\ proc'[p].kind = proc[p].kind /\ proc'[p].piped = proc[p].piped
         /\ \A q \in Pids : q # p => proc'[q] = proc[q]
<1>1. /\ proc \in [Pids -> Children] /\ pipe \in [Pids -> 0 .. PipeSize]
      /\ sigchld \in BOOLEAN /\ PipeSize \in Nat \ {0}
      /\ proc[p] \in Children
  BY ShellAssumption DEF TypeOK
<1>2. ASSUME NEW st \in {"run", "stopped", "zombie"}, Becomes(p, st)
      PROVE  /\ proc' \in [Pids -> Children]
             /\ proc'[p].st = st
             /\ proc'[p].kind = proc[p].kind /\ proc'[p].piped = proc[p].piped
             /\ \A q \in Pids : q # p => proc'[q] = proc[q]
  BY <1>1, <1>2 DEF Becomes, Children, States
<1>3. (SigChld \/ UNCHANGED sigchld) => sigchld' \in BOOLEAN
  BY <1>1 DEF SigChld
<1>4. CASE Start(p)
  BY <1>1, <1>2, <1>3, <1>4 DEF Start
<1>5. ASSUME proc' = [proc EXCEPT ![p].reads = FALSE]
      PROVE  /\ proc' \in [Pids -> Children]
             /\ proc'[p].st = proc[p].st
             /\ proc'[p].kind = proc[p].kind /\ proc'[p].piped = proc[p].piped
             /\ \A q \in Pids : q # p => proc'[q] = proc[q]
  BY <1>1, <1>5 DEF Children
<1>6. CASE ReadTerminal(p)
  BY <1>1, <1>2, <1>3, <1>5, <1>6 DEF ReadTerminal, Runs
<1>7. CASE ReadPipe(p)
  <2>1. proc[p].from \in Pids
    BY <1>1, <1>7 DEF ReadPipe, Children
  <2>2. pipe' \in [Pids -> 0 .. PipeSize]
    BY <1>1, <1>7, <2>1 DEF ReadPipe
  <2>. QED
    BY <1>1, <1>7, <2>2 DEF ReadPipe, Runs
<1>8. CASE ReadEof(p)
  BY <1>1, <1>5, <1>8 DEF ReadEof, Runs
<1>9. CASE Write(p)
  <2>1. proc[p].left - 1 \in Nat
    BY <1>1, <1>9 DEF Write, Writes, Children
  <2>2. /\ proc' \in [Pids -> Children]
        /\ proc'[p].st = proc[p].st
        /\ proc'[p].kind = proc[p].kind /\ proc'[p].piped = proc[p].piped
        /\ \A q \in Pids : q # p => proc'[q] = proc[q]
    BY <1>1, <1>9, <2>1 DEF Write, Children
  <2>3. pipe' \in [Pids -> 0 .. PipeSize]
    BY <1>1, <1>9 DEF Write
  <2>. QED
    BY <1>1, <1>9, <2>2, <2>3 DEF Write, Writes, Runs
<1>10. CASE BrokenPipe(p)
  BY <1>1, <1>2, <1>3, <1>10 DEF BrokenPipe, Writes, Runs
<1>11. CASE Exit(p)
  BY <1>1, <1>2, <1>3, <1>11 DEF Exit, Runs
<1>. QED
  BY <1>4, <1>6, <1>7, <1>8, <1>9, <1>10, <1>11 DEF ChildStep

LEMMA ChildInv == ASSUME Inv, NEW p \in Pids, ChildStep(p) PROVE Inv'
<1>1. /\ UNCHANGED <<pc, line, last, mine, fds, pre_pipe, fg, pipe_pgid>>
      /\ proc' \in [Pids -> Children]
      /\ pipe' \in [Pids -> 0 .. PipeSize]
      /\ sigchld' \in BOOLEAN
      /\ proc[p].st \in {"forked", "run"}
      /\ proc'[p].st \in {"run", "stopped", "zombie"}
      /\ proc'[p].kind = proc[p].kind /\ proc'[p].piped = proc[p].piped
      /\ \A q \in Pids : q # p => proc'[q] = proc[q]
  BY ChildDoes DEF Inv, shellVars
<1>2. \A q \in Pids : /\ proc'[q].kind = proc[q].kind
                      /\ proc'[q].piped = proc[q].piped
                      /\ proc'[q].st = "gone" <=> proc[q].st = "gone"
  BY <1>1
<1>3. Left' = Left /\ Taken' = Taken
  BY <1>2 DEF Left, Taken
<1>4. TypeOK'
  BY <1>1 DEF Inv, TypeOK
<1>5. Numbered'
  BY <1>1 DEF Inv, Numbered, Nobody
<1>6. PipeKinds'
  BY <1>2 DEF Inv, PipeKinds
<1>7. LineInv'
  BY <1>1, <1>2 DEF Inv, LineInv, Room, AtPrompt, AtParse, AtWaitStage, AtOne
<1>8. Terminal' /\ Pipes'
  BY <1>1, <1>2 DEF Inv, TypeOK, Terminal, Pipes
<1>9. Balance'
  BY <1>1, <1>3 DEF Inv, Balance, Waits
<1>10. Written'
  <2>1. Left \subseteq Pids
    BY DEF Left
  <2>. QED
    BY <1>1, <1>2, <1>3, <2>1 DEF Inv, Written
<1>. QED
  BY <1>4, <1>5, <1>6, <1>7, <1>8, <1>9, <1>10 DEF Inv

-----------------------------------------------------------------------------
\* Each step of the shell and of a child keeps the invariant.
THEOREM NextInv == Inv /\ [Next]_vars => Inv'
<1>. SUFFICES ASSUME Inv, [Next]_vars PROVE Inv'
  OBVIOUS
<1>1. CASE ReadLine
  BY <1>1, ReadLineInv
<1>2. CASE ShellStep
  BY <1>2, BuiltinInv, ForkStageInv, ForkLastInv, WaitStageInv, WaitLastInv,
     OpenEndInv, ForkOneInv, GiveTerminalInv, WaitOneInv, WindowInv,
     WaitInHandlerInv DEF ShellStep
<1>3. ASSUME NEW p \in Pids, ChildStep(p) PROVE Inv'
  BY <1>3, ChildInv
<1>4. CASE UNCHANGED vars
  <2>1. UNCHANGED <<pc, line, last, mine, proc, pipe, fds, pre_pipe, fg, sigchld, pipe_pgid>>
    BY <1>4 DEF vars, shellVars
  <2>2. Left' = Left /\ Taken' = Taken /\ Numbered' /\ PipeKinds'
    BY <2>1, SameChildren
  <2>3. TypeOK' /\ LineInv'
    BY <2>1 DEF Inv, TypeOK, LineInv, Room, AtPrompt, AtParse, AtWaitStage, AtOne
  <2>4. Terminal' /\ Pipes' /\ Balance' /\ Written'
    BY <2>1, <2>2 DEF Inv, Terminal, Pipes, Balance, Written, Waits
  <2>. QED
    BY <2>2, <2>3, <2>4 DEF Inv
<1>. QED
  BY <1>1, <1>2, <1>3, <1>4 DEF Next

\* In every state the processes are those of the lines read, the terminal and
\* the pipes are where the place in the loop says, and waits are balanced.
THEOREM Invariance == Spec => []Inv
  BY InitInv, NextInv, PTL DEF Spec

\* Every variable of the shell keeps its type: a pipe never holds more than
\* PipeSize, and pre_pipe and the terminal name processes that exist.
THEOREM ShellTypeCorrect == Spec => []TypeOK
<1>1. Inv => TypeOK
  BY DEF Inv
<1>. QED
  BY <1>1, Invariance, PTL

\* The shell prompts only when it has the terminal back (tcsetpgrp after the
\* loop of wait()s), whichever child ends first.
THEOREM TerminalComesBack == Spec => []TerminalBack
<1>1. Inv => TerminalBack
  BY DEF Inv, Terminal, TerminalBack
<1>. QED
  BY <1>1, Invariance, PTL

\* Of the commands of all lines, those that nobody has waited for at a prompt
\* are at most as many as the background commands that wait() returned for.
THEOREM WaitsAreBalanced == Spec => []WaitsBalance
<1>1. Inv => WaitsBalance
  BY Counts DEF Inv, Balance, Waits, WaitsBalance
<1>. QED
  BY <1>1, Invariance, PTL

\* At a prompt the shell has closed all pipes, but those of lines that end
\* with |.
THEOREM PipesAreClosed == Spec => []NoPipeLeft
<1>1. Inv => NoPipeLeft
  BY DEF Inv, Pipes, NoPipeLeft
<1>. QED
  BY <1>1, Invariance, PTL

\* A command that writes gets SIGPIPE only after wait() has returned for a
\* background command: else the shell holds the read end of its pipe.
THEOREM SigpipeNeedsTaken == Spec => []SigpipeIsTaken
<1>1. Inv => SigpipeIsTaken
  <2>. SUFFICES ASSUME Inv, NEW p \in Pids, Writes(p), proc[p].piped, ~ReadEnd(p)
                PROVE  Taken # {}
    BY DEF SigpipeIsTaken
  <2>1. p \in Left
    BY DEF Left, Writes, Runs, Inv, PipeKinds
  <2>2. p \notin fds
    BY DEF ReadEnd
  <2>. QED
    BY <2>1, <2>2 DEF Inv, Written
<1>. QED
  BY <1>1, Invariance, PTL
=============================================================================
