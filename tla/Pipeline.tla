------------------------------ MODULE Pipeline ------------------------------
(***************************************************************************)
(* Execution of one command line whose tree is built from AST_PIPE nodes   *)
(* and AST_COMMAND leaves: execute_ast, execute_pipe_command and           *)
(* handle_command_execution, with one process per node of the tree (the    *)
(* root is run by the shell itself, the two sides of a pipe by forked      *)
(* children) and one more process per external command.                    *)
(*                                                                         *)
(* What is kept: every fork, close, dup2, waitpid and their failures, the  *)
(* descriptors each process holds, and the pipes as bounded counters with  *)
(* end-of-file and SIGPIPE.  What is abstracted: the bytes (an item stands *)
(* for one write), descriptor numbers (a slot per C variable), and the     *)
(* commands (their kind says only how they use their streams).             *)
(***************************************************************************)
EXTENDS Naturals

CONSTANTS
    Pipes,      \* the AST_PIPE nodes
    Leaves,     \* the AST_COMMAND nodes
    Root,       \* the node the shell executes itself
    LeftOf,     \* node->left of a pipe node
    RightOf,    \* node->right of a pipe node
    Works,      \* the lines typed: what each leaf's command does
    Items,      \* how many items a "source" writes
    Cap,        \* capacity of a pipe, in items
    MaxFail     \* bound: how many system calls may fail in one line

Node == Pipes \cup Leaves

Kinds == {"source",   \* writes Items items, exits 0
          "yes",      \* writes for ever: only SIGPIPE stops it
          "filter",   \* copies its input to its output until end of file
          "idle",     \* exits 3 without touching its streams
          "unrunnable",  \* found while parsing, but execve cannot run it
          "builtin",  \* run in the stage's own process, writes Items items
          "word"}     \* a TOKEN_WORD node: no such command

ASSUME TreeAssumption ==
    /\ Pipes \cap Leaves = {}
    /\ Root \in Node
    /\ LeftOf \in [Pipes -> Node \ {Root}]
    /\ RightOf \in [Pipes -> Node \ {Root}]
    /\ \A n, m \in Pipes : /\ LeftOf[n] # RightOf[m]
                           /\ n # m => LeftOf[n] # LeftOf[m]
                           /\ n # m => RightOf[n] # RightOf[m]
                           /\ LeftOf[n] # n /\ RightOf[n] # n

ASSUME NumberAssumption ==
    /\ Works \subseteq [Leaves -> Kinds]
    /\ Items \in Nat \ {0}
    /\ Cap \in Nat \ {0}
    /\ MaxFail \in Nat

-----------------------------------------------------------------------------
(***************************************************************************)
(* Processes and descriptors.  <<n, "ast">> runs execute_ast on node n,    *)
(* <<l, "cmd">> is the child execute_external_command forks for leaf l.    *)
(***************************************************************************)
Stage(n)   == <<n, "ast">>
Command(l) == <<l, "cmd">>
Shell      == Stage(Root)
Proc       == (Node \X {"ast"}) \cup (Leaves \X {"cmd"})

Slot   == {"in", "out",     \* STDIN_FILENO, STDOUT_FILENO
           "p0", "p1",      \* pipefd[0], pipefd[1]
           "s0", "s1"}      \* original_fds[0], original_fds[1]
Closed   == <<"closed", "-">>
Terminal == <<"terminal", "-">>
ReadEnd(n)  == <<n, "r">>
WriteEnd(n) == <<n, "w">>
File == {Closed, Terminal} \cup (Pipes \X {"r", "w"})

AllClosed == [s \in Slot |-> Closed]
AtStart   == [AllClosed EXCEPT !["in"] = Terminal, !["out"] = Terminal]

VARIABLES
    work,    \* what the command of each leaf does with its streams
    pc,      \* where each process is
    fd,      \* the descriptors each process holds
    code,    \* the status each process has computed, or exited with
    todo,    \* items a source or builtin has still to write
    held,    \* whether a filter has read an item it has not written yet
    buf,     \* items in each pipe
    fails    \* system calls that have failed so far

vars == <<work, pc, fd, code, todo, held, buf, fails>>

PCs == {"none", "exec", "fork left", "fork right", "close ends", "wait left",
        "wait right", "wait orphan", "left setup", "right setup",
        "launch", "builtin", "wait command", "finish", "setup", "run",
        "prompt", "zombie", "reaped"}

EXIT_FAILURE == 1
NotExecutable == 126
NotFound     == 127
SigPipe      == 128 + 13
Codes        == {0, EXIT_FAILURE, 3, NotExecutable, NotFound, SigPipe}

\* How the command of leaf l may end when it is not killed.
Outcome(l) == CASE work[l] = "idle"       -> {3}
                [] work[l] = "word"       -> {NotFound}
                [] work[l] = "unrunnable" -> {EXIT_FAILURE, NotExecutable, NotFound}
                [] OTHER                  -> {0}

\* Every variable holds a value of its C counterpart.
TypeOK ==
    /\ work \in [Leaves -> Kinds]
    /\ pc \in [Proc -> PCs]
    /\ fd \in [Proc -> [Slot -> File]]
    /\ code \in [Proc -> Codes]
    /\ todo \in [Leaves -> 0..Items]
    /\ held \in [Leaves -> BOOLEAN]
    /\ buf \in [Pipes -> 0..Cap]
    /\ fails \in 0..MaxFail

Holds(p, f) == \E s \in Slot : fd[p][s] = f
HasReader(n) == \E p \in Proc : Holds(p, ReadEnd(n))
HasWriter(n) == \E p \in Proc : Holds(p, WriteEnd(n))

Init ==
    /\ work \in Works
    /\ pc = [p \in Proc |-> IF p = Shell THEN "exec" ELSE "none"]
    /\ fd = [p \in Proc |-> IF p = Shell THEN AtStart ELSE AllClosed]
    /\ code = [p \in Proc |-> 0]
    /\ todo = [l \in Leaves |-> Items]
    /\ held = [l \in Leaves |-> FALSE]
    /\ buf = [n \in Pipes |-> 0]
    /\ fails = 0

-----------------------------------------------------------------------------
(***************************************************************************)
(* Helpers.  A few definitions stand next to a faulty variant of themselves*)
(* (CloseReadEndOnly, ForgetDup2, ForgetClose, RawStatus, FirstStatus,     *)
(* SkipWaitLeft) that no action uses: each is a slip that the properties   *)
(* below must catch when it replaces its neighbour.                        *)
(***************************************************************************)
Streams == <<work, todo, held, buf>>

\* p goes on from there with these descriptors.
Move(p, there, table) ==
    pc' = [pc EXCEPT ![p] = there] /\ fd' = [fd EXCEPT ![p] = table]

\* A system call is made: it succeeds, or it fails and is reported.
Attempt(Succeed, Fail) ==
    \/ Succeed /\ UNCHANGED fails
    \/ Fail /\ fails < MaxFail /\ fails' = fails + 1

\* The function returns status 1.
ReturnFailure(p, table) ==
    Move(p, "finish", table) /\ code' = [code EXCEPT ![p] = EXIT_FAILURE]

\* exit(c): every descriptor is closed, the status waits for the parent.
Exit(p, c) == Move(p, "zombie", AllClosed) /\ code' = [code EXCEPT ![p] = c]

\* fork(): the child gets a copy of every descriptor of its parent.
Fork(p, there, child, start) ==
    /\ pc' = [pc EXCEPT ![p] = there, ![child] = start]
    /\ fd' = [fd EXCEPT ![child] = fd[p]]
    /\ UNCHANGED code

\* waitpid(child) returns, and p goes on from there.
Reap(p, here, child, there) ==
    /\ pc[p] = here /\ pc[child] = "zombie"
    /\ pc' = [pc EXCEPT ![p] = there, ![child] = "reaped"]
    /\ UNCHANGED <<fd, fails, Streams>>

\* close(pipefd[0]); close(pipefd[1]).
CloseReadEndOnly(table) == [table EXCEPT !["p0"] = Closed]
ClosePipe(table)        == [table EXCEPT !["p0"] = Closed, !["p1"] = Closed]

\* left_child and right_child: one end becomes a standard stream, and neither
\* pipefd descriptor stays open.
TakeWriteEnd(table) == ClosePipe([table EXCEPT !["out"] = table["p1"]])
ForgetDup2(table)   == ClosePipe(table)
ForgetClose(table)  == [table EXCEPT !["in"] = table["p0"], !["p0"] = Closed]
TakeReadEnd(table)  == ClosePipe([table EXCEPT !["in"] = table["p0"]])

\* save_original_fds, and restore_fds with close_fds.
Save(table)    == [table EXCEPT !["s0"] = table["in"], !["s1"] = table["out"]]
Restore(table) == IF table["s0"] = Closed THEN table
                  ELSE [table EXCEPT !["in"] = table["s0"], !["s0"] = Closed,
                                     !["out"] = table["s1"], !["s1"] = Closed]

-----------------------------------------------------------------------------
(***************************************************************************)
(* execute_pipe_command, for the process that runs pipe node n.            *)
(***************************************************************************)
SetupPipes(n) ==
    LET p == Stage(n) IN
    /\ pc[p] = "exec"
    /\ Attempt(/\ Move(p, "fork left", [fd[p] EXCEPT !["p0"] = ReadEnd(n),
                                                    !["p1"] = WriteEnd(n)])
               /\ buf' = [buf EXCEPT ![n] = 0]
               /\ UNCHANGED code,
               ReturnFailure(p, fd[p]) /\ UNCHANGED buf)
    /\ UNCHANGED <<work, todo, held>>

ForkLeftChecked(n) ==
    LET p == Stage(n) IN
    /\ pc[p] = "fork left"
    /\ Attempt(Fork(p, "fork right", Stage(LeftOf[n]), "left setup"),
               ReturnFailure(p, ClosePipe(fd[p])))
    /\ UNCHANGED Streams

ForkRightChecked(n) ==
    LET p == Stage(n) IN
    /\ pc[p] = "fork right"
    /\ Attempt(Fork(p, "close ends", Stage(RightOf[n]), "right setup"),
               Move(p, "wait orphan", ClosePipe(fd[p])) /\ UNCHANGED code)
    /\ UNCHANGED Streams

\* The parent closes both ends before it waits.
CloseEnds(n) ==
    /\ pc[Stage(n)] = "close ends"
    /\ Move(Stage(n), "wait left", ClosePipe(fd[Stage(n)]))
    /\ UNCHANGED <<code, fails, Streams>>

\* waitpid(pid1, NULL, 0) after fork_right failed.
WaitOrphan(n) ==
    /\ Reap(Stage(n), "wait orphan", Stage(LeftOf[n]), "finish")
    /\ code' = [code EXCEPT ![Stage(n)] = EXIT_FAILURE]

\* wait_and_get_exit_code: pid1 first, then pid2, whose status counts.
RawStatus(n)   == 256 * code[Stage(RightOf[n])]
FirstStatus(n) == code[Stage(LeftOf[n])]
ExitCode(n)    == code[Stage(RightOf[n])]

SkipWaitLeft(n) ==
    /\ pc[Stage(n)] = "wait left"
    /\ Move(Stage(n), "wait right", fd[Stage(n)])
    /\ UNCHANGED <<code, fails, Streams>>

WaitLeft(n) ==
    /\ Reap(Stage(n), "wait left", Stage(LeftOf[n]), "wait right")
    /\ UNCHANGED code

WaitRight(n) ==
    /\ Reap(Stage(n), "wait right", Stage(RightOf[n]), "finish")
    /\ code' = [code EXCEPT ![Stage(n)] = ExitCode(n)]

\* left_child and right_child up to execute_ast; a failed dup2 is
\* exit(EXIT_FAILURE).
ChildStarts(p, here, table) ==
    /\ pc[p] = here
    /\ Attempt(Move(p, "exec", table) /\ UNCHANGED code, Exit(p, EXIT_FAILURE))
    /\ UNCHANGED Streams

LeftChild(n)  == ChildStarts(Stage(n), "left setup", TakeWriteEnd(fd[Stage(n)]))
RightChild(n) == ChildStarts(Stage(n), "right setup", TakeReadEnd(fd[Stage(n)]))

-----------------------------------------------------------------------------
(***************************************************************************)
(* handle_command_execution and handle_word_token_execution, for the       *)
(* process that runs leaf l.                                               *)
(***************************************************************************)
SaveFds(l) ==
    LET p == Stage(l) IN
    /\ pc[p] = "exec" /\ work[l] # "word"
    /\ Attempt(/\ Move(p, IF work[l] = "builtin" THEN "builtin" ELSE "launch",
                       Save(fd[p]))
               /\ UNCHANGED code,
               ReturnFailure(p, fd[p]))
    /\ UNCHANGED Streams

\* No descriptors saved, nothing forked.
WordToken(l) ==
    /\ pc[Stage(l)] = "exec" /\ work[l] = "word"
    /\ Move(Stage(l), "finish", fd[Stage(l)])
    /\ code' = [code EXCEPT ![Stage(l)] = NotFound]
    /\ UNCHANGED <<fails, Streams>>

\* execute_external_command, then parent_wait_external.
ForkCommand(l) ==
    LET p == Stage(l) IN
    /\ pc[p] = "launch"
    /\ Attempt(Fork(p, "wait command", Command(l), "setup"),
               ReturnFailure(p, fd[p]))
    /\ UNCHANGED Streams

WaitCommand(l) ==
    /\ Reap(Stage(l), "wait command", Command(l), "finish")
    /\ code' = [code EXCEPT ![Stage(l)] = code[Command(l)]]

\* The streams are restored; then the shell is back at its prompt, and a child
\* of a pipe exits with its status.
Finish(n) ==
    LET p == Stage(n) IN
    /\ pc[p] = "finish"
    /\ IF p = Shell THEN Move(p, "prompt", Restore(fd[p])) /\ UNCHANGED code
                    ELSE Exit(p, code[p])
    /\ UNCHANGED <<fails, Streams>>

-----------------------------------------------------------------------------
(***************************************************************************)
(* The commands, and the builtins that write from the stage's own process. *)
(***************************************************************************)
\* p writes an item: it blocks while the pipe is full, and is killed when
\* nobody can read it any more.
Write(p, Written) ==
    \/ /\ fd[p]["out"] = Terminal
       /\ Written
       /\ UNCHANGED <<pc, fd, code, buf>>
    \/ \E n \in Pipes :
        /\ fd[p]["out"] = WriteEnd(n)
        /\ IF HasReader(n)
           THEN /\ buf[n] < Cap
                /\ buf' = [buf EXCEPT ![n] = @ + 1]
                /\ Written
                /\ UNCHANGED <<pc, fd, code>>
           ELSE Exit(p, SigPipe) /\ UNCHANGED <<todo, held, buf>>

WriteNext(p, l) ==
    /\ todo[l] > 0
    /\ Write(p, /\ todo' = [todo EXCEPT ![l] = IF work[l] = "yes" THEN @ ELSE @ - 1]
                /\ UNCHANGED held)

Builtin(l) ==
    /\ pc[Stage(l)] = "builtin"
    /\ \/ WriteNext(Stage(l), l)
       \/ /\ todo[l] = 0
          /\ Move(Stage(l), "finish", fd[Stage(l)])
          /\ UNCHANGED <<code, todo, held, buf>>
    /\ UNCHANGED <<work, fails>>

\* child_exec_external: the program is not found any more or execve fails, or
\* execve replaces the image and leaves every descriptor open.
ChildExecExternal(l) ==
    LET p == Command(l) IN
    /\ pc[p] = "setup"
    /\ IF work[l] = "unrunnable"
       THEN \E c \in Outcome(l) : Exit(p, c)
       ELSE Move(p, "run", fd[p]) /\ UNCHANGED code
    /\ UNCHANGED <<fails, Streams>>

CommandWrites(l) ==
    /\ pc[Command(l)] = "run"
    /\ \/ work[l] \in {"source", "yes"} /\ WriteNext(Command(l), l)
       \/ /\ held[l]
          /\ Write(Command(l), held' = [held EXCEPT ![l] = FALSE] /\ UNCHANGED todo)
    /\ UNCHANGED <<work, fails>>

CommandReads(l) ==
    /\ pc[Command(l)] = "run" /\ work[l] = "filter" /\ ~held[l]
    /\ \E n \in Pipes : /\ fd[Command(l)]["in"] = ReadEnd(n)
                        /\ buf[n] > 0
                        /\ buf' = [buf EXCEPT ![n] = @ - 1]
    /\ held' = [held EXCEPT ![l] = TRUE]
    /\ UNCHANGED <<work, pc, fd, code, todo, fails>>

\* End of file: on an empty pipe that no process can write to, or typed.
AtEndOfFile(p) ==
    \/ fd[p]["in"] = Terminal
    \/ \E n \in Pipes : fd[p]["in"] = ReadEnd(n) /\ buf[n] = 0 /\ ~HasWriter(n)

CommandExits(l) ==
    /\ pc[Command(l)] = "run"
    /\ \/ work[l] = "idle"
       \/ work[l] = "source" /\ todo[l] = 0
       \/ work[l] = "filter" /\ ~held[l] /\ AtEndOfFile(Command(l))
    /\ \E c \in Outcome(l) : Exit(Command(l), c)
    /\ UNCHANGED <<fails, Streams>>

-----------------------------------------------------------------------------
PipeStep(n) ==
    \/ SetupPipes(n) \/ ForkLeftChecked(n) \/ ForkRightChecked(n)
    \/ CloseEnds(n) \/ WaitOrphan(n) \/ WaitLeft(n) \/ WaitRight(n)

LeafStep(l) ==
    \/ SaveFds(l) \/ WordToken(l) \/ ForkCommand(l) \/ WaitCommand(l)
    \/ Builtin(l)

NodeStep(n) == LeftChild(n) \/ RightChild(n) \/ Finish(n)

CommandStep(l) ==
    \/ ChildExecExternal(l) \/ CommandWrites(l) \/ CommandReads(l)
    \/ CommandExits(l)

\* The line is done: the shell reads the next one.
AtPrompt == pc[Shell] = "prompt"

\* readline_loop: a new line is read and its tree handed to execute_ast.  Only
\* children that were waited for are forgotten.
NextLine ==
    /\ AtPrompt
    /\ work' \in Works
    /\ pc' = [p \in Proc |-> IF p = Shell THEN "exec"
                            ELSE IF pc[p] = "reaped" THEN "none" ELSE pc[p]]
    /\ code' = [p \in Proc |-> 0]
    /\ todo' = [l \in Leaves |-> Items]
    /\ held' = [l \in Leaves |-> FALSE]
    /\ fails' = 0
    /\ UNCHANGED <<fd, buf>>

Next ==
    \/ \E n \in Pipes : PipeStep(n)
    \/ \E l \in Leaves : LeafStep(l) \/ CommandStep(l)
    \/ \E n \in Node : NodeStep(n)
    \/ NextLine

Spec == Init /\ [][Next]_vars

\* The kernel's scheduler eventually runs a process that can take a step.
Fairness ==
    /\ \A n \in Pipes : WF_vars(PipeStep(n))
    /\ \A l \in Leaves : WF_vars(LeafStep(l)) /\ WF_vars(CommandStep(l))
    /\ \A n \in Node : WF_vars(NodeStep(n))

FairSpec == Spec /\ Fairness

-----------------------------------------------------------------------------
(***************************************************************************)
(* Properties.                                                             *)
(***************************************************************************)
\* Whatever failed on the way, a line leaves the shell with exactly the
\* descriptors it had: its streams on the terminal, no pipe end and no saved
\* copy left open (execute_pipe_command's and handle_command_execution's
\* cleanup paths).
PromptRestored == AtPrompt => fd[Shell] = AtStart

\* The prompt comes back only when every process of the line, grandchildren
\* included, has exited and been waited for: no orphan writes after the
\* prompt and no zombie is left.
NoOrphans ==
    AtPrompt => \A p \in Proc \ {Shell} : pc[p] \in {"none", "reaped"}

\* A stage that waits for the sides of its pipe holds neither end of it, so
\* it is never the reason its reader sees no end of file or its writer no
\* SIGPIPE.
WaitsEmptyHanded ==
    \A n \in Pipes :
        pc[Stage(n)] \in {"wait left", "wait right", "wait orphan"} =>
            ~Holds(Stage(n), ReadEnd(n)) /\ ~Holds(Stage(n), WriteEnd(n))

\* The status of a pipeline is that of its last command, however the others
\* ended (SIGPIPE included); only a failed system call may make it 1.
Last[n \in Node] == IF n \in Leaves THEN n ELSE Last[RightOf[n]]

StatusIsLast ==
    AtPrompt =>
        \/ code[Shell] \in Outcome(Last[Root])
        \/ fails > 0 /\ code[Shell] = EXIT_FAILURE

\* A command is killed by SIGPIPE only when the next stage has exited or could
\* not be forked, never while that stage is still starting.
SigPipeOnlyWhenReaderGone ==
    [][\A p \in Proc, n \in Pipes :
         /\ fd[p]["out"] = WriteEnd(n)
         /\ pc[p] \in {"run", "builtin"}
         /\ code'[p] = SigPipe
         => \/ pc[Stage(RightOf[n])] \in {"zombie", "reaped"}
            \/ pc[Stage(n)] = "wait orphan"]_vars

\* Every line ends: no stage waits for ever on a full or an empty pipe.
LineEnds == []<>AtPrompt
=============================================================================
