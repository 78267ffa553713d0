----------------------------- MODULE RedirChain -----------------------------
(***************************************************************************)
(* execute_redirection_chain: save the standard streams, apply the         *)
(* collected redirections one by one, run the command, restore.  The       *)
(* process's descriptor table is modelled by its numbers, so that open,    *)
(* dup and pipe fail when it is full, and the files by what is left in     *)
(* them, so that a lost or a wrong truncation shows.                       *)
(***************************************************************************)
EXTENDS Naturals, Sequences

CONSTANTS
    Files,      \* the names redirections use
    Locked,     \* those the user may neither read nor write
    MaxFd,      \* RLIMIT_NOFILE: descriptors are 0 .. MaxFd - 1
    Lines       \* the commands typed: [nodes |-> redirections, cmd |-> BOOLEAN]

Fd == 0 .. MaxFd - 1
STDIN_FILENO  == 0
STDOUT_FILENO == 1
Inherited == 5   \* the standard streams and init_shell's two copies
NoFd == MaxFd    \* the C code's -1

\* Redirections: the operator and node->file.
Ops   == {"<", ">", ">>", "<<"}
Redir == Ops \X Files
Op(r)   == r[1]
Name(r) == r[2]

ASSUME RedirAssumption ==
    /\ Locked \subseteq Files
    /\ MaxFd \in Nat /\ MaxFd >= Inherited
    /\ Lines \subseteq [nodes : Seq(Redir), cmd : BOOLEAN]

\* What a descriptor refers to: a file opened by a redirection, a heredoc's
\* pipe, or a stream the process had before.
Free  == <<"free", "-">>
Stdin == <<"stdin", "-">>
Stdout == <<"stdout", "-">>
Other == <<"other", "-">>
Pipe  == <<"<<", "-">>
Object == {Free, Stdin, Stdout, Other, Pipe} \cup (Ops \X Files)

\* What is in a file: nothing at all, or what was there and what the command
\* wrote.
Absent  == {"absent"}
Content == {Absent} \cup SUBSET {"old", "new"}

VARIABLES
    pc,      \* where execute_redirection_chain is
    line,    \* the collected nodes; the first is the line's last redirection
    i,       \* the loop of process_individual_redirections: node i is next
    fd,      \* the descriptor table
    orig,    \* original_fds
    final,   \* final_output_fd
    file,    \* the files' contents
    status,  \* get_current_exit_status()
    base,    \* history: fd when the line started
    before,  \* history: file when the line started
    ran,     \* history: the streams the command was given
    killed   \* history: a heredoc child of this line was killed by SIGQUIT

vars == <<pc, line, i, fd, orig, final, file, status, base, before, ran, killed>>

NotRun == <<>>
QuitStatus == 128 + 3

TypeOK ==
    /\ pc \in {"prompt", "save", "apply", "run", "restore"}
    /\ line \in Lines
    /\ i \in 0..Len(line.nodes)
    /\ fd \in [Fd -> Object]
    /\ orig \in [1..2 -> Fd \cup {NoFd}]
    /\ final \in Fd \cup {NoFd}
    /\ file \in [Files -> Content]
    /\ status \in {0, 1, 2, QuitStatus}
    /\ base \in [Fd -> Object]
    /\ before \in [Files -> Content]
    /\ ran \in {NotRun} \cup (Object \X Object)
    /\ killed \in BOOLEAN

\* The shell's own table when k descriptors are in use.
Table(k) == [f \in Fd |-> CASE f = STDIN_FILENO  -> Stdin
                            [] f = STDOUT_FILENO -> Stdout
                            [] OTHER -> IF f < k THEN Other ELSE Free]

Init ==
    /\ pc = "save"
    /\ line \in Lines
    /\ i = Len(line.nodes)
    /\ \E k \in Inherited..MaxFd : fd = Table(k)
    /\ orig = <<NoFd, NoFd>>
    /\ final = NoFd
    /\ file \in [Files -> {Absent, {"old"}}]
    /\ status = 0
    /\ base = fd
    /\ before = file
    /\ ran = NotRun
    /\ killed = FALSE

-----------------------------------------------------------------------------
(***************************************************************************)
(* The kernel: the lowest free descriptor is the one that is used.         *)
(***************************************************************************)
FreeFds(table) == {f \in Fd : table[f] = Free}
Lowest(S) == CHOOSE f \in S : \A g \in S : f <= g
Full(table) == FreeFds(table) = {}
NextFd(table) == Lowest(FreeFds(table))
OpenAs(table, f, object) == [table EXCEPT ![f] = object]
Close(table, f) == IF f = NoFd THEN table ELSE [table EXCEPT ![f] = Free]
Dup2(table, from, to) == [table EXCEPT ![to] = table[from]]

CanRead(f)  == file[f] # Absent /\ f \notin Locked
CanWrite(f) == f \notin Locked

-----------------------------------------------------------------------------
History == <<line, base, before>>

\* readline_loop hands the next line over.
NextLine ==
    /\ pc = "prompt"
    /\ pc' = "save"
    /\ line' \in Lines
    /\ base' = fd /\ before' = file
    /\ i' = Len(line'.nodes)
    /\ ran' = NotRun /\ killed' = FALSE
    /\ UNCHANGED <<fd, orig, final, file, status>>

\* save_original_fds: both dups, or neither stays open and the chain ends.
SaveOriginalFds ==
    /\ pc = "save"
    /\ LET in == NextFd(fd)
           one == OpenAs(fd, in, fd[STDIN_FILENO])
           out == NextFd(one)
       IN IF ~Full(fd) /\ ~Full(one)
          THEN /\ orig' = <<in, out>>
               /\ fd' = OpenAs(one, out, fd[STDOUT_FILENO])
               /\ pc' = "apply"
               /\ UNCHANGED status
          ELSE /\ pc' = "prompt"
               /\ status' = 1
               /\ UNCHANGED <<fd, orig>>
    /\ UNCHANGED <<History, i, final, file, ran, killed>>

\* process_individual_redirections counts down; forwards, or with the collected
\* nodes read from the other end, the chain would be applied in reverse.
NodeFromFront == line.nodes[Len(line.nodes) + 1 - i]
Node == line.nodes[i]
CountUp   == i' = i + 1 /\ UNCHANGED <<pc, status>>
CountDown == i' = i - 1 /\ UNCHANGED <<pc, status>>

\* A redirection failed: final_output_fd is closed, the command is not run, and
\* execute_redir_chain_core sets status 1 whatever was set before.
Success      == 0
RedirFailure == 1
KeepFinal(table)  == table
CloseFinal(table) == Close(table, final)
Abandon(table) ==
    /\ fd' = CloseFinal(table)
    /\ final' = NoFd
    /\ pc' = "restore"
    /\ status' = RedirFailure
    /\ UNCHANGED i

\* handle_redir_in: open, dup2 to STDIN_FILENO (which may fail), close.
HandleRedirIn ==
    /\ pc = "apply" /\ i > 0 /\ Op(Node) = "<"
    /\ IF CanRead(Name(Node)) /\ ~Full(fd)
       THEN \/ /\ fd' = [fd EXCEPT ![STDIN_FILENO] = Node]
               /\ CountDown
               /\ UNCHANGED final
            \/ Abandon(fd)
       ELSE Abandon(fd)
    /\ UNCHANGED <<History, orig, file, ran, killed>>

\* open_and_set_final_output_fd: the previous target is closed, the new one is
\* created and, for ">", emptied.
NeverEmptied(old, op) == IF old = Absent THEN {} ELSE old
Opened(old, op) == CASE old = Absent -> {} [] op = ">" -> {} [] OTHER -> old
OpenAndSetFinalOutputFd ==
    /\ pc = "apply" /\ i > 0 /\ Op(Node) \in {">", ">>"}
    /\ LET table == Close(fd, final) IN
       IF CanWrite(Name(Node)) /\ ~Full(table)
       THEN /\ fd' = OpenAs(table, NextFd(table), Node)
            /\ final' = NextFd(table)
            /\ file' = [file EXCEPT ![Name(Node)] = Opened(@, Op(Node))]
            /\ CountDown
       ELSE /\ fd' = table
            /\ final' = NoFd
            /\ pc' = "restore" /\ status' = RedirFailure
            /\ UNCHANGED <<i, file>>
    /\ UNCHANGED <<History, orig, ran, killed>>

\* handle_heredoc, seen from the process that waits: pipe and fork may fail,
\* the child may fail or be killed, and its status is set before the chain
\* abandons; otherwise the read end becomes STDIN_FILENO.
HandleHeredoc ==
    /\ pc = "apply" /\ i > 0 /\ Op(Node) = "<<"
    /\ LET one == OpenAs(fd, NextFd(fd), Pipe) IN
       IF ~Full(fd) /\ ~Full(one)
       THEN \/ /\ fd' = [fd EXCEPT ![STDIN_FILENO] = Pipe]
               /\ CountDown
               /\ UNCHANGED <<final, killed>>
            \/ Abandon(fd) /\ killed' \in BOOLEAN
       ELSE Abandon(fd) /\ UNCHANGED killed
    /\ UNCHANGED <<History, orig, file, ran>>

\* The end of apply_redirection_nodes: the last output becomes STDOUT_FILENO.
InstallOutput ==
    /\ pc = "apply" /\ i = 0
    /\ IF final = NoFd
       THEN pc' = "run" /\ UNCHANGED <<fd, status>>
       ELSE \/ /\ fd' = Close(Dup2(fd, final, STDOUT_FILENO), final)
               /\ pc' = "run"
               /\ UNCHANGED status
            \/ /\ fd' = Close(fd, final)
               /\ pc' = "restore"
               /\ status' = RedirFailure
    /\ final' = NoFd
    /\ UNCHANGED <<History, i, orig, file, ran, killed>>

\* execute_simple_command with the streams it finds, if there is a command.
Write(object) == IF object[1] \in {">", ">>"}
                 THEN [file EXCEPT ![object[2]] = @ \cup {"new"}]
                 ELSE file
RunCommand ==
    /\ pc = "run"
    /\ IF line.cmd
       THEN /\ ran' = <<fd[STDIN_FILENO], fd[STDOUT_FILENO]>>
            /\ file' = Write(fd[STDOUT_FILENO])
            /\ status' \in {0, 2}
       ELSE status' = 0 /\ UNCHANGED <<ran, file>>
    /\ pc' = "restore"
    /\ UNCHANGED <<History, i, fd, orig, final, killed>>

\* restore_fds, close_fds.
RestoreFds ==
    /\ pc = "restore"
    /\ fd' = LET back == Dup2(Dup2(fd, orig[1], STDIN_FILENO), orig[2], STDOUT_FILENO)
             IN  Close(Close(back, orig[1]), orig[2])
    /\ orig' = <<NoFd, NoFd>>
    /\ pc' = "prompt"
    /\ UNCHANGED <<History, i, final, file, status, ran, killed>>

Next == \/ NextLine \/ SaveOriginalFds
        \/ HandleRedirIn \/ OpenAndSetFinalOutputFd \/ HandleHeredoc
        \/ InstallOutput \/ RunCommand \/ RestoreFds

Spec == Init /\ [][Next]_vars

-----------------------------------------------------------------------------
(***************************************************************************)
(* Properties.                                                             *)
(***************************************************************************)
\* However far a chain got before something failed (a missing file, a heredoc
\* that was killed, a full table), the prompt comes back with exactly the
\* descriptors the line started with: nothing leaks, nothing stays redirected.
Restored == pc = "prompt" => fd = base

\* The command sees the last input and the last output redirection of its
\* chain, and the streams of before where there is none, although the nodes are
\* collected backwards and inputs are installed at once, outputs at the end.
Indices(ops) == {j \in 1..Len(line.nodes) : Op(line.nodes[j]) \in ops}
StreamOf(ops, default) ==
    IF Indices(ops) = {} THEN default
    ELSE LET r == line.nodes[Lowest(Indices(ops))]
         IN  IF Op(r) = "<<" THEN Pipe ELSE r

CommandStreams ==
    ran # NotRun => ran = <<StreamOf({"<", "<<"}, base[STDIN_FILENO]),
                            StreamOf({">", ">>"}, base[STDOUT_FILENO])>>

\* Files after a line: every output redirection up to the first failure created
\* its file, only ">" emptied one, only the last target was written to, and
\* what comes after the failure (nodes i and below) touched nothing.
FilesAsAsked ==
    pc = "prompt" => \A f \in Files :
        LET done == {j \in Indices({">", ">>"}) : j > i /\ Name(line.nodes[j]) = f}
            emptied == before[f] = Absent \/ \E j \in done : Op(line.nodes[j]) = ">"
            kept == IF done # {} /\ emptied THEN {} ELSE before[f]
        IN  file[f] = IF ran # NotRun /\ ran[2][1] \in {">", ">>"} /\ ran[2][2] = f
                      THEN kept \cup {"new"} ELSE kept

\* Status 0 is only reported when every redirection was applied and the
\* command, if there is one, was run.
SuccessIsTrue ==
    pc = "prompt" /\ status = 0 /\ line.cmd => i = 0 /\ ran # NotRun

\* "Sets appropriate exit status based on the signal" (the comment of
\* process_heredoc_child_signal_status): the line ends with 128 + SIGQUIT.
SignalStatus == pc = "prompt" /\ killed => status = QuitStatus
=============================================================================
