------------------------------ MODULE Session ------------------------------
(***************************************************************************)
(* The life of the shell: readline_loop from one prompt to the next, for   *)
(* lines of one word, the builtin exit, and lines that are not run.  A word *)
(* is looked up (Lookup), run by a child, and waited for, while other      *)
(* processes change files and the user presses Ctrl-C and Ctrl-\.          *)
(***************************************************************************)
EXTENDS Lookup, Integers

CONSTANTS
    Lines,       \* what may be typed: records, by their "kind"
    Codes,       \* what a command may exit with
    MaxSignals,  \* bound: signals per line
    IntSize,     \* how many values an int has: 2^32
    Byte         \* and an exit status: 256

SIGINT  == 2
SIGQUIT == 3
Signals == {SIGINT, SIGQUIT}
Dispositions == {"default", "ignore", "handler"}

\* A command has a name and says whether it contains a '/'; the arguments of exit
\* are the digits and the sign of a number, or are no number.
CommandLines == [kind : {"command"}, name : Names, direct : BOOLEAN]
NumberLines  == [kind : {"exit"}, sign : {1, -1}, digits : Seq(0..9)]
OtherLines   == [kind : {"eof", "empty", "faulty", "exit_none", "exit_word", "exit_two"}]

ASSUME LinesAssumption == Lines \subseteq CommandLines \cup NumberLines \cup OtherLines
ASSUME CodesAssumption == Codes \subseteq 0..255 /\ MaxSignals \in Nat
ASSUME SizesAssumption ==
    /\ Byte \in 1..256 /\ IntSize \in Nat \ {0} /\ IntSize % (2 * Byte) = 0

VARIABLES
    pc,       \* the shell's place
    line,     \* the line it is at
    status,   \* g_shell_exit_status
    looked,   \* how many lookups of the word are over
    typed,    \* the token's type, as far as it is known
    disp,     \* disp[p][s]: what signal s does to "shell" and to "child"
    child,    \* the child's place
    tried,    \* how many directories find_command_path has tried
    path,     \* what find_command_path returned: a place, or Nowhere
    fate,     \* how the child ended: <<"exit", n>>, <<"signal", s>>, or <<>>
    ended,    \* how the shell ended, as fate
    signals,  \* pressed since the prompt
    always,   \* history: where the command has been a program since it was typed
    ever,     \* history: where it has been one at some time since then
    ran       \* history: the program that was run, by its place

shellVars == <<pc, line, status, looked, typed, disp, ended>>
childVars == <<child, tried, path, fate, ran>>
histVars  == <<always, ever>>
vars == <<lookVars, shellVars, childVars, histVars, signals>>

Nowhere == "nowhere"
ASSUME PlacesAssumption == Nowhere \notin Places

NoLine == [kind |-> "none"]
Procs == {"shell", "child"}

TypeOK ==
    /\ LookTypeOK
    /\ pc \in {"init", "top", "read", "look", "fork", "forked", "wait", "ended"}
    /\ line \in Lines \cup {NoLine}
    /\ status \in 0..255
    /\ looked \in 0..3 /\ typed \in {"word", "cmd"}
    /\ disp \in [Procs -> [Signals -> Dispositions]]
    /\ child \in {"none", "born", "reset", "find", "exec", "running", "zombie"}
    /\ tried \in 0..Len(Path)
    /\ path \in Places \cup {Nowhere} /\ ran \in Places \cup {Nowhere}
    /\ fate = <<>> \/ fate \in {"exit"} \X (0..255) \/ fate \in {"signal"} \X Signals
    /\ ended = <<>> \/ ended = <<"crash">> \/ ended \in {"exit"} \X (0..255)
       \/ ended \in {"signal"} \X Signals
    /\ signals \in 0..MaxSignals
    /\ always \subseteq Places /\ ever \subseteq Places

Init ==
    /\ file \in StartFiles /\ changes = 0 /\ Idle
    /\ pc = "init" /\ line = NoLine /\ status = 0 /\ looked = 0 /\ typed = "word"
    /\ disp = [p \in Procs |-> [s \in Signals |-> "default"]]
    /\ child = "none" /\ tried = 0 /\ path = Nowhere /\ ran = Nowhere
    /\ fate = <<>> /\ ended = <<>> /\ signals = 0
    /\ always = {} /\ ever = {}

-----------------------------------------------------------------------------
(***************************************************************************)
(* exit and its argument.                                                  *)
(***************************************************************************)
\* int arithmetic wraps around.
Wrap(n) == ((n + IntSize \div 2) % IntSize) - IntSize \div 2

\* ft_atoi.
Atoi(sign, digits) ==
    LET res[k \in 0..Len(digits)] ==
            IF k = 0 THEN 0 ELSE Wrap(digits[k] + Wrap(res[k - 1] * 10))
    IN  Wrap(res[Len(digits)] * sign)

\* C's %, whose result has the sign of its left operand.
Rem(a, b) == IF a >= 0 THEN a % b ELSE -((-a) % b)

\* parse_exit_arg.
Remainder(n) == Rem(n, Byte)
WithoutSign(n) == LET r == Rem(n, Byte) IN IF r < 0 THEN -r ELSE r
ExitValue(n) == LET r == Rem(n, Byte) IN IF r < 0 THEN r + Byte ELSE r

-----------------------------------------------------------------------------
(***************************************************************************)
(* The shell.                                                              *)
(***************************************************************************)
End(how) == pc' = "ended" /\ ended' = how
Back(st) == pc' = "top" /\ status' = st /\ UNCHANGED ended
Leave(n) == End(<<"exit", n>>) /\ UNCHANGED status

\* init_shell: its copies of the standard streams may fail.
InitShell ==
    /\ pc = "init"
    /\ \/ pc' = "top" /\ UNCHANGED ended
       \/ End(<<"exit", 1>>)
    /\ UNCHANGED <<lookVars, childVars, histVars, signals, line, status, looked, typed, disp>>

\* readline_loop: setup_interactive_signals, and the prompt.
Interactive == [s \in Signals |-> IF s = SIGINT THEN "handler" ELSE "ignore"]
NextPrompt ==
    /\ pc = "top" /\ pc' = "read"
    /\ disp' = [disp EXCEPT !["shell"] = Interactive]
    /\ line' = NoLine /\ looked' = 0 /\ typed' = "word" /\ signals' = 0
    /\ child' = "none" /\ tried' = 0 /\ path' = Nowhere /\ fate' = <<>> /\ ran' = Nowhere
    /\ always' = {} /\ ever' = {}
    /\ UNCHANGED <<lookVars, status, ended>>

\* handle_eof; ft_exit without an argument, with one, with several.
HandleEof == Leave(status)
HandleExitNoArg == Leave(status)
HandleExitOneArg(l) == IF l.kind = "exit_word" THEN Leave(2)
                       ELSE Leave(ExitValue(Atoi(l.sign, l.digits)))
FtExit(l) == CASE l.kind = "exit_none" -> HandleExitNoArg
               [] l.kind = "exit_two"  -> Back(1)
               [] OTHER                -> HandleExitOneArg(l)

\* handle_received_input: a line that is not looked up or run.
HandleReceivedInput ==
    /\ pc = "read"
    /\ \E l \in Lines :
          /\ l.kind # "command" /\ line' = l
          /\ CASE l.kind = "eof"    -> HandleEof
               [] l.kind = "empty"  -> Back(status)
               [] l.kind = "faulty" -> Back(2)
               [] OTHER             -> FtExit(l)
    /\ UNCHANGED <<lookVars, childVars, histVars, signals, looked, typed, disp>>

\* Where the word of a line can be run from.
PlacesOf(l) == IF l.direct THEN {Here} ELSE Dirs
Programs(l) == {d \in PlacesOf(l) : IsProgram(d, l.name)}

\* input_handler, for a line that is a command's word: typealize_call_loop looks it up.
TypeCommand ==
    /\ pc = "read"
    /\ \E l \in Lines :
          /\ l.kind = "command" /\ line' = l
          /\ always' = Programs(l) /\ ever' = Programs(l)
          /\ IF l.direct THEN UNCHANGED lookVars ELSE Scan
    /\ pc' = "look"
    /\ UNCHANGED <<childVars, signals, status, looked, typed, disp, ended>>

SearchList == pc = "look" /\ LookStep
              /\ UNCHANGED <<shellVars, childVars, histVars, signals>>

\* The entries behind the end of the list are not the list's: what writing them
\* does is undefined, and may end the shell.
OverrunCrashes ==
    /\ pc = "look" /\ Overrun
    /\ End(<<"crash">>)
    /\ UNCHANGED <<lookVars, childVars, histVars, signals, line, status, looked, typed, disp>>

\* search_list answers: is_valid_exc for a path, the list for a name.
Answers(yes) ==
    IF line.direct THEN yes = IsProgram(Here, line.name) ELSE
    pass = "search" /\ yes = (line.name \in listed)

\* parser_cmd_no_found asks again, and once more before a word becomes a command;
\* execute_ast runs a command and says of a word that it is none.
CommandNotFound == pc' = "top" /\ status' = 127
Parsed(type) == IF type = "cmd" THEN pc' = "fork" /\ UNCHANGED status ELSE CommandNotFound

ParserCmdNoFound ==
    /\ pc = "look"
    /\ \E yes \in BOOLEAN :
          /\ Answers(yes)
          /\ typed' = IF yes /\ looked # 1 THEN "cmd"
                      ELSE IF ~yes THEN "word" ELSE typed
          /\ LET again == looked = 0 \/ (looked = 1 /\ yes /\ typed = "word")
             IN  /\ looked' = looked + 1
                 /\ IF again
                    THEN /\ UNCHANGED <<pc, status>>
                         /\ IF line.direct THEN UNCHANGED lookVars ELSE Scan
                    ELSE Parsed(typed') /\ Forget
    /\ UNCHANGED <<childVars, histVars, signals, line, disp, ended>>

\* execute_external_command.
Fork ==
    /\ pc = "fork"
    /\ \/ /\ child' = "born" /\ pc' = "forked" /\ UNCHANGED status
          /\ disp' = [disp EXCEPT !["child"] = disp["shell"]]
       \/ Back(1) /\ UNCHANGED <<child, disp>>
    /\ UNCHANGED <<lookVars, histVars, signals, line, looked, typed, ended, tried, path, fate, ran>>

\* parent_wait_external: handle_parent_signals, then waitpid.  (What is noted of
\* the child's signals means nothing any more when there is no child.)
Ignored == [s \in Signals |-> "ignore"]
HandleParentSignals ==
    /\ pc = "forked" /\ pc' = "wait"
    /\ disp' = [disp EXCEPT !["shell"] = Ignored]
    /\ UNCHANGED <<lookVars, childVars, histVars, signals, line, status, looked, typed, ended>>

ExitCode == IF fate[1] = "exit" THEN fate[2] ELSE 128 + fate[2]
ParentWaitExternal ==
    /\ pc = "wait" /\ child = "zombie"
    /\ pc' = "top" /\ status' = ExitCode /\ child' = "none"
    /\ disp' = [disp EXCEPT !["child"] = [s \in Signals |-> "default"]]
    /\ UNCHANGED <<lookVars, histVars, signals, line, looked, typed, ended, tried, path, fate, ran>>

-----------------------------------------------------------------------------
(***************************************************************************)
(* The child: child_exec_external.                                         *)
(***************************************************************************)
ChildOnly == UNCHANGED <<pc, line, status, looked, typed, ended, histVars, signals>>
Dies(how) == child' = "zombie" /\ fate' = how

\* handle_child_signals: one signal, then the other.
DefaultSignal(s) == disp' = [disp EXCEPT !["child"][s] = "default"]
ResetInterrupt ==
    /\ child = "born" /\ child' = "reset" /\ DefaultSignal(SIGINT)
    /\ UNCHANGED <<lookVars, tried, path, fate, ran>> /\ ChildOnly
ForgetQuit ==
    /\ child = "reset" /\ child' = "find" /\ UNCHANGED disp
    /\ UNCHANGED <<lookVars, tried, path, fate, ran>> /\ ChildOnly
ResetQuit ==
    /\ child = "reset" /\ child' = "find" /\ DefaultSignal(SIGQUIT)
    /\ UNCHANGED <<lookVars, tried, path, fate, ran>> /\ ChildOnly

\* find_command_path: a name with a '/' is its own path.
DirectPath ==
    /\ child = "find" /\ line.direct
    /\ path' = Here /\ child' = "exec"
    /\ UNCHANGED <<lookVars, disp, tried, fate, ran>> /\ ChildOnly

\* check_path_access: the first directory with a program of that name.
CheckPathAccessStays ==
    /\ child = "find" /\ ~line.direct /\ tried < Len(Path)
    /\ LET d == Path[tried + 1] IN
       IF IsProgram(d, line.name) THEN path' = d /\ child' = "exec" /\ UNCHANGED tried
       ELSE /\ tried' = IF file[d][line.name] = "directory" THEN tried ELSE tried + 1
            /\ UNCHANGED <<path, child>>
    /\ UNCHANGED <<lookVars, disp, fate, ran>> /\ ChildOnly
CheckPathAccess ==
    /\ child = "find" /\ ~line.direct /\ tried < Len(Path)
    /\ LET d == Path[tried + 1] IN
       IF IsProgram(d, line.name) THEN path' = d /\ child' = "exec" /\ UNCHANGED tried
       ELSE tried' = tried + 1 /\ UNCHANGED <<path, child>>
    /\ UNCHANGED <<lookVars, disp, fate, ran>> /\ ChildOnly

NoPath ==
    /\ child = "find" /\ ~line.direct /\ tried = Len(Path)
    /\ Dies(<<"exit", 127>>)
    /\ UNCHANGED <<lookVars, disp, tried, path, ran>> /\ ChildOnly

\* execve: what was found may be another thing by now.  The new program keeps
\* what is ignored; what was caught is at its default.
Execve ==
    /\ child = "exec"
    /\ CASE file[path][line.name] = "program" ->
              /\ child' = "running" /\ ran' = path /\ UNCHANGED fate
              /\ disp' = [disp EXCEPT !["child"] = [s \in Signals |->
                    IF @[s] = "handler" THEN "default" ELSE @[s]]]
         [] file[path][line.name] = "absent" -> Dies(<<"exit", 1>>) /\ UNCHANGED <<disp, ran>>
         [] OTHER -> Dies(<<"exit", 126>>) /\ UNCHANGED <<disp, ran>>
    /\ UNCHANGED <<lookVars, tried, path>> /\ ChildOnly

CommandExits ==
    /\ child = "running"
    /\ \E c \in Codes : Dies(<<"exit", c>>)
    /\ UNCHANGED <<lookVars, disp, tried, path, ran>> /\ ChildOnly

-----------------------------------------------------------------------------
(***************************************************************************)
(* The world around them.                                                  *)
(***************************************************************************)
\* The terminal sends a signal to the shell and to its child.
Living(p) == IF p = "shell" THEN pc # "ended" ELSE child \notin {"none", "zombie"}
Killed(p, s) == Living(p) /\ disp[p][s] = "default"
Press(s) ==
    /\ pc # "ended" /\ signals < MaxSignals /\ signals' = signals + 1
    /\ IF Killed("child", s) THEN Dies(<<"signal", s>>) ELSE UNCHANGED <<child, fate>>
    /\ IF Killed("shell", s) THEN End(<<"signal", s>>) ELSE UNCHANGED <<pc, ended>>
    /\ UNCHANGED <<lookVars, line, status, looked, typed, disp, tried, path, ran, histVars>>

\* Another process changes a file; only what happens while a command is looked for
\* is of interest.
ChangeFile ==
    /\ pc \in {"look", "fork", "forked", "wait"} /\ child \notin {"running", "zombie"}
    /\ \E d \in Places, n \in Names, k \in Kinds : Change(d, n, k)
    /\ LET now == {d \in PlacesOf(line) : file'[d][line.name] = "program"}
       IN  always' = always \cap now /\ ever' = ever \cup now
    /\ UNCHANGED <<shellVars, childVars, signals>>

ShellStep == \/ InitShell \/ NextPrompt
             \/ SearchList \/ OverrunCrashes \/ ParserCmdNoFound
             \/ Fork \/ HandleParentSignals \/ ParentWaitExternal
ReadStep  == HandleReceivedInput \/ TypeCommand
ChildStep == \/ ResetInterrupt \/ ResetQuit \/ DirectPath \/ CheckPathAccess \/ NoPath
             \/ Execve \/ CommandExits

Next == \/ ShellStep \/ ReadStep \/ ChildStep
        \/ ChangeFile \/ \E s \in Signals : Press(s)
        \/ pc = "ended" /\ UNCHANGED vars

\* The kernel runs the shell and the child; commands come to an end.
Spec == Init /\ [][Next]_vars
FairSpec == Spec /\ WF_vars(ShellStep) /\ WF_vars(ChildStep)

-----------------------------------------------------------------------------
(***************************************************************************)
(* Properties.                                                             *)
(***************************************************************************)
\* No signal from the terminal ends the shell once it has shown its first prompt,
\* wherever between fork, signal and waitpid it arrives; and a command that runs
\* is ended by either of them, although the shell it comes from ignores one and
\* catches the other.
SignalsReachCommands ==
    [][\A s \in Signals : Press(s) =>
          /\ pc' = "ended" => pc \in {"init", "top"} /\ line = NoLine
          /\ child = "running" => child' = "zombie"]_vars

\* If the first directory of PATH that ever had the command while it was looked for
\* had it all the time, then that is what runs, whatever else changed there; and
\* if none ever had it, nothing runs and the status says so; unless the fork
\* fails or a signal comes first.
InOrder(d, e) == d = e \/ \E j, k \in DOMAIN Path : j < k /\ Path[j] = d /\ Path[k] = e
Disturbed == IF fate = <<>> THEN status = 1 ELSE fate[1] = "signal"
RunsFirstOnPath ==
    pc = "top" /\ line.kind = "command" /\ ~Disturbed =>
        /\ \A d \in always : (\A e \in ever : InOrder(d, e)) => ran = d
        /\ ever = {} => ran = Nowhere /\ status = 127
        /\ ran # Nowhere => ran \in ever

\* The number after exit is the shell's status modulo the size of a byte, for
\* negative numbers and for numbers beyond the range of int, too.
Value(digits) ==
    LET v[k \in 0..Len(digits)] == IF k = 0 THEN 0 ELSE 10 * v[k - 1] + digits[k]
    IN  v[Len(digits)]
ExitIsModulo ==
    pc = "ended" /\ line.kind = "exit" /\ ended[1] = "exit" =>
        ended[2] = (line.sign * Value(line.digits)) % Byte

\* Every line comes to an end, with a new prompt or with the shell's own end.
LineEnds == pc = "look" ~> pc \in {"top", "ended"}
=============================================================================
