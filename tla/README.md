# A TLA+ model of the minishell in this repository

The repository is a small Unix shell ("konosubash", the 42 `minishell` project):
about 8800 lines of C and headers in `parser/`, `execution/`, `libft/` and `main.c`.  This
directory holds TLA+ modules that model its behaviour where it is hard to test
(words and quotes, expansion, command lookup, processes, pipes, descriptors,
heredocs, signals, the environment), TLC configurations
that check them on small instances, and TLAPS proofs of what holds for every
instance.

## 1. The system

One line goes through these parts; everything up to the fork runs in the shell's
own process, one line at a time.

| part | state it keeps | operations | source |
|---|---|---|---|
| prompt loop | the status `g_shell_exit_status` | `readline_loop`, `input_handler`, `handle_eof` | `parser/readline_loop`, `parser/handlers`, `main.c` |
| tokens and quotes | the token list (`type`, `rank`, `used`, `err`) | `split_input`, `quote_handler`, `perform_quote_concatenation`, `typealize` | `parser/tokenlst`, `parser/quote_handling` |
| expansion | the growing result buffer | `expand_variables`, `append_char` | `execution/expander*.c` |
| syntax tree | the tree and the tokens' `used` flags | `init_yggdrasil`, `mke_yggdrasil`, `find_left_token`, `gather_arguments` | `parser/yggdrasil` |
| pipelines and commands | processes, descriptors, pipes | `execute_ast`, `execute_pipe_command`, `handle_command_execution`, `execute_external_command` | `execution/executor*.c` |
| redirection chains | `original_fds`, `final_output_fd`, the descriptor table, the files | `execute_redirection_chain` and what it calls | `execution/executor_redir*.c` |
| redirection collector | `redir_nodes`, `command_node` | `collect_redir_and_command_nodes` | `execution/executor_redir_chain2.c`, `3.c` |
| heredocs | the reading child, its pipe, signal dispositions | `handle_heredoc`, `execute_heredoc_child` | `execution/executor_redirections*.c` |
| environment | `shell->env`, the working directory | `update_env`, `ft_export`, `ft_unset`, `ft_cd`, assignments | `execution/executor_utils_env*.c`, `..._unset.c`, `..._nav.c` |
| signals | the dispositions of SIGINT and SIGQUIT per process | `setup_interactive_signals`, `handle_parent_signals`, `handle_child_signals` | `execution/executor_signals.c`, `parser/handlers/handler_ctrl_c.c` |
| line reader | the static buffer of `get_next_line` | `get_next_line` | `libft/get_next_line*.c` |
| command lookup | the list of commands, built anew for each search | `search_list`, `init_command_list`, `find_command_path`, `check_path_access` | `parser/tokenlst/tokenlst.c`, `token_lst_helpers.c`, `execution/executor_utils_path.c` |
| exit | none | `ft_exit`, `parse_exit_arg`, `ft_atoi` | `execution/executor_utils_builtins.c` |
| allocator list | the static list of allocations | `hb_malloc`, `minigarbege_colector` | `libft/garbege_colector.c` |

How they interact: the prompt loop hands the line to the tokenizer, the tokens
to the tree builder, the tree to `execute_ast`.  A pipe node forks one process
for each side, and both call `execute_ast` again, so a tree becomes a tree of
processes; a leaf that is not a builtin forks once more for the program.
A redirection node collects its chain, changes the descriptors of the process
it runs in, and runs the command with them.  A heredoc forks a child that reads
from the shell's saved stdin; it is read when its chain is applied, which in a
pipeline means in the stage's process.  Builtins run in whatever process
reached the leaf, so `cd` in a pipeline changes a child only.

What is hard, and what makes each part correct:

- *pipelines*: no process may keep an end it does not need, in any order of
  forks, closes and waits, also when a call fails; the status is the last
  command's; nothing outlives the prompt.
- *redirection chains*: nodes are collected backwards, inputs installed at once
  and outputs at the end; a failure in the middle must leave the shell's own
  descriptors as they were and must not run the command.
- *heredocs*: reader, pipe and waiting parent must not wait for each other;
  what is typed may be shared between concurrent readers, even in the middle of a line, but
  nothing of it may be lost or doubled.
- *environment*: three functions with three comparisons maintain one array; it
  must behave as a map.  `cd` consists of several system calls.
- *tree and collector*: every redirection and argument of a segment must end up
  in it, in order.
- *words*: the unquoted spaces and operators split the line and nothing else does;
  quoting, typing, joining, assigning and expanding are separate passes over the
  token list, each of which sees what the ones before it left.
- *expansion*: a growing buffer in the expander, a measured one for double
  quotes; what is written must fit both.
- *command lookup*: a list sized in one pass over the directories and filled in
  another, then a search by the child, then `execve`, while files change.
- *signals*: which processes a Ctrl-C reaches depends on windows between `fork`,
  `signal` and `waitpid`.

## 2. Modules

**`Pipeline`** models `execute_ast` on trees of `AST_PIPE` nodes and commands.
There is one process per node (`Stage(n)`; the root's is the shell) and one per
external command (`Command(l)`).  `pc` is the place in the C code, `fd` maps the
C variables that hold descriptors (`in`, `out`, `pipefd[0..1]`,
`original_fds[0..1]`) to what they refer to, `code` is the status computed or
exited with, `buf` the number of items in each pipe.  Each action is one system
call with the code around it up to the next; `Attempt` lets it fail, at most
`MaxFail` times a line.  Commands are reduced to how they use their streams
(`Kinds`): a finite writer, an endless one, a filter, one that reads and writes
nothing, one that was found while parsing but cannot be executed, a builtin that
writes from the stage's process, and a word that is no command.  `NextLine`
starts the next line; it forgets only children that were waited for, so a
leaked child or descriptor is still there for the next line to meet.
External (kernel or user program) behaviour: `Fork`, `Reap`, `Exit`, `Write`,
`CommandReads`, `AtEndOfFile` and the like.

**`RedirChain`** models `execute_redirection_chain` in one process, with
descriptors as numbers below `MaxFd`, so that the table can be full, and with
each file's contents (what was there, what the command wrote).  `HandleHeredoc`
is the heredoc as the process that waits for it sees it.  `line.nodes` is what
the collector returns: the last redirection first.

**`Heredoc`** models the reading children, their parents, the pipes and the
terminal.  The input is a sequence of pieces: a piece is some text, and may or may not end
with a newline, so that a line that is longer than `BUFFER_SIZE`, or that Ctrl-D cuts in its
middle, is several pieces.  A piece is named by its position.  `Sources` is a set of command lines:
which heredocs they have, what is typed after them, and the number of pieces one
`read()` may return (`chunk`: one on a terminal, more from a file or pipe); `Cap` is
the capacity of a pipe in pieces.  `TakeDate` is one turn of the loop of `ft_take_date`, so other
readers may read between two turns; `GetNextLine` takes the line off the buffer once the
buffer holds a newline, or at the end of the input, and compares it with the delimiter.

**`EnvArray`** models `shell->env` as a sequence of `<<name, value>>` entries
(value `Bare` for an exported name without one), with one action per argument
processed by `export` and `unset`, and `cd` in two steps, since directories may
be removed between its system calls.  **`EnvMap`** is its abstract
specification: a map from names to values; `EnvArray` implements it through
`MapOf`.

**`Yggdrasil`** models `init_yggdrasil`, the walk of `execute_ast` over the tree, and the
collector.  `tree` is the heap of nodes: each node is made from a token of its own, whose
place in the line is its name, and a pointer is a sequence of at most one such place.
`MkeYggdrasil` is a recursive function from calls (the arguments `t`, `f`, `e`, with the heap,
the `used` flags and the status as they are then) to what is returned; `Mke` is the body of
`mke_yggdrasil`, with `find_left_token`, `find_right_token`, `gather_arguments`,
`gather_filename` and `set_ygg_children` as it uses them.  `InitYggdrasil` builds the tree, from any
status the line before may have left.  Then `todo` holds the parts of the tree that are still to
be run: a pipe gives way to its two sides, a command is run, and a redirection is collected node
by node (`chain` is `t_redir_collection_state`), or at once when it is one of the complex
patterns.  `jobs` is the history of what each stage was made to run.  `Lines` is a set of lists of
token kinds: what the rest of the parser decides about a token's text is its kind here.  The
compiled program and an earlier form of the model, with recursive operators and nested trees, were
compared on 41,124 token lists (all lists of up to four tokens of nine kinds, up to seven of
fewer kinds, and lists with assignments): trees, jobs and statuses agreed on every one, and TLC
found the two forms of the model equal on every list of up to four tokens of nine kinds and up
to six of five.

**`Expander`** models `expand_variables` with one action per turn of
`expansion_loop` and one per character of a value, over any alphabet in which
letters, digits, `$ ? { }` and the rest are told apart.  `result` and `cap` are the
buffer and its capacity; an allocation may fail, which ends the expansion
or, inside a value, drops the rest of it, as in the code.  It
is used by `Words` and proved about in `ExpanderProofs`.

**`Words`** extends it with everything between the typed line and
`init_yggdrasil`: one action per token of `split_input`, per join, per assignment and
per step of the expander, and one for each loop that treats every token by
itself (quotes, types, the search for commands).  Tokens are records of the
fields of `t_token` that later passes read.  The model and the compiled program
were compared on 64,694 pairs of a line and an environment (all lines
of up to six characters over `x $ ' "` and space, and of up to five over three
other alphabets, in two environments): the token lists agreed on every one.

**`Lookup`** models `search_list`: the pass that counts the entries of the directories
in `PATH`, the allocation, the pass that fills the list, and the search, with other
processes that create, change and remove files in between (`Change`).

**`Session`** extends it with `readline_loop`, for lines that are one word, an `exit`,
the end of input, or not run at all.  A word is looked up by the parser (up to three
times, as `typealize` and `parser_cmd_no_found` do), the shell forks, the child resets its
signals one by one, searches `PATH`, and calls `execve`; the shell ignores the signals
and waits.  `disp` is what SIGINT and SIGQUIT do to each of the two processes, and
`Press` may come between any two steps.  `always`, `ever` and `ran` are history
variables: where the command was a program all the time, at some time, and what was
run.  `exit`'s number goes through `Atoi`, which wraps at `IntSize`, and C's `%`.

**`PipelineProofs`**, **`RedirChainProofs`**, **`HeredocProofs`**, **`EnvArrayProofs`**,
**`YggdrasilProofs`**, **`ExpanderProofs`**, **`WordsProofs`** (which builds on
it, as `Words` on `Expander`) and **`SessionProofs`** hold the theorems.  `MCPipeline`, `MCRedirChain`, `MCHeredoc`, `MCEnvArray`,
`MCYggdrasil`, `MCWords` and `MCSession` give the constants their values for TLC.

In each module some definitions stand beside a faulty variant (`CloseReadEndOnly`
beside `ClosePipe`, `KeepWriteEnd` beside `CloseWriteEnd`, ...).  No action uses
the variants; each is a plausible slip in the C code that the listed property
must detect when it replaces its neighbour (`mutants` in `PROJECT.json`).

How they fit together: `Words` yields the token lists that are `Yggdrasil`'s `Lines`
(the pairs of a type and a rank that its `HandedOver` admits are `Yggdrasil`'s kinds);
`Yggdrasil` yields the tree that is `Pipeline`'s
`LeftOf`/`RightOf` and the chains that are `RedirChain`'s `Lines`;
`RedirChain` takes the collected nodes as they are given, because for three or
more redirections the collector's order is not always the line's;
`Heredoc` is what `RedirChain!HandleHeredoc` does in one step.

## 3. What is checked

Every run is complete: TLC explores all reachable states of the instance.

| run | instance | shows |
|---|---|---|
| `pipeline_three` (`MCPipeline3.cfg`) | `a \| b \| c` as the parser nests it, all kinds of commands (those that are not forked as programs one at a time, among filters), two items of output, pipes that hold one, one failing system call per line, any number of lines | `PromptRestored`, `StatusIsLast`, `NoOrphans`, `WaitsEmptyHanded`, `SigPipeOnlyWhenReaderGone`, `LineEnds` |
| `redirections` (`MCRedirChain.cfg`) | chains of up to three of six redirections, nine descriptors of which any part is already taken, a file that cannot be opened, line after line | `Restored`, `CommandStreams`, `FilesAsAsked`, `SuccessIsTrue` |
| `heredoc_signal` (`MCRedirSignal.cfg`) | the same | `SignalStatus` fails (finding) |
| `heredocs` (`MCHeredoc.cfg`) | one heredoc with every input of up to three pieces (half of its delimiter, the other half, all of it), one per `read()`, and of up to four, three per `read()`; two heredocs in two stages with every input of up to three pieces, one per `read()`; one signal at any moment | `BodyIsText`, `EveryPieceOnce`, `HeredocEnds` |
| `heredoc_full` (`MCHeredocFull.cfg`) | one heredoc whose body is longer than its pipe | `HeredocEnds` fails (finding) |
| `environment` (`MCEnvArray.cfg`) | three names, two values that are directories, six argument lists, three inherited environments | `UniqueNames`, `PwdIsCwd`, `ExportAppliesAll`, `RefinesMap` |
| `unset_bare` (`MCEnvUnset.cfg`) | the same | `UnsetRemoves` fails (finding) |
| `tree` (`MCYggdrasil.cfg`) | every list of up to three tokens of nine kinds, of up to five of five kinds, and of up to seven of four kinds | `StagesKept`, `NothingTwice`, `StaleStatusHarmless`, `SimpleStages` |
| `tree_redirections` (`MCYggdrasilAll.cfg`) | lists of up to seven tokens of four kinds | `AppliesAll` fails (finding) |
| `words` (`MCWords.cfg`) | every line of up to five characters over `x $ ' "` and space, of up to four over three other alphabets (operators, assignments, braces), and seven longer ones; two environments; a buffer that starts with two characters, one failing allocation | `BufferFits`, `ResultIsExpansion`, `WordsAsWritten`, `OpenQuoteRejected`, `AssignmentsInForce`, `CopyFits`, `LineIsRead` |
| `words_literal` (`MCWordsLiteral.cfg`) | the same, with lines of up to three in the other alphabets | `LiteralsSkipped` fails (finding) |
| `session` (`MCSession.cfg`) | two directories in `PATH`, two names, one change of a file per session and one signal per line, any number of lines | `ListFits`, `RunsFirstOnPath`, `ExitIsModulo`, `SignalsReachCommands`, `LineEnds` |

Each module's `TypeOK` is checked by one of its runs.

**Bounds.**  *Pipes*: with two items and a pipe that holds one, a writer blocks,
finishes early, finishes late and is killed; three stages are the smallest line
in which one stage both reads and writes pipes and a stage waits for a stage
that waits.  One failing call per line reaches every error path once; that any
number of failures leaves the shell's descriptors intact, and no process behind, is proved
for every tree.
*Descriptors*: a chain needs at most two saved copies, an output target and two
ends of a heredoc's pipe at once, so with nine descriptors and any number of
them taken the table fills up at each of its `open`, `dup` and `pipe` calls.
Three redirections are enough for a first, a middle and a last one, and for a
failure between two of them.  *Heredocs*: the body, its delimiter and a line that
belongs to somebody else fit in three pieces, and so do a delimiter torn in two and a line
before or behind it; two readers are the fewest that compete, and the second half of
one delimiter is the other one, so that a torn line can end both documents.  *Environment*: three names put an entry before, at and behind the
one removed; two values tell old from new.  *Token lists*: five tokens put a redirection
on both sides of a command, six give two stages that each have one, and seven a stage of a
pipeline with two (`SimpleStages` alone was also checked once on every list of seven tokens of five
kinds and of eight of four).
*Words*: five places are enough for a quote that opens and closes before, inside and
behind a word, and for one that stays open; a first capacity of two makes the
buffer grow in a short value, where the program starts with 128, and the proof
covers every capacity.  *Session*: two directories are the fewest in which a
command can be in the wrong one, and a second name makes the list longer than
the command needs; one change is enough to take a file away, replace it or add one between
any two looks at it (with two, 1,531,722 states were checked once without an
error).  An `int` has 16 values and a byte four there, so that three digits
overflow: the conversion depends only on the one size dividing the other
(`SizesAssumption`).

**Fairness.**  `Pipeline` assumes weak fairness of each process's next step: the
kernel runs every process that can go on.  A process blocked in `read`, `write`
or `waitpid` is one whose action is not enabled, so nothing is promised about
it.  No fairness is assumed for `NextLine` (the user may stop typing) nor for
any particular outcome of a step, and none for a failing call.  `Heredoc` assumes
the same of readers and parents, and that the user goes on typing until the
input or the delimiter is there (`WF_vars(Type)`); without that, a heredoc
rightly waits.  `Words` assumes that the shell's own process goes on (`WF_vars(Next)`),
`Session` the same of the shell and of its child; for a running command that means that it
ends (`CommandExits`), without which no shell returns to its prompt.  Neither assumes that
the user types, presses keys, or that files change.  Lines with an endless writer are restricted in `MCPipeline`
to those in which a later stage stops reading, since `yes | cat` never ends in
any shell.  `RedirChain`, `EnvArray` and `Yggdrasil` state no liveness: their
loops wait for nothing.

**Deadlock** is checked except in `heredoc_full`, where it is the finding, and in
the `Yggdrasil` and `Words` runs, which stop after one line.

## 4. Findings

1. *A heredoc longer than its pipe hangs the shell* (`heredoc_full`).
   `handle_heredoc_parent_logic` waits for the reading child before anything
   reads the pipe the child writes to.
2. *The status of an interrupted heredoc is lost* (`heredoc_signal`): it is set to
   128 + the signal and overwritten with 1 by `execute_redir_chain_core`.
3. *`unset` does not remove a name exported without a value* (`unset_bare`).
4. *Some redirections are not applied* (`tree_redirections`): of
   `cmd > a > b > c` the file `b` is not even created.  The rank-driven search
   hangs a redirection as the right child of one that also has a left child,
   and the collector looks right only when there is nothing on the left.  In a pipeline it
   takes only two: `find_left_token` and `find_right_token` start a side of a pipe at its first
   redirection, where `find_initial_root` takes the last, so `ls > a > b | cat` creates `a` only.
5. *Single-quoted text is expanded when something stands before it* (`words_literal`): `x'$X'`
   becomes one token with the flags of `x`, and the expander skips only tokens
   marked as literal.

Other behaviour met while modelling, without a statement in the repository
to hold it against: `cat < > a` reports a syntax error and still runs; `nosuch > f`
has status 0; `nosuch ls` runs `ls`; a file named like a command ends the
arguments of the command before it; a quote left open behind other text (`x"`) is
dropped instead of reported; in a pipeline `> a ls > b | cat` opens `b` before `a` and writes to
`a`; `"$X"` is a pipe when `X` is `|`; a name in
double quotes goes on up to the next sign of `QUOTE_SET`, so `"$X/y"` looks for a
variable `X/y`, and it is replaced before the assignments of its own line are made, others after
them (`AssignmentsInForce` is about the later ones); a line that takes a heredoc's reader several `read()`s may be torn between the readers of
two stages; when the directory `cd` has just entered is removed before `getcwd`, the shell stays in it
with the old `PWD`, and every later `cd` fails; enough files that are created in the directories of `PATH` while
they are counted and listed make `search_list` write behind its list (`ListFits` says how far at most, `OverrunCrashes` what may
follow); a signal that reaches the child before it has reset its handlers is lost.

## 5. What is proved

Every safety property that a passing run checks is a theorem.  All
theorems hold for every value of the constants, under the assumptions that
the modules state: that a tree is one (`TreeAssumption`), that bounds and capacities are
numbers (`NumberAssumption`, `SizeAssumption`, `RedirAssumption`, `HeredocAssumption`), that
inputs are made of what they are made of (`NameAssumption`, `ArgAssumption`, `StartAssumption`,
`InputAssumption`, `WordsAssumption`, `PathAssumption`, `FilesAssumption`, `LinesAssumption`,
`CodesAssumption`), that signs that the code tells apart are different (`CharAssumption`), that
the size of an `int` is a multiple of a byte's (`SizesAssumption`), and that "nowhere" is no
place in the file system (`PlacesAssumption`).  TLC evaluates each of them on its instance.

| module | theorem | states |
|---|---|---|
| `PipelineProofs` | `TypeCorrect`, `PromptRestoredAlways`, `NoOrphansAlways`, `WaitsEmptyHandedAlways`, `StatusIsLastAlways`, `SigPipeJustified` | `TypeOK`, `PromptRestored`, `NoOrphans`, `WaitsEmptyHanded`, `StatusIsLast`, `SigPipeOnlyWhenReaderGone` |
| `RedirChainProofs` | `TypeCorrect`, `RestoredAlways`, `CommandStreamsAlways`, `SuccessIsTrueAlways`, `FilesAsAskedAlways` | `TypeOK`, `Restored`, `CommandStreams`, `SuccessIsTrue`, `FilesAsAsked` |
| `HeredocProofs` | `TypesAlways`, `BodyIsTextAlways`, `EveryPieceOnceAlways` | `TypeOK`, `BodyIsText`, `EveryPieceOnce` |
| `EnvArrayProofs` | `TypeCorrect`, `UniqueNamesAlways`, `ImplementsMap`, `PwdIsCwdAlways`, `ExportAppliesAllAlways` | `TypeOK`, `UniqueNames`, `RefinesMap`, `PwdIsCwd`, `ExportAppliesAll` |
| `YggdrasilProofs` | `TypesAlways`, `NothingTwiceAlways`, `StagesKeptAlways`, `StaleStatusHarmlessAlways`, `SimpleStagesAlways`; `MkeYggdrasilIs` | `TypeOK`, `NothingTwice`, `StagesKept`, `StaleStatusHarmless`, `SimpleStages`; the recursion is well defined |
| `ExpanderProofs` | `TypeCorrect`, `BufferFitsAlways`, `ResultIsExpansionAlways` | `ExpTypeOK`, `BufferFits`, `ResultIsExpansion` |
| `WordsProofs` | `TypesAlways`, `LineBufferFits`, `LineIsExpanded`, `CopyFitsAlways`, `AssignmentsInForceAlways`, `OpenQuoteRejectedAlways`, `WordsAsWrittenAlways` | `TypeOK`, `BufferFits`, `ResultIsExpansion`, `CopyFits`, `AssignmentsInForce`, `OpenQuoteRejected`, `WordsAsWritten` |
| `SessionProofs` | `TypesAlways`, `SignalsReachCommandsAlways`, `ListFitsAlways`, `RunsFirstOnPathAlways`, `ExitIsModuloAlways` | `TypeOK`, `SignalsReachCommands`, `ListFits`, `RunsFirstOnPath`, `ExitIsModulo` |

**`PipelineProofs`**.  `PromptRestored` alone is
not inductive: nothing in it says what the shell holds while a line runs.  `IInv`
adds `ShellInv`, which ties the shell's descriptors to its place in the code: it
owns both pipe ends in `Piping` places and none elsewhere, saved copies only in
`Saved` places, and its streams are the terminal throughout.  Each action is one
of five kinds of step (move, exit, fork, return of a failure, ...), and one lemma
per kind shows that it keeps the invariant for the shell and leaves it alone
when another process moves.

The second part is about all processes of a line.  Five invariants build on each
other.  `FamilyInv`: where a process is says where its children are (`PipeFamily`,
`LeafFamily`), and processes outside the line's tree do not exist.  The subtree of a node is
the least set that is closed under children, so a property of parents and children holds for
all descendants without induction on the tree: when the shell is at its prompt, the set of
nodes whose processes are gone is closed, which is `NoOrphans`.  `HandsInv`: a process holds ends
of pipes above it only, and a stage's streams are never ends of its own pipe
(`WaitsEmptyHanded`).  `ReaderInv`: the right side of a forked pipe holds the read end until it
exits (`SigPipeJustified`).  `SpineInv`: the processes on the way to the last command write to
the terminal, so no SIGPIPE reaches them; with it, `CodeInv` says that each finished process
has the status of its own last command, or 1 after a failed call (`StatusIsLast`).

**`RedirChainProofs`**.  The
invariant has three parts.  `TableInv`: in the middle of a chain the table differs
from the one at the start of the line only at the two standard streams and at
the chain's own descriptors, which were free, and the saved copies still refer
to the old streams; so restoring and closing give the old table back.
`StreamInv`: after the nodes behind `i` are applied, stdin and the pending output
target are what the first of those nodes asks for (`Wanted`); at `i = 0` this is
`CommandStreams`.  `FilesInv`: a file somebody writes to exists, needed for the
type of the files after the command's output.  That the choice of the lowest
free descriptor is defined rests on the library's well-founded induction on
finite sets.  Two more invariants carry the effects: `ContentInv` is `FilesAsAsked` at any place
of the chain, and `SuccessInv` says that a command runs only behind the last node.

**`HeredocProofs`**.  What one process has of the input is its document (what the command has
read and what is in the pipe), the rest of the line that is being written, and the buffer
(`Held`, in this order).  `TextInv` is about one reader alone: what it has passed on consists of whole lines none of which is the
delimiter (`Passed`), and once it has exited, what is left in its hand is the delimiter, or the
input is at its end (`Textual`).  Its heart is that a line cut off
the front of the buffer is a line of the whole as well (`LineOfPart`, `LineBehind`), so that joining
another piece to the buffer, or writing a piece, moves no line's end (`AddLine`).  For a lone heredoc (`LoneInv`) `Held` is
everything that was taken, in order; with `TextInv` the first place where the input has the
delimiter as a line is where the document ends (`FirstStop`).  For several readers that take a
piece at a time, `DivideInv`: each piece that was taken is in exactly one `Held`, and each
`Held` is in typing order; a step either moves a piece within one `Held` or adds the next piece
of the input to one.

**`EnvArrayProofs`**.  One lemma
per array function says that it returns an array without repeated names and
changes the map at one name (`UpdateEnvSets`, `EnsureExports`, `RemoveUnsets`).
The invariant adds that a loop over arguments has one left (`ArgLeft`), without
which `args[i]` is not known to be an argument.  `ImplementsMap` is the
refinement of `EnvMap`: every step is a step of the map or leaves it alone.
`PwdTracks` says of the map what `PwdIsCwd` says of the array, wherever `tracked` holds, and
between `chdir` and `getcwd` that `PWD` names the directory that was left (`left`), which is what it goes on naming if
`getcwd` fails (`Stale`); `ExportLoop` says of
the arguments processed so far what `ExportAppliesAll` says of all.

**`YggdrasilProofs`**.  A call of `mke_yggdrasil` uses its token before it calls again, so both
its calls have fewer unused tokens (`FewerDeeper`).  From this the library's theorem about
functions that are defined by well-founded recursion gives the function (`MkeExists`,
`MkeYggdrasilIs`), and whatever holds of a call when it holds of deeper ones holds of all calls
(`CallInduction`).  Four facts are proved that way.  `StatusIsNoInput`: calls that differ in
their status make the same nodes, since a child's token that is chosen is used once the child
returns, so that `has_left` and `has_right` are false whenever the status is asked for
(`FailsForPipes`): the test of the status is never what fails a call.  `MkeIsTidy`: a call takes
tokens that were unused, changes the nodes of no others, and links each token it took from one
place, except the node it returns; two calls one after another take disjoint tokens, so a node
with both of them as children is tidy again (`TidyLink`), and a whole tree is `NothingTwice`.
`MkeIsGood` is about stages, for the three kinds of calls there are (`RootChildren`,
`ChainChildren`, `StageChildren`): calls within one stage take tokens of that stage; the root is
the last pipe of the line if there is a pipe, its left side starts at the line's first pipe, and
each pipe on that side has the next one on its right; so the sides of a pipe stand for consecutive stages
(`First`, `Last`, `Follow`).  That the root, and it alone, has a pipe on its left is why a rank-driven search over
ranges with several pipes in them puts the stages in order.
`StagesKept` is then an invariant of the walk: what is still to be run (`todo`) stands for the
stages behind those that ran, one after another up to the last (`Follows`, `WalkInv`), and a
chain that is being collected is of the stage that is next (`ChainInv`).  That `todo` never
holds `NULL`, and that both sides of a pipe are there, for which the code has tests, follows from it
(`NextPart`, `FollowsSplit`).
`SimpleStages` says which words and redirections a stage runs, and its proof follows the
builder's choices.  What a call is to look through is `Whole` if it starts at a pipe or with the line, ends at one
or with it, and has nothing in it that is used: the root's call is, and so are the calls for a
pipe's sides, as what is made before a pipe takes nothing behind it (`TakesBefore`, `WholeSides`).  In a whole stage that
is simple the token chosen is its redirection, or the command if it has none, or the second of
two if the root was looked for (`Chosen`, `ChosenFirst`, `ChosenRoot`).  What the call for
that token makes is in each case known (`StageTree`): `gather_filename` takes the next token, `gather_arguments`
all words of the stage behind the command (`GatherArgumentsFinds`), and of the two searches for children one finds the
command or the other redirection and the other finds nothing that is free (`RedirOverCommand`, `RedirOverRedir`).  So the tree has every simple
stage as it was meant (`BuiltIsStraight`).  For the walk the inductive invariant is `SimpleInv`: the parts that are
left, and the sides of every pipe, have such trees (`SidesInv`), and the chain is at one of the
few places it can be at on its way through one (`OnPath`, `PathInv`).  It holds together with `IInv`, which
says that the stage of the next part is the number of the next job.

**`ExpanderProofs`**.  `BufferFits` with `ExpTypeOK` is
inductive: a character is appended after `NeedsRoom` was tested against the length
it will have, and doubling a positive capacity leaves room for one more
(`AppendFits`); a failed allocation appends nothing.  The types rest on
`NameEndInText`: the place behind a name exists and is in the text, by the
well-foundedness of the naturals, so that the loop never goes beyond the terminator.
`ResultIsExpansion` compares the loop with the reference `Expansion`, a function that is
defined from the end of the text.  `FromReads` and `ExpansionReads` show that there is exactly one
function with those equations; `TurnInv` says that the result, what is left of a value, and
the expansion of the rest are together the expansion of the text (`Halfway`).

**`WordsProofs`**.  `WordInv` says for each pass which types and ranks the tokens can have, so
that what is handed over is of `Yggdrasil`'s kinds; the expander's invariants hold for each
call, which begins with them.  `CopyFits` compares the function that counts and the one that
copies, piece by piece (`CopyAndCount`).  `AssignInv` follows the environment through the
assignments: `InForce` says of an inherited environment, the one now and the assignments
done what `AssignmentsInForce` says at the end.  `QuoteInv` follows an open quote from the line to the
status.  `OpenIn` is the quote each place of a text is in; a token that starts outside of
quotes ends outside of them or is open to the line's end (`TokenCloses`).  While the line is
split, the quote that stays open is still to come (`Coming`) or is a token of its own that is
joined to nothing before it (`BadStarts`); quotes, types and joining make of it a token with
an error that is joined to nothing (`ErrorStarts`, `ErrorApart`), which joining its
neighbours never swallows (`JoiningReports`).
`WordsAsWritten` is about the whole way.  `LiteralInv` says, for a line without references
outside of single quotes (`Literally`), where each token stands in it: the tokens have parts of the line
that follow one another and leave nothing out but unquoted spaces (`Tiling`).  What a
token is of its part changes with the passes.  `Raw`: it is that part, an
operator, a quoted text or a text without quotes, and is marked as joined exactly if a word goes on behind it.
`Read`: it spells the part without its quotes, and only an unquoted operator still looks
like one.  `Part`: it has the type of an operator exactly if it is one.  While joining, the words
before the current token are whole; a word that goes on behind a token goes on in the very next one
(`NextTile`), and two parts that are joined spell the places of both (`JoinedSpells`).  From
then on the tokens are whole words (`WholeTokens`), and `WholeAsWritten` says by counting that they are
those of the line, in its order (`TilesStart`, `TilesCount`).  The expander changes none of them: a token that is not marked
as literal has no `$` (`NothingIn`), so that each turn copies a character (`Copying`), and what is
stored is the text that was there, or nothing is stored when an allocation failed.

**`SessionProofs`**.  `SignalsReachCommands` speaks of single steps; what
makes it true is `SigInv`: the shell is deaf to both signals from its first prompt on,
through the fork (the child inherits its dispositions) and the wait, and the child
is exposed to each signal from the step that resets it, which `execve` keeps.  One
lemma per process shows that its steps keep `SigInv`, and `StepReaches` that
a signal does in such a state what the property says.  `ListInv`: but for the files that
were created in a directory between its two passes (`missed`), what was counted is enough for what was passed, and what was allocated for what is written
and what is to come, by the cardinality of the entries that are left (`Upcoming`); a change of one
file adds one entry at most, and if it adds one, `missed` has it (`OneEntry`).
`RunInv` follows the two history variables: what the parser found was there once, what
the child has passed over was not always there, and what it runs is the first of which
neither is true.  `ExitIsModulo` is arithmetic: the wrapped number and the number differ by a
multiple of a byte's size at every digit.

*Induction over data.*  The library's induction theorems cannot be used with the provers at hand, as
they have an operator as a parameter.  What a recursive function computes is proved here with
sets instead: the set of places at which the claim holds contains the first place and, with
each place, the next; were it not everything, its complement would have a least member, by the
well-foundedness of the naturals (`UpTo` in `SessionProofs`, `UpToEach` and `FromTheEnd` in
`ExpanderProofs`, `FromTheEnd` and `CallInduction` in `YggdrasilProofs`).

*Only model-checked*: liveness (`LineEnds`, `HeredocEnds`, `LineIsRead`), which the prover does
not handle under fairness.

What the provers found in the models: `RedirChain!FilesAsAsked`, `Expander!Expansion`,
some operators of `Words` and `Yggdrasil` had been written with `CASE` arms that overlap, which
leaves the value to TLC's order of evaluation; they are `IF` chains in the code's order now.
`Words!UpdateEnv` is written without `@@`, which the provers cannot expand.  An invariant for
open quotes that TLC accepted on the instance was wrong for a quoted operator followed by a space and
an open quote (`'|' "`), a line longer than that instance's alphabets with operators have.
`SimpleStages` had been stated for two redirections in every stage, which TLC accepted on lines of six tokens;
its proof needs that the second of them is found first, which `find_left_token` and
`find_right_token` do not do, and on lines of seven tokens TLC finds a pipeline with
a stage whose second redirection is lost.  It is now stated for two redirections only where
the line is one stage.

## 6. What is not modelled

- The limit of 1024 redirections in one command (`MAX_REDIRECTIONS`): `Yggdrasil` collects
  any number.
- Failed allocations (most paths end in `exit` or an empty result), except in the
  expander and as far as a failing system call stands for them.
- A failing `dup2` while descriptors are restored; the shell cannot recover.
- The text of messages, echo's options, the sorted listing of `export`, the
  prompt's decoration, debugging output, `ft_printf` and the string library.
- In `Heredoc`: the bytes of a piece (a `read()` from a file or pipe may end in the middle of
  a line, and here it ends between pieces, which may be parts of lines); an end of input in
  the middle of it, as a terminal may give with Ctrl-D, after which more is typed: it comes once, at the end.  A line is
  written to the pipe piece by piece, where the code's one `write()` may block in its middle.
  Expansion of the lines, and a `read()` that fails.
- In `Words`: spaces other than `' '`, and the signs of `QUOTE_SET` that no instance
  types; the lengths beyond which `int` counters would wrap.
- In `Lookup` and `Session`: a `PATH` that changes (an assignment `PATH=...` on the
  line), directories that cannot be opened, repeated ones; `is_valid_exc`'s calls
  of `access` and `stat` are one step, and so are `check_path_access`'s.  Lines with
  more than one word, pipes or redirections are `Pipeline`'s and `RedirChain`'s, which keep
  only the outcome of the lookup (`word`, not executable, found).
- The list of allocations (`garbege_colector.c`): its index only grows.
- Builtins inside `Pipeline` are one that writes; `exit` in a stage ends the stage like
  any other exit, and in the shell the session.
- Dead code: `handle_redir_execution`, `handle_redirections`,
  `handle_redir_out`/`append`, `execute_redir_cmd_node`, `read_heredoc_input`.

## 7. Plan

Done: `Pipeline`, `RedirChain`, `Heredoc`, `EnvMap`/`EnvArray`, `Yggdrasil`, `Expander`, `Words`,
`Lookup`, `Session`, and the proofs above.  Next, in this order:

1. `Line`: `Words` and `Yggdrasil` composed, checking that the chain `RedirChain` gets is
   the one that was typed.
2. Signals in the stages of a pipeline.
3. `LineReader`: `get_next_line` by characters, and the lines a heredoc's reader takes
   away from the shell.
4. An abstract `Job` specification (a job starts with the shell's descriptors, ends
   with them and with a status) that `Pipeline` and `RedirChain` implement.
