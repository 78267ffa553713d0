------------------------------ MODULE Heredoc ------------------------------
(***************************************************************************)
(* handle_heredoc: a child reads lines from the shell's saved stdin and    *)
(* writes them into a pipe; the process that will run the command waits    *)
(* for the child and only then makes the pipe its stdin.  Several heredocs *)
(* are read at once when the stages of a pipeline have one each, since     *)
(* every stage is its own process.                                         *)
(*                                                                         *)
(* The input is a sequence of pieces: a piece is some text, and ends when  *)
(* a newline follows the text.  A line that is longer than BUFFER_SIZE, or *)
(* that Ctrl-D cuts in its middle, has several pieces; every other line is *)
(* one.  chunk is how many pieces one read() of get_next_line may return:  *)
(* 1 on a terminal, where a read() never goes past a line, and more from a *)
(* file or a pipe.  A piece is named by its position in the input.  Cap is *)
(* the capacity of a pipe, in pieces.                                      *)
(***************************************************************************)
EXTENDS Naturals, Sequences, SequencesExt

CONSTANTS
    Letters,    \* what text is made of
    Docs,       \* the heredocs a command line may have, named by their delimiters
    Sources,    \* command lines: their heredocs, the pieces that are typed after
                \* them, and how many pieces a read() may return
    Cap,
    MaxSignals  \* bound: how many times Ctrl-C or Ctrl-\ is pressed

ASSUME HeredocAssumption ==
    /\ Docs \subseteq Seq(Letters)
    /\ Sources \subseteq [docs : SUBSET Docs,
                          input : Seq([text : Seq(Letters), ends : BOOLEAN]),
                          chunk : Nat \ {0}]
    /\ Cap \in Nat \ {0} /\ MaxSignals \in Nat

VARIABLES
    source,  \* the command line and its input
    typed,   \* how many of them have been typed
    taken,   \* how many of them have been read by some child
    parent,  \* where handle_heredoc is, then the command
    child,   \* where the reading child is
    cache,   \* get_next_line's static buffer: pieces read, not yet returned
    line,    \* what is not yet written of the line get_next_line returned last;
             \* the delimiter, when that has ended the document
    pipe,    \* the pieces in the pipe
    writer,  \* the parent still holds the write end
    body,    \* what the command has read from its stdin
    signals  \* Ctrl-C and Ctrl-\ pressed so far

vars == <<source, typed, taken, parent, child, cache, line, pipe, writer, body,
          signals>>

here  == source.docs
input == source.input
chunk == source.chunk
Pieces == 1..Len(input)
\* Child places: forked with the shell's handlers, both signals at SIG_DFL,
\* reading and writing with SIGINT caught; exited, or killed by a signal.
ChildPlaces == {"none", "inherited", "default", "reading", "writing", "exited",
                "SIGINT", "SIGQUIT"}
Running == {"inherited", "default", "reading", "writing"}

TypeOK ==
    /\ source \in Sources
    /\ typed \in 0..Len(input) /\ taken \in 0..typed
    /\ parent \in [Docs -> {"start", "forked", "wait", "command", "done", "failed"}]
    /\ child \in [Docs -> ChildPlaces]
    /\ cache \in [Docs -> Seq(Pieces)]
    /\ line \in [Docs -> Seq(Pieces)]
    /\ pipe \in [Docs -> Seq(Pieces)] /\ \A d \in Docs : Len(pipe[d]) <= Cap
    /\ writer \in [Docs -> BOOLEAN]
    /\ body \in [Docs -> Seq(Pieces)]
    /\ signals \in 0..MaxSignals

Init ==
    /\ source \in Sources
    /\ typed = 0 /\ taken = 0 /\ signals = 0
    /\ parent = [d \in Docs |-> "start"]
    /\ child = [d \in Docs |-> "none"]
    /\ cache = [d \in Docs |-> <<>>]
    /\ line = [d \in Docs |-> <<>>]
    /\ pipe = [d \in Docs |-> <<>>]
    /\ writer = [d \in Docs |-> FALSE]
    /\ body = [d \in Docs |-> <<>>]

-----------------------------------------------------------------------------
(***************************************************************************)
(* The child: execute_heredoc_child.                                       *)
(***************************************************************************)
Terminal == <<source, typed, signals>>
ParentVars == <<parent, writer, body>>
ToChild(d, there) == child' = [child EXCEPT ![d] = there]

\* handle_child_signals, then signal(SIGINT, heredoc_sigint_empty_handler) and
\* the descriptors; between the two SIGINT would kill the child.
DefaultSignals(d) ==
    /\ child[d] = "inherited"
    /\ ToChild(d, "default")
    /\ UNCHANGED <<Terminal, ParentVars, taken, cache, line, pipe>>

CatchInterrupt(d) ==
    /\ child[d] = "default"
    /\ ToChild(d, "reading")
    /\ UNCHANGED <<Terminal, ParentVars, taken, cache, line, pipe>>

\* ft_take_date: read() as long as the buffer holds no newline, and append what it
\* returns.  Several children may be waiting for the same terminal, and one of them
\* may read between two read()s of another.
Ends(s) == {i \in DOMAIN s : input[s[i]].ends}

UntypedToo == [k \in 1..chunk |-> taken + k]
Available == [k \in 1..Min({chunk, typed - taken}) |-> taken + k]

Overwrite(d) == Available
Join(d)      == cache[d] \o Available

TakeDate(d) ==
    /\ child[d] = "reading" /\ Ends(cache[d]) = {}
    /\ typed > taken
    /\ cache' = [cache EXCEPT ![d] = Join(d)]
    /\ taken' = taken + Len(Available)
    /\ UNCHANGED <<Terminal, ParentVars, child, line, pipe>>

\* ft_take_line and ft_rebuffer: the buffer up to its first newline is the line, and
\* what follows stays; at the end of the input the line is what there is.
LineLength(s) == IF Ends(s) = {} THEN Len(s) ELSE Min(Ends(s))
TakeLine(s)   == SubSeq(s, 1, LineLength(s))
ForgetRest(s) == <<>>
Rebuffer(s)   == SubSeq(s, LineLength(s) + 1, Len(s))

\* is_heredoc_delim compares a line's text, however many pieces it came in.
Text(s) == FlattenSeq([i \in DOMAIN s |-> input[s[i]].text])
IsDelimiter(d, s) == Text(s) = d

\* process_one_heredoc_line: a delimiter ends the document, any other line is
\* written.
GetNextLine(d) ==
    /\ child[d] = "reading" /\ cache[d] # <<>>
    /\ Ends(cache[d]) # {} \/ taken = Len(input)
    /\ line' = [line EXCEPT ![d] = TakeLine(cache[d])]
    /\ cache' = [cache EXCEPT ![d] = Rebuffer(cache[d])]
    /\ ToChild(d, IF IsDelimiter(d, TakeLine(cache[d])) THEN "exited" ELSE "writing")
    /\ UNCHANGED <<Terminal, ParentVars, taken, pipe>>

\* End of file (Ctrl-D): handle_heredoc_eof warns and the document is accepted.
AcceptEof(d) == ToChild(d, "exited")
HandleEof(d) ==
    /\ child[d] = "reading" /\ cache[d] = <<>>
    /\ taken = Len(input)
    /\ AcceptEof(d)
    /\ UNCHANGED <<Terminal, ParentVars, taken, cache, line, pipe>>

\* write() into the pipe: blocks while it is full, and nobody reads it before
\* the child has exited.
ProcessLine(d) ==
    /\ child[d] = "writing"
    /\ Len(pipe[d]) < Cap
    /\ pipe' = [pipe EXCEPT ![d] = Append(@, Head(line[d]))]
    /\ line' = [line EXCEPT ![d] = Tail(@)]
    /\ ToChild(d, IF Len(line[d]) = 1 THEN "reading" ELSE "writing")
    /\ UNCHANGED <<Terminal, ParentVars, taken, cache>>

-----------------------------------------------------------------------------
(***************************************************************************)
(* The parent: handle_heredoc, handle_heredoc_parent_logic, the command.   *)
(***************************************************************************)
ToParent(d, there) == parent' = [parent EXCEPT ![d] = there]

Fork(d) ==
    /\ parent[d] = "start"
    /\ ToParent(d, "forked") /\ ToChild(d, "inherited")
    /\ writer' = [writer EXCEPT ![d] = TRUE]
    /\ UNCHANGED <<Terminal, taken, cache, line, pipe, body>>

KeepWriteEnd(d)  == writer
CloseWriteEnd(d) == [writer EXCEPT ![d] = FALSE]

ParentWaits(d) ==
    /\ parent[d] = "forked"
    /\ ToParent(d, "wait")
    /\ writer' = CloseWriteEnd(d)
    /\ UNCHANGED <<Terminal, taken, child, cache, line, pipe, body>>

\* wait_for_heredoc_child returns: a killed child abandons the command, an
\* exited one hands its pipe over.
ChildEnded(d) ==
    /\ parent[d] = "wait" /\ child[d] \notin Running
    /\ ToParent(d, IF child[d] = "exited" THEN "command" ELSE "failed")
    /\ UNCHANGED <<Terminal, taken, child, cache, line, pipe, writer, body>>

\* The command reads its stdin to the end of file.
CommandReads(d) ==
    /\ parent[d] = "command"
    /\ IF pipe[d] # <<>>
       THEN /\ body' = [body EXCEPT ![d] = Append(@, Head(pipe[d]))]
            /\ pipe' = [pipe EXCEPT ![d] = Tail(@)]
            /\ UNCHANGED parent
       ELSE /\ ~writer[d] /\ child[d] \notin Running
            /\ ToParent(d, "done")
            /\ UNCHANGED <<body, pipe>>
    /\ UNCHANGED <<Terminal, taken, child, cache, line, writer>>

-----------------------------------------------------------------------------
\* The user types a piece, or a signal key: the terminal signals every process of
\* the command line.  The shell's own processes survive; a command that is
\* already running may be killed.
Type ==
    /\ typed < Len(input)
    /\ typed' = typed + 1
    /\ UNCHANGED <<source, signals, taken, ParentVars, child, cache, line, pipe>>

Killed(d, sig) == IF child[d] = "default" \/ (sig = "SIGQUIT" /\ child[d] \in {"reading", "writing"})
                  THEN sig ELSE child[d]
Press(sig) ==
    /\ signals < MaxSignals
    /\ signals' = signals + 1
    /\ child' = [d \in Docs |-> Killed(d, sig)]
    /\ \E hit \in SUBSET {d \in Docs : parent[d] = "command"} :
          parent' = [d \in Docs |-> IF d \in hit THEN "failed" ELSE parent[d]]
    /\ UNCHANGED <<source, typed, taken, writer, body, cache, line, pipe>>

ChildStep(d) == \/ DefaultSignals(d) \/ CatchInterrupt(d) \/ TakeDate(d)
                \/ GetNextLine(d) \/ HandleEof(d) \/ ProcessLine(d)
ParentStep(d) == Fork(d) \/ ParentWaits(d) \/ ChildEnded(d) \/ CommandReads(d)

Finished == \A d \in here : parent[d] \in {"done", "failed"}

Next == \/ \E d \in here : ChildStep(d) \/ ParentStep(d)
        \/ Type
        \/ \E sig \in {"SIGINT", "SIGQUIT"} : Press(sig)
        \/ Finished /\ UNCHANGED vars

Spec == Init /\ [][Next]_vars

\* Every process is scheduled, and the user goes on typing.
FairSpec == /\ Spec
            /\ WF_vars(Type)
            /\ \A d \in Docs : WF_vars(d \in here /\ ChildStep(d)) /\ WF_vars(d \in here /\ ParentStep(d))

-----------------------------------------------------------------------------
(***************************************************************************)
(* Properties.                                                             *)
(***************************************************************************)
\* s[i..j] is a line of s, and the first place where a line of s is d.
IsLine(s, i, j) ==
    /\ i = 1 \/ i - 1 \in Ends(s)
    /\ \A k \in i..(j - 1) : k \notin Ends(s)
    /\ j \in Ends(s) \/ j = Len(s)
Stops(d, s) == {i \in DOMAIN s : \E j \in i..Len(s) : IsLine(s, i, j) /\ IsDelimiter(d, SubSeq(s, i, j))}

\* A lone heredoc's command reads exactly the lines before its delimiter (or
\* before the end of the input), in order, whatever a read() returns at once and
\* however many read()s a line, the delimiter among them, is torn into.
AllPieces  == [k \in Pieces |-> k]
BodyEnd(d) == IF Stops(d, AllPieces) = {} THEN Len(input) ELSE Min(Stops(d, AllPieces)) - 1
BodyIsText ==
    \A d \in here :
        here = {d} /\ parent[d] = "done" => body[d] = [k \in 1..BodyEnd(d) |-> k]

\* Heredocs read at the same time from a terminal divide what is typed: every
\* piece that was read is with one heredoc, in its document or in its reader's
\* hands, and in typing order; a reader that exits keeps nothing but the delimiter
\* that ended its document, and no line of the document is that delimiter.  A line
\* that takes one read() thus goes whole to one document.  One that takes several
\* (longer than BUFFER_SIZE, or cut by Ctrl-D) need not: its pieces may go to
\* different documents, and end them if what one reader gets is its delimiter.
Document(d) == body[d] \o pipe[d]
Held(d)     == (Document(d) \o line[d]) \o cache[d]
EveryPieceOnce ==
    chunk = 1 =>
        /\ \A k \in 1..taken : \E d \in here : \A e \in here : k \in ToSet(Held(e)) <=> e = d
        /\ \A d \in here :
              /\ \A i, j \in DOMAIN Held(d) : i < j => Held(d)[i] < Held(d)[j]
              /\ child[d] = "exited" =>
                     /\ cache[d] = <<>> /\ (line[d] = <<>> \/ IsDelimiter(d, line[d]))
                     /\ Stops(d, Document(d)) = {}

\* "Main execution logic for the heredoc child process ... reads heredoc input,
\* and then finalizes and exits" (execute_heredoc_child), "Waits for child,
\* processes its status, and sets up STDIN from pipe"
\* (handle_heredoc_parent_logic): every heredoc is read and its command ends.
HeredocEnds == <>Finished
=============================================================================
