----------------------------- MODULE Yggdrasil -----------------------------
(***************************************************************************)
(* init_yggdrasil: the tokens of a line become a tree of pipes,            *)
(* redirections and commands, each token being marked as used when it has  *)
(* found its place; execute_ast walks that tree, and the redirections of a *)
(* command are collected again by collect_redir_and_command_nodes.  The    *)
(* module follows one line; what it inherits from the lines before is the  *)
(* status, which the builder consults.                                     *)
(***************************************************************************)
EXTENDS Naturals, Sequences, FiniteSets

CONSTANT Lines   \* the token lists the tokenizer and the expander hand over

\* Kinds of tokens.  A "joined" one was taken for a command before a quoted
\* part was appended to it, and is no command: it keeps RANK_B.  So does a "glued"
\* one, which became an assignment that way.
Redirs == {"<", "<<", ">", ">>"}
Kinds  == Redirs \cup {"|", "cmd", "word", "joined", "assignment", "glued"}

\* A line without tokens is forgotten before it gets here.
ASSUME LinesAssumption == Lines \subseteq Seq(Kinds) \ {<<>>}

Rank(kind) == CASE kind = "|" -> 6
                [] kind \in Redirs -> 5
                [] kind \in {"cmd", "joined", "glued"} -> 4
                [] OTHER -> 3
TypedWord(kind) == kind \in {"word", "joined"}

VARIABLES
    pc,      \* before init_yggdrasil, in execute_ast, in collect_linear_chain_nodes,
             \* or done with a line that was run or refused
    tokens,  \* the line
    tree,    \* the nodes: each is made from a token of its own
    root,    \* shell->ast_root
    todo,    \* the parts of the tree that are still to be run, in their order
    chain,   \* t_redir_collection_state and the node the collector is at
    status,  \* get_current_exit_status()
    jobs     \* history: what each stage runs

vars == <<pc, tokens, tree, root, todo, chain, status, jobs>>

Places == 1..Len(tokens)
Eof == Len(tokens) + 1          \* a NULL token
MinOf(S) == CHOOSE j \in S : \A k \in S : j <= k

\* A pointer to a node is a sequence of at most one node.
NULL == <<>>
Pointer == {NULL} \cup {<<n>> : n \in Places}
Node == [args : Seq(Places), file : Seq(Places), left : Pointer, right : Pointer]
NodeFields == {"args", "file", "left", "right"}
Blank == [args |-> <<>>, file |-> <<>>, left |-> NULL, right |-> NULL]

\* The chain that is collected: the node that is next, the redirections so far, the
\* command.
Chain == [at : Pointer, nodes : Seq(Places), cmd : Pointer]
ChainFrom(p) == [at |-> p, nodes |-> <<>>, cmd |-> NULL]

TypeOK ==
    /\ pc \in {"parse", "run", "chain", "done", "refused"}
    /\ tokens \in Lines
    /\ tree \in [Places -> Node] /\ root \in Pointer
    /\ todo \in Seq(Pointer) /\ chain \in Chain
    /\ status \in {0, 1, 2}
    /\ jobs \in Seq([redirs : Seq(Places), cmd : Seq(Places)])

Init ==
    /\ pc = "parse"
    /\ tokens \in Lines
    /\ tree = [n \in Places |-> Blank] /\ root = NULL
    /\ todo = <<>> /\ chain = ChainFrom(NULL)
    /\ status \in {0, 1} /\ jobs = <<>>

-----------------------------------------------------------------------------
(***************************************************************************)
(* Finding the children of a token.                                        *)
(***************************************************************************)
\* The unused tokens before t, back to f, where the token's part of the line starts.
FreeOfLine(t, f, used) == {j \in 1..(t - 1) : j \notin used}
FreeBefore(t, f, used) == {j \in f..(t - 1) : j \notin used}

\* The unused token of the highest rank between f and t, the first of its rank;
\* among commands and what looked like one, the first command.
FindLeftToken(t, f, used) ==
    LET free == FreeBefore(t, f, used)
        top  == {j \in free : \A k \in free : Rank(tokens[k]) <= Rank(tokens[j])}
        cmds == {j \in free : tokens[j] = "cmd"}
    IN  IF free = {} THEN Eof
        ELSE IF Rank(tokens[MinOf(top)]) = Rank("cmd") /\ cmds # {} THEN MinOf(cmds)
        ELSE MinOf(top)

\* The first token between t and e of the highest rank that is not above t's,
\* used or not.
FindRightToken(t, e) ==
    LET lower == {j \in (t + 1)..(e - 1) : Rank(tokens[j]) <= Rank(tokens[t])}
        top == {j \in lower : \A k \in lower : Rank(tokens[k]) <= Rank(tokens[j])}
    IN  IF lower = {} THEN Eof ELSE MinOf(top)

\* The last token of the highest rank, or the first command.
FindInitialRoot ==
    LET top == {j \in Places : \A k \in Places : Rank(tokens[k]) <= Rank(tokens[j])}
        cmds == {j \in Places : tokens[j] = "cmd"}
        last == CHOOSE j \in top : \A k \in top : k <= j
    IN  IF Rank(tokens[last]) = Rank("cmd") /\ cmds # {} THEN MinOf(cmds) ELSE last

\* The first unused token after a redirection, if it can be a name.
GatherFilename(t, e, used) ==
    LET free == {j \in (t + 1)..(e - 1) : j \notin used}
    IN  IF free # {} /\ (TypedWord(tokens[MinOf(free)]) \/ tokens[MinOf(free)] = "cmd")
        THEN <<MinOf(free)>> ELSE <<>>

\* The unused tokens from p to the end of the stage, without redirections and
\* their names; a name that is a command's stops the search.
GatherArguments(p, used) ==
    LET from[k \in 1..Eof] ==
            IF k = Eof \/ tokens[k] = "|" THEN <<>>
            ELSE IF tokens[k] \notin Redirs
                 THEN (IF k \in used THEN <<>> ELSE <<k>>) \o from[k + 1]
            ELSE IF k + 1 \in Places /\ TypedWord(tokens[k + 1]) THEN from[k + 2]
            ELSE <<>>
    IN  from[p]

-----------------------------------------------------------------------------
(***************************************************************************)
(* mke_yggdrasil.  A call is its arguments and the shell's state; what it  *)
(* returns is the node and the state.                                      *)
(***************************************************************************)
Calls == [t : 1..Eof, f : Places, e : 1..Eof,
          tree : [Places -> Node], used : SUBSET Places, status : 0..255]
Call(t, f, e, r) == [t |-> t, f |-> f, e |-> e,
                     tree |-> r.tree, used |-> r.used, status |-> r.status]
Return(p, r) == [node |-> p, tree |-> r.tree, used |-> r.used, status |-> r.status]

\* handle_parser_error.
WrongStatus(r) == Return(NULL, [r EXCEPT !.status = 127])
SyntaxError(r) == Return(NULL, [r EXCEPT !.status = 2])

\* The tokens a node takes.
Set(s) == {s[k] : k \in DOMAIN s}
TakesNoFile(t, args, file) == {t} \cup Set(args)
Takes(t, args, file) == {t} \cup Set(args) \cup Set(file)

\* has_left, has_right: the child's token is there and was not taken.
HasOperandAtAll(t, r) == t # Eof
HasOperand(t, r) == t # Eof /\ t \notin r.used

\* check_child_node_errors.
ChildFailed(parent, t, r) ==
    /\ r.node = NULL
    /\ \/ r.status # 0 /\ HasOperand(t, r)
       \/ tokens[parent] = "|" /\ t # Eof

\* A node with its children.
Linked(node, left, right) == [node EXCEPT !.left = left, !.right = right]

\* set_ygg_children: both tokens are chosen before either child is made.
SetChildren(mke, c, r) ==
    LET leftToken  == FindLeftToken(c.t, c.f, r.used)
        rightToken == FindRightToken(c.t, c.e)
        left  == mke[Call(leftToken, c.f, c.t, r)]
        right == mke[Call(rightToken, c.t, c.e, left)]
    IN  IF tokens[c.t] = "|" /\ Eof \in {leftToken, rightToken} THEN SyntaxError(r)
        ELSE IF ChildFailed(c.t, leftToken, left) THEN Return(NULL, left)
        ELSE IF ChildFailed(c.t, rightToken, right) THEN Return(NULL, right)
        ELSE [Return(<<c.t>>, right) EXCEPT !.tree[c.t] = Linked(@, left.node, right.node)]

\* new_yggnode, and what the node takes besides its token.
FileOf(c) == IF tokens[c.t] \in Redirs
             THEN GatherFilename(c.t, c.e, c.used \cup {c.t}) ELSE <<>>
ArgsOf(c) == IF tokens[c.t] = "cmd"
             THEN GatherArguments(c.t + 1, c.used \cup {c.t}) ELSE <<>>
NewNode(c) ==
    [Return(<<c.t>>, c) EXCEPT
        !.tree[c.t] = [args |-> ArgsOf(c), file |-> FileOf(c), left |-> NULL, right |-> NULL],
        !.used = c.used \cup Takes(c.t, ArgsOf(c), FileOf(c))]

\* The body of mke_yggdrasil, mke being the function it calls.
Mke(mke, c) ==
    IF c.t = Eof \/ c.t = c.e \/ c.t \in c.used THEN Return(NULL, c)
    ELSE IF tokens[c.t] \in Redirs /\ FileOf(c) = <<>> THEN SyntaxError(NewNode(c))
    ELSE SetChildren(mke, c, NewNode(c))
MkeYggdrasil[c \in Calls] == Mke(MkeYggdrasil, c)

Built(st) ==
    MkeYggdrasil[Call(FindInitialRoot, 1, Eof,
                      [tree |-> [n \in Places |-> Blank], used |-> {}, status |-> st])]

-----------------------------------------------------------------------------
(***************************************************************************)
(* What execute_ast makes of a tree.                                       *)
(***************************************************************************)
Kind(p)  == IF p = NULL THEN "none" ELSE tokens[p[1]]
Left(p)  == tree[p[1]].left
Right(p) == tree[p[1]].right
Inputs  == {"<", "<<"}
Outputs == {">", ">>"}

\* match_and_collect_complex_pattern: an output above an input.
IsComplex(p) ==
    /\ Kind(p) \in Outputs
    /\ Kind(Left(p)) \in Inputs
    /\ LET in == Left(p) IN
       \/ Kind(Left(in)) = "cmd"
       \/ Left(in) = NULL /\ (Right(in) = NULL \/ Kind(Right(in)) \in Inputs)
ComplexPattern(p) ==
    LET in == Left(p)
        deeper == IF Kind(Right(in)) \in Inputs THEN Right(in) ELSE NULL
    IN  [at |-> NULL, nodes |-> p \o deeper \o in, cmd |-> Left(in)]

\* advance_current_for_linear_chain.
Advance(p) == IF Left(p) # NULL THEN Left(p)
              ELSE IF Kind(Right(p)) \in Redirs \cup {"cmd"} THEN Right(p)
              ELSE NULL

\* What a stage runs: redirections in the order they are applied, by their
\* tokens, and the command with its arguments.
Forwards(s) == s
Backwards(s) == [k \in DOMAIN s |-> s[Len(s) + 1 - k]]
Words(p) == IF p = NULL THEN <<>> ELSE p \o tree[p[1]].args
Job(c) == [redirs |-> Backwards(c.nodes), cmd |-> Words(c.cmd)]
RunsNext(c) == jobs' = Append(jobs, Job(c)) /\ todo' = Tail(todo)

-----------------------------------------------------------------------------
InitYggdrasil ==
    /\ pc = "parse"
    /\ LET built == Built(status) IN
       /\ root' = built.node /\ tree' = built.tree
       /\ status' = built.status
    /\ IF root' = NULL THEN pc' = "refused" /\ UNCHANGED todo
                       ELSE pc' = "run" /\ todo' = <<root'>>
    /\ UNCHANGED <<tokens, chain, jobs>>

\* handle_pipe_execution: a process for each side, if both are there.
HandlePipeExecution ==
    /\ pc = "run" /\ todo # <<>> /\ Kind(Head(todo)) = "|"
    /\ LET sides == <<Left(Head(todo)), Right(Head(todo))>>
       IN  todo' = (IF NULL \in {sides[1], sides[2]} THEN <<>> ELSE sides) \o Tail(todo)
    /\ UNCHANGED <<pc, tokens, tree, root, chain, status, jobs>>

\* A command without redirections, or a part that is no command.
DispatchAstNode ==
    /\ pc = "run" /\ todo # <<>> /\ Kind(Head(todo)) \notin Redirs \cup {"|"}
    /\ RunsNext([ChainFrom(NULL) EXCEPT !.cmd = Head(todo)])
    /\ UNCHANGED <<pc, tokens, tree, root, chain, status>>

\* collect_redir_and_command_nodes.
CollectRedirAndCommandNodes ==
    /\ pc = "run" /\ todo # <<>> /\ Kind(Head(todo)) \in Redirs
    /\ IF IsComplex(Head(todo))
       THEN RunsNext(ComplexPattern(Head(todo))) /\ UNCHANGED <<pc, chain>>
       ELSE pc' = "chain" /\ chain' = ChainFrom(Head(todo)) /\ UNCHANGED <<todo, jobs>>
    /\ UNCHANGED <<tokens, tree, root, status>>

ProcessNodeInLinearChain ==
    /\ pc = "chain" /\ chain.at # NULL
    /\ chain' = IF Kind(chain.at) \in Redirs
                THEN [chain EXCEPT !.nodes = @ \o chain.at, !.at = Advance(chain.at)]
                ELSE IF Kind(chain.at) = "cmd"
                THEN [chain EXCEPT !.cmd = chain.at, !.at = NULL]
                ELSE [chain EXCEPT !.at = NULL]
    /\ UNCHANGED <<pc, tokens, tree, root, todo, status, jobs>>

ExecuteRedirChain ==
    /\ pc = "chain" /\ chain.at = NULL
    /\ RunsNext(chain)
    /\ pc' = "run" /\ chain' = ChainFrom(NULL)
    /\ UNCHANGED <<tokens, tree, root, status>>

\* The commands decide the status.
ExecuteAstEnds ==
    /\ pc = "run" /\ todo = <<>>
    /\ status' \in {0, 1}
    /\ root' = NULL
    /\ pc' = "done"
    /\ UNCHANGED <<tokens, tree, todo, chain, jobs>>

Next == \/ InitYggdrasil
        \/ HandlePipeExecution \/ DispatchAstNode
        \/ CollectRedirAndCommandNodes \/ ProcessNodeInLinearChain \/ ExecuteRedirChain
        \/ ExecuteAstEnds
Spec == Init /\ [][Next]_vars

-----------------------------------------------------------------------------
(***************************************************************************)
(* Properties.                                                             *)
(***************************************************************************)
PipesBefore(j) == Cardinality({k \in Places : k < j /\ tokens[k] = "|"})
InStage(s) == {j \in Places : tokens[j] # "|" /\ PipesBefore(j) = s - 1}

\* A line that runs has as many stages as it has parts between pipes, in their
\* order, and no stage gets a word or a redirection of another one, although
\* children are looked for by rank over ranges that span several pipes.
StagesKept ==
    /\ \A s \in DOMAIN jobs : Set(jobs[s].redirs) \cup Set(jobs[s].cmd) \subseteq InStage(s)
    /\ pc = "done" => Len(jobs) = PipesBefore(Eof) + 1

\* No token has two places in the tree, as the root, an argument, a file or a child:
\* what one node took is not found again by another.  So the tree is one.
NothingTwice ==
    \A m, n \in Places : \A x, y \in NodeFields :
        \A j \in DOMAIN tree[m][x], k \in DOMAIN tree[n][y] :
            /\ tree[m][x][j] = tree[n][y][k] => <<m, x, j>> = <<n, y, k>>
            /\ root # <<tree[m][x][j]>>

\* The builder consults the status while it runs, but the status the line
\* before left behind never makes it give up a child.
StaleStatusHarmless ==
    pc = "parse" => Built(0).node = Built(1).node /\ Built(0).tree = Built(1).tree

\* What a stage was meant to be.
Redirections(s) == {j \in InStage(s) : tokens[j] \in Redirs}
Names(s) == {j \in InStage(s) : j - 1 \in Redirections(s)}
PlainWords(s) == InStage(s) \ (Redirections(s) \cup Names(s))
Increasing(q) == \A j, k \in DOMAIN q : j < k => q[j] < q[k]
Plain(s) == /\ \A j \in Redirections(s) : j + 1 \in InStage(s) /\ tokens[j + 1] = "word"
            /\ PlainWords(s) # {} => tokens[MinOf(PlainWords(s))] = "cmd"

\* A stage whose file names are plain words and which has a command applies its
\* redirections in order and its command gets all its arguments, wherever between
\* them a redirection stands: one in any stage, and two in a line that is a single
\* stage, unless both stand before the command.  (find_initial_root takes the last
\* redirection of a line, but find_left_token and find_right_token the first of a
\* pipe's side, behind which the collector does not look for another one.)
Simple(s) ==
    /\ Plain(s) /\ PlainWords(s) # {}
    /\ \/ Cardinality(Redirections(s)) <= 1
       \/ /\ PipesBefore(Eof) = 0 /\ Cardinality(Redirections(s)) = 2
          /\ Cardinality({j \in Redirections(s) : j < MinOf(PlainWords(s))}) <= 1
SimpleStages == \A s \in DOMAIN jobs : Simple(s) =>
                    /\ Set(jobs[s].redirs) = Redirections(s) /\ Increasing(jobs[s].redirs)
                    /\ Set(jobs[s].cmd) = PlainWords(s) /\ Increasing(jobs[s].cmd)

\* "Applies all redirections for a simple command or redirection sequence" (the
\* comment of apply_redirection_nodes).
AppliesAll == \A s \in DOMAIN jobs : Plain(s) => Set(jobs[s].redirs) = Redirections(s)
=============================================================================
