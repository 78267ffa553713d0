------------------------------- MODULE Words -------------------------------
(***************************************************************************)
(* From the line typed to the tokens init_yggdrasil gets: input_handler    *)
(* splits the line, handles the quotes of each token, types the tokens,    *)
(* joins those that touch, applies the assignments at the start of the     *)
(* line, expands the others with Expander, and looks for the commands.     *)
(* One line is followed; loops that treat each token by itself are one     *)
(* action.                                                                 *)
(***************************************************************************)
EXTENDS Expander, FiniteSetsExt, SequencesExt

CONSTANTS
    Commands,   \* the words search_list finds
    Builtins,   \* the words is_builtin knows
    Lines       \* what may be typed

Quote == {"'", "\""}
Operator == {"|", "<", ">"}
\* QUOTE_SET: what ends a name inside double quotes.  (Other members of the set
\* are spaces and signs that no instance uses.)
QuoteSet == {"!", "$", "%", "&", " ", "-", "+", "'"}

ASSUME WordsAssumption ==
    /\ Lines \subseteq Text
    /\ Commands \cup Builtins \subseteq Text
    /\ (Quote \cup Operator \cup {" ", "="}) \cap (NameChar \cup {"$", "?", "{", "}"}) = {}

VARIABLES
    line,     \* what was typed
    start,    \* split_input's place in it
    tokens,   \* the list of tokens
    phase,    \* the function input_handler is in
    cur       \* the token that function's loop is at

wordVars == <<line, start, tokens, phase, cur>>
vars == <<shared, expVars, wordVars>>

\* The kinds Yggdrasil tells apart.
Redirs == {<<"<">>, <<">">>, <<"<", "<">>, <<">", ">">>}
Types == {"pipe", "redir", "cmd", "word", "assignment"}
Token == [value : Text, join : BOOLEAN, literal : BOOLEAN, err : BOOLEAN,
          type : Types, rank : {"C", "B", "A", "S"}]

\* What is handed to init_yggdrasil: the ranks go with the types as Yggdrasil has
\* them, and the assignments stand before everything else.
Kinds == {<<"pipe", "S">>, <<"redir", "A">>, <<"cmd", "B">>, <<"word", "C">>,
          <<"word", "B">>, <<"assignment", "C">>, <<"assignment", "B">>}
HandedOver ==
    \A k \in DOMAIN tokens :
        /\ <<tokens[k].type, tokens[k].rank>> \in Kinds
        /\ tokens[k].type = "assignment" =>
               \A j \in 1..k : tokens[j].type = "assignment"

TypeOK ==
    /\ ExpTypeOK
    /\ line \in Lines /\ start \in 1..(Len(line) + 1)
    /\ tokens \in Seq(Token)
    /\ phase \in {"split", "quotes", "types", "join", "assign", "expand", "expanding",
                  "ready", "rejected", "empty"}
    /\ cur \in 1..(Len(tokens) + 1)
    /\ phase = "ready" => HandedOver

Init ==
    /\ env \in Envs /\ status \in Statuses /\ fails = 0
    /\ line \in Lines /\ start = 1 /\ tokens = <<>> /\ phase = "split" /\ cur = 1
    /\ LET v == ExpVarInit(<<>>) IN
       /\ input = v.input /\ pos = v.pos /\ pending = v.pending
       /\ result = v.result /\ cap = v.cap /\ run = "idle"

-----------------------------------------------------------------------------
(***************************************************************************)
(* split_input.                                                            *)
(***************************************************************************)
\* The first place from k on with a character of S, or the one behind the end.
NextAt(s, k, S) == Min({j \in k..Len(s) : s[j] \in S} \cup {Len(s) + 1})

GetDollarSpecialQuotedLen(s) == Min({NextAt(s, 3, {s[2]}), Len(s)})

\* A quote that is not closed is a token of its own.
GetStandardQuotedLen(s) ==
    LET closing == NextAt(s, 2, {s[1]})
    IN  IF closing <= Len(s) THEN closing ELSE 1

GetUnquotedTokenLen(s) ==
    LET word == NextAt(s, 1, Quote \cup Operator \cup {" "}) - 1
    IN  IF word > 0 THEN word
        ELSE IF s[1] \in {"<", ">"} /\ CharAt(s, 2) = s[1] THEN 2 ELSE 1

GetTokenLen(s) ==
    CASE s[1] = "$" /\ CharAt(s, 2) \in Quote -> GetDollarSpecialQuotedLen(s)
      [] s[1] \in Quote -> GetStandardQuotedLen(s)
      [] OTHER -> GetUnquotedTokenLen(s)

\* initialize_remaining_token_fields: the token touches the next one, unless that
\* is an operator; a lone $ never does.
JoinsNoQuotes(value, behind) == value # <<"$">> /\ behind \notin Operator \cup Quote \cup {NUL, " "}
Joins(value, behind) == value # <<"$">> /\ behind \notin Operator \cup {NUL, " "}

CreateAndInitToken(from, n) ==
    LET value == SubSeq(line, from, from + n - 1)
    IN  [value |-> value, join |-> Joins(value, CharAt(line, from + n)),
         literal |-> FALSE, err |-> FALSE, type |-> "word", rank |-> "C"]

SkipSpaces == NextAt(line, start, Char \ {" "})

ProcessSingleTokenBlock ==
    /\ phase = "split" /\ SkipSpaces <= Len(line)
    /\ LET n == GetTokenLen(SubSeq(line, SkipSpaces, Len(line))) IN
       /\ tokens' = Append(tokens, CreateAndInitToken(SkipSpaces, n))
       /\ start' = SkipSpaces + n
    /\ UNCHANGED <<shared, expVars, line, phase, cur>>

\* A line without a token is forgotten.
SplitEnds ==
    /\ phase = "split" /\ SkipSpaces > Len(line)
    /\ phase' = IF tokens = <<>> THEN "empty" ELSE "quotes"
    /\ UNCHANGED <<shared, expVars, line, start, tokens, cur>>

-----------------------------------------------------------------------------
(***************************************************************************)
(* Quotes.                                                                 *)
(***************************************************************************)
\* ft_strtrim.
Trim(s, S) ==
    LET kept == {j \in DOMAIN s : s[j] \notin S}
    IN  IF kept = {} THEN <<>> ELSE SubSeq(s, Min(kept), Max(kept))

\* The references of a double-quoted text: each $ and the place behind what
\* domane_expantion takes for a name.
ReferenceEnd(s, k) == NextAt(s, k + 1, QuoteSet)
DomaneExpantion(s, k, e) == ValueOf(SubSeq(s, k + 1, ReferenceEnd(s, k) - 1), e)

\* The length that is allocated, and the text that is copied there.
QuoteHandlerCounterFlat(s, e) == Len(s)
QuoteHandlerCounter(s, e) ==
    LET from[k \in 1..(Len(s) + 1)] ==
            IF k > Len(s) THEN 0
            ELSE IF s[k] # "$" THEN 1 + from[k + 1]
            ELSE Len(DomaneExpantion(s, k, e)) + from[ReferenceEnd(s, k)]
    IN  from[1]
CopyExpansions(s, e) ==
    LET from[k \in 1..(Len(s) + 1)] ==
            IF k > Len(s) THEN <<>>
            ELSE IF s[k] # "$" THEN <<s[k]>> \o from[k + 1]
            ELSE DomaneExpantion(s, k, e) \o from[ReferenceEnd(s, k)]
    IN  from[1]
QuoteHandlerCpy(s, e) ==
    IF Trim(s, {" "}) = <<"$">> THEN <<"$">> ELSE CopyExpansions(s, e)

\* handler_quote_operator: a quoted operator, and nothing else in the quotes.
\* The dictionary has no single-quoted operator that the quotes do not make
\* literal anyway.
QuotedOperator(v) ==
    /\ v[1] \in Quote /\ v[Len(v)] = v[1]
    /\ SubSeq(v, 2, Len(v) - 1) \in Redirs \cup {<<"|">>}

ClosedBy(v, n, q) == Len(v) > n /\ v[Len(v)] = q

\* handle_single_quotes, handle_double_quotes.
HandleSingleQuotes(t) == [t EXCEPT !.value = Trim(t.value, {"'"}), !.literal = TRUE]
HandleDoubleQuotes(t, e) ==
    LET text == Trim(t.value, {"\""})
    IN  IF QuotedOperator(t.value)
        THEN [t EXCEPT !.value = text, !.literal = TRUE]
        ELSE [t EXCEPT !.value = QuoteHandlerCpy(text, e)]

\* handle_dollar_single_quotes, handle_dollar_double_quotes: what is not closed
\* stays as it is.
HandleDollarQuotes(t, e) ==
    LET v == t.value
        text == IF ClosedBy(v, 2, v[2]) THEN SubSeq(v, 3, Len(v) - 1) ELSE v
    IN  IF v[2] = "'" THEN [t EXCEPT !.value = text, !.literal = TRUE]
        ELSE IF ClosedBy(v, 2, v[2]) THEN [t EXCEPT !.value = Expansion(text, e, status)]
        ELSE t

\* is_quote_opened, finalize_token_assignment.
UnclosedUnseen(t) == [t EXCEPT !.value = <<>>]
Unclosed(t) == [t EXCEPT !.value = <<>>, !.err = TRUE]

QuoteHandler(t, e) ==
    IF t.value[1] = "$" /\ CharAt(t.value, 2) \in Quote THEN HandleDollarQuotes(t, e)
    ELSE IF t.value[1] \notin Quote THEN t
    ELSE IF ~ClosedBy(t.value, 1, t.value[1]) THEN Unclosed(t)
    ELSE IF t.value[1] = "'" THEN HandleSingleQuotes(t) ELSE HandleDoubleQuotes(t, e)

QuoteHandlerCallLoop ==
    /\ phase = "quotes"
    /\ tokens' = [k \in DOMAIN tokens |-> QuoteHandler(tokens[k], env)]
    /\ phase' = "types"
    /\ UNCHANGED <<shared, expVars, line, start, cur>>

-----------------------------------------------------------------------------
(***************************************************************************)
(* Types, joining, assignments.                                            *)
(***************************************************************************)
\* typealize, new_pipe, new_redir, new_cmd, new_word.
As(t, type, rank) == [t EXCEPT !.type = type, !.rank = rank]
Typealize(t) ==
    IF t.value = <<"|">> THEN IF t.literal THEN t ELSE As(t, "pipe", "S")
    ELSE IF t.value \in Redirs THEN IF t.literal THEN t ELSE As(t, "redir", "A")
    ELSE IF t.value \in Commands THEN As(t, "cmd", "B") ELSE t

TypealizeCallLoop ==
    /\ phase = "types"
    /\ tokens' = [k \in DOMAIN tokens |-> Typealize(tokens[k])]
    /\ phase' = "join"
    /\ UNCHANGED <<shared, expVars, line, start, cur>>

IsOperator(t) == t.type \in {"pipe", "redir"}

\* perform_quote_con_part2: the joined token keeps the flags of its first part,
\* an error of the other one is lost with it.
PerformQuoteConcatenationStays ==
    /\ phase = "join" /\ cur <= Len(tokens)
    /\ IF tokens[cur].join /\ cur < Len(tokens)
       THEN /\ ~IsOperator(tokens[cur]) /\ ~IsOperator(tokens[cur + 1])
            /\ tokens' = RemoveAt([tokens EXCEPT
                    ![cur].value = @ \o tokens[cur + 1].value,
                    ![cur].join = tokens[cur + 1].join], cur + 1)
            /\ UNCHANGED cur
       ELSE cur' = cur + 1 /\ UNCHANGED tokens
    /\ UNCHANGED <<shared, expVars, line, start, phase>>
PerformQuoteConcatenation ==
    /\ phase = "join" /\ cur <= Len(tokens)
    /\ IF /\ tokens[cur].join /\ cur < Len(tokens)
          /\ ~IsOperator(tokens[cur]) /\ ~IsOperator(tokens[cur + 1])
       THEN /\ tokens' = RemoveAt([tokens EXCEPT
                    ![cur].value = @ \o tokens[cur + 1].value,
                    ![cur].join = tokens[cur + 1].join], cur + 1)
            /\ UNCHANGED cur
       ELSE cur' = cur + 1 /\ UNCHANGED tokens
    /\ UNCHANGED <<shared, expVars, line, start, phase>>

\* input_handler: a line with a faulty token has status 2 and is not run.
HasParserError == \E k \in DOMAIN tokens : tokens[k].err
JoinEnds ==
    /\ phase = "join" /\ cur > Len(tokens)
    /\ IF HasParserError THEN phase' = "rejected" /\ status' = 2
                         ELSE phase' = "assign" /\ UNCHANGED status
    /\ cur' = 1
    /\ UNCHANGED <<env, expVars, line, start, tokens>>

IsValidAssignment(s) ==
    LET name == SelectInSeq(s, LAMBDA c : c = "=") - 1
    IN  /\ name > 0 /\ s[1] \in Letters
        /\ \A k \in 1..name : s[k] \in NameChar
UpdateEnvOnce(s) ==
    LET at == SelectInSeq(s, LAMBDA c : c = "=")
        name == SubSeq(s, 1, at - 1)
    IN  [n \in DOMAIN env \cup {name} |->
            IF n \in DOMAIN env THEN env[n] ELSE SubSeq(s, at + 1, Len(s))]
UpdateEnv(s) ==
    LET at == SelectInSeq(s, LAMBDA c : c = "=")
        name == SubSeq(s, 1, at - 1)
    IN  [n \in DOMAIN env \cup {name} |->
            IF n = name THEN SubSeq(s, at + 1, Len(s)) ELSE env[n]]

\* apply_variable_assignment.
ApplyVariableAssignment ==
    /\ phase = "assign"
    /\ cur <= Len(tokens) /\ IsValidAssignment(tokens[cur].value)
    /\ env' = UpdateEnv(tokens[cur].value)
    /\ tokens' = [tokens EXCEPT ![cur].type = "assignment"]
    /\ cur' = cur + 1
    /\ UNCHANGED <<status, expVars, line, start, phase>>

AssignmentsEnd ==
    /\ phase = "assign"
    /\ ~(cur <= Len(tokens) /\ IsValidAssignment(tokens[cur].value))
    /\ phase' = "expand" /\ cur' = 1
    /\ UNCHANGED <<shared, expVars, line, start, tokens>>

-----------------------------------------------------------------------------
(***************************************************************************)
(* expand_token_list_no_assignments: Expander at work on one token.        *)
(***************************************************************************)
IsExpanded(t) == ~t.literal /\ t.type # "assignment"

SkipToken ==
    /\ phase = "expand" /\ cur <= Len(tokens) /\ ~IsExpanded(tokens[cur])
    /\ cur' = cur + 1
    /\ UNCHANGED <<shared, expVars, line, start, tokens, phase>>

ExpandToken ==
    /\ phase = "expand" /\ cur <= Len(tokens) /\ IsExpanded(tokens[cur])
    /\ LET v == ExpVarInit(tokens[cur].value) IN
       /\ input' = v.input /\ pos' = v.pos /\ pending' = v.pending
       /\ result' = v.result /\ cap' = v.cap /\ run' = v.run
    /\ phase' = "expanding"
    /\ UNCHANGED <<shared, fails, line, start, tokens, cur>>

ExpandVariables == phase = "expanding" /\ ExpNext /\ UNCHANGED wordVars

\* A failed expansion leaves the token as it was.
StoreExpansion ==
    /\ phase = "expanding" /\ run # "on"
    /\ tokens' = IF run = "done" THEN [tokens EXCEPT ![cur].value = Front(result)]
                                 ELSE tokens
    /\ phase' = "expand" /\ cur' = cur + 1
    /\ UNCHANGED <<shared, expVars, line, start>>

\* parser_cmd_no_found: what no longer is a command is a word, which keeps its
\* rank, and the other way round; ready for init_yggdrasil.
CommandOrWordUnranked(t) ==
    LET found == t.value \in Commands \cup Builtins
    IN  IF IsOperator(t) \/ t.type = "assignment" THEN t
        ELSE IF found THEN As(t, "cmd", t.rank) ELSE As(t, "word", t.rank)
CommandOrWord(t) ==
    LET found == t.value \in Commands \cup Builtins
    IN  IF IsOperator(t) \/ t.type = "assignment" THEN t
        ELSE IF found THEN As(t, "cmd", "B") ELSE As(t, "word", t.rank)

ParserCmdNoFound ==
    /\ phase = "expand" /\ cur > Len(tokens)
    /\ tokens' = [k \in DOMAIN tokens |-> CommandOrWord(tokens[k])]
    /\ phase' = "ready"
    /\ UNCHANGED <<shared, expVars, line, start, cur>>

Next == \/ ProcessSingleTokenBlock \/ SplitEnds
        \/ QuoteHandlerCallLoop \/ TypealizeCallLoop
        \/ PerformQuoteConcatenation \/ JoinEnds
        \/ ApplyVariableAssignment \/ AssignmentsEnd
        \/ SkipToken \/ ExpandToken \/ ExpandVariables \/ StoreExpansion
        \/ ParserCmdNoFound

\* One process, which nothing makes wait.
Spec == Init /\ [][Next]_vars /\ WF_vars(Next)

-----------------------------------------------------------------------------
(***************************************************************************)
(* Properties.  First the line as it was written: which quote each place   *)
(* is in, what separates words, and the words.                             *)
(***************************************************************************)
OpenQuote ==
    LET before[k \in 1..(Len(line) + 1)] ==
            IF k = 1 THEN NUL
            ELSE LET q == before[k - 1] c == line[k - 1]
                 IN  CASE q = NUL /\ c \in Quote -> c
                       [] q = c -> NUL
                       [] OTHER -> q
    IN  before

Places == DOMAIN line
IsSpace(k) == line[k] = " " /\ OpenQuote[k] = NUL
IsOp(k) == line[k] \in Operator /\ OpenQuote[k] = NUL
Marks == {k \in Places : line[k] \in Quote /\ OpenQuote[k] \in {NUL, line[k]}}
InWord(k) == k \in Places /\ ~IsSpace(k) /\ ~IsOp(k)

\* >> and << are one operator, of three such signs the third is another.
SecondOfTwo ==
    LET second[k \in 0..Len(line)] ==
            k > 1 /\ IsOp(k) /\ line[k] # "|" /\ line[k] = line[k - 1] /\ IsOp(k - 1)
            /\ ~second[k - 1]
    IN  second

Starts == {k \in Places : \/ InWord(k) /\ ~InWord(k - 1)
                          \/ IsOp(k) /\ ~SecondOfTwo[k]}
Ends(k) == IF InWord(k) THEN Max({j \in Places : \A i \in k..j : InWord(i)})
           ELSE IF k + 1 \in Places /\ SecondOfTwo[k + 1] THEN k + 1 ELSE k

AllClosed == OpenQuote[Len(line) + 1] = NUL

\* The characters at the places of S, from left to right.
Order(S, k) == Cardinality({i \in S : i <= k})
Spells(value, S) ==
    /\ Len(value) = Cardinality(S)
    /\ \A k \in S : value[Order(S, k)] = line[k]

\* The tokens are the words and operators of the line, from left to right.
AsWritten ==
    /\ Len(tokens) = Cardinality(Starts)
    /\ \A k \in Starts : LET t == tokens[Order(Starts, k)] IN
          /\ Spells(t.value, (k..Ends(k)) \ Marks)
          /\ IsOperator(t) <=> IsOp(k)

\* A line without references to expand becomes its words: split at the unquoted
\* spaces and operators and only there, without the quotes, the quoted parts
\* unchanged and joined to what they touch; and exactly its unquoted operators
\* act as such.
Dollars == {k \in Places : line[k] = "$"}
StartOf(k) == Max({s \in Starts : s <= k})
NothingToExpand == \A k \in Dollars : OpenQuote[k] = "'" /\ line[StartOf(k)] = "'"
WordsAsWritten ==
    phase = "ready" /\ AllClosed /\ NothingToExpand => AsWritten

\* "Expands variables in tokens, skipping literals and assignments" (the comment
\* of expand_token_list_no_assignments): single-quoted text is not expanded.
LiteralsSkipped ==
    phase = "ready" /\ AllClosed /\ (\A k \in Dollars : OpenQuote[k] = "'")
        => AsWritten

\* Only a line with an open quote is rejected; and it is, before anything of it
\* is assigned or run, when the quote starts a word.  (An open quote that touches
\* the text before it loses its error when the two are joined.)
OpenedAt == Max({k \in Marks : OpenQuote[k] = NUL})
OpenQuoteRejected ==
    /\ phase = "rejected" => ~AllClosed
    /\ ~AllClosed /\ ~InWord(OpenedAt - 1) =>
           phase \in {"split", "quotes", "types", "join", "rejected"}

\* The loop of perform_quote_concatenation stays at a token it has joined, those of
\* the expander move by what they find: each comes to its end on every line.
LineIsRead == <>(phase \in {"ready", "rejected", "empty"})

\* quote_handler_cpy copies into a buffer of the length that quote_handler_counter
\* counted in a pass of its own.
CopyFits ==
    phase = "quotes" =>
        \A k \in DOMAIN tokens : LET text == Trim(tokens[k].value, {"\""}) IN
            Len(CopyExpansions(text, env)) <= QuoteHandlerCounter(text, env)

\* What a line assigns at its start is what its own expansions find, the last of
\* two assignments of a name winning, and nothing else of the environment changes:
\* a word that an expansion makes look like an assignment assigns nothing.
\* References in double quotes are replaced before the assignments are made: of them
\* this says nothing.
Assigned == {k \in DOMAIN tokens : tokens[k].type = "assignment"}
NameOf(k) == SubSeq(tokens[k].value, 1, SelectInSeq(tokens[k].value, LAMBDA c : c = "=") - 1)
AssignmentsInForce ==
    phase \in {"expand", "expanding", "ready"} =>
        \E e \in Envs :
            /\ DOMAIN env = DOMAIN e \cup {NameOf(k) : k \in Assigned}
            /\ \A n \in DOMAIN env :
                   LET ks == {k \in Assigned : NameOf(k) = n}
                   IN  IF ks = {} THEN env[n] = e[n]
                       ELSE tokens[Max(ks)].value = n \o <<"=">> \o env[n]
            /\ phase = "expand" /\ cur = 1 =>
                   \A k \in DOMAIN tokens :
                      (\A j \in 1..k : IsValidAssignment(tokens[j].value)) <=> k \in Assigned
=============================================================================
