------------------------------ MODULE Expander ------------------------------
(***************************************************************************)
(* expand_variables: one pass over a string that copies it into a growing  *)
(* buffer and puts $NAME, ${NAME} and $? in place.  One action per turn of *)
(* expansion_loop, and one per character of a value (append_str_to_exp_vars).*)
(*                                                                         *)
(* Characters are one-letter strings.  The end of a C string is NUL, which *)
(* is no character; the buffer holds it only once append_char has put it   *)
(* there as the last one.                                                  *)
(***************************************************************************)
EXTENDS Naturals, Sequences

CONSTANTS
    Letters,   \* what may start a name
    DigitOf,   \* the ten digits, by their values
    Others,    \* every other character, but for $ ? { }
    StartCap,  \* the buffer's first capacity: 128 in exp_var_init
    MaxFail,   \* bound: how many allocations may fail
    Texts, Envs, Statuses

Digits == {DigitOf[n] : n \in 0..9}
NameChar == Letters \cup Digits
Char == NameChar \cup Others \cup {"$", "?", "{", "}"}
Text == Seq(Char)
NUL == "NUL"

ASSUME CharAssumption ==
    /\ DOMAIN DigitOf = 0..9
    /\ NUL \notin Char
    /\ ({"$", "?", "{", "}"} \cap NameChar) = {}

ASSUME SizeAssumption == StartCap \in Nat \ {0} /\ MaxFail \in Nat

\* An environment is a function from some names to their values.
ASSUME InputAssumption ==
    /\ Texts \subseteq Text
    /\ \A e \in Envs : \A n \in DOMAIN e : e[n] \in Text
    /\ Statuses \subseteq 0..255

VARIABLES
    env, status,   \* shell->env, get_current_exit_status()
    input, pos,    \* v->input and v->i, counted from 1
    pending,       \* what append_str_to_exp_vars has still to append
    result, cap,   \* v->result up to v->res_len, and v->res_cap
    run,           \* "idle" (not called), "on", "done", or "failed" (NULL was returned)
    fails          \* allocations that failed

shared   == <<env, status>>
expVars  == <<input, pos, pending, result, cap, run, fails>>

ExpTypeOK ==
    /\ \A n \in DOMAIN env : env[n] \in Text
    /\ status \in 0..255
    /\ input \in Text /\ pos \in 1..(Len(input) + 1)
    /\ pending \in Text
    /\ result \in Seq(Char \cup {NUL}) /\ cap \in Nat
    /\ run \in {"idle", "on", "done", "failed"} /\ fails \in 0..MaxFail

\* exp_var_init.
ExpVarInit(text) ==
    [input |-> text, pos |-> 1, pending |-> <<>>, result |-> <<>>, cap |-> StartCap,
     run |-> "on"]

ExpInit ==
    /\ env \in Envs /\ status \in Statuses /\ fails = 0
    /\ \E text \in Texts :
          LET v == ExpVarInit(text) IN
          /\ input = v.input /\ pos = v.pos /\ pending = v.pending
          /\ result = v.result /\ cap = v.cap /\ run = v.run

-----------------------------------------------------------------------------
(***************************************************************************)
(* append_char.                                                            *)
(***************************************************************************)
NeedsRoomTooLate == Len(result) >= cap
NeedsRoom == Len(result) + 1 >= cap

\* realloc_exp_buffer.
Grown == IF cap = 0 THEN 128 ELSE 2 * cap

AppendChar(c) ==
    /\ result' = Append(result, c)
    /\ cap' = IF NeedsRoom THEN Grown ELSE cap
    /\ UNCHANGED fails
NoMemory ==
    /\ NeedsRoom /\ fails < MaxFail
    /\ fails' = fails + 1
    /\ UNCHANGED <<result, cap>>

\* Its callers: a failure ends the expansion, unless it is met in a value.
AppendOrFail(c, where) ==
    /\ UNCHANGED <<shared, input, pending>>
    /\ \/ AppendChar(c) /\ pos' = where /\ UNCHANGED run
       \/ NoMemory /\ run' = "failed" /\ UNCHANGED pos

-----------------------------------------------------------------------------
(***************************************************************************)
(* Names and values.                                                       *)
(***************************************************************************)
CharAt(s, k) == IF k \in DOMAIN s THEN s[k] ELSE NUL

\* The place behind the name that starts at k (get_var_name_len).
NameEnd(s, k) ==
    CHOOSE e \in k..(Len(s) + 1) :
        /\ CharAt(s, e) \notin NameChar
        /\ \A j \in k..(e - 1) : s[j] \in NameChar

\* get_env_value_exp.
ValueOf(name, e) == IF name \in DOMAIN e THEN e[name] ELSE <<>>
NamedAt(s, k, e) == ValueOf(SubSeq(s, k, NameEnd(s, k) - 1), e)

\* ft_itoa of a status.
Itoa(n) ==
    CASE n < 10       -> <<DigitOf[n]>>
      [] n \in 10..99 -> <<DigitOf[n \div 10], DigitOf[n % 10]>>
      [] OTHER        -> <<DigitOf[n \div 100], DigitOf[(n \div 10) % 10], DigitOf[n % 10]>>

-----------------------------------------------------------------------------
(***************************************************************************)
(* expansion_loop.                                                         *)
(***************************************************************************)
Here == CharAt(input, pos)
Next1 == CharAt(input, pos + 1)
Next2 == CharAt(input, pos + 2)
Turn == run = "on" /\ pending = <<>>

\* A value is appended before the loop goes on from `where'.
Expand(value, where) ==
    /\ pending' = value /\ pos' = where
    /\ UNCHANGED <<shared, input, result, cap, run, fails>>

AppendNormalChar ==
    /\ Turn /\ Here \notin {"$", NUL}
    /\ AppendOrFail(Here, pos + 1)

\* handle_dollar_expansion: $? is the status of the line before.
HandleExitStatusStays ==
    /\ Turn /\ Here = "$" /\ Next1 = "?"
    /\ Expand(Itoa(status), pos + 1)
HandleExitStatus ==
    /\ Turn /\ Here = "$" /\ Next1 = "?"
    /\ Expand(Itoa(status), pos + 2)

HandleVariable ==
    /\ Turn /\ Here = "$" /\ Next1 \in Letters
    /\ Expand(NamedAt(input, pos + 1, env), NameEnd(input, pos + 1))

\* handle_dollar_brace_expansion: the closing brace may be missing.
HandleBraces ==
    /\ Turn /\ Here = "$" /\ Next1 = "{" /\ Next2 \in Letters
    /\ LET e == NameEnd(input, pos + 2) IN
       Expand(NamedAt(input, pos + 2, env), IF CharAt(input, e) = "}" THEN e + 1 ELSE e)

\* A $ before anything else stands for itself; what follows it (a brace that
\* opens no name, too) is the next character of the loop.
DollarAlone ==
    /\ Turn /\ Here = "$"
    /\ Next1 \notin Letters \cup {"?"}
    /\ Next1 = "{" => Next2 \notin Letters
    /\ AppendOrFail("$", pos + 1)

\* append_str_to_exp_vars; handle_variable and handle_exit_status do not look at
\* its result, and the loop goes on without the rest of the value.
AppendValue ==
    /\ run = "on" /\ pending # <<>>
    /\ \/ AppendChar(Head(pending)) /\ pending' = Tail(pending)
       \/ NoMemory /\ pending' = <<>>
    /\ UNCHANGED <<shared, input, pos, run>>

\* expand_variables appends the terminator as one more character.
Terminate ==
    /\ Turn /\ Here = NUL
    /\ \/ AppendChar(NUL) /\ run' = "done"
       \/ NoMemory /\ run' = "failed"
    /\ UNCHANGED <<shared, input, pos, pending>>

ExpNext == \/ AppendNormalChar \/ HandleExitStatus \/ HandleVariable \/ HandleBraces
           \/ DollarAlone \/ AppendValue \/ Terminate

ExpSpec == ExpInit /\ [][ExpNext]_<<shared, expVars>>

-----------------------------------------------------------------------------
(***************************************************************************)
(* Properties.                                                             *)
(***************************************************************************)
\* append_char writes the character and a terminator behind it: both are inside
\* the buffer, whatever its capacity was and however often it grew or failed to.
BufferFits == Len(result) < cap

\* What is at k: $?, a variable in braces or without, or a character by itself;
\* what it stands for, and the place behind it.
Braced(s, k)     == CharAt(s, k + 1) = "{"
NameAt(s, k)     == IF Braced(s, k) THEN k + 2 ELSE k + 1
IsStatus(s, k)   == s[k] = "$" /\ CharAt(s, k + 1) = "?"
IsVariable(s, k) == s[k] = "$" /\ CharAt(s, NameAt(s, k)) \in Letters
Piece(s, e, st, k) ==
    IF IsStatus(s, k) THEN Itoa(st)
    ELSE IF IsVariable(s, k) THEN NamedAt(s, NameAt(s, k), e) ELSE <<s[k]>>
Behind(s, k) ==
    LET behind == NameEnd(s, NameAt(s, k))
    IN  IF IsStatus(s, k) THEN k + 2
        ELSE IF ~IsVariable(s, k) THEN k + 1
        ELSE IF Braced(s, k) /\ CharAt(s, behind) = "}" THEN behind + 1 ELSE behind

\* What a text stands for, read from left to right.
Expansion(s, e, st) ==
    LET from[k \in 1..(Len(s) + 1)] ==
            IF k > Len(s) THEN <<>> ELSE Piece(s, e, st, k) \o from[Behind(s, k)]
    IN  from[1]

\* An expansion during which no allocation failed yields the string with every
\* reference replaced by its value, once (values are not expanded again), and with
\* a terminator.
ResultIsExpansion ==
    run = "done" /\ fails = 0 => result = Append(Expansion(input, env, status), NUL)
=============================================================================
