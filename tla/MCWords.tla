------------------------------ MODULE MCWords ------------------------------
(***************************************************************************)
(* An instance of Words for TLC: every short line over the characters that *)
(* quotes, operators, references and assignments are made of, and some     *)
(* longer ones.                                                            *)
(***************************************************************************)
EXTENDS Words

CONSTANTS MaxQuotes, MaxOthers   \* lengths

UpTo(n, chars) == UNION {[1..k -> chars] : k \in 1..n}
Chosen == {
    <<"x", "=", "y", " ", "x", "=", "x", " ", "x">>,
    <<"x", "=", "\"", "$", "x", "\"", " ", "x">>,
    <<"x", " ", "x", "=", "x", " ", "$", "x">>,
    <<"$", "{", "x", "}", "/", "$", "{", "y", "x">>,
    <<"\"", "$", "x", "/", "\"", "x", ">", ">", "x">>,
    <<"x", ">", ">", ">", "'", "<", "<", "'", "|">>,
    <<"$", "\"", "$", "x", "\"", "$", "'", "x", "'">>}
MCLines == Chosen
           \cup UpTo(MaxQuotes, {"x", "$", "'", "\"", " "})
           \cup UpTo(MaxOthers, {"x", "|", ">", "'", "\"", " "})
           \cup UpTo(MaxOthers, {"x", "=", "$", " "})
           \cup UpTo(MaxOthers, {"x", "{", "}", "$", "?"})

X == <<"x">>
MCEnvs == {[n \in {X} |-> v] : v \in {<<"y", "$", "x">>, <<"|">>}}
MCOthers == {"'", "\"", " ", "|", "<", ">", "=", "/"}
MCDigitOf == [n \in 0..9 |-> <<"0", "1", "2", "3", "4", "5", "6", "7", "8", "9">>[n + 1]]
MCCommands == {X, <<"y">>}
MCBuiltins == {<<"x", "x">>}
=============================================================================
