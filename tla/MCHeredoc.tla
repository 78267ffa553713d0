----------------------------- MODULE MCHeredoc -----------------------------
(***************************************************************************)
(* Instances of Heredoc for TLC: one heredoc that is fed one or several    *)
(* pieces at a time, and one in each of two stages of a pipeline that read *)
(* the terminal; with every short input over the delimiter ab, its two     *)
(* halves, and b, which is a line of its own and the other delimiter.      *)
(***************************************************************************)
EXTENDS Heredoc

A == <<"a", "b">>
B == <<"b">>
Both  == {A, B}
OnlyA == {A}

Kinds == {[text |-> <<"a">>, ends |-> FALSE], [text |-> B, ends |-> TRUE],
          [text |-> A, ends |-> TRUE]}
UpTo(n)     == UNION {[1..k -> Kinds] : k \in 0..n}
One(n, max) == [docs : {{A}}, input : UpTo(max), chunk : {n}]
Two(max)    == [docs : {{A, B}}, input : UpTo(max), chunk : {1}]
Mixed == One(1, 3) \cup One(3, 4) \cup Two(3)
Typed == One(1, 3)
=============================================================================
