----------------------------- MODULE MCPipeline -----------------------------
(***************************************************************************)
(* An instance of Pipeline for TLC: the tree built for  a | b | c, whose   *)
(* root is the last pipe and whose left child is the first one.            *)
(***************************************************************************)
EXTENDS Pipeline, TLC

CONSTANTS p1, p2, a, b, c

Left3  == p2 :> p1 @@ p1 :> a
Right3 == p2 :> c @@ p1 :> b

\* Stages that fork a command, and the others.
Usual == {"yes", "filter", "idle", "word"}
Other == Kinds \ Usual

\* Lines that must end: an endless writer needs a later stage that does not
\* read all of its input.
Ends(w) == /\ w[c] # "yes"
           /\ w[b] = "yes" => w[c] # "filter"
           /\ w[a] = "yes" => {w[b], w[c]} # {"filter"}

\* All stages usual, or one of another kind among filters.
Works3 == {w \in [{a, b, c} -> Kinds] :
              /\ Ends(w)
              /\ \/ \A l \in {a, b, c} : w[l] \in Usual
                 \/ \E l \in {a, b, c} : /\ w[l] \in Other
                                         /\ \A n \in {a, b, c} \ {l} : w[n] = "filter"}
=============================================================================
