---------------------------- MODULE MCRedirChain ----------------------------
(***************************************************************************)
(* An instance of RedirChain for TLC: every chain of up to three of six    *)
(* redirections, which share a file, truncate and append it, read it,      *)
(* name a locked one, and include a heredoc.                               *)
(***************************************************************************)
EXTENDS RedirChain

CONSTANTS f, g, locked

Redirs == {<<"<", f>>, <<">", f>>, <<">>", f>>, <<">", g>>, <<">", locked>>,
           <<"<<", f>>}
Chains == UNION {[1..n -> Redirs] : n \in 0..3}
MCLines == [nodes : Chains, cmd : {TRUE}] \cup [nodes : [1..1 -> Redirs], cmd : {FALSE}]
=============================================================================
