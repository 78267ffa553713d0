---------------------------- MODULE MCYggdrasil ----------------------------
(***************************************************************************)
(* Every line of up to MaxAll tokens of all kinds, longer ones of the      *)
(* kinds that matter most, and the longest of the fewest kinds that make   *)
(* pipelines with redirections.  Assignments stand at the start of a line: *)
(* any other token that looks like one stays a word.                       *)
(***************************************************************************)
EXTENDS Yggdrasil

CONSTANTS MaxAll, MaxCore, MaxLong   \* lengths

CoreKinds == {"<", ">", "|", "cmd", "word"}
LongKinds == CoreKinds \ {"<"}
Assignments == {"assignment", "glued"}
UpTo(n, kinds) == UNION {[1..k -> kinds] : k \in 1..n}
ShortAndLong == UpTo(MaxAll, Kinds) \cup UpTo(MaxCore, CoreKinds) \cup UpTo(MaxLong, LongKinds)
MCLines == {l \in ShortAndLong :
                \A j \in DOMAIN l : l[j] \in Assignments => j = 1 \/ l[j - 1] \in Assignments}
=============================================================================
