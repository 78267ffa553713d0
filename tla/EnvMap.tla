------------------------------- MODULE EnvMap -------------------------------
(***************************************************************************)
(* What the shell's environment is to its users: every name is unset,      *)
(* exported without a value, or exported with one, and a step changes at   *)
(* most one name.                                                          *)
(***************************************************************************)
CONSTANTS Names, Values, Bare, Unset

VARIABLE map

TypeOK == map \in [Names -> Values \cup {Bare, Unset}]

Init == TypeOK

\* NAME=value, export NAME=value, and cd for PWD and OLDPWD.
Set(n, v) == map' = [map EXCEPT ![n] = v]

\* export NAME: an exported name keeps what it has.
Export(n) == map[n] = Unset /\ map' = [map EXCEPT ![n] = Bare]

\* unset NAME: a value is forgotten.
Remove(n) == map[n] \in Values /\ map' = [map EXCEPT ![n] = Unset]

Next == \E n \in Names : Export(n) \/ Remove(n) \/ \E v \in Values : Set(n, v)

Spec == Init /\ [][Next]_map
=============================================================================
