----------------------------- MODULE MCSession -----------------------------
(***************************************************************************)
(* An instance of Session for TLC: two directories in PATH, a command that *)
(* may be in either of them, and another file beside it; numbers of three  *)
(* digits after exit, beyond the range of an int of 16 values.             *)
(***************************************************************************)
EXTENDS Session

CONSTANTS d1, d2, here, c, o

MCPath == <<d1, d2>>
MCStartFiles == {f \in [{d1, d2, here} -> [{c, o} -> Kinds]] :
                    /\ f[here][c] = "program" /\ f[d2][c] \in {"absent", "program"}
                    /\ \A d \in {d1, d2, here} : f[d][o] = "absent"}
MCLines == {[kind |-> k] : k \in {"eof", "empty", "faulty", "exit_none", "exit_word", "exit_two"}}
           \cup [kind : {"command"}, name : {c}, direct : BOOLEAN]
           \cup [kind : {"exit"}, sign : {1, -1}, digits : {<<0, 7>>, <<3>>, <<2, 9>>, <<9, 8, 7>>}]
=============================================================================
