----------------------------- MODULE MCEnvArray -----------------------------
(***************************************************************************)
(* An instance of EnvArray for TLC: three names, two directories as their  *)
(* values, and argument lists with repeated, valueless and invalid         *)
(* arguments.                                                              *)
(***************************************************************************)
EXTENDS EnvArray

CONSTANTS d1, d2

Home(v) == <<HOME, v>>
MCArgLists == {<<Home(d1)>>, <<Home(Bare)>>, <<Home(Bare), <<PWD, Bare>> >>,
               <<Home(d2), Home(d1), Home(Bare)>>, << <<PWD, d2>>, <<OLDPWD, Bare>> >>,
               << <<Invalid, d1>>, Home(d2)>>}
MCStartEnvs == {<<>>, <<Home(d1), <<PWD, d1>>, <<OLDPWD, d2>> >>,
                << <<OLDPWD, Bare>>, Home(d2)>>}
=============================================================================
