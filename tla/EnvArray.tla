------------------------------ MODULE EnvArray ------------------------------
(***************************************************************************)
(* shell->env, the NULL-terminated array of "NAME=value" and "NAME"        *)
(* strings, and the builtins that change it: export, unset, cd, and the    *)
(* assignments at the start of a line.  Strings are names and values;      *)
(* directories come and go while the shell runs.                           *)
(***************************************************************************)
EXTENDS Naturals, Sequences

CONSTANTS
    Names,         \* valid identifiers
    Values,        \* what follows the "="
    Bare,          \* no "=" at all: a name exported without a value
    Unset,         \* what get_env_value returns NULL for
    Invalid,       \* an argument that is not a valid identifier
    PWD, OLDPWD, HOME,
    Dirs,          \* the values that name directories
    ArgLists,      \* the argument lists of export and unset
    StartEnvs      \* the environments the shell may inherit

ASSUME NameAssumption ==
    /\ PWD \in Names /\ OLDPWD \in Names /\ HOME \in Names /\ PWD # OLDPWD
    /\ Bare \notin Values /\ Unset \notin Values \cup {Bare}
    /\ Invalid \notin Names
    /\ Dirs \subseteq Values

Entry == Names \X (Values \cup {Bare})
Arg   == (Names \cup {Invalid}) \X (Values \cup {Bare})

ASSUME ArgAssumption == ArgLists \subseteq Seq(Arg)

\* No name twice: what the shell is given by the program that starts it.
Unique(s) == \A j, k \in 1..Len(s) : s[j][1] = s[k][1] => j = k

ASSUME StartAssumption ==
    /\ StartEnvs \subseteq Seq(Entry)
    /\ \A s \in StartEnvs : Unique(s)

VARIABLES
    env,     \* shell->env
    pc,      \* at the prompt, in an argument loop, or between chdir and getcwd
    op,      \* the builtin that runs or ran last
    args, i, \* its arguments, and the next one to process
    status,  \* its status
    cwd,     \* the working directory
    live,    \* the directories that exist
    gone,    \* the working directory has been removed
    tracked, \* history: PWD was last changed by a cd
    left     \* history: the directory that the last chdir left

vars == <<env, pc, op, args, i, status, cwd, live, gone, tracked, left>>

TypeOK ==
    /\ env \in Seq(Entry)
    /\ pc \in {"prompt", "args", "getcwd"}
    /\ op \in {"none", "export", "unset", "cd"}
    /\ args \in ArgLists \cup {<<>>}
    /\ i \in 1..(Len(args) + 1)
    /\ status \in {0, 1}
    /\ cwd \in Dirs /\ live \subseteq Dirs /\ gone \in BOOLEAN
    /\ tracked \in BOOLEAN /\ left \in Dirs

Init ==
    /\ env \in StartEnvs
    /\ pc = "prompt" /\ op = "none" /\ args = <<>> /\ i = 1 /\ status = 0
    /\ cwd \in Dirs /\ live = Dirs /\ gone = FALSE
    /\ tracked = FALSE /\ left = cwd

-----------------------------------------------------------------------------
(***************************************************************************)
(* The array.                                                              *)
(***************************************************************************)
Places(s, n) == {k \in 1..Len(s) : s[k][1] = n}

\* get_env_value: the value after "NAME=", or NULL.
GetEnvValue(s, n) == IF \E k \in Places(s, n) : s[k][2] # Bare
                     THEN s[CHOOSE k \in Places(s, n) : s[k][2] # Bare][2]
                     ELSE Unset

\* update_env: the first "NAME" or "NAME=" entry is replaced, or one is added.
AlwaysAdd(s, n, v) == Append(s, <<n, v>>)
UpdateEnv(s, n, v) ==
    IF Places(s, n) # {}
    THEN [k \in 1..Len(s) |-> IF k \in Places(s, n) THEN <<n, v>> ELSE s[k]]
    ELSE Append(s, <<n, v>>)

\* ensure_exported_no_value.
EnsureExportedNoValue(s, n) ==
    IF Places(s, n) # {} THEN s ELSE Append(s, <<n, Bare>>)

\* find_and_remove_var: only a "NAME=" entry is found; those after it shift.
Valued(s, n) == {k \in Places(s, n) : s[k][2] # Bare}
RemoveNext(s, n) ==
    IF Valued(s, n) = {} THEN s
    ELSE LET j == CHOOSE k \in Valued(s, n) : TRUE
         IN  [k \in 1..(Len(s) - 1) |-> IF k <= j THEN s[k] ELSE s[k + 1]]
FindAndRemoveVar(s, n) ==
    IF Valued(s, n) = {} THEN s
    ELSE LET j == CHOOSE k \in Valued(s, n) : TRUE
         IN  [k \in 1..(Len(s) - 1) |-> IF k < j THEN s[k] ELSE s[k + 1]]

-----------------------------------------------------------------------------
Place == <<cwd, live, gone, left>>
Touches(n) == tracked' = (tracked /\ (n = PWD => env' = env))

\* export a b c, unset a b c: the loop over the arguments starts.
Begin(builtin) ==
    /\ pc = "prompt"
    /\ pc' = "args" /\ op' = builtin /\ status' = 0 /\ i' = 1
    /\ args' \in ArgLists /\ args' # <<>>
    /\ UNCHANGED <<env, Place, tracked>>

SkipNextArg == /\ i' = i + 2
               /\ pc' = IF i + 1 >= Len(args) THEN "prompt" ELSE "args"
               /\ UNCHANGED <<op, args, Place>>
NextArg == /\ i' = i + 1
           /\ pc' = IF i = Len(args) THEN "prompt" ELSE "args"
           /\ UNCHANGED <<op, args, Place>>

\* is_valid_identifier: unset takes names only, so "NAME=value" is none.
IsValidIdentifier(arg) == arg[1] # Invalid /\ (op = "unset" => arg[2] = Bare)

\* An argument that is not an identifier is reported and the loop goes on.
StopAtInvalid ==
    /\ pc = "args" /\ ~IsValidIdentifier(args[i])
    /\ pc' = "prompt" /\ status' = 1
    /\ UNCHANGED <<env, op, args, i, Place, tracked>>
RejectArg ==
    /\ pc = "args" /\ ~IsValidIdentifier(args[i])
    /\ status' = 1
    /\ NextArg
    /\ UNCHANGED <<env, tracked>>

\* handle_single_export_arg.
ExportArg ==
    /\ pc = "args" /\ op = "export" /\ IsValidIdentifier(args[i])
    /\ LET n == args[i][1]
           v == args[i][2]
       IN  /\ env' = IF v = Bare THEN EnsureExportedNoValue(env, n)
                                 ELSE UpdateEnv(env, n, v)
           /\ Touches(n)
    /\ NextArg
    /\ UNCHANGED status

UnsetArg ==
    /\ pc = "args" /\ op = "unset" /\ IsValidIdentifier(args[i])
    /\ env' = FindAndRemoveVar(env, args[i][1])
    /\ Touches(args[i][1])
    /\ NextArg
    /\ UNCHANGED status

\* apply_variable_assignment: NAME=value at the start of a line.
ApplyVariableAssignment(n, v) ==
    /\ pc = "prompt"
    /\ env' = UpdateEnv(env, n, v)
    /\ Touches(n)
    /\ op' = "none" /\ status' = 0
    /\ UNCHANGED <<pc, args, i, Place>>

\* ft_cd up to chdir: getcwd, the target (HOME, OLDPWD or the argument), chdir;
\* then OLDPWD is set.
Target(t) == IF t \in {HOME, OLDPWD} THEN GetEnvValue(env, t) ELSE t
Cd(t) ==
    /\ pc = "prompt"
    /\ op' = "cd"
    /\ IF ~gone /\ Target(t) \in live
       THEN /\ cwd' = Target(t) /\ gone' = FALSE
            /\ env' = UpdateEnv(env, OLDPWD, cwd)
            /\ left' = cwd
            /\ pc' = "getcwd"
            /\ UNCHANGED status
       ELSE /\ status' = 1
            /\ UNCHANGED <<env, pc, cwd, gone, left>>
    /\ UNCHANGED <<args, i, live, tracked>>

\* getcwd(after): PWD follows, unless the directory has just been removed.
PreviousDir == GetEnvValue(env, OLDPWD)
NewDir == cwd
CdUpdatesPwd ==
    /\ pc = "getcwd"
    /\ pc' = "prompt"
    /\ IF ~gone
       THEN env' = UpdateEnv(env, PWD, NewDir) /\ status' = 0 /\ tracked' = TRUE
       ELSE status' = 1 /\ UNCHANGED <<env, tracked>>
    /\ UNCHANGED <<op, args, i, Place>>

\* Another process removes or creates a directory.
RemoveDir(d) ==
    /\ d \in live
    /\ live' = live \ {d} /\ gone' = (gone \/ d = cwd)
    /\ UNCHANGED <<env, pc, op, args, i, status, cwd, tracked, left>>

MakeDir(d) ==
    /\ d \notin live
    /\ live' = live \cup {d}
    /\ UNCHANGED <<env, pc, op, args, i, status, cwd, gone, tracked, left>>

Next == \/ \E builtin \in {"export", "unset"} : Begin(builtin)
        \/ RejectArg \/ ExportArg \/ UnsetArg
        \/ \E n \in Names, v \in Values : ApplyVariableAssignment(n, v)
        \/ \E t \in Values \cup {HOME, OLDPWD} : Cd(t)
        \/ CdUpdatesPwd
        \/ \E d \in Dirs : RemoveDir(d) \/ MakeDir(d)

Spec == Init /\ [][Next]_vars
-----------------------------------------------------------------------------
(***************************************************************************)
(* Properties.                                                             *)
(***************************************************************************)
\* The array never holds a name twice, though "NAME" and "NAME=" entries are
\* added and replaced by different functions: get_env_value, unset and the
\* commands that inherit the array all see the same, first entry.
UniqueNames == Unique(env)

\* What the rest of the shell relies on: the array behaves as a map, and every
\* step of a builtin changes one name only, wherever its entry is and whatever
\* shifting and reallocation do to the others.
MapOf(s) == [n \in Names |-> IF Places(s, n) = {} THEN Unset
                             ELSE s[CHOOSE k \in Places(s, n) : TRUE][2]]
Map == INSTANCE EnvMap WITH map <- MapOf(env)
RefinesMap == Map!Spec

\* From the first cd that sets it until something else changes it, PWD names the
\* working directory, however often the shell moves and whoever removes directories
\* between the system calls of cd.  There is one exception: a directory that is
\* removed between chdir and getcwd.  The shell has moved into it and PWD has not
\* followed; then cd fails, that one and every later one, and PWD names the
\* directory that the shell was in before.
PwdIsCwd ==
    pc = "prompt" /\ tracked =>
        \/ GetEnvValue(env, PWD) = cwd
        \/ /\ gone /\ GetEnvValue(env, PWD) = left
           /\ op = "cd" => status = 1

\* export applies every valid argument, also those after an invalid one, the
\* last value given to a name wins, and its status tells if any was invalid.
ExportAppliesAll ==
    pc = "prompt" /\ op = "export" =>
        /\ status = IF \E k \in DOMAIN args : args[k][1] = Invalid THEN 1 ELSE 0
        /\ \A k \in DOMAIN args :
              LET n == args[k][1]
                  given == {j \in DOMAIN args : args[j][1] = n /\ args[j][2] # Bare}
              IN  n = Invalid \/ IF k \in given /\ \A j \in given : j <= k
                                 THEN GetEnvValue(env, n) = args[k][2]
                                 ELSE Places(env, n) # {}

\* "Finds and removes one var" (the comment of find_and_remove_var): a name
\* given to unset is not in the environment afterwards.
UnsetRemoves ==
    pc = "prompt" /\ op = "unset" =>
        \A k \in DOMAIN args : args[k][1] # Invalid /\ args[k][2] = Bare
                                => Places(env, args[k][1]) = {}
=============================================================================
