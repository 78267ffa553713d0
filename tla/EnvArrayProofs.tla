--------------------------- MODULE EnvArrayProofs ---------------------------
(***************************************************************************)
(* Theorems about EnvArray, for every set of names, values, directories    *)
(* and arguments.                                                          *)
(***************************************************************************)
EXTENDS EnvArray, SequenceTheorems, TLAPS

\* What holds in every state: the array is well formed and has no name twice,
\* and an argument loop that goes on has an argument to process.
ArgLeft == pc = "args" => i <= Len(args)
IInv == TypeOK /\ UniqueNames /\ ArgLeft

\* A value an entry may have.
EntryValues == Values \cup {Bare}

\* The map of t is the map of s with v for n: the form of EnvMap's steps.
Sets(s, t, n, v) == MapOf(t) = [MapOf(s) EXCEPT ![n] = v]

-----------------------------------------------------------------------------
(***************************************************************************)
(* The functions on the array: each returns an array without repeated      *)
(* names, and changes the map the array stands for at one name.            *)
(***************************************************************************)
\* A function on 1..n is a sequence of length n.
LEMMA FunctionIsSeq ==
    ASSUME NEW S, NEW n \in Nat, NEW f \in [1..n -> S]
    PROVE  f \in Seq(S) /\ Len(f) = n
<1>1. f \in Seq(S)
  BY SeqDef
<1>2. Len(f) \in Nat /\ DOMAIN f = 1..Len(f)
  BY <1>1, LenProperties
<1>3. 1..n = 1..Len(f)
  BY <1>2
<1> QED
  BY <1>1, <1>2, <1>3

\* An entry is a pair.
LEMMA EntryIsPair ==
    ASSUME NEW s \in Seq(Entry), NEW k \in 1..Len(s)
    PROVE  s[k][1] \in Names /\ s[k][2] \in EntryValues /\ s[k] = <<s[k][1], s[k][2]>>
<1>1. s[k] \in Entry
  BY ElementOfSeq
<1> QED
  BY <1>1 DEF Entry, EntryValues

\* MapOf reads any place of a name, there being at most one.
LEMMA MapOfPlace ==
    ASSUME NEW s \in Seq(Entry), Unique(s), NEW n \in Names, NEW k \in Places(s, n)
    PROVE  MapOf(s)[n] = s[k][2]
<1>1. (CHOOSE j \in Places(s, n) : TRUE) \in Places(s, n)
  OBVIOUS
<1>2. \A j \in Places(s, n) : j = k
  BY DEF Places, Unique
<1> QED
  BY <1>1, <1>2 DEF MapOf

\* It is enough to compare the maps name by name.
LEMMA MapOfExcept ==
    ASSUME NEW s, NEW t, NEW n \in Names, NEW v,
           \A m \in Names : MapOf(t)[m] = IF m = n THEN v ELSE MapOf(s)[m]
    PROVE  Sets(s, t, n, v)
<1> DEFINE a == MapOf(s)
           b == MapOf(t)
<1>1. /\ a = [m \in Names |-> a[m]]
      /\ b = [m \in Names |-> b[m]]
  BY DEF MapOf
<1>2. \A m \in Names : b[m] = IF m = n THEN v ELSE a[m]
  OBVIOUS
<1> HIDE DEF a, b
<1>3. b = [a EXCEPT ![n] = v]
  BY <1>1, <1>2
<1> QED
  BY <1>3 DEF a, b, Sets

\* A name without a place is unset.
LEMMA MapOfUnset ==
    ASSUME NEW s, NEW n \in Names, Places(s, n) = {}
    PROVE  MapOf(s)[n] = Unset
BY DEF MapOf

\* A name with a place is not unset.
LEMMA MapOfIsSet ==
    ASSUME NEW s \in Seq(Entry), Unique(s), NEW n \in Names, Places(s, n) # {}
    PROVE  MapOf(s)[n] \in EntryValues /\ MapOf(s)[n] # Unset
<1>1. PICK k \in Places(s, n) : TRUE
  OBVIOUS
<1>2. k \in 1..Len(s)
  BY DEF Places
<1> QED
  BY <1>2, MapOfPlace, EntryIsPair, NameAssumption DEF EntryValues

\* get_env_value is the map's value, except that a name exported without one
\* is unset to it.
LEMMA GetEnvValueReads ==
    ASSUME NEW s \in Seq(Entry), Unique(s), NEW n \in Names, MapOf(s)[n] \in Values
    PROVE  GetEnvValue(s, n) = MapOf(s)[n]
<1>1. Places(s, n) # {}
  BY MapOfUnset, NameAssumption
<1>2. \A k \in Places(s, n) : s[k][2] = MapOf(s)[n]
  BY MapOfPlace
<1>3. \A k \in Places(s, n) : s[k][2] # Bare
  BY <1>2, NameAssumption
<1> DEFINE j == CHOOSE k \in Places(s, n) : s[k][2] # Bare
<1>4. j \in Places(s, n)
  BY <1>1, <1>3
<1>5. GetEnvValue(s, n) = s[j][2]
  BY <1>1, <1>3 DEF GetEnvValue
<1> HIDE DEF j
<1> QED
  BY <1>2, <1>4, <1>5

\* What Sets says, name by name.
LEMMA SetsReads ==
    ASSUME NEW s \in Seq(Entry), NEW t \in Seq(Entry), NEW n \in Names, NEW v,
           Sets(s, t, n, v)
    PROVE  /\ MapOf(t)[n] = v
           /\ \A m \in Names : m # n => MapOf(t)[m] = MapOf(s)[m]
<1> DEFINE a == MapOf(s)
           b == MapOf(t)
<1>1. a = [q \in Names |-> a[q]]
  BY DEF MapOf
<1>2. b = [a EXCEPT ![n] = v]
  BY DEF Sets
<1> HIDE DEF a, b
<1>3. b[n] = v /\ \A m \in Names : m # n => b[m] = a[m]
  BY <1>1, <1>2
<1> QED
  BY <1>3 DEF a, b

\* MapOf is a function on the names, with the values of EnvMap.
LEMMA MapOfType ==
    ASSUME NEW s \in Seq(Entry), Unique(s)
    PROVE  MapOf(s) \in [Names -> Values \cup {Bare, Unset}]
<1>1. ASSUME NEW n \in Names
      PROVE  MapOf(s)[n] \in Values \cup {Bare, Unset}
  <2>1. CASE Places(s, n) = {}
    BY <2>1, MapOfUnset
  <2>2. ASSUME NEW k \in Places(s, n)
        PROVE  MapOf(s)[n] \in Values \cup {Bare, Unset}
    <3>1. k \in 1..Len(s)
      BY DEF Places
    <3> QED
      BY <3>1, MapOfPlace, EntryIsPair DEF EntryValues
  <2> QED
    BY <2>1, <2>2
<1> QED
  BY <1>1 DEF MapOf

\* An entry appended for a name that has none leaves the array well formed, and
\* sets that name only.
LEMMA AppendEntry ==
    ASSUME NEW s \in Seq(Entry), Unique(s), NEW n \in Names, Places(s, n) = {},
           NEW v \in EntryValues
    PROVE  /\ Append(s, <<n, v>>) \in Seq(Entry)
           /\ Unique(Append(s, <<n, v>>))
           /\ Sets(s, Append(s, <<n, v>>), n, v)
<1> DEFINE t == Append(s, <<n, v>>)
<1>1. /\ t \in Seq(Entry)
      /\ Len(s) \in Nat
      /\ Len(t) = Len(s) + 1
      /\ \A k \in 1..Len(s) : t[k] = s[k]
      /\ t[Len(s) + 1] = <<n, v>>
  BY AppendProperties, LenProperties DEF Entry, EntryValues
<1> HIDE DEF t
<1>2. Unique(t)
  <2>1. \A k \in 1..Len(s) : s[k][1] # n
    BY DEF Places
  <2> QED
    BY <1>1, <2>1 DEF Unique
<1>3. ASSUME NEW m \in Names
      PROVE  MapOf(t)[m] = IF m = n THEN v ELSE MapOf(s)[m]
  <2>1. CASE m = n
    <3>1. Len(s) + 1 \in Places(t, n)
      BY <1>1 DEF Places
    <3> QED
      BY <1>1, <1>2, <2>1, <3>1, MapOfPlace
  <2>2. CASE m # n /\ Places(s, m) = {}
    <3>1. Places(t, m) = {}
      BY <1>1, <2>2 DEF Places
    <3> QED
      BY <2>2, <3>1, MapOfUnset
  <2>3. ASSUME m # n, NEW k \in Places(s, m)
        PROVE  MapOf(t)[m] = IF m = n THEN v ELSE MapOf(s)[m]
    <3>1. k \in Places(t, m) /\ t[k] = s[k]
      BY <1>1 DEF Places
    <3> QED
      BY <1>1, <1>2, <2>3, <3>1, MapOfPlace
  <2> QED
    BY <2>1, <2>2, <2>3
<1>4. Sets(s, t, n, v)
  <2>1. \A m \in Names : MapOf(t)[m] = IF m = n THEN v ELSE MapOf(s)[m]
    BY <1>3
  <2> QED
    BY <2>1, MapOfExcept
<1> QED
  BY <1>1, <1>2, <1>4 DEF t

\* update_env keeps the array well formed and sets one name, whether its entry
\* has a value, has none, or is not there.
LEMMA UpdateEnvSets ==
    ASSUME NEW s \in Seq(Entry), Unique(s), NEW n \in Names, NEW v \in EntryValues
    PROVE  /\ UpdateEnv(s, n, v) \in Seq(Entry)
           /\ Unique(UpdateEnv(s, n, v))
           /\ Sets(s, UpdateEnv(s, n, v), n, v)
<1>1. CASE Places(s, n) = {}
  BY <1>1, AppendEntry DEF UpdateEnv
<1>2. CASE Places(s, n) # {}
  <2> DEFINE t == [k \in 1..Len(s) |-> IF k \in Places(s, n) THEN <<n, v>> ELSE s[k]]
  <2>1. UpdateEnv(s, n, v) = t
    BY <1>2 DEF UpdateEnv
  <2>2. Len(s) \in Nat /\ \A k \in 1..Len(s) : s[k] \in Entry
    BY LenProperties, ElementOfSeq
  <2>3. t \in [1..Len(s) -> Entry]
    BY <2>2 DEF Entry, EntryValues
  <2>4. t \in Seq(Entry) /\ Len(t) = Len(s)
    BY <2>2, <2>3, FunctionIsSeq
  <2>5. \A k \in 1..Len(s) : /\ t[k][1] = s[k][1]
                             /\ s[k][1] = n => t[k][2] = v
                             /\ s[k][1] # n => t[k] = s[k]
    BY DEF Places
  <2> HIDE DEF t
  <2>6. Unique(t)
    BY <2>4, <2>5 DEF Unique
  <2>7. \A m : Places(t, m) = Places(s, m)
    BY <2>4, <2>5 DEF Places
  <2>8. ASSUME NEW m \in Names
        PROVE  MapOf(t)[m] = IF m = n THEN v ELSE MapOf(s)[m]
    <3>1. CASE Places(s, m) = {}
      BY <1>2, <2>7, <3>1, MapOfUnset
    <3>2. ASSUME NEW k \in Places(s, m)
          PROVE  MapOf(t)[m] = IF m = n THEN v ELSE MapOf(s)[m]
      <4>1. MapOf(t)[m] = t[k][2] /\ MapOf(s)[m] = s[k][2]
        BY <2>4, <2>6, <2>7, MapOfPlace
      <4>2. k \in 1..Len(s) /\ s[k][1] = m
        BY DEF Places
      <4> QED
        BY <2>5, <4>1, <4>2
    <3> QED
      BY <3>1, <3>2
  <2>9. Sets(s, t, n, v)
    <3>1. \A m \in Names : MapOf(t)[m] = IF m = n THEN v ELSE MapOf(s)[m]
      BY <2>8
    <3> QED
      BY <3>1, MapOfExcept
  <2> QED
    BY <2>1, <2>4, <2>6, <2>9
<1> QED
  BY <1>1, <1>2

\* The same, name by name.
LEMMA UpdateReads ==
    ASSUME NEW s \in Seq(Entry), Unique(s), NEW n \in Names, NEW v \in EntryValues,
           NEW m \in Names
    PROVE  MapOf(UpdateEnv(s, n, v))[m] = IF m = n THEN v ELSE MapOf(s)[m]
<1>1. UpdateEnv(s, n, v) \in Seq(Entry) /\ Sets(s, UpdateEnv(s, n, v), n, v)
  BY UpdateEnvSets
<1> QED
  BY <1>1, SetsReads

\* ensure_exported_no_value adds a name that was unset and nothing else.
LEMMA EnsureExports ==
    ASSUME NEW s \in Seq(Entry), Unique(s), NEW n \in Names
    PROVE  /\ EnsureExportedNoValue(s, n) \in Seq(Entry)
           /\ Unique(EnsureExportedNoValue(s, n))
           /\ \/ EnsureExportedNoValue(s, n) = s /\ MapOf(s)[n] # Unset
              \/ /\ MapOf(s)[n] = Unset
                 /\ Sets(s, EnsureExportedNoValue(s, n), n, Bare)
<1>1. CASE Places(s, n) = {}
  BY <1>1, AppendEntry, MapOfUnset DEF EnsureExportedNoValue, EntryValues
<1>2. CASE Places(s, n) # {}
  BY <1>2, MapOfIsSet DEF EnsureExportedNoValue
<1> QED
  BY <1>1, <1>2

\* find_and_remove_var unsets a name that had a value and nothing else, though
\* it moves the entries behind it.
LEMMA RemoveUnsets ==
    ASSUME NEW s \in Seq(Entry), Unique(s), NEW n \in Names
    PROVE  /\ FindAndRemoveVar(s, n) \in Seq(Entry)
           /\ Unique(FindAndRemoveVar(s, n))
           /\ \/ FindAndRemoveVar(s, n) = s
              \/ /\ MapOf(s)[n] \in Values
                 /\ Sets(s, FindAndRemoveVar(s, n), n, Unset)
<1>1. CASE Valued(s, n) = {}
  BY <1>1 DEF FindAndRemoveVar
<1>2. CASE Valued(s, n) # {}
  <2> DEFINE j == CHOOSE k \in Valued(s, n) : TRUE
             t == [k \in 1..(Len(s) - 1) |-> IF k < j THEN s[k] ELSE s[k + 1]]
  <2>1. FindAndRemoveVar(s, n) = t
    BY <1>2 DEF FindAndRemoveVar
  <2>2. j \in Places(s, n) /\ s[j][2] # Bare
    BY <1>2 DEF Valued
  <2> HIDE DEF j
  <2>3. /\ Len(s) \in Nat
        /\ \A k \in 1..Len(s) : s[k] \in Entry
        /\ j \in 1..Len(s) /\ s[j][1] = n
    BY <2>2, LenProperties, ElementOfSeq DEF Places
  <2>4. t \in [1..(Len(s) - 1) -> Entry]
    BY <2>3
  <2>5. t \in Seq(Entry) /\ Len(t) = Len(s) - 1
    BY <2>3, <2>4, FunctionIsSeq
  <2>6. \A k \in 1..(Len(s) - 1) : t[k] = IF k < j THEN s[k] ELSE s[k + 1]
    OBVIOUS
  <2> HIDE DEF t
  <2>7. Unique(t)
    BY <2>3, <2>5, <2>6 DEF Unique
  <2>8. \A k \in 1..Len(s) : s[k][1] = n => k = j
    BY <2>3 DEF Unique
  <2>9. ASSUME NEW m \in Names
        PROVE  MapOf(t)[m] = IF m = n THEN Unset ELSE MapOf(s)[m]
    <3>1. CASE m = n
      <4>1. \A k \in 1..Len(t) : t[k][1] # n
        BY <2>3, <2>5, <2>6, <2>8
      <4>2. Places(t, m) = {}
        BY <3>1, <4>1 DEF Places
      <4> QED
        BY <3>1, <4>2, MapOfUnset
    <3>2. CASE m # n /\ Places(s, m) = {}
      <4>1. \A k \in 1..Len(s) : s[k][1] # m
        BY <3>2 DEF Places
      <4>2. \A k \in 1..Len(t) : t[k][1] # m
        BY <2>3, <2>5, <2>6, <4>1
      <4>3. Places(t, m) = {}
        BY <4>2 DEF Places
      <4> QED
        BY <3>2, <4>3, MapOfUnset
    <3>3. ASSUME m # n, NEW k \in Places(s, m)
          PROVE  MapOf(t)[m] = IF m = n THEN Unset ELSE MapOf(s)[m]
      <4> DEFINE q == IF k < j THEN k ELSE k - 1
      <4>1. k \in 1..Len(s) /\ s[k][1] = m /\ k # j
        BY <2>3, <3>3 DEF Places
      <4>2. q \in 1..Len(t) /\ t[q] = s[k]
        BY <2>3, <2>5, <2>6, <4>1
      <4> HIDE DEF q
      <4>3. q \in Places(t, m)
        BY <4>1, <4>2 DEF Places
      <4>4. MapOf(t)[m] = t[q][2] /\ MapOf(s)[m] = s[k][2]
        BY <2>5, <2>7, <4>3, MapOfPlace
      <4> QED
        BY <3>3, <4>2, <4>4
    <3> QED
      BY <3>1, <3>2, <3>3
  <2>10. Sets(s, t, n, Unset)
    BY <2>9, MapOfExcept
  <2>11. MapOf(s)[n] \in Values
    BY <2>2, <2>3, MapOfPlace, EntryIsPair DEF EntryValues
  <2> QED
    BY <2>1, <2>5, <2>7, <2>10, <2>11
<1> QED
  BY <1>1, <1>2

-----------------------------------------------------------------------------
(***************************************************************************)
(* What a step of the shell does to the array.                             *)
(***************************************************************************)
\* A step leaves a well-formed array, and is a step of EnvMap or changes
\* nothing of the array.
ArrayStep ==
    /\ env' \in Seq(Entry) /\ Unique(env')
    /\ env' = env \/ Map!Next

\* The current argument is an argument, and one that passed
\* is_valid_identifier names a name.
LEMMA CurrentArg ==
    ASSUME IInv, pc = "args"
    PROVE  /\ Len(args) \in Nat /\ i \in 1..Len(args)
           /\ IsValidIdentifier(args[i]) =>
                 args[i][1] \in Names /\ args[i][2] \in EntryValues
<1>1. args \in Seq(Arg)
  BY ArgAssumption, EmptySeq DEF IInv, TypeOK
<1>2. Len(args) \in Nat /\ i \in 1..Len(args)
  BY <1>1, LenProperties DEF IInv, TypeOK, ArgLeft
<1>3. args[i] \in Arg
  BY <1>1, <1>2, ElementOfSeq
<1> QED
  BY <1>2, <1>3 DEF Arg, EntryValues, IsValidIdentifier

\* A name gets a value through update_env.
LEMMA UpdateStep ==
    ASSUME IInv, NEW n \in Names, NEW v \in Values, env' = UpdateEnv(env, n, v)
    PROVE  ArrayStep
<1>1. /\ env' \in Seq(Entry) /\ Unique(env')
      /\ Sets(env, env', n, v)
  BY UpdateEnvSets DEF IInv, TypeOK, UniqueNames, EntryValues
<1>2. Map!Set(n, v)
  BY <1>1 DEF Map!Set, Sets
<1> QED
  BY <1>1, <1>2 DEF ArrayStep, Map!Next

\* The argument loops: the array after one argument, and the loop's variables.
LEMMA ArgStep ==
    ASSUME IInv, RejectArg \/ ExportArg \/ UnsetArg
    PROVE  ArrayStep /\ IInv'
<1> USE DEF IInv, UniqueNames
<1>1. pc = "args"
  BY DEF RejectArg, ExportArg, UnsetArg
<1>2. Len(args) \in Nat /\ i \in 1..Len(args)
  BY <1>1, CurrentArg
<1>3. ArrayStep
  <2>1. CASE RejectArg
    BY <2>1 DEF RejectArg, ArrayStep, TypeOK
  <2>2. CASE ExportArg
    <3> DEFINE n == args[i][1]
               v == args[i][2]
    <3>1. n \in Names /\ v \in EntryValues
      BY <1>1, <2>2, CurrentArg DEF ExportArg
    <3>2. CASE v = Bare
      <4>1. env' = EnsureExportedNoValue(env, n)
        BY <2>2, <3>2 DEF ExportArg
      <4>2. /\ env' \in Seq(Entry) /\ Unique(env')
            /\ env' = env \/ (MapOf(env)[n] = Unset /\ Sets(env, env', n, Bare))
        BY <3>1, <4>1, EnsureExports DEF TypeOK
      <4>3. ASSUME MapOf(env)[n] = Unset, Sets(env, env', n, Bare)
            PROVE  Map!Export(n)
        BY <4>3 DEF Map!Export, Sets
      <4> QED
        BY <3>1, <4>2, <4>3 DEF ArrayStep, Map!Next
    <3>3. CASE v # Bare
      <4>1. env' = UpdateEnv(env, n, v) /\ v \in Values
        BY <2>2, <3>1, <3>3 DEF ExportArg, EntryValues
      <4> QED
        BY <3>1, <4>1, UpdateStep
    <3> QED
      BY <3>2, <3>3
  <2>3. CASE UnsetArg
    <3> DEFINE n == args[i][1]
    <3>1. n \in Names
      BY <1>1, <2>3, CurrentArg DEF UnsetArg
    <3>2. env' = FindAndRemoveVar(env, n)
      BY <2>3 DEF UnsetArg
    <3>3. /\ env' \in Seq(Entry) /\ Unique(env')
          /\ env' = env \/ (MapOf(env)[n] \in Values /\ Sets(env, env', n, Unset))
      BY <3>1, <3>2, RemoveUnsets DEF TypeOK
    <3>4. ASSUME MapOf(env)[n] \in Values, Sets(env, env', n, Unset)
          PROVE  Map!Remove(n)
      BY <3>4 DEF Map!Remove, Sets
    <3> QED
      BY <3>1, <3>3, <3>4 DEF ArrayStep, Map!Next
  <2> QED
    BY <2>1, <2>2, <2>3
<1>4. /\ i' = i + 1
      /\ pc' = IF i = Len(args) THEN "prompt" ELSE "args"
      /\ UNCHANGED <<op, args, cwd, live, gone, left>>
  BY DEF RejectArg, ExportArg, UnsetArg, NextArg, Place
<1>5. status' \in {0, 1} /\ tracked' \in BOOLEAN
  BY DEF RejectArg, ExportArg, UnsetArg, Touches, TypeOK
<1>6. TypeOK'
  BY <1>2, <1>3, <1>4, <1>5 DEF TypeOK, ArrayStep
<1>7. ArgLeft'
  BY <1>2, <1>4 DEF ArgLeft
<1> QED
  BY <1>3, <1>6, <1>7 DEF ArrayStep

\* cd, in its two steps.
LEMMA CdStep ==
    ASSUME IInv, (\E t \in Values \cup {HOME, OLDPWD} : Cd(t)) \/ CdUpdatesPwd
    PROVE  ArrayStep /\ IInv'
<1> USE DEF IInv, UniqueNames
<1>1. ASSUME NEW t \in Values \cup {HOME, OLDPWD}, Cd(t)
      PROVE  ArrayStep /\ IInv'
  <2>1. CASE env' = env
    <3>1. TypeOK'
      BY <1>1, <2>1 DEF Cd, TypeOK
    <3> QED
      BY <1>1, <2>1, <3>1 DEF ArrayStep, TypeOK, ArgLeft, Cd
  <2>2. CASE env' = UpdateEnv(env, OLDPWD, cwd)
    <3>1. ArrayStep
      BY <2>2, UpdateStep, NameAssumption DEF TypeOK
    <3>2. TypeOK'
      BY <1>1, <3>1 DEF Cd, TypeOK, ArrayStep
    <3> QED
      BY <1>1, <3>1, <3>2 DEF ArrayStep, ArgLeft, Cd
  <2> QED
    BY <1>1, <2>1, <2>2 DEF Cd
<1>2. CASE CdUpdatesPwd
  <2>1. CASE env' = env
    <3>1. TypeOK'
      BY <1>2, <2>1 DEF CdUpdatesPwd, TypeOK, Place
    <3> QED
      BY <1>2, <2>1, <3>1 DEF ArrayStep, TypeOK, ArgLeft, CdUpdatesPwd
  <2>2. CASE env' = UpdateEnv(env, PWD, cwd)
    <3>1. ArrayStep
      BY <2>2, UpdateStep, NameAssumption DEF TypeOK
    <3>2. TypeOK'
      BY <1>2, <3>1 DEF CdUpdatesPwd, TypeOK, ArrayStep, Place
    <3> QED
      BY <1>2, <3>1, <3>2 DEF ArrayStep, ArgLeft, CdUpdatesPwd
  <2> QED
    BY <1>2, <2>1, <2>2 DEF CdUpdatesPwd, NewDir
<1> QED
  BY <1>1, <1>2

\* Every step keeps the invariant and is, for the map, a step or a stutter.
LEMMA StepPreserves ==
    ASSUME IInv, [Next]_vars
    PROVE  ArrayStep /\ IInv'
<1> USE DEF IInv, UniqueNames
<1>1. CASE UNCHANGED vars
  BY <1>1 DEF vars, ArrayStep, TypeOK, ArgLeft
<1>2. ASSUME NEW builtin \in {"export", "unset"}, Begin(builtin)
      PROVE  ArrayStep /\ IInv'
  <2>1. /\ env' = env /\ args' \in ArgLists /\ args' # <<>>
        /\ args' \in Seq(Arg) /\ i' = 1
    BY <1>2, ArgAssumption DEF Begin
  <2>2. Len(args') \in Nat /\ Len(args') # 0
    BY <2>1, EmptySeq, LenProperties
  <2>3. TypeOK'
    BY <1>2, <2>1, <2>2 DEF Begin, TypeOK, Place
  <2> QED
    BY <2>1, <2>2, <2>3 DEF ArrayStep, TypeOK, ArgLeft
<1>3. CASE RejectArg \/ ExportArg \/ UnsetArg
  BY <1>3, ArgStep
<1>4. ASSUME NEW n \in Names, NEW v \in Values, ApplyVariableAssignment(n, v)
      PROVE  ArrayStep /\ IInv'
  <2>1. ArrayStep
    BY <1>4, UpdateStep DEF ApplyVariableAssignment
  <2>2. TypeOK'
    BY <1>4, <2>1 DEF ApplyVariableAssignment, TypeOK, ArrayStep, Touches, Place
  <2> QED
    BY <1>4, <2>1, <2>2 DEF ApplyVariableAssignment, ArrayStep, ArgLeft
<1>5. CASE (\E t \in Values \cup {HOME, OLDPWD} : Cd(t)) \/ CdUpdatesPwd
  BY <1>5, CdStep
<1>6. ASSUME NEW d \in Dirs, RemoveDir(d) \/ MakeDir(d)
      PROVE  ArrayStep /\ IInv'
  BY <1>6 DEF RemoveDir, MakeDir, ArrayStep, TypeOK, ArgLeft
<1> QED
  BY <1>1, <1>2, <1>3, <1>4, <1>5, <1>6 DEF Next

\* The invariant holds in every state of the shell.
THEOREM Invariance == Spec => []IInv
<1>1. Init => IInv
  <2> SUFFICES ASSUME Init PROVE IInv
    OBVIOUS
  <2>1. env \in Seq(Entry) /\ Unique(env)
    BY StartAssumption DEF Init
  <2>2. Len(args) = 0 /\ i = 1
    BY EmptySeq DEF Init
  <2>3. i \in 1..(Len(args) + 1)
    BY <2>2
  <2>4. TypeOK
    BY <2>1, <2>3 DEF Init, TypeOK
  <2> QED
    BY <2>1, <2>4 DEF Init, IInv, UniqueNames, ArgLeft
<1>2. IInv /\ [Next]_vars => IInv'
  BY StepPreserves
<1> QED
  BY <1>1, <1>2, PTL DEF Spec

\* TypeOK holds whatever the shell inherits and is asked to do.
THEOREM TypeCorrect == Spec => []TypeOK
BY Invariance, PTL DEF IInv

\* update_env, ensure_exported_no_value and find_and_remove_var, in any order
\* and on any array, never leave a name twice.
THEOREM UniqueNamesAlways == Spec => []UniqueNames
BY Invariance, PTL DEF IInv

\* The builtins implement EnvMap: the array is a map to its users, and every
\* step of export, unset, cd or an assignment changes one name or none.
THEOREM ImplementsMap == Spec => RefinesMap
<1>1. Init => Map!Init
  BY MapOfType, StartAssumption DEF Init, Map!Init, Map!TypeOK
<1>2. IInv /\ [Next]_vars => [Map!Next]_(MapOf(env))
  BY StepPreserves DEF ArrayStep
<1> QED
  BY <1>1, <1>2, Invariance, PTL DEF Spec, RefinesMap, Map!Spec

-----------------------------------------------------------------------------
(***************************************************************************)
(* PWD after a cd, and the arguments of export.                            *)
(***************************************************************************)
\* While nothing else has changed it, PWD is the working directory; between chdir
\* and getcwd it is the directory the shell has left, and it remains that when the
\* working directory has gone in between, from where no cd leads out.
Stale == gone /\ MapOf(env)[PWD] = left /\ (op = "cd" => status = 1)
PwdTracks ==
    tracked => /\ pc = "getcwd" => MapOf(env)[PWD] = left
               /\ pc # "getcwd" => MapOf(env)[PWD] = cwd \/ Stale

\* The value of argument k is the last one among the first m that gives its
\* name a value.
Stands(k, m) ==
    /\ args[k][2] # Bare
    /\ \A j \in (k + 1)..m : args[j][1] = args[k][1] => args[j][2] = Bare

\* The arguments that export has processed are applied.
Applied(k) ==
    args[k][1] # Invalid =>
        /\ MapOf(env)[args[k][1]] # Unset
        /\ Stands(k, i - 1) => MapOf(env)[args[k][1]] = args[k][2]

\* The loop invariant of export; at the prompt its loop has come to the end.
ExportLoop ==
    op = "export" =>
        /\ pc # "getcwd"
        /\ pc = "prompt" => i = Len(args) + 1
        /\ status = IF \E k \in 1..(i - 1) : args[k][1] = Invalid THEN 1 ELSE 0
        /\ \A k \in 1..(i - 1) : Applied(k)

\* An argument of export: its name is exported, it has the argument's value if
\* that has one, and else keeps the value it has; other names keep theirs.
LEMMA ExportArgSets ==
    ASSUME IInv, ExportArg
    PROVE  /\ args[i][1] \in Names
           /\ MapOf(env')[args[i][1]] # Unset
           /\ args[i][2] # Bare => MapOf(env')[args[i][1]] = args[i][2]
           /\ \A m \in Names :
                 (m = args[i][1] => args[i][2] = Bare /\ MapOf(env)[m] # Unset)
                    => MapOf(env')[m] = MapOf(env)[m]
<1> DEFINE n == args[i][1]
           v == args[i][2]
<1>1. n \in Names /\ v \in EntryValues
  BY CurrentArg DEF ExportArg
<1>2. env \in Seq(Entry) /\ Unique(env)
  BY DEF IInv, TypeOK, UniqueNames
<1>3. CASE v = Bare
  <2>1. env' = EnsureExportedNoValue(env, n)
    BY <1>3 DEF ExportArg
  <2>2. CASE env' = env /\ MapOf(env)[n] # Unset
    BY <1>1, <1>3, <2>2
  <2>3. CASE MapOf(env)[n] = Unset /\ Sets(env, env', n, Bare)
    <3>1. env' \in Seq(Entry)
      BY <1>1, <1>2, <2>1, EnsureExports
    <3>2. MapOf(env')[n] = Bare /\ \A m \in Names : m # n => MapOf(env')[m] = MapOf(env)[m]
      BY <1>1, <1>2, <2>3, <3>1, SetsReads
    <3> QED
      BY <1>1, <1>3, <2>3, <3>2, NameAssumption
  <2> QED
    BY <1>1, <1>2, <2>1, <2>2, <2>3, EnsureExports
<1>4. CASE v # Bare
  <2>1. env' = UpdateEnv(env, n, v) /\ v \in Values
    BY <1>1, <1>4 DEF ExportArg, EntryValues
  <2>2. \A m \in Names : MapOf(env')[m] = IF m = n THEN v ELSE MapOf(env)[m]
    BY <1>1, <1>2, <2>1, UpdateReads
  <2> QED
    BY <1>1, <1>4, <2>1, <2>2, NameAssumption
<1> QED
  BY <1>3, <1>4

\* A step that sets or unsets another name leaves PWD alone.
LEMMA OthersKept ==
    ASSUME IInv, NEW n \in Names, NEW m \in Names, m # n,
           \/ \E v \in EntryValues : env' = UpdateEnv(env, n, v)
           \/ env' = FindAndRemoveVar(env, n)
    PROVE  MapOf(env')[m] = MapOf(env)[m]
<1>1. env \in Seq(Entry) /\ Unique(env)
  BY DEF IInv, TypeOK, UniqueNames
<1>2. ASSUME NEW v \in EntryValues, env' = UpdateEnv(env, n, v)
      PROVE  MapOf(env')[m] = MapOf(env)[m]
  BY <1>1, <1>2, UpdateReads
<1>3. CASE env' = FindAndRemoveVar(env, n)
  <2>1. env' \in Seq(Entry) /\ (env' = env \/ Sets(env, env', n, Unset))
    BY <1>1, <1>3, RemoveUnsets
  <2> QED
    BY <1>1, <2>1, SetsReads
<1> QED
  BY <1>2, <1>3

\* A step of an argument loop or an assignment changes PWD only when that clears the
\* history variable.
LEMMA PwdKept ==
    ASSUME IInv, PwdTracks, NEW n \in Names, Touches(n), n # PWD => MapOf(env')[PWD] = MapOf(env)[PWD],
           UNCHANGED Place, pc # "getcwd", pc' # "getcwd",
           op' = "cd" => op = "cd" /\ (status = 1 => status' = 1)
    PROVE  PwdTracks'
<1>1. tracked' => MapOf(env')[PWD] = MapOf(env)[PWD] /\ tracked
  BY DEF Touches
<1> QED
  BY <1>1 DEF PwdTracks, Stale, Place

\* Every step keeps what is said of PWD.
LEMMA PwdStep ==
    ASSUME IInv, PwdTracks, [Next]_vars
    PROVE  PwdTracks'
<1>1. CASE UNCHANGED vars
  BY <1>1 DEF vars, PwdTracks, Stale
<1>2. ASSUME NEW builtin \in {"export", "unset"}, Begin(builtin)
      PROVE  PwdTracks'
  BY <1>2 DEF Begin, Place, PwdTracks, Stale
<1>3. CASE RejectArg
  BY <1>3 DEF RejectArg, NextArg, Place, PwdTracks, Stale
<1>4. CASE ExportArg
  <2>1. /\ Touches(args[i][1]) /\ UNCHANGED Place /\ pc # "getcwd" /\ pc' # "getcwd"
        /\ op' = op /\ op = "export" /\ args[i][1] \in Names
    BY <1>4, CurrentArg DEF ExportArg, NextArg, Place
  <2>2. args[i][1] # PWD => MapOf(env')[PWD] = MapOf(env)[PWD]
    BY <1>4, ExportArgSets, NameAssumption
  <2> QED
    BY <2>1, <2>2, PwdKept
<1>5. CASE UnsetArg
  <2>1. /\ Touches(args[i][1]) /\ UNCHANGED Place /\ pc # "getcwd" /\ pc' # "getcwd"
        /\ op' = op /\ op = "unset" /\ args[i][1] \in Names
        /\ env' = FindAndRemoveVar(env, args[i][1])
    BY <1>5, CurrentArg DEF UnsetArg, NextArg, Place
  <2>2. args[i][1] # PWD => MapOf(env')[PWD] = MapOf(env)[PWD]
    BY <2>1, OthersKept, NameAssumption
  <2> QED
    BY <2>1, <2>2, PwdKept
<1>6. ASSUME NEW n \in Names, NEW v \in Values, ApplyVariableAssignment(n, v)
      PROVE  PwdTracks'
  <2>1. /\ Touches(n) /\ UNCHANGED Place /\ pc # "getcwd" /\ pc' # "getcwd"
        /\ op' = "none" /\ env' = UpdateEnv(env, n, v)
    BY <1>6 DEF ApplyVariableAssignment, Place
  <2>2. n # PWD => MapOf(env')[PWD] = MapOf(env)[PWD]
    BY <2>1, OthersKept, NameAssumption DEF EntryValues
  <2> QED
    BY <2>1, <2>2, PwdKept
<1>7. ASSUME NEW t \in Values \cup {HOME, OLDPWD}, Cd(t)
      PROVE  PwdTracks'
  <2>1. pc = "prompt" /\ op' = "cd" /\ tracked' = tracked
    BY <1>7 DEF Cd
  <2>2. CASE ~gone /\ Target(t) \in live
    <3>1. env' = UpdateEnv(env, OLDPWD, cwd) /\ left' = cwd /\ pc' = "getcwd"
      BY <1>7, <2>2 DEF Cd
    <3>2. MapOf(env')[PWD] = MapOf(env)[PWD]
      BY <3>1, OthersKept, NameAssumption DEF EntryValues, IInv, TypeOK
    <3> QED
      BY <2>1, <2>2, <3>1, <3>2 DEF PwdTracks, Stale
  <2>3. CASE ~(~gone /\ Target(t) \in live)
    <3>1. UNCHANGED <<env, pc, cwd, gone, left>> /\ status' = 1
      BY <1>7, <2>3 DEF Cd
    <3> QED
      BY <2>1, <3>1 DEF PwdTracks, Stale
  <2> QED
    BY <2>2, <2>3
<1>8. CASE CdUpdatesPwd
  <2>1. CASE gone
    BY <1>8, <2>1 DEF CdUpdatesPwd, Place, PwdTracks, Stale
  <2>2. CASE ~gone
    <3>1. env' = UpdateEnv(env, PWD, cwd) /\ cwd' = cwd /\ pc' = "prompt"
      BY <1>8, <2>2 DEF CdUpdatesPwd, Place, NewDir
    <3>2. MapOf(env')[PWD] = cwd
      BY <3>1, UpdateReads, NameAssumption DEF IInv, TypeOK, UniqueNames, EntryValues
    <3> QED
      BY <3>1, <3>2 DEF PwdTracks
  <2> QED
    BY <2>1, <2>2
<1>9. ASSUME NEW d \in Dirs, RemoveDir(d) \/ MakeDir(d)
      PROVE  PwdTracks'
  <2>1. UNCHANGED <<env, pc, op, status, cwd, tracked, left>>
    BY <1>9 DEF RemoveDir, MakeDir
  <2>2. gone' = (gone \/ d = cwd) \/ gone' = gone
    BY <1>9 DEF RemoveDir, MakeDir
  <2>3. gone => gone'
    BY <2>2
  <2> QED
    BY <2>1, <2>3 DEF PwdTracks, Stale
<1> QED
  BY <1>1, <1>2, <1>3, <1>4, <1>5, <1>6, <1>7, <1>8, <1>9 DEF Next

\* What an argument names, unless it is no identifier.
LEMMA ArgNames ==
    ASSUME IInv, NEW k \in 1..Len(args), args[k][1] # Invalid
    PROVE  args[k][1] \in Names
<1>1. args \in Seq(Arg)
  BY ArgAssumption, EmptySeq DEF IInv, TypeOK
<1>2. args[k] \in Arg
  BY <1>1, ElementOfSeq
<1> QED
  BY <1>2 DEF Arg

\* One argument of export keeps what the earlier ones did, unless it is what
\* the later one of the same name should undo.
LEMMA ExportLoopArg ==
    ASSUME IInv, ExportLoop, op = "export", RejectArg \/ ExportArg
    PROVE  ExportLoop'
<1>1. /\ pc = "args" /\ i' = i + 1 /\ args' = args /\ op' = op
      /\ pc' = IF i = Len(args) THEN "prompt" ELSE "args"
  BY DEF RejectArg, ExportArg, NextArg
<1>2. /\ Len(args) \in Nat /\ i \in 1..Len(args)
      /\ status = IF \E k \in 1..(i - 1) : args[k][1] = Invalid THEN 1 ELSE 0
      /\ \A k \in 1..(i - 1) : Applied(k)
  BY <1>1, CurrentArg DEF ExportLoop
<1>3. \A k \in 1..i : k = i \/ k \in 1..(i - 1)
  BY <1>2
<1>4. ASSUME NEW k \in 1..(i - 1), Stands(k, i)
      PROVE  Stands(k, i - 1)
  BY <1>2, <1>4 DEF Stands
<1>5. CASE RejectArg
  <2>1. env' = env /\ status' = 1 /\ args[i][1] = Invalid
    BY <1>5 DEF RejectArg, IsValidIdentifier
  <2>2. \A k \in 1..i : Applied(k)'
    BY <1>1, <1>2, <1>3, <1>4, <2>1 DEF Applied, Stands
  <2> QED
    BY <1>1, <1>2, <2>1, <2>2 DEF ExportLoop
<1>6. CASE ExportArg
  <2> DEFINE n == args[i][1]
  <2>1. /\ n \in Names /\ MapOf(env')[n] # Unset
        /\ args[i][2] # Bare => MapOf(env')[n] = args[i][2]
        /\ \A m \in Names : (m = n => args[i][2] = Bare /\ MapOf(env)[m] # Unset)
                              => MapOf(env')[m] = MapOf(env)[m]
    BY <1>6, ExportArgSets
  <2>2. status' = status /\ n # Invalid
    BY <1>6 DEF ExportArg, IsValidIdentifier
  <2>3. ASSUME NEW k, k = i
        PROVE  Applied(k)'
    BY <1>1, <1>2, <2>1, <2>3 DEF Applied, Stands
  <2>4. ASSUME NEW k \in 1..(i - 1), args[k][1] # Invalid
        PROVE  Applied(k)'
    <3>1. args[k][1] \in Names
      BY <1>2, <2>4, ArgNames
    <3>2. MapOf(env)[args[k][1]] # Unset
      BY <1>2, <2>4 DEF Applied
    <3>3. MapOf(env')[args[k][1]] # Unset
      BY <2>1, <3>1, <3>2
    <3>4. ASSUME Stands(k, i)
          PROVE  MapOf(env')[args[k][1]] = args[k][2]
      <4>1. args[k][1] = n => args[i][2] = Bare
        BY <1>2, <3>4 DEF Stands
      <4>2. MapOf(env)[args[k][1]] = args[k][2]
        BY <1>2, <1>4, <2>4, <3>4 DEF Applied
      <4> QED
        BY <2>1, <3>1, <3>2, <4>1, <4>2
    <3>5. i' - 1 = i
      BY <1>1, <1>2
    <3> QED
      BY <1>1, <3>3, <3>4, <3>5 DEF Applied, Stands
  <2>5. \A k \in 1..i : Applied(k)'
    BY <1>1, <1>3, <2>3, <2>4 DEF Applied
  <2> QED
    BY <1>1, <1>2, <1>3, <2>2, <2>5 DEF ExportLoop
<1> QED
  BY <1>5, <1>6

\* Every step keeps the loop invariant of export.
LEMMA ExportLoopStep ==
    ASSUME IInv, ExportLoop, [Next]_vars
    PROVE  ExportLoop'
<1>1. CASE UNCHANGED vars
  BY <1>1 DEF vars, ExportLoop, Applied, Stands
<1>2. ASSUME NEW builtin \in {"export", "unset"}, Begin(builtin)
      PROVE  ExportLoop'
  BY <1>2 DEF Begin, ExportLoop
<1>3. CASE RejectArg \/ ExportArg
  <2>1. CASE op = "export"
    BY <1>3, <2>1, ExportLoopArg
  <2>2. CASE op # "export"
    BY <1>3, <2>2 DEF RejectArg, ExportArg, NextArg, ExportLoop
  <2> QED
    BY <2>1, <2>2
<1>4. CASE UnsetArg
  BY <1>4 DEF UnsetArg, NextArg, ExportLoop
<1>5. ASSUME NEW n \in Names, NEW v \in Values, ApplyVariableAssignment(n, v)
      PROVE  ExportLoop'
  BY <1>5 DEF ApplyVariableAssignment, ExportLoop
<1>6. ASSUME NEW t \in Values \cup {HOME, OLDPWD}, Cd(t)
      PROVE  ExportLoop'
  BY <1>6 DEF Cd, ExportLoop
<1>7. CASE CdUpdatesPwd
  BY <1>7 DEF CdUpdatesPwd, ExportLoop, Place
<1>8. ASSUME NEW d \in Dirs, RemoveDir(d) \/ MakeDir(d)
      PROVE  ExportLoop'
  BY <1>8 DEF RemoveDir, MakeDir, ExportLoop, Applied, Stands
<1> QED
  BY <1>1, <1>2, <1>3, <1>4, <1>5, <1>6, <1>7, <1>8 DEF Next

\* Whichever names, directories and argument lists there are and whoever removes
\* directories, PWD follows cd, and stays behind only in the one cd whose directory is
\* removed before it can be named; that cd fails, and so does every later one.
THEOREM PwdIsCwdAlways == Spec => []PwdIsCwd
<1>1. Init => PwdTracks
  BY DEF Init, PwdTracks
<1>2. IInv /\ PwdTracks /\ [Next]_vars => PwdTracks'
  BY PwdStep
<1>3. IInv /\ PwdTracks => PwdIsCwd
  <2> SUFFICES ASSUME IInv, PwdTracks, pc = "prompt", tracked
               PROVE  \/ GetEnvValue(env, PWD) = cwd
                      \/ /\ gone /\ GetEnvValue(env, PWD) = left
                         /\ op = "cd" => status = 1
    BY DEF PwdIsCwd
  <2>1. MapOf(env)[PWD] = cwd \/ Stale
    BY DEF PwdTracks
  <2>2. MapOf(env)[PWD] \in Values
    BY <2>1, NameAssumption DEF Stale, IInv, TypeOK
  <2>3. GetEnvValue(env, PWD) = MapOf(env)[PWD]
    BY <2>2, GetEnvValueReads, NameAssumption DEF IInv, TypeOK, UniqueNames
  <2> QED
    BY <2>1, <2>3 DEF Stale
<1> QED
  BY <1>1, <1>2, <1>3, Invariance, PTL DEF Spec

\* export applies every valid argument, in lists of any length.
THEOREM ExportAppliesAllAlways == Spec => []ExportAppliesAll
<1>1. Init => ExportLoop
  BY DEF Init, ExportLoop
<1>2. IInv /\ ExportLoop /\ [Next]_vars => ExportLoop'
  BY ExportLoopStep
<1>3. IInv /\ ExportLoop => ExportAppliesAll
  <2> SUFFICES ASSUME IInv, ExportLoop, pc = "prompt", op = "export"
               PROVE  ExportAppliesAll
    BY DEF ExportAppliesAll
  <2>1. args \in Seq(Arg)
    BY ArgAssumption, EmptySeq DEF IInv, TypeOK
  <2>2. Len(args) \in Nat /\ DOMAIN args = 1..Len(args) /\ i - 1 = Len(args)
    BY <2>1, LenProperties DEF ExportLoop
  <2>3. /\ status = IF \E k \in DOMAIN args : args[k][1] = Invalid THEN 1 ELSE 0
        /\ \A k \in DOMAIN args : Applied(k)
    BY <2>2 DEF ExportLoop
  <2>4. ASSUME NEW k \in DOMAIN args, args[k][1] # Invalid
        PROVE  LET n == args[k][1]
                   given == {j \in DOMAIN args : args[j][1] = n /\ args[j][2] # Bare}
               IN  IF k \in given /\ \A j \in given : j <= k
                   THEN GetEnvValue(env, n) = args[k][2]
                   ELSE Places(env, n) # {}
    <3> DEFINE n == args[k][1]
               given == {j \in DOMAIN args : args[j][1] = n /\ args[j][2] # Bare}
    <3>1. args[k] \in Arg
      BY <2>1, <2>2, ElementOfSeq
    <3>2. n \in Names /\ args[k][2] \in EntryValues
      BY <2>4, <3>1 DEF Arg, EntryValues
    <3>3. MapOf(env)[n] # Unset
      BY <2>3, <2>4 DEF Applied
    <3>4. Places(env, n) # {}
      BY <3>2, <3>3, MapOfUnset
    <3>5. ASSUME k \in given, \A j \in given : j <= k
          PROVE  GetEnvValue(env, n) = args[k][2]
      <4>1. Stands(k, i - 1)
        BY <2>2, <3>5 DEF Stands
      <4>2. MapOf(env)[n] = args[k][2] /\ args[k][2] \in Values
        BY <2>3, <2>4, <3>2, <3>5, <4>1 DEF Applied, EntryValues
      <4> QED
        BY <3>2, <4>2, GetEnvValueReads DEF IInv, TypeOK, UniqueNames
    <3> QED
      BY <3>4, <3>5
  <2> QED
    BY <2>3, <2>4 DEF ExportAppliesAll
<1> QED
  BY <1>1, <1>2, <1>3, Invariance, PTL DEF Spec
=============================================================================
