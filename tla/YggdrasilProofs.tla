-------------------------- MODULE YggdrasilProofs --------------------------
(***************************************************************************)
(* Proofs about Yggdrasil, for lines of every length.                      *)
(*                                                                         *)
(* The function MkeYggdrasil exists because a call uses a token before it  *)
(* calls again; what holds of all calls is proved by induction over the    *)
(* tokens that are left.  So a call takes tokens that nothing took before  *)
(* and links each of them once (MkeIsTidy), a call within a stage takes    *)
(* tokens of that stage, and the sides of a pipe stand for consecutive     *)
(* stages (MkeIsGood).  The walk then takes the stages one after another,  *)
(* which is the inductive invariant IInv.                                  *)
(*                                                                         *)
(* A simple stage has one token that is chosen first (Chosen), and the     *)
(* call for it hangs the stage's other nodes below it as they are meant to *)
(* be (StageCall); the two sides of a pipe are whole stages that nothing   *)
(* used before (WholeSides), so that this holds of every stage of the tree *)
(* (BuiltIsStraight).  Then the collector finds each stage's redirections  *)
(* and its command again, which is the inductive invariant SimpleInv.      *)
(***************************************************************************)
EXTENDS Yggdrasil, SequenceTheorems, FiniteSetTheorems, WellFoundedInduction, TLAPS

-----------------------------------------------------------------------------
(***************************************************************************)
(* Places, and the tokens that are found there.                            *)
(***************************************************************************)
\* A line is a sequence of kinds, and not empty.
LEMMA LineFacts ==
    ASSUME tokens \in Lines
    PROVE  /\ Len(tokens) \in Nat \ {0} /\ Eof \in Nat /\ Eof \notin Places
           /\ \A j \in Places : tokens[j] \in Kinds
           /\ IsFiniteSet(Places) /\ Places \subseteq Nat
<1>1. tokens \in Seq(Kinds) /\ tokens # <<>>
  BY LinesAssumption
<1>2. Len(tokens) \in Nat \ {0} /\ \A j \in 1..Len(tokens) : tokens[j] \in Kinds
  BY <1>1
<1>3. IsFiniteSet(1..Len(tokens))
  BY <1>2, FS_Interval
<1> QED
  BY <1>2, <1>3 DEF Places, Eof

\* The least of a set of places.
LEMMA MinOfIs ==
    ASSUME NEW S, S \subseteq Nat, S # {}
    PROVE  MinOf(S) \in S /\ \A k \in S : MinOf(S) <= k
<1>1. PICK m \in S : \A k \in S : ~(<<k, m>> \in OpToRel(<, Nat))
  BY WFMin, NatLessThanWellFounded
<1>2. \A k \in S : ~(k < m)
  BY <1>1 DEF OpToRel
<1>3. \A k \in S : m <= k
  BY <1>2
<1> QED
  BY <1>3 DEF MinOf

\* The greatest place with a property.
LEMMA MaxExists ==
    ASSUME tokens \in Lines, NEW S, S \subseteq Places, S # {}
    PROVE  \E j \in S : \A k \in S : k <= j
<1> DEFINE T == {Len(tokens) - j : j \in S}
<1>1. Len(tokens) \in Nat /\ \A j \in S : j \in 1..Len(tokens)
  BY LineFacts DEF Places
<1>2. T \subseteq Nat /\ T # {}
  BY <1>1
<1>3. MinOf(T) \in T /\ \A k \in T : MinOf(T) <= k
  <2> HIDE DEF T
  <2> QED
    BY <1>2, MinOfIs
<1>4. PICK j \in S : MinOf(T) = Len(tokens) - j
  BY <1>3
<1>5. ASSUME NEW k \in S PROVE k <= j
  <2>1. Len(tokens) - k \in T
    OBVIOUS
  <2>2. Len(tokens) - j <= Len(tokens) - k
    BY <1>3, <1>4, <2>1
  <2> QED
    BY <1>1, <2>2
<1> QED
  BY <1>5

\* A pipe has a rank of its own, above all others.
LEMMA RankIs ==
    ASSUME NEW k \in Kinds
    PROVE  /\ Rank(k) \in 3..6
           /\ Rank(k) = 6 <=> k = "|"
           /\ Rank(k) = 5 <=> k \in Redirs
BY DEF Rank, Kinds, Redirs

\* The tokens that a set of places has of the highest rank.
LEMMA TopExists ==
    ASSUME tokens \in Lines, NEW S, S \subseteq Places, S # {}
    PROVE  \E j \in S : \A k \in S : Rank(tokens[k]) <= Rank(tokens[j])
<1> DEFINE T == {6 - Rank(tokens[j]) : j \in S}
<1>1. \A j \in S : Rank(tokens[j]) \in 3..6
  BY LineFacts, RankIs
<1>2. T \subseteq Nat /\ T # {}
  BY <1>1
<1>3. MinOf(T) \in T /\ \A k \in T : MinOf(T) <= k
  <2> HIDE DEF T
  <2> QED
    BY <1>2, MinOfIs
<1>4. PICK j \in S : MinOf(T) = 6 - Rank(tokens[j])
  BY <1>3
<1>5. ASSUME NEW k \in S PROVE Rank(tokens[k]) <= Rank(tokens[j])
  <2>1. 6 - Rank(tokens[k]) \in T
    OBVIOUS
  <2>2. 6 - Rank(tokens[j]) <= 6 - Rank(tokens[k])
    BY <1>3, <1>4, <2>1
  <2> QED
    BY <1>1, <2>2
<1> QED
  BY <1>5

\* The first token of the highest rank of a set.
FirstTop(S) == MinOf({j \in S : \A k \in S : Rank(tokens[k]) <= Rank(tokens[j])})

\* It is a pipe if there is one, the first.
LEMMA FirstTopIs ==
    ASSUME tokens \in Lines, NEW S, S \subseteq Places, S # {}
    PROVE  /\ FirstTop(S) \in S
           /\ \A k \in S : Rank(tokens[k]) <= Rank(tokens[FirstTop(S)])
           /\ \A k \in S : k < FirstTop(S) => Rank(tokens[k]) < Rank(tokens[FirstTop(S)])
<1> DEFINE T == {j \in S : \A k \in S : Rank(tokens[k]) <= Rank(tokens[j])}
<1>1. T \subseteq Nat /\ T # {} /\ S \subseteq Nat
  BY LineFacts, TopExists
<1>2. MinOf(T) \in T /\ \A k \in T : MinOf(T) <= k
  <2> HIDE DEF T
  <2> QED
    BY <1>1, MinOfIs
<1>3. FirstTop(S) = MinOf(T)
  BY DEF FirstTop
<1> DEFINE m == MinOf(T)
<1>4. m \in S /\ \A k \in S : Rank(tokens[k]) <= Rank(tokens[m])
  BY <1>2
<1>5. ASSUME NEW k \in S, k < m PROVE Rank(tokens[k]) < Rank(tokens[m])
  <2>1. k \notin T
    BY <1>1, <1>2, <1>5
  <2>2. PICK i \in S : ~(Rank(tokens[i]) <= Rank(tokens[k]))
    BY <2>1
  <2>3. \A j \in S : Rank(tokens[j]) \in 3..6
    BY LineFacts, RankIs
  <2> HIDE DEF m, T
  <2> QED
    BY <1>4, <2>2, <2>3
<1> QED
  BY <1>3, <1>4, <1>5

\* What a token is chosen for: pipes before redirections before others, and the
\* first pipe or redirection.
FirstOf(l, S) ==
    /\ l \in S
    /\ \A k \in S : /\ tokens[k] = "|" => tokens[l] = "|" /\ l <= k
                    /\ tokens[k] \in Redirs => tokens[l] = "|" \/ (tokens[l] \in Redirs /\ l <= k)

\* What get_highest_rank_node prefers: a pipe, then a redirection, the first of each.
LEMMA FirstTopIsFirst ==
    ASSUME tokens \in Lines, NEW S, S \subseteq Places, S # {}
    PROVE  /\ FirstOf(FirstTop(S), S)
           /\ \A k \in S : Rank(tokens[k]) <= Rank(tokens[FirstTop(S)])
           /\ \A k \in S : tokens[k] = "cmd" =>
                  \/ tokens[FirstTop(S)] \in Redirs \cup {"|"}
                  \/ FirstTop(S) <= k /\ Rank(tokens[FirstTop(S)]) = 4
<1> DEFINE m == FirstTop(S)
<1>1. /\ m \in S
      /\ \A k \in S : Rank(tokens[k]) <= Rank(tokens[m])
      /\ \A k \in S : k < m => Rank(tokens[k]) < Rank(tokens[m])
  BY FirstTopIs
<1>2. Rank("cmd") = 4
  BY DEF Rank, Redirs
<1> HIDE DEF m
<1>3. ASSUME NEW k \in S
      PROVE  /\ tokens[k] = "|" => tokens[m] = "|" /\ m <= k
             /\ tokens[k] \in Redirs => tokens[m] = "|" \/ (tokens[m] \in Redirs /\ m <= k)
             /\ tokens[k] = "cmd" => \/ tokens[m] \in Redirs \cup {"|"}
                                     \/ m <= k /\ Rank(tokens[m]) = 4
  <2>1. tokens[k] \in Kinds /\ tokens[m] \in Kinds /\ k \in Nat /\ m \in Nat
    BY <1>1, LineFacts
  <2>2. /\ Rank(tokens[k]) \in 3..6 /\ Rank(tokens[m]) \in 3..6
        /\ (Rank(tokens[k]) = 6 <=> tokens[k] = "|") /\ (Rank(tokens[m]) = 6 <=> tokens[m] = "|")
        /\ (Rank(tokens[k]) = 5 <=> tokens[k] \in Redirs) /\ (Rank(tokens[m]) = 5 <=> tokens[m] \in Redirs)
    BY <2>1, RankIs
  <2>3. Rank(tokens[k]) <= Rank(tokens[m]) /\ (k < m => Rank(tokens[k]) < Rank(tokens[m]))
    BY <1>1
  <2>4. tokens[k] = "cmd" => Rank(tokens[k]) = 4
    BY <1>2
  <2>5. k < m \/ m <= k
    BY <2>1
  <2>6. tokens[k] = "|" => tokens[m] = "|" /\ m <= k
    BY <2>2, <2>3, <2>5
  <2>7. tokens[k] \in Redirs => tokens[m] = "|" \/ (tokens[m] \in Redirs /\ m <= k)
    BY <2>1, <2>2, <2>3, <2>5
  <2>8. tokens[k] = "cmd" => \/ tokens[m] \in Redirs \cup {"|"}
                             \/ m <= k /\ Rank(tokens[m]) = 4
    BY <2>2, <2>3, <2>4, <2>5
  <2> QED
    BY <2>6, <2>7, <2>8
<1> QED
  BY <1>1, <1>3 DEF m, FirstOf

\* find_left_token: an unused token between f and t; if none is above a command, the
\* first command.
LEMMA FindLeftIs ==
    ASSUME tokens \in Lines, NEW t \in Places, NEW f \in Places, NEW used,
           NEW l, l = FindLeftToken(t, f, used)
    PROVE  /\ l = Eof => FreeBefore(t, f, used) = {}
           /\ l # Eof => /\ FirstOf(l, FreeBefore(t, f, used))
                         /\ \A k \in FreeBefore(t, f, used) : tokens[k] = "cmd" =>
                                \/ tokens[l] \in Redirs \cup {"|"}
                                \/ l <= k /\ tokens[l] = "cmd"
<1> DEFINE free == FreeBefore(t, f, used)
           cmds == {j \in free : tokens[j] = "cmd"}
           m == FirstTop(free)
<1>1. free \subseteq Places /\ Eof \notin free
  BY LineFacts DEF FreeBefore, Places, Eof
<1>2. l = IF free = {} THEN Eof
          ELSE IF Rank(tokens[m]) = 4 /\ cmds # {} THEN MinOf(cmds)
          ELSE m
  <2>1. Rank("cmd") = 4
    BY DEF Rank, Redirs
  <2> QED
    BY <2>1 DEF FindLeftToken, FirstTop
<1>3. CASE free = {}
  BY <1>2, <1>3
<1>4. CASE free # {}
  <2>1. /\ FirstOf(m, free)
        /\ \A k \in free : Rank(tokens[k]) <= Rank(tokens[m])
        /\ \A k \in free : tokens[k] = "cmd" =>
                  \/ tokens[m] \in Redirs \cup {"|"}
                  \/ m <= k /\ Rank(tokens[m]) = 4
    <3> HIDE DEF free
    <3> QED
      BY <1>1, <1>4, FirstTopIsFirst
  <2>2. cmds # {} => MinOf(cmds) \in cmds /\ \A k \in cmds : MinOf(cmds) <= k
    <3>1. cmds \subseteq Nat
      BY <1>1, LineFacts
    <3> HIDE DEF cmds
    <3> QED
      BY <3>1, MinOfIs
  <2>3. m \in free /\ \A k \in free : tokens[k] \in Kinds
    BY <1>1, <2>1, LineFacts DEF FirstOf
  <2>4. \A k \in free : /\ Rank(tokens[k]) \in 3..6
                        /\ Rank(tokens[k]) = 6 <=> tokens[k] = "|"
                        /\ Rank(tokens[k]) = 5 <=> tokens[k] \in Redirs
    BY <2>3, RankIs
  <2>5. CASE Rank(tokens[m]) = 4 /\ cmds # {}
    <3>1. l = MinOf(cmds) /\ l \in free /\ tokens[l] = "cmd"
      BY <1>2, <1>4, <2>2, <2>5
    <3>2. \A k \in free : tokens[k] # "|" /\ tokens[k] \notin Redirs
      <4> SUFFICES ASSUME NEW k \in free PROVE tokens[k] # "|" /\ tokens[k] \notin Redirs
        OBVIOUS
      <4>1. Rank(tokens[k]) <= 4
        BY <2>1, <2>5
      <4> HIDE DEF free
      <4> QED
        BY <2>4, <4>1
    <3>3. \A k \in free : tokens[k] = "cmd" => l <= k
      BY <2>2, <3>1
    <3> HIDE DEF free
    <3> QED
      BY <1>1, <1>4, <3>1, <3>2, <3>3 DEF FirstOf, free
  <2>6. CASE ~(Rank(tokens[m]) = 4 /\ cmds # {})
    <3>1. l = m
      BY <1>2, <1>4, <2>6
    <3>2. ASSUME NEW k \in free, tokens[k] = "cmd" PROVE tokens[m] \in Redirs \cup {"|"}
      BY <2>1, <2>6, <3>2
    <3> HIDE DEF free, m
    <3> QED
      BY <1>1, <2>1, <2>3, <3>1, <3>2 DEF free
  <2> QED
    BY <2>5, <2>6
<1> QED
  BY <1>3, <1>4

\* find_right_token: a token between t and e of the highest rank not above t's.
LowerAfter(t, e) == {j \in (t + 1)..(e - 1) : Rank(tokens[j]) <= Rank(tokens[t])}
\* find_right_token finds the first pipe, else the first redirection.
LEMMA FindRightIs ==
    ASSUME tokens \in Lines, NEW t \in Places, NEW e \in 1..Eof,
           NEW l, l = FindRightToken(t, e)
    PROVE  /\ LowerAfter(t, e) \subseteq Places
           /\ l = Eof => LowerAfter(t, e) = {}
           /\ l # Eof => /\ FirstOf(l, LowerAfter(t, e))
                         /\ \A k \in LowerAfter(t, e) : tokens[k] = "cmd" =>
                                \/ tokens[l] \in Redirs \cup {"|"}
                                \/ l <= k /\ Rank(tokens[l]) = 4
<1> DEFINE lower == LowerAfter(t, e)
<1>1. lower \subseteq Places /\ Eof \notin lower
  BY LineFacts DEF LowerAfter, Places, Eof
<1>2. l = IF lower = {} THEN Eof ELSE FirstTop(lower)
  BY DEF FindRightToken, FirstTop, LowerAfter
<1>3. lower # {} => /\ FirstOf(FirstTop(lower), lower)
                    /\ \A k \in lower : tokens[k] = "cmd" =>
                            \/ tokens[FirstTop(lower)] \in Redirs \cup {"|"}
                            \/ FirstTop(lower) <= k /\ Rank(tokens[FirstTop(lower)]) = 4
  <2> HIDE DEF lower
  <2> QED
    BY <1>1, FirstTopIsFirst
<1>4. lower # {} => FirstTop(lower) \in lower
  BY <1>3 DEF FirstOf
<1> QED
  BY <1>1, <1>2, <1>3, <1>4

\* find_initial_root: the last token of the highest rank, or the first command.
LEMMA FindInitialRootIs ==
    ASSUME tokens \in Lines
    PROVE  /\ FindInitialRoot \in Places
           /\ \A k \in Places : /\ tokens[k] = "|" => /\ tokens[FindInitialRoot] = "|"
                                                     /\ k <= FindInitialRoot
<1> DEFINE top == {j \in Places : \A k \in Places : Rank(tokens[k]) <= Rank(tokens[j])}
           cmds == {j \in Places : tokens[j] = "cmd"}
           last == CHOOSE j \in top : \A k \in top : k <= j
           root0 == FindInitialRoot
<1>1. Places # {} /\ Places \subseteq Nat /\ \A j \in Places : tokens[j] \in Kinds
  BY LineFacts DEF Places
<1>2. top # {} /\ top \subseteq Places
  BY <1>1, TopExists
<1>3. last \in top /\ \A k \in top : k <= last
  <2>1. \E j \in top : \A k \in top : k <= j
    <3> HIDE DEF top
    <3> QED
      BY <1>2, MaxExists
  <2> HIDE DEF top
  <2> QED
    BY <2>1
<1>4. root0 = IF Rank(tokens[last]) = 4 /\ cmds # {} THEN MinOf(cmds) ELSE last
  <2>1. Rank("cmd") = 4
    BY DEF Rank, Redirs
  <2> QED
    BY <2>1 DEF FindInitialRoot
<1>5. cmds # {} => MinOf(cmds) \in cmds
  <2>1. cmds \subseteq Nat
    BY <1>1
  <2> HIDE DEF cmds
  <2> QED
    BY <2>1, MinOfIs
<1>6. root0 \in Places
  BY <1>2, <1>3, <1>4, <1>5
<1>7. ASSUME NEW k \in Places, tokens[k] = "|" PROVE tokens[root0] = "|" /\ k <= root0
  <2>1. \A j \in Places : Rank(tokens[j]) \in 3..6 /\ (Rank(tokens[j]) = 6 <=> tokens[j] = "|")
    BY <1>1, RankIs
  <2>2. k \in top
    BY <1>7, <2>1
  <2>3. Rank(tokens[k]) <= Rank(tokens[last]) /\ last \in Places /\ k <= last
    BY <1>2, <1>3, <2>2
  <2>4. Rank(tokens[last]) = 6
    <3> HIDE DEF last, top
    <3> QED
      BY <1>7, <2>1, <2>3
  <2> HIDE DEF last, top
  <2> QED
    BY <1>4, <2>1, <2>3, <2>4
<1> QED
  BY <1>6, <1>7

\* Numbers up to a bound that are closed under the next one are all of them.
LEMMA UpToAll ==
    ASSUME NEW n \in Nat, NEW S, 0 \in S, \A k \in 1..n : k - 1 \in S => k \in S
    PROVE  \A k \in 0..n : k \in S
<1> DEFINE Bad == {k \in 0..n : k \notin S}
<1> SUFFICES ASSUME Bad # {} PROVE FALSE
  OBVIOUS
<1>1. Bad \subseteq Nat
  OBVIOUS
<1>2. MinOf(Bad) \in Bad /\ \A k \in Bad : MinOf(Bad) <= k
  <2> HIDE DEF Bad
  <2> QED
    BY <1>1, MinOfIs
<1> DEFINE m == MinOf(Bad)
<1>3. m \in 1..n /\ m - 1 \in 0..n
  <2>1. m \in 0..n /\ m \notin S
    BY <1>2
  <2> HIDE DEF m
  <2> QED
    BY <2>1
<1>4. m - 1 \notin Bad
  <2> HIDE DEF Bad, m
  <2>1. ~(m <= m - 1)
    BY <1>3
  <2> QED
    BY <1>2, <2>1 DEF m
<1> HIDE DEF m
<1> QED
  BY <1>2, <1>3, <1>4 DEF m

\* The same from the end of the line backwards.
LEMMA FromTheEnd ==
    ASSUME tokens \in Lines, NEW S, Eof \in S,
           \A k \in Places : (\A j \in (k + 1)..Eof : j \in S) => k \in S
    PROVE  \A k \in 1..Eof : k \in S
<1> DEFINE n == Len(tokens)
           T == {m \in 0..n : \A j \in (Eof - m)..Eof : j \in S}
<1>1. n \in Nat \ {0} /\ Eof = n + 1 /\ Places = 1..n
  BY LineFacts DEF Eof, Places
<1> HIDE DEF n
<1>2. 0 \in T
  BY <1>1
<1>3. ASSUME NEW m \in 1..n, m - 1 \in T PROVE m \in T
  <2>1. Eof - m \in Places /\ \A j \in (Eof - m + 1)..Eof : j \in S
    BY <1>1, <1>3
  <2>2. Eof - m \in S
    BY <2>1
  <2>3. \A j \in (Eof - m)..Eof : j = Eof - m \/ j \in (Eof - m + 1)..Eof
    BY <1>1
  <2> QED
    BY <2>1, <2>2, <2>3
<1>4. n \in T
  <2>1. \A m \in 0..n : m \in T
    <3> HIDE DEF T
    <3> QED
      BY <1>1, <1>2, <1>3, UpToAll
  <2>2. n \in 0..n
    BY <1>1
  <2> HIDE DEF T
  <2> QED
    BY <2>1, <2>2
<1> QED
  BY <1>1, <1>4

-----------------------------------------------------------------------------
(***************************************************************************)
(* What a node takes besides its token.                                    *)
(***************************************************************************)
\* One more at the head of a sequence.
LEMMA Prepended ==
    ASSUME NEW S, NEW x \in S, NEW s \in Seq(S)
    PROVE  /\ <<x>> \o s \in Seq(S) /\ Len(<<x>> \o s) = Len(s) + 1
           /\ (<<x>> \o s)[1] = x
           /\ \A i \in 2..(Len(s) + 1) : (<<x>> \o s)[i] = s[i - 1]
OBVIOUS

\* A step of process_current_token_for_args.
GatherFrom(f, k, used) ==
    IF k = Eof \/ tokens[k] = "|" THEN <<>>
    ELSE IF tokens[k] \notin Redirs
         THEN (IF k \in used THEN <<>> ELSE <<k>>) \o f[k + 1]
    ELSE IF k + 1 \in Places /\ TypedWord(tokens[k + 1]) THEN f[k + 2]
    ELSE <<>>

\* It looks at the rest of the line only.
LEMMA GatherLooksAhead ==
    ASSUME tokens \in Lines, NEW used, NEW k \in 1..Eof,
           NEW f \in [1..Eof -> Seq(Places)], NEW g \in [1..Eof -> Seq(Places)],
           \A j \in (k + 1)..Eof : f[j] = g[j]
    PROVE  GatherFrom(f, k, used) \in Seq(Places) /\ GatherFrom(f, k, used) = GatherFrom(g, k, used)
<1>1. Len(tokens) \in Nat /\ Eof = Len(tokens) + 1 /\ Places = 1..Len(tokens)
  BY LineFacts DEF Eof, Places
<1>2. k # Eof => k \in Places /\ k + 1 \in (k + 1)..Eof /\ k + 1 \in 1..Eof
  BY <1>1
<1>3. k + 1 \in Places => k + 2 \in (k + 1)..Eof /\ k + 2 \in 1..Eof
  BY <1>1
<1>4. k \in Places => <<k>> \in Seq(Places)
  OBVIOUS
<1>5. <<>> \in Seq(Places)
  OBVIOUS
<1>6. \A a, b \in Seq(Places) : a \o b \in Seq(Places)
  OBVIOUS
<1>7. CASE k = Eof \/ tokens[k] = "|"
  BY <1>5, <1>7 DEF GatherFrom
<1>8. CASE ~(k = Eof \/ tokens[k] = "|") /\ tokens[k] \notin Redirs
  <2>1. f[k + 1] = g[k + 1] /\ f[k + 1] \in Seq(Places)
    BY <1>2, <1>8
  <2> QED
    BY <1>2, <1>4, <1>5, <1>6, <1>8, <2>1 DEF GatherFrom
<1>9. CASE ~(k = Eof \/ tokens[k] = "|") /\ tokens[k] \in Redirs
  <2>1. k + 1 \in Places => f[k + 2] = g[k + 2] /\ f[k + 2] \in Seq(Places)
    BY <1>3
  <2> QED
    BY <1>5, <1>9, <2>1 DEF GatherFrom
<1> QED
  BY <1>7, <1>8, <1>9

\* So there is a function that takes such a step everywhere, and gather_arguments
\* follows one.
LEMMA GatherExists ==
    ASSUME tokens \in Lines, NEW used
    PROVE  \E f \in [1..Eof -> Seq(Places)] :
              /\ f = [k \in 1..Eof |-> GatherFrom(f, k, used)]
              /\ \A p \in 1..Eof : GatherArguments(p, used) = f[p]
<1> DEFINE F == [1..Eof -> Seq(Places)]
           Right2(f, j) == f[j] = GatherFrom(f, j, used)
           S == {k \in 1..Eof : \E f \in F : \A j \in k..Eof : Right2(f, j)}
<1>1. Len(tokens) \in Nat /\ Eof = Len(tokens) + 1 /\ Places = 1..Len(tokens)
  BY LineFacts DEF Eof, Places
<1>2. ASSUME NEW k \in 1..Eof, NEW f \in F, \A j \in (k + 1)..Eof : Right2(f, j)
      PROVE  \E g \in F : \A j \in k..Eof : Right2(g, j)
  <2> DEFINE g == [j \in 1..Eof |-> IF j = k THEN GatherFrom(f, k, used) ELSE f[j]]
  <2>1. GatherFrom(f, k, used) \in Seq(Places)
    <3>1. \A j \in (k + 1)..Eof : f[j] = f[j]
      OBVIOUS
    <3> QED
      BY <3>1, GatherLooksAhead
  <2>2. g \in F
    BY <2>1
  <2>3. \A j \in (k + 1)..Eof : g[j] = f[j]
    BY <1>1
  <2>4. ASSUME NEW j \in k..Eof PROVE g[j] = GatherFrom(g, j, used)
    <3>1. j \in 1..Eof /\ \A i \in (j + 1)..Eof : f[i] = g[i]
      BY <1>1, <2>3
    <3>2. GatherFrom(f, j, used) = GatherFrom(g, j, used)
      <4> HIDE DEF g
      <4> QED
        BY <2>2, <3>1, GatherLooksAhead
    <3>3. g[j] = GatherFrom(f, j, used)
      <4>1. CASE j = k
        BY <4>1
      <4>2. CASE j # k
        <5>1. j \in (k + 1)..Eof /\ g[j] = f[j]
          BY <1>1, <4>2
        <5> QED
          BY <1>2, <5>1
      <4> QED
        BY <4>1, <4>2
    <3> QED
      BY <3>2, <3>3
  <2> HIDE DEF g
  <2> QED
    BY <2>2, <2>4
<1>3. Eof \in S
  <2>1. [j \in 1..Eof |-> <<>>] \in F
    OBVIOUS
  <2>2. PICK f \in F : TRUE
    BY <2>1
  <2>3. Eof \in 1..Eof /\ \A j \in (Eof + 1)..Eof : Right2(f, j)
    BY <1>1
  <2> HIDE DEF F, Right2
  <2> QED
    BY <1>2, <2>3
<1>4. ASSUME NEW k \in Places, \A j \in (k + 1)..Eof : j \in S PROVE k \in S
  <2>1. k + 1 \in (k + 1)..Eof /\ k \in 1..Eof
    BY <1>1
  <2>2. PICK f \in F : \A j \in (k + 1)..Eof : Right2(f, j)
    BY <1>4, <2>1
  <2> HIDE DEF F, Right2
  <2> QED
    BY <1>2, <2>1, <2>2
<1>5. 1 \in S
  <2>1. \A k \in 1..Eof : k \in S
    <3> HIDE DEF S
    <3> QED
      BY <1>3, <1>4, FromTheEnd
  <2> QED
    BY <1>1, <2>1
<1>6. PICK g \in F : \A j \in 1..Eof : Right2(g, j)
  BY <1>5
<1>7. g = [k \in 1..Eof |-> GatherFrom(g, k, used)]
  BY <1>6
<1> DEFINE f == CHOOSE f : f = [k \in 1..Eof |-> GatherFrom(f, k, used)]
<1>8. f = [k \in 1..Eof |-> GatherFrom(f, k, used)]
  <2> HIDE DEF F, Right2
  <2> QED
    BY <1>7
<1>9. \A p \in 1..Eof : GatherArguments(p, used) = f[p]
  BY DEF GatherArguments, GatherFrom
<1> HIDE DEF f
<1>10. f \in F
  <2> DEFINE T == {k \in 1..Eof : f[k] \in Seq(Places)}
  <2>1. Eof \in T
    <3>1. Eof \in 1..Eof /\ GatherFrom(f, Eof, used) = <<>>
      BY <1>1 DEF GatherFrom
    <3>2. f[Eof] = <<>>
      BY <1>8, <3>1
    <3>3. <<>> \in Seq(Places)
      OBVIOUS
    <3>4. f[Eof] \in Seq(Places)
      BY <3>2, <3>3
    <3> QED
      BY <3>1, <3>4
  <2>2. ASSUME NEW k \in Places, \A j \in (k + 1)..Eof : j \in T PROVE k \in T
    <3> DEFINE h == [j \in 1..Eof |-> IF j \in (k + 1)..Eof THEN f[j] ELSE <<>>]
    <3>1. h \in F /\ k \in 1..Eof
      <4>1. \A j \in (k + 1)..Eof : f[j] \in Seq(Places)
        BY <2>2
      <4>2. <<>> \in Seq(Places) /\ k \in 1..Eof
        BY <1>1
      <4> QED
        BY <4>1, <4>2
    <3>2. GatherFrom(h, k, used) \in Seq(Places)
      <4>1. \A j \in (k + 1)..Eof : h[j] = h[j]
        OBVIOUS
      <4> HIDE DEF h
      <4> QED
        BY <3>1, <4>1, GatherLooksAhead
    <3>3. GatherFrom(f, k, used) = GatherFrom(h, k, used)
      <4>1. k # Eof /\ k + 1 \in (k + 1)..Eof /\ k + 1 \in 1..Eof
        BY <1>1
      <4>2. k + 1 \in Places => k + 2 \in (k + 1)..Eof /\ k + 2 \in 1..Eof
        BY <1>1
      <4>3. h[k + 1] = f[k + 1] /\ (k + 1 \in Places => h[k + 2] = f[k + 2])
        BY <4>1, <4>2
      <4> HIDE DEF h
      <4> QED
        BY <4>3 DEF GatherFrom
    <3> QED
      BY <1>8, <3>1, <3>2, <3>3
  <2>3. \A k \in 1..Eof : k \in T
    <3> HIDE DEF T
    <3> QED
      BY <2>1, <2>2, FromTheEnd
  <2> QED
    BY <1>8, <2>3
<1> QED
  BY <1>8, <1>9, <1>10

\* What it gathers from k on: unused words of the stage, in their order, no names of
\* redirections.
Gathered(k, s, used) ==
    /\ s \in Seq(Places)
    /\ \A i \in 1..Len(s) :
           /\ s[i] >= k /\ s[i] \notin used
           /\ tokens[s[i]] \notin Redirs /\ \A j \in k..s[i] : tokens[j] # "|"
           /\ s[i] > k => tokens[s[i] - 1] \notin Redirs
    /\ \A i, j \in 1..Len(s) : i < j => s[i] < s[j]

\* gather_arguments gathers from its first place on.
LEMMA GatherArgumentsIs ==
    ASSUME tokens \in Lines, NEW used, NEW p \in 1..Eof
    PROVE  Gathered(p, GatherArguments(p, used), used)
<1>1. Len(tokens) \in Nat /\ Eof = Len(tokens) + 1 /\ Places = 1..Len(tokens)
  BY LineFacts DEF Eof, Places
<1>2. PICK f \in [1..Eof -> Seq(Places)] :
              /\ f = [k \in 1..Eof |-> GatherFrom(f, k, used)]
              /\ \A q \in 1..Eof : GatherArguments(q, used) = f[q]
  BY GatherExists
<1> DEFINE S == {k \in 1..Eof : Gathered(k, f[k], used)}
<1>3. ASSUME NEW k \in 1..Eof, f[k] = <<>> PROVE k \in S
  BY <1>2, <1>3 DEF Gathered
<1>4. Eof \in S
  <2>1. f[Eof] = <<>> /\ Eof \in 1..Eof
    BY <1>1, <1>2 DEF GatherFrom
  <2> QED
    BY <1>3, <2>1
<1>5. ASSUME NEW k \in Places, \A j \in (k + 1)..Eof : j \in S PROVE k \in S
  <2>1. k \in 1..Eof /\ k + 1 \in (k + 1)..Eof /\ k + 1 \in 1..Eof /\ k # Eof /\ k \in Nat
    BY <1>1
  <2>2. f[k] = GatherFrom(f, k, used)
    BY <1>2, <2>1
  <2>3. CASE tokens[k] = "|"
    <3>1. f[k] = <<>>
      BY <2>2, <2>3 DEF GatherFrom
    <3> QED
      BY <1>3, <2>1, <3>1
  <2>4. CASE tokens[k] # "|" /\ tokens[k] \in Redirs
    <3>1. CASE k + 1 \in Places /\ TypedWord(tokens[k + 1])
      <4>1. k + 2 \in (k + 1)..Eof /\ k + 2 \in 1..Eof
        BY <1>1, <3>1
      <4>2. f[k] = f[k + 2] /\ Gathered(k + 2, f[k + 2], used)
        BY <1>5, <2>2, <2>1, <2>4, <3>1, <4>1 DEF GatherFrom
      <4>3. tokens[k + 1] \notin Redirs /\ tokens[k + 1] # "|"
        BY <3>1 DEF TypedWord, Redirs
      <4> DEFINE s == f[k]
      <4>4. Gathered(k + 2, s, used)
        BY <4>2
      <4>5. s \in Seq(Places) /\ Len(s) \in Nat
        BY <4>4 DEF Gathered
      <4> HIDE DEF s
      <4>6. ASSUME NEW i \in 1..Len(s)
            PROVE  /\ s[i] >= k /\ s[i] \notin used
                   /\ tokens[s[i]] \notin Redirs /\ \A j \in k..s[i] : tokens[j] # "|"
                   /\ s[i] > k => tokens[s[i] - 1] \notin Redirs
        <5>1. s[i] \in Nat
          BY <1>1, <4>5
        <5>2. /\ s[i] >= k + 2 /\ s[i] \notin used
              /\ tokens[s[i]] \notin Redirs /\ \A j \in (k + 2)..s[i] : tokens[j] # "|"
              /\ s[i] > k + 2 => tokens[s[i] - 1] \notin Redirs
          BY <4>4 DEF Gathered
        <5>3. \A j \in k..s[i] : j = k \/ j = k + 1 \/ j \in (k + 2)..s[i]
          BY <2>1, <5>1
        <5>4. \A j \in k..s[i] : tokens[j] # "|"
          BY <2>4, <4>3, <5>2, <5>3
        <5>5. s[i] = k + 2 => tokens[s[i] - 1] \notin Redirs
          <6>1. s[i] = k + 2 => s[i] - 1 = k + 1
            BY <2>1
          <6> QED
            BY <4>3, <6>1
        <5>6. s[i] >= k /\ (s[i] = k + 2 \/ s[i] > k + 2)
          BY <2>1, <5>1, <5>2
        <5> QED
          BY <5>2, <5>4, <5>5, <5>6
      <4>7. Gathered(k, s, used)
        BY <4>4, <4>5, <4>6 DEF Gathered
      <4> QED
        BY <2>1, <4>7 DEF s
    <3>2. CASE ~(k + 1 \in Places /\ TypedWord(tokens[k + 1]))
      <4>1. f[k] = <<>>
        BY <2>2, <2>4, <3>2 DEF GatherFrom
      <4> QED
        BY <1>3, <2>1, <4>1
    <3> QED
      BY <3>1, <3>2
  <2>5. CASE tokens[k] # "|" /\ tokens[k] \notin Redirs
    <3> DEFINE r == f[k + 1]
               s == f[k]
    <3>1. s = (IF k \in used THEN <<>> ELSE <<k>>) \o r
      BY <2>1, <2>2, <2>5 DEF GatherFrom
    <3>2. Gathered(k + 1, r, used)
      BY <1>5, <2>1
    <3>3. r \in Seq(Places) /\ Len(r) \in Nat
      BY <3>2 DEF Gathered
    <3> HIDE DEF r, s
    <3>4. ASSUME NEW i \in 1..Len(r)
          PROVE  /\ r[i] >= k + 1 /\ r[i] \notin used /\ r[i] \in Nat
                 /\ tokens[r[i]] \notin Redirs /\ \A j \in k..r[i] : tokens[j] # "|"
                 /\ tokens[r[i] - 1] \notin Redirs
      <4>1. r[i] \in Nat
        BY <1>1, <3>3
      <4>2. /\ r[i] >= k + 1 /\ r[i] \notin used
            /\ tokens[r[i]] \notin Redirs /\ \A j \in (k + 1)..r[i] : tokens[j] # "|"
            /\ r[i] > k + 1 => tokens[r[i] - 1] \notin Redirs
        BY <3>2 DEF Gathered
      <4>3. \A j \in k..r[i] : j = k \/ j \in (k + 1)..r[i]
        BY <2>1, <4>1
      <4>4. \A j \in k..r[i] : tokens[j] # "|"
        BY <2>5, <4>2, <4>3
      <4>5. r[i] = k + 1 => tokens[r[i] - 1] \notin Redirs
        <5>1. r[i] = k + 1 => r[i] - 1 = k
          BY <2>1
        <5> QED
          BY <2>5, <5>1
      <4>6. r[i] = k + 1 \/ r[i] > k + 1
        BY <2>1, <4>1, <4>2
      <4> QED
        BY <4>1, <4>2, <4>4, <4>5, <4>6
    <3>5. \A i, j \in 1..Len(r) : i < j => r[i] < r[j]
      BY <3>2 DEF Gathered
    <3>6. CASE k \in used
      <4>1. s = r
        BY <3>1, <3>3, <3>6
      <4>2. \A i \in 1..Len(s) : s[i] >= k
        BY <2>1, <3>4, <4>1
      <4>3. Gathered(k, s, used)
        BY <3>3, <3>4, <3>5, <4>1, <4>2 DEF Gathered
      <4> QED
        BY <2>1, <4>3 DEF s
    <3>7. CASE k \notin used
      <4>1. s = <<k>> \o r
        BY <3>1, <3>7
      <4>2. /\ s \in Seq(Places) /\ Len(s) = Len(r) + 1 /\ s[1] = k
            /\ \A i \in 2..(Len(r) + 1) : s[i] = r[i - 1]
        BY <3>3, <4>1, Prepended
      <4>3. \A i \in 1..Len(s) : i = 1 \/ (i \in 2..(Len(r) + 1) /\ i - 1 \in 1..Len(r))
        BY <3>3, <4>2
      <4>4. ASSUME NEW i \in 1..Len(s)
            PROVE  /\ s[i] >= k /\ s[i] \notin used
                   /\ tokens[s[i]] \notin Redirs /\ \A j \in k..s[i] : tokens[j] # "|"
                   /\ s[i] > k => tokens[s[i] - 1] \notin Redirs
        <5>1. CASE i = 1
          <6>1. \A j \in k..k : j = k
            BY <2>1
          <6>2. k >= k /\ ~(k > k)
            BY <2>1
          <6> QED
            BY <2>5, <3>7, <4>2, <5>1, <6>1, <6>2
        <5>2. CASE i # 1
          <6>1. s[i] = r[i - 1] /\ i - 1 \in 1..Len(r)
            BY <4>2, <4>3, <5>2
          <6>2. r[i - 1] >= k
            BY <2>1, <3>4, <6>1
          <6> QED
            BY <3>4, <6>1, <6>2
        <5> QED
          BY <5>1, <5>2
      <4>5. ASSUME NEW i \in 1..Len(s), NEW j \in 1..Len(s), i < j PROVE s[i] < s[j]
        <5>1. j # 1 /\ s[j] = r[j - 1] /\ j - 1 \in 1..Len(r)
          BY <4>2, <4>3, <4>5
        <5>2. CASE i = 1
          <6>1. r[j - 1] >= k + 1 /\ r[j - 1] \in Nat
            BY <3>4, <5>1
          <6> QED
            BY <2>1, <4>2, <5>1, <5>2, <6>1
        <5>3. CASE i # 1
          <6>1. s[i] = r[i - 1] /\ i - 1 \in 1..Len(r) /\ i - 1 < j - 1
            BY <4>2, <4>3, <4>5, <5>1, <5>3
          <6> QED
            BY <3>5, <5>1, <6>1
        <5> QED
          BY <5>2, <5>3
      <4>6. Gathered(k, s, used)
        BY <4>2, <4>4, <4>5 DEF Gathered
      <4> QED
        BY <2>1, <4>6 DEF s
    <3> QED
      BY <3>6, <3>7
  <2> QED
    BY <2>3, <2>4, <2>5
<1>6. \A k \in 1..Eof : k \in S
  <2> HIDE DEF S
  <2> QED
    BY <1>4, <1>5, FromTheEnd
<1> QED
  BY <1>2, <1>6

\* gather_filename takes an unused token behind the redirection, which is no operator.
LEMMA GatherFilenameIs ==
    ASSUME tokens \in Lines, NEW t \in Places, NEW e \in 1..Eof, NEW used
    PROVE  \/ GatherFilename(t, e, used) = NULL
           \/ \E j \in Places : /\ GatherFilename(t, e, used) = <<j>>
                                /\ t < j /\ j < e /\ j \notin used
                                /\ tokens[j] \notin Redirs \cup {"|"}
                                /\ \A k \in (t + 1)..(j - 1) : k \in used
<1> DEFINE free == {j \in (t + 1)..(e - 1) : j \notin used}
           m == MinOf(free)
<1>1. Len(tokens) \in Nat /\ Eof = Len(tokens) + 1 /\ Places = 1..Len(tokens)
  BY LineFacts DEF Eof, Places
<1>2. free \subseteq Nat /\ free \subseteq Places
  BY <1>1
<1>3. free # {} => m \in free /\ \A k \in free : m <= k
  <2> HIDE DEF free
  <2> QED
    BY <1>2, MinOfIs
<1>4. GatherFilename(t, e, used) =
          IF free # {} /\ (TypedWord(tokens[m]) \/ tokens[m] = "cmd") THEN <<m>> ELSE NULL
  BY DEF GatherFilename, NULL
<1>5. CASE free # {} /\ (TypedWord(tokens[m]) \/ tokens[m] = "cmd")
  <2>1. tokens[m] \notin Redirs \cup {"|"}
    BY <1>5 DEF TypedWord, Redirs
  <2>2. m \in Places /\ t < m /\ m < e /\ m \notin used
    BY <1>1, <1>2, <1>3, <1>5
  <2>3. \A k \in (t + 1)..(m - 1) : k \in used
    <3> SUFFICES ASSUME NEW k \in (t + 1)..(m - 1), k \notin used PROVE FALSE
      OBVIOUS
    <3>1. m \in Nat /\ m < e /\ e \in Nat /\ t \in Nat
      BY <1>1, <2>2
    <3>2. k \in (t + 1)..(e - 1) /\ ~(m <= k)
      BY <3>1
    <3> QED
      BY <1>3, <1>5, <3>2
  <2>4. GatherFilename(t, e, used) = <<m>>
    BY <1>4, <1>5
  <2> HIDE DEF m
  <2> QED
    BY <2>1, <2>2, <2>3, <2>4
<1>6. CASE ~(free # {} /\ (TypedWord(tokens[m]) \/ tokens[m] = "cmd"))
  BY <1>4, <1>6
<1> QED
  BY <1>5, <1>6

-----------------------------------------------------------------------------
(***************************************************************************)
(* The calls of mke_yggdrasil: what it returns, and that there is a        *)
(* function with its equation.                                             *)
(***************************************************************************)
Results == [node : Pointer, tree : [Places -> Node], used : SUBSET Places, status : 0..255]

\* A pointer is a sequence of places.
LEMMA PointerIs ==
    ASSUME NEW p \in Pointer
    PROVE  /\ p \in Seq(Places)
           /\ p = NULL \/ \E n \in Places : p = <<n>>
           /\ p # NULL => p[1] \in Places /\ p = <<p[1]>> /\ Len(p) = 1
<1>1. NULL \in Seq(Places)
  BY DEF NULL
<1>2. \A n \in Places : <<n>> \in Seq(Places) /\ <<n>>[1] = n /\ Len(<<n>>) = 1
  OBVIOUS
<1>3. p = NULL \/ \E n \in Places : p = <<n>>
  BY DEF Pointer
<1> QED
  BY <1>1, <1>2, <1>3

\* The elements of a sequence.
LEMMA SetIs ==
    ASSUME NEW S, NEW s \in Seq(S)
    PROVE  /\ Set(s) = {s[k] : k \in 1..Len(s)} /\ Set(s) \subseteq S
           /\ DOMAIN s = 1..Len(s) /\ Len(s) \in Nat
BY DEF Set

\* The set of one token, and of none.
LEMMA SetOfOne ==
    ASSUME NEW n
    PROVE  Set(<<n>>) = {n} /\ Set(NULL) = {}
BY DEF Set, NULL

\* The last arm of a call: nothing to be made.
Idle(c) == c.t = Eof \/ c.t = c.e \/ c.t \in c.used

\* What a node takes is not used yet.
LEMMA OwnIs ==
    ASSUME tokens \in Lines, NEW c \in Calls, ~Idle(c)
    PROVE  /\ c.t \in Places /\ c.t \notin c.used /\ c.e \in 1..Eof /\ c.t # c.e /\ c.f \in Places
           /\ ArgsOf(c) = NULL \/ (tokens[c.t] = "cmd" /\ Gathered(c.t + 1, ArgsOf(c), c.used \cup {c.t}))
           /\ ArgsOf(c) \in Seq(Places) /\ Set(ArgsOf(c)) \subseteq Places
           /\ Set(ArgsOf(c)) \cap (c.used \cup {c.t}) = {}
           /\ FileOf(c) = NULL \/ (tokens[c.t] \in Redirs /\ \E j \in Places :
                  /\ FileOf(c) = <<j>> /\ c.t < j /\ j < c.e /\ j \notin c.used \cup {c.t}
                  /\ tokens[j] \notin Redirs \cup {"|"}
                  /\ \A k \in (c.t + 1)..(j - 1) : k \in c.used \cup {c.t})
           /\ FileOf(c) \in Seq(Places) /\ Set(FileOf(c)) \subseteq Places
           /\ Set(FileOf(c)) \cap (c.used \cup {c.t}) = {}
           /\ ArgsOf(c) = NULL \/ FileOf(c) = NULL
<1>1. /\ c.t \in 1..Eof /\ c.f \in Places /\ c.e \in 1..Eof /\ c.used \in SUBSET Places
  BY DEF Calls
<1>2. Len(tokens) \in Nat /\ Eof = Len(tokens) + 1 /\ Places = 1..Len(tokens)
  BY LineFacts DEF Eof, Places
<1>3. c.t \in Places /\ c.t \notin c.used /\ c.t # c.e /\ c.t + 1 \in 1..Eof
  BY <1>1, <1>2 DEF Idle
<1> DEFINE u == c.used \cup {c.t}
           a == ArgsOf(c)
           fl == FileOf(c)
<1>4. a = NULL \/ (tokens[c.t] = "cmd" /\ Gathered(c.t + 1, a, u))
  <2>1. Gathered(c.t + 1, GatherArguments(c.t + 1, u), u)
    BY <1>3, GatherArgumentsIs
  <2> QED
    BY <2>1 DEF ArgsOf, NULL
<1>5. fl = NULL \/ (tokens[c.t] \in Redirs /\ \E j \in Places :
                  /\ fl = <<j>> /\ c.t < j /\ j < c.e /\ j \notin u
                  /\ tokens[j] \notin Redirs \cup {"|"}
                  /\ \A k \in (c.t + 1)..(j - 1) : k \in u)
  <2>1. \/ GatherFilename(c.t, c.e, u) = NULL
        \/ \E j \in Places : /\ GatherFilename(c.t, c.e, u) = <<j>>
                             /\ c.t < j /\ j < c.e /\ j \notin u
                             /\ tokens[j] \notin Redirs \cup {"|"}
                             /\ \A k \in (c.t + 1)..(j - 1) : k \in u
    <3> HIDE DEF u
    <3> QED
      BY <1>1, <1>3, GatherFilenameIs
  <2> QED
    BY <2>1 DEF FileOf, NULL
<1>6. "cmd" \notin Redirs
  BY DEF Redirs
<1>7. a = NULL \/ fl = NULL
  BY <1>4, <1>5, <1>6
<1>8. NULL \in Seq(Places) /\ Set(NULL) = {}
  <2>1. NULL \in Seq(Places)
    BY DEF NULL
  <2> QED
    BY <2>1, SetOfOne
<1>9. a \in Seq(Places) /\ Set(a) \subseteq Places /\ Set(a) \cap u = {}
  <2>1. CASE a = NULL
    BY <1>8, <2>1
  <2>2. CASE Gathered(c.t + 1, a, u)
    <3>1. a \in Seq(Places) /\ \A i \in 1..Len(a) : a[i] \notin u
      BY <2>2 DEF Gathered
    <3> HIDE DEF a, u
    <3>2. Set(a) = {a[k] : k \in 1..Len(a)} /\ Set(a) \subseteq Places
      BY <3>1, SetIs
    <3> QED
      BY <3>1, <3>2
  <2> QED
    BY <1>4, <2>1, <2>2
<1>10. fl \in Seq(Places) /\ Set(fl) \subseteq Places /\ Set(fl) \cap u = {}
  <2>1. CASE fl = NULL
    BY <1>8, <2>1
  <2>2. ASSUME NEW j \in Places, fl = <<j>>, j \notin u PROVE fl \in Seq(Places) /\ Set(fl) \subseteq Places /\ Set(fl) \cap u = {}
    <3>1. Set(fl) = {j}
      BY <2>2, SetOfOne
    <3>2. <<j>> \in Seq(Places)
      OBVIOUS
    <3> HIDE DEF fl, u
    <3> QED
      BY <2>2, <3>1, <3>2
  <2> HIDE DEF fl, u
  <2> QED
    BY <1>5, <2>1, <2>2
<1> QED
  BY <1>1, <1>3, <1>4, <1>5, <1>7, <1>9, <1>10

\* The new node, in the tree.
OwnNode(c) == [args |-> ArgsOf(c), file |-> FileOf(c), left |-> NULL, right |-> NULL]
\* new_yggnode and what the node gathers change that node and what is used.
LEMMA NewNodeIs ==
    ASSUME tokens \in Lines, NEW c \in Calls, ~Idle(c)
    PROVE  /\ NewNode(c) = [node |-> <<c.t>>, tree |-> [c.tree EXCEPT ![c.t] = OwnNode(c)],
                            used |-> c.used \cup {c.t} \cup Set(ArgsOf(c)) \cup Set(FileOf(c)),
                            status |-> c.status]
           /\ NewNode(c) \in Results
           /\ OwnNode(c) \in Node
<1>1. /\ c.t \in Places /\ ArgsOf(c) \in Seq(Places) /\ FileOf(c) \in Seq(Places)
      /\ Set(ArgsOf(c)) \subseteq Places /\ Set(FileOf(c)) \subseteq Places
  BY OwnIs
<1>2. c.tree \in [Places -> Node] /\ c.used \in SUBSET Places /\ c.status \in 0..255
  BY DEF Calls
<1>3. [args |-> ArgsOf(c), file |-> FileOf(c), left |-> NULL, right |-> NULL] = OwnNode(c)
  BY DEF OwnNode
<1>4. OwnNode(c) \in Node
  BY <1>1 DEF OwnNode, Node, Pointer
<1>5. NewNode(c) = [node |-> <<c.t>>, tree |-> [c.tree EXCEPT ![c.t] = OwnNode(c)],
                    used |-> c.used \cup {c.t} \cup Set(ArgsOf(c)) \cup Set(FileOf(c)),
                    status |-> c.status]
  <2>1. c.used \cup Takes(c.t, ArgsOf(c), FileOf(c))
        = c.used \cup {c.t} \cup Set(ArgsOf(c)) \cup Set(FileOf(c))
    BY DEF Takes
  <2> DEFINE o == [args |-> ArgsOf(c), file |-> FileOf(c), left |-> NULL, right |-> NULL]
             w == c.used \cup Takes(c.t, ArgsOf(c), FileOf(c))
  <2>2. NewNode(c) = [Return(<<c.t>>, c) EXCEPT !.tree[c.t] = o, !.used = w]
    BY DEF NewNode
  <2> HIDE DEF o, w
  <2>3. NewNode(c) = [node |-> <<c.t>>, tree |-> [c.tree EXCEPT ![c.t] = o], used |-> w, status |-> c.status]
    BY <2>2 DEF Return
  <2> QED
    BY <1>3, <2>1, <2>3 DEF o, w
<1>6. [c.tree EXCEPT ![c.t] = OwnNode(c)] \in [Places -> Node]
  BY <1>2, <1>4
<1>7. <<c.t>> \in Pointer
  BY <1>1 DEF Pointer
<1> HIDE DEF OwnNode
<1> QED
  BY <1>1, <1>2, <1>4, <1>5, <1>6, <1>7 DEF Results

\* The two calls it makes.
LeftCall(c)     == Call(FindLeftToken(c.t, c.f, NewNode(c).used), c.f, c.t, NewNode(c))
RightCall(g, c) == Call(FindRightToken(c.t, c.e), c.t, c.e, g[LeftCall(c)])
\* They are calls of the same kind, in which more is used.
LEMMA CallsAreCalls ==
    ASSUME tokens \in Lines, NEW c \in Calls, ~Idle(c)
    PROVE  /\ LeftCall(c) \in Calls
           /\ LeftCall(c).used = NewNode(c).used /\ LeftCall(c).tree = NewNode(c).tree
           /\ LeftCall(c).status = c.status
           /\ LeftCall(c).t = FindLeftToken(c.t, c.f, NewNode(c).used)
           /\ LeftCall(c).f = c.f /\ LeftCall(c).e = c.t
           /\ c.used \subseteq LeftCall(c).used /\ c.t \in LeftCall(c).used
           /\ \A g : g[LeftCall(c)] \in Results =>
                /\ RightCall(g, c) \in Calls
                /\ RightCall(g, c).used = g[LeftCall(c)].used
                /\ RightCall(g, c).tree = g[LeftCall(c)].tree
                /\ RightCall(g, c).status = g[LeftCall(c)].status
                /\ RightCall(g, c).t = FindRightToken(c.t, c.e)
                /\ RightCall(g, c).f = c.t /\ RightCall(g, c).e = c.e
<1>1. Len(tokens) \in Nat /\ Eof = Len(tokens) + 1 /\ Places = 1..Len(tokens)
  BY LineFacts DEF Eof, Places
<1>2. c.t \in Places /\ c.t \in 1..Eof /\ c.f \in Places /\ c.e \in 1..Eof /\ c.status \in 0..255
  BY <1>1, OwnIs DEF Calls
<1> DEFINE l == FindLeftToken(c.t, c.f, NewNode(c).used)
           r == FindRightToken(c.t, c.e)
<1>3. l \in 1..Eof
  <2>1. l = Eof \/ l \in FreeBefore(c.t, c.f, NewNode(c).used)
    BY <1>2, FindLeftIs DEF FirstOf
  <2>2. FreeBefore(c.t, c.f, NewNode(c).used) \subseteq 1..Eof
    BY <1>1, <1>2 DEF FreeBefore
  <2> HIDE DEF l
  <2> QED
    BY <1>1, <2>1, <2>2
<1>4. r \in 1..Eof
  <2>1. r = Eof \/ r \in LowerAfter(c.t, c.e)
    BY <1>2, FindRightIs DEF FirstOf
  <2>2. LowerAfter(c.t, c.e) \subseteq 1..Eof
    BY <1>1, <1>2 DEF LowerAfter
  <2> HIDE DEF r
  <2> QED
    BY <1>1, <2>1, <2>2
<1>5. /\ NewNode(c) \in Results /\ NewNode(c).status = c.status
      /\ c.used \subseteq NewNode(c).used /\ c.t \in NewNode(c).used
  BY NewNodeIs
<1>6. ASSUME NEW t \in 1..Eof, NEW f \in Places, NEW e \in 1..Eof, NEW x \in Results
      PROVE  /\ Call(t, f, e, x) \in Calls
             /\ Call(t, f, e, x).used = x.used /\ Call(t, f, e, x).tree = x.tree
             /\ Call(t, f, e, x).status = x.status
             /\ Call(t, f, e, x).t = t /\ Call(t, f, e, x).f = f /\ Call(t, f, e, x).e = e
  BY <1>6 DEF Call, Calls, Results
<1> HIDE DEF l, r
<1>7. ASSUME NEW g, g[LeftCall(c)] \in Results
      PROVE  /\ RightCall(g, c) \in Calls
             /\ RightCall(g, c).used = g[LeftCall(c)].used
             /\ RightCall(g, c).tree = g[LeftCall(c)].tree
             /\ RightCall(g, c).status = g[LeftCall(c)].status
             /\ RightCall(g, c).t = r
             /\ RightCall(g, c).f = c.t /\ RightCall(g, c).e = c.e
  BY <1>2, <1>4, <1>6, <1>7 DEF RightCall, r
<1>8. LeftCall(c) = Call(l, c.f, c.t, NewNode(c))
  BY DEF LeftCall, l
<1> QED
  BY <1>2, <1>3, <1>5, <1>6, <1>7, <1>8 DEF l, r

\* The call, case by case.
NoFile(c) == tokens[c.t] \in Redirs /\ FileOf(c) = NULL
NoOperand(c) == /\ tokens[c.t] = "|"
                /\ Eof \in {FindLeftToken(c.t, c.f, NewNode(c).used), FindRightToken(c.t, c.e)}
WithChildren(c, l, r) ==
    [Return(<<c.t>>, r) EXCEPT !.tree[c.t] = Linked(@, l.node, r.node)]
\* The arms of a call, by the names of their conditions.
LEMMA MkeCases ==
    ASSUME NEW g, NEW c
    PROVE  LET l == g[LeftCall(c)]
               r == g[RightCall(g, c)]
           IN  Mke(g, c) =
                 IF Idle(c) THEN Return(NULL, c)
                 ELSE IF NoFile(c) \/ NoOperand(c) THEN SyntaxError(NewNode(c))
                 ELSE IF ChildFailed(c.t, FindLeftToken(c.t, c.f, NewNode(c).used), l)
                      THEN Return(NULL, l)
                 ELSE IF ChildFailed(c.t, FindRightToken(c.t, c.e), r)
                      THEN Return(NULL, r)
                 ELSE WithChildren(c, l, r)
<1> DEFINE l == g[LeftCall(c)]
           r == g[RightCall(g, c)]
           linked == WithChildren(c, l, r)
<1>1. Mke(g, c) = IF Idle(c) THEN Return(NULL, c)
                  ELSE IF NoFile(c) THEN SyntaxError(NewNode(c))
                  ELSE SetChildren(g, c, NewNode(c))
  BY Zenon DEF Mke, Idle, NoFile, NULL
<1>2. SetChildren(g, c, NewNode(c)) =
          IF NoOperand(c) THEN SyntaxError(NewNode(c))
          ELSE IF ChildFailed(c.t, FindLeftToken(c.t, c.f, NewNode(c).used), l)
               THEN Return(NULL, l)
          ELSE IF ChildFailed(c.t, FindRightToken(c.t, c.e), r)
               THEN Return(NULL, r)
          ELSE linked
  BY Zenon DEF SetChildren, NoOperand, LeftCall, RightCall, WithChildren
<1> HIDE DEF linked, l, r
<1> QED
  BY <1>1, <1>2 DEF linked, l, r

\* What the forms of a result keep of another.
LEMMA ResultForms ==
    ASSUME NEW c \in Calls, c.t \in Places, NEW l \in Results, NEW r \in Results
    PROVE  /\ Return(NULL, r) \in Results
           /\ Return(NULL, r) = [node |-> NULL, tree |-> r.tree, used |-> r.used, status |-> r.status]
           /\ SyntaxError(r) \in Results
           /\ SyntaxError(r) = [node |-> NULL, tree |-> r.tree, used |-> r.used, status |-> 2]
           /\ Return(NULL, c) \in Results
           /\ Return(NULL, c) = [node |-> NULL, tree |-> c.tree, used |-> c.used, status |-> c.status]
           /\ WithChildren(c, l, r) \in Results
           /\ WithChildren(c, l, r) =
                [node |-> <<c.t>>,
                 tree |-> [r.tree EXCEPT ![c.t] =
                             [args |-> r.tree[c.t].args, file |-> r.tree[c.t].file,
                              left |-> l.node, right |-> r.node]],
                 used |-> r.used, status |-> r.status]
<1>1. /\ r.node \in Pointer /\ r.tree \in [Places -> Node] /\ r.used \in SUBSET Places
      /\ r.status \in 0..255 /\ l.node \in Pointer
      /\ r = [node |-> r.node, tree |-> r.tree, used |-> r.used, status |-> r.status]
  BY DEF Results
<1>2. NULL \in Pointer /\ <<c.t>> \in Pointer
  BY DEF Pointer
<1>3. /\ Return(NULL, r) \in Results
      /\ Return(NULL, r) = [node |-> NULL, tree |-> r.tree, used |-> r.used, status |-> r.status]
  BY <1>1, <1>2 DEF Results, Return
<1>4. /\ SyntaxError(r) \in Results
      /\ SyntaxError(r) = [node |-> NULL, tree |-> r.tree, used |-> r.used, status |-> 2]
  <2>1. [r EXCEPT !.status = 2] = [node |-> r.node, tree |-> r.tree, used |-> r.used, status |-> 2]
    BY DEF Results
  <2>2. SyntaxError(r) = [node |-> NULL, tree |-> r.tree, used |-> r.used, status |-> 2]
    BY <2>1 DEF SyntaxError, Return
  <2> QED
    BY <1>1, <1>2, <2>2 DEF Results
<1>5. /\ Return(NULL, c) \in Results
      /\ Return(NULL, c) = [node |-> NULL, tree |-> c.tree, used |-> c.used, status |-> c.status]
  BY <1>2 DEF Results, Return, Calls
<1> DEFINE nd == r.tree[c.t]
           nn == [args |-> nd.args, file |-> nd.file, left |-> l.node, right |-> r.node]
           tr == [r.tree EXCEPT ![c.t] = nn]
<1>6. nd \in Node
  BY <1>1
<1>7. nn \in Node
  BY <1>1, <1>6 DEF Node
<1>8. Linked(nd, l.node, r.node) = nn
  <2> DEFINE x == [nd EXCEPT !.left = l.node]
  <2>1. x = [args |-> nd.args, file |-> nd.file, left |-> l.node, right |-> nd.right]
    <3> HIDE DEF nd
    <3> QED
      BY <1>6 DEF Node
  <2> HIDE DEF x, nd
  <2>2. [x EXCEPT !.right = r.node] = nn
    BY <2>1
  <2> QED
    BY <2>2 DEF Linked, x
<1>9. tr \in [Places -> Node]
  <2> HIDE DEF nn
  <2> QED
    BY <1>1, <1>7
<1>10. WithChildren(c, l, r) = [node |-> <<c.t>>, tree |-> tr, used |-> r.used, status |-> r.status]
  <2>1. Return(<<c.t>>, r) = [node |-> <<c.t>>, tree |-> r.tree, used |-> r.used, status |-> r.status]
    BY DEF Return
  <2>2. WithChildren(c, l, r) = [[node |-> <<c.t>>, tree |-> r.tree, used |-> r.used, status |-> r.status]
                                    EXCEPT !.tree[c.t] = nn]
    <3> HIDE DEF nn
    <3> QED
      BY <1>8, <2>1 DEF WithChildren
  <2> HIDE DEF nn
  <2> QED
    BY <2>2
<1>11. [node |-> <<c.t>>, tree |-> tr, used |-> r.used, status |-> r.status] \in Results
  <2> HIDE DEF tr
  <2> QED
    BY <1>1, <1>2, <1>9 DEF Results
<1> QED
  BY <1>3, <1>4, <1>5, <1>10, <1>11

\* A call from c that comes after it.
Deeper(c) == {d \in Calls : c.used \subseteq d.used /\ c.used # d.used}

\* The function that is called returns results, and gives no token back.
Sound(g, D) == \A d \in D : g[d] \in Results /\ d.used \subseteq g[d].used

\* The two calls are deeper ones.
LEMMA CallsGoDeeper ==
    ASSUME tokens \in Lines, NEW c \in Calls, ~Idle(c), NEW g, Sound(g, Deeper(c))
    PROVE  /\ LeftCall(c) \in Deeper(c) /\ g[LeftCall(c)] \in Results
           /\ RightCall(g, c) \in Deeper(c) /\ g[RightCall(g, c)] \in Results
           /\ LeftCall(c).used \subseteq g[LeftCall(c)].used
           /\ RightCall(g, c).used = g[LeftCall(c)].used
           /\ g[LeftCall(c)].used \subseteq g[RightCall(g, c)].used
<1>1. c.t \notin c.used
  BY DEF Idle
<1>2. /\ LeftCall(c) \in Calls /\ c.used \subseteq LeftCall(c).used /\ c.t \in LeftCall(c).used
  BY CallsAreCalls
<1>3. LeftCall(c) \in Deeper(c)
  BY <1>1, <1>2 DEF Deeper
<1>4. g[LeftCall(c)] \in Results /\ LeftCall(c).used \subseteq g[LeftCall(c)].used
  BY <1>3 DEF Sound
<1>5. RightCall(g, c) \in Calls /\ RightCall(g, c).used = g[LeftCall(c)].used
  BY <1>4, CallsAreCalls
<1>6. c.used \subseteq RightCall(g, c).used /\ c.t \in RightCall(g, c).used
  BY <1>2, <1>4, <1>5
<1>7. RightCall(g, c) \in Deeper(c)
  BY <1>1, <1>5, <1>6 DEF Deeper
<1>8. g[RightCall(g, c)] \in Results /\ RightCall(g, c).used \subseteq g[RightCall(g, c)].used
  BY <1>7 DEF Sound
<1> QED
  BY <1>3, <1>4, <1>5, <1>7, <1>8

\* So a call returns a result, gives no token back, and depends on deeper ones only.
LEMMA MkeIsSound ==
    ASSUME tokens \in Lines, NEW c \in Calls, NEW g, Sound(g, Deeper(c))
    PROVE  Mke(g, c) \in Results /\ c.used \subseteq Mke(g, c).used
<1> DEFINE l == g[LeftCall(c)]
           r == g[RightCall(g, c)]
           n == NewNode(c)
<1>1. CASE Idle(c)
  <2>1. Mke(g, c) = Return(NULL, c)
    BY <1>1, MkeCases
  <2>2. Return(NULL, c) \in Results /\ Return(NULL, c).used = c.used
    BY DEF Return, Results, Calls, Pointer
  <2> QED
    BY <2>1, <2>2
<1>2. CASE ~Idle(c)
  <2>1. c.t \in Places /\ n \in Results /\ c.used \subseteq n.used
    <3>1. c.t \in Places
      BY <1>2, OwnIs
    <3>2. n \in Results /\ n.used = c.used \cup {c.t} \cup Set(ArgsOf(c)) \cup Set(FileOf(c))
      BY <1>2, NewNodeIs
    <3> HIDE DEF n
    <3> QED
      BY <3>1, <3>2
  <2>2. l \in Results /\ r \in Results /\ n.used \subseteq l.used /\ l.used \subseteq r.used
    <3>1. LeftCall(c).used = n.used
      BY <1>2, CallsAreCalls
    <3> QED
      BY <1>2, <3>1, CallsGoDeeper
  <2>3. \/ Mke(g, c) = SyntaxError(n)
        \/ Mke(g, c) = Return(NULL, l)
        \/ Mke(g, c) = Return(NULL, r)
        \/ Mke(g, c) = WithChildren(c, l, r)
    BY <1>2, MkeCases
  <2> HIDE DEF l, r, n
  <2>4. ASSUME NEW x \in Results
        PROVE  /\ SyntaxError(x) \in Results /\ SyntaxError(x).used = x.used
               /\ Return(NULL, x) \in Results /\ Return(NULL, x).used = x.used
               /\ WithChildren(c, l, x) \in Results /\ WithChildren(c, l, x).used = x.used
    <3>1. SyntaxError(x) \in Results /\ SyntaxError(x) = [node |-> NULL, tree |-> x.tree, used |-> x.used, status |-> 2]
      BY <2>1, <2>4, ResultForms
    <3>2. Return(NULL, x) \in Results /\ Return(NULL, x) = [node |-> NULL, tree |-> x.tree, used |-> x.used, status |-> x.status]
      BY <2>1, <2>4, ResultForms
    <3> DEFINE tr == [x.tree EXCEPT ![c.t] =
                             [args |-> x.tree[c.t].args, file |-> x.tree[c.t].file,
                              left |-> l.node, right |-> x.node]]
    <3>3. WithChildren(c, l, x) \in Results /\ WithChildren(c, l, x) = [node |-> <<c.t>>, tree |-> tr, used |-> x.used, status |-> x.status]
      BY <2>1, <2>2, <2>4, ResultForms
    <3> HIDE DEF tr
    <3>4. SyntaxError(x).used = x.used
      BY <3>1
    <3>5. Return(NULL, x).used = x.used
      BY <3>2
    <3>6. WithChildren(c, l, x).used = x.used
      BY <3>3
    <3> QED
      BY <3>1, <3>2, <3>3, <3>4, <3>5, <3>6
  <2> QED
    BY <2>1, <2>2, <2>3, <2>4
<1> QED
  BY <1>1, <1>2

\* The body reads the function it calls at deeper calls only.
LEMMA MkeLooksDeeper ==
    ASSUME tokens \in Lines, NEW c \in Calls, NEW g, NEW h,
           Sound(g, Deeper(c)), \A d \in Deeper(c) : g[d] = h[d]
    PROVE  Mke(g, c) = Mke(h, c)
<1>1. CASE Idle(c)
  BY <1>1, MkeCases
<1>2. CASE ~Idle(c)
  <2>1. LeftCall(c) \in Deeper(c) /\ RightCall(g, c) \in Deeper(c)
    BY <1>2, CallsGoDeeper
  <2>2. g[LeftCall(c)] = h[LeftCall(c)]
    BY <2>1
  <2>3. RightCall(g, c) = RightCall(h, c)
    BY <2>2 DEF RightCall
  <2>4. g[RightCall(g, c)] = h[RightCall(h, c)]
    BY <2>1, <2>3
  <2> QED
    BY <1>2, <2>2, <2>4, MkeCases
<1> QED
  BY <1>1, <1>2

\* The tokens left to use: fewer in deeper calls.
FreeIn(c) == Cardinality(Places \ c.used)
\* So there is no infinite chain of calls.
LEMMA FewerDeeper ==
    ASSUME tokens \in Lines, NEW c \in Calls
    PROVE  /\ FreeIn(c) \in 0..Len(tokens)
           /\ \A d \in Deeper(c) : d \in Calls /\ FreeIn(d) \in Nat /\ FreeIn(d) < FreeIn(c)
<1>1. IsFiniteSet(Places) /\ Len(tokens) \in Nat /\ Places = 1..Len(tokens)
  BY LineFacts DEF Places
<1>2. Cardinality(Places) = Len(tokens)
  <2>1. Len(tokens) # 0
    BY LineFacts
  <2>2. 1 \in Int /\ Len(tokens) \in Int
    BY <1>1
  <2>3. Cardinality(1..Len(tokens)) = IF 1 > Len(tokens) THEN 0 ELSE Len(tokens) - 1 + 1
    BY <2>2, FS_Interval
  <2> QED
    BY <1>1, <2>1, <2>3
<1>3. IsFiniteSet(Places \ c.used) /\ FreeIn(c) \in Nat /\ FreeIn(c) <= Len(tokens)
  <2>1. Places \ c.used \subseteq Places
    OBVIOUS
  <2>2. IsFiniteSet(Places \ c.used) /\ Cardinality(Places \ c.used) <= Cardinality(Places)
    BY <1>1, <2>1, FS_Subset
  <2> QED
    BY <1>2, <2>2, FS_CardinalityType DEF FreeIn
<1>4. ASSUME NEW d \in Deeper(c) PROVE d \in Calls /\ FreeIn(d) \in Nat /\ FreeIn(d) < FreeIn(c)
  <2>1. d \in Calls /\ c.used \subseteq d.used /\ c.used # d.used /\ d.used \subseteq Places
    BY DEF Deeper, Calls
  <2>2. Places \ d.used \subseteq Places \ c.used /\ Places \ d.used # Places \ c.used
    BY <2>1
  <2>3. /\ IsFiniteSet(Places \ d.used)
        /\ Cardinality(Places \ d.used) <= Cardinality(Places \ c.used)
        /\ Cardinality(Places \ d.used) = Cardinality(Places \ c.used)
              => Places \ d.used = Places \ c.used
    BY <1>3, <2>2, FS_Subset
  <2>4. FreeIn(d) \in Nat
    BY <2>3, FS_CardinalityType DEF FreeIn
  <2> QED
    BY <1>3, <2>1, <2>2, <2>3, <2>4 DEF FreeIn
<1> QED
  BY <1>3, <1>4

\* What holds of a call whenever it holds of all deeper ones holds of all calls.
LEMMA CallInduction ==
    ASSUME tokens \in Lines, NEW G,
           \A c \in Calls : Deeper(c) \subseteq G => c \in G
    PROVE  \A c \in Calls : c \in G
<1> DEFINE T == {FreeIn(c) : c \in Calls \ G}
<1> SUFFICES ASSUME NEW b \in Calls, b \notin G PROVE FALSE
  OBVIOUS
<1>1. T \subseteq Nat /\ T # {}
  BY FewerDeeper
<1>2. MinOf(T) \in T /\ \A k \in T : MinOf(T) <= k
  <2> HIDE DEF T
  <2> QED
    BY <1>1, MinOfIs
<1>3. PICK c \in Calls \ G : MinOf(T) = FreeIn(c)
  BY <1>2
<1>4. PICK d \in Deeper(c) : d \notin G
  BY <1>3
<1>5. d \in Calls /\ FreeIn(d) \in Nat /\ FreeIn(c) \in Nat /\ FreeIn(d) < FreeIn(c)
  BY <1>3, <1>4, FewerDeeper
<1>6. FreeIn(d) \in T
  BY <1>4, <1>5
<1>7. FreeIn(c) <= FreeIn(d)
  BY <1>2, <1>3, <1>6
<1> QED
  BY <1>5, <1>7

\* There is a function with mke_yggdrasil's equation.
LEMMA MkeExists ==
    ASSUME tokens \in Lines
    PROVE  \E g : g = [c \in Calls |-> Mke(g, c)]
<1> DEFINE F == [Calls -> Results]
           Upto(m) == {c \in Calls : FreeIn(c) <= m}
           Good(g, m) == \A c \in Upto(m) : g[c] = Mke(g, c) /\ c.used \subseteq g[c].used
           S == {m \in 0..Len(tokens) : \E g \in F : Good(g, m)}
<1>1. Len(tokens) \in Nat
  BY LineFacts
<1>2. ASSUME NEW m \in 0..Len(tokens), NEW g \in F,
             \A c \in Calls : FreeIn(c) < m => g[c] = Mke(g, c) /\ c.used \subseteq g[c].used
      PROVE  \E h \in F : Good(h, m)
  <2> DEFINE h == [c \in Calls |-> IF FreeIn(c) <= m THEN Mke(g, c) ELSE g[c]]
  <2>1. \A c \in Upto(m) : \A d \in Deeper(c) : d \in Calls /\ FreeIn(d) < m
    <3> SUFFICES ASSUME NEW c \in Upto(m), NEW d \in Deeper(c) PROVE d \in Calls /\ FreeIn(d) < m
      OBVIOUS
    <3>1. c \in Calls /\ FreeIn(c) <= m
      OBVIOUS
    <3>2. d \in Calls /\ FreeIn(d) \in Nat /\ FreeIn(c) \in Nat /\ FreeIn(d) < FreeIn(c)
      BY <3>1, FewerDeeper
    <3> QED
      BY <3>1, <3>2
  <2>2. \A c \in Upto(m) : Sound(g, Deeper(c))
    BY <1>2, <2>1 DEF Sound
  <2>3. \A c \in Upto(m) : Mke(g, c) \in Results /\ c.used \subseteq Mke(g, c).used
    BY <2>2, MkeIsSound
  <2>4. h \in F
    BY <2>3
  <2>5. ASSUME NEW c \in Upto(m) PROVE \A d \in Deeper(c) : g[d] = h[d]
    <3> SUFFICES ASSUME NEW d \in Deeper(c) PROVE g[d] = h[d]
      OBVIOUS
    <3>1. d \in Calls /\ FreeIn(d) < m /\ g[d] = Mke(g, d)
      BY <1>2, <2>1
    <3> QED
      BY <3>1
  <2>6. ASSUME NEW c \in Upto(m) PROVE h[c] = Mke(h, c) /\ c.used \subseteq h[c].used
    <3>1. Mke(g, c) = Mke(h, c)
      <4>1. c \in Calls /\ Sound(g, Deeper(c)) /\ \A d \in Deeper(c) : g[d] = h[d]
        BY <2>2, <2>5
      <4> HIDE DEF h
      <4> QED
        BY <4>1, MkeLooksDeeper
    <3>2. h[c] = Mke(g, c)
      OBVIOUS
    <3> QED
      BY <2>3, <3>1, <3>2
  <2> HIDE DEF h
  <2> QED
    BY <2>4, <2>6
<1>3. 0 \in S
  <2>1. PICK g \in F : TRUE
    <3>1. [node |-> NULL, tree |-> [n \in Places |-> Blank], used |-> {}, status |-> 0] \in Results
      <4>1. Blank \in Node
        BY DEF Blank, Node, Pointer, NULL
      <4> QED
        BY <4>1 DEF Results, Pointer
    <3> DEFINE x == [node |-> NULL, tree |-> [n \in Places |-> Blank], used |-> {}, status |-> 0]
    <3> HIDE DEF x
    <3>2. [c \in Calls |-> x] \in F
      BY <3>1 DEF x
    <3> QED
      BY <3>2
  <2>2. \A c \in Calls : ~(FreeIn(c) < 0)
    BY FewerDeeper
  <2>3. 0 \in 0..Len(tokens)
    BY <1>1
  <2>4. \E h \in F : Good(h, 0)
    <3> HIDE DEF F, Good
    <3> QED
      BY <1>2, <2>1, <2>2, <2>3
  <2> QED
    BY <2>3, <2>4
<1>4. ASSUME NEW m \in 1..Len(tokens), m - 1 \in S PROVE m \in S
  <2>1. PICK g \in F : Good(g, m - 1)
    BY <1>4
  <2>2. \A c \in Calls : FreeIn(c) < m => FreeIn(c) <= m - 1
    BY FewerDeeper
  <2>3. \A c \in Calls : FreeIn(c) < m => g[c] = Mke(g, c) /\ c.used \subseteq g[c].used
    BY <2>1, <2>2
  <2>4. m \in 0..Len(tokens)
    BY <1>1
  <2>5. \E h \in F : Good(h, m)
    <3> HIDE DEF F, Good
    <3> QED
      BY <1>2, <2>3, <2>4
  <2> QED
    BY <2>4, <2>5
<1>5. Len(tokens) \in S
  <2>1. \A m \in 0..Len(tokens) : m \in S
    <3> HIDE DEF S
    <3> QED
      BY <1>1, <1>3, <1>4, UpToAll
  <2> QED
    BY <1>1, <2>1
<1>6. PICK g \in F : Good(g, Len(tokens))
  BY <1>5
<1>7. \A c \in Calls : g[c] = Mke(g, c)
  <2>1. \A c \in Calls : FreeIn(c) <= Len(tokens)
    BY <1>1, FewerDeeper
  <2> QED
    BY <1>6, <2>1
<1>8. g = [c \in Calls |-> Mke(g, c)]
  BY <1>7
<1> QED
  BY <1>8

\* mke_yggdrasil is such a function; it returns results, and gives no token back.
LEMMA MkeYggdrasilIs ==
    ASSUME tokens \in Lines, NEW c \in Calls
    PROVE  /\ MkeYggdrasil[c] = Mke(MkeYggdrasil, c)
           /\ Sound(MkeYggdrasil, Deeper(c))
           /\ MkeYggdrasil[c] \in Results /\ c.used \subseteq MkeYggdrasil[c].used
<1>1. MkeYggdrasil = [d \in Calls |-> Mke(MkeYggdrasil, d)]
  <2>1. \E g : g = [d \in Calls |-> Mke(g, d)]
    BY MkeExists
  <2> QED
    BY <2>1, Zenon DEF MkeYggdrasil
<1> DEFINE M == MkeYggdrasil
           G == {d \in Calls : M[d] \in Results /\ d.used \subseteq M[d].used}
<1>2. \A d \in Calls : M[d] = Mke(M, d)
  BY <1>1
<1>3. ASSUME NEW d \in Calls, Deeper(d) \subseteq G PROVE d \in G
  <2>1. Sound(M, Deeper(d))
    BY <1>3 DEF Sound
  <2>2. Mke(M, d) \in Results /\ d.used \subseteq Mke(M, d).used
    <3> HIDE DEF M
    <3> QED
      BY <2>1, MkeIsSound
  <2> QED
    BY <1>2, <2>2
<1>4. \A d \in Calls : d \in G
  <2> HIDE DEF G
  <2> QED
    BY <1>3, CallInduction
<1>5. Sound(M, Deeper(c))
  BY <1>4 DEF Sound, Deeper
<1> QED
  BY <1>2, <1>4, <1>5

-----------------------------------------------------------------------------
(***************************************************************************)
(* A call of mke_yggdrasil, with the two calls it makes.                   *)
(***************************************************************************)
M == MkeYggdrasil
LeftOf(c)  == M[LeftCall(c)]
RightOf(c) == M[RightCall(M, c)]
WithBoth(c) ==
    [RightOf(c).tree EXCEPT ![c.t] =
        [args |-> RightOf(c).tree[c.t].args, file |-> RightOf(c).tree[c.t].file,
         left |-> LeftOf(c).node, right |-> RightOf(c).node]]

\* The calls, and their results.
LEMMA CallsOf ==
    ASSUME tokens \in Lines, NEW c \in Calls, ~Idle(c)
    PROVE  /\ LeftCall(c) \in Deeper(c) /\ LeftCall(c) \in Calls /\ LeftOf(c) \in Results
           /\ RightCall(M, c) \in Deeper(c) /\ RightCall(M, c) \in Calls /\ RightOf(c) \in Results
           /\ NewNode(c) \in Results
           /\ LeftCall(c).used = NewNode(c).used /\ LeftCall(c).tree = NewNode(c).tree
           /\ LeftCall(c).status = c.status /\ LeftCall(c).f = c.f /\ LeftCall(c).e = c.t
           /\ LeftCall(c).t = FindLeftToken(c.t, c.f, NewNode(c).used)
           /\ RightCall(M, c).used = LeftOf(c).used /\ RightCall(M, c).tree = LeftOf(c).tree
           /\ RightCall(M, c).status = LeftOf(c).status /\ RightCall(M, c).f = c.t
           /\ RightCall(M, c).e = c.e /\ RightCall(M, c).t = FindRightToken(c.t, c.e)
           /\ NewNode(c).used = c.used \cup {c.t} \cup Set(ArgsOf(c)) \cup Set(FileOf(c))
           /\ NewNode(c).tree = [c.tree EXCEPT ![c.t] = OwnNode(c)]
           /\ NewNode(c).status = c.status
           /\ NewNode(c).used \subseteq LeftOf(c).used /\ LeftOf(c).used \subseteq RightOf(c).used
<1>1. Sound(M, Deeper(c))
  BY MkeYggdrasilIs DEF M
<1>2. /\ LeftCall(c) \in Deeper(c) /\ LeftOf(c) \in Results
      /\ RightCall(M, c) \in Deeper(c) /\ RightOf(c) \in Results
      /\ LeftCall(c).used \subseteq LeftOf(c).used /\ LeftOf(c).used \subseteq RightOf(c).used
  BY <1>1, CallsGoDeeper DEF LeftOf, RightOf
<1>3. LeftCall(c) \in Calls /\ RightCall(M, c) \in Calls
  BY <1>2 DEF Deeper
<1>4. /\ LeftCall(c).used = NewNode(c).used /\ LeftCall(c).tree = NewNode(c).tree
      /\ LeftCall(c).status = c.status /\ LeftCall(c).f = c.f /\ LeftCall(c).e = c.t
      /\ LeftCall(c).t = FindLeftToken(c.t, c.f, NewNode(c).used)
  BY CallsAreCalls
<1>5. /\ RightCall(M, c).used = LeftOf(c).used /\ RightCall(M, c).tree = LeftOf(c).tree
      /\ RightCall(M, c).status = LeftOf(c).status /\ RightCall(M, c).f = c.t
      /\ RightCall(M, c).e = c.e /\ RightCall(M, c).t = FindRightToken(c.t, c.e)
  <2>1. M[LeftCall(c)] \in Results
    BY <1>2 DEF LeftOf
  <2> QED
    BY <2>1, CallsAreCalls DEF LeftOf
<1> DEFINE u == c.used \cup {c.t} \cup Set(ArgsOf(c)) \cup Set(FileOf(c))
           tr == [c.tree EXCEPT ![c.t] = OwnNode(c)]
<1>6. /\ NewNode(c) = [node |-> <<c.t>>, tree |-> tr, used |-> u, status |-> c.status]
      /\ NewNode(c) \in Results
  BY NewNodeIs
<1>7. NewNode(c).used = u /\ NewNode(c).tree = tr /\ NewNode(c).status = c.status
  <2> HIDE DEF u, tr
  <2> QED
    BY <1>6
<1> QED
  BY <1>2, <1>3, <1>4, <1>5, <1>6, <1>7

\* Children are looked for where they may be, and the left one is not used.
LEMMA ChildrenAre ==
    ASSUME tokens \in Lines, NEW c \in Calls, ~Idle(c)
    PROVE  /\ LET lt == LeftCall(c).t
                  free == FreeBefore(c.t, c.f, NewNode(c).used)
              IN  /\ lt = Eof => free = {}
                  /\ lt # Eof => /\ FirstOf(lt, free) /\ lt \in Places /\ c.f <= lt /\ lt < c.t
                                 /\ lt \notin NewNode(c).used /\ ~Idle(LeftCall(c))
           /\ LET rt == RightCall(M, c).t IN
                  rt # Eof => /\ FirstOf(rt, LowerAfter(c.t, c.e)) /\ rt \in Places
                              /\ c.t < rt /\ rt < c.e
                              /\ (Idle(RightCall(M, c)) => rt \in RightCall(M, c).used)
           /\ c.t \in Places /\ Places \subseteq Nat /\ c.f \in Nat /\ c.e \in Nat
<1>1. Len(tokens) \in Nat /\ Eof = Len(tokens) + 1 /\ Places = 1..Len(tokens)
  BY LineFacts DEF Eof, Places
<1>2. c.t \in Places /\ c.f \in Places /\ c.e \in 1..Eof
  BY OwnIs
<1> DEFINE lt == LeftCall(c).t
           rt == RightCall(M, c).t
           free == FreeBefore(c.t, c.f, NewNode(c).used)
           lower == LowerAfter(c.t, c.e)
<1>3. lt = FindLeftToken(c.t, c.f, NewNode(c).used) /\ rt = FindRightToken(c.t, c.e)
  BY CallsOf
<1>4. /\ lt = Eof => free = {}
      /\ lt # Eof => FirstOf(lt, free)
  BY <1>2, <1>3, FindLeftIs
<1>5. rt # Eof => FirstOf(rt, lower)
  BY <1>2, <1>3, FindRightIs
<1>6. ASSUME lt # Eof
      PROVE  /\ lt \in Places /\ c.f <= lt /\ lt < c.t /\ lt \notin NewNode(c).used
             /\ ~Idle(LeftCall(c))
  <2>1. lt \in free
    BY <1>4, <1>6 DEF FirstOf
  <2>2. lt \in c.f..(c.t - 1) /\ lt \notin NewNode(c).used
    BY <2>1 DEF FreeBefore
  <2>3. LeftCall(c).e = c.t /\ LeftCall(c).used = NewNode(c).used
    BY CallsOf
  <2> HIDE DEF lt
  <2>4. lt \in Places /\ c.f <= lt /\ lt < c.t
    BY <1>1, <1>2, <2>2
  <2> QED
    BY <1>2, <1>6, <2>2, <2>3, <2>4, <1>1 DEF Idle, lt
<1>7. ASSUME rt # Eof
      PROVE  /\ rt \in Places /\ c.t < rt /\ rt < c.e
             /\ (Idle(RightCall(M, c)) => rt \in RightCall(M, c).used)
  <2>1. rt \in (c.t + 1)..(c.e - 1)
    BY <1>5, <1>7 DEF FirstOf, LowerAfter
  <2>2. RightCall(M, c).e = c.e
    BY CallsOf
  <2> HIDE DEF rt
  <2>3. rt \in Places /\ c.t < rt /\ rt < c.e
    BY <1>1, <1>2, <2>1
  <2> QED
    BY <1>1, <1>2, <1>7, <2>2, <2>3 DEF Idle, rt
<1>8. Places \subseteq Nat /\ c.f \in Nat /\ c.e \in Nat
  BY <1>1, <1>2
<1> QED
  BY <1>2, <1>4, <1>5, <1>6, <1>7, <1>8

\* A token that was not idle is used; so check_child_node_errors never finds a child
\* that is still to be had, and gives up only for a pipe.
LEMMA TokenIsUsed ==
    ASSUME tokens \in Lines, NEW c \in Calls, ~Idle(c)
    PROVE  c.t \in M[c].used
<1>1. /\ NewNode(c) \in Results /\ LeftOf(c) \in Results /\ RightOf(c) \in Results
      /\ c.t \in NewNode(c).used /\ c.t \in LeftOf(c).used /\ c.t \in RightOf(c).used
  BY CallsOf
<1>2. c.t \in Places
  BY OwnIs
<1>3. /\ SyntaxError(NewNode(c)).used = NewNode(c).used
      /\ Return(NULL, LeftOf(c)).used = LeftOf(c).used
      /\ Return(NULL, RightOf(c)).used = RightOf(c).used
      /\ WithChildren(c, LeftOf(c), RightOf(c)).used = RightOf(c).used
  <2>1. SyntaxError(NewNode(c)).used = NewNode(c).used
    <3> DEFINE n == NewNode(c)
    <3>1. SyntaxError(n) = [node |-> NULL, tree |-> n.tree, used |-> n.used, status |-> 2]
      BY <1>1, <1>2, ResultForms
    <3> HIDE DEF n
    <3>2. SyntaxError(n).used = n.used
      BY <3>1
    <3> QED
      BY <3>2 DEF n
  <2>2. ASSUME NEW x \in Results PROVE Return(NULL, x).used = x.used
    BY DEF Return
  <2>3. WithChildren(c, LeftOf(c), RightOf(c)) =
            [node |-> <<c.t>>, tree |-> WithBoth(c), used |-> RightOf(c).used, status |-> RightOf(c).status]
    BY <1>1, <1>2, ResultForms DEF WithBoth
  <2>4. WithChildren(c, LeftOf(c), RightOf(c)).used = RightOf(c).used
    BY <2>3
  <2> QED
    BY <1>1, <2>1, <2>2, <2>4
<1>4. \/ M[c] = SyntaxError(NewNode(c))
      \/ M[c] = Return(NULL, LeftOf(c))
      \/ M[c] = Return(NULL, RightOf(c))
      \/ M[c] = WithChildren(c, LeftOf(c), RightOf(c))
  <2>1. M[c] = Mke(M, c)
    BY MkeYggdrasilIs DEF M
  <2> QED
    BY <2>1, MkeCases DEF LeftOf, RightOf
<1> QED
  BY <1>1, <1>3, <1>4

\* check_child_node_errors sees the failed children of pipes only: a token is used
\* as soon as its node is made, so has_left and has_right are false by then.
LEMMA FailsForPipes ==
    ASSUME tokens \in Lines, NEW c \in Calls, ~Idle(c)
    PROVE  /\ ChildFailed(c.t, LeftCall(c).t, LeftOf(c)) <=>
                LeftOf(c).node = NULL /\ tokens[c.t] = "|" /\ LeftCall(c).t # Eof
           /\ ChildFailed(c.t, RightCall(M, c).t, RightOf(c)) <=>
                RightOf(c).node = NULL /\ tokens[c.t] = "|" /\ RightCall(M, c).t # Eof
<1>1. ~HasOperand(LeftCall(c).t, LeftOf(c))
  <2>1. LeftCall(c).t # Eof => ~Idle(LeftCall(c))
    BY ChildrenAre
  <2>2. LeftCall(c).t # Eof => LeftCall(c).t \in LeftOf(c).used
    BY <2>1, CallsOf, TokenIsUsed DEF LeftOf
  <2> QED
    BY <2>2 DEF HasOperand
<1>2. ~HasOperand(RightCall(M, c).t, RightOf(c))
  <2>1. CASE Idle(RightCall(M, c))
    <3>1. RightCall(M, c).t # Eof => RightCall(M, c).t \in RightOf(c).used
      BY <2>1, ChildrenAre, CallsOf
    <3> QED
      BY <3>1 DEF HasOperand
  <2>2. CASE ~Idle(RightCall(M, c))
    <3>1. RightCall(M, c).t \in RightOf(c).used
      BY <2>2, CallsOf, TokenIsUsed DEF RightOf
    <3> QED
      BY <3>1 DEF HasOperand
  <2> QED
    BY <2>1, <2>2
<1> QED
  BY <1>1, <1>2 DEF ChildFailed

\* So a call has one of five outcomes.
Refuses(c) == NoFile(c) \/ NoOperand(c)
LeftMissing(c)  == tokens[c.t] = "|" /\ LeftCall(c).t # Eof /\ LeftOf(c).node = NULL
RightMissing(c) == tokens[c.t] = "|" /\ RightCall(M, c).t # Eof /\ RightOf(c).node = NULL
Gives(c, p, tr, u, st) == M[c] = [node |-> p, tree |-> tr, used |-> u, status |-> st]
\* Nothing, a syntax error, the failure of a child, or a node with its children.
LEMMA Outcomes ==
    ASSUME tokens \in Lines, NEW c \in Calls
    PROVE  /\ Idle(c) => Gives(c, NULL, c.tree, c.used, c.status)
           /\ ~Idle(c) =>
                \/ Refuses(c) /\ Gives(c, NULL, NewNode(c).tree, NewNode(c).used, 2)
                \/ /\ ~Refuses(c) /\ LeftMissing(c)
                   /\ Gives(c, NULL, LeftOf(c).tree, LeftOf(c).used, LeftOf(c).status)
                \/ /\ ~Refuses(c) /\ ~LeftMissing(c) /\ RightMissing(c)
                   /\ Gives(c, NULL, RightOf(c).tree, RightOf(c).used, RightOf(c).status)
                \/ /\ ~Refuses(c) /\ ~LeftMissing(c) /\ ~RightMissing(c)
                   /\ Gives(c, <<c.t>>, WithBoth(c), RightOf(c).used, RightOf(c).status)
                   /\ tokens[c.t] = "|" => /\ LeftCall(c).t # Eof /\ LeftOf(c).node # NULL
                                           /\ RightCall(M, c).t # Eof /\ RightOf(c).node # NULL
<1>1. M[c] = Mke(M, c)
  BY MkeYggdrasilIs DEF M
<1>2. CASE Idle(c)
  BY <1>1, <1>2, MkeCases DEF Return, Gives
<1>3. CASE ~Idle(c)
  <2>1. /\ NewNode(c) \in Results /\ LeftOf(c) \in Results /\ RightOf(c) \in Results /\ c.t \in Places
        /\ LeftCall(c).t = FindLeftToken(c.t, c.f, NewNode(c).used)
        /\ RightCall(M, c).t = FindRightToken(c.t, c.e)
    BY <1>3, CallsOf, OwnIs
  <2>2. M[c] = IF Refuses(c) THEN SyntaxError(NewNode(c))
               ELSE IF LeftMissing(c) THEN Return(NULL, LeftOf(c))
               ELSE IF RightMissing(c) THEN Return(NULL, RightOf(c))
               ELSE WithChildren(c, LeftOf(c), RightOf(c))
    <3>1. M[c] = IF Refuses(c) THEN SyntaxError(NewNode(c))
                 ELSE IF ChildFailed(c.t, LeftCall(c).t, LeftOf(c)) THEN Return(NULL, LeftOf(c))
                 ELSE IF ChildFailed(c.t, RightCall(M, c).t, RightOf(c)) THEN Return(NULL, RightOf(c))
                 ELSE WithChildren(c, LeftOf(c), RightOf(c))
      BY <1>1, <1>3, <2>1, MkeCases DEF LeftOf, RightOf, Refuses
    <3>2. /\ ChildFailed(c.t, LeftCall(c).t, LeftOf(c)) <=> LeftMissing(c)
          /\ ChildFailed(c.t, RightCall(M, c).t, RightOf(c)) <=> RightMissing(c)
      BY <1>3, FailsForPipes DEF LeftMissing, RightMissing
    <3> QED
      BY <3>1, <3>2
  <2>3. SyntaxError(NewNode(c)) = [node |-> NULL, tree |-> NewNode(c).tree, used |-> NewNode(c).used, status |-> 2]
    BY <2>1, ResultForms
  <2>8. WithChildren(c, LeftOf(c), RightOf(c)) =
            [node |-> <<c.t>>, tree |-> WithBoth(c), used |-> RightOf(c).used, status |-> RightOf(c).status]
    BY <2>1, ResultForms DEF WithBoth
  <2>4. CASE Refuses(c)
    BY <1>3, <2>2, <2>3, <2>4 DEF Gives
  <2>5. CASE ~Refuses(c) /\ LeftMissing(c)
    BY <1>3, <2>2, <2>5 DEF Gives, Return
  <2>6. CASE ~Refuses(c) /\ ~LeftMissing(c) /\ RightMissing(c)
    BY <1>3, <2>2, <2>6 DEF Gives, Return
  <2>7. CASE ~Refuses(c) /\ ~LeftMissing(c) /\ ~RightMissing(c)
    <3>1. tokens[c.t] = "|" => LeftCall(c).t # Eof /\ RightCall(M, c).t # Eof
      BY <2>1, <2>7 DEF Refuses, NoOperand
    <3>2. tokens[c.t] = "|" => LeftOf(c).node # NULL /\ RightOf(c).node # NULL
      BY <2>7, <3>1 DEF LeftMissing, RightMissing
    <3>3. Gives(c, <<c.t>>, WithBoth(c), RightOf(c).used, RightOf(c).status)
      BY <2>2, <2>7, <2>8 DEF Gives
    <3> QED
      BY <1>3, <2>7, <3>1, <3>2, <3>3
  <2> QED
    BY <2>4, <2>5, <2>6, <2>7
<1> QED
  BY <1>2, <1>3

\* The same, part by part.
Yields(c, p, tr, u, st) == M[c].node = p /\ M[c].tree = tr /\ M[c].used = u /\ M[c].status = st
\* What each outcome leaves in the tree and the status.
LEMMA OutcomeIs ==
    ASSUME tokens \in Lines, NEW c \in Calls, ~Idle(c)
    PROVE  /\ Refuses(c) => Yields(c, NULL, NewNode(c).tree, NewNode(c).used, 2)
           /\ ~Refuses(c) /\ LeftMissing(c) =>
                Yields(c, NULL, LeftOf(c).tree, LeftOf(c).used, LeftOf(c).status)
           /\ ~Refuses(c) /\ ~LeftMissing(c) /\ RightMissing(c) =>
                Yields(c, NULL, RightOf(c).tree, RightOf(c).used, RightOf(c).status)
           /\ ~Refuses(c) /\ ~LeftMissing(c) /\ ~RightMissing(c) =>
                Yields(c, <<c.t>>, WithBoth(c), RightOf(c).used, RightOf(c).status)
<1>1. ASSUME NEW p, NEW tr, NEW u, NEW st, Gives(c, p, tr, u, st) PROVE Yields(c, p, tr, u, st)
  BY <1>1 DEF Gives, Yields
<1>2. CASE Refuses(c)
  <2>1. Gives(c, NULL, NewNode(c).tree, NewNode(c).used, 2)
    BY <1>2, Outcomes
  <2> QED
    BY <1>1, <1>2, <2>1
<1>3. CASE ~Refuses(c) /\ LeftMissing(c)
  <2>1. Gives(c, NULL, LeftOf(c).tree, LeftOf(c).used, LeftOf(c).status)
    BY <1>3, Outcomes
  <2> QED
    BY <1>1, <1>3, <2>1
<1>4. CASE ~Refuses(c) /\ ~LeftMissing(c) /\ RightMissing(c)
  <2>1. Gives(c, NULL, RightOf(c).tree, RightOf(c).used, RightOf(c).status)
    BY <1>4, Outcomes
  <2> QED
    BY <1>1, <1>4, <2>1
<1>5. CASE ~Refuses(c) /\ ~LeftMissing(c) /\ ~RightMissing(c)
  <2>1. Gives(c, <<c.t>>, WithBoth(c), RightOf(c).used, RightOf(c).status)
    BY <1>5, Outcomes
  <2> QED
    BY <1>1, <1>5, <2>1
<1> QED
  BY <1>2, <1>3, <1>4, <1>5

\* The node is the token's, and the status the call's or that of a syntax error.
LEMMA NodeIs ==
    ASSUME tokens \in Lines, NEW c \in Calls
    PROVE  /\ M[c].node = NULL \/ (M[c].node = <<c.t>> /\ ~Idle(c))
           /\ Idle(c) => M[c].node = NULL /\ M[c].tree = c.tree /\ M[c].used = c.used
<1>1. ASSUME NEW p, NEW tr, NEW u, NEW st, Gives(c, p, tr, u, st)
      PROVE  M[c].node = p /\ M[c].tree = tr /\ M[c].used = u /\ M[c].status = st
  BY <1>1 DEF Gives
<1> QED
  BY <1>1, Outcomes

\* No status but the one a call was given, and that of a syntax error.
LEMMA StatusIs ==
    ASSUME tokens \in Lines, NEW c \in Calls
    PROVE  M[c].status \in {c.status, 2}
<1> DEFINE G == {d \in Calls : M[d].status \in {d.status, 2}}
<1>1. ASSUME NEW d \in Calls, Deeper(d) \subseteq G PROVE d \in G
  <2>1. CASE Idle(d)
    <3>1. Gives(d, NULL, d.tree, d.used, d.status)
      BY <2>1, Outcomes
    <3>2. M[d].status = d.status
      BY <3>1 DEF Gives
    <3> QED
      BY <3>2
  <2>2. CASE ~Idle(d)
    <3>1. LeftCall(d) \in G /\ RightCall(M, d) \in G
      BY <1>1, <2>2, CallsOf
    <3>2. LeftOf(d).status \in {d.status, 2} /\ RightOf(d).status \in {d.status, 2}
      BY <2>2, <3>1, CallsOf DEF LeftOf, RightOf
    <3>3. \E p, tr, u : \E st \in {d.status, 2} : Gives(d, p, tr, u, st)
      BY <2>2, <3>2, Outcomes
    <3>4. M[d].status \in {d.status, 2}
      BY <3>3 DEF Gives
    <3> QED
      BY <3>4
  <2> QED
    BY <2>1, <2>2
<1>2. \A d \in Calls : d \in G
  <2> HIDE DEF G
  <2> QED
    BY <1>1, CallInduction
<1> QED
  BY <1>2

\* Two calls that differ in their status alone make the same node and the same tree.
SameCall(c, d) == c.t = d.t /\ c.f = d.f /\ c.e = d.e /\ c.tree = d.tree /\ c.used = d.used
SameResult(r, x) == r.node = x.node /\ r.tree = x.tree /\ r.used = x.used
\* By induction over the calls: no arm that is taken depends on the status.
LEMMA StatusIsNoInput ==
    ASSUME tokens \in Lines, NEW c \in Calls, NEW d \in Calls, SameCall(c, d)
    PROVE  SameResult(M[c], M[d])
<1> DEFINE G == {a \in Calls : \A b \in Calls : SameCall(a, b) => SameResult(M[a], M[b])}
<1>1. ASSUME NEW a \in Calls, Deeper(a) \subseteq G PROVE a \in G
  <2> SUFFICES ASSUME NEW b \in Calls, SameCall(a, b) PROVE SameResult(M[a], M[b])
    OBVIOUS
  <2>0. Idle(a) <=> Idle(b)
    BY DEF SameCall, Idle
  <2>1. CASE Idle(a)
    <3>1. /\ M[a].node = NULL /\ M[a].tree = a.tree /\ M[a].used = a.used
          /\ M[b].node = NULL /\ M[b].tree = b.tree /\ M[b].used = b.used
      BY <2>0, <2>1, NodeIs
    <3> QED
      BY <3>1 DEF SameCall, SameResult
  <2>2. CASE ~Idle(a)
    <3>1. ArgsOf(a) = ArgsOf(b) /\ FileOf(a) = FileOf(b)
      BY DEF SameCall, ArgsOf, FileOf
    <3>2. OwnNode(a) = OwnNode(b)
      BY <3>1 DEF OwnNode
    <3>3. NewNode(a).tree = NewNode(b).tree /\ NewNode(a).used = NewNode(b).used
      <4>1. /\ NewNode(a).used = a.used \cup {a.t} \cup Set(ArgsOf(a)) \cup Set(FileOf(a))
            /\ NewNode(a).tree = [a.tree EXCEPT ![a.t] = OwnNode(a)]
        BY <2>2, CallsOf
      <4>2. /\ NewNode(b).used = b.used \cup {b.t} \cup Set(ArgsOf(b)) \cup Set(FileOf(b))
            /\ NewNode(b).tree = [b.tree EXCEPT ![b.t] = OwnNode(b)]
        BY <2>0, <2>2, CallsOf
      <4> QED
        BY <3>1, <3>2, <4>1, <4>2 DEF SameCall
    <3>4. LeftCall(a) \in Calls /\ LeftCall(b) \in Calls /\ SameCall(LeftCall(a), LeftCall(b))
      <4>1. /\ LeftCall(a) \in Calls /\ LeftCall(a).used = NewNode(a).used
            /\ LeftCall(a).tree = NewNode(a).tree
            /\ LeftCall(a).f = a.f /\ LeftCall(a).e = a.t
            /\ LeftCall(a).t = FindLeftToken(a.t, a.f, NewNode(a).used)
        BY <2>2, CallsOf
      <4>2. /\ LeftCall(b) \in Calls /\ LeftCall(b).used = NewNode(b).used
            /\ LeftCall(b).tree = NewNode(b).tree
            /\ LeftCall(b).f = b.f /\ LeftCall(b).e = b.t
            /\ LeftCall(b).t = FindLeftToken(b.t, b.f, NewNode(b).used)
        BY <2>0, <2>2, CallsOf
      <4> QED
        BY <3>3, <4>1, <4>2 DEF SameCall
    <3>5. SameResult(LeftOf(a), LeftOf(b))
      <4>1. LeftCall(a) \in G
        BY <1>1, <2>2, CallsOf
      <4> QED
        BY <3>4, <4>1 DEF LeftOf
    <3>6. RightCall(M, a) \in Calls /\ RightCall(M, b) \in Calls /\ SameCall(RightCall(M, a), RightCall(M, b))
      <4>1. /\ RightCall(M, a) \in Calls /\ RightCall(M, a).used = LeftOf(a).used
            /\ RightCall(M, a).tree = LeftOf(a).tree
            /\ RightCall(M, a).f = a.t /\ RightCall(M, a).e = a.e
            /\ RightCall(M, a).t = FindRightToken(a.t, a.e)
        BY <2>2, CallsOf
      <4>2. /\ RightCall(M, b) \in Calls /\ RightCall(M, b).used = LeftOf(b).used
            /\ RightCall(M, b).tree = LeftOf(b).tree
            /\ RightCall(M, b).f = b.t /\ RightCall(M, b).e = b.e
            /\ RightCall(M, b).t = FindRightToken(b.t, b.e)
        BY <2>0, <2>2, CallsOf
      <4> QED
        BY <3>5, <4>1, <4>2 DEF SameCall, SameResult
    <3>7. SameResult(RightOf(a), RightOf(b))
      <4>1. RightCall(M, a) \in G
        BY <1>1, <2>2, CallsOf
      <4> QED
        BY <3>6, <4>1 DEF RightOf
    <3>8. Refuses(a) <=> Refuses(b)
      BY <3>1, <3>3 DEF SameCall, Refuses, NoFile, NoOperand
    <3>9. (LeftMissing(a) <=> LeftMissing(b)) /\ (RightMissing(a) <=> RightMissing(b))
      BY <3>4, <3>5, <3>6, <3>7 DEF SameCall, SameResult, LeftMissing, RightMissing
    <3>10. WithBoth(a) = WithBoth(b) /\ a.t = b.t
      BY <3>5, <3>7 DEF SameCall, SameResult, WithBoth
    <3>12. CASE Refuses(a)
      <4>1. M[a].node = NULL /\ M[a].tree = NewNode(a).tree /\ M[a].used = NewNode(a).used
        BY <2>2, <3>12, OutcomeIs DEF Yields
      <4>2. M[b].node = NULL /\ M[b].tree = NewNode(b).tree /\ M[b].used = NewNode(b).used
        BY <2>0, <2>2, <3>8, <3>12, OutcomeIs DEF Yields
      <4> QED
        BY <3>3, <4>1, <4>2 DEF SameResult
    <3>13. CASE ~Refuses(a) /\ LeftMissing(a)
      <4>1. M[a].node = NULL /\ M[a].tree = LeftOf(a).tree /\ M[a].used = LeftOf(a).used
        BY <2>2, <3>13, OutcomeIs DEF Yields
      <4>2. M[b].node = NULL /\ M[b].tree = LeftOf(b).tree /\ M[b].used = LeftOf(b).used
        BY <2>0, <2>2, <3>8, <3>9, <3>13, OutcomeIs DEF Yields
      <4> QED
        BY <3>5, <4>1, <4>2 DEF SameResult
    <3>14. CASE ~Refuses(a) /\ ~LeftMissing(a) /\ RightMissing(a)
      <4>1. M[a].node = NULL /\ M[a].tree = RightOf(a).tree /\ M[a].used = RightOf(a).used
        BY <2>2, <3>14, OutcomeIs DEF Yields
      <4>2. M[b].node = NULL /\ M[b].tree = RightOf(b).tree /\ M[b].used = RightOf(b).used
        BY <2>0, <2>2, <3>8, <3>9, <3>14, OutcomeIs DEF Yields
      <4> QED
        BY <3>7, <4>1, <4>2 DEF SameResult
    <3>15. CASE ~Refuses(a) /\ ~LeftMissing(a) /\ ~RightMissing(a)
      <4>1. M[a].node = <<a.t>> /\ M[a].tree = WithBoth(a) /\ M[a].used = RightOf(a).used
        BY <2>2, <3>15, OutcomeIs DEF Yields
      <4>2. M[b].node = <<b.t>> /\ M[b].tree = WithBoth(b) /\ M[b].used = RightOf(b).used
        BY <2>0, <2>2, <3>8, <3>9, <3>15, OutcomeIs DEF Yields
      <4> QED
        BY <3>7, <3>10, <4>1, <4>2 DEF SameResult
    <3> QED
      BY <3>12, <3>13, <3>14, <3>15
  <2> QED
    BY <2>1, <2>2
<1>2. \A a \in Calls : a \in G
  <2> HIDE DEF G
  <2> QED
    BY <1>1, CallInduction
<1> QED
  BY <1>2

-----------------------------------------------------------------------------
(***************************************************************************)
(* The nodes a call makes hold tokens of its own, each of them once.       *)
(***************************************************************************)
\* The nodes of N hold tokens of N, but none of F.
Within(tr, N, F) == \A n \in N : \A x \in NodeFields : \A j \in DOMAIN tr[n][x] : tr[n][x][j] \in N \ F
\* And no token twice.
Once(tr, N) == \A m, n \in N : \A x, y \in NodeFields :
    \A j \in DOMAIN tr[m][x], k \in DOMAIN tr[n][y] :
        tr[m][x][j] = tr[n][y][k] => m = n /\ x = y /\ j = k
Tidy(tr, N, F) == Within(tr, N, F) /\ Once(tr, N)
\* Nodes that were not made yet.
Fresh(tr, used) == \A n \in Places : n \notin used => tr[n] = Blank

\* A NULL pointer points at no node.
LEMMA NullIs ==
    DOMAIN NULL = {} /\ Set(NULL) = {}
<1>1. DOMAIN NULL = {}
  BY DEF NULL
<1> QED
  BY <1>1, SetOfOne

\* The fields of a blank node are empty.
LEMMA BlankIs ==
    ASSUME NEW x \in NodeFields
    PROVE  Blank[x] = NULL
<1>1. Blank = [args |-> NULL, file |-> NULL, left |-> NULL, right |-> NULL]
  BY DEF Blank, NULL
<1> QED
  BY <1>1 DEF NodeFields

\* A pointer's places.
LEMMA PointerSet ==
    ASSUME NEW p \in Pointer
    PROVE  /\ \A j \in DOMAIN p : j = 1 /\ p[j] \in Set(p)
           /\ Set(p) \subseteq Places /\ \A n, m \in Set(p) : n = m
<1>1. CASE p = NULL
  BY <1>1, NullIs
<1>2. ASSUME NEW n \in Places, p = <<n>> PROVE DOMAIN p = {1} /\ p[1] = n /\ Set(p) = {n}
  <2>1. Set(<<n>>) = {n}
    BY SetOfOne
  <2>2. DOMAIN <<n>> = {1} /\ <<n>>[1] = n
    OBVIOUS
  <2> QED
    BY <1>2, <2>1, <2>2
<1>3. p = NULL \/ \E n \in Places : p = <<n>>
  BY PointerIs
<1>4. CASE p # NULL
  <2>1. PICK n \in Places : p = <<n>>
    BY <1>3, <1>4
  <2>2. DOMAIN p = {1} /\ p[1] = n /\ Set(p) = {n}
    BY <1>2, <2>1
  <2> QED
    BY <2>2
<1> QED
  BY <1>1, <1>4

\* Two tidy regions that are apart are a tidy one.
LEMMA TidyUnion ==
    ASSUME NEW tr, NEW N, NEW K, NEW E, NEW F, N \cap K = {}, E \subseteq N, F \subseteq K,
           Tidy(tr, N, E), Tidy(tr, K, F)
    PROVE  Tidy(tr, N \cup K, E \cup F)
<1>1. Within(tr, N \cup K, E \cup F)
  BY DEF Tidy, Within
<1>2. ASSUME NEW m \in N \cup K, NEW n \in N \cup K, NEW x \in NodeFields, NEW y \in NodeFields,
             NEW j \in DOMAIN tr[m][x], NEW k \in DOMAIN tr[n][y], tr[m][x][j] = tr[n][y][k]
      PROVE  m = n /\ x = y /\ j = k
  <2>1. CASE m \in N /\ n \in N
    BY <1>2, <2>1 DEF Tidy, Once
  <2>2. CASE m \in K /\ n \in K
    BY <1>2, <2>2 DEF Tidy, Once
  <2>3. CASE m \in N /\ n \in K
    <3>1. tr[m][x][j] \in N /\ tr[n][y][k] \in K
      BY <2>3 DEF Tidy, Within
    <3> QED
      BY <1>2, <3>1
  <2>4. CASE m \in K /\ n \in N
    <3>1. tr[m][x][j] \in K /\ tr[n][y][k] \in N
      BY <2>4 DEF Tidy, Within
    <3> QED
      BY <1>2, <3>1
  <2> QED
    BY <2>1, <2>2, <2>3, <2>4
<1> QED
  BY <1>1, <1>2 DEF Tidy, Once

\* Tidiness is a matter of the region's nodes alone.
LEMMA TidyKept ==
    ASSUME NEW tr, NEW ts, NEW N, NEW E, NEW F, Tidy(tr, N, E), \A n \in N : ts[n] = tr[n], F \subseteq E
    PROVE  Tidy(ts, N, F)
<1>1. Within(ts, N, F)
  BY DEF Tidy, Within
<1>2. Once(ts, N)
  BY DEF Tidy, Once
<1> QED
  BY <1>1, <1>2 DEF Tidy

\* A node that is given two children nobody holds.
LEMMA TidyLink ==
    ASSUME NEW tr \in [Places -> Node], NEW N \in SUBSET Places, NEW t \in N,
           NEW p \in Pointer, NEW q \in Pointer,
           Set(p) \subseteq N \ {t}, Set(q) \subseteq N \ {t}, Set(p) \cap Set(q) = {},
           Tidy(tr, N, {t} \cup Set(p) \cup Set(q)),
           NEW ts, ts = [tr EXCEPT ![t] = [args |-> tr[t].args, file |-> tr[t].file, left |-> p, right |-> q]]
    PROVE  Tidy(ts, N, {t})
<1> DEFINE F == {t} \cup Set(p) \cup Set(q)
           Kept0(m, x) == m # t \/ x \in {"args", "file"}
<1>1. ASSUME NEW m \in N, NEW x \in NodeFields
      PROVE  /\ Kept0(m, x) => ts[m][x] = tr[m][x]
             /\ m = t /\ x = "left" => ts[m][x] = p
             /\ m = t /\ x = "right" => ts[m][x] = q
             /\ Kept0(m, x) \/ (m = t /\ x = "left") \/ (m = t /\ x = "right")
  <2>1. m # t => ts[m] = tr[m]
    OBVIOUS
  <2>2. ts[t] = [args |-> tr[t].args, file |-> tr[t].file, left |-> p, right |-> q]
    OBVIOUS
  <2>3. /\ ts[t]["args"] = tr[t]["args"] /\ ts[t]["file"] = tr[t]["file"]
        /\ ts[t]["left"] = p /\ ts[t]["right"] = q
    BY <2>2
  <2> QED
    BY <2>1, <2>3 DEF NodeFields
<1>2. ASSUME NEW m \in N, NEW x \in NodeFields, NEW j \in DOMAIN ts[m][x]
      PROVE  /\ Kept0(m, x) => j \in DOMAIN tr[m][x] /\ ts[m][x][j] = tr[m][x][j] /\ ts[m][x][j] \in N \ F
             /\ m = t /\ x = "left" => j = 1 /\ ts[m][x][j] \in Set(p)
             /\ m = t /\ x = "right" => j = 1 /\ ts[m][x][j] \in Set(q)
  <2>1. CASE Kept0(m, x)
    <3>1. ts[m][x] = tr[m][x]
      BY <1>1, <2>1
    <3>2. tr[m][x][j] \in N \ F
      BY <3>1 DEF Tidy, Within
    <3> QED
      BY <2>1, <3>1, <3>2
  <2>2. CASE m = t /\ x = "left"
    <3>1. ts[m][x] = p
      BY <1>1, <2>2
    <3> QED
      BY <2>2, <3>1, PointerSet
  <2>3. CASE m = t /\ x = "right"
    <3>1. ts[m][x] = q
      BY <1>1, <2>3
    <3> QED
      BY <2>3, <3>1, PointerSet
  <2> QED
    BY <1>1, <2>1, <2>2, <2>3
<1>3. Within(ts, N, {t})
  <2> SUFFICES ASSUME NEW m \in N, NEW x \in NodeFields, NEW j \in DOMAIN ts[m][x]
               PROVE  ts[m][x][j] \in N \ {t}
    BY DEF Within
  <2> QED
    BY <1>1, <1>2
<1>4. ASSUME NEW m \in N, NEW n \in N, NEW x \in NodeFields, NEW y \in NodeFields,
             NEW j \in DOMAIN ts[m][x], NEW k \in DOMAIN ts[n][y], ts[m][x][j] = ts[n][y][k]
      PROVE  m = n /\ x = y /\ j = k
  <2> HIDE DEF Kept0
  <2>1. CASE Kept0(m, x) /\ Kept0(n, y)
    <3>1. /\ j \in DOMAIN tr[m][x] /\ ts[m][x][j] = tr[m][x][j]
          /\ k \in DOMAIN tr[n][y] /\ ts[n][y][k] = tr[n][y][k]
      BY <1>2, <2>1
    <3> QED
      BY <1>4, <3>1 DEF Tidy, Once
  <2>2. CASE Kept0(m, x) /\ ~Kept0(n, y)
    <3>1. ts[m][x][j] \in N \ F /\ ts[n][y][k] \in F
      BY <1>1, <1>2, <2>2
    <3> QED
      BY <1>4, <3>1
  <2>3. CASE ~Kept0(m, x) /\ Kept0(n, y)
    <3>1. ts[n][y][k] \in N \ F /\ ts[m][x][j] \in F
      BY <1>1, <1>2, <2>3
    <3> QED
      BY <1>4, <3>1
  <2>4. CASE ~Kept0(m, x) /\ ~Kept0(n, y)
    <3>1. /\ m = t /\ j = 1 /\ ((x = "left" /\ ts[m][x][j] \in Set(p)) \/ (x = "right" /\ ts[m][x][j] \in Set(q)))
      BY <1>1, <1>2, <2>4
    <3>2. /\ n = t /\ k = 1 /\ ((y = "left" /\ ts[n][y][k] \in Set(p)) \/ (y = "right" /\ ts[n][y][k] \in Set(q)))
      BY <1>1, <1>2, <2>4
    <3> QED
      BY <1>4, <3>1, <3>2
  <2> QED
    BY <2>1, <2>2, <2>3, <2>4
<1>5. Once(ts, N)
  BY <1>4 DEF Once
<1> QED
  BY <1>3, <1>5 DEF Tidy

\* What a new node takes for itself.
Own(c) == {c.t} \cup Set(ArgsOf(c)) \cup Set(FileOf(c))
\* None of it was used, and the node holds each of these tokens once.
LEMMA OwnIsTidy ==
    ASSUME tokens \in Lines, NEW c \in Calls, ~Idle(c), Fresh(c.tree, c.used)
    PROVE  /\ Own(c) \subseteq Places /\ Own(c) \cap c.used = {} /\ NewNode(c).used = c.used \cup Own(c)
           /\ c.t \in Own(c)
           /\ Tidy(NewNode(c).tree, Own(c), {c.t})
           /\ \A n \in Places : n # c.t => NewNode(c).tree[n] = c.tree[n]
           /\ Fresh(NewNode(c).tree, NewNode(c).used)
<1> DEFINE tr == NewNode(c).tree
           t == c.t
           a == ArgsOf(c)
           fl == FileOf(c)
<1>1. /\ t \in Places /\ t \notin c.used /\ a \in Seq(Places) /\ fl \in Seq(Places)
      /\ Set(a) \subseteq Places /\ Set(fl) \subseteq Places
      /\ Set(a) \cap (c.used \cup {t}) = {} /\ Set(fl) \cap (c.used \cup {t}) = {}
      /\ a = NULL \/ fl = NULL
  BY OwnIs
<1>2. c.tree \in [Places -> Node]
  BY DEF Calls
<1>3. tr = [c.tree EXCEPT ![t] = OwnNode(c)] /\ NewNode(c).used = c.used \cup {t} \cup Set(a) \cup Set(fl)
  BY CallsOf
<1>4. Own(c) \subseteq Places /\ Own(c) \cap c.used = {} /\ NewNode(c).used = c.used \cup Own(c) /\ t \in Own(c)
  BY <1>1, <1>3 DEF Own
<1>5. \A n \in Places : n # t => tr[n] = c.tree[n]
  <2> HIDE DEF t
  <2> QED
    BY <1>2, <1>3
<1>6. Fresh(tr, NewNode(c).used)
  BY <1>1, <1>4, <1>5 DEF Fresh
<1>7. ASSUME NEW n \in Own(c), n # t, NEW x \in NodeFields PROVE tr[n][x] = NULL
  <2>1. n \in Places /\ n \notin c.used
    BY <1>4
  <2>2. tr[n] = Blank
    BY <1>5, <1>7, <2>1 DEF Fresh
  <2> QED
    BY <2>2, BlankIs
<1>8. tr[t]["args"] = a /\ tr[t]["file"] = fl /\ tr[t]["left"] = NULL /\ tr[t]["right"] = NULL
  <2>1. tr[t] = OwnNode(c)
    <3> HIDE DEF t
    <3> QED
      BY <1>1, <1>2, <1>3
  <2>2. OwnNode(c) = [args |-> a, file |-> fl, left |-> NULL, right |-> NULL]
    BY DEF OwnNode
  <2> HIDE DEF a, fl, tr, t
  <2> QED
    BY <2>1, <2>2
<1>9. \A i, j \in DOMAIN a : a[i] = a[j] => i = j
  <2>1. CASE a = NULL
    BY <2>1, NullIs
  <2>2. CASE Gathered(t + 1, a, c.used \cup {t})
    <3>1. DOMAIN a = 1..Len(a) /\ Len(a) \in Nat
      BY <1>1
    <3>2. \A i, j \in 1..Len(a) : i < j => a[i] < a[j]
      BY <2>2 DEF Gathered
    <3>3. \A i \in 1..Len(a) : a[i] \in Nat
      BY <1>1, LineFacts
    <3> HIDE DEF a
    <3> SUFFICES ASSUME NEW i \in 1..Len(a), NEW j \in 1..Len(a), a[i] = a[j] PROVE i = j
      BY <3>1
    <3>4. a[i] \in Nat /\ a[j] \in Nat /\ (i < j => a[i] < a[j]) /\ (j < i => a[j] < a[i])
      BY <3>2, <3>3
    <3> QED
      BY <3>1, <3>4
  <2> QED
    BY <2>1, <2>2, OwnIs
<1>10. \A i, j \in DOMAIN fl : i = j
  <2>1. fl = NULL \/ \E n \in Places : fl = <<n>>
    BY OwnIs
  <2>2. fl \in Pointer
    BY <2>1 DEF Pointer
  <2> HIDE DEF fl
  <2> QED
    BY <2>2, PointerSet
<1>11. ASSUME NEW m \in Own(c), NEW x \in NodeFields, NEW j \in DOMAIN tr[m][x]
       PROVE  /\ m = t
              /\ \/ x = "args" /\ fl = NULL /\ j \in DOMAIN a /\ tr[m][x][j] = a[j] /\ a[j] \in Set(a)
                 \/ x = "file" /\ a = NULL /\ j \in DOMAIN fl /\ tr[m][x][j] = fl[j] /\ fl[j] \in Set(fl)
  <2>1. tr[m][x] # NULL
    BY NullIs
  <2>2. m = t
    BY <1>7, <2>1
  <2>3. x = "args" \/ x = "file"
    BY <1>8, <2>1, <2>2 DEF NodeFields
  <2> HIDE DEF a, fl, tr, t
  <2>4. CASE x = "args"
    <3>1. tr[m][x] = a /\ a # NULL
      BY <1>8, <2>1, <2>2, <2>4
    <3>2. a[j] \in Set(a)
      BY <3>1 DEF Set
    <3> QED
      BY <1>1, <2>2, <2>4, <3>1, <3>2
  <2>5. CASE x = "file"
    <3>1. tr[m][x] = fl /\ fl # NULL
      BY <1>8, <2>1, <2>2, <2>5
    <3>2. fl[j] \in Set(fl)
      BY <3>1 DEF Set
    <3> QED
      BY <1>1, <2>2, <2>5, <3>1, <3>2
  <2> QED
    BY <2>3, <2>4, <2>5
<1> HIDE DEF a, fl, tr, t
<1>12. Within(tr, Own(c), {t})
  <2> SUFFICES ASSUME NEW m \in Own(c), NEW x \in NodeFields, NEW j \in DOMAIN tr[m][x]
               PROVE  tr[m][x][j] \in Own(c) \ {t}
    BY DEF Within
  <2>1. tr[m][x][j] \in Set(a) \cup Set(fl)
    BY <1>11
  <2> QED
    BY <1>1, <2>1 DEF Own, a, fl, t
<1>13. Once(tr, Own(c))
  <2> SUFFICES ASSUME NEW m \in Own(c), NEW n \in Own(c), NEW x \in NodeFields, NEW y \in NodeFields,
                      NEW j \in DOMAIN tr[m][x], NEW k \in DOMAIN tr[n][y], tr[m][x][j] = tr[n][y][k]
               PROVE  m = n /\ x = y /\ j = k
    BY DEF Once
  <2>1. /\ m = t
        /\ \/ x = "args" /\ fl = NULL /\ j \in DOMAIN a /\ tr[m][x][j] = a[j]
           \/ x = "file" /\ a = NULL /\ j \in DOMAIN fl /\ tr[m][x][j] = fl[j]
    BY <1>11
  <2>2. /\ n = t
        /\ \/ y = "args" /\ fl = NULL /\ k \in DOMAIN a /\ tr[n][y][k] = a[k]
           \/ y = "file" /\ a = NULL /\ k \in DOMAIN fl /\ tr[n][y][k] = fl[k]
    BY <1>11
  <2> QED
    BY <1>9, <1>10, <2>1, <2>2, NullIs
<1> QED
  BY <1>4, <1>5, <1>6, <1>12, <1>13 DEF Tidy, tr, t

\* What a call adds to the used tokens are the nodes it changes.
Taken(c) == M[c].used \ c.used
TidyCall(c) == Fresh(c.tree, c.used) =>
    /\ \A n \in Places : n \notin Taken(c) => M[c].tree[n] = c.tree[n]
    /\ Tidy(M[c].tree, Taken(c), {c.t})

\* The three regions of a call: what the node takes, and what its children do.
LEMMA Regions ==
    ASSUME tokens \in Lines, NEW c \in Calls, ~Idle(c), Fresh(c.tree, c.used),
           TidyCall(LeftCall(c)), TidyCall(RightCall(M, c))
    PROVE  LET O == Own(c)
               A == Taken(LeftCall(c))
               B == Taken(RightCall(M, c))
           IN  /\ O \subseteq Places /\ A \subseteq Places /\ B \subseteq Places
               /\ O \cap A = {} /\ O \cap B = {} /\ A \cap B = {} /\ c.t \in O
               /\ (O \cup A \cup B) \cap c.used = {}
               /\ NewNode(c).used = c.used \cup O /\ LeftOf(c).used = c.used \cup O \cup A
               /\ RightOf(c).used = c.used \cup O \cup A \cup B
               /\ \A n \in Places : n # c.t => NewNode(c).tree[n] = c.tree[n]
               /\ \A n \in Places \ A : LeftOf(c).tree[n] = NewNode(c).tree[n]
               /\ \A n \in Places \ B : RightOf(c).tree[n] = LeftOf(c).tree[n]
               /\ Tidy(NewNode(c).tree, O, {c.t})
               /\ Tidy(LeftOf(c).tree, A, {LeftCall(c).t})
               /\ Tidy(RightOf(c).tree, B, {RightCall(M, c).t})
               /\ Fresh(LeftCall(c).tree, LeftCall(c).used)
               /\ Fresh(RightCall(M, c).tree, RightCall(M, c).used)
               /\ Set(LeftOf(c).node) \subseteq A \cap {LeftCall(c).t}
               /\ Set(RightOf(c).node) \subseteq B \cap {RightCall(M, c).t}
<1> DEFINE lc == LeftCall(c)
           rc == RightCall(M, c)
           A == Taken(lc)
           B == Taken(rc)
<1>1. /\ lc \in Calls /\ rc \in Calls /\ LeftOf(c) \in Results /\ RightOf(c) \in Results
      /\ lc.used = NewNode(c).used /\ lc.tree = NewNode(c).tree
      /\ rc.used = LeftOf(c).used /\ rc.tree = LeftOf(c).tree
      /\ NewNode(c).used \subseteq LeftOf(c).used /\ LeftOf(c).used \subseteq RightOf(c).used
  BY CallsOf
<1>2. /\ Own(c) \subseteq Places /\ Own(c) \cap c.used = {} /\ NewNode(c).used = c.used \cup Own(c)
      /\ c.t \in Own(c)
      /\ Tidy(NewNode(c).tree, Own(c), {c.t})
      /\ \A n \in Places : n # c.t => NewNode(c).tree[n] = c.tree[n]
      /\ Fresh(NewNode(c).tree, NewNode(c).used)
  BY OwnIsTidy
<1>3. M[lc] = LeftOf(c) /\ M[rc] = RightOf(c)
  BY DEF LeftOf, RightOf
<1>4. LeftOf(c).used \subseteq Places /\ RightOf(c).used \subseteq Places
  BY <1>1 DEF Results
<1>5. A = LeftOf(c).used \ NewNode(c).used /\ B = RightOf(c).used \ LeftOf(c).used
  BY <1>1, <1>3 DEF Taken
<1> HIDE DEF lc, rc
<1>6. /\ A \subseteq Places /\ B \subseteq Places
      /\ Own(c) \cap A = {} /\ Own(c) \cap B = {} /\ A \cap B = {}
      /\ (Own(c) \cup A \cup B) \cap c.used = {}
      /\ LeftOf(c).used = c.used \cup Own(c) \cup A
      /\ RightOf(c).used = c.used \cup Own(c) \cup A \cup B
  BY <1>1, <1>2, <1>4, <1>5
<1>7. Fresh(lc.tree, lc.used)
  BY <1>1, <1>2
<1>8. /\ \A n \in Places : n \notin A => LeftOf(c).tree[n] = NewNode(c).tree[n]
      /\ Tidy(LeftOf(c).tree, A, {lc.t})
  <2>1. TidyCall(lc)
    BY DEF lc
  <2> QED
    BY <1>1, <1>3, <1>7, <2>1 DEF TidyCall
<1>9. Fresh(rc.tree, rc.used)
  <2> SUFFICES ASSUME NEW n \in Places, n \notin rc.used PROVE rc.tree[n] = Blank
    BY DEF Fresh
  <2>1. n \notin A /\ n \notin NewNode(c).used
    BY <1>1, <1>5
  <2>2. rc.tree[n] = NewNode(c).tree[n]
    BY <1>1, <1>8, <2>1
  <2> QED
    BY <1>2, <2>1, <2>2 DEF Fresh
<1>10. /\ \A n \in Places : n \notin B => RightOf(c).tree[n] = LeftOf(c).tree[n]
       /\ Tidy(RightOf(c).tree, B, {rc.t})
  <2>1. TidyCall(rc)
    BY DEF rc
  <2> QED
    BY <1>1, <1>3, <1>9, <2>1 DEF TidyCall
<1>11. ASSUME NEW d \in Calls PROVE Set(M[d].node) \subseteq Taken(d) \cap {d.t}
  <2>1. CASE M[d].node = NULL
    BY <2>1, NullIs
  <2>2. CASE M[d].node = <<d.t>> /\ ~Idle(d)
    <3>1. Set(M[d].node) = {d.t}
      BY <2>2, SetOfOne
    <3>2. d.t \in M[d].used /\ d.t \notin d.used
      BY <2>2, TokenIsUsed DEF Idle
    <3> QED
      BY <3>1, <3>2 DEF Taken
  <2> QED
    BY <2>1, <2>2, NodeIs
<1>12. Set(LeftOf(c).node) \subseteq A \cap {lc.t} /\ Set(RightOf(c).node) \subseteq B \cap {rc.t}
  BY <1>1, <1>3, <1>11
<1> QED
  BY <1>2, <1>6, <1>7, <1>8, <1>9, <1>10, <1>12 DEF lc, rc

\* So every call leaves the nodes of others alone, and its own ones tidy.
LEMMA MkeIsTidy ==
    ASSUME tokens \in Lines, NEW c \in Calls
    PROVE  TidyCall(c)
<1> DEFINE G == {d \in Calls : TidyCall(d)}
<1>1. ASSUME NEW d \in Calls, Deeper(d) \subseteq G PROVE d \in G
  <2> SUFFICES ASSUME Fresh(d.tree, d.used)
               PROVE  /\ \A n \in Places : n \notin Taken(d) => M[d].tree[n] = d.tree[n]
                      /\ Tidy(M[d].tree, Taken(d), {d.t})
    BY DEF TidyCall
  <2>1. CASE Idle(d)
    <3>1. M[d].tree = d.tree /\ M[d].used = d.used
      BY <2>1, NodeIs
    <3>2. Taken(d) = {}
      BY <3>1 DEF Taken
    <3>3. Tidy(M[d].tree, {}, {d.t})
      BY DEF Tidy, Within, Once
    <3> QED
      BY <3>1, <3>2, <3>3
  <2>2. CASE ~Idle(d)
    <3> DEFINE O == Own(d)
               A == Taken(LeftCall(d))
               B == Taken(RightCall(M, d))
               lt == LeftCall(d).t
               rt == RightCall(M, d).t
    <3>1. TidyCall(LeftCall(d)) /\ TidyCall(RightCall(M, d))
      BY <1>1, <2>2, CallsOf
    <3>2. /\ O \subseteq Places /\ A \subseteq Places /\ B \subseteq Places
          /\ O \cap A = {} /\ O \cap B = {} /\ A \cap B = {} /\ d.t \in O
          /\ (O \cup A \cup B) \cap d.used = {}
          /\ NewNode(d).used = d.used \cup O /\ LeftOf(d).used = d.used \cup O \cup A
          /\ RightOf(d).used = d.used \cup O \cup A \cup B
          /\ \A n \in Places : n # d.t => NewNode(d).tree[n] = d.tree[n]
          /\ \A n \in Places \ A : LeftOf(d).tree[n] = NewNode(d).tree[n]
          /\ \A n \in Places \ B : RightOf(d).tree[n] = LeftOf(d).tree[n]
          /\ Tidy(NewNode(d).tree, O, {d.t})
          /\ Tidy(LeftOf(d).tree, A, {lt})
          /\ Tidy(RightOf(d).tree, B, {rt})
          /\ Set(LeftOf(d).node) \subseteq A \cap {lt}
          /\ Set(RightOf(d).node) \subseteq B \cap {rt}
      BY <2>2, <3>1, Regions
    <3>3. /\ LeftOf(d) \in Results /\ RightOf(d) \in Results /\ d.t \in Places
      BY <2>2, CallsOf, OwnIs
    <3>4. /\ RightOf(d).tree \in [Places -> Node] /\ LeftOf(d).node \in Pointer
          /\ RightOf(d).node \in Pointer
      BY <3>3 DEF Results
    <3> HIDE DEF O, A, B, lt, rt
    <3> DEFINE L == Set(LeftOf(d).node)
               R == Set(RightOf(d).node)
    <3>5. Tidy(LeftOf(d).tree, O \cup A, {d.t} \cup L)
      <4>1. Tidy(LeftOf(d).tree, O, {d.t})
        BY <3>2, TidyKept
      <4>2. Tidy(LeftOf(d).tree, A, L)
        BY <3>2, TidyKept
      <4> QED
        BY <3>2, <4>1, <4>2, TidyUnion
    <3>6. Tidy(RightOf(d).tree, O \cup A \cup B, {d.t} \cup L \cup R)
      <4>1. Tidy(RightOf(d).tree, O \cup A, {d.t} \cup L)
        <5>1. \A n \in O \cup A : RightOf(d).tree[n] = LeftOf(d).tree[n]
          BY <3>2
        <5> HIDE DEF L
        <5> QED
          BY <3>5, <5>1, TidyKept
      <4>2. Tidy(RightOf(d).tree, B, R)
        BY <3>2, TidyKept
      <4>3. (O \cup A) \cap B = {} /\ {d.t} \cup L \subseteq O \cup A /\ R \subseteq B
        BY <3>2
      <4> HIDE DEF L, R
      <4> QED
        BY <4>1, <4>2, <4>3, TidyUnion
    <3>7. /\ L \subseteq (O \cup A \cup B) \ {d.t} /\ R \subseteq (O \cup A \cup B) \ {d.t}
          /\ L \cap R = {} /\ O \cup A \cup B \in SUBSET Places
      BY <3>2
    <3>8. Tidy(WithBoth(d), O \cup A \cup B, {d.t})
      <4> DEFINE N == O \cup A \cup B
                 tr == RightOf(d).tree
      <4>1. d.t \in N
        BY <3>2
      <4>2. WithBoth(d) = [tr EXCEPT ![d.t] = [args |-> tr[d.t].args, file |-> tr[d.t].file,
                                               left |-> LeftOf(d).node, right |-> RightOf(d).node]]
        BY DEF WithBoth
      <4> HIDE DEF N
      <4>3. Tidy(tr, N, {d.t} \cup Set(LeftOf(d).node) \cup Set(RightOf(d).node))
        BY <3>6 DEF N
      <4>4. /\ Set(LeftOf(d).node) \subseteq N \ {d.t} /\ Set(RightOf(d).node) \subseteq N \ {d.t}
            /\ Set(LeftOf(d).node) \cap Set(RightOf(d).node) = {} /\ N \in SUBSET Places
        BY <3>7 DEF N
      <4>5. Tidy(WithBoth(d), N, {d.t})
        BY <3>4, <4>1, <4>2, <4>3, <4>4, TidyLink
      <4> QED
        BY <4>5 DEF N
    <3>9. \A n \in Places : n # d.t => WithBoth(d)[n] = RightOf(d).tree[n]
      BY <3>4 DEF WithBoth
    <3> HIDE DEF L, R
    <3>10. CASE Refuses(d)
      <4>1. M[d].tree = NewNode(d).tree /\ M[d].used = NewNode(d).used
        BY <2>2, <3>10, OutcomeIs DEF Yields
      <4>2. Taken(d) = O
        BY <3>2, <4>1 DEF Taken
      <4> QED
        BY <3>2, <4>1, <4>2
    <3>11. CASE ~Refuses(d) /\ LeftMissing(d)
      <4>1. M[d].tree = LeftOf(d).tree /\ M[d].used = LeftOf(d).used
        BY <2>2, <3>11, OutcomeIs DEF Yields
      <4>2. Taken(d) = O \cup A
        BY <3>2, <4>1 DEF Taken
      <4>3. Tidy(LeftOf(d).tree, O \cup A, {d.t})
        BY <3>5, TidyKept
      <4>4. \A n \in Places : n \notin O \cup A => LeftOf(d).tree[n] = d.tree[n]
        BY <3>2
      <4> QED
        BY <4>1, <4>2, <4>3, <4>4
    <3>12. CASE ~Refuses(d) /\ ~LeftMissing(d) /\ RightMissing(d)
      <4>1. M[d].tree = RightOf(d).tree /\ M[d].used = RightOf(d).used
        BY <2>2, <3>12, OutcomeIs DEF Yields
      <4>2. Taken(d) = O \cup A \cup B
        BY <3>2, <4>1 DEF Taken
      <4>3. Tidy(RightOf(d).tree, O \cup A \cup B, {d.t})
        BY <3>6, TidyKept
      <4>4. \A n \in Places : n \notin O \cup A \cup B => RightOf(d).tree[n] = d.tree[n]
        BY <3>2
      <4> QED
        BY <4>1, <4>2, <4>3, <4>4
    <3>13. CASE ~Refuses(d) /\ ~LeftMissing(d) /\ ~RightMissing(d)
      <4>1. M[d].tree = WithBoth(d) /\ M[d].used = RightOf(d).used
        BY <2>2, <3>13, OutcomeIs DEF Yields
      <4>2. Taken(d) = O \cup A \cup B
        BY <3>2, <4>1 DEF Taken
      <4>4. \A n \in Places : n \notin O \cup A \cup B => WithBoth(d)[n] = d.tree[n]
        BY <3>2, <3>9
      <4> QED
        BY <3>8, <4>1, <4>2, <4>4
    <3> QED
      BY <3>10, <3>11, <3>12, <3>13
  <2> QED
    BY <2>1, <2>2
<1>2. \A d \in Calls : d \in G
  <2> HIDE DEF G
  <2> QED
    BY <1>1, CallInduction
<1> QED
  BY <1>2

-----------------------------------------------------------------------------
(***************************************************************************)
(* Stages: what a call takes when its part of the line has no pipes.       *)
(***************************************************************************)
Stage(n) == PipesBefore(n) + 1

\* Pipes can be counted.
LEMMA PipesBeforeIs ==
    ASSUME tokens \in Lines, NEW j
    PROVE  PipesBefore(j) \in Nat /\ IsFiniteSet({k \in Places : k < j /\ tokens[k] = "|"})
<1>1. IsFiniteSet(Places)
  BY LineFacts
<1>2. {k \in Places : k < j /\ tokens[k] = "|"} \in SUBSET Places
  OBVIOUS
<1>3. IsFiniteSet({k \in Places : k < j /\ tokens[k] = "|"})
  BY <1>1, <1>2, FS_Subset
<1> QED
  BY <1>3, FS_CardinalityType DEF PipesBefore

\* Without a pipe between two places they have the same pipes before them, with one
\* there is one more.
LEMMA SameStage ==
    ASSUME tokens \in Lines, NEW i \in 1..Eof, NEW j \in 1..Eof, i <= j,
           \A k \in i..(j - 1) : tokens[k] # "|"
    PROVE  PipesBefore(i) = PipesBefore(j)
<1>1. Places \subseteq Nat /\ i \in Nat /\ j \in Nat
  BY LineFacts
<1>2. \A k \in Places : tokens[k] = "|" => (k < i <=> k < j)
  <2> SUFFICES ASSUME NEW k \in Places, tokens[k] = "|", k < j, ~(k < i) PROVE FALSE
    BY <1>1
  <2>1. k \in i..(j - 1)
    BY <1>1
  <2> QED
    BY <2>1
<1>3. {k \in Places : k < i /\ tokens[k] = "|"} = {k \in Places : k < j /\ tokens[k] = "|"}
  BY <1>2
<1> QED
  BY <1>3 DEF PipesBefore

\* A pipe begins the next stage.
LEMMA NextStage ==
    ASSUME tokens \in Lines, NEW i \in 1..Eof, NEW j \in 1..Eof, NEW p \in Places,
           i <= p, p < j, tokens[p] = "|",
           \A k \in i..(j - 1) : tokens[k] = "|" => k = p
    PROVE  PipesBefore(j) = PipesBefore(i) + 1
<1> DEFINE S(n) == {k \in Places : k < n /\ tokens[k] = "|"}
<1>1. Places \subseteq Nat /\ i \in Nat /\ j \in Nat
  BY LineFacts
<1>2. S(j) = S(i) \cup {p}
  <2>1. ASSUME NEW k \in S(j) PROVE k \in S(i) \cup {p}
    <3>1. CASE k < i
      BY <3>1
    <3>2. CASE ~(k < i)
      <4>1. k \in i..(j - 1)
        BY <1>1, <3>2
      <4> QED
        BY <4>1
    <3> QED
      BY <3>1, <3>2
  <2>2. ASSUME NEW k \in S(i) PROVE k \in S(j)
    BY <1>1
  <2> QED
    BY <2>1, <2>2
<1>3. p \notin S(i)
  BY <1>1
<1>4. IsFiniteSet(S(i)) /\ PipesBefore(i) = Cardinality(S(i)) /\ PipesBefore(j) = Cardinality(S(j))
  BY PipesBeforeIs DEF PipesBefore
<1>5. Cardinality(S(i) \cup {p}) = Cardinality(S(i)) + 1
  <2> HIDE DEF S
  <2> QED
    BY <1>3, <1>4, FS_AddElement
<1> QED
  BY <1>2, <1>4, <1>5

\* No pipe stands before the first stage.
LEMMA FirstStage ==
    ASSUME tokens \in Lines, NEW j \in 1..Eof, \A k \in 1..(j - 1) : tokens[k] # "|"
    PROVE  PipesBefore(j) = 0
<1>1. Places \subseteq Nat /\ j \in Nat /\ \A k \in Places : 1 <= k
  BY LineFacts DEF Places
<1>2. {k \in Places : k < j /\ tokens[k] = "|"} = {}
  <2> SUFFICES ASSUME NEW k \in Places, k < j, tokens[k] = "|" PROVE FALSE
    OBVIOUS
  <2>1. k \in 1..(j - 1)
    BY <1>1
  <2> QED
    BY <2>1
<1> QED
  BY <1>2, FS_EmptySet DEF PipesBefore

\* Two words without a pipe between them are in the same stage.
LEMMA InStageOf ==
    ASSUME tokens \in Lines, NEW i \in Places, NEW j \in Places,
           tokens[j] # "|",
           \/ i <= j /\ (\A k \in i..(j - 1) : tokens[k] # "|")
           \/ j <= i /\ (\A k \in j..(i - 1) : tokens[k] # "|")
    PROVE  j \in InStage(Stage(i)) /\ Stage(j) = Stage(i)
<1>1. i \in 1..Eof /\ j \in 1..Eof
  BY LineFacts DEF Places, Eof
<1>2. PipesBefore(j) = PipesBefore(i)
  BY <1>1, SameStage
<1> DEFINE b == PipesBefore(i)
<1>3. b \in Nat
  BY PipesBeforeIs
<1>4. InStage(b + 1) = {k \in Places : tokens[k] # "|" /\ PipesBefore(k) = (b + 1) - 1}
  BY DEF InStage
<1> HIDE DEF b
<1>5. (b + 1) - 1 = b
  BY <1>3
<1>6. j \in InStage(b + 1)
  BY <1>2, <1>4, <1>5 DEF b
<1> QED
  BY <1>2, <1>6 DEF b, Stage

\* What a call takes is taken by its node, its left child or its right child.
LEMMA TakenBy ==
    ASSUME tokens \in Lines, NEW c \in Calls, ~Idle(c)
    PROVE  Taken(c) \subseteq Own(c) \cup Taken(LeftCall(c)) \cup Taken(RightCall(M, c))
<1>1. /\ LeftCall(c).used = NewNode(c).used /\ RightCall(M, c).used = LeftOf(c).used
      /\ NewNode(c).used = c.used \cup Own(c)
      /\ NewNode(c).used \subseteq LeftOf(c).used /\ LeftOf(c).used \subseteq RightOf(c).used
  BY CallsOf DEF Own
<1>2. M[c].used = NewNode(c).used \/ M[c].used = LeftOf(c).used \/ M[c].used = RightOf(c).used
  BY OutcomeIs DEF Yields
<1>3. LeftOf(c) = M[LeftCall(c)] /\ RightOf(c) = M[RightCall(M, c)]
  BY DEF LeftOf, RightOf
<1> QED
  BY <1>1, <1>2, <1>3 DEF Taken

\* A call for a part of one stage.
InOneStage(c) ==
    /\ tokens[c.t] # "|" /\ c.f <= c.t /\ c.t < c.e
    /\ \A k \in (c.f + 1)..(c.e - 1) : tokens[k] # "|"
    /\ c.f \in c.used \/ tokens[c.f] # "|"

\* Its children are looked for in the same stage.
LEMMA StageChildren ==
    ASSUME tokens \in Lines, NEW c \in Calls, ~Idle(c), InOneStage(c)
    PROVE  /\ Own(c) \subseteq InStage(Stage(c.t))
           /\ ~Idle(LeftCall(c)) => InOneStage(LeftCall(c)) /\ Stage(LeftCall(c).t) = Stage(c.t)
           /\ ~Idle(RightCall(M, c)) => InOneStage(RightCall(M, c)) /\ Stage(RightCall(M, c).t) = Stage(c.t)
<1>1. /\ c.t \in Places /\ c.f \in Places /\ c.e \in 1..Eof /\ Places \subseteq Nat
      /\ Eof \in Nat /\ c.e \in Nat
  <2>1. c.t \in Places /\ c.f \in Places /\ c.e \in 1..Eof
    BY OwnIs
  <2>2. Places \subseteq Nat /\ Eof \in Nat
    BY LineFacts
  <2> QED
    BY <2>1, <2>2
<1> DEFINE t == c.t
           f == c.f
           e == c.e
<1>2. t \in Nat /\ f \in Nat /\ e \in Nat /\ f <= t /\ t < e /\ tokens[t] # "|"
  BY <1>1 DEF InOneStage
<1>3. \A k \in (f + 1)..(e - 1) : tokens[k] # "|"
  BY DEF InOneStage
<1>4. f \in c.used \/ tokens[f] # "|"
  BY DEF InOneStage
<1>5. \A k \in t..(e - 1) : tokens[k] # "|"
  <2>1. \A k \in t..(e - 1) : k = t \/ k \in (f + 1)..(e - 1)
    BY <1>2
  <2> QED
    BY <1>2, <1>3, <2>1
<1> HIDE DEF t, f, e
<1>6. Own(c) \subseteq InStage(Stage(t))
  <2>1. t \in InStage(Stage(t))
    <3>1. t <= t /\ \A k \in t..(t - 1) : tokens[k] # "|"
      BY <1>2
    <3> QED
      BY <1>1, <1>2, <3>1, InStageOf DEF t
  <2>2. Set(ArgsOf(c)) \subseteq InStage(Stage(t))
    <3>1. CASE ArgsOf(c) = NULL
      BY <3>1, NullIs
    <3>2. CASE Gathered(t + 1, ArgsOf(c), c.used \cup {t})
      <4> DEFINE a == ArgsOf(c)
      <4>1. a \in Seq(Places) /\ Set(a) = {a[i] : i \in 1..Len(a)}
        BY OwnIs, SetIs
      <4> HIDE DEF a
      <4>2. ASSUME NEW i \in 1..Len(a) PROVE a[i] \in InStage(Stage(t))
        <5>1. a[i] \in Places /\ a[i] >= t + 1 /\ \A j \in (t + 1)..a[i] : tokens[j] # "|"
          BY <3>2, <4>1 DEF Gathered, a
        <5>2. a[i] \in Nat
          BY <1>1, <5>1
        <5>3. t <= a[i] /\ a[i] \in (t + 1)..a[i]
          BY <1>2, <5>1, <5>2
        <5>4. \A k \in t..(a[i] - 1) : k = t \/ k \in (t + 1)..a[i]
          BY <1>2, <5>2
        <5> QED
          BY <1>1, <1>2, <5>1, <5>3, <5>4, InStageOf DEF t
      <4> QED
        BY <4>1, <4>2 DEF a
    <3> QED
      BY <3>1, <3>2, OwnIs DEF t
  <2>3. Set(FileOf(c)) \subseteq InStage(Stage(t))
    <3>1. CASE FileOf(c) = NULL
      BY <3>1, NullIs
    <3>2. ASSUME NEW j \in Places, FileOf(c) = <<j>>, t < j, j < e PROVE Set(FileOf(c)) \subseteq InStage(Stage(t))
      <4>1. j \in Nat
        BY <1>1
      <4>2. t <= j /\ j \in t..(e - 1) /\ \A k \in t..(j - 1) : k \in t..(e - 1)
        BY <1>2, <3>2, <4>1
      <4>3. j \in InStage(Stage(t))
        BY <1>1, <1>5, <4>2, InStageOf DEF t
      <4>4. Set(FileOf(c)) = {j}
        BY <3>2, SetOfOne
      <4> QED
        BY <4>3, <4>4
    <3> QED
      BY <3>1, <3>2, OwnIs DEF t, e
  <2> QED
    BY <2>1, <2>2, <2>3 DEF Own, t
<1>7. ASSUME ~Idle(LeftCall(c)) PROVE InOneStage(LeftCall(c)) /\ Stage(LeftCall(c).t) = Stage(t)
  <2> DEFINE l == LeftCall(c).t
  <2>1. l # Eof
    BY <1>7 DEF Idle
  <2>2. l \in Places /\ f <= l /\ l < t /\ l \notin NewNode(c).used
    BY <2>1, ChildrenAre DEF f, t
  <2>3. LeftCall(c).f = f /\ LeftCall(c).e = t /\ LeftCall(c).used = NewNode(c).used
    BY CallsOf DEF f, t
  <2>4. c.used \subseteq NewNode(c).used
    BY CallsOf
  <2> HIDE DEF l
  <2>5. tokens[l] # "|"
    <3>1. CASE l = f
      BY <1>4, <2>2, <2>4, <3>1
    <3>2. CASE l # f
      <4>1. l \in (f + 1)..(e - 1)
        BY <1>1, <1>2, <2>2, <3>2
      <4> QED
        BY <1>3, <4>1
    <3> QED
      BY <3>1, <3>2
  <2>6. \A k \in (f + 1)..(t - 1) : tokens[k] # "|"
    <3>1. \A k \in (f + 1)..(t - 1) : k \in (f + 1)..(e - 1)
      BY <1>2
    <3> QED
      BY <1>3, <3>1
  <2>7. InOneStage(LeftCall(c))
    BY <1>4, <2>2, <2>3, <2>4, <2>5, <2>6 DEF InOneStage, l
  <2>8. l <= t /\ \A k \in l..(t - 1) : tokens[k] # "|"
    <3>1. l <= t /\ \A k \in l..(t - 1) : k = l \/ k \in (f + 1)..(t - 1)
      BY <1>1, <1>2, <2>2
    <3> QED
      BY <2>5, <2>6, <3>1
  <2>9. Stage(l) = Stage(t)
    BY <1>1, <2>2, <2>5, <2>8, InStageOf DEF t
  <2> QED
    BY <2>7, <2>9 DEF l
<1>8. ASSUME ~Idle(RightCall(M, c)) PROVE InOneStage(RightCall(M, c)) /\ Stage(RightCall(M, c).t) = Stage(t)
  <2> DEFINE r == RightCall(M, c).t
  <2>1. r # Eof
    BY <1>8 DEF Idle
  <2>2. r \in Places /\ t < r /\ r < e
    BY <2>1, ChildrenAre DEF e, t
  <2>3. RightCall(M, c).f = t /\ RightCall(M, c).e = e
    BY CallsOf DEF e, t
  <2> HIDE DEF r
  <2>4. /\ t <= r /\ r \in t..(e - 1) /\ \A k \in t..(r - 1) : k \in t..(e - 1)
        /\ \A k \in (t + 1)..(e - 1) : k \in t..(e - 1)
    BY <1>1, <1>2, <2>2
  <2>5. tokens[r] # "|" /\ (\A k \in t..(r - 1) : tokens[k] # "|")
        /\ (\A k \in (t + 1)..(e - 1) : tokens[k] # "|")
    BY <1>5, <2>4
  <2>6. InOneStage(RightCall(M, c))
    BY <1>2, <2>2, <2>3, <2>4, <2>5 DEF InOneStage, r
  <2>7. Stage(r) = Stage(t)
    BY <1>1, <2>2, <2>4, <2>5, InStageOf DEF t
  <2> QED
    BY <2>6, <2>7 DEF r
<1> QED
  BY <1>6, <1>7, <1>8 DEF t

\* So all it takes is in the stage.
LEMMA TakenInStage ==
    ASSUME tokens \in Lines, NEW c \in Calls, ~Idle(c), InOneStage(c)
    PROVE  Taken(c) \subseteq InStage(Stage(c.t))
<1> DEFINE G == {d \in Calls : ~Idle(d) /\ InOneStage(d) => Taken(d) \subseteq InStage(Stage(d.t))}
<1>1. ASSUME NEW d \in Calls, Deeper(d) \subseteq G PROVE d \in G
  <2> SUFFICES ASSUME ~Idle(d), InOneStage(d) PROVE Taken(d) \subseteq InStage(Stage(d.t))
    OBVIOUS
  <2>1. LeftCall(d) \in G /\ RightCall(M, d) \in G /\ LeftCall(d) \in Calls /\ RightCall(M, d) \in Calls
    BY <1>1, CallsOf
  <2>2. \A x \in Calls : Idle(x) => Taken(x) = {}
    BY NodeIs DEF Taken
  <2>3. Taken(LeftCall(d)) \subseteq InStage(Stage(d.t))
    BY <2>1, <2>2, StageChildren
  <2>4. Taken(RightCall(M, d)) \subseteq InStage(Stage(d.t))
    BY <2>1, <2>2, StageChildren
  <2>5. Own(d) \subseteq InStage(Stage(d.t))
    BY StageChildren
  <2> QED
    BY <2>3, <2>4, <2>5, TakenBy
<1>2. \A d \in Calls : d \in G
  <2> HIDE DEF G
  <2> QED
    BY <1>1, CallInduction
<1> QED
  BY <1>2

-----------------------------------------------------------------------------
(***************************************************************************)
(* Pipes: the last one is the root, and the others are a chain on its      *)
(* left.  The stages from First to Last are what a node stands for.        *)
(***************************************************************************)
LastPipe(n) == tokens[n] = "|" /\ \A k \in Places : tokens[k] = "|" => k <= n
First(n) == IF LastPipe(n) THEN 1 ELSE Stage(n)
Last(n)  == IF tokens[n] # "|" THEN Stage(n)
            ELSE IF LastPipe(n) THEN Stage(Eof) ELSE PipesBefore(Eof)
Follow(l, r, n) == First(l) = First(n) /\ First(r) = Last(l) + 1 /\ Last(r) = Last(n)

\* The call for the root, and those for the other pipes.
RootCall(c) == LastPipe(c.t) /\ c.f = 1 /\ c.e = Eof /\ c.used = {}
ChainCall(c) ==
    /\ tokens[c.t] = "|" /\ c.e \in Places /\ LastPipe(c.e) /\ c.f <= c.t /\ c.t < c.e
    /\ \A k \in (c.f + 1)..(c.t - 1) : tokens[k] # "|"
    /\ c.f = c.t \/ c.f \in c.used \/ tokens[c.f] # "|"

\* The pipes to the right of one are among those its right child is chosen from.
LEMMA PipesAreLower ==
    ASSUME tokens \in Lines, NEW t \in Places, tokens[t] = "|", NEW e \in 1..Eof,
           NEW r, FirstOf(r, LowerAfter(t, e))
    PROVE  \A k \in (t + 1)..(e - 1) : tokens[k] = "|" => tokens[r] = "|" /\ r <= k
<1> SUFFICES ASSUME NEW k \in (t + 1)..(e - 1), tokens[k] = "|" PROVE tokens[r] = "|" /\ r <= k
  OBVIOUS
<1>1. Rank(tokens[k]) <= Rank(tokens[t])
  <2>1. Rank("|") \in 3..6
    BY RankIs DEF Kinds
  <2> QED
    BY <2>1
<1>2. k \in LowerAfter(t, e)
  BY <1>1 DEF LowerAfter
<1> QED
  BY <1>2 DEF FirstOf

\* A pipe takes its token only.
LEMMA PipeOwns ==
    ASSUME tokens \in Lines, NEW c \in Calls, ~Idle(c), tokens[c.t] = "|"
    PROVE  Own(c) = {c.t} /\ NewNode(c).used = c.used \cup {c.t}
<1>1. ArgsOf(c) = NULL /\ FileOf(c) = NULL
  BY DEF ArgsOf, FileOf, NULL, Redirs
<1>2. Own(c) = {c.t}
  BY <1>1, NullIs DEF Own
<1>3. NewNode(c).used = c.used \cup Own(c)
  BY CallsOf DEF Own
<1> QED
  BY <1>2, <1>3

\* The children of the root.
LEMMA RootChildren ==
    ASSUME tokens \in Lines, NEW c \in Calls, ~Idle(c), RootCall(c),
           LeftCall(c).t # Eof, RightCall(M, c).t # Eof
    PROVE  /\ InOneStage(LeftCall(c)) \/ ChainCall(LeftCall(c))
           /\ InOneStage(RightCall(M, c))
           /\ Follow(LeftCall(c).t, RightCall(M, c).t, c.t)
<1> DEFINE t == c.t
           l == LeftCall(c).t
           r == RightCall(M, c).t
<1>1. /\ t \in Places /\ tokens[t] = "|" /\ c.f = 1 /\ c.e = Eof /\ c.used = {}
      /\ \A k \in Places : tokens[k] = "|" => k <= t
  BY OwnIs DEF RootCall, LastPipe
<1>2. Len(tokens) \in Nat /\ Eof = Len(tokens) + 1 /\ Places = 1..Len(tokens)
  BY LineFacts DEF Eof, Places
<1>3. NewNode(c).used = {t}
  BY <1>1, PipeOwns
<1>4. l \in Places /\ l < t /\ FirstOf(l, FreeBefore(t, 1, {t}))
  BY <1>1, <1>3, ChildrenAre
<1>5. r \in Places /\ t < r
  BY <1>1, ChildrenAre
<1>6. /\ LeftCall(c).f = 1 /\ LeftCall(c).e = t
      /\ RightCall(M, c).f = t /\ RightCall(M, c).e = Eof
      /\ t \in RightCall(M, c).used
  <2>1. /\ LeftCall(c).f = 1 /\ LeftCall(c).e = t
        /\ RightCall(M, c).f = t /\ RightCall(M, c).e = Eof
        /\ RightCall(M, c).used = LeftOf(c).used
        /\ NewNode(c).used \subseteq LeftOf(c).used
    BY <1>1, CallsOf
  <2> QED
    BY <1>3, <2>1
<1> HIDE DEF t, l, r
<1>7. \A k \in 1..(t - 1) : tokens[k] = "|" => tokens[l] = "|" /\ l <= k
  <2>1. \A k \in 1..(t - 1) : k \in FreeBefore(t, 1, {t})
    BY <1>1, <1>2 DEF FreeBefore
  <2> QED
    BY <1>4, <2>1 DEF FirstOf
<1>8. \A k \in (t + 1)..(Eof - 1) : tokens[k] # "|"
  <2> SUFFICES ASSUME NEW k \in (t + 1)..(Eof - 1), tokens[k] = "|" PROVE FALSE
    OBVIOUS
  <2>1. k \in Places /\ ~(k <= t)
    BY <1>1, <1>2
  <2> QED
    BY <1>1, <2>1
<1>9. /\ 1 \in 1..Eof /\ l \in 1..Eof /\ r \in 1..Eof /\ Eof \in 1..Eof /\ 1 <= l /\ r <= Eof /\ r < Eof
      /\ l \in Nat /\ r \in Nat /\ t \in Nat /\ Eof \in Nat /\ l \in 1..(t - 1) /\ 1 \in Places
  BY <1>1, <1>2, <1>4, <1>5
<1>10. tokens[r] # "|"
  BY <1>5, <1>8, <1>9
<1>11. InOneStage(RightCall(M, c))
  BY <1>5, <1>6, <1>8, <1>9, <1>10 DEF InOneStage, r
<1>12. ~LastPipe(l) /\ ~LastPipe(r) /\ LastPipe(t)
  <2>1. ~(t <= l)
    BY <1>4, <1>9
  <2> QED
    BY <1>1, <1>10, <2>1 DEF LastPipe
<1>13. PipesBefore(l) = 0
  <2> SUFFICES ASSUME NEW k \in 1..(l - 1), tokens[k] = "|" PROVE FALSE
    BY <1>9, FirstStage
  <2>1. k \in 1..(t - 1) /\ ~(l <= k)
    BY <1>4, <1>9
  <2> QED
    BY <1>7, <2>1
<1>14. PipesBefore(r) = PipesBefore(Eof)
  <2>1. \A k \in r..(Eof - 1) : k \in (t + 1)..(Eof - 1)
    BY <1>5, <1>9
  <2> QED
    BY <1>8, <1>9, <2>1, SameStage
<1>15. Last(l) = PipesBefore(Eof) /\ (InOneStage(LeftCall(c)) \/ ChainCall(LeftCall(c)))
  <2>1. CASE tokens[l] = "|"
    <3>1. Last(l) = PipesBefore(Eof)
      BY <1>12, <2>1 DEF Last
    <3>2. \A k \in 1..(l - 1) : tokens[k] # "|"
      <4> SUFFICES ASSUME NEW k \in 1..(l - 1), tokens[k] = "|" PROVE FALSE
        OBVIOUS
      <4>1. k \in 1..(t - 1) /\ ~(l <= k)
        BY <1>4, <1>9
      <4> QED
        BY <1>7, <4>1
    <3>3. 1 = l \/ tokens[1] # "|"
      <4>1. 1 = l \/ 1 \in 1..(l - 1)
        BY <1>9
      <4> QED
        BY <3>2, <4>1
    <3>4. \A k \in (1 + 1)..(l - 1) : tokens[k] # "|"
      <4>1. \A k \in (1 + 1)..(l - 1) : k \in 1..(l - 1)
        BY <1>9
      <4> QED
        BY <3>2, <4>1
    <3>5. ChainCall(LeftCall(c))
      BY <1>1, <1>4, <1>6, <1>9, <1>12, <2>1, <3>3, <3>4 DEF ChainCall, l
    <3> QED
      BY <3>1, <3>5
  <2>2. CASE tokens[l] # "|"
    <3>1. \A k \in 1..(t - 1) : tokens[k] # "|"
      BY <1>7, <2>2
    <3>2. PipesBefore(Eof) = PipesBefore(1) + 1
      <4>1. \A k \in 1..(Eof - 1) : k = t \/ k \in 1..(t - 1) \/ k \in (t + 1)..(Eof - 1)
        BY <1>9
      <4>2. \A k \in 1..(Eof - 1) : tokens[k] = "|" => k = t
        BY <1>8, <3>1, <4>1
      <4>3. 1 <= t /\ t < Eof
        BY <1>1, <1>2
      <4> QED
        BY <1>1, <1>9, <4>2, <4>3, NextStage
    <3>3. PipesBefore(1) = 0
      BY <1>9, FirstStage
    <3>4. Last(l) = PipesBefore(Eof)
      BY <1>13, <2>2, <3>2, <3>3 DEF Last, Stage
    <3>5. 1 \in 1..(t - 1) /\ \A k \in (1 + 1)..(t - 1) : k \in 1..(t - 1)
      BY <1>9
    <3>6. InOneStage(LeftCall(c))
      BY <1>4, <1>6, <1>9, <2>2, <3>1, <3>5 DEF InOneStage, l
    <3> QED
      BY <3>4, <3>6
  <2> QED
    BY <2>1, <2>2
<1>16. First(l) = First(t)
  BY <1>12, <1>13 DEF First, Stage
<1>17. First(r) = Last(l) + 1 /\ Last(r) = Last(t)
  BY <1>1, <1>10, <1>12, <1>14, <1>15 DEF First, Last, Stage
<1> QED
  BY <1>11, <1>15, <1>16, <1>17 DEF Follow, t, l, r

\* The children of the other pipes.
LEMMA ChainChildren ==
    ASSUME tokens \in Lines, NEW c \in Calls, ~Idle(c), ChainCall(c),
           LeftCall(c).t # Eof, RightCall(M, c).t # Eof
    PROVE  /\ InOneStage(LeftCall(c))
           /\ InOneStage(RightCall(M, c)) \/ ChainCall(RightCall(M, c))
           /\ Follow(LeftCall(c).t, RightCall(M, c).t, c.t)
<1> DEFINE t == c.t
           f == c.f
           e == c.e
           l == LeftCall(c).t
           r == RightCall(M, c).t
<1>1. /\ t \in Places /\ tokens[t] = "|" /\ e \in Places /\ tokens[e] = "|" /\ f <= t /\ t < e
      /\ \A k \in Places : tokens[k] = "|" => k <= e
      /\ \A k \in (f + 1)..(t - 1) : tokens[k] # "|"
      /\ f = t \/ f \in c.used \/ tokens[f] # "|"
      /\ LastPipe(e) /\ f \in Places
  BY OwnIs DEF ChainCall, LastPipe
<1>2. Len(tokens) \in Nat /\ Eof = Len(tokens) + 1 /\ Places = 1..Len(tokens)
  BY LineFacts DEF Eof, Places
<1>3. c.used \subseteq NewNode(c).used /\ t \in NewNode(c).used
  BY CallsOf
<1>4. l \in Places /\ f <= l /\ l < t /\ l \notin NewNode(c).used
  BY ChildrenAre
<1>5. r \in Places /\ t < r /\ r < e /\ FirstOf(r, LowerAfter(t, e))
  BY ChildrenAre
<1>6. /\ LeftCall(c).f = f /\ LeftCall(c).e = t /\ (f \in c.used => f \in LeftCall(c).used)
      /\ RightCall(M, c).f = t /\ RightCall(M, c).e = e
      /\ t \in RightCall(M, c).used
  <2>1. /\ LeftCall(c).f = f /\ LeftCall(c).e = t /\ LeftCall(c).used = NewNode(c).used
        /\ RightCall(M, c).f = t /\ RightCall(M, c).e = e
        /\ RightCall(M, c).used = LeftOf(c).used
        /\ NewNode(c).used \subseteq LeftOf(c).used
    BY CallsOf
  <2> QED
    BY <1>3, <2>1
<1> HIDE DEF t, l, r, f, e
<1>7. \A k \in (t + 1)..(e - 1) : tokens[k] = "|" => tokens[r] = "|" /\ r <= k
  <2>1. e \in 1..Eof
    BY <1>1, <1>2
  <2> QED
    BY <1>1, <1>5, <2>1, PipesAreLower
<1>8. /\ l \in 1..Eof /\ r \in 1..Eof /\ t \in 1..Eof /\ e \in 1..Eof /\ Eof \in 1..Eof
      /\ l \in Nat /\ r \in Nat /\ t \in Nat /\ e \in Nat /\ f \in Nat /\ Eof \in Nat /\ e < Eof
  BY <1>1, <1>2, <1>4, <1>5
<1>9. tokens[l] # "|"
  <2>1. CASE l = f
    BY <1>1, <1>3, <1>4, <1>8, <2>1
  <2>2. CASE l # f
    <3>1. l \in (f + 1)..(t - 1)
      BY <1>4, <1>8, <2>2
    <3> QED
      BY <1>1, <3>1
  <2> QED
    BY <2>1, <2>2
<1>10. InOneStage(LeftCall(c))
  <2>1. f # t
    BY <1>4, <1>8
  <2> QED
    BY <1>1, <1>4, <1>6, <1>9, <2>1 DEF InOneStage, l
<1>11. ~LastPipe(l) /\ ~LastPipe(r) /\ ~LastPipe(t)
  <2>1. ~(e <= r) /\ ~(e <= t)
    BY <1>1, <1>5, <1>8
  <2> QED
    BY <1>1, <1>9, <2>1 DEF LastPipe
<1>12. PipesBefore(l) = PipesBefore(t)
  <2>1. \A k \in l..(t - 1) : k = l \/ k \in (f + 1)..(t - 1)
    BY <1>4, <1>8
  <2>2. l <= t /\ \A k \in l..(t - 1) : tokens[k] # "|"
    BY <1>1, <1>4, <1>8, <1>9, <2>1
  <2> QED
    BY <1>8, <2>2, SameStage
<1>13. \A k \in (t + 1)..(r - 1) : tokens[k] # "|"
  <2> SUFFICES ASSUME NEW k \in (t + 1)..(r - 1), tokens[k] = "|" PROVE FALSE
    OBVIOUS
  <2>1. k \in (t + 1)..(e - 1) /\ ~(r <= k)
    BY <1>5, <1>8
  <2> QED
    BY <1>7, <2>1
<1>14. PipesBefore(r) = PipesBefore(t) + 1
  <2>1. \A k \in t..(r - 1) : k = t \/ k \in (t + 1)..(r - 1)
    BY <1>8
  <2>2. t <= t /\ \A k \in t..(r - 1) : tokens[k] = "|" => k = t
    BY <1>8, <1>13, <2>1
  <2> QED
    BY <1>1, <1>5, <1>8, <2>2, NextStage
<1>15. Last(r) = PipesBefore(Eof) /\ (InOneStage(RightCall(M, c)) \/ ChainCall(RightCall(M, c)))
  <2>1. CASE tokens[r] = "|"
    <3>1. Last(r) = PipesBefore(Eof)
      BY <1>11, <2>1 DEF Last
    <3>2. t <= r
      BY <1>5, <1>8
    <3>3. ChainCall(RightCall(M, c))
      BY <1>1, <1>5, <1>6, <1>13, <2>1, <3>2 DEF ChainCall, r
    <3> QED
      BY <3>1, <3>3
  <2>2. CASE tokens[r] # "|"
    <3>1. \A k \in (t + 1)..(e - 1) : tokens[k] # "|"
      BY <1>7, <2>2
    <3>2. PipesBefore(r) = PipesBefore(e)
      <4>1. r <= e /\ \A k \in r..(e - 1) : k \in (t + 1)..(e - 1)
        BY <1>5, <1>8
      <4> QED
        BY <1>8, <3>1, <4>1, SameStage
    <3>3. PipesBefore(Eof) = PipesBefore(e) + 1
      <4> SUFFICES ASSUME NEW k \in e..(Eof - 1), tokens[k] = "|" PROVE k = e
        BY <1>1, <1>8, NextStage
      <4>1. k \in Places /\ e <= k
        BY <1>1, <1>2
      <4> QED
        BY <1>1, <1>8, <4>1
    <3>4. Last(r) = PipesBefore(Eof)
      BY <2>2, <3>2, <3>3 DEF Last, Stage
    <3>5. t <= r
      BY <1>5, <1>8
    <3>6. InOneStage(RightCall(M, c))
      BY <1>5, <1>6, <2>2, <3>1, <3>5 DEF InOneStage, r
    <3> QED
      BY <3>4, <3>6
  <2> QED
    BY <2>1, <2>2
<1>16. First(l) = First(t)
  BY <1>11, <1>12 DEF First, Stage
<1>17. First(r) = Last(l) + 1 /\ Last(r) = Last(t)
  BY <1>1, <1>9, <1>11, <1>12, <1>14, <1>15 DEF First, Last, Stage
<1> QED
  BY <1>10, <1>15, <1>16, <1>17 DEF Follow, t, l, r

\* A pointer to a node that has its children, if it needs them.
Complete(tr, p) == p # NULL /\ (tokens[p[1]] = "|" => tr[p[1]].left # NULL)
\* What a node holds is of its stage; a pipe has two children, and stands for what
\* the one and then the other stands for.
GoodNode(tr, n) ==
    /\ tokens[n] # "|" =>
           \A x \in NodeFields : \A j \in DOMAIN tr[n][x] : tr[n][x][j] \in InStage(Stage(n))
    /\ tokens[n] = "|" /\ tr[n].left # NULL =>
           /\ Complete(tr, tr[n].left) /\ Complete(tr, tr[n].right)
           /\ Follow(tr[n].left[1], tr[n].right[1], n)

\* The members of a stage, by their own stages.
LEMMA InStageIs ==
    ASSUME tokens \in Lines, NEW i, NEW n \in InStage(Stage(i))
    PROVE  tokens[n] # "|" /\ n \in Places /\ Stage(n) = Stage(i)
<1> DEFINE b == PipesBefore(i)
           d == PipesBefore(n)
<1>1. n \in Places /\ tokens[n] # "|" /\ d = (b + 1) - 1
  BY DEF InStage, Stage
<1>2. b \in Nat /\ d \in Nat
  BY PipesBeforeIs
<1>3. Stage(n) = d + 1 /\ Stage(i) = b + 1
  BY DEF Stage
<1> HIDE DEF b, d
<1> QED
  BY <1>1, <1>2, <1>3

\* The nodes of a call for one stage.
LEMMA StageIsGood ==
    ASSUME tokens \in Lines, NEW c \in Calls, ~Idle(c), Fresh(c.tree, c.used), InOneStage(c)
    PROVE  \A n \in Taken(c) : GoodNode(M[c].tree, n)
<1>1. Taken(c) \subseteq InStage(Stage(c.t))
  BY TakenInStage
<1>2. Within(M[c].tree, Taken(c), {c.t})
  BY MkeIsTidy DEF TidyCall, Tidy
<1> SUFFICES ASSUME NEW n \in Taken(c) PROVE GoodNode(M[c].tree, n)
  OBVIOUS
<1>3. tokens[n] # "|" /\ Stage(n) = Stage(c.t)
  BY <1>1, InStageIs
<1>4. \A x \in NodeFields : \A j \in DOMAIN M[c].tree[n][x] : M[c].tree[n][x][j] \in InStage(Stage(n))
  BY <1>1, <1>2, <1>3 DEF Within
<1> QED
  BY <1>3, <1>4 DEF GoodNode

\* A good node stays good while its region stays as it is.
LEMMA GoodKept ==
    ASSUME tokens \in Lines, NEW tr \in [Places -> Node], NEW ts \in [Places -> Node], NEW N, NEW F,
           Within(tr, N, F), \A n \in N : ts[n] = tr[n], NEW n \in N, n \in Places, GoodNode(tr, n)
    PROVE  GoodNode(ts, n)
<1>1. ts[n] = tr[n] /\ tr[n] \in Node
  OBVIOUS
<1>2. CASE tokens[n] # "|"
  BY <1>1, <1>2 DEF GoodNode
<1>3. CASE tokens[n] = "|"
  <2> SUFFICES ASSUME tr[n].left # NULL
               PROVE  Complete(ts, tr[n].left) /\ Complete(ts, tr[n].right)
                      /\ Follow(tr[n].left[1], tr[n].right[1], n)
    BY <1>1, <1>3 DEF GoodNode
  <2>1. /\ Complete(tr, tr[n].left) /\ Complete(tr, tr[n].right)
        /\ Follow(tr[n].left[1], tr[n].right[1], n)
    BY <1>3 DEF GoodNode
  <2>2. tr[n].left \in Pointer /\ tr[n].right \in Pointer
    BY <1>1 DEF Node
  <2>3. ASSUME NEW p \in Pointer, p # NULL PROVE 1 \in DOMAIN p
    <3>1. PICK k \in Places : p = <<k>>
      BY <2>3, PointerIs
    <3> QED
      BY <3>1
  <2>4. tr[n].left = tr[n]["left"] /\ tr[n].right = tr[n]["right"]
    OBVIOUS
  <2>5. tr[n]["left"][1] \in N
    <3>1. 1 \in DOMAIN tr[n]["left"]
      BY <2>2, <2>3, <2>4
    <3> QED
      BY <3>1 DEF Within, NodeFields
  <2>6. tr[n]["right"][1] \in N
    <3>1. 1 \in DOMAIN tr[n]["right"]
      BY <2>1, <2>2, <2>3, <2>4 DEF Complete
    <3> QED
      BY <3>1 DEF Within, NodeFields
  <2>7. Complete(ts, tr[n].left)
    BY <2>1, <2>4, <2>5 DEF Complete
  <2>8. Complete(ts, tr[n].right)
    BY <2>1, <2>4, <2>6 DEF Complete
  <2> QED
    BY <2>1, <2>7, <2>8
<1> QED
  BY <1>2, <1>3

\* A pipe that is made has its children.
LEMMA MadeOfChildren ==
    ASSUME tokens \in Lines, NEW c \in Calls, M[c].node # NULL, tokens[c.t] = "|"
    PROVE  /\ ~Idle(c) /\ LeftCall(c).t # Eof /\ LeftOf(c).node # NULL
           /\ RightCall(M, c).t # Eof /\ RightOf(c).node # NULL
           /\ M[c].tree = WithBoth(c) /\ M[c].used = RightOf(c).used
           /\ M[c].tree[c.t].left = LeftOf(c).node /\ M[c].tree[c.t].right = RightOf(c).node
           /\ Complete(M[c].tree, M[c].node)
<1>1. ~Idle(c) /\ M[c].node = <<c.t>>
  BY NodeIs
<1>2. ~Refuses(c) /\ ~LeftMissing(c) /\ ~RightMissing(c)
  BY <1>1, OutcomeIs DEF Yields
<1>3. M[c].tree = WithBoth(c) /\ M[c].used = RightOf(c).used
  BY <1>1, <1>2, OutcomeIs DEF Yields
<1>4. /\ LeftCall(c).t # Eof /\ LeftOf(c).node # NULL
      /\ RightCall(M, c).t # Eof /\ RightOf(c).node # NULL
  BY <1>1, <1>2, Outcomes
<1>5. RightOf(c).tree \in [Places -> Node] /\ c.t \in Places
  BY <1>1, CallsOf, OwnIs DEF Results
<1>6. WithBoth(c)[c.t].left = LeftOf(c).node /\ WithBoth(c)[c.t].right = RightOf(c).node
  BY <1>5 DEF WithBoth
<1>7. Complete(M[c].tree, M[c].node)
  <2>1. M[c].node # NULL /\ M[c].node[1] = c.t
    BY <1>1
  <2> QED
    BY <1>3, <1>4, <1>6, <2>1 DEF Complete
<1> QED
  BY <1>1, <1>3, <1>4, <1>6, <1>7

\* A node that is returned is the one of the token of the call, and complete.
LEMMA MadeIsComplete ==
    ASSUME tokens \in Lines, NEW c \in Calls, M[c].node # NULL
    PROVE  Complete(M[c].tree, M[c].node) /\ M[c].node = <<c.t>> /\ ~Idle(c)
<1>1. ~Idle(c) /\ M[c].node = <<c.t>> /\ M[c].node[1] = c.t
  BY NodeIs
<1> QED
  BY <1>1, MadeOfChildren DEF Complete

\* The nodes of a pipe that was made.
GoodCall(c) ==
    /\ Fresh(c.tree, c.used) /\ M[c].node # NULL
    /\ InOneStage(c) \/ ChainCall(c) \/ RootCall(c)
    => \A n \in Taken(c) : GoodNode(M[c].tree, n)
\* If the calls for its two sides make good nodes, so does the call for a pipe.
LEMMA PipeIsGood ==
    ASSUME tokens \in Lines, NEW c \in Calls, Fresh(c.tree, c.used), M[c].node # NULL,
           ChainCall(c) \/ RootCall(c), GoodCall(LeftCall(c)), GoodCall(RightCall(M, c))
    PROVE  \A n \in Taken(c) : GoodNode(M[c].tree, n)
<1> DEFINE lc == LeftCall(c)
           rc == RightCall(M, c)
           A == Taken(lc)
           B == Taken(rc)
           tr == M[c].tree
<1>1. tokens[c.t] = "|"
  BY DEF ChainCall, RootCall, LastPipe
<1>2. /\ ~Idle(c) /\ lc.t # Eof /\ LeftOf(c).node # NULL
      /\ rc.t # Eof /\ RightOf(c).node # NULL
      /\ tr = WithBoth(c) /\ M[c].used = RightOf(c).used
      /\ tr[c.t].left = LeftOf(c).node /\ tr[c.t].right = RightOf(c).node
  BY <1>1, MadeOfChildren
<1>3. /\ InOneStage(lc) \/ ChainCall(lc)
      /\ InOneStage(rc) \/ ChainCall(rc)
      /\ Follow(lc.t, rc.t, c.t)
  BY <1>2, RootChildren, ChainChildren
<1>4. lc \in Calls /\ rc \in Calls /\ M[lc] = LeftOf(c) /\ M[rc] = RightOf(c)
  BY <1>2, CallsOf DEF LeftOf, RightOf
<1>5. /\ Own(c) = {c.t} /\ A \subseteq Places /\ B \subseteq Places
      /\ c.t \notin A /\ c.t \notin B /\ A \cap B = {}
      /\ M[c].used = c.used \cup {c.t} \cup A \cup B /\ ({c.t} \cup A \cup B) \cap c.used = {}
      /\ \A n \in Places \ B : RightOf(c).tree[n] = LeftOf(c).tree[n]
      /\ Tidy(LeftOf(c).tree, A, {lc.t})
      /\ Tidy(RightOf(c).tree, B, {rc.t})
      /\ Fresh(lc.tree, lc.used) /\ Fresh(rc.tree, rc.used)
  <2>1. TidyCall(lc) /\ TidyCall(rc)
    BY <1>4, MkeIsTidy
  <2>2. Own(c) = {c.t}
    BY <1>1, <1>2, PipeOwns
  <2> QED
    BY <1>2, <2>1, <2>2, Regions
<1>6. /\ LeftOf(c).tree \in [Places -> Node] /\ RightOf(c).tree \in [Places -> Node] /\ c.t \in Places
      /\ tr \in [Places -> Node]
  <2>1. /\ LeftOf(c) \in Results /\ RightOf(c) \in Results /\ c.t \in Places /\ M[c] \in Results
    BY <1>2, CallsOf, OwnIs, MkeYggdrasilIs DEF M
  <2> QED
    BY <2>1 DEF Results
<1>7. \A n \in Places : n # c.t => tr[n] = RightOf(c).tree[n]
  BY <1>2, <1>6 DEF WithBoth
<1>8. \A n \in A : tr[n] = LeftOf(c).tree[n]
  BY <1>5, <1>7
<1>9. \A n \in B : tr[n] = RightOf(c).tree[n]
  BY <1>5, <1>7
<1>10. \A n \in A : GoodNode(LeftOf(c).tree, n)
  BY <1>2, <1>3, <1>4, <1>5 DEF GoodCall
<1>11. \A n \in B : GoodNode(RightOf(c).tree, n)
  BY <1>2, <1>3, <1>4, <1>5 DEF GoodCall
<1>12. /\ Complete(LeftOf(c).tree, LeftOf(c).node) /\ LeftOf(c).node = <<lc.t>> /\ lc.t \in A
       /\ Complete(RightOf(c).tree, RightOf(c).node) /\ RightOf(c).node = <<rc.t>> /\ rc.t \in B
  <2>1. ASSUME NEW d \in Calls, M[d].node # NULL PROVE d.t \in Taken(d)
    <3>1. ~Idle(d)
      BY <2>1, MadeIsComplete
    <3> QED
      BY <3>1, TokenIsUsed DEF Taken, Idle
  <2>2. lc.t \in A
    BY <1>2, <1>4, <2>1
  <2>3. rc.t \in B
    BY <1>2, <1>4, <2>1
  <2> QED
    BY <1>2, <1>4, <2>2, <2>3, MadeIsComplete
<1> HIDE DEF lc, rc, A, B, tr
<1>13. ASSUME NEW n \in A PROVE GoodNode(tr, n)
  <2>1. Within(LeftOf(c).tree, A, {lc.t}) /\ GoodNode(LeftOf(c).tree, n) /\ n \in Places
    BY <1>5, <1>10 DEF Tidy
  <2> QED
    BY <1>6, <1>8, <2>1, GoodKept
<1>14. ASSUME NEW n \in B PROVE GoodNode(tr, n)
  <2>1. Within(RightOf(c).tree, B, {rc.t}) /\ GoodNode(RightOf(c).tree, n) /\ n \in Places
    BY <1>5, <1>11 DEF Tidy
  <2> QED
    BY <1>6, <1>9, <2>1, GoodKept
<1>15. GoodNode(tr, c.t)
  <2>1. tr[c.t].left = <<lc.t>> /\ tr[c.t].right = <<rc.t>>
    BY <1>2, <1>12
  <2>2. tr[lc.t] = LeftOf(c).tree[lc.t] /\ tr[rc.t] = RightOf(c).tree[rc.t]
    BY <1>8, <1>9, <1>12
  <2>3. Complete(tr, <<lc.t>>)
    BY <1>12, <2>2 DEF Complete
  <2>4. Complete(tr, <<rc.t>>)
    BY <1>12, <2>2 DEF Complete
  <2>5. <<lc.t>>[1] = lc.t /\ <<rc.t>>[1] = rc.t
    OBVIOUS
  <2> QED
    BY <1>1, <1>3, <2>1, <2>3, <2>4, <2>5 DEF GoodNode
<1>16. Taken(c) = {c.t} \cup A \cup B
  BY <1>5 DEF Taken
<1> QED
  BY <1>13, <1>14, <1>15, <1>16 DEF tr

\* By induction over the calls, every call makes good nodes.
LEMMA MkeIsGood ==
    ASSUME tokens \in Lines, NEW c \in Calls
    PROVE  GoodCall(c)
<1> DEFINE G == {d \in Calls : GoodCall(d)}
<1>1. ASSUME NEW d \in Calls, Deeper(d) \subseteq G PROVE d \in G
  <2> SUFFICES ASSUME Fresh(d.tree, d.used), M[d].node # NULL,
                      InOneStage(d) \/ ChainCall(d) \/ RootCall(d)
               PROVE  \A n \in Taken(d) : GoodNode(M[d].tree, n)
    BY DEF GoodCall
  <2>1. ~Idle(d)
    BY MadeIsComplete
  <2>2. GoodCall(LeftCall(d)) /\ GoodCall(RightCall(M, d))
    BY <1>1, <2>1, CallsOf
  <2> QED
    BY <2>1, <2>2, StageIsGood, PipeIsGood
<1>2. \A d \in Calls : d \in G
  <2> HIDE DEF G
  <2> QED
    BY <1>1, CallInduction
<1> QED
  BY <1>2

-----------------------------------------------------------------------------
(***************************************************************************)
(* The tree of a line.                                                     *)
(***************************************************************************)
BlankTree == [n \in Places |-> Blank]
BuiltCall(st) == Call(FindInitialRoot, 1, Eof, [tree |-> BlankTree, used |-> {}, status |-> st])

\* The call of init_yggdrasil.
LEMMA BuiltCallIs ==
    ASSUME tokens \in Lines, NEW st \in 0..255
    PROVE  /\ BuiltCall(st) \in Calls /\ Built(st) = M[BuiltCall(st)]
           /\ BuiltCall(st).tree = BlankTree /\ BuiltCall(st).used = {} /\ BuiltCall(st).status = st
           /\ BuiltCall(st).t = FindInitialRoot /\ BuiltCall(st).f = 1 /\ BuiltCall(st).e = Eof
           /\ Fresh(BuiltCall(st).tree, BuiltCall(st).used)
           /\ BlankTree \in [Places -> Node]
<1>1. FindInitialRoot \in Places /\ 1 \in Places /\ Eof \in 1..Eof /\ Places \subseteq 1..Eof
  <2>1. FindInitialRoot \in Places
    BY FindInitialRootIs
  <2>2. Len(tokens) \in Nat \ {0}
    BY LineFacts
  <2> QED
    BY <2>1, <2>2 DEF Places, Eof
<1>2. Blank \in Node
  <2>1. <<>> \in Seq(Places)
    OBVIOUS
  <2> QED
    BY <2>1 DEF Blank, Node, Pointer
<1>3. BlankTree \in [Places -> Node] /\ \A n \in Places : BlankTree[n] = Blank
  BY <1>2 DEF BlankTree
<1>4. BuiltCall(st) = [t |-> FindInitialRoot, f |-> 1, e |-> Eof,
                       tree |-> BlankTree, used |-> {}, status |-> st]
  BY DEF BuiltCall, Call
<1>5. Built(st) = M[BuiltCall(st)]
  BY DEF Built, BuiltCall, BlankTree, M
<1>6. Fresh(BlankTree, {})
  BY <1>3 DEF Fresh
<1> DEFINE r0 == FindInitialRoot
<1>7. /\ BuiltCall(st) \in Calls
      /\ BuiltCall(st).tree = BlankTree /\ BuiltCall(st).used = {} /\ BuiltCall(st).status = st
      /\ BuiltCall(st).t = r0 /\ BuiltCall(st).f = 1 /\ BuiltCall(st).e = Eof
  <2> HIDE DEF r0
  <2>1. BuiltCall(st) = [t |-> r0, f |-> 1, e |-> Eof, tree |-> BlankTree, used |-> {}, status |-> st]
    BY <1>4 DEF r0
  <2>2. r0 \in Places
    BY <1>1 DEF r0
  <2>3. BuiltCall(st) \in Calls
    BY <1>1, <1>3, <2>1, <2>2 DEF Calls
  <2> QED
    BY <2>1, <2>3
<1> QED
  BY <1>3, <1>5, <1>6, <1>7

\* It has the shape of a tree, and holds no token twice.
LEMMA BuiltIsTidy ==
    ASSUME tokens \in Lines, NEW st \in 0..255
    PROVE  /\ Built(st).node \in Pointer /\ Built(st).tree \in [Places -> Node]
           /\ Built(st).status \in {st, 2}
           /\ Once(Built(st).tree, Places)
           /\ \A m \in Places : \A x \in NodeFields : \A j \in DOMAIN Built(st).tree[m][x] :
                  Built(st).node # <<Built(st).tree[m][x][j]>>
<1> DEFINE c == BuiltCall(st)
           tr == M[c].tree
<1>1. /\ c \in Calls /\ Built(st) = M[c] /\ c.tree = BlankTree /\ c.used = {} /\ c.status = st
      /\ Fresh(c.tree, c.used)
  BY BuiltCallIs
<1> HIDE DEF c
<1>2. M[c] \in Results /\ M[c].status \in {st, 2}
  BY <1>1, MkeYggdrasilIs, StatusIs DEF M
<1>3. M[c].node \in Pointer /\ tr \in [Places -> Node]
  BY <1>2 DEF Results
<1>4. /\ \A n \in Places : n \notin Taken(c) => tr[n] = Blank
      /\ Within(tr, Taken(c), {c.t}) /\ Once(tr, Taken(c))
  <2>1. TidyCall(c)
    BY <1>1, MkeIsTidy
  <2>2. \A n \in Places : c.tree[n] = Blank
    BY <1>1 DEF BlankTree
  <2> QED
    BY <1>1, <2>1, <2>2 DEF TidyCall, Tidy
<1> HIDE DEF tr
<1>5. ASSUME NEW m \in Places, NEW x \in NodeFields, NEW j \in DOMAIN tr[m][x] PROVE m \in Taken(c)
  <2>1. tr[m][x] # NULL
    BY NullIs
  <2> QED
    BY <1>4, <2>1, BlankIs
<1>6. Once(tr, Places)
  <2> SUFFICES ASSUME NEW m \in Places, NEW n \in Places, NEW x \in NodeFields, NEW y \in NodeFields,
                      NEW j \in DOMAIN tr[m][x], NEW k \in DOMAIN tr[n][y], tr[m][x][j] = tr[n][y][k]
               PROVE  m = n /\ x = y /\ j = k
    BY DEF Once
  <2>1. m \in Taken(c) /\ n \in Taken(c)
    BY <1>5
  <2> QED
    BY <1>4, <2>1 DEF Once
<1>7. ASSUME NEW m \in Places, NEW x \in NodeFields, NEW j \in DOMAIN tr[m][x]
      PROVE  M[c].node # <<tr[m][x][j]>>
  <2>1. tr[m][x][j] # c.t
    BY <1>4, <1>5 DEF Within
  <2>2. M[c].node = NULL \/ M[c].node = <<c.t>>
    BY <1>1, NodeIs
  <2>3. \A a, b : (<<a>> = <<b>> => a = b) /\ <<a>> # NULL
    BY DEF NULL
  <2> QED
    BY <2>1, <2>2, <2>3
<1> QED
  BY <1>1, <1>2, <1>3, <1>6, <1>7 DEF tr

\* The status takes no part in it.
LEMMA BuiltWithoutStatus ==
    ASSUME tokens \in Lines, NEW st \in 0..255, NEW su \in 0..255
    PROVE  Built(st).node = Built(su).node /\ Built(st).tree = Built(su).tree
<1>1. SameCall(BuiltCall(st), BuiltCall(su))
  BY BuiltCallIs DEF SameCall
<1>2. SameResult(M[BuiltCall(st)], M[BuiltCall(su)])
  BY <1>1, BuiltCallIs, StatusIsNoInput
<1> QED
  BY <1>2, BuiltCallIs DEF SameResult

\* If there is one, its nodes are good, and the root stands for the whole line.
LEMMA BuiltIsGood ==
    ASSUME tokens \in Lines, NEW st \in 0..255, Built(st).node # NULL
    PROVE  /\ \A n \in Places : GoodNode(Built(st).tree, n)
           /\ Complete(Built(st).tree, Built(st).node)
           /\ First(Built(st).node[1]) = 1 /\ Last(Built(st).node[1]) = Stage(Eof)
<1> DEFINE c == BuiltCall(st)
           tr == M[c].tree
           t == FindInitialRoot
<1>1. /\ c \in Calls /\ Built(st) = M[c] /\ c.tree = BlankTree /\ c.used = {}
      /\ Fresh(c.tree, c.used) /\ c.t = t /\ c.f = 1 /\ c.e = Eof
  BY BuiltCallIs
<1>2. t \in Places /\ \A k \in Places : tokens[k] = "|" => tokens[t] = "|" /\ k <= t
  BY FindInitialRootIs
<1>3. /\ Len(tokens) \in Nat \ {0} /\ Eof = Len(tokens) + 1 /\ Places = 1..Len(tokens)
  BY LineFacts DEF Eof, Places
<1> HIDE DEF c, t
<1>4. t \in Nat /\ 1 <= t /\ t < Eof /\ 1 \in Places /\ t \in 1..Eof /\ Eof \in 1..Eof /\ t <= Eof
  BY <1>2, <1>3
<1>5. /\ InOneStage(c) \/ RootCall(c)
      /\ First(t) = 1 /\ Last(t) = Stage(Eof)
  <2>1. CASE tokens[t] = "|"
    <3>1. LastPipe(t)
      BY <1>2, <2>1 DEF LastPipe
    <3> QED
      BY <1>1, <2>1, <3>1 DEF RootCall, First, Last
  <2>2. CASE tokens[t] # "|"
    <3>1. \A k \in Places : tokens[k] # "|"
      BY <1>2, <2>2
    <3>2. /\ \A k \in 1..(t - 1) : k \in Places
          /\ \A k \in t..(Eof - 1) : k \in Places
          /\ \A k \in (1 + 1)..(Eof - 1) : k \in Places
      BY <1>2, <1>3, <1>4
    <3>3. InOneStage(c)
      BY <1>1, <1>4, <2>2, <3>1, <3>2 DEF InOneStage
    <3>4. PipesBefore(t) = 0
      BY <1>4, <3>1, <3>2, FirstStage
    <3>5. PipesBefore(t) = PipesBefore(Eof)
      BY <1>4, <3>1, <3>2, SameStage
    <3>6. ~LastPipe(t)
      BY <2>2 DEF LastPipe
    <3> QED
      BY <2>2, <3>3, <3>4, <3>5, <3>6 DEF First, Last, Stage
  <2> QED
    BY <2>1, <2>2
<1>6. M[c].node # NULL
  BY <1>1
<1>7. Complete(tr, M[c].node) /\ M[c].node = <<t>>
  BY <1>1, <1>6, MadeIsComplete
<1>8. \A n \in Taken(c) : GoodNode(tr, n)
  <2>1. GoodCall(c)
    BY <1>1, MkeIsGood
  <2> QED
    BY <1>1, <1>5, <1>6, <2>1 DEF GoodCall
<1>9. ASSUME NEW n \in Places, n \notin Taken(c) PROVE GoodNode(tr, n)
  <2>1. TidyCall(c)
    BY <1>1, MkeIsTidy
  <2>2. tr[n] = Blank
    BY <1>1, <1>9, <2>1 DEF TidyCall, BlankTree
  <2>3. \A x \in NodeFields : DOMAIN tr[n][x] = {}
    BY <2>2, BlankIs, NullIs
  <2>4. tr[n].left = NULL
    BY <2>2 DEF Blank
  <2> HIDE DEF tr
  <2> QED
    BY <2>3, <2>4 DEF GoodNode
<1>10. M[c].node[1] = t
  BY <1>7
<1> QED
  BY <1>1, <1>5, <1>7, <1>8, <1>9, <1>10

-----------------------------------------------------------------------------
(***************************************************************************)
(* The walk: what the actions need of pointers, sequences and stages.      *)
(***************************************************************************)
\* What two sequences hold, one behind the other.
LEMMA SetOfConcat ==
    ASSUME NEW S, NEW a \in Seq(S), NEW b \in Seq(S)
    PROVE  a \o b \in Seq(S) /\ Set(a \o b) = Set(a) \cup Set(b)
<1>1. /\ a \o b \in Seq(S) /\ Len(a \o b) = Len(a) + Len(b) /\ Len(a) \in Nat /\ Len(b) \in Nat
      /\ \A i \in 1..(Len(a) + Len(b)) : (a \o b)[i] = IF i <= Len(a) THEN a[i] ELSE b[i - Len(a)]
  OBVIOUS
<1> DEFINE s == a \o b
<1>2. /\ Set(s) = {s[i] : i \in 1..Len(s)} /\ Set(a) = {a[i] : i \in 1..Len(a)}
      /\ Set(b) = {b[i] : i \in 1..Len(b)}
  BY <1>1, SetIs
<1> HIDE DEF s
<1>3. ASSUME NEW i \in 1..Len(s) PROVE s[i] \in Set(a) \cup Set(b)
  <2>1. CASE i <= Len(a)
    <3>1. i \in 1..Len(a) /\ s[i] = a[i]
      BY <1>1, <2>1 DEF s
    <3> QED
      BY <1>2, <3>1
  <2>2. CASE ~(i <= Len(a))
    <3>1. i - Len(a) \in 1..Len(b) /\ s[i] = b[i - Len(a)]
      BY <1>1, <2>2 DEF s
    <3> QED
      BY <1>2, <3>1
  <2> QED
    BY <2>1, <2>2
<1>4. ASSUME NEW i \in 1..Len(a) PROVE a[i] \in Set(s)
  <2>1. i \in 1..Len(s) /\ s[i] = a[i]
    BY <1>1 DEF s
  <2> QED
    BY <1>2, <2>1
<1>5. ASSUME NEW i \in 1..Len(b) PROVE b[i] \in Set(s)
  <2>1. Len(a) + i \in 1..Len(s) /\ ~(Len(a) + i <= Len(a)) /\ (Len(a) + i) - Len(a) = i
    BY <1>1 DEF s
  <2>2. s[Len(a) + i] = b[i]
    BY <1>1, <2>1 DEF s
  <2> QED
    BY <1>2, <2>1, <2>2
<1>6. Set(s) = Set(a) \cup Set(b)
  BY <1>2, <1>3, <1>4, <1>5
<1> QED
  BY <1>1, <1>6 DEF s

\* Turning a sequence around keeps what is in it.
LEMMA BackwardsIs ==
    ASSUME NEW S, NEW s \in Seq(S)
    PROVE  Backwards(s) \in Seq(S) /\ Set(Backwards(s)) = Set(s)
<1>1. DOMAIN s = 1..Len(s) /\ Len(s) \in Nat
  OBVIOUS
<1>2. Backwards(s) = [k \in 1..Len(s) |-> s[(Len(s) + 1) - k]]
  BY <1>1 DEF Backwards
<1>3. \A k \in 1..Len(s) : (Len(s) + 1) - k \in 1..Len(s)
  BY <1>1
<1>4. \A k \in 1..Len(s) : s[(Len(s) + 1) - k] \in S
  BY <1>3
<1>5. Backwards(s) \in Seq(S) /\ DOMAIN Backwards(s) = 1..Len(s)
  BY <1>1, <1>2, <1>4
<1>6. ASSUME NEW k \in 1..Len(s) PROVE Backwards(s)[k] \in Set(s)
  BY <1>1, <1>2, <1>3 DEF Set
<1>7. ASSUME NEW k \in 1..Len(s) PROVE s[k] \in Set(Backwards(s))
  <2>1. (Len(s) + 1) - k \in 1..Len(s) /\ (Len(s) + 1) - ((Len(s) + 1) - k) = k
    BY <1>1
  <2>2. Backwards(s)[(Len(s) + 1) - k] = s[k]
    BY <1>2, <2>1
  <2> QED
    BY <1>5, <2>1, <2>2 DEF Set
<1>8. Set(Backwards(s)) = Set(s)
  BY <1>1, <1>5, <1>6, <1>7 DEF Set
<1> QED
  BY <1>5, <1>8

\* A pointer to a token of some kind is not NULL.
LEMMA KindIs ==
    ASSUME NEW p, Kind(p) # "none"
    PROVE  p # NULL /\ tokens[p[1]] = Kind(p)
BY DEF Kind
\* Kinds that are told apart.
LEMMA KindsAre ==
    /\ "none" \notin Redirs \cup {"|", "cmd"} /\ "none" \notin Inputs /\ "none" \notin Outputs
    /\ "|" \notin Redirs /\ "|" # "cmd" /\ Inputs \subseteq Redirs /\ Outputs \subseteq Redirs
BY DEF Redirs, Inputs, Outputs

\* The types of what is read from the tree.
LEMMA PartsAre ==
    ASSUME TypeOK, NEW p \in Pointer
    PROVE  /\ p # NULL => Left(p) \in Pointer /\ Right(p) \in Pointer /\ p[1] \in Places
           /\ Words(p) \in Seq(Places) /\ p \in Seq(Places)
<1>1. p \in Seq(Places) /\ (p # NULL => p[1] \in Places)
  BY PointerIs
<1>2. tree \in [Places -> Node]
  BY DEF TypeOK
<1>3. p # NULL => tree[p[1]] \in Node
  BY <1>1, <1>2
<1>4. p # NULL => Left(p) \in Pointer /\ Right(p) \in Pointer /\ tree[p[1]].args \in Seq(Places)
  BY <1>3 DEF Left, Right, Node
<1>5. Words(p) \in Seq(Places)
  <2>1. CASE p = NULL
    <3>1. Words(p) = <<>>
      BY <2>1 DEF Words
    <3>2. <<>> \in Seq(Places)
      OBVIOUS
    <3> QED
      BY <3>1, <3>2
  <2>2. CASE p # NULL
    <3>1. Words(p) = p \o tree[p[1]].args
      BY <2>2 DEF Words
    <3> QED
      BY <1>1, <1>4, <2>2, <3>1, SetOfConcat
  <2> QED
    BY <2>1, <2>2
<1> QED
  BY <1>1, <1>4, <1>5

\* The parts of a node of a stage are in the stage.
LEMMA PartsInStage ==
    ASSUME TypeOK, NEW s \in Nat, NEW p \in Pointer, Set(p) \subseteq InStage(s),
           \A n \in Places : GoodNode(tree, n)
    PROVE  /\ p # NULL => Set(Left(p)) \subseteq InStage(s) /\ Set(Right(p)) \subseteq InStage(s)
           /\ Set(Words(p)) \subseteq InStage(s)
<1>1. CASE p = NULL
  <2>1. Words(p) = NULL
    BY <1>1 DEF Words, NULL
  <2> QED
    BY <1>1, <2>1, NullIs
<1>2. CASE p # NULL
  <2> DEFINE n == p[1]
  <2>1. n \in Places /\ p = <<n>>
    BY <1>2, PointerIs
  <2>2. tokens \in Lines /\ tree \in [Places -> Node]
    BY DEF TypeOK
  <2>3. Set(p) = {n}
    BY <2>1, SetOfOne
  <2>4. tokens[n] # "|" /\ PipesBefore(n) = s - 1
    BY <2>3 DEF InStage
  <2>5. Stage(n) = s
    <3>1. s - 1 + 1 = s
      OBVIOUS
    <3> QED
      BY <2>4 DEF Stage
  <2> HIDE DEF n
  <2>6. \A x \in NodeFields : \A j \in DOMAIN tree[n][x] : tree[n][x][j] \in InStage(s)
    BY <2>1, <2>4, <2>5 DEF GoodNode
  <2>7. \A x \in NodeFields : Set(tree[n][x]) \subseteq InStage(s)
    BY <2>6 DEF Set
  <2>8. tree[n] \in Node
    BY <2>1, <2>2
  <2>9. /\ Set(tree[n].left) \subseteq InStage(s) /\ Set(tree[n].right) \subseteq InStage(s)
        /\ Set(tree[n].args) \subseteq InStage(s)
    <3>1. tree[n].left = tree[n]["left"] /\ tree[n].right = tree[n]["right"] /\ tree[n].args = tree[n]["args"]
      OBVIOUS
    <3>2. "left" \in NodeFields /\ "right" \in NodeFields /\ "args" \in NodeFields
      BY DEF NodeFields
    <3> QED
      BY <2>7, <3>1, <3>2
  <2>10. Set(Words(p)) \subseteq InStage(s)
    <3>1. Words(p) = p \o tree[n].args
      BY <1>2 DEF Words, n
    <3>2. tree[n].args \in Seq(Places) /\ p \in Seq(Places)
      BY <2>8, PointerIs DEF Node
    <3>3. Set(Words(p)) = Set(p) \cup Set(tree[n].args)
      BY <3>1, <3>2, SetOfConcat
    <3> QED
      BY <2>9, <3>3
  <2> QED
    BY <2>9, <2>10 DEF Left, Right, n
<1> QED
  BY <1>1, <1>2

\* A chain of one stage, and the job it becomes.
ChainIn(c, s) == c \in Chain /\ Set(c.at) \cup Set(c.nodes) \cup Set(c.cmd) \subseteq InStage(s)
\* A chain of one stage is a job of that stage.
LEMMA JobIs ==
    ASSUME TypeOK, NEW c \in Chain
    PROVE  /\ Job(c) \in [redirs : Seq(Places), cmd : Seq(Places)]
           /\ \A s \in Nat : ChainIn(c, s) /\ (\A n \in Places : GoodNode(tree, n)) =>
                  Set(Job(c).redirs) \cup Set(Job(c).cmd) \subseteq InStage(s)
<1>1. c.nodes \in Seq(Places) /\ c.cmd \in Pointer
  BY DEF Chain
<1> DEFINE r == Backwards(c.nodes)
           w == Words(c.cmd)
<1>2. r \in Seq(Places) /\ w \in Seq(Places) /\ Set(r) = Set(c.nodes)
  BY <1>1, BackwardsIs, PartsAre
<1>3. \A s \in Nat : ChainIn(c, s) /\ (\A n \in Places : GoodNode(tree, n)) => Set(w) \subseteq InStage(s)
  <2> SUFFICES ASSUME NEW s \in Nat, ChainIn(c, s), \A n \in Places : GoodNode(tree, n)
               PROVE  Set(w) \subseteq InStage(s)
    OBVIOUS
  <2>1. Set(c.cmd) \subseteq InStage(s)
    BY DEF ChainIn
  <2> QED
    BY <1>1, <2>1, PartsInStage
<1>4. Job(c) = [redirs |-> r, cmd |-> w]
  BY DEF Job
<1> HIDE DEF r, w
<1>5. Job(c).redirs = r /\ Job(c).cmd = w /\ Job(c) \in [redirs : Seq(Places), cmd : Seq(Places)]
  BY <1>2, <1>4
<1>6. \A s \in Nat : ChainIn(c, s) => Set(r) \subseteq InStage(s)
  BY <1>2 DEF ChainIn
<1> QED
  BY <1>3, <1>5, <1>6

\* The chain that was begun at a node, and that of a command alone.
LEMMA ChainFromIs ==
    ASSUME NEW p \in Pointer
    PROVE  /\ ChainFrom(p) \in Chain /\ [ChainFrom(NULL) EXCEPT !.cmd = p] \in Chain
           /\ \A s : Set(p) \subseteq InStage(s) =>
                  ChainIn(ChainFrom(p), s) /\ ChainIn([ChainFrom(NULL) EXCEPT !.cmd = p], s)
<1>1. NULL \in Pointer /\ NULL \in Seq(Places)
  <2>1. <<>> \in Seq(Places)
    OBVIOUS
  <2> QED
    BY <2>1 DEF Pointer, NULL
<1>2. ChainFrom(p) = [at |-> p, nodes |-> NULL, cmd |-> NULL]
  BY DEF ChainFrom, NULL
<1>3. [ChainFrom(NULL) EXCEPT !.cmd = p] = [at |-> NULL, nodes |-> NULL, cmd |-> p]
  <2>1. ChainFrom(NULL) = [at |-> NULL, nodes |-> NULL, cmd |-> NULL]
    BY DEF ChainFrom, NULL
  <2> QED
    BY <2>1
<1>4. ChainFrom(p) \in Chain /\ [ChainFrom(NULL) EXCEPT !.cmd = p] \in Chain
  BY <1>1, <1>2, <1>3 DEF Chain
<1>5. /\ ChainFrom(p).at = p /\ ChainFrom(p).nodes = NULL /\ ChainFrom(p).cmd = NULL
  BY <1>2
<1> DEFINE d == [ChainFrom(NULL) EXCEPT !.cmd = p]
<1>6. d.at = NULL /\ d.nodes = NULL /\ d.cmd = p
  BY <1>3
<1> HIDE DEF d
<1>7. \A s : Set(p) \subseteq InStage(s) => ChainIn(ChainFrom(p), s) /\ ChainIn(d, s)
  BY <1>4, <1>5, <1>6, NullIs DEF ChainIn, d
<1> QED
  BY <1>4, <1>7 DEF d

\* match_and_collect_complex_pattern and advance_current_for_linear_chain stay in
\* the stage.
LEMMA ComplexPatternIs ==
    ASSUME TypeOK, NEW p \in Pointer, IsComplex(p)
    PROVE  /\ ComplexPattern(p) \in Chain
           /\ \A s \in Nat : Set(p) \subseteq InStage(s) /\ (\A n \in Places : GoodNode(tree, n)) =>
                  ChainIn(ComplexPattern(p), s)
<1> DEFINE in == Left(p)
           deeper == IF Kind(Right(in)) \in Inputs THEN Right(in) ELSE NULL
           nodes == p \o deeper \o in
<1>1. Kind(p) \in Outputs /\ Kind(in) \in Inputs
  BY DEF IsComplex
<1>2. p # NULL /\ in # NULL
  BY <1>1, KindIs, KindsAre
<1>3. in \in Pointer
  BY <1>2, PartsAre
<1>4. Left(in) \in Pointer /\ Right(in) \in Pointer /\ NULL \in Pointer
  BY <1>2, <1>3, PartsAre DEF Pointer
<1>5. deeper \in Pointer
  BY <1>4
<1>6. p \in Seq(Places) /\ in \in Seq(Places) /\ deeper \in Seq(Places)
  <2> HIDE DEF in, deeper
  <2> QED
    BY <1>3, <1>5, PointerIs
<1>7. ComplexPattern(p) = [at |-> NULL, nodes |-> nodes, cmd |-> Left(in)]
  BY DEF ComplexPattern, NULL
<1>8. Set(deeper) \subseteq Set(Right(in))
  BY NullIs
<1> HIDE DEF deeper, in
<1>9. nodes \in Seq(Places) /\ Set(nodes) = Set(p) \cup Set(deeper) \cup Set(in)
  <2>1. p \o deeper \in Seq(Places) /\ Set(p \o deeper) = Set(p) \cup Set(deeper)
    BY <1>6, SetOfConcat
  <2> DEFINE q == p \o deeper
  <2>2. q \in Seq(Places)
    BY <2>1
  <2> HIDE DEF q
  <2>3. q \o in \in Seq(Places) /\ Set(q \o in) = Set(q) \cup Set(in)
    BY <1>6, <2>2, SetOfConcat
  <2>4. nodes = q \o in
    BY DEF q
  <2>5. nodes \in Seq(Places) /\ Set(nodes) = Set(q) \cup Set(in)
    BY <2>3, <2>4
  <2>6. Set(q) = Set(p) \cup Set(deeper)
    BY <2>1 DEF q
  <2> QED
    BY <2>5, <2>6
<1> HIDE DEF nodes
<1>10. ComplexPattern(p) \in Chain
  BY <1>4, <1>7, <1>9 DEF Chain
<1>11. ComplexPattern(p).at = NULL /\ ComplexPattern(p).nodes = nodes /\ ComplexPattern(p).cmd = Left(in)
  BY <1>7
<1>12. ASSUME NEW s \in Nat, Set(p) \subseteq InStage(s), \A n \in Places : GoodNode(tree, n)
       PROVE  ChainIn(ComplexPattern(p), s)
  <2>1. Set(in) \subseteq InStage(s)
    BY <1>2, <1>12, PartsInStage DEF in
  <2>2. Set(Left(in)) \subseteq InStage(s) /\ Set(Right(in)) \subseteq InStage(s)
    BY <1>2, <1>3, <1>12, <2>1, PartsInStage
  <2> QED
    BY <1>8, <1>9, <1>10, <1>11, <1>12, <2>1, <2>2, NullIs DEF ChainIn
<1> QED
  BY <1>10, <1>12

\* The next node of a chain is of the stage of the last.
LEMMA AdvanceIs ==
    ASSUME TypeOK, NEW p \in Pointer, p # NULL
    PROVE  /\ Advance(p) \in Pointer
           /\ \A s \in Nat : Set(p) \subseteq InStage(s) /\ (\A n \in Places : GoodNode(tree, n)) =>
                  Set(Advance(p)) \subseteq InStage(s)
<1>1. Advance(p) \in {Left(p), Right(p), NULL}
  BY DEF Advance
<1>2. Left(p) \in Pointer /\ Right(p) \in Pointer /\ NULL \in Pointer
  BY PartsAre DEF Pointer
<1>3. ASSUME NEW s \in Nat, Set(p) \subseteq InStage(s), \A n \in Places : GoodNode(tree, n)
      PROVE  Set(Advance(p)) \subseteq InStage(s)
  <2>1. Set(Left(p)) \subseteq InStage(s) /\ Set(Right(p)) \subseteq InStage(s)
    BY <1>3, PartsInStage
  <2> QED
    BY <1>1, <2>1, NullIs
<1> QED
  BY <1>1, <1>2, <1>3

\* A chain, part by part.
LEMMA ChainOf ==
    ASSUME NEW x \in Pointer, NEW y \in Seq(Places), NEW z \in Pointer
    PROVE  /\ [at |-> x, nodes |-> y, cmd |-> z] \in Chain
           /\ \A s : Set(x) \cup Set(y) \cup Set(z) \subseteq InStage(s) =>
                  ChainIn([at |-> x, nodes |-> y, cmd |-> z], s)
<1> DEFINE d == [at |-> x, nodes |-> y, cmd |-> z]
<1>1. d \in Chain /\ d.at = x /\ d.nodes = y /\ d.cmd = z
  BY DEF Chain
<1> HIDE DEF d
<1>2. \A s : Set(x) \cup Set(y) \cup Set(z) \subseteq InStage(s) => ChainIn(d, s)
  BY <1>1 DEF ChainIn
<1> QED
  BY <1>1, <1>2 DEF d

\* A step of process_node_in_linear_chain.
LEMMA StepIs ==
    ASSUME TypeOK, NEW c \in Chain, c.at # NULL, NEW d,
           d = IF Kind(c.at) \in Redirs
               THEN [c EXCEPT !.nodes = @ \o c.at, !.at = Advance(c.at)]
               ELSE IF Kind(c.at) = "cmd" THEN [c EXCEPT !.cmd = c.at, !.at = NULL]
               ELSE [c EXCEPT !.at = NULL]
    PROVE  /\ d \in Chain
           /\ \A s \in Nat : ChainIn(c, s) /\ (\A n \in Places : GoodNode(tree, n)) => ChainIn(d, s)
<1>1. /\ c.at \in Pointer /\ c.nodes \in Seq(Places) /\ c.cmd \in Pointer
      /\ c = [at |-> c.at, nodes |-> c.nodes, cmd |-> c.cmd]
  BY DEF Chain
<1> DEFINE a == c.at
           ns == c.nodes
           cm == c.cmd
<1>2. a \in Seq(Places) /\ NULL \in Pointer
  BY <1>1, PointerIs DEF Pointer
<1>3. ns \o a \in Seq(Places) /\ Set(ns \o a) = Set(ns) \cup Set(a)
  BY <1>1, <1>2, SetOfConcat
<1>4. ASSUME NEW x \in Pointer, NEW y \in Seq(Places), NEW z \in Pointer,
             d = [at |-> x, nodes |-> y, cmd |-> z],
             \A s \in Nat : ChainIn(c, s) /\ (\A n \in Places : GoodNode(tree, n)) =>
                 Set(x) \cup Set(y) \cup Set(z) \subseteq InStage(s)
      PROVE  /\ d \in Chain
             /\ \A s \in Nat : ChainIn(c, s) /\ (\A n \in Places : GoodNode(tree, n)) => ChainIn(d, s)
  <2> DEFINE w == [at |-> x, nodes |-> y, cmd |-> z]
  <2>1. w \in Chain /\ \A s : Set(x) \cup Set(y) \cup Set(z) \subseteq InStage(s) => ChainIn(w, s)
    BY ChainOf
  <2>2. d = w
    BY <1>4
  <2> HIDE DEF w
  <2> QED
    BY <1>4, <2>1, <2>2
<1>5. CASE Kind(a) \in Redirs
  <2> DEFINE v == Advance(a)
             q == ns \o a
  <2>1. v \in Pointer
    BY <1>1, AdvanceIs
  <2>2. d = [[c EXCEPT !.nodes = q] EXCEPT !.at = v]
    BY <1>5
  <2> HIDE DEF v, q
  <2>3. [c EXCEPT !.nodes = q] = [at |-> a, nodes |-> q, cmd |-> cm]
    BY <1>1
  <2>4. d = [at |-> v, nodes |-> q, cmd |-> cm]
    <3> HIDE DEF a, cm
    <3> QED
      BY <2>2, <2>3
  <2>5. \A s \in Nat : ChainIn(c, s) /\ (\A n \in Places : GoodNode(tree, n)) =>
                 Set(v) \cup Set(q) \cup Set(cm) \subseteq InStage(s)
    BY <1>1, <1>3, AdvanceIs DEF ChainIn, v, q
  <2> QED
    BY <1>1, <1>3, <1>4, <2>1, <2>4, <2>5 DEF q
<1>6. CASE Kind(a) \notin Redirs /\ Kind(a) = "cmd"
  <2>1. d = [[c EXCEPT !.cmd = a] EXCEPT !.at = NULL]
    BY <1>6
  <2>2. [c EXCEPT !.cmd = a] = [at |-> a, nodes |-> ns, cmd |-> a]
    BY <1>1
  <2>3. d = [at |-> NULL, nodes |-> ns, cmd |-> a]
    <3> HIDE DEF a, ns
    <3> QED
      BY <2>1, <2>2
  <2>4. \A s \in Nat : ChainIn(c, s) /\ (\A n \in Places : GoodNode(tree, n)) =>
                 Set(NULL) \cup Set(ns) \cup Set(a) \subseteq InStage(s)
    BY NullIs DEF ChainIn
  <2>5. a \in Pointer /\ ns \in Seq(Places) /\ NULL \in Pointer
    BY <1>1, <1>2
  <2> HIDE DEF a, ns
  <2> QED
    BY <1>4, <2>3, <2>4, <2>5
<1>7. CASE Kind(a) \notin Redirs /\ Kind(a) # "cmd"
  <2>1. d = [at |-> NULL, nodes |-> ns, cmd |-> cm]
    BY <1>1, <1>7
  <2>2. \A s \in Nat : ChainIn(c, s) /\ (\A n \in Places : GoodNode(tree, n)) =>
                 Set(NULL) \cup Set(ns) \cup Set(cm) \subseteq InStage(s)
    BY NullIs DEF ChainIn
  <2> QED
    BY <1>1, <1>2, <1>4, <2>1, <2>2
<1> QED
  BY <1>5, <1>6, <1>7

-----------------------------------------------------------------------------
(***************************************************************************)
(* The inductive invariant.                                                *)
(***************************************************************************)
Walking == pc \in {"run", "chain"}
\* The parts q follow each other up to the end of the line, after k stages: From(q, i)
\* is the stage at which the i-th of them starts.
From(q, i) == IF i = Len(q) + 1 THEN Stage(Eof) + 1 ELSE First(q[i][1])
Follows(tr, q, k) ==
    /\ \A i \in 1..Len(q) : Complete(tr, q[i]) /\ From(q, i + 1) = Last(q[i][1]) + 1
    /\ From(q, 1) = k + 1
WalkInv  == Walking => Follows(tree, todo, Len(jobs))
StartInv == pc = "parse" => jobs = <<>>
GoodInv  == Walking => \A n \in Places : GoodNode(tree, n)
ChainInv == pc = "chain" =>
    /\ todo # <<>> /\ tokens[Head(todo)[1]] # "|"
    /\ ChainIn(chain, Len(jobs) + 1)
IInv == /\ TypeOK /\ StartInv /\ GoodInv /\ WalkInv /\ ChainInv
        /\ StagesKept /\ NothingTwice

\* The initial states have it.
LEMMA InitHolds == Init => IInv
<1> SUFFICES ASSUME Init PROVE IInv
  OBVIOUS
<1>1. /\ pc = "parse" /\ tokens \in Lines /\ tree = BlankTree /\ root = NULL /\ todo = <<>>
      /\ chain = ChainFrom(NULL) /\ status \in {0, 1} /\ jobs = <<>>
  BY DEF Init, BlankTree
<1>2. BlankTree \in [Places -> Node]
  <2>1. 0 \in 0..255
    OBVIOUS
  <2> QED
    BY <1>1, <2>1, BuiltCallIs
<1>3. NULL \in Pointer
  BY DEF Pointer
<1>4. TypeOK
  <2>1. <<>> \in Seq(Pointer) /\ <<>> \in Seq([redirs : Seq(Places), cmd : Seq(Places)])
    OBVIOUS
  <2> QED
    BY <1>1, <1>2, <1>3, <2>1, ChainFromIs DEF TypeOK
<1>5. \A m \in Places : \A x \in NodeFields : DOMAIN tree[m][x] = {}
  BY <1>1, BlankIs, NullIs DEF BlankTree
<1>6. NothingTwice
  BY <1>5 DEF NothingTwice
<1>7. StagesKept
  BY <1>1 DEF StagesKept
<1> QED
  BY <1>1, <1>4, <1>6, <1>7 DEF IInv, StartInv, GoodInv, WalkInv, Walking, ChainInv


\* What depends on the line alone stays the same while the line does.
LEMMA SameLine ==
    ASSUME tokens' = tokens
    PROVE  /\ Places' = Places /\ Eof' = Eof /\ Pointer' = Pointer /\ Node' = Node /\ Chain' = Chain
           /\ \A n : PipesBefore(n)' = PipesBefore(n) /\ Stage(n)' = Stage(n) /\ InStage(n)' = InStage(n)
           /\ \A n : First(n)' = First(n) /\ Last(n)' = Last(n)
           /\ \A c, s : ChainIn(c, s)' = ChainIn(c, s)
<1>1. Places' = Places /\ Eof' = Eof
  BY DEF Places, Eof
<1>2. Pointer' = Pointer
  BY <1>1 DEF Pointer
<1>3. Node' = Node /\ Chain' = Chain
  BY <1>1, <1>2 DEF Node, Chain
<1>4. \A n : PipesBefore(n)' = PipesBefore(n)
  BY <1>1 DEF PipesBefore
<1>5. \A n : Stage(n)' = Stage(n) /\ InStage(n)' = InStage(n)
  BY <1>1, <1>4 DEF Stage, InStage
<1>6. \A n : LastPipe(n)' = LastPipe(n)
  BY <1>1 DEF LastPipe
<1>7. Stage(Eof)' = Stage(Eof) /\ PipesBefore(Eof)' = PipesBefore(Eof)
  BY <1>1 DEF Stage, PipesBefore
<1>8. \A n : First(n)' = First(n) /\ Last(n)' = Last(n)
  BY <1>5, <1>6, <1>7 DEF First, Last
<1>9. \A c, s : ChainIn(c, s)' = ChainIn(c, s)
  BY <1>3, <1>5 DEF ChainIn
<1> QED
  BY <1>1, <1>2, <1>3, <1>4, <1>5, <1>8, <1>9

\* Nodes stay good and complete while the line and the tree do.
LEMMA SameTree ==
    ASSUME tokens' = tokens, tree' = tree
    PROVE  /\ \A n : GoodNode(tree, n)' = GoodNode(tree, n)
           /\ \A p : Complete(tree, p)' = Complete(tree, p)
<1>1. \A p : Complete(tree, p)' = Complete(tree, p)
  BY DEF Complete
<1>2. \A l, r, n : Follow(l, r, n)' = Follow(l, r, n)
  BY SameLine DEF Follow
<1>3. /\ \A n : InStage(Stage(n))' = InStage(Stage(n))
      /\ \A n : Follow(tree[n].left[1], tree[n].right[1], n)' = Follow(tree[n].left[1], tree[n].right[1], n)
      /\ \A n : /\ Complete(tree, tree[n].left)' = Complete(tree, tree[n].left)
                /\ Complete(tree, tree[n].right)' = Complete(tree, tree[n].right)
  <2>1. \A n : InStage(Stage(n))' = InStage(Stage(n))
    BY SameLine DEF InStage, Stage
  <2>2. \A n : Follow(tree[n].left[1], tree[n].right[1], n)' = Follow(tree[n].left[1], tree[n].right[1], n)
    BY SameLine DEF Follow, First, Last, Stage, PipesBefore, LastPipe
  <2>3. \A n : /\ Complete(tree, tree[n].left)' = Complete(tree, tree[n].left)
               /\ Complete(tree, tree[n].right)' = Complete(tree, tree[n].right)
    BY DEF Complete
  <2> QED
    BY <2>1, <2>2, <2>3
<1>4. \A n : GoodNode(tree, n)' = GoodNode(tree, n)
  BY <1>3 DEF GoodNode
<1> QED
  BY <1>1, <1>4

\* The order of the parts depends on the line and the tree alone.
LEMMA SameWalk ==
    ASSUME tokens' = tokens, NEW q, NEW k, NEW tr,
           tree' = tr, todo' = q, Len(jobs') = k, Follows(tr, q, k)
    PROVE  WalkInv'
<1>1. \A n : First(n)' = First(n) /\ Last(n)' = Last(n) /\ Stage(n)' = Stage(n)
  BY SameLine
<1>2. \A p : Complete(tr, p)' = Complete(tr, p)
  BY DEF Complete
<1>3. Stage(Eof)' = Stage(Eof)
  BY SameLine DEF Stage, PipesBefore
<1>4. \A i : From(q, i)' = From(q, i)
  BY <1>1, <1>3, SameLine DEF From, First, LastPipe, Stage, PipesBefore
<1>5. \A i : Last(q[i][1])' = Last(q[i][1])
  BY <1>1, SameLine DEF Last, LastPipe, Stage, PipesBefore
<1>6. Follows(tr, q, k)'
  BY <1>2, <1>4, <1>5 DEF Follows
<1>7. Follows(tree, todo, Len(jobs))' <=> Follows(tr, q, k)'
  BY DEF Follows, From, Complete
<1> QED
  BY <1>6, <1>7 DEF WalkInv
\* The part that is next is of the stage that is next, if it is no pipe.
LEMMA HeadInStage ==
    ASSUME TypeOK, NEW q \in Seq(Pointer), NEW k \in Nat, Follows(tree, q, k),
           q # <<>>, tokens[Head(q)[1]] # "|"
    PROVE  /\ Head(q) \in Pointer /\ Head(q) # NULL
           /\ Set(Head(q)) \subseteq InStage(k + 1)
           /\ Last(Head(q)[1]) = k + 1
<1>1. tokens \in Lines
  BY DEF TypeOK
<1>2. Head(q) = q[1] /\ Len(q) \in Nat \ {0} /\ q[1] \in Pointer
  OBVIOUS
<1> DEFINE p == q[1]
           n == p[1]
<1>3. Complete(tree, p) /\ From(q, 1) = k + 1
  BY <1>2 DEF Follows
<1>4. p # NULL /\ p = <<n>> /\ n \in Places
  BY <1>2, <1>3, PointerIs DEF Complete
<1>5. First(n) = k + 1
  BY <1>2, <1>3 DEF From
<1> HIDE DEF n
<1>6. tokens[n] # "|"
  BY <1>2 DEF n
<1>7. Stage(n) = k + 1 /\ Last(n) = Stage(n)
  BY <1>5, <1>6 DEF First, Last, LastPipe
<1>8. n \in InStage(Stage(n))
  <2>1. n <= n /\ \A j \in n..(n - 1) : tokens[j] # "|"
    BY <1>1, <1>4, LineFacts
  <2> QED
    BY <1>1, <1>4, <1>6, <2>1, InStageOf
<1>9. Set(p) = {n}
  BY <1>4, SetOfOne
<1> QED
  BY <1>1, <1>2, <1>4, <1>7, <1>8, <1>9 DEF n

\* When it has run, the rest follows.
LEMMA FollowsTail ==
    ASSUME TypeOK, NEW q \in Seq(Pointer), NEW k \in Nat, Follows(tree, q, k),
           q # <<>>, tokens[Head(q)[1]] # "|"
    PROVE  Tail(q) \in Seq(Pointer) /\ Follows(tree, Tail(q), k + 1)
<1> DEFINE m == Len(q)
           r == Tail(q)
<1>1. /\ r \in Seq(Pointer) /\ m \in Nat \ {0} /\ Len(r) = m - 1 /\ Head(q) = q[1]
      /\ \A i \in 1..(m - 1) : r[i] = q[i + 1]
  OBVIOUS
<1> HIDE DEF r, m
<1>2. \A i \in 1..m : From(r, i) = From(q, i + 1)
  <2> SUFFICES ASSUME NEW i \in 1..m PROVE From(r, i) = From(q, i + 1)
    OBVIOUS
  <2>1. Len(q) = m
    BY DEF m
  <2>2. CASE i = m
    <3>1. i = Len(r) + 1 /\ i + 1 = Len(q) + 1
      BY <1>1, <2>1, <2>2
    <3> QED
      BY <3>1 DEF From
  <2>3. CASE i # m
    <3>1. i \in 1..(m - 1) /\ i # Len(r) + 1 /\ i + 1 # Len(q) + 1
      BY <1>1, <2>1, <2>3
    <3> QED
      BY <1>1, <3>1 DEF From
  <2> QED
    BY <2>2, <2>3
<1>3. \A i \in 1..m : Complete(tree, q[i]) /\ From(q, i + 1) = Last(q[i][1]) + 1
  BY DEF Follows, m
<1>4. From(r, 1) = (k + 1) + 1
  <2>1. 1 \in 1..m /\ Last(q[1][1]) = k + 1
    BY <1>1, HeadInStage
  <2> QED
    BY <1>2, <1>3, <2>1
<1>5. ASSUME NEW i \in 1..Len(r)
      PROVE  Complete(tree, r[i]) /\ From(r, i + 1) = Last(r[i][1]) + 1
  <2>1. i \in 1..(m - 1) /\ i + 1 \in 1..m
    BY <1>1
  <2>2. r[i] = q[i + 1] /\ From(r, i + 1) = From(q, (i + 1) + 1)
    BY <1>1, <1>2, <2>1
  <2> QED
    BY <1>3, <2>1, <2>2
<1>6. Follows(tree, r, k + 1)
  BY <1>4, <1>5 DEF Follows
<1> QED
  BY <1>1, <1>6 DEF r

\* A pipe gives way to its two sides.
LEMMA FollowsSplit ==
    ASSUME TypeOK, NEW q \in Seq(Pointer), NEW k \in Nat, Follows(tree, q, k),
           q # <<>>, Head(q) # NULL, tokens[Head(q)[1]] = "|", \A n \in Places : GoodNode(tree, n)
    PROVE  LET r == <<Left(Head(q)), Right(Head(q))>> \o Tail(q)
           IN  /\ r \in Seq(Pointer) /\ Follows(tree, r, k)
               /\ NULL \notin {Left(Head(q)), Right(Head(q))}
<1> DEFINE m == Len(q)
           p == q[1]
           n == p[1]
           a == Left(p)
           b == Right(p)
           r == <<a, b>> \o Tail(q)
<1>1. m \in Nat \ {0} /\ Head(q) = p /\ p \in Pointer /\ p # NULL /\ tokens[n] = "|"
  OBVIOUS
<1>2. a \in Pointer /\ b \in Pointer /\ n \in Places
  BY <1>1, PartsAre
<1>3. a = tree[n].left /\ b = tree[n].right
  BY DEF Left, Right
<1>4. Complete(tree, p) /\ From(q, 1 + 1) = Last(n) + 1 /\ From(q, 1) = k + 1
  BY <1>1 DEF Follows
<1>5. a # NULL
  BY <1>1, <1>3, <1>4 DEF Complete
<1>6. Complete(tree, a) /\ Complete(tree, b) /\ Follow(a[1], b[1], n)
  <2>1. GoodNode(tree, n)
    BY <1>2
  <2> QED
    BY <1>1, <1>3, <1>5, <2>1 DEF GoodNode
<1>7. First(n) = k + 1
  BY <1>1, <1>4 DEF From
<1> HIDE DEF a, b, n, p
<1>8. /\ r \in Seq(Pointer) /\ Len(r) = m + 1 /\ r[1] = a /\ r[2] = b
      /\ \A i \in 3..(m + 1) : r[i] = q[i - 1]
  BY <1>1, <1>2
<1> HIDE DEF r
<1>9. \A i \in 3..(m + 2) : From(r, i) = From(q, i - 1)
  <2> SUFFICES ASSUME NEW i \in 3..(m + 2) PROVE From(r, i) = From(q, i - 1)
    OBVIOUS
  <2>1. i = Len(r) + 1 <=> i - 1 = Len(q) + 1
    BY <1>1, <1>8
  <2>2. i # Len(r) + 1 => r[i] = q[i - 1]
    BY <1>1, <1>8
  <2> QED
    BY <2>1, <2>2 DEF From
<1>10. From(r, 1) = First(a[1]) /\ From(r, 2) = First(b[1])
  BY <1>1, <1>8 DEF From
<1>11. From(r, 3) = From(q, 2)
  <2>1. 3 \in 3..(m + 2) /\ 3 - 1 = 2
    BY <1>1
  <2> QED
    BY <1>9, <2>1
<1>12. From(q, 2) = Last(n) + 1
  BY <1>4
<1>13. ASSUME NEW i \in 1..Len(r)
       PROVE  Complete(tree, r[i]) /\ From(r, i + 1) = Last(r[i][1]) + 1
  <2>1. CASE i = 1
    BY <1>6, <1>8, <1>10, <2>1 DEF Follow
  <2>2. CASE i = 2
    BY <1>6, <1>8, <1>11, <1>12, <2>2 DEF Follow
  <2>3. CASE i > 2
    <3>1. i \in 3..(m + 1) /\ i + 1 \in 3..(m + 2) /\ (i + 1) - 1 = i /\ i - 1 \in 1..m /\ (i - 1) + 1 = i
      BY <1>1, <1>8, <2>3
    <3>2. r[i] = q[i - 1] /\ From(r, i + 1) = From(q, i)
      BY <1>8, <1>9, <3>1
    <3>3. Complete(tree, q[i - 1]) /\ From(q, (i - 1) + 1) = Last(q[i - 1][1]) + 1
      BY <3>1 DEF Follows
    <3> QED
      BY <3>1, <3>2, <3>3
  <2> QED
    BY <1>1, <1>8, <2>1, <2>2, <2>3
<1>14. From(r, 1) = k + 1
  BY <1>6, <1>7, <1>10 DEF Follow
<1>15. Follows(tree, r, k)
  BY <1>13, <1>14 DEF Follows
<1>16. NULL \notin {a, b}
  BY <1>5, <1>6 DEF Complete
<1> QED
  BY <1>1, <1>8, <1>15, <1>16 DEF r, a, b, p

\* The whole tree.
LEMMA FollowsOne ==
    ASSUME NEW tr, NEW p, Complete(tr, p), First(p[1]) = 1, Last(p[1]) = Stage(Eof)
    PROVE  Follows(tr, <<p>>, 0)
<1> DEFINE q == <<p>>
<1>1. Len(q) = 1 /\ q[1] = p
  OBVIOUS
<1> HIDE DEF q
<1>2. From(q, 1) = 0 + 1 /\ From(q, 1 + 1) = Last(p[1]) + 1
  BY <1>1 DEF From
<1>3. Follows(tr, q, 0)
  BY <1>1, <1>2 DEF Follows
<1> QED
  BY <1>3 DEF q
-----------------------------------------------------------------------------
(***************************************************************************)
(* Each action keeps the invariant.                                        *)
(***************************************************************************)
\* Every stage holds words and redirections of its own.
JobsIn == \A s \in DOMAIN jobs : Set(jobs[s].redirs) \cup Set(jobs[s].cmd) \subseteq InStage(s)

\* A stage that is run is the next one, and the rest follows.
LEMMA RunsTheNext ==
    ASSUME TypeOK, Walking, Walking', WalkInv, JobsIn, \A n \in Places : GoodNode(tree, n),
           todo # <<>>, tokens[Head(todo)[1]] # "|",
           NEW c, ChainIn(c, Len(jobs) + 1), RunsNext(c), tokens' = tokens, tree' = tree
    PROVE  /\ todo' \in Seq(Pointer) /\ jobs' \in Seq([redirs : Seq(Places), cmd : Seq(Places)])
           /\ WalkInv' /\ JobsIn'
<1> DEFINE J == [redirs : Seq(Places), cmd : Seq(Places)]
           k == Len(jobs)
           j == Job(c)
<1>1. /\ todo \in Seq(Pointer) /\ jobs \in Seq(J) /\ k \in Nat /\ tokens \in Lines
      /\ DOMAIN jobs = 1..k
  BY DEF TypeOK
<1>2. j \in J /\ Set(j.redirs) \cup Set(j.cmd) \subseteq InStage(k + 1)
  <2>1. c \in Chain /\ k + 1 \in Nat
    BY <1>1 DEF ChainIn
  <2>2. j \in J /\ \A s \in Nat : ChainIn(c, s) => Set(j.redirs) \cup Set(j.cmd) \subseteq InStage(s)
    BY <2>1, JobIs
  <2> QED
    BY <2>1, <2>2
<1>3. jobs' = Append(jobs, j) /\ todo' = Tail(todo)
  BY DEF RunsNext
<1>4. /\ jobs' \in Seq(J) /\ Len(jobs') = k + 1 /\ DOMAIN jobs' = 1..(k + 1)
      /\ jobs'[k + 1] = j /\ \A s \in 1..k : jobs'[s] = jobs[s]
  <2> HIDE DEF J, j
  <2> QED
    BY <1>1, <1>2, <1>3
<1>5. JobsIn'
  <2>1. ASSUME NEW s \in 1..(k + 1)
        PROVE  Set(jobs'[s].redirs) \cup Set(jobs'[s].cmd) \subseteq InStage(s)
    <3>1. CASE s = k + 1
      BY <1>2, <1>4, <3>1
    <3>2. CASE s # k + 1
      <4>1. s \in 1..k
        BY <1>1, <3>2
      <4> QED
        BY <1>1, <1>4, <4>1 DEF JobsIn
    <3> QED
      BY <3>1, <3>2
  <2>2. ASSUME NEW s \in 1..(k + 1)
        PROVE  Set(jobs'[s].redirs) \cup Set(jobs'[s].cmd) \subseteq InStage(s)'
    BY <2>1, SameLine
  <2> QED
    BY <1>4, <2>2 DEF JobsIn, Set
<1>6. Tail(todo) \in Seq(Pointer) /\ Follows(tree, Tail(todo), k + 1)
  <2>1. Follows(tree, todo, k)
    BY DEF WalkInv
  <2> QED
    BY <1>1, <2>1, FollowsTail
<1>7. WalkInv'
  <2>1. todo' = Tail(todo) /\ Len(jobs') = k + 1 /\ tree' = tree
    BY <1>3, <1>4
  <2> HIDE DEF k
  <2> QED
    BY <1>6, <2>1, SameWalk
<1> QED
  BY <1>3, <1>4, <1>5, <1>6, <1>7

\* The tokens of the tree are taken once while the tree stays as it is.
LEMMA NothingTwiceKept ==
    ASSUME NothingTwice, tokens' = tokens, tree' = tree, root' = root \/ root' = NULL
    PROVE  NothingTwice'
<1>1. \A j : NULL # <<j>>
  BY NullIs
<1> QED
  BY <1>1 DEF NothingTwice, Places

\* What a step of the walk leaves as it is.
LEMMA WalkKeeps ==
    ASSUME IInv, Walking, Walking', UNCHANGED <<tokens, tree, root, status>>
    PROVE  /\ tokens' \in Lines /\ tree' \in [Places -> Node]' /\ root' \in Pointer' /\ status' \in {0, 1, 2}
           /\ StartInv' /\ GoodInv' /\ NothingTwice' /\ (JobsIn' => StagesKept')
           /\ TypeOK /\ JobsIn /\ WalkInv /\ \A n \in Places : GoodNode(tree, n)
<1>1. /\ tokens' \in Lines /\ tree' \in [Places -> Node]' /\ root' \in Pointer' /\ status' \in {0, 1, 2}
      /\ TypeOK
  BY SameLine DEF IInv, TypeOK
<1>2. NothingTwice'
  BY NothingTwiceKept DEF IInv
<1>3. JobsIn /\ WalkInv /\ \A n \in Places : GoodNode(tree, n)
  BY DEF IInv, StagesKept, JobsIn, GoodInv
<1>4. \A n \in Places' : GoodNode(tree, n)'
  BY <1>3, SameLine, SameTree
<1>5. GoodInv'
  BY <1>4 DEF GoodInv
<1>6. StartInv' /\ (JobsIn' => StagesKept')
  BY DEF StartInv, StagesKept, JobsIn, Walking
<1> QED
  BY <1>1, <1>2, <1>3, <1>5, <1>6
\* A step that runs a stage.
LEMMA RunsOne ==
    ASSUME IInv, Walking, pc' = "run", todo # <<>>, tokens[Head(todo)[1]] # "|",
           NEW c, ChainIn(c, Len(jobs) + 1), RunsNext(c), chain' \in Chain,
           UNCHANGED <<tokens, tree, root, status>>
    PROVE  IInv'
<1>1. Walking' /\ pc' # "chain" /\ pc' # "done" /\ pc' # "parse"
  BY DEF Walking
<1>2. /\ tokens' \in Lines /\ tree' \in [Places -> Node]' /\ root' \in Pointer' /\ status' \in {0, 1, 2}
      /\ StartInv' /\ GoodInv' /\ NothingTwice' /\ (JobsIn' => StagesKept')
      /\ TypeOK /\ JobsIn /\ WalkInv /\ \A n \in Places : GoodNode(tree, n)
  BY <1>1, WalkKeeps
<1>3. /\ todo' \in Seq(Pointer) /\ jobs' \in Seq([redirs : Seq(Places), cmd : Seq(Places)])
      /\ WalkInv' /\ JobsIn'
  BY <1>1, <1>2, RunsTheNext
<1>4. TypeOK'
  BY <1>2, <1>3, SameLine DEF TypeOK
<1>5. ChainInv'
  BY <1>1 DEF ChainInv
<1> QED
  BY <1>2, <1>3, <1>4, <1>5 DEF IInv

\* The part that is next, in the states of the walk.
LEMMA NextPart ==
    ASSUME IInv, Walking, todo # <<>>
    PROVE  /\ Head(todo) \in Pointer /\ Head(todo) # NULL
           /\ tokens[Head(todo)[1]] = Kind(Head(todo))
           /\ Kind(Head(todo)) # "|" => Set(Head(todo)) \subseteq InStage(Len(jobs) + 1)
           /\ todo \in Seq(Pointer) /\ Len(jobs) \in Nat /\ Follows(tree, todo, Len(jobs))
<1>1. todo \in Seq(Pointer) /\ Len(jobs) \in Nat /\ Follows(tree, todo, Len(jobs)) /\ TypeOK
  BY DEF IInv, TypeOK, WalkInv
<1>2. Head(todo) = todo[1] /\ todo[1] \in Pointer /\ 1 \in 1..Len(todo)
  BY <1>1
<1>3. todo[1] # NULL
  BY <1>1, <1>2 DEF Follows, Complete
<1>4. Head(todo) # NULL /\ tokens[Head(todo)[1]] = Kind(Head(todo))
  BY <1>2, <1>3 DEF Kind
<1>5. Kind(Head(todo)) # "|" => Set(Head(todo)) \subseteq InStage(Len(jobs) + 1)
  BY <1>1, <1>4, HeadInStage
<1> QED
  BY <1>1, <1>2, <1>4, <1>5

\* Both sides of a pipe take its place, in their order.
LEMMA HandlePipeExecutionHolds == IInv /\ HandlePipeExecution => IInv'
<1> SUFFICES ASSUME IInv, HandlePipeExecution PROVE IInv'
  OBVIOUS
<1> DEFINE r == <<Left(Head(todo)), Right(Head(todo))>> \o Tail(todo)
           k == Len(jobs)
<1>1. /\ pc = "run" /\ pc' = "run" /\ todo # <<>> /\ Kind(Head(todo)) = "|"
      /\ NULL \notin {Left(Head(todo)), Right(Head(todo))} => todo' = r
      /\ UNCHANGED <<tokens, tree, root, status>> /\ chain' = chain /\ jobs' = jobs
  BY DEF HandlePipeExecution
<1>2. Walking /\ Walking' /\ pc' # "chain"
  BY <1>1 DEF Walking
<1>3. /\ tokens' \in Lines /\ tree' \in [Places -> Node]' /\ root' \in Pointer' /\ status' \in {0, 1, 2}
      /\ StartInv' /\ GoodInv' /\ NothingTwice' /\ (JobsIn' => StagesKept')
      /\ TypeOK /\ JobsIn /\ WalkInv /\ \A n \in Places : GoodNode(tree, n)
  BY <1>1, <1>2, WalkKeeps
<1>4. r \in Seq(Pointer) /\ Follows(tree, r, k) /\ todo' = r
  <2>1. /\ Head(todo) # NULL /\ tokens[Head(todo)[1]] = "|"
        /\ todo \in Seq(Pointer) /\ k \in Nat /\ Follows(tree, todo, k)
    BY <1>1, <1>2, NextPart
  <2> QED
    BY <1>1, <1>3, <2>1, FollowsSplit
<1>5. WalkInv'
  <2>1. Len(jobs') = k /\ todo' = r /\ tree' = tree /\ tokens' = tokens
    BY <1>1, <1>4
  <2> HIDE DEF k, r
  <2> QED
    BY <1>4, <2>1, SameWalk
<1>6. TypeOK'
  <2>1. /\ pc' \in {"parse", "run", "chain", "done", "refused"} /\ todo' \in Seq(Pointer)'
        /\ chain' \in Chain' /\ jobs' \in Seq([redirs : Seq(Places), cmd : Seq(Places)])'
    BY <1>1, <1>3, <1>4, SameLine DEF TypeOK
  <2> QED
    BY <1>3, <2>1 DEF TypeOK
<1>7. JobsIn'
  <2>1. \A s : InStage(s)' = InStage(s)
    BY <1>1, SameLine
  <2> QED
    BY <1>1, <1>3, <2>1 DEF JobsIn, Set
<1>8. ChainInv'
  BY <1>2 DEF ChainInv
<1> QED
  BY <1>3, <1>5, <1>6, <1>7, <1>8 DEF IInv

\* A command without redirections is the next stage.
LEMMA DispatchAstNodeHolds == IInv /\ DispatchAstNode => IInv'
<1> SUFFICES ASSUME IInv, DispatchAstNode PROVE IInv'
  OBVIOUS
<1> DEFINE c == [ChainFrom(NULL) EXCEPT !.cmd = Head(todo)]
<1>1. /\ pc = "run" /\ pc' = "run" /\ todo # <<>> /\ Kind(Head(todo)) \notin Redirs \cup {"|"}
      /\ RunsNext(c) /\ UNCHANGED <<tokens, tree, root, status>> /\ chain' = chain
  BY DEF DispatchAstNode
<1>2. Walking
  BY <1>1 DEF Walking
<1>3. /\ Head(todo) \in Pointer /\ tokens[Head(todo)[1]] # "|"
      /\ Set(Head(todo)) \subseteq InStage(Len(jobs) + 1)
  BY <1>1, <1>2, NextPart
<1>4. ChainIn(c, Len(jobs) + 1)
  BY <1>3, ChainFromIs
<1>5. chain' \in Chain
  BY <1>1 DEF IInv, TypeOK
<1> HIDE DEF c
<1> QED
  BY <1>1, <1>2, <1>3, <1>4, <1>5, RunsOne

\* The chain that was collected is the next stage.
LEMMA ExecuteRedirChainHolds == IInv /\ ExecuteRedirChain => IInv'
<1> SUFFICES ASSUME IInv, ExecuteRedirChain PROVE IInv'
  OBVIOUS
<1>1. /\ pc = "chain" /\ pc' = "run" /\ RunsNext(chain) /\ chain' = ChainFrom(NULL)
      /\ UNCHANGED <<tokens, tree, root, status>>
  BY DEF ExecuteRedirChain
<1>2. Walking
  BY <1>1 DEF Walking
<1>3. todo # <<>> /\ tokens[Head(todo)[1]] # "|" /\ ChainIn(chain, Len(jobs) + 1)
  BY <1>1 DEF IInv, ChainInv
<1>4. chain' \in Chain
  <2>1. NULL \in Pointer
    BY DEF Pointer
  <2> QED
    BY <1>1, <2>1, ChainFromIs
<1> QED
  BY <1>1, <1>2, <1>3, <1>4, RunsOne

\* A step of the walk that runs nothing yet.
LEMMA CollectsOne ==
    ASSUME IInv, Walking, pc' = "chain", todo # <<>>, tokens[Head(todo)[1]] # "|",
           ChainIn(chain', Len(jobs) + 1), todo' = todo, jobs' = jobs,
           UNCHANGED <<tokens, tree, root, status>>
    PROVE  IInv'
<1> DEFINE k == Len(jobs)
<1>1. Walking' /\ pc' # "parse" /\ pc' # "done"
  BY DEF Walking
<1>2. /\ tokens' \in Lines /\ tree' \in [Places -> Node]' /\ root' \in Pointer' /\ status' \in {0, 1, 2}
      /\ StartInv' /\ GoodInv' /\ NothingTwice' /\ (JobsIn' => StagesKept')
      /\ TypeOK /\ JobsIn /\ WalkInv /\ \A n \in Places : GoodNode(tree, n)
  BY <1>1, WalkKeeps
<1>3. WalkInv'
  <2> DEFINE q == todo
             tr == tree
  <2>1. Follows(tr, q, k) /\ Len(jobs') = k /\ todo' = q /\ tree' = tr /\ tokens' = tokens
    BY <1>2 DEF WalkInv
  <2> HIDE DEF k, q, tr
  <2> QED
    BY <2>1, SameWalk
<1>4. chain' \in Chain
  BY DEF ChainIn
<1>5. TypeOK'
  <2>1. /\ pc' \in {"parse", "run", "chain", "done", "refused"} /\ todo' \in Seq(Pointer)'
        /\ chain' \in Chain' /\ jobs' \in Seq([redirs : Seq(Places), cmd : Seq(Places)])'
    BY <1>2, <1>4, SameLine DEF TypeOK
  <2> QED
    BY <1>2, <2>1 DEF TypeOK
<1>6. \A s : InStage(s)' = InStage(s)
  BY SameLine
<1>7. JobsIn'
  BY <1>2, <1>6 DEF JobsIn, Set
<1>8. ChainInv'
  <2>1. Chain' = Chain
    BY SameLine
  <2>2. ChainIn(chain, Len(jobs) + 1)'
    BY <1>6, <2>1 DEF ChainIn, Set
  <2> QED
    BY <2>2 DEF ChainInv
<1> QED
  BY <1>2, <1>3, <1>5, <1>7, <1>8 DEF IInv
\* A chain is begun, or it is one of the complex patterns and run at once.
LEMMA CollectRedirAndCommandNodesHolds == IInv /\ CollectRedirAndCommandNodes => IInv'
<1> SUFFICES ASSUME IInv, CollectRedirAndCommandNodes PROVE IInv'
  OBVIOUS
<1> DEFINE p == Head(todo)
           k == Len(jobs)
<1>1. /\ pc = "run" /\ todo # <<>> /\ Kind(p) \in Redirs
      /\ UNCHANGED <<tokens, tree, root, status>>
      /\ IF IsComplex(p)
         THEN RunsNext(ComplexPattern(p)) /\ pc' = pc /\ chain' = chain
         ELSE pc' = "chain" /\ chain' = ChainFrom(p) /\ todo' = todo /\ jobs' = jobs
  BY DEF CollectRedirAndCommandNodes
<1>2. Walking /\ TypeOK /\ \A n \in Places : GoodNode(tree, n)
  BY <1>1 DEF Walking, IInv, GoodInv
<1>3. Kind(p) # "|"
  BY <1>1, KindsAre
<1>4. p \in Pointer /\ tokens[p[1]] # "|" /\ Set(p) \subseteq InStage(k + 1) /\ k + 1 \in Nat
  BY <1>1, <1>2, <1>3, NextPart
<1> HIDE DEF p, k
<1>5. CASE IsComplex(p)
  <2> DEFINE c == ComplexPattern(p)
  <2>1. ChainIn(c, k + 1)
    BY <1>2, <1>4, <1>5, ComplexPatternIs
  <2>2. RunsNext(c) /\ pc' = "run" /\ chain' \in Chain
    BY <1>1, <1>2, <1>5 DEF TypeOK
  <2> HIDE DEF c
  <2> QED
    BY <1>1, <1>2, <1>4, <2>1, <2>2, RunsOne DEF p, k
<1>6. CASE ~IsComplex(p)
  <2>1. ChainIn(ChainFrom(p), k + 1)
    BY <1>4, ChainFromIs
  <2>2. pc' = "chain" /\ chain' = ChainFrom(p) /\ todo' = todo /\ jobs' = jobs
    BY <1>1, <1>6
  <2>3. ChainIn(chain', k + 1)
    BY <2>1, <2>2
  <2> QED
    BY <1>1, <1>2, <1>4, <2>2, <2>3, CollectsOne DEF p, k
<1> QED
  BY <1>5, <1>6

\* What is added to a chain is of its stage.
LEMMA ProcessNodeInLinearChainHolds == IInv /\ ProcessNodeInLinearChain => IInv'
<1> SUFFICES ASSUME IInv, ProcessNodeInLinearChain PROVE IInv'
  OBVIOUS
<1> DEFINE k == Len(jobs)
           d == IF Kind(chain.at) \in Redirs
                THEN [chain EXCEPT !.nodes = @ \o chain.at, !.at = Advance(chain.at)]
                ELSE IF Kind(chain.at) = "cmd" THEN [chain EXCEPT !.cmd = chain.at, !.at = NULL]
                ELSE [chain EXCEPT !.at = NULL]
<1>1. /\ pc = "chain" /\ pc' = "chain" /\ chain.at # NULL /\ chain' = d
      /\ todo' = todo /\ jobs' = jobs /\ UNCHANGED <<tokens, tree, root, status>>
  BY DEF ProcessNodeInLinearChain
<1>2. Walking /\ TypeOK /\ chain \in Chain /\ k + 1 \in Nat /\ \A n \in Places : GoodNode(tree, n)
  BY <1>1 DEF Walking, IInv, GoodInv, TypeOK
<1>3. todo # <<>> /\ tokens[Head(todo)[1]] # "|" /\ ChainIn(chain, k + 1)
  BY <1>1 DEF IInv, ChainInv
<1>4. \A s \in Nat : ChainIn(chain, s) /\ (\A n \in Places : GoodNode(tree, n)) => ChainIn(d, s)
  BY <1>1, <1>2, StepIs
<1> HIDE DEF d
<1>5. ChainIn(d, k + 1)
  BY <1>2, <1>3, <1>4
<1>6. ChainIn(chain', k + 1)
  BY <1>1, <1>5
<1> QED
  BY <1>1, <1>2, <1>3, <1>6, CollectsOne

\* When nothing is left, the stages that ran are all there are.
LEMMA ExecuteAstEndsHolds == IInv /\ ExecuteAstEnds => IInv'
<1> SUFFICES ASSUME IInv, ExecuteAstEnds PROVE IInv'
  OBVIOUS
<1>1. /\ pc = "run" /\ pc' = "done" /\ todo = <<>> /\ status' \in {0, 1} /\ root' = NULL
      /\ tokens' = tokens /\ tree' = tree /\ todo' = todo /\ chain' = chain /\ jobs' = jobs
  BY DEF ExecuteAstEnds
<1>2. TypeOK /\ NothingTwice /\ JobsIn /\ Follows(tree, todo, Len(jobs))
  BY <1>1 DEF IInv, StagesKept, JobsIn, WalkInv, Walking
<1>3. TypeOK'
  <2>1. NULL \in Pointer
    BY DEF Pointer
  <2> QED
    BY <1>1, <1>2, <2>1, SameLine DEF TypeOK
<1>4. JobsIn'
  <2>1. \A s : InStage(s)' = InStage(s)
    BY <1>1, SameLine
  <2> QED
    BY <1>1, <1>2, <2>1 DEF JobsIn, Set
<1>5. Len(jobs) = PipesBefore(Eof) + 1
  <2>1. From(todo, 1) = Stage(Eof) + 1 /\ From(todo, 1) = Len(jobs) + 1
    BY <1>1, <1>2 DEF Follows, From
  <2>2. Len(jobs) \in Nat /\ tokens \in Lines
    BY <1>2 DEF TypeOK
  <2>3. PipesBefore(Eof) \in Nat
    BY <2>2, PipesBeforeIs
  <2> QED
    BY <2>1, <2>2, <2>3 DEF Stage
<1>6. Len(jobs') = PipesBefore(Eof)' + 1
  BY <1>1, <1>5, SameLine DEF PipesBefore
<1>7. StagesKept'
  BY <1>4, <1>6 DEF StagesKept, JobsIn
<1>8. NothingTwice'
  BY <1>1, <1>2, NothingTwiceKept
<1>9. ~Walking' /\ pc' # "parse" /\ pc' # "chain"
  BY <1>1 DEF Walking
<1> QED
  BY <1>3, <1>7, <1>8, <1>9 DEF IInv, StartInv, GoodInv, WalkInv, ChainInv

\* What the tree that was made is good for, it is once it is shell->ast_root.
LEMMA NewTree ==
    ASSUME tokens' = tokens, NEW tr, tree' = tr
    PROVE  \A n : GoodNode(tr, n) => GoodNode(tree, n)'
<1>1. /\ \A n : InStage(Stage(n))' = InStage(Stage(n))
      /\ \A n : Follow(tr[n].left[1], tr[n].right[1], n)' = Follow(tr[n].left[1], tr[n].right[1], n)
      /\ \A n : /\ Complete(tr, tr[n].left)' = Complete(tr, tr[n].left)
                /\ Complete(tr, tr[n].right)' = Complete(tr, tr[n].right)
  <2>1. \A n : InStage(Stage(n))' = InStage(Stage(n))
    BY SameLine DEF InStage, Stage
  <2>2. \A n : Follow(tr[n].left[1], tr[n].right[1], n)' = Follow(tr[n].left[1], tr[n].right[1], n)
    BY SameLine DEF Follow, First, Last, Stage, PipesBefore, LastPipe
  <2>3. \A n : /\ Complete(tr, tr[n].left)' = Complete(tr, tr[n].left)
               /\ Complete(tr, tr[n].right)' = Complete(tr, tr[n].right)
    BY DEF Complete
  <2> QED
    BY <2>1, <2>2, <2>3
<1>2. \A n : GoodNode(tr, n)' = GoodNode(tr, n)
  BY <1>1 DEF GoodNode
<1>3. \A n : GoodNode(tree, n)' <=> GoodNode(tr, n)'
  BY DEF GoodNode, Complete, Follow, First, Last, Stage, PipesBefore, LastPipe
<1> QED
  BY <1>2, <1>3
\* The tree that was made is the first part that is to be run.
LEMMA InitYggdrasilHolds == IInv /\ InitYggdrasil => IInv'
<1> SUFFICES ASSUME IInv, InitYggdrasil PROVE IInv'
  OBVIOUS
<1> DEFINE b == Built(status)
           tr == b.tree
           p == b.node
<1>1. /\ pc = "parse" /\ root' = p /\ tree' = tr /\ status' = b.status
      /\ IF root' = NULL THEN pc' = "refused" /\ todo' = todo
                         ELSE pc' = "run" /\ todo' = <<root'>>
      /\ tokens' = tokens /\ chain' = chain /\ jobs' = jobs
  BY DEF InitYggdrasil
<1>2. TypeOK /\ jobs = <<>>
  BY <1>1 DEF IInv, StartInv
<1>3. tokens \in Lines /\ status \in 0..255
  <2>1. 0 \in 0..255 /\ 1 \in 0..255 /\ 2 \in 0..255
    OBVIOUS
  <2> QED
    BY <1>2, <2>1 DEF TypeOK
<1>4. /\ p \in Pointer /\ tr \in [Places -> Node] /\ b.status \in {status, 2} /\ Once(tr, Places)
      /\ \A m \in Places : \A x \in NodeFields : \A j \in DOMAIN tr[m][x] : p # <<tr[m][x][j]>>
  BY <1>3, BuiltIsTidy
<1>5. p # NULL => /\ \A n \in Places : GoodNode(tr, n)
                  /\ Complete(tr, p) /\ First(p[1]) = 1 /\ Last(p[1]) = Stage(Eof)
  BY <1>3, BuiltIsGood
<1> HIDE DEF b, tr, p
<1>6. TypeOK'
  <2>1. todo' \in Seq(Pointer)
    <3>1. <<p>> \in Seq(Pointer)
      BY <1>4
    <3> QED
      BY <1>1, <1>2, <3>1 DEF TypeOK
  <2>2. status' \in {0, 1, 2}
    BY <1>1, <1>2, <1>4 DEF TypeOK
  <2>3. pc' \in {"parse", "run", "chain", "done", "refused"}
    BY <1>1
  <2> QED
    BY <1>1, <1>2, <1>4, <2>1, <2>2, <2>3, SameLine DEF TypeOK
<1>7. NothingTwice'
  BY <1>1, <1>4 DEF NothingTwice, Once, Places
<1>8. StartInv' /\ ChainInv'
  BY <1>1, <1>2 DEF StartInv, ChainInv
<1>9. StagesKept'
  <2>1. DOMAIN jobs' = {}
    BY <1>1, <1>2
  <2> QED
    BY <1>1, <2>1 DEF StagesKept
<1>10. CASE p = NULL
  <2>1. ~Walking'
    BY <1>1, <1>10 DEF Walking
  <2> QED
    BY <1>6, <1>7, <1>8, <1>9, <2>1 DEF IInv, GoodInv, WalkInv
<1>11. CASE p # NULL
  <2>1. \A n \in Places' : GoodNode(tree, n)'
    BY <1>1, <1>5, <1>11, NewTree, SameLine
  <2>2. GoodInv'
    BY <2>1 DEF GoodInv
  <2>3. WalkInv'
    <3> DEFINE q == <<p>>
    <3>1. Follows(tr, q, 0)
      BY <1>5, <1>11, FollowsOne
    <3>2. todo' = q /\ Len(jobs') = 0
      BY <1>1, <1>2, <1>11
    <3> HIDE DEF q
    <3> QED
      BY <1>1, <3>1, <3>2, SameWalk
  <2> QED
    BY <1>6, <1>7, <1>8, <1>9, <2>2, <2>3 DEF IInv
<1> QED
  BY <1>10, <1>11

\* A step that changes nothing.
LEMMA StutteringHolds == IInv /\ UNCHANGED vars => IInv'
<1> SUFFICES ASSUME IInv, UNCHANGED vars PROVE IInv'
  OBVIOUS
<1>1. /\ pc' = pc /\ tokens' = tokens /\ tree' = tree /\ root' = root /\ todo' = todo
      /\ chain' = chain /\ status' = status /\ jobs' = jobs
  BY DEF vars
<1>2. TypeOK'
  BY <1>1, SameLine DEF IInv, TypeOK
<1>3. NothingTwice'
  BY <1>1, NothingTwiceKept DEF IInv
<1>4. \A s : InStage(s)' = InStage(s)
  BY <1>1, SameLine
<1>5. StagesKept'
  <2>1. PipesBefore(Eof)' = PipesBefore(Eof)
    BY <1>1, SameLine DEF PipesBefore
  <2>2. JobsIn /\ (pc = "done" => Len(jobs) = PipesBefore(Eof) + 1)
    BY DEF IInv, StagesKept, JobsIn
  <2>3. JobsIn'
    BY <1>1, <1>4, <2>2 DEF JobsIn, Set
  <2> QED
    BY <1>1, <2>1, <2>2, <2>3 DEF StagesKept, JobsIn
<1>6. StartInv' /\ GoodInv'
  <2>1. \A n : GoodNode(tree, n)' = GoodNode(tree, n)
    BY <1>1, SameTree
  <2> QED
    BY <1>1, <2>1, SameLine DEF IInv, StartInv, GoodInv, Walking
<1>7. WalkInv'
  <2>1. CASE Walking
    <3> DEFINE q == todo
               k == Len(jobs)
               tr == tree
    <3>1. Follows(tr, q, k) /\ Len(jobs') = k /\ todo' = q /\ tree' = tr
      BY <1>1, <2>1 DEF IInv, WalkInv
    <3> HIDE DEF q, k, tr
    <3> QED
      BY <1>1, <3>1, SameWalk
  <2>2. CASE ~Walking
    BY <1>1, <2>2 DEF WalkInv, Walking
  <2> QED
    BY <2>1, <2>2
<1>8. ChainInv'
  <2>1. Chain' = Chain
    BY <1>1, SameLine
  <2>2. ChainIn(chain, Len(jobs) + 1)' = ChainIn(chain, Len(jobs) + 1)
    BY <1>1, <1>4, <2>1 DEF ChainIn, Set
  <2> QED
    BY <1>1, <2>2 DEF IInv, ChainInv
<1> QED
  BY <1>2, <1>3, <1>5, <1>6, <1>7, <1>8 DEF IInv
-----------------------------------------------------------------------------
(***************************************************************************)
(* What a simple stage is made of.                                         *)
(***************************************************************************)
\* A pipe between two places makes the pipes before the second one more.
LEMMA PipesGrow ==
    ASSUME tokens \in Lines, NEW i \in 1..Eof, NEW j \in 1..Eof, NEW p \in Places,
           i <= p, p < j, tokens[p] = "|"
    PROVE  PipesBefore(i) < PipesBefore(j)
<1> DEFINE S == {k \in Places : k < i /\ tokens[k] = "|"}
           T == {k \in Places : k < j /\ tokens[k] = "|"}
<1>1. Places \subseteq Nat /\ i \in Nat /\ j \in Nat
  BY LineFacts
<1>2. IsFiniteSet(S) /\ IsFiniteSet(T) /\ PipesBefore(i) = Cardinality(S) /\ PipesBefore(j) = Cardinality(T)
  BY PipesBeforeIs DEF PipesBefore
<1>3. S \cup {p} \subseteq T /\ p \notin S
  <2>1. \A k \in Places : k < i => k < j
    BY <1>1
  <2>2. ~(p < i)
    BY <1>1
  <2> QED
    BY <2>1, <2>2
<1> HIDE DEF S, T
<1>4. Cardinality(S \cup {p}) = Cardinality(S) + 1
  BY <1>2, <1>3, FS_AddElement
<1>5. Cardinality(S \cup {p}) <= Cardinality(T)
  BY <1>2, <1>3, FS_Subset
<1>6. PipesBefore(i) \in Nat /\ PipesBefore(j) \in Nat
  BY PipesBeforeIs
<1> QED
  BY <1>2, <1>4, <1>5, <1>6

\* The members of a stage are of that stage.
LEMMA OfStage ==
    ASSUME tokens \in Lines, NEW s \in Nat, NEW j \in InStage(s)
    PROVE  /\ j \in Places /\ j \in Nat /\ j \in 1..Eof /\ tokens[j] # "|"
           /\ PipesBefore(j) = s - 1 /\ Stage(j) = s /\ tokens[j] \in Kinds
<1>1. j \in Places /\ tokens[j] # "|" /\ PipesBefore(j) = s - 1
  BY DEF InStage
<1>2. j \in Nat /\ j \in 1..Eof /\ tokens[j] \in Kinds
  BY <1>1, LineFacts DEF Places, Eof
<1>3. s - 1 + 1 = s
  OBVIOUS
<1> QED
  BY <1>1, <1>2, <1>3 DEF Stage

\* What stands between two members of a stage is in it.
LEMMA StageIsConvex ==
    ASSUME tokens \in Lines, NEW s \in Nat, NEW i \in InStage(s), NEW j \in InStage(s),
           NEW k \in i..j
    PROVE  k \in InStage(s)
<1>1. /\ i \in Places /\ i \in Nat /\ i \in 1..Eof /\ PipesBefore(i) = s - 1 /\ Stage(i) = s
      /\ j \in Places /\ j \in Nat /\ j \in 1..Eof /\ PipesBefore(j) = s - 1 /\ tokens[j] # "|"
  BY OfStage
<1>2. Places = 1..Len(tokens) /\ Len(tokens) \in Nat
  BY LineFacts DEF Places
<1>3. ASSUME NEW p \in i..j PROVE tokens[p] # "|"
  <2> SUFFICES ASSUME tokens[p] = "|" PROVE FALSE
    OBVIOUS
  <2>1. p \in Places /\ i <= p /\ p < j
    <3>1. p \in Places /\ i <= p /\ p <= j
      BY <1>1, <1>2
    <3> QED
      BY <1>1, <3>1
  <2>2. PipesBefore(i) < PipesBefore(j)
    BY <1>1, <2>1, PipesGrow
  <2>3. PipesBefore(i) \in Nat
    BY PipesBeforeIs
  <2> QED
    BY <1>1, <2>2, <2>3
<1>4. k \in Places /\ i <= k /\ \A p \in i..(k - 1) : p \in i..j
  BY <1>1, <1>2
<1>5. k \in InStage(Stage(i))
  BY <1>1, <1>3, <1>4, InStageOf
<1> QED
  BY <1>1, <1>5

\* The unused words behind k, up to the end of the stage, without the names of
\* redirections; and a part of the line in which every redirection has a plain name.
Wanted(k, used) ==
    {j \in Places : /\ k <= j /\ j \notin used /\ tokens[j] \notin Redirs
                    /\ \A i \in k..j : tokens[i] # "|"
                    /\ k < j => tokens[j - 1] \notin Redirs}
Named(k) ==
    \A j \in Places : (k <= j /\ tokens[j] \in Redirs /\ (\A i \in k..j : tokens[i] # "|")) =>
        j + 1 \in Places /\ tokens[j + 1] = "word"

\* gather_arguments leaves none of the words out, if each redirection on its way has a
\* plain name.
LEMMA GatherArgumentsFinds ==
    ASSUME tokens \in Lines, NEW used, NEW p \in 1..Eof, Named(p)
    PROVE  Wanted(p, used) \subseteq Set(GatherArguments(p, used))
<1>1. Len(tokens) \in Nat /\ Eof = Len(tokens) + 1 /\ Places = 1..Len(tokens)
  BY LineFacts DEF Eof, Places
<1>2. PICK f \in [1..Eof -> Seq(Places)] :
              /\ f = [k \in 1..Eof |-> GatherFrom(f, k, used)]
              /\ \A q \in 1..Eof : GatherArguments(q, used) = f[q]
  BY GatherExists
<1> DEFINE S == {k \in 1..Eof : Named(k) => Wanted(k, used) \subseteq Set(f[k])}
<1>3. Eof \in S
  <2>1. Wanted(Eof, used) = {}
    BY <1>1 DEF Wanted
  <2> QED
    BY <1>1, <2>1
<1>4. ASSUME NEW k \in Places, \A j \in (k + 1)..Eof : j \in S PROVE k \in S
  <2>1. k \in 1..Eof /\ k + 1 \in (k + 1)..Eof /\ k + 1 \in 1..Eof /\ k # Eof /\ k \in Nat
    BY <1>1
  <2>2. f[k] = GatherFrom(f, k, used)
    BY <1>2, <2>1
  <2> SUFFICES ASSUME Named(k), NEW j \in Wanted(k, used) PROVE j \in Set(f[k])
    BY <2>1
  <2>3. /\ j \in Places /\ j \in Nat /\ k <= j /\ j \notin used /\ tokens[j] \notin Redirs
        /\ \A i \in k..j : tokens[i] # "|"
        /\ k < j => tokens[j - 1] \notin Redirs
    BY <1>1 DEF Wanted
  <2>4. tokens[k] # "|"
    <3>1. k \in k..j
      BY <2>1, <2>3
    <3> QED
      BY <2>3, <3>1
  <2>5. CASE tokens[k] \notin Redirs
    <3> DEFINE own == IF k \in used THEN <<>> ELSE <<k>>
    <3>1. f[k] = own \o f[k + 1]
      BY <2>1, <2>2, <2>4, <2>5 DEF GatherFrom
    <3>2. f[k + 1] \in Seq(Places) /\ own \in Seq(Places)
      BY <1>2, <2>1
    <3> HIDE DEF own
    <3>3. Set(f[k]) = Set(own) \cup Set(f[k + 1])
      BY <3>1, <3>2, SetOfConcat
    <3>4. CASE j = k
      <4>1. own = <<k>>
        BY <2>3, <3>4 DEF own
      <4>2. k \in Set(own)
        BY <4>1, SetOfOne
      <4> QED
        BY <3>3, <3>4, <4>2
    <3>5. CASE j # k
      <4>1. \A i \in (k + 1)..j : i \in k..j
        BY <2>1
      <4>2. j \in Wanted(k + 1, used)
        <5>1. k + 1 <= j /\ (k + 1 < j => k < j)
          BY <2>1, <2>3, <3>5
        <5> QED
          BY <2>3, <4>1, <5>1 DEF Wanted
      <4>3. Named(k + 1)
        <5> SUFFICES ASSUME NEW i \in Places, k + 1 <= i, tokens[i] \in Redirs,
                            \A q \in (k + 1)..i : tokens[q] # "|"
                     PROVE  i + 1 \in Places /\ tokens[i + 1] = "word"
          BY DEF Named
        <5>1. \A q \in k..i : q = k \/ q \in (k + 1)..i
          BY <2>1
        <5>2. k <= i
          BY <1>1, <2>1
        <5> QED
          BY <2>4, <5>1, <5>2 DEF Named
      <4> QED
        BY <1>4, <2>1, <3>3, <4>2, <4>3
    <3> QED
      BY <3>4, <3>5
  <2>6. CASE tokens[k] \in Redirs
    <3>1. k + 1 \in Places /\ tokens[k + 1] = "word"
      <4>1. k <= k /\ \A i \in k..k : i = k
        BY <2>1
      <4> QED
        BY <2>4, <2>6, <4>1 DEF Named
    <3>2. TypedWord(tokens[k + 1]) /\ tokens[k + 1] # "|" /\ tokens[k + 1] \notin Redirs
      BY <3>1 DEF TypedWord, Redirs
    <3>3. k + 2 \in (k + 1)..Eof /\ k + 2 \in 1..Eof
      BY <1>1, <3>1
    <3>4. f[k] = f[k + 2]
      BY <2>1, <2>2, <2>4, <2>6, <3>1, <3>2 DEF GatherFrom
    <3>5. k + 2 <= j
      <4>1. j # k
        BY <2>3, <2>6
      <4>2. j # k + 1
        <5> SUFFICES ASSUME j = k + 1 PROVE FALSE
          OBVIOUS
        <5>1. k < j /\ j - 1 = k
          BY <2>1
        <5> QED
          BY <2>3, <2>6, <5>1
      <4> QED
        BY <2>1, <2>3, <4>1, <4>2
    <3>6. j \in Wanted(k + 2, used)
      <4>1. (\A i \in (k + 2)..j : i \in k..j) /\ (k + 2 < j => k < j)
        BY <2>1, <2>3
      <4> QED
        BY <2>3, <3>5, <4>1 DEF Wanted
    <3>7. Named(k + 2)
      <4> SUFFICES ASSUME NEW i \in Places, k + 2 <= i, tokens[i] \in Redirs,
                          \A q \in (k + 2)..i : tokens[q] # "|"
                   PROVE  i + 1 \in Places /\ tokens[i + 1] = "word"
        BY DEF Named
      <4>1. \A q \in k..i : q = k \/ q = k + 1 \/ q \in (k + 2)..i
        BY <2>1
      <4>2. k <= i
        BY <1>1, <2>1
      <4> QED
        BY <2>4, <3>2, <4>1, <4>2 DEF Named
    <3> QED
      BY <1>4, <3>3, <3>4, <3>6, <3>7
  <2> QED
    BY <2>5, <2>6
<1>5. \A k \in 1..Eof : k \in S
  <2> HIDE DEF S
  <2> QED
    BY <1>3, <1>4, FromTheEnd
<1> QED
  BY <1>2, <1>5

\* A simple stage's words: the first is its command, and the names are no words.
Command(s) == MinOf(PlainWords(s))
HasCommand(s) == Plain(s) /\ PlainWords(s) # {}
\* They are told apart by what stands before them.
LEMMA StageParts ==
    ASSUME tokens \in Lines, NEW s \in Nat, HasCommand(s)
    PROVE  /\ Command(s) \in PlainWords(s) /\ tokens[Command(s)] = "cmd"
           /\ \A j \in PlainWords(s) : /\ j \in InStage(s) /\ Command(s) <= j /\ j \in Nat
                                       /\ tokens[j] \notin Redirs \cup {"|"}
           /\ \A r \in Redirections(s) : /\ r \in InStage(s) /\ r + 1 \in InStage(s) /\ r \in Nat
                                         /\ tokens[r] \in Redirs /\ tokens[r + 1] = "word"
                                         /\ r \notin PlainWords(s) /\ r + 1 \notin PlainWords(s)
                                         /\ r + 1 \notin Redirections(s)
           /\ \A j \in InStage(s) : \/ j \in Redirections(s) \/ j - 1 \in Redirections(s)
                                    \/ j \in PlainWords(s)
<1>1. PlainWords(s) \subseteq InStage(s) /\ PlainWords(s) \subseteq Nat
  BY OfStage DEF PlainWords
<1>2. Command(s) \in PlainWords(s) /\ \A j \in PlainWords(s) : Command(s) <= j
  BY <1>1, MinOfIs DEF HasCommand, Command
<1>3. tokens[Command(s)] = "cmd"
  BY DEF HasCommand, Plain, Command
<1>4. \A j \in PlainWords(s) : tokens[j] \notin Redirs \cup {"|"}
  BY OfStage DEF PlainWords, Redirections
<1>5. ASSUME NEW r \in Redirections(s)
      PROVE  /\ r \in InStage(s) /\ r + 1 \in InStage(s) /\ r \in Nat
             /\ tokens[r] \in Redirs /\ tokens[r + 1] = "word"
             /\ r \notin PlainWords(s) /\ r + 1 \notin PlainWords(s)
             /\ r + 1 \notin Redirections(s)
  <2>1. r \in InStage(s) /\ tokens[r] \in Redirs /\ r + 1 \in InStage(s) /\ tokens[r + 1] = "word"
    BY DEF HasCommand, Plain, Redirections
  <2>2. r \in Nat
    BY <2>1, OfStage
  <2>3. (r + 1) - 1 = r
    BY <2>2
  <2>4. r + 1 \in Names(s)
    BY <2>1, <2>3 DEF Names
  <2>5. "word" \notin Redirs
    BY DEF Redirs
  <2>6. r \notin PlainWords(s) /\ r + 1 \notin PlainWords(s)
    BY <2>4 DEF PlainWords
  <2>7. r + 1 \notin Redirections(s)
    BY <2>1, <2>5 DEF Redirections
  <2> QED
    BY <2>1, <2>2, <2>6, <2>7
<1>6. \A j \in InStage(s) : \/ j \in Redirections(s) \/ j - 1 \in Redirections(s)
                            \/ j \in PlainWords(s)
  BY DEF PlainWords, Names
<1> QED
  BY <1>1, <1>2, <1>3, <1>4, <1>5, <1>6

\* So its arguments are all its other words.
LEMMA CommandTakesAll ==
    ASSUME tokens \in Lines, NEW s \in Nat, HasCommand(s), NEW used,
           PlainWords(s) \cap used = {}
    PROVE  LET m == Command(s)
               a == GatherArguments(m + 1, used \cup {m})
           IN  a \in Seq(Places) /\ Set(a) = PlainWords(s) \ {m} /\ Increasing(a)
<1> DEFINE m == Command(s)
           u == used \cup {m}
           a == GatherArguments(m + 1, u)
<1>1. Len(tokens) \in Nat /\ Eof = Len(tokens) + 1 /\ Places = 1..Len(tokens)
  BY LineFacts DEF Eof, Places
<1>2. m \in PlainWords(s) /\ tokens[m] = "cmd" /\ m \in InStage(s) /\ m \in Nat /\ m \in Places
      /\ Stage(m) = s /\ tokens[m] \notin Redirs \cup {"|"}
  <2>1. m \in PlainWords(s) /\ tokens[m] = "cmd" /\ m \in InStage(s) /\ tokens[m] \notin Redirs \cup {"|"}
    BY StageParts
  <2> QED
    BY <2>1, OfStage
<1> HIDE DEF m
<1>3. m + 1 \in 1..Eof
  BY <1>1, <1>2
<1>4. Gathered(m + 1, a, u)
  <2> HIDE DEF u
  <2> QED
    BY <1>3, GatherArgumentsIs
<1>5. Named(m + 1)
  <2> SUFFICES ASSUME NEW i \in Places, m + 1 <= i, tokens[i] \in Redirs,
                      \A q \in (m + 1)..i : tokens[q] # "|"
               PROVE  i + 1 \in Places /\ tokens[i + 1] = "word"
    BY DEF Named
  <2>1. i \in Nat /\ m <= i /\ i \in (m + 1)..i /\ \A q \in m..(i - 1) : q = m \/ q \in (m + 1)..i
    BY <1>1, <1>2
  <2>2. i \in InStage(s)
    BY <1>2, <2>1, InStageOf
  <2>3. i \in Redirections(s)
    BY <2>2 DEF Redirections
  <2>4. i + 1 \in InStage(s) /\ tokens[i + 1] = "word"
    BY <2>3, StageParts
  <2> QED
    BY <2>4, OfStage
<1>6. Wanted(m + 1, u) \subseteq Set(a)
  <2> HIDE DEF u
  <2> QED
    BY <1>3, <1>5, GatherArgumentsFinds
<1>7. PlainWords(s) \ {m} \subseteq Wanted(m + 1, u)
  <2> SUFFICES ASSUME NEW j \in PlainWords(s), j # m PROVE j \in Wanted(m + 1, u)
    OBVIOUS
  <2>1. /\ j \in InStage(s) /\ m <= j /\ j \in Nat /\ tokens[j] \notin Redirs \cup {"|"} /\ j \in Places
    BY StageParts, OfStage DEF m
  <2>2. j \notin u
    BY DEF u
  <2>3. \A i \in m..j : i \in InStage(s)
    BY <1>2, <2>1, StageIsConvex
  <2>4. \A i \in (m + 1)..j : i \in m..j
    BY <1>2
  <2>5. \A i \in (m + 1)..j : tokens[i] # "|"
    BY <2>3, <2>4, OfStage
  <2>6. ASSUME m + 1 < j PROVE tokens[j - 1] \notin Redirs
    <3>1. j - 1 \in m..j
      BY <1>2, <2>1, <2>6
    <3>2. j - 1 \in InStage(s)
      BY <2>3, <3>1
    <3>3. j \notin Names(s)
      BY DEF PlainWords
    <3>4. j - 1 \notin Redirections(s)
      BY <2>1, <3>3 DEF Names
    <3> QED
      BY <3>2, <3>4 DEF Redirections
  <2>7. m + 1 <= j
    BY <1>2, <2>1
  <2> QED
    BY <2>1, <2>2, <2>5, <2>6, <2>7 DEF Wanted
<1>8. a \in Seq(Places) /\ Set(a) = {a[i] : i \in 1..Len(a)} /\ DOMAIN a = 1..Len(a)
  <2>1. a \in Seq(Places)
    BY <1>4 DEF Gathered
  <2> HIDE DEF a
  <2> QED
    BY <2>1, SetIs
<1> HIDE DEF a
<1>9. ASSUME NEW i \in 1..Len(a) PROVE a[i] \in PlainWords(s) \ {m}
  <2> DEFINE j == a[i]
  <2>1. /\ j \in Places /\ j >= m + 1 /\ j \notin u /\ tokens[j] \notin Redirs
        /\ \A q \in (m + 1)..j : tokens[q] # "|"
        /\ j > m + 1 => tokens[j - 1] \notin Redirs
    BY <1>4, <1>8 DEF Gathered
  <2> HIDE DEF j
  <2>2. j \in Nat /\ m <= j /\ j \in (m + 1)..j /\ \A q \in m..(j - 1) : q = m \/ q \in (m + 1)..j
    BY <1>1, <1>2, <2>1
  <2>3. j \in InStage(s)
    BY <1>2, <2>1, <2>2, InStageOf
  <2>4. j - 1 \notin Redirections(s)
    <3>1. j = m + 1 \/ j > m + 1
      BY <1>2, <2>1, <2>2
    <3>2. j = m + 1 => j - 1 = m
      BY <1>2
    <3> QED
      BY <1>2, <2>1, <3>1, <3>2 DEF Redirections
  <2>5. j \in PlainWords(s)
    BY <2>1, <2>3, <2>4 DEF PlainWords, Redirections, Names
  <2>6. j # m
    BY <2>1 DEF u
  <2> QED
    BY <2>5, <2>6 DEF j
<1>10. Set(a) = PlainWords(s) \ {m}
  BY <1>6, <1>7, <1>8, <1>9
<1>11. Increasing(a)
  BY <1>4, <1>8 DEF Gathered, Increasing
<1> QED
  BY <1>8, <1>10, <1>11 DEF a, m

-----------------------------------------------------------------------------
(***************************************************************************)
(* The calls that make a simple stage.                                     *)
(***************************************************************************)
\* The node of a stage's command has its arguments, if the stage's words were free.
ArgsAre(tr, s) == /\ Set(tr[Command(s)].args) = PlainWords(s) \ {Command(s)}
                  /\ Increasing(tr[Command(s)].args)
\* A redirection that has the command as its only child.
Hangs(tr, r, m) == \/ tr[r].left = <<m>> /\ tr[r].right = NULL
                   \/ tr[r].left = NULL /\ tr[r].right = <<m>>

\* A call that has nothing left to look for on a side makes nothing there.
LEMMA NoLeft ==
    ASSUME tokens \in Lines, NEW c \in Calls, ~Idle(c),
           \A j \in c.f..(c.t - 1) : j \in NewNode(c).used
    PROVE  /\ LeftOf(c).node = NULL /\ LeftOf(c).tree = NewNode(c).tree
           /\ LeftOf(c).used = NewNode(c).used
<1>1. LeftCall(c).t = Eof
  <2>1. FreeBefore(c.t, c.f, NewNode(c).used) = {}
    BY DEF FreeBefore
  <2> QED
    BY <2>1, ChildrenAre DEF FirstOf
<1>2. Idle(LeftCall(c))
  BY <1>1 DEF Idle
<1>3. /\ LeftCall(c) \in Calls /\ LeftCall(c).used = NewNode(c).used
      /\ LeftCall(c).tree = NewNode(c).tree
  BY CallsOf
<1> QED
  BY <1>2, <1>3, NodeIs DEF LeftOf

\* The same on the right.
LEMMA NoRight ==
    ASSUME tokens \in Lines, NEW c \in Calls, ~Idle(c),
           \A j \in (c.t + 1)..(c.e - 1) : j \in LeftOf(c).used
    PROVE  /\ RightOf(c).node = NULL /\ RightOf(c).tree = LeftOf(c).tree
           /\ RightOf(c).used = LeftOf(c).used
<1> DEFINE r == RightCall(M, c).t
<1>1. RightCall(M, c) \in Calls /\ RightCall(M, c).used = LeftOf(c).used
      /\ RightCall(M, c).tree = LeftOf(c).tree
  BY CallsOf
<1>2. r # Eof => r \in RightCall(M, c).used
  <2> SUFFICES ASSUME r # Eof PROVE r \in RightCall(M, c).used
    OBVIOUS
  <2>1. FirstOf(r, LowerAfter(c.t, c.e))
    BY ChildrenAre
  <2>2. r \in (c.t + 1)..(c.e - 1)
    BY <2>1 DEF FirstOf, LowerAfter
  <2> QED
    BY <1>1, <2>2
<1>3. Idle(RightCall(M, c))
  BY <1>2 DEF Idle
<1> QED
  BY <1>1, <1>3, NodeIs DEF RightOf

\* A node that is no pipe and has its file is made, whatever its children are.
LEMMA MadeHere ==
    ASSUME tokens \in Lines, NEW c \in Calls, ~Idle(c), tokens[c.t] # "|",
           tokens[c.t] \in Redirs => FileOf(c) # NULL
    PROVE  /\ M[c].node = <<c.t>> /\ M[c].used = RightOf(c).used /\ M[c].tree \in [Places -> Node]
           /\ M[c].tree[c.t].left = LeftOf(c).node /\ M[c].tree[c.t].right = RightOf(c).node
           /\ M[c].tree[c.t].args = RightOf(c).tree[c.t].args
           /\ \A n \in Places : n # c.t => M[c].tree[n] = RightOf(c).tree[n]
<1>1. ~Refuses(c) /\ ~LeftMissing(c) /\ ~RightMissing(c)
  BY DEF Refuses, NoFile, NoOperand, LeftMissing, RightMissing
<1>2. M[c].node = <<c.t>> /\ M[c].used = RightOf(c).used /\ M[c].tree = WithBoth(c)
  BY <1>1, OutcomeIs DEF Yields
<1>3. RightOf(c).tree \in [Places -> Node] /\ c.t \in Places
  BY CallsOf, OwnIs DEF Results
<1>4. M[c].tree \in [Places -> Node]
  BY MkeYggdrasilIs DEF M, Results
<1> DEFINE x == [args |-> RightOf(c).tree[c.t].args, file |-> RightOf(c).tree[c.t].file,
                 left |-> LeftOf(c).node, right |-> RightOf(c).node]
<1>5. /\ x.left = LeftOf(c).node /\ x.right = RightOf(c).node
      /\ x.args = RightOf(c).tree[c.t].args
  OBVIOUS
<1>6. WithBoth(c) = [RightOf(c).tree EXCEPT ![c.t] = x]
  BY DEF WithBoth
<1> HIDE DEF x
<1>7. WithBoth(c)[c.t] = x /\ \A n \in Places : n # c.t => WithBoth(c)[n] = RightOf(c).tree[n]
  BY <1>3, <1>6
<1> QED
  BY <1>2, <1>4, <1>5, <1>7

\* A command whose words are free takes them all and has no children.
LEMMA CommandCall ==
    ASSUME tokens \in Lines, NEW s \in Nat, HasCommand(s), NEW c \in Calls, ~Idle(c),
           c.t = Command(s), PlainWords(s) \cap c.used = {},
           \A j \in c.f..(c.t - 1) : j \in c.used,
           \A j \in (c.t + 1)..(c.e - 1) : j \in PlainWords(s)
    PROVE  /\ M[c].node = <<c.t>> /\ M[c].used = c.used \cup PlainWords(s)
           /\ \A n \in Places : n # c.t => M[c].tree[n] = c.tree[n]
           /\ ArgsAre(M[c].tree, s)
<1> DEFINE m == c.t
           a == ArgsOf(c)
<1>1. m \in PlainWords(s) /\ tokens[m] = "cmd" /\ m \in Places
  BY StageParts, OwnIs
<1>2. tokens[m] # "|" /\ tokens[m] \notin Redirs
  BY <1>1 DEF Redirs
<1>3. Set(a) = PlainWords(s) \ {m} /\ Increasing(a)
  <2>1. a = GatherArguments(m + 1, c.used \cup {m})
    BY <1>1 DEF ArgsOf
  <2> QED
    BY <2>1, CommandTakesAll
<1>4. FileOf(c) = NULL
  BY <1>2 DEF FileOf, NULL
<1>5. NewNode(c).used = c.used \cup PlainWords(s)
  <2>1. NewNode(c).used = c.used \cup {m} \cup Set(a) \cup Set(FileOf(c))
    BY CallsOf
  <2> QED
    BY <1>1, <1>3, <1>4, <2>1, NullIs
<1>6. NewNode(c).tree = [c.tree EXCEPT ![m] = OwnNode(c)] /\ c.tree \in [Places -> Node]
  BY CallsOf DEF Calls
<1>7. LeftOf(c).node = NULL /\ LeftOf(c).tree = NewNode(c).tree /\ LeftOf(c).used = NewNode(c).used
  <2>1. \A j \in c.f..(c.t - 1) : j \in NewNode(c).used
    BY <1>5
  <2> QED
    BY <2>1, NoLeft
<1>8. /\ RightOf(c).node = NULL /\ RightOf(c).tree = LeftOf(c).tree
      /\ RightOf(c).used = LeftOf(c).used
  <2>1. \A j \in (c.t + 1)..(c.e - 1) : j \in LeftOf(c).used
    BY <1>5, <1>7
  <2> QED
    BY <2>1, NoRight
<1>9. /\ M[c].node = <<m>> /\ M[c].used = RightOf(c).used
      /\ M[c].tree[m].args = RightOf(c).tree[m].args
      /\ \A n \in Places : n # m => M[c].tree[n] = RightOf(c).tree[n]
  BY <1>2, MadeHere
<1>10. OwnNode(c).args = a
  BY DEF OwnNode
<1> HIDE DEF a
<1>11. RightOf(c).tree[m] = OwnNode(c) /\ \A n \in Places : n # m => RightOf(c).tree[n] = c.tree[n]
  BY <1>1, <1>6, <1>7, <1>8
<1>12. M[c].tree[m].args = a
  BY <1>9, <1>10, <1>11
<1>13. ArgsAre(M[c].tree, s)
  BY <1>3, <1>12 DEF ArgsAre
<1> QED
  BY <1>5, <1>7, <1>8, <1>9, <1>11, <1>13

\* The name of a redirection is the next token, if it is there and free.
LEMMA NameIs ==
    ASSUME tokens \in Lines, NEW c \in Calls, ~Idle(c), tokens[c.t] \in Redirs,
           c.t + 1 < c.e, c.t + 1 \notin c.used, tokens[c.t + 1] = "word"
    PROVE  /\ FileOf(c) = <<c.t + 1>> /\ FileOf(c) # NULL /\ NewNode(c).used = c.used \cup {c.t, c.t + 1}
           /\ \A n \in Places : n # c.t => NewNode(c).tree[n] = c.tree[n]
           /\ NewNode(c).tree \in [Places -> Node]
<1> DEFINE t == c.t
           free == {j \in (t + 1)..(c.e - 1) : j \notin c.used \cup {t}}
<1>1. t \in Nat /\ c.e \in Nat /\ t \in Places
  BY ChildrenAre
<1>2. t + 1 \in free /\ free \subseteq Nat /\ \A j \in free : t + 1 <= j
  BY <1>1
<1>3. MinOf(free) = t + 1
  <2>1. MinOf(free) \in free /\ \A j \in free : MinOf(free) <= j
    <3> HIDE DEF free
    <3> QED
      BY <1>2, MinOfIs
  <2> DEFINE m == MinOf(free)
  <2>2. m \in Nat /\ m <= t + 1 /\ t + 1 <= m
    <3> HIDE DEF free
    <3> QED
      BY <1>2, <2>1
  <2> HIDE DEF m, t
  <2>3. m = t + 1
    BY <1>1, <2>2
  <2> QED
    BY <2>3 DEF m
<1>4. TypedWord(tokens[t + 1])
  BY DEF TypedWord
<1>5. FileOf(c) = <<t + 1>>
  <2>1. FileOf(c) = GatherFilename(t, c.e, c.used \cup {t})
    BY DEF FileOf
  <2>2. free # {}
    BY <1>2
  <2> QED
    BY <1>3, <1>4, <2>1, <2>2 DEF GatherFilename
<1>6. ArgsOf(c) = NULL
  BY DEF ArgsOf, NULL, Redirs
<1>7. NewNode(c).used = c.used \cup {t} \cup Set(ArgsOf(c)) \cup Set(FileOf(c))
  BY CallsOf
<1>8. Set(FileOf(c)) = {t + 1} /\ Set(ArgsOf(c)) = {}
  BY <1>5, <1>6, SetOfOne
<1>9. FileOf(c) # NULL
  BY <1>5 DEF NULL
<1>10. NewNode(c).used = c.used \cup {t, t + 1}
  BY <1>7, <1>8
<1>11. NewNode(c).tree = [c.tree EXCEPT ![t] = OwnNode(c)] /\ c.tree \in [Places -> Node]
  BY CallsOf DEF Calls
<1>12. NewNode(c).tree \in [Places -> Node]
  BY CallsOf DEF Results
<1> QED
  BY <1>1, <1>5, <1>9, <1>10, <1>11, <1>12

\* A redirection whose neighbours in the call are the command and its words: the
\* command becomes its child, on the side on which it stands.
LEMMA RedirOverCommand ==
    ASSUME tokens \in Lines, NEW s \in Nat, HasCommand(s), NEW c \in Calls, ~Idle(c),
           c.t \in Redirections(s), c.t + 1 < c.e, c.t + 1 \notin c.used,
           PlainWords(s) \cap c.used = {}, Command(s) \in c.f..(c.e - 1),
           \A j \in c.f..(c.t - 1) : (j \in c.used /\ j < Command(s)) \/ j \in PlainWords(s),
           \A j \in (c.t + 1)..(c.e - 1) : j = c.t + 1 \/ j \in PlainWords(s)
    PROVE  /\ M[c].node = <<c.t>> /\ M[c].used = c.used \cup {c.t, c.t + 1} \cup PlainWords(s)
           /\ \A n \in Places : n # c.t /\ n # Command(s) => M[c].tree[n] = c.tree[n]
           /\ ArgsAre(M[c].tree, s) /\ Hangs(M[c].tree, c.t, Command(s))
<1> DEFINE t == c.t
           m == Command(s)
           u == c.used \cup {t, t + 1}
           lc == LeftCall(c)
           rc == RightCall(M, c)
<1>1. /\ m \in PlainWords(s) /\ tokens[m] = "cmd" /\ m \in Nat /\ m \in Places
      /\ \A j \in PlainWords(s) : m <= j /\ j \in Nat /\ tokens[j] \notin Redirs \cup {"|"}
  BY StageParts, OfStage
<1>2. /\ t \in Places /\ t \in Nat /\ c.f \in Nat /\ c.e \in Nat /\ tokens[t] \in Redirs
      /\ tokens[t + 1] = "word" /\ t \notin PlainWords(s) /\ t + 1 \notin PlainWords(s)
      /\ tokens[t] \in Kinds
  BY StageParts, ChildrenAre, LineFacts
<1>3. tokens[t] # "|"
  BY <1>2 DEF Redirs
<1>4. /\ FileOf(c) # NULL /\ NewNode(c).used = u
      /\ \A n \in Places : n # t => NewNode(c).tree[n] = c.tree[n]
  BY <1>2, NameIs
<1>5. /\ lc \in Calls /\ lc.used = u /\ lc.tree = NewNode(c).tree /\ lc.f = c.f /\ lc.e = t
      /\ rc \in Calls /\ rc.used = LeftOf(c).used /\ rc.tree = LeftOf(c).tree
      /\ rc.f = t /\ rc.e = c.e /\ LeftOf(c) = M[lc] /\ RightOf(c) = M[rc]
      /\ lc.t = FindLeftToken(t, c.f, u) /\ rc.t = FindRightToken(t, c.e)
      /\ c.f \in Places /\ c.e \in 1..Eof
  <2>1. LeftOf(c) = M[lc] /\ RightOf(c) = M[rc]
    BY DEF LeftOf, RightOf
  <2>2. c.f \in Places /\ c.e \in 1..Eof
    BY OwnIs
  <2>3. /\ lc \in Calls /\ lc.used = NewNode(c).used /\ lc.tree = NewNode(c).tree
        /\ lc.f = c.f /\ lc.e = t /\ lc.t = FindLeftToken(t, c.f, NewNode(c).used)
    BY CallsOf
  <2>4. /\ rc \in Calls /\ rc.used = LeftOf(c).used /\ rc.tree = LeftOf(c).tree
        /\ rc.f = t /\ rc.e = c.e /\ rc.t = FindRightToken(t, c.e)
    BY CallsOf
  <2> HIDE DEF t, u, lc, rc
  <2> QED
    BY <1>4, <2>1, <2>2, <2>3, <2>4
<1>6. /\ M[c].node = <<t>> /\ M[c].used = RightOf(c).used
      /\ M[c].tree[t].left = LeftOf(c).node /\ M[c].tree[t].right = RightOf(c).node
      /\ \A n \in Places : n # t => M[c].tree[n] = RightOf(c).tree[n]
  BY <1>3, <1>4, MadeHere
<1>7. PlainWords(s) \cap u = {} /\ m # t /\ m # t + 1 /\ c.f <= m /\ m < c.e
  <2>1. m # t /\ m # t + 1 /\ PlainWords(s) \cap u = {}
    BY <1>1, <1>2
  <2>2. c.f <= m /\ m < c.e
    BY <1>1, <1>2
  <2> QED
    BY <2>1, <2>2
<1> HIDE DEF t, m, u, lc, rc
<1>8. CASE m < t
  <2>1. lc.t = m
    <3> DEFINE free == FreeBefore(t, c.f, u)
               l == lc.t
    <3>1. m \in free
      BY <1>1, <1>2, <1>7, <1>8 DEF FreeBefore
    <3>2. /\ FirstOf(l, free)
          /\ \A k \in free : tokens[k] = "cmd" => \/ tokens[l] \in Redirs \cup {"|"}
                                                  \/ l <= k /\ tokens[l] = "cmd"
      <4>1. l # Eof
        BY <1>2, <1>5, <3>1, FindLeftIs
      <4> QED
        BY <1>2, <1>5, <4>1, FindLeftIs
    <3>3. l \in c.f..(t - 1) /\ l \notin u
      BY <3>2 DEF FirstOf, FreeBefore
    <3> HIDE DEF free, l
    <3>4. l \in PlainWords(s)
      <4>1. l \notin c.used
        BY <3>3 DEF u
      <4> QED
        BY <3>3, <4>1 DEF t, m
    <3>5. m <= l /\ l \in Nat /\ tokens[l] \notin Redirs \cup {"|"}
      BY <1>1, <3>4
    <3>6. l <= m
      BY <1>1, <3>1, <3>2, <3>5
    <3>7. l = m
      BY <1>1, <3>5, <3>6
    <3> QED
      BY <3>7 DEF l
  <2>2. ~Idle(lc)
    <3>1. m # Eof
      BY <1>1, LineFacts
    <3> QED
      BY <1>1, <1>5, <1>7, <1>8, <2>1, <3>1 DEF Idle
  <2>3. \A j \in lc.f..(lc.t - 1) : j \in lc.used
    <3> SUFFICES ASSUME NEW j \in c.f..(m - 1) PROVE j \in u
      BY <1>5, <2>1
    <3>1. j \in c.f..(t - 1) /\ ~(m <= j)
      BY <1>1, <1>2, <1>8
    <3>2. j \notin PlainWords(s)
      BY <1>1, <3>1
    <3> QED
      BY <3>1, <3>2 DEF t, u
  <2>4. \A j \in (lc.t + 1)..(lc.e - 1) : j \in PlainWords(s)
    <3> SUFFICES ASSUME NEW j \in (m + 1)..(t - 1) PROVE j \in PlainWords(s)
      BY <1>5, <2>1
    <3>1. j \in c.f..(t - 1) /\ ~(j < m)
      BY <1>1, <1>2, <1>7
    <3> QED
      BY <3>1 DEF t, m
  <2>5. /\ LeftOf(c).node = <<m>> /\ LeftOf(c).used = u \cup PlainWords(s)
        /\ \A n \in Places : n # m => LeftOf(c).tree[n] = NewNode(c).tree[n]
        /\ ArgsAre(LeftOf(c).tree, s)
    <3>1. lc.t = Command(s) /\ PlainWords(s) \cap lc.used = {}
      BY <1>5, <1>7, <2>1 DEF m
    <3>2. /\ M[lc].node = <<lc.t>> /\ M[lc].used = lc.used \cup PlainWords(s)
          /\ \A n \in Places : n # lc.t => M[lc].tree[n] = lc.tree[n]
          /\ ArgsAre(M[lc].tree, s)
      BY <1>5, <2>2, <2>3, <2>4, <3>1, CommandCall
    <3> QED
      BY <1>5, <2>1, <3>2
  <2>6. /\ RightOf(c).node = NULL /\ RightOf(c).tree = LeftOf(c).tree
        /\ RightOf(c).used = LeftOf(c).used
    <3>1. \A j \in (c.t + 1)..(c.e - 1) : j \in LeftOf(c).used
      BY <2>5 DEF u, t
    <3> QED
      BY <3>1, NoRight
  <2>7. ArgsAre(M[c].tree, s)
    <3>1. M[c].tree[m] = LeftOf(c).tree[m]
      BY <1>1, <1>6, <1>7, <2>6
    <3> QED
      BY <2>5, <3>1 DEF ArgsAre, m
  <2>8. Hangs(M[c].tree, t, m)
    BY <1>6, <2>5, <2>6 DEF Hangs
  <2>9. \A n \in Places : n # t /\ n # m => M[c].tree[n] = c.tree[n]
    BY <1>4, <1>6, <2>5, <2>6
  <2>10. M[c].used = u \cup PlainWords(s)
    BY <1>6, <2>5, <2>6
  <2> QED
    BY <1>6, <2>7, <2>8, <2>9, <2>10 DEF t, m, u
<1>9. CASE t < m
  <2>1. \A j \in c.f..(t - 1) : j \in c.used
    <3> SUFFICES ASSUME NEW j \in c.f..(t - 1) PROVE j \in c.used
      OBVIOUS
    <3>1. ~(m <= j)
      BY <1>1, <1>2, <1>9
    <3>2. j \notin PlainWords(s)
      BY <1>1, <3>1
    <3> QED
      BY <3>2 DEF t
  <2>2. LeftOf(c).node = NULL /\ LeftOf(c).tree = NewNode(c).tree /\ LeftOf(c).used = u
    <3>1. \A j \in c.f..(c.t - 1) : j \in NewNode(c).used
      BY <1>4, <2>1 DEF u, t
    <3> QED
      BY <1>4, <3>1, NoLeft
  <2>3. rc.t = m
    <3> DEFINE lower == LowerAfter(t, c.e)
               r == rc.t
    <3>1. Rank("cmd") = 4 /\ Rank("word") = 3
      BY DEF Rank, Redirs
    <3>2. m \in lower
      <4>1. Rank(tokens[t]) = 5
        BY <1>2, RankIs
      <4>2. m \in (t + 1)..(c.e - 1)
        BY <1>1, <1>2, <1>7, <1>9
      <4> QED
        BY <1>1, <3>1, <4>1, <4>2 DEF LowerAfter
    <3>3. /\ FirstOf(r, lower)
          /\ \A k \in lower : tokens[k] = "cmd" => \/ tokens[r] \in Redirs \cup {"|"}
                                                   \/ r <= k /\ Rank(tokens[r]) = 4
      <4>1. r # Eof
        BY <1>2, <1>5, <3>2, FindRightIs
      <4> QED
        BY <1>2, <1>5, <4>1, FindRightIs
    <3>4. r \in (t + 1)..(c.e - 1)
      BY <3>3 DEF FirstOf, LowerAfter
    <3> HIDE DEF lower, r
    <3>5. r = t + 1 \/ r \in PlainWords(s)
      BY <3>4 DEF t
    <3>6. tokens[r] \notin Redirs \cup {"|"}
      BY <1>1, <1>2, <3>5 DEF Redirs
    <3>7. r <= m /\ Rank(tokens[r]) = 4
      BY <1>1, <3>2, <3>3, <3>6
    <3>8. r # t + 1
      BY <1>2, <3>1, <3>7
    <3>9. m <= r /\ r \in Nat
      BY <1>1, <3>5, <3>8
    <3>10. r = m
      BY <1>1, <3>7, <3>9
    <3> QED
      BY <3>10 DEF r
  <2>4. ~Idle(rc)
    <3>1. m # Eof
      BY <1>1, LineFacts
    <3>2. m \notin u /\ m # c.e
      BY <1>1, <1>2, <1>7
    <3> QED
      BY <1>5, <2>2, <2>3, <3>1, <3>2 DEF Idle
  <2>5. \A j \in rc.f..(rc.t - 1) : j \in rc.used
    <3> SUFFICES ASSUME NEW j \in t..(m - 1) PROVE j \in u
      BY <1>5, <2>2, <2>3
    <3>1. (j = t \/ j \in (t + 1)..(c.e - 1)) /\ ~(m <= j)
      BY <1>1, <1>2, <1>7
    <3>2. j \notin PlainWords(s)
      BY <1>1, <3>1
    <3>3. j = t \/ j = t + 1
      BY <3>1, <3>2 DEF t
    <3> QED
      BY <3>3 DEF u
  <2>6. \A j \in (rc.t + 1)..(rc.e - 1) : j \in PlainWords(s)
    <3> SUFFICES ASSUME NEW j \in (m + 1)..(c.e - 1) PROVE j \in PlainWords(s)
      BY <1>5, <2>3
    <3>1. j \in (t + 1)..(c.e - 1) /\ j # t + 1
      BY <1>1, <1>2, <1>9
    <3> QED
      BY <3>1 DEF t
  <2>7. /\ RightOf(c).node = <<m>> /\ RightOf(c).used = u \cup PlainWords(s)
        /\ \A n \in Places : n # m => RightOf(c).tree[n] = NewNode(c).tree[n]
        /\ ArgsAre(RightOf(c).tree, s)
    <3>1. rc.t = Command(s) /\ PlainWords(s) \cap rc.used = {}
      BY <1>5, <1>7, <2>2, <2>3 DEF m
    <3>2. /\ M[rc].node = <<rc.t>> /\ M[rc].used = rc.used \cup PlainWords(s)
          /\ \A n \in Places : n # rc.t => M[rc].tree[n] = rc.tree[n]
          /\ ArgsAre(M[rc].tree, s)
      BY <1>5, <2>4, <2>5, <2>6, <3>1, CommandCall
    <3> QED
      BY <1>5, <2>2, <2>3, <3>2
  <2>8. ArgsAre(M[c].tree, s)
    <3>1. M[c].tree[m] = RightOf(c).tree[m]
      BY <1>1, <1>6, <1>7
    <3> QED
      BY <2>7, <3>1 DEF ArgsAre, m
  <2>9. Hangs(M[c].tree, t, m)
    BY <1>6, <2>2, <2>7 DEF Hangs
  <2>10. \A n \in Places : n # t /\ n # m => M[c].tree[n] = c.tree[n]
    BY <1>4, <1>6, <2>7
  <2>11. M[c].used = u \cup PlainWords(s)
    BY <1>6, <2>7
  <2> QED
    BY <1>6, <2>8, <2>9, <2>10, <2>11 DEF t, m, u
<1> QED
  BY <1>1, <1>2, <1>7, <1>8, <1>9

\* A part of the line that is a stage, none of it used yet, but for the pipe it may
\* start with.
Covers(c, s) ==
    /\ \A j \in c.f..(c.e - 1) : j \in InStage(s) \/ (j = c.f /\ j \in c.used)
    /\ InStage(s) \subseteq c.f..(c.e - 1) /\ InStage(s) \cap c.used = {}

\* Two redirections, of which the second stands behind the command: the first becomes
\* its left child, and the command that one's child.
LEMMA RedirOverRedir ==
    ASSUME tokens \in Lines, NEW s \in Nat, HasCommand(s), NEW c \in Calls, ~Idle(c),
           NEW r, Redirections(s) = {r, c.t}, r < c.t, Command(s) < c.t,
           Covers(c, s)
    PROVE  /\ M[c].node = <<c.t>> /\ InStage(s) \subseteq M[c].used
           /\ M[c].tree[c.t].left = <<r>> /\ Hangs(M[c].tree, r, Command(s)) /\ ArgsAre(M[c].tree, s)
<1> DEFINE t == c.t
           m == Command(s)
           u == c.used \cup {t, t + 1}
           lc == LeftCall(c)
<1>1. /\ m \in PlainWords(s) /\ tokens[m] = "cmd" /\ m \in Nat /\ m \in Places
      /\ \A j \in PlainWords(s) : j \in InStage(s) /\ m <= j /\ j \in Nat /\ tokens[j] \notin Redirs \cup {"|"}
  BY StageParts, OfStage
<1>2. \A i \in {r, t} : /\ i \in InStage(s) /\ i + 1 \in InStage(s) /\ i \in Nat
                        /\ tokens[i] \in Redirs /\ tokens[i + 1] = "word"
                        /\ i \notin PlainWords(s) /\ i + 1 \notin PlainWords(s)
                        /\ i + 1 \notin Redirections(s)
  BY StageParts
<1>3. /\ r \in Places /\ t \in Places /\ r \in Nat /\ t \in Nat /\ c.f \in Nat /\ c.e \in Nat
      /\ tokens[t] # "|" /\ tokens[r] # "|"
  BY <1>2, ChildrenAre, OfStage
<1>4. ASSUME NEW j \in InStage(s) PROVE j \in {r, t, r + 1, t + 1} \/ j \in PlainWords(s)
  <2>1. \/ j \in Redirections(s) \/ j - 1 \in Redirections(s) \/ j \in PlainWords(s)
    BY StageParts
  <2>2. j \in Nat
    BY OfStage
  <2>3. \A i \in Nat : j - 1 = i => j = i + 1
    BY <2>2
  <2> QED
    BY <1>2, <2>1, <2>3
<1>5. r + 1 < t /\ t + 1 < c.e /\ t + 1 \in Nat /\ c.f <= r
      /\ \A j \in InStage(s) : j \notin c.used
  <2>1. r + 1 # t
    BY <1>2
  <2>2. t + 1 \in c.f..(c.e - 1) /\ r \in c.f..(c.e - 1)
    BY <1>2 DEF Covers
  <2>3. \A j \in InStage(s) : j \notin c.used
    BY DEF Covers
  <2> HIDE DEF t
  <2> QED
    BY <1>3, <2>1, <2>2, <2>3 DEF t
<1>6. FileOf(c) # NULL /\ NewNode(c).used = u
  <2>1. t + 1 \notin c.used
    BY <1>2, <1>5
  <2> QED
    BY <1>2, <1>5, <2>1, NameIs
<1>7. /\ lc \in Calls /\ lc.used = u /\ lc.f = c.f /\ lc.e = t /\ LeftOf(c) = M[lc]
  <2>1. /\ lc \in Calls /\ lc.used = NewNode(c).used /\ lc.f = c.f /\ lc.e = t
    BY CallsOf
  <2>2. LeftOf(c) = M[lc]
    BY DEF LeftOf
  <2> HIDE DEF lc, u, t
  <2> QED
    BY <1>6, <2>1, <2>2
<1>8. /\ M[c].node = <<t>> /\ M[c].used = RightOf(c).used
      /\ M[c].tree[t].left = LeftOf(c).node
      /\ \A n \in Places : n # t => M[c].tree[n] = RightOf(c).tree[n]
  BY <1>3, <1>6, MadeHere
<1>9. lc.t = r /\ ~Idle(lc)
  <2> DEFINE free == FreeBefore(t, c.f, NewNode(c).used)
             l == lc.t
  <2>1. r \in free
    <3>1. r \in c.f..(t - 1)
      BY <1>3, <1>5
    <3>2. r \notin u
      <4>1. r # t /\ r # t + 1 /\ r \notin c.used
        BY <1>2, <1>3, <1>5
      <4> QED
        BY <4>1
    <3> QED
      BY <1>6, <3>1, <3>2 DEF FreeBefore
  <2>2. FirstOf(l, free) /\ ~Idle(lc)
    BY <2>1, ChildrenAre
  <2>3. l \in c.f..(t - 1) /\ l <= t - 1
    BY <2>2 DEF FirstOf, FreeBefore
  <2>4. l \in InStage(s) /\ l < t /\ l \in Nat
    <3>1. \A x \in c.f..(t - 1) : x \in c.f..(c.e - 1) /\ x < t /\ x \in Nat
      BY <1>3, <1>5
    <3>2. l \notin c.used
      BY <1>6, <2>2 DEF FirstOf, FreeBefore
    <3> QED
      BY <2>3, <3>1, <3>2 DEF Covers
  <2>5. tokens[l] # "|"
    BY <2>4, OfStage
  <2>6. tokens[l] \in Redirs
    BY <1>2, <2>1, <2>2, <2>5 DEF FirstOf
  <2>7. l \in {r, t}
    BY <2>4, <2>6 DEF Redirections
  <2>8. l = r
    BY <1>3, <2>4, <2>7
  <2> QED
    BY <2>2, <2>8
<1> HIDE DEF t, m, u, lc
<1>10. /\ LeftOf(c).node = <<r>> /\ LeftOf(c).used = u \cup {r, r + 1} \cup PlainWords(s)
       /\ ArgsAre(LeftOf(c).tree, s) /\ Hangs(LeftOf(c).tree, r, m)
  <2>1. lc.t \in Redirections(s) /\ lc.t + 1 < lc.e
    BY <1>5, <1>7, <1>9
  <2>2. r + 1 \notin u
    <3>1. r + 1 # t /\ r + 1 # t + 1
      BY <1>3, <1>5
    <3> QED
      BY <1>2, <1>5, <3>1 DEF u
  <2>3. PlainWords(s) \cap u = {}
    BY <1>1, <1>2, <1>5 DEF u
  <2>4. m \in lc.f..(lc.e - 1)
    <3>1. m \in c.f..(c.e - 1)
      BY <1>1 DEF Covers
    <3> QED
      BY <1>1, <1>3, <1>7, <3>1 DEF m, t
  <2>5. \A j \in lc.f..(lc.t - 1) : (j \in lc.used /\ j < Command(s)) \/ j \in PlainWords(s)
    <3> SUFFICES ASSUME NEW j \in c.f..(r - 1)
                 PROVE  (j \in u /\ j < m) \/ j \in PlainWords(s)
      BY <1>7, <1>9 DEF m
    <3>1. j \in c.f..(c.e - 1) /\ j \notin {r, t, r + 1, t + 1}
      BY <1>3, <1>5
    <3>2. CASE j \in InStage(s)
      BY <1>4, <3>1, <3>2
    <3>3. CASE j = c.f /\ j \in c.used
      <4>1. c.f <= m /\ m \notin c.used
        BY <1>1, <1>3, <1>5 DEF Covers
      <4>2. j < m
        BY <1>1, <1>3, <3>3, <4>1
      <4> QED
        BY <3>3, <4>2 DEF u
    <3> QED
      BY <3>1, <3>2, <3>3 DEF Covers
  <2>6. \A j \in (lc.t + 1)..(lc.e - 1) : j = lc.t + 1 \/ j \in PlainWords(s)
    <3> SUFFICES ASSUME NEW j \in (r + 1)..(t - 1) PROVE j = r + 1 \/ j \in PlainWords(s)
      BY <1>7, <1>9
    <3>1. j \in c.f..(c.e - 1) /\ j \notin {r, t, t + 1} /\ j # c.f
      BY <1>3, <1>5
    <3> QED
      BY <1>4, <3>1 DEF Covers
  <2>7. /\ M[lc].node = <<lc.t>> /\ M[lc].used = lc.used \cup {lc.t, lc.t + 1} \cup PlainWords(s)
        /\ ArgsAre(M[lc].tree, s) /\ Hangs(M[lc].tree, lc.t, Command(s))
    <3>1. lc.t + 1 \notin lc.used /\ PlainWords(s) \cap lc.used = {}
      BY <1>7, <1>9, <2>2, <2>3
    <3>2. Command(s) \in lc.f..(lc.e - 1)
      BY <2>4 DEF m
    <3> QED
      BY <1>7, <1>9, <2>1, <2>5, <2>6, <3>1, <3>2, RedirOverCommand
  <2> QED
    BY <1>7, <1>9, <2>7 DEF m
<1>11. InStage(s) \subseteq LeftOf(c).used
  BY <1>4, <1>10 DEF u
<1>12. RightOf(c).tree = LeftOf(c).tree /\ RightOf(c).used = LeftOf(c).used
  <2>1. \A j \in (c.t + 1)..(c.e - 1) : j \in LeftOf(c).used
    <3> SUFFICES ASSUME NEW j \in (t + 1)..(c.e - 1) PROVE j \in LeftOf(c).used
      BY DEF t
    <3>1. j \in c.f..(c.e - 1) /\ j # c.f
      BY <1>3, <1>5
    <3> QED
      BY <1>11, <3>1 DEF Covers
  <2> QED
    BY <2>1, NoRight
<1>13. M[c].tree[m] = LeftOf(c).tree[m] /\ M[c].tree[r] = LeftOf(c).tree[r]
  <2>1. m # t /\ r # t
    BY <1>1, <1>2, <1>3, <1>5
  <2> QED
    BY <1>1, <1>3, <1>8, <1>12, <2>1
<1>14. ArgsAre(M[c].tree, s) /\ Hangs(M[c].tree, r, m)
  BY <1>10, <1>13 DEF ArgsAre, Hangs, m
<1> QED
  BY <1>8, <1>10, <1>11, <1>12, <1>14 DEF t, m

\* The token of a stage's node: its command, its redirection, or the second of two.
Chosen(n, s) ==
    \/ Redirections(s) = {} /\ n = Command(s)
    \/ Redirections(s) = {n}
    \/ \E r : Redirections(s) = {r, n} /\ r < n /\ Command(s) < n
\* What hangs below it then.
StageTree(tr, n, s) ==
    /\ ArgsAre(tr, s)
    /\ \/ Redirections(s) = {} /\ n = Command(s)
       \/ Redirections(s) = {n} /\ Hangs(tr, n, Command(s))
       \/ \E r : /\ Redirections(s) = {r, n} /\ r < n
                 /\ tr[n].left = <<r>> /\ Hangs(tr, r, Command(s))
\* That is what the call for the token makes.
LEMMA StageCall ==
    ASSUME tokens \in Lines, NEW s \in Nat, HasCommand(s), NEW c \in Calls, ~Idle(c),
           Covers(c, s), Chosen(c.t, s)
    PROVE  StageTree(M[c].tree, c.t, s) /\ InStage(s) \subseteq M[c].used
<1> DEFINE t == c.t
           m == Command(s)
<1>1. /\ m \in PlainWords(s) /\ m \in Nat /\ m \in InStage(s)
      /\ \A j \in PlainWords(s) : j \in InStage(s) /\ m <= j /\ j \in Nat
  BY StageParts, OfStage
<1>2. t \in Nat /\ c.f \in Nat /\ c.e \in Nat /\ c.t \notin c.used
  <2>1. t \in Places /\ Places \subseteq Nat /\ c.f \in Nat /\ c.e \in Nat
    BY ChildrenAre
  <2> QED
    BY <2>1 DEF Idle
<1>3. \A j \in InStage(s) : /\ j \in Nat /\ c.f <= j /\ j < c.e /\ j \notin c.used
  <2> SUFFICES ASSUME NEW j \in InStage(s) PROVE j \in Nat /\ c.f <= j /\ j < c.e /\ j \notin c.used
    OBVIOUS
  <2>1. j \in Nat /\ j \in c.f..(c.e - 1) /\ j \notin c.used
    BY OfStage DEF Covers
  <2> QED
    BY <1>2, <2>1
<1>4. t \in InStage(s)
  BY <1>1 DEF Chosen, Redirections
<1>5. ASSUME NEW j \in c.f..(t - 1) PROVE j \in InStage(s) \/ (j \in c.used /\ j < m)
  <2>1. j \in c.f..(c.e - 1)
    BY <1>2, <1>3, <1>4
  <2>2. j \in InStage(s) \/ (j = c.f /\ j \in c.used)
    BY <2>1 DEF Covers
  <2>3. ASSUME j = c.f, j \in c.used PROVE j < m
    <3>1. c.f <= m /\ c.f # m
      BY <1>1, <1>3, <2>3
    <3> QED
      BY <1>1, <1>2, <2>3, <3>1
  <2> QED
    BY <2>2, <2>3
<1>6. ASSUME NEW j \in (t + 1)..(c.e - 1) PROVE j \in InStage(s)
  <2>1. j \in c.f..(c.e - 1) /\ j # c.f
    BY <1>2, <1>3, <1>4
  <2> QED
    BY <2>1 DEF Covers
<1>7. PlainWords(s) \cap c.used = {}
  BY <1>1, <1>3
<1> HIDE DEF t, m
<1>8. CASE Redirections(s) = {} /\ t = m
  <2>1. InStage(s) = PlainWords(s)
    BY <1>1, <1>8, StageParts
  <2>2. \A j \in c.f..(c.t - 1) : j \in c.used
    <3> SUFFICES ASSUME NEW j \in c.f..(t - 1) PROVE j \in c.used
      BY DEF t
    <3>1. ~(m <= j)
      BY <1>2, <1>8
    <3> QED
      BY <1>1, <1>5, <2>1, <3>1
  <2>3. \A j \in (c.t + 1)..(c.e - 1) : j \in PlainWords(s)
    BY <1>6, <2>1 DEF t
  <2>4. M[c].used = c.used \cup PlainWords(s) /\ ArgsAre(M[c].tree, s)
    <3>1. c.t = Command(s)
      BY <1>8 DEF t, m
    <3> QED
      BY <1>7, <2>2, <2>3, <3>1, CommandCall
  <2> QED
    BY <1>8, <2>1, <2>4 DEF StageTree, t, m
<1>9. CASE Redirections(s) = {t}
  <2>1. t \in InStage(s) /\ t + 1 \in InStage(s) /\ t \in Nat
    BY <1>9, StageParts
  <2>2. ASSUME NEW j \in InStage(s) PROVE j = t \/ j = t + 1 \/ j \in PlainWords(s)
    <3>1. \/ j \in Redirections(s) \/ j - 1 \in Redirections(s) \/ j \in PlainWords(s)
      BY StageParts
    <3>2. j - 1 = t => j = t + 1
      BY <1>3, <2>1
    <3> QED
      BY <1>9, <3>1, <3>2
  <2>3. \A j \in c.f..(c.t - 1) : (j \in c.used /\ j < Command(s)) \/ j \in PlainWords(s)
    <3> SUFFICES ASSUME NEW j \in c.f..(t - 1) PROVE (j \in c.used /\ j < m) \/ j \in PlainWords(s)
      BY DEF t, m
    <3>1. j # t /\ j # t + 1
      BY <1>2
    <3> QED
      BY <1>5, <2>2, <3>1
  <2>4. \A j \in (c.t + 1)..(c.e - 1) : j = c.t + 1 \/ j \in PlainWords(s)
    <3> SUFFICES ASSUME NEW j \in (t + 1)..(c.e - 1) PROVE j = t + 1 \/ j \in PlainWords(s)
      BY DEF t
    <3>1. j # t
      BY <1>2
    <3> QED
      BY <1>6, <2>2, <3>1
  <2>5. c.t \in Redirections(s) /\ c.t + 1 < c.e /\ c.t + 1 \notin c.used
    BY <1>3, <1>9, <2>1 DEF t
  <2>6. Command(s) \in c.f..(c.e - 1)
    BY <1>1 DEF Covers, m
  <2>7. /\ M[c].used = c.used \cup {c.t, c.t + 1} \cup PlainWords(s)
        /\ ArgsAre(M[c].tree, s) /\ Hangs(M[c].tree, c.t, Command(s))
    BY <1>7, <2>3, <2>4, <2>5, <2>6, RedirOverCommand
  <2>8. InStage(s) \subseteq M[c].used
    BY <2>2, <2>7 DEF t
  <2> QED
    BY <1>9, <2>7, <2>8 DEF StageTree, t
<1>10. ASSUME NEW r, Redirections(s) = {r, t}, r < t, m < t
       PROVE  StageTree(M[c].tree, c.t, s) /\ InStage(s) \subseteq M[c].used
  <2>1. /\ InStage(s) \subseteq M[c].used /\ ArgsAre(M[c].tree, s)
        /\ M[c].tree[c.t].left = <<r>> /\ Hangs(M[c].tree, r, Command(s))
    BY <1>10, RedirOverRedir DEF t, m
  <2> QED
    BY <1>10, <2>1 DEF StageTree, t
<1> QED
  BY <1>8, <1>9, <1>10 DEF Chosen, t, m

-----------------------------------------------------------------------------
(***************************************************************************)
(* Which token is chosen in a simple stage.                                *)
(***************************************************************************)
\* A set of at most one member.
LEMMA AtMostOne ==
    ASSUME NEW S, IsFiniteSet(S), Cardinality(S) <= 1, NEW x \in S, NEW y \in S
    PROVE  x = y
<1> SUFFICES ASSUME x # y PROVE FALSE
  OBVIOUS
<1>1. IsFiniteSet({x}) /\ Cardinality({x}) = 1
  BY FS_Singleton
<1>2. Cardinality({x} \cup {y}) = 2 /\ IsFiniteSet({x} \cup {y})
  BY <1>1, FS_AddElement
<1>3. {x} \cup {y} \in SUBSET S
  OBVIOUS
<1>4. Cardinality({x} \cup {y}) <= Cardinality(S) /\ Cardinality(S) \in Nat
  BY <1>3, FS_Subset, FS_CardinalityType
<1> QED
  BY <1>2, <1>4

\* The other member of a set of two.
LEMMA OtherOne ==
    ASSUME NEW S, IsFiniteSet(S), Cardinality(S) = 2, NEW x \in S
    PROVE  \E y : y # x /\ S = {x, y}
<1>1. IsFiniteSet(S \ {x}) /\ Cardinality(S \ {x}) = 1
  BY FS_RemoveElement
<1>2. PICK y : S \ {x} = {y}
  BY <1>1, FS_Singleton
<1> QED
  BY <1>2

\* The parts of a stage are finite.
LEMMA StageIsFinite ==
    ASSUME tokens \in Lines, NEW s
    PROVE  IsFiniteSet(Redirections(s)) /\ Redirections(s) \subseteq Places
<1>1. Redirections(s) \subseteq Places
  BY DEF Redirections, InStage
<1> QED
  BY <1>1, LineFacts, FS_Subset

\* The first in rank of a stage with at most one redirection.
LEMMA ChosenFirst ==
    ASSUME tokens \in Lines, NEW s \in Nat, HasCommand(s), Cardinality(Redirections(s)) <= 1,
           NEW n, FirstOf(n, InStage(s)),
           \A k \in InStage(s) : tokens[k] = "cmd" => tokens[n] \in Redirs \cup {"|"} \/ n <= k
    PROVE  Chosen(n, s)
<1>1. n \in InStage(s) /\ n \in Nat /\ tokens[n] # "|"
  <2>1. n \in InStage(s)
    BY DEF FirstOf
  <2> QED
    BY <2>1, OfStage
<1>2. CASE Redirections(s) = {}
  <2>1. n \in PlainWords(s) /\ tokens[n] \notin Redirs
    BY <1>1, <1>2, StageParts
  <2>2. /\ Command(s) \in InStage(s) /\ tokens[Command(s)] = "cmd" /\ Command(s) <= n
        /\ Command(s) \in Nat
    BY <2>1, StageParts
  <2>3. n <= Command(s)
    BY <1>1, <2>1, <2>2
  <2>4. n = Command(s)
    BY <1>1, <2>2, <2>3
  <2> QED
    BY <1>2, <2>4 DEF Chosen
<1>3. CASE Redirections(s) # {}
  <2>1. PICK r : r \in Redirections(s)
    BY <1>3
  <2>2. tokens[r] \in Redirs /\ r \in InStage(s)
    BY <2>1, StageParts
  <2>3. tokens[n] \in Redirs
    BY <1>1, <2>2 DEF FirstOf
  <2>4. n \in Redirections(s)
    BY <1>1, <2>3 DEF Redirections
  <2>5. \A x \in Redirections(s) : x = n
    BY <2>4, AtMostOne, StageIsFinite
  <2> QED
    BY <2>4, <2>5 DEF Chosen
<1> QED
  BY <1>2, <1>3

\* The root of a line without pipes: its last redirection, or else its first command.
LEMMA RootOfOneStage ==
    ASSUME tokens \in Lines, \A k \in Places : tokens[k] # "|"
    PROVE  /\ \A k \in Places : tokens[k] \in Redirs =>
                  tokens[FindInitialRoot] \in Redirs /\ k <= FindInitialRoot
           /\ (\A k \in Places : tokens[k] \notin Redirs) =>
                  \A k \in Places : tokens[k] = "cmd" =>
                      tokens[FindInitialRoot] = "cmd" /\ FindInitialRoot <= k
<1> DEFINE top == {j \in Places : \A k \in Places : Rank(tokens[k]) <= Rank(tokens[j])}
           cmds == {j \in Places : tokens[j] = "cmd"}
           last == CHOOSE j \in top : \A k \in top : k <= j
           root0 == FindInitialRoot
<1>1. Places # {} /\ Places \subseteq Nat /\ \A j \in Places : tokens[j] \in Kinds
  BY LineFacts DEF Places
<1>2. top # {} /\ top \subseteq Places
  BY <1>1, TopExists
<1>3. last \in top /\ \A k \in top : k <= last
  <2>1. \E j \in top : \A k \in top : k <= j
    <3> HIDE DEF top
    <3> QED
      BY <1>2, MaxExists
  <2> HIDE DEF top
  <2> QED
    BY <2>1
<1>4. /\ root0 = IF Rank(tokens[last]) = 4 /\ cmds # {} THEN MinOf(cmds) ELSE last
      /\ Rank("cmd") = 4
  <2>1. Rank("cmd") = 4
    BY DEF Rank, Redirs
  <2> QED
    BY <2>1 DEF FindInitialRoot
<1>5. cmds # {} => MinOf(cmds) \in cmds /\ \A k \in cmds : MinOf(cmds) <= k
  <2>1. cmds \subseteq Nat
    BY <1>1
  <2> HIDE DEF cmds
  <2> QED
    BY <2>1, MinOfIs
<1>6. \A j \in Places : /\ Rank(tokens[j]) \in 3..6 /\ Rank(tokens[j]) # 6
                        /\ (Rank(tokens[j]) = 5 <=> tokens[j] \in Redirs)
  BY <1>1, RankIs
<1>7. last \in Places /\ \A k \in Places : Rank(tokens[k]) <= Rank(tokens[last])
  BY <1>2, <1>3
<1>8. ASSUME NEW k \in Places, tokens[k] \in Redirs PROVE tokens[root0] \in Redirs /\ k <= root0
  <2>1. Rank(tokens[k]) = 5
    BY <1>6, <1>8
  <2>2. k \in top
    BY <1>6, <2>1
  <2>3. k <= last
    BY <1>3, <2>2
  <2>4. Rank(tokens[last]) = 5
    <3> HIDE DEF last, top
    <3> QED
      BY <1>6, <1>7, <2>1
  <2> HIDE DEF last, top
  <2> QED
    BY <1>4, <1>6, <1>7, <2>3, <2>4
<1>9. ASSUME \A k \in Places : tokens[k] \notin Redirs, NEW k \in Places, tokens[k] = "cmd"
      PROVE  tokens[root0] = "cmd" /\ root0 <= k
  <2>1. k \in cmds
    BY <1>9
  <2>2. Rank(tokens[last]) = 4
    <3> HIDE DEF last, top
    <3> QED
      BY <1>4, <1>6, <1>7, <1>9
  <2>3. root0 = MinOf(cmds)
    BY <1>4, <2>1, <2>2
  <2>4. root0 \in cmds /\ root0 <= k
    BY <1>5, <2>1, <2>3
  <2> QED
    BY <2>4
<1> QED
  BY <1>8, <1>9

\* The root of a line that is one simple stage.
LEMMA ChosenRoot ==
    ASSUME tokens \in Lines, NEW s \in Nat, Simple(s), InStage(s) = Places,
           \A k \in Places : tokens[k] # "|"
    PROVE  Chosen(FindInitialRoot, s)
<1> DEFINE n == FindInitialRoot
           R == Redirections(s)
<1>1. n \in Places /\ Places \subseteq Nat
  BY FindInitialRootIs, LineFacts
<1>2. HasCommand(s)
  BY DEF Simple, HasCommand
<1>3. IsFiniteSet(R) /\ R \subseteq Places
  BY StageIsFinite
<1>4. Command(s) \in PlainWords(s) /\ tokens[Command(s)] = "cmd" /\ Command(s) \in Places
  BY <1>2, StageParts DEF PlainWords
<1> HIDE DEF n
<1>5. CASE R = {}
  <2>1. \A k \in Places : tokens[k] \notin Redirs
    BY <1>5 DEF Redirections
  <2>2. tokens[n] = "cmd" /\ n <= Command(s)
    BY <1>4, <2>1, RootOfOneStage DEF n
  <2>3. n \in PlainWords(s)
    BY <1>1, <1>2, <1>5, StageParts
  <2>4. Command(s) <= n
    BY <1>2, <2>3, StageParts
  <2>5. n = Command(s)
    <3>1. n \in Nat /\ Command(s) \in Nat
      BY <1>1, <1>4
    <3> QED
      BY <2>2, <2>4, <3>1
  <2> QED
    BY <1>5, <2>5 DEF Chosen, n
<1>6. CASE R # {}
  <2>1. \A k \in R : tokens[k] \in Redirs /\ k \in Places
    BY <1>3 DEF Redirections
  <2>2. tokens[n] \in Redirs /\ \A k \in R : k <= n
    BY <1>6, <2>1, RootOfOneStage DEF n
  <2>3. n \in R
    BY <1>1, <2>2 DEF Redirections
  <2> HIDE DEF R
  <2>4. CASE Cardinality(R) <= 1
    <3>1. \A x \in R : x = n
      BY <1>3, <2>3, <2>4, AtMostOne
    <3>2. R = {n}
      BY <2>3, <3>1
    <3> QED
      BY <3>2 DEF Chosen, R, n
  <2>5. CASE Cardinality(R) = 2 /\ Cardinality({j \in R : j < Command(s)}) <= 1
    <3>1. PICK r : r # n /\ R = {n, r}
      BY <1>3, <2>3, <2>5, OtherOne
    <3>2. r \in Nat /\ n \in Nat /\ r < n
      <4>1. r \in Nat /\ n \in Nat /\ r <= n
        BY <1>1, <1>3, <2>2, <3>1
      <4> QED
        BY <3>1, <4>1
    <3>3. Command(s) < n
      <4> DEFINE m == Command(s)
                 B == {j \in R : j < m}
      <4>1. m \in Nat
        BY <1>1, <1>4
      <4> SUFFICES ASSUME ~(m < n) PROVE FALSE
        OBVIOUS
      <4>2. m # n
        BY <1>2, <2>3, StageParts DEF R
      <4> HIDE DEF m
      <4>3. n < m /\ r < m
        BY <3>2, <4>1, <4>2
      <4>4. n \in B /\ r \in B
        BY <3>1, <4>3
      <4>5. IsFiniteSet(B) /\ Cardinality(B) <= 1
        <5>1. B \in SUBSET R
          OBVIOUS
        <5> QED
          BY <1>3, <2>5, <5>1, FS_Subset DEF m
      <4> HIDE DEF B
      <4>6. n = r
        BY <4>4, <4>5, AtMostOne
      <4> QED
        BY <3>1, <4>6
    <3> QED
      BY <3>1, <3>2, <3>3 DEF Chosen, R, n
  <2> QED
    BY <2>4, <2>5 DEF Simple, R, Command
<1> QED
  BY <1>5, <1>6

-----------------------------------------------------------------------------
(***************************************************************************)
(* What a pipe's sides are looked for in: whole stages, not used yet.      *)
(***************************************************************************)
\* A part of the line that starts at a pipe or with the line, and ends the same way.
Whole(c) ==
    /\ c.f = 1 \/ tokens[c.f] = "|"
    /\ c.e = Eof \/ tokens[c.e] = "|"
    /\ \A k \in c.f..(c.e - 1) : k \in c.used => k = c.f /\ tokens[k] = "|"

\* If it has no other pipe, it is a stage.
LEMMA WholeCovers ==
    ASSUME tokens \in Lines, NEW c \in Calls, ~Idle(c), InOneStage(c), Whole(c)
    PROVE  Covers(c, Stage(c.t))
<1> DEFINE t == c.t
           f == c.f
           e == c.e
<1>1. /\ t \in Places /\ f \in Places /\ e \in 1..Eof /\ t \in Nat /\ f \in Nat /\ e \in Nat
      /\ Places \subseteq Nat
  BY OwnIs, ChildrenAre
<1>2. /\ tokens[t] # "|" /\ f <= t /\ t < e /\ (\A k \in (f + 1)..(e - 1) : tokens[k] # "|")
      /\ f \in c.used \/ tokens[f] # "|"
  BY DEF InOneStage
<1>3. /\ f = 1 \/ tokens[f] = "|"
      /\ e = Eof \/ tokens[e] = "|"
      /\ \A k \in f..(e - 1) : k \in c.used => k = f /\ tokens[k] = "|"
  BY DEF Whole
<1>4. Len(tokens) \in Nat /\ Eof = Len(tokens) + 1 /\ Places = 1..Len(tokens)
  BY LineFacts DEF Eof, Places
<1> HIDE DEF t, f, e
<1>5. ASSUME NEW j \in f..(e - 1) PROVE j \in InStage(Stage(t)) \/ (j = f /\ j \in c.used)
  <2>1. CASE tokens[j] = "|"
    <3>1. j = f \/ j \in (f + 1)..(e - 1)
      BY <1>1
    <3> QED
      BY <1>2, <2>1, <3>1
  <2>2. CASE tokens[j] # "|"
    <3>1. j \in Places /\ j \in Nat
      BY <1>1, <1>4
    <3>2. CASE j <= t
      <4>1. \A k \in j..(t - 1) : k = j \/ k \in (f + 1)..(e - 1)
        BY <1>1, <1>2
      <4>2. \A k \in j..(t - 1) : tokens[k] # "|"
        BY <1>2, <2>2, <4>1
      <4> QED
        BY <1>1, <2>2, <3>1, <3>2, <4>2, InStageOf
    <3>3. CASE t <= j
      <4>1. \A k \in t..(j - 1) : k = t \/ k \in (f + 1)..(e - 1)
        BY <1>1, <1>2
      <4>2. \A k \in t..(j - 1) : tokens[k] # "|"
        BY <1>2, <4>1
      <4> QED
        BY <1>1, <2>2, <3>1, <3>3, <4>2, InStageOf
    <3> QED
      BY <1>1, <3>1, <3>2, <3>3
  <2> QED
    BY <2>1, <2>2
<1>6. ASSUME NEW j \in InStage(Stage(t)) PROVE j \in f..(e - 1) /\ j \notin c.used
  <2>1. j \in Places /\ tokens[j] # "|" /\ Stage(j) = Stage(t)
    BY InStageIs
  <2>2. j \in Nat /\ j \in 1..Eof /\ t \in 1..Eof /\ 1 <= j /\ j < Eof
    BY <1>1, <1>4, <2>1
  <2>3. PipesBefore(j) = PipesBefore(t) /\ PipesBefore(t) \in Nat
    <3>1. PipesBefore(j) \in Nat /\ PipesBefore(t) \in Nat
      BY PipesBeforeIs
    <3> QED
      BY <2>1, <3>1 DEF Stage
  <2>4. f <= j
    <3> SUFFICES ASSUME ~(f <= j) PROVE FALSE
      OBVIOUS
    <3>1. j < f /\ f # 1
      BY <1>1, <2>2
    <3>2. tokens[f] = "|" /\ f < t /\ j <= f
      BY <1>1, <1>2, <1>3, <2>2, <3>1
    <3>3. PipesBefore(j) < PipesBefore(t)
      BY <1>1, <2>2, <3>2, PipesGrow
    <3> QED
      BY <2>3, <3>3
  <2>5. j < e
    <3> SUFFICES ASSUME ~(j < e) PROVE FALSE
      OBVIOUS
    <3>1. e <= j /\ e # Eof
      BY <1>1, <2>2, <1>4
    <3>2. tokens[e] = "|" /\ e < j /\ t <= e /\ e \in Places
      <4>1. tokens[e] = "|" /\ e # j
        BY <1>3, <2>1, <3>1
      <4> QED
        BY <1>1, <1>2, <1>4, <2>2, <3>1, <4>1
    <3>3. PipesBefore(t) < PipesBefore(j)
      BY <2>2, <3>2, PipesGrow
    <3> QED
      BY <2>3, <3>3
  <2>6. j \in f..(e - 1)
    BY <1>1, <2>2, <2>4, <2>5
  <2> QED
    BY <1>3, <2>1, <2>6
<1> QED
  BY <1>5, <1>6 DEF Covers, t, f, e

\* What is made before a pipe takes nothing behind it.
LEMMA StageTakesBefore ==
    ASSUME tokens \in Lines, NEW c \in Calls, ~Idle(c), InOneStage(c), tokens[c.e] = "|"
    PROVE  \A k \in Taken(c) : k < c.e
<1> DEFINE t == c.t
           e == c.e
<1>1. /\ t \in Places /\ e \in 1..Eof /\ t \in Nat /\ e \in Nat /\ t < e
  BY OwnIs, ChildrenAre DEF InOneStage
<1>2. Len(tokens) \in Nat /\ Eof = Len(tokens) + 1 /\ Places = 1..Len(tokens)
  BY LineFacts DEF Eof, Places
<1> SUFFICES ASSUME NEW k \in Taken(c) PROVE k < e
  OBVIOUS
<1>3. k \in Places /\ tokens[k] # "|" /\ Stage(k) = Stage(t)
  <2>1. k \in InStage(Stage(t))
    BY TakenInStage
  <2> QED
    BY <2>1, InStageIs
<1>4. tokens[e] = "|"
  OBVIOUS
<1> HIDE DEF t, e
<1>5. PipesBefore(k) = PipesBefore(t) /\ PipesBefore(t) \in Nat
  <2>1. PipesBefore(k) \in Nat /\ PipesBefore(t) \in Nat
    BY PipesBeforeIs
  <2> QED
    BY <1>3, <2>1 DEF Stage
<1>6. k \in Nat /\ k \in 1..Eof /\ t \in 1..Eof /\ k # e /\ k < Eof
  BY <1>1, <1>2, <1>3, <1>4
<1> SUFFICES ASSUME ~(k < e) PROVE FALSE
  OBVIOUS
<1>7. e < k /\ e \in Places /\ t <= e
  BY <1>1, <1>2, <1>6
<1>8. PipesBefore(t) < PipesBefore(k)
  BY <1>4, <1>6, <1>7, PipesGrow
<1> QED
  BY <1>5, <1>8

\* By induction over the calls, neither does a chain of pipes.
TakesBefore(c) ==
    M[c].node # NULL /\ ((InOneStage(c) /\ tokens[c.e] = "|") \/ ChainCall(c)) =>
        \A k \in Taken(c) : k < c.e
\* So a call for a pipe takes nothing behind the last one.
LEMMA ChainTakesBefore ==
    ASSUME tokens \in Lines, NEW c \in Calls
    PROVE  TakesBefore(c)
<1> DEFINE G == {d \in Calls : TakesBefore(d)}
<1>1. ASSUME NEW d \in Calls, Deeper(d) \subseteq G PROVE d \in G
  <2> SUFFICES ASSUME M[d].node # NULL, ChainCall(d) PROVE \A k \in Taken(d) : k < d.e
    <3>1. ~Idle(d) \/ M[d].node = NULL
      BY NodeIs
    <3> QED
      BY <3>1, StageTakesBefore DEF TakesBefore
  <2> DEFINE lc == LeftCall(d)
             rc == RightCall(M, d)
  <2>1. tokens[d.t] = "|" /\ d.t < d.e /\ tokens[d.e] = "|"
    BY DEF ChainCall, LastPipe
  <2>2. /\ ~Idle(d) /\ lc.t # Eof /\ LeftOf(d).node # NULL
        /\ rc.t # Eof /\ RightOf(d).node # NULL
    BY <2>1, MadeOfChildren
  <2>3. /\ InOneStage(lc)
        /\ InOneStage(rc) \/ ChainCall(rc)
    BY <2>2, ChainChildren
  <2>4. /\ lc \in Calls /\ rc \in Calls /\ lc \in Deeper(d) /\ rc \in Deeper(d)
        /\ lc.e = d.t /\ rc.e = d.e
    BY <2>2, CallsOf
  <2>5. M[lc].node # NULL /\ M[rc].node # NULL
    BY <2>2 DEF LeftOf, RightOf
  <2>6. Taken(d) \subseteq {d.t} \cup Taken(lc) \cup Taken(rc)
    <3>1. Own(d) = {d.t}
      BY <2>1, <2>2, PipeOwns
    <3> QED
      BY <2>2, <3>1, TakenBy
  <2>7. TakesBefore(lc) /\ TakesBefore(rc)
    BY <1>1, <2>4
  <2> HIDE DEF lc, rc
  <2>8. \A k \in Taken(lc) : k < d.t
    BY <2>1, <2>3, <2>4, <2>5, <2>7 DEF TakesBefore
  <2>9. \A k \in Taken(rc) : k < d.e
    BY <2>1, <2>3, <2>4, <2>5, <2>7 DEF TakesBefore
  <2>10. d.t \in Nat /\ d.e \in Nat /\ Taken(d) \subseteq Nat
    <3>1. d.t \in Nat /\ d.e \in Nat /\ Places \subseteq Nat
      BY <2>2, ChildrenAre
    <3>2. M[d] \in Results
      BY MkeYggdrasilIs DEF M
    <3> QED
      BY <3>1, <3>2 DEF Taken, Results
  <2> SUFFICES ASSUME NEW k \in Taken(d) PROVE k < d.e
    OBVIOUS
  <2>11. k \in Nat /\ (k = d.t \/ k < d.t \/ k < d.e)
    BY <2>6, <2>8, <2>9, <2>10
  <2> QED
    BY <2>1, <2>10, <2>11
<1>2. \A d \in Calls : d \in G
  <2> HIDE DEF G
  <2> QED
    BY <1>1, CallInduction
<1> QED
  BY <1>2

\* So the two sides of a pipe are whole parts of the line, if the pipe's was.
LEMMA WholeSides ==
    ASSUME tokens \in Lines, NEW c \in Calls, M[c].node # NULL, ChainCall(c) \/ RootCall(c), Whole(c)
    PROVE  Whole(LeftCall(c)) /\ Whole(RightCall(M, c))
<1> DEFINE t == c.t
           lc == LeftCall(c)
           rc == RightCall(M, c)
<1>1. tokens[t] = "|"
  BY DEF ChainCall, RootCall, LastPipe
<1>2. /\ ~Idle(c) /\ lc.t # Eof /\ LeftOf(c).node # NULL
      /\ rc.t # Eof /\ RightOf(c).node # NULL
  BY <1>1, MadeOfChildren
<1>3. InOneStage(lc) \/ ChainCall(lc)
  BY <1>2, RootChildren, ChainChildren
<1>4. /\ lc \in Calls /\ lc.used = NewNode(c).used /\ lc.f = c.f /\ lc.e = t
      /\ rc.used = LeftOf(c).used /\ rc.f = t /\ rc.e = c.e
  BY <1>2, CallsOf
<1>5. NewNode(c).used = c.used \cup {t}
  BY <1>1, <1>2, PipeOwns
<1>6. t \in Nat /\ c.f \in Nat /\ c.e \in Nat /\ c.f <= t /\ t < c.e
  <2>1. lc.t \in Nat /\ rc.t \in Nat /\ c.f <= lc.t /\ lc.t < t /\ t < rc.t /\ rc.t < c.e
        /\ t \in Nat /\ c.f \in Nat /\ c.e \in Nat
    BY <1>2, ChildrenAre
  <2> HIDE DEF t, lc, rc
  <2> QED
    BY <2>1
<1>7. LeftOf(c) = M[lc]
  BY DEF LeftOf
<1> HIDE DEF t, lc, rc
<1>8. \A k \in Taken(lc) : k < t
  BY <1>1, <1>2, <1>3, <1>4, <1>7, ChainTakesBefore DEF TakesBefore
<1>9. LeftOf(c).used \subseteq c.used \cup {t} \cup Taken(lc)
  BY <1>4, <1>5, <1>7 DEF Taken
<1>10. /\ c.f = 1 \/ tokens[c.f] = "|"
       /\ c.e = Eof \/ tokens[c.e] = "|"
       /\ \A k \in c.f..(c.e - 1) : k \in c.used => k = c.f /\ tokens[k] = "|"
  BY DEF Whole
<1>11. Whole(lc)
  <2> SUFFICES ASSUME NEW k \in c.f..(t - 1), k \in c.used \cup {t}
               PROVE  k = c.f /\ tokens[k] = "|"
    BY <1>1, <1>4, <1>5, <1>10 DEF Whole
  <2>1. k # t /\ k \in c.f..(c.e - 1)
    BY <1>6
  <2> QED
    BY <1>10, <2>1
<1>12. Whole(rc)
  <2> SUFFICES ASSUME NEW k \in t..(c.e - 1), k \in LeftOf(c).used
               PROVE  k = t /\ tokens[k] = "|"
    BY <1>1, <1>4, <1>10 DEF Whole
  <2>1. ~(k < t) /\ k \in c.f..(c.e - 1)
    BY <1>6
  <2>2. k \in c.used \/ k = t
    BY <1>8, <1>9, <2>1
  <2>3. k \in c.used => k = c.f
    BY <1>10, <2>1
  <2>4. k = t
    BY <1>6, <2>1, <2>2, <2>3
  <2> QED
    BY <1>1, <2>4
<1> QED
  BY <1>11, <1>12 DEF lc, rc

-----------------------------------------------------------------------------
(***************************************************************************)
(* The sides of the pipes.                                                 *)
(***************************************************************************)
\* A node that is no pipe is what its stage was meant to be, within the nodes of N.
StraightIn(tr, n, N) ==
    tokens[n] # "|" /\ Simple(Stage(n)) =>
        InStage(Stage(n)) \subseteq N /\ StageTree(tr, n, Stage(n))
\* So are the two sides of a pipe.
Sides(tr, n, N) ==
    tokens[n] = "|" /\ tr[n].left # NULL =>
        StraightIn(tr, tr[n].left[1], N) /\ StraightIn(tr, tr[n].right[1], N)

\* A stage's tree stays as it is while its nodes do.
LEMMA StraightKept ==
    ASSUME tokens \in Lines, NEW tr, NEW ts, NEW N, NEW P, N \subseteq P,
           \A k \in N : ts[k] = tr[k], NEW n, StraightIn(tr, n, N)
    PROVE  StraightIn(ts, n, P)
<1> DEFINE s == Stage(n)
<1> SUFFICES ASSUME tokens[n] # "|", Simple(s)
             PROVE  InStage(s) \subseteq P /\ StageTree(ts, n, s)
  BY DEF StraightIn
<1>1. InStage(s) \subseteq N /\ StageTree(tr, n, s)
  BY DEF StraightIn
<1>2. s \in Nat
  <2>1. PipesBefore(n) \in Nat
    BY PipesBeforeIs
  <2> QED
    BY <2>1 DEF Stage
<1>3. HasCommand(s)
  BY DEF Simple, HasCommand
<1> HIDE DEF s
<1>4. Command(s) \in N /\ Redirections(s) \subseteq N
  BY <1>1, <1>2, <1>3, StageParts
<1>5. ArgsAre(ts, s)
  BY <1>1, <1>4 DEF StageTree, ArgsAre
<1>6. \A r \in Redirections(s) : /\ Hangs(tr, r, Command(s)) => Hangs(ts, r, Command(s))
                                 /\ tr[r].left = ts[r].left
  BY <1>4 DEF Hangs
<1>7. StageTree(ts, n, s)
  <2>1. CASE Redirections(s) = {} /\ n = Command(s)
    BY <1>5, <2>1 DEF StageTree
  <2>2. CASE Redirections(s) = {n} /\ Hangs(tr, n, Command(s))
    BY <1>5, <1>6, <2>2 DEF StageTree
  <2>3. ASSUME NEW r, Redirections(s) = {r, n}, r < n, tr[n].left = <<r>>,
               Hangs(tr, r, Command(s))
        PROVE  StageTree(ts, n, s)
    <3>1. Hangs(ts, r, Command(s)) /\ ts[n].left = <<r>>
      BY <1>6, <2>3
    <3> QED
      BY <1>5, <2>3, <3>1 DEF StageTree
  <2> QED
    BY <1>1, <2>1, <2>2, <2>3 DEF StageTree
<1> QED
  BY <1>1, <1>7

\* So do the sides of a pipe.
LEMMA SidesKept ==
    ASSUME tokens \in Lines, NEW tr, NEW ts, NEW N, NEW P, N \subseteq P,
           \A k \in N : ts[k] = tr[k], NEW n \in N, Sides(tr, n, N)
    PROVE  Sides(ts, n, P)
<1> SUFFICES ASSUME tokens[n] = "|", tr[n].left # NULL
             PROVE  StraightIn(ts, tr[n].left[1], P) /\ StraightIn(ts, tr[n].right[1], P)
  BY DEF Sides
<1>1. StraightIn(tr, tr[n].left[1], N) /\ StraightIn(tr, tr[n].right[1], N)
  BY DEF Sides
<1> QED
  BY <1>1, StraightKept

\* In a line with a pipe a simple stage has at most one redirection.
LEMMA AtMostOneRedirection ==
    ASSUME tokens \in Lines, NEW p \in Places, tokens[p] = "|", NEW s, Simple(s)
    PROVE  Cardinality(Redirections(s)) <= 1
<1>1. Len(tokens) \in Nat /\ Eof = Len(tokens) + 1 /\ Places = 1..Len(tokens)
  BY LineFacts DEF Eof, Places
<1>2. p \in 1..Eof /\ Eof \in 1..Eof /\ p <= p /\ p < Eof
  BY <1>1
<1>3. PipesBefore(p) < PipesBefore(Eof)
  BY <1>2, PipesGrow
<1>4. PipesBefore(p) \in Nat /\ PipesBefore(Eof) \in Nat
  BY PipesBeforeIs
<1>5. PipesBefore(Eof) # 0
  BY <1>3, <1>4
<1> QED
  BY <1>5 DEF Simple

\* The node of a side that is one stage.
LEMMA StraightCall ==
    ASSUME tokens \in Lines, NEW c \in Calls, M[c].node # NULL, Whole(c), InOneStage(c),
           Simple(Stage(c.t)) => Chosen(c.t, Stage(c.t))
    PROVE  StraightIn(M[c].tree, c.t, Taken(c))
<1> DEFINE s == Stage(c.t)
<1> SUFFICES ASSUME Simple(s)
             PROVE  InStage(s) \subseteq Taken(c) /\ StageTree(M[c].tree, c.t, s)
  BY DEF StraightIn
<1>1. ~Idle(c)
  BY MadeIsComplete
<1>2. Covers(c, s)
  BY <1>1, WholeCovers
<1>3. s \in Nat
  <2>1. PipesBefore(c.t) \in Nat
    BY PipesBeforeIs
  <2> QED
    BY <2>1 DEF Stage
<1>4. HasCommand(s)
  BY DEF Simple, HasCommand
<1>5. Chosen(c.t, s)
  OBVIOUS
<1> HIDE DEF s
<1>6. StageTree(M[c].tree, c.t, s) /\ InStage(s) \subseteq M[c].used
  BY <1>1, <1>2, <1>3, <1>4, <1>5, StageCall
<1>7. InStage(s) \cap c.used = {}
  BY <1>2 DEF Covers
<1> QED
  BY <1>6, <1>7 DEF Taken

\* The left side of a pipe: its token is chosen from the whole stage.
LEMMA LeftSide ==
    ASSUME tokens \in Lines, NEW c \in Calls, M[c].node # NULL, tokens[c.t] = "|",
           Whole(LeftCall(c)), InOneStage(LeftCall(c))
    PROVE  StraightIn(LeftOf(c).tree, LeftCall(c).t, Taken(LeftCall(c)))
<1> DEFINE lc == LeftCall(c)
           l == lc.t
           s == Stage(l)
           free == FreeBefore(c.t, c.f, NewNode(c).used)
<1>1. /\ ~Idle(c) /\ l # Eof /\ LeftOf(c).node # NULL
  BY MadeOfChildren
<1>2. /\ lc \in Calls /\ lc.used = NewNode(c).used /\ lc.f = c.f /\ lc.e = c.t
      /\ l = FindLeftToken(c.t, c.f, NewNode(c).used)
  BY <1>1, CallsOf
<1>3. LeftOf(c) = M[lc]
  BY DEF LeftOf
<1>4. c.t \in Places /\ c.f \in Places
  BY <1>1, OwnIs
<1>5. /\ FirstOf(l, free)
      /\ \A k \in free : tokens[k] = "cmd" => \/ tokens[l] \in Redirs \cup {"|"}
                                              \/ l <= k /\ tokens[l] = "cmd"
  BY <1>1, <1>2, <1>4, FindLeftIs
<1>6. Covers(lc, s)
  <2>1. ~Idle(lc)
    BY <1>1, <1>2, <1>3, MadeIsComplete
  <2> QED
    BY <1>2, <2>1, WholeCovers
<1>7. free = InStage(s)
  <2>1. free = {j \in lc.f..(lc.e - 1) : j \notin lc.used}
    BY <1>2 DEF FreeBefore
  <2> HIDE DEF free, lc, s
  <2> QED
    BY <1>6, <2>1 DEF Covers
<1>8. Simple(s) => Chosen(l, s)
  <2> SUFFICES ASSUME Simple(s) PROVE Chosen(l, s)
    OBVIOUS
  <2>1. s \in Nat
    <3>1. PipesBefore(l) \in Nat
      BY PipesBeforeIs
    <3> QED
      BY <3>1 DEF Stage
  <2>2. HasCommand(s)
    BY DEF Simple, HasCommand
  <2>3. Cardinality(Redirections(s)) <= 1
    BY <1>4, AtMostOneRedirection
  <2> HIDE DEF s, l, free
  <2> QED
    BY <1>5, <1>7, <2>1, <2>2, <2>3, ChosenFirst
<1> HIDE DEF lc
<1> QED
  BY <1>1, <1>2, <1>3, <1>8, StraightCall DEF lc

\* The right side of a pipe.
LEMMA RightSide ==
    ASSUME tokens \in Lines, NEW c \in Calls, M[c].node # NULL, tokens[c.t] = "|",
           Whole(RightCall(M, c)), InOneStage(RightCall(M, c))
    PROVE  StraightIn(RightOf(c).tree, RightCall(M, c).t, Taken(RightCall(M, c)))
<1> DEFINE rc == RightCall(M, c)
           r == rc.t
           s == Stage(r)
           lower == LowerAfter(c.t, c.e)
<1>1. /\ ~Idle(c) /\ r # Eof /\ RightOf(c).node # NULL
  BY MadeOfChildren
<1>2. /\ rc \in Calls /\ rc.used = LeftOf(c).used /\ rc.f = c.t /\ rc.e = c.e
      /\ r = FindRightToken(c.t, c.e) /\ NewNode(c).used \subseteq LeftOf(c).used
  BY <1>1, CallsOf
<1>3. RightOf(c) = M[rc]
  BY DEF RightOf
<1>4. c.t \in Places /\ c.e \in 1..Eof /\ c.t \in Nat /\ c.e \in Nat
  BY <1>1, OwnIs, ChildrenAre
<1>5. /\ FirstOf(r, lower)
      /\ \A k \in lower : tokens[k] = "cmd" => \/ tokens[r] \in Redirs \cup {"|"}
                                               \/ r <= k /\ Rank(tokens[r]) = 4
  BY <1>1, <1>2, <1>4, FindRightIs
<1>6. Covers(rc, s)
  <2>1. ~Idle(rc)
    BY <1>1, <1>2, <1>3, MadeIsComplete
  <2> QED
    BY <1>2, <2>1, WholeCovers
<1>7. lower = InStage(s)
  <2>1. lower = {j \in (c.t + 1)..(c.e - 1) : Rank(tokens[j]) <= Rank(tokens[c.t])}
    BY DEF LowerAfter
  <2>2. Rank(tokens[c.t]) = 6
    BY RankIs DEF Kinds
  <2>3. ASSUME NEW j \in (c.t + 1)..(c.e - 1) PROVE j \in lower
    <3>1. j \in Places
      <4>1. Len(tokens) \in Nat /\ Eof = Len(tokens) + 1 /\ Places = 1..Len(tokens)
        BY LineFacts DEF Eof, Places
      <4> QED
        BY <1>4, <4>1
    <3>2. Rank(tokens[j]) \in 3..6
      BY <3>1, LineFacts, RankIs
    <3> QED
      BY <2>1, <2>2, <3>2
  <2>4. lower = (c.t + 1)..(c.e - 1)
    BY <2>1, <2>3
  <2>5. c.t \notin InStage(s)
    BY DEF InStage
  <2> HIDE DEF lower, rc, s
  <2>6. \A j \in (c.t + 1)..(c.e - 1) : j \in rc.f..(rc.e - 1) /\ j # rc.f
    BY <1>2, <1>4
  <2>7. \A j \in rc.f..(rc.e - 1) : j = c.t \/ j \in (c.t + 1)..(c.e - 1)
    BY <1>2, <1>4
  <2> QED
    BY <1>6, <2>4, <2>5, <2>6, <2>7 DEF Covers
<1>8. Simple(s) => Chosen(r, s)
  <2> SUFFICES ASSUME Simple(s) PROVE Chosen(r, s)
    OBVIOUS
  <2>1. s \in Nat
    <3>1. PipesBefore(r) \in Nat
      BY PipesBeforeIs
    <3> QED
      BY <3>1 DEF Stage
  <2>2. HasCommand(s)
    BY DEF Simple, HasCommand
  <2>3. Cardinality(Redirections(s)) <= 1
    BY <1>4, AtMostOneRedirection
  <2> HIDE DEF s, r, lower
  <2> QED
    BY <1>5, <1>7, <2>1, <2>2, <2>3, ChosenFirst
<1> HIDE DEF rc
<1> QED
  BY <1>1, <1>2, <1>3, <1>8, StraightCall DEF rc

\* The calls for pipes make such sides.
SidesCall(c) ==
    /\ Fresh(c.tree, c.used) /\ M[c].node # NULL
    /\ ChainCall(c) \/ RootCall(c)
    /\ Whole(c)
    => \A n \in Taken(c) : Sides(M[c].tree, n, Taken(c))
\* If those for its two sides do, so does the one for a pipe.
LEMMA PipeIsStraight ==
    ASSUME tokens \in Lines, NEW c \in Calls, Fresh(c.tree, c.used), M[c].node # NULL,
           ChainCall(c) \/ RootCall(c), Whole(c),
           SidesCall(LeftCall(c)), SidesCall(RightCall(M, c))
    PROVE  \A n \in Taken(c) : Sides(M[c].tree, n, Taken(c))
<1> DEFINE lc == LeftCall(c)
           rc == RightCall(M, c)
           A == Taken(lc)
           B == Taken(rc)
           tr == M[c].tree
<1>1. tokens[c.t] = "|"
  BY DEF ChainCall, RootCall, LastPipe
<1>2. /\ ~Idle(c) /\ lc.t # Eof /\ LeftOf(c).node # NULL
      /\ rc.t # Eof /\ RightOf(c).node # NULL
      /\ tr = WithBoth(c) /\ M[c].used = RightOf(c).used
      /\ tr[c.t].left = LeftOf(c).node /\ tr[c.t].right = RightOf(c).node
  BY <1>1, MadeOfChildren
<1>3. /\ InOneStage(lc) \/ ChainCall(lc)
      /\ InOneStage(rc) \/ ChainCall(rc)
  BY <1>2, RootChildren, ChainChildren
<1>4. lc \in Calls /\ rc \in Calls /\ M[lc] = LeftOf(c) /\ M[rc] = RightOf(c)
  BY <1>2, CallsOf DEF LeftOf, RightOf
<1>5. /\ A \subseteq Places /\ B \subseteq Places
      /\ c.t \notin A /\ c.t \notin B /\ A \cap B = {}
      /\ M[c].used = c.used \cup {c.t} \cup A \cup B /\ ({c.t} \cup A \cup B) \cap c.used = {}
      /\ \A n \in Places \ B : RightOf(c).tree[n] = LeftOf(c).tree[n]
      /\ Fresh(lc.tree, lc.used) /\ Fresh(rc.tree, rc.used)
  <2>1. TidyCall(lc) /\ TidyCall(rc)
    BY <1>4, MkeIsTidy
  <2>2. Own(c) = {c.t}
    BY <1>1, <1>2, PipeOwns
  <2> QED
    BY <1>2, <2>1, <2>2, Regions
<1>6. /\ RightOf(c).tree \in [Places -> Node] /\ c.t \in Places
  <2>1. /\ RightOf(c) \in Results /\ c.t \in Places
    BY <1>2, CallsOf, OwnIs
  <2> QED
    BY <2>1 DEF Results
<1>7. \A n \in Places : n # c.t => tr[n] = RightOf(c).tree[n]
  BY <1>2, <1>6 DEF WithBoth
<1>8. \A n \in A : tr[n] = LeftOf(c).tree[n]
  BY <1>5, <1>7
<1>9. \A n \in B : tr[n] = RightOf(c).tree[n]
  BY <1>5, <1>7
<1>10. Taken(c) = {c.t} \cup A \cup B /\ A \subseteq Taken(c) /\ B \subseteq Taken(c)
  BY <1>5 DEF Taken
<1>11. Whole(lc) /\ Whole(rc)
  BY WholeSides
<1>12. LeftOf(c).node = <<lc.t>> /\ RightOf(c).node = <<rc.t>> /\ ~Idle(lc) /\ ~Idle(rc)
  BY <1>2, <1>4, MadeIsComplete
<1>13. ASSUME NEW d \in Calls, ~Idle(d), InOneStage(d), NEW n \in Taken(d) PROVE tokens[n] # "|"
  <2>1. n \in InStage(Stage(d.t))
    BY <1>13, TakenInStage
  <2> QED
    BY <2>1, InStageIs
<1>14. /\ InOneStage(lc) => StraightIn(LeftOf(c).tree, lc.t, A)
       /\ InOneStage(rc) => StraightIn(RightOf(c).tree, rc.t, B)
  BY <1>1, <1>11, LeftSide, RightSide
<1> HIDE DEF lc, rc, A, B, tr
<1>15. ASSUME NEW n \in A PROVE Sides(tr, n, Taken(c))
  <2>1. CASE InOneStage(lc)
    <3>1. tokens[n] # "|"
      BY <1>4, <1>12, <1>13, <2>1 DEF A
    <3> QED
      BY <3>1 DEF Sides
  <2>2. CASE ChainCall(lc)
    <3>1. Sides(LeftOf(c).tree, n, A)
      BY <1>2, <1>4, <1>5, <1>11, <2>2 DEF SidesCall, A, lc
    <3> QED
      BY <1>8, <1>10, <3>1, SidesKept
  <2> QED
    BY <1>3, <2>1, <2>2
<1>16. ASSUME NEW n \in B PROVE Sides(tr, n, Taken(c))
  <2>1. CASE InOneStage(rc)
    <3>1. tokens[n] # "|"
      BY <1>4, <1>12, <1>13, <2>1 DEF B
    <3> QED
      BY <3>1 DEF Sides
  <2>2. CASE ChainCall(rc)
    <3>1. Sides(RightOf(c).tree, n, B)
      BY <1>2, <1>4, <1>5, <1>11, <2>2 DEF SidesCall, B, rc
    <3> QED
      BY <1>9, <1>10, <3>1, SidesKept
  <2> QED
    BY <1>3, <2>1, <2>2
<1>17. Sides(tr, c.t, Taken(c))
  <2>1. tr[c.t].left[1] = lc.t /\ tr[c.t].right[1] = rc.t
    BY <1>2, <1>12
  <2>2. StraightIn(tr, lc.t, Taken(c))
    <3>1. CASE InOneStage(lc)
      BY <1>8, <1>10, <1>14, <3>1, StraightKept
    <3>2. CASE ChainCall(lc)
      BY <3>2 DEF ChainCall, StraightIn
    <3> QED
      BY <1>3, <3>1, <3>2
  <2>3. StraightIn(tr, rc.t, Taken(c))
    <3>1. CASE InOneStage(rc)
      BY <1>9, <1>10, <1>14, <3>1, StraightKept
    <3>2. CASE ChainCall(rc)
      BY <3>2 DEF ChainCall, StraightIn
    <3> QED
      BY <1>3, <3>1, <3>2
  <2> QED
    BY <2>1, <2>2, <2>3 DEF Sides
<1> QED
  BY <1>10, <1>15, <1>16, <1>17 DEF tr

\* By induction over the calls.
LEMMA PipesAreStraight ==
    ASSUME tokens \in Lines, NEW c \in Calls
    PROVE  SidesCall(c)
<1> DEFINE G == {d \in Calls : SidesCall(d)}
<1>1. ASSUME NEW d \in Calls, Deeper(d) \subseteq G PROVE d \in G
  <2> SUFFICES ASSUME Fresh(d.tree, d.used), M[d].node # NULL,
                      ChainCall(d) \/ RootCall(d), Whole(d)
               PROVE  \A n \in Taken(d) : Sides(M[d].tree, n, Taken(d))
    BY DEF SidesCall
  <2>1. ~Idle(d)
    BY MadeIsComplete
  <2>2. SidesCall(LeftCall(d)) /\ SidesCall(RightCall(M, d))
    BY <1>1, <2>1, CallsOf
  <2> QED
    BY <2>2, PipeIsStraight
<1>2. \A d \in Calls : d \in G
  <2> HIDE DEF G
  <2> QED
    BY <1>1, CallInduction
<1> QED
  BY <1>2

\* So the tree of a line has each simple stage as it was meant to be.
LEMMA BuiltIsStraight ==
    ASSUME tokens \in Lines, NEW st \in 0..255, Built(st).node # NULL
    PROVE  /\ \A n \in Places : Sides(Built(st).tree, n, Places)
           /\ StraightIn(Built(st).tree, Built(st).node[1], Places)
<1> DEFINE c == BuiltCall(st)
           tr == M[c].tree
           t == FindInitialRoot
<1>1. /\ c \in Calls /\ Built(st) = M[c] /\ c.tree = BlankTree /\ c.used = {}
      /\ Fresh(c.tree, c.used) /\ c.t = t /\ c.f = 1 /\ c.e = Eof
  BY BuiltCallIs
<1>2. t \in Places /\ \A k \in Places : tokens[k] = "|" => tokens[t] = "|" /\ k <= t
  BY FindInitialRootIs
<1>3. /\ Len(tokens) \in Nat \ {0} /\ Eof = Len(tokens) + 1 /\ Places = 1..Len(tokens)
  BY LineFacts DEF Eof, Places
<1> HIDE DEF c
<1>4. Whole(c)
  BY <1>1 DEF Whole
<1>5. M[c].node # NULL
  BY <1>1
<1>6. M[c].node = <<t>> /\ M[c].node[1] = t /\ ~Idle(c)
  BY <1>1, <1>5, MadeIsComplete
<1>7. Taken(c) \subseteq Places
  <2>1. M[c] \in Results
    BY <1>1, MkeYggdrasilIs DEF M
  <2> QED
    BY <2>1 DEF Taken, Results
<1>8. CASE tokens[t] = "|"
  <2>1. RootCall(c)
    BY <1>1, <1>2, <1>8 DEF RootCall, LastPipe
  <2>2. \A n \in Taken(c) : Sides(tr, n, Taken(c))
    BY <1>1, <1>4, <1>5, <2>1, PipesAreStraight DEF SidesCall
  <2>3. ASSUME NEW n \in Places, n \notin Taken(c) PROVE Sides(tr, n, Places)
    <3>1. TidyCall(c)
      BY <1>1, MkeIsTidy
    <3>2. tr[n] = Blank
      BY <1>1, <2>3, <3>1 DEF TidyCall, BlankTree
    <3>3. tr[n].left = NULL
      BY <3>2 DEF Blank
    <3> HIDE DEF tr
    <3> QED
      BY <3>3 DEF Sides
  <2>4. ASSUME NEW n \in Taken(c) PROVE Sides(tr, n, Places)
    <3>1. Sides(tr, n, Taken(c))
      BY <2>2
    <3> HIDE DEF tr
    <3> QED
      BY <1>7, <3>1, SidesKept
  <2>5. StraightIn(tr, t, Places)
    BY <1>8 DEF StraightIn
  <2> QED
    BY <1>1, <1>6, <2>3, <2>4, <2>5
<1>9. CASE tokens[t] # "|"
  <2>1. \A k \in Places : tokens[k] # "|"
    BY <1>2, <1>9
  <2>2. InOneStage(c)
    <3>1. 1 <= t /\ t < Eof /\ 1 \in Places /\ \A k \in (1 + 1)..(Eof - 1) : k \in Places
      BY <1>2, <1>3
    <3> HIDE DEF t
    <3> QED
      BY <1>1, <1>9, <2>1, <3>1 DEF InOneStage
  <2>3. InStage(Stage(t)) = Places
    <3>1. Covers(c, Stage(t))
      BY <1>1, <1>4, <1>6, <2>2, WholeCovers
    <3>2. Places = 1..(Eof - 1)
      BY <1>3
    <3>3. InStage(Stage(t)) \subseteq Places
      BY DEF InStage
    <3> QED
      BY <1>1, <3>1, <3>2, <3>3 DEF Covers
  <2>4. Simple(Stage(t)) => Chosen(t, Stage(t))
    <3>1. PipesBefore(t) \in Nat
      BY PipesBeforeIs
    <3>2. Stage(t) \in Nat
      BY <3>1 DEF Stage
    <3> QED
      BY <2>1, <2>3, <3>2, ChosenRoot
  <2>5. StraightIn(tr, t, Taken(c))
    BY <1>1, <1>4, <1>5, <2>2, <2>4, StraightCall
  <2>6. StraightIn(tr, t, Places)
    <3> HIDE DEF tr
    <3> QED
      BY <1>7, <2>5, StraightKept
  <2>7. \A n \in Places : Sides(tr, n, Places)
    BY <2>1 DEF Sides
  <2> QED
    BY <1>1, <1>6, <2>6, <2>7
<1> QED
  BY <1>8, <1>9

-----------------------------------------------------------------------------
(***************************************************************************)
(* The walk over a simple stage.                                           *)
(***************************************************************************)
\* What SimpleStages says of one job.
Meant(j, s) == Simple(s) =>
    /\ Set(j.redirs) = Redirections(s) /\ Increasing(j.redirs)
    /\ Set(j.cmd) = PlainWords(s) /\ Increasing(j.cmd)
\* The collector is at the command, or has it.
AtCommand(c, m) == (c.at = <<m>> /\ c.cmd = NULL) \/ (c.at = NULL /\ c.cmd = <<m>>)
\* What it has collected of a simple stage whose node is n.
OnPath(c, n, s) ==
    \/ c.at = <<n>> /\ c.nodes = <<>> /\ c.cmd = NULL
    \/ Redirections(s) = {n} /\ c.nodes = <<n>> /\ AtCommand(c, Command(s))
    \/ \E r : /\ Redirections(s) = {r, n} /\ r < n
              /\ \/ c.at = <<r>> /\ c.nodes = <<n>> /\ c.cmd = NULL
                 \/ c.nodes = <<n, r>> /\ AtCommand(c, Command(s))

\* The words of a command that has its arguments.
LEMMA MeantWords ==
    ASSUME TypeOK, NEW s \in Nat, HasCommand(s), ArgsAre(tree, s)
    PROVE  /\ Set(Words(<<Command(s)>>)) = PlainWords(s) /\ Increasing(Words(<<Command(s)>>))
           /\ Command(s) \in Places /\ tokens[Command(s)] = "cmd"
<1> DEFINE m == Command(s)
           a == tree[m].args
           w == <<m>> \o a
<1>1. tokens \in Lines /\ tree \in [Places -> Node]
  BY DEF TypeOK
<1>2. /\ m \in PlainWords(s) /\ tokens[m] = "cmd" /\ m \in Nat /\ m \in Places
      /\ \A j \in PlainWords(s) : m <= j /\ j \in Nat
  BY <1>1, StageParts, OfStage
<1>3. a \in Seq(Places)
  BY <1>1, <1>2 DEF Node
<1>4. Set(a) = PlainWords(s) \ {m} /\ Increasing(a)
  BY DEF ArgsAre
<1>5. Words(<<m>>) = w
  <2>1. <<m>> # NULL /\ <<m>>[1] = m
    BY DEF NULL
  <2> QED
    BY <2>1 DEF Words
<1> HIDE DEF m, a
<1>6. /\ w \in Seq(Places) /\ Len(w) = Len(a) + 1 /\ w[1] = m /\ Len(a) \in Nat
      /\ \A i \in 2..(Len(a) + 1) : w[i] = a[i - 1]
  BY <1>2, <1>3, Prepended
<1>7. Set(w) = PlainWords(s)
  <2>1. <<m>> \in Seq(Places)
    BY <1>2
  <2>2. Set(w) = Set(<<m>>) \cup Set(a)
    BY <1>3, <2>1, SetOfConcat
  <2> QED
    BY <1>2, <1>4, <2>2, SetOfOne
<1>8. DOMAIN w = 1..(Len(a) + 1) /\ DOMAIN a = 1..Len(a)
  BY <1>3, <1>6
<1> HIDE DEF w
<1>9. ASSUME NEW i \in 1..(Len(a) + 1), NEW j \in 1..(Len(a) + 1), i < j PROVE w[i] < w[j]
  <2>1. j \in 2..(Len(a) + 1) /\ j - 1 \in 1..Len(a)
    BY <1>6, <1>9
  <2>2. w[j] = a[j - 1] /\ a[j - 1] \in PlainWords(s) \ {m}
    BY <1>4, <1>6, <1>8, <2>1 DEF Set
  <2>3. CASE i = 1
    <3>1. m <= w[j] /\ w[j] # m /\ w[j] \in Nat
      BY <1>2, <2>2
    <3> QED
      BY <1>2, <1>6, <2>3, <3>1
  <2>4. CASE i # 1
    <3>1. i \in 2..(Len(a) + 1) /\ i - 1 \in 1..Len(a) /\ i - 1 < j - 1
      BY <1>6, <1>9, <2>4
    <3>2. a[i - 1] < a[j - 1]
      BY <1>4, <1>8, <2>1, <3>1 DEF Increasing
    <3> QED
      BY <1>6, <2>2, <3>1, <3>2
  <2> QED
    BY <2>3, <2>4
<1>10. Increasing(w)
  BY <1>8, <1>9 DEF Increasing
<1> QED
  BY <1>2, <1>5, <1>7, <1>10 DEF m

\* One redirection, turned around.
LEMMA OneBackwards ==
    ASSUME NEW n \in Nat
    PROVE  Set(Backwards(<<n>>)) = {n} /\ Increasing(Backwards(<<n>>))
<1> DEFINE q == <<n>>
           d == Backwards(q)
<1>1. q \in Seq(Nat) /\ Len(q) = 1 /\ DOMAIN q = 1..1
  OBVIOUS
<1>2. Set(q) = {n}
  BY SetOfOne
<1> HIDE DEF q
<1>3. d = [k \in 1..1 |-> q[(1 + 1) - k]]
  BY <1>1 DEF Backwards
<1>4. Set(d) = {n}
  BY <1>1, <1>2, BackwardsIs
<1>5. DOMAIN d = 1..1
  BY <1>3
<1> HIDE DEF d
<1>6. Increasing(d)
  <2>1. \A i \in 1..1 : \A j \in 1..1 : ~(i < j)
    OBVIOUS
  <2> QED
    BY <1>5, <2>1 DEF Increasing
<1> QED
  BY <1>4, <1>6 DEF d, q

\* Two redirections, turned around.
LEMMA TwoBackwards ==
    ASSUME NEW n \in Nat, NEW r \in Nat, r < n
    PROVE  Set(Backwards(<<n, r>>)) = {r, n} /\ Increasing(Backwards(<<n, r>>))
<1> DEFINE p == <<n, r>>
           b == Backwards(p)
<1>1. p \in Seq(Nat) /\ Len(p) = 2 /\ DOMAIN p = 1..2 /\ p[1] = n /\ p[2] = r
  OBVIOUS
<1>2. Set(p) = {r, n}
  <2>1. Set(p) = {p[i] : i \in 1..2}
    BY <1>1 DEF Set
  <2>2. \A i \in 1..2 : i = 1 \/ i = 2
    OBVIOUS
  <2>3. 1 \in 1..2 /\ 2 \in 1..2
    OBVIOUS
  <2> HIDE DEF p
  <2> QED
    BY <1>1, <2>1, <2>2, <2>3
<1> HIDE DEF p
<1>3. b = [k \in 1..2 |-> p[(2 + 1) - k]]
  BY <1>1 DEF Backwards
<1>4. Set(b) = {r, n}
  BY <1>1, <1>2, BackwardsIs
<1>5. DOMAIN b = 1..2 /\ b[1] = r /\ b[2] = n
  BY <1>1, <1>3
<1> HIDE DEF b
<1>6. Increasing(b)
  <2>1. \A i \in 1..2 : \A j \in 1..2 : i < j => i = 1 /\ j = 2
    OBVIOUS
  <2> QED
    BY <1>5, <2>1 DEF Increasing
<1> QED
  BY <1>4, <1>6 DEF b, p

\* The job of a chain that was collected to its end.
LEMMA MeantJob ==
    ASSUME TypeOK, NEW s \in Nat, HasCommand(s), ArgsAre(tree, s), NEW c, c.cmd = <<Command(s)>>,
           \/ Redirections(s) = {} /\ c.nodes = <<>>
           \/ \E n : Redirections(s) = {n} /\ c.nodes = <<n>>
           \/ \E n, r : Redirections(s) = {r, n} /\ r < n /\ c.nodes = <<n, r>>
    PROVE  Meant(Job(c), s)
<1> DEFINE x == Backwards(c.nodes)
           y == Words(c.cmd)
<1>1. Job(c).redirs = x /\ Job(c).cmd = y
  BY DEF Job
<1>2. Set(y) = PlainWords(s) /\ Increasing(y)
  BY MeantWords
<1>3. Redirections(s) \subseteq Nat
  BY StageParts DEF TypeOK
<1>4. Set(x) = Redirections(s) /\ Increasing(x)
  <2>1. CASE Redirections(s) = {} /\ c.nodes = <<>>
    <3>1. DOMAIN x = {}
      BY <2>1 DEF Backwards
    <3> QED
      BY <2>1, <3>1 DEF Set, Increasing
  <2>2. ASSUME NEW n, Redirections(s) = {n}, c.nodes = <<n>> PROVE Set(x) = Redirections(s) /\ Increasing(x)
    <3>1. n \in Nat
      BY <1>3, <2>2
    <3>2. Set(Backwards(<<n>>)) = {n} /\ Increasing(Backwards(<<n>>))
      BY <3>1, OneBackwards
    <3> QED
      BY <2>2, <3>2
  <2>3. ASSUME NEW n, NEW r, Redirections(s) = {r, n}, r < n, c.nodes = <<n, r>>
        PROVE  Set(x) = Redirections(s) /\ Increasing(x)
    <3>1. n \in Nat /\ r \in Nat
      BY <1>3, <2>3
    <3>2. Set(Backwards(<<n, r>>)) = {r, n} /\ Increasing(Backwards(<<n, r>>))
      BY <2>3, <3>1, TwoBackwards
    <3> QED
      BY <2>3, <3>2
  <2> HIDE DEF x
  <2> QED
    BY <2>1, <2>2, <2>3
<1> QED
  BY <1>1, <1>2, <1>4 DEF Meant

\* A command alone.
LEMMA PathOfCommand ==
    ASSUME TypeOK, NEW s \in Nat, HasCommand(s), NEW n, StageTree(tree, n, s), tokens[n] \notin Redirs
    PROVE  Meant(Job([ChainFrom(NULL) EXCEPT !.cmd = <<n>>]), s)
<1> DEFINE c == [ChainFrom(NULL) EXCEPT !.cmd = <<n>>]
<1>1. n \notin Redirections(s)
  BY DEF Redirections
<1>2. Redirections(s) = {} /\ n = Command(s) /\ ArgsAre(tree, s)
  BY <1>1 DEF StageTree
<1>3. c.cmd = <<Command(s)>> /\ c.nodes = <<>>
  BY <1>2 DEF ChainFrom
<1> HIDE DEF c
<1> QED
  BY <1>2, <1>3, MeantJob DEF c

\* An output above an input that has a command on its left.
LEMMA PathOfComplex ==
    ASSUME TypeOK, NEW s \in Nat, HasCommand(s), NEW n, StageTree(tree, n, s), IsComplex(<<n>>)
    PROVE  Meant(Job(ComplexPattern(<<n>>)), s)
<1> DEFINE m == Command(s)
           c == ComplexPattern(<<n>>)
<1>1. tokens[m] = "cmd" /\ "cmd" \notin Inputs /\ "none" \notin Inputs /\ "none" # "cmd"
  BY StageParts DEF TypeOK, Inputs
<1>2. tokens[n] \in Outputs /\ Outputs \subseteq Redirs
  BY KindsAre DEF IsComplex, Kind, NULL
<1>3. Kind(<<m>>) = "cmd" /\ Kind(NULL) = "none" /\ <<m>> # NULL /\ <<m>>[1] = m /\ <<n>>[1] = n
  BY <1>1 DEF Kind, NULL
<1> HIDE DEF m
<1>4. Left(<<n>>) = tree[n].left /\ Kind(Left(<<n>>)) \in Inputs
  BY <1>3 DEF Left, IsComplex
<1>5. ~Hangs(tree, n, m)
  BY <1>1, <1>3, <1>4 DEF Hangs
<1>6. tokens[m] \notin Redirs
  BY <1>1 DEF Redirs
<1>7. ~(Redirections(s) = {} /\ n = m)
  BY <1>2, <1>6
<1>8. PICK r : /\ Redirections(s) = {r, n} /\ r < n
               /\ tree[n].left = <<r>> /\ Hangs(tree, r, m)
  BY <1>5, <1>7 DEF StageTree, m
<1>9. Left(<<n>>) = <<r>> /\ Left(<<r>>) = tree[r].left /\ Right(<<r>>) = tree[r].right
  BY <1>4, <1>8 DEF Left, Right
<1>10. tree[r].left = <<m>> /\ tree[r].right = NULL
  <2>1. ~(tree[r].left = NULL /\ tree[r].right = <<m>>)
    BY <1>1, <1>3, <1>9 DEF IsComplex
  <2> QED
    BY <1>8, <2>1 DEF Hangs
<1>11. c.nodes = <<n>> \o NULL \o <<r>> /\ c.cmd = <<m>>
  BY <1>1, <1>3, <1>9, <1>10 DEF ComplexPattern
<1>12. c.nodes = <<n, r>>
  BY <1>11 DEF NULL
<1>13. ArgsAre(tree, s)
  BY DEF StageTree
<1> HIDE DEF c
<1> QED
  BY <1>8, <1>11, <1>12, <1>13, MeantJob DEF c, m

\* Behind a redirection that has the command as its child comes the command.
LEMMA AdvanceToCommand ==
    ASSUME NEW r, NEW m, Hangs(tree, r, m), tokens[m] = "cmd"
    PROVE  Advance(<<r>>) = <<m>>
<1>1. <<m>> # NULL /\ <<m>>[1] = m /\ <<r>>[1] = r
  BY DEF NULL
<1>2. Left(<<r>>) = tree[r].left /\ Right(<<r>>) = tree[r].right
  BY <1>1 DEF Left, Right
<1>3. Kind(<<m>>) = "cmd"
  BY <1>1 DEF Kind
<1> QED
  BY <1>1, <1>2, <1>3 DEF Advance, Hangs

\* The step of the collector that ends at the command or takes it.
LEMMA AtCommandStep ==
    ASSUME NEW m, tokens[m] = "cmd", NEW c \in Chain, AtCommand(c, m), c.at # NULL, NEW d,
           d = IF Kind(c.at) \in Redirs
               THEN [c EXCEPT !.nodes = @ \o c.at, !.at = Advance(c.at)]
               ELSE IF Kind(c.at) = "cmd" THEN [c EXCEPT !.cmd = c.at, !.at = NULL]
               ELSE [c EXCEPT !.at = NULL]
    PROVE  AtCommand(d, m) /\ d.nodes = c.nodes
<1>1. <<m>> # NULL /\ <<m>>[1] = m
  BY DEF NULL
<1>2. c.at = <<m>> /\ c.cmd = NULL
  BY DEF AtCommand
<1>3. Kind(c.at) = "cmd" /\ "cmd" \notin Redirs
  BY <1>1, <1>2 DEF Kind, Redirs
<1>4. d = [c EXCEPT !.cmd = c.at, !.at = NULL]
  BY <1>3
<1>5. d.cmd = c.at /\ d.at = NULL /\ d.nodes = c.nodes
  BY <1>4 DEF Chain
<1> QED
  BY <1>2, <1>5 DEF AtCommand

\* Two nodes that are collected one after the other.
LEMMA TwoCollected ==
    ASSUME NEW n \in Nat, NEW r \in Nat
    PROVE  <<n>> \o <<r>> = <<n, r>>
<1> DEFINE a == <<r>>
           v == <<n>> \o a
           w == <<n, r>>
<1>1. a \in Seq(Nat) /\ Len(a) = 1 /\ a[1] = r
  OBVIOUS
<1>2. w \in Seq(Nat) /\ Len(w) = 2 /\ w[1] = n /\ w[2] = r
  OBVIOUS
<1> HIDE DEF a, w
<1>3. v \in Seq(Nat) /\ Len(v) = Len(a) + 1 /\ v[1] = n /\ \A i \in 2..(Len(a) + 1) : v[i] = a[i - 1]
  BY <1>1, Prepended
<1> HIDE DEF v
<1>4. v[2] = r /\ Len(v) = 2
  <2>1. 2 \in 2..(Len(a) + 1) /\ 2 - 1 = 1 /\ Len(a) + 1 = 2
    BY <1>1
  <2>2. v[2] = a[2 - 1]
    BY <1>3, <2>1
  <2> QED
    BY <1>1, <1>3, <2>1, <2>2
<1>5. \A i \in 1..2 : i = 1 \/ i = 2
  OBVIOUS
<1>6. v = w
  BY <1>2, <1>3, <1>4, <1>5, SeqEqual
<1> QED
  BY <1>6 DEF v, w, a

\* A step of process_node_in_linear_chain within a simple stage.
LEMMA PathStep ==
    ASSUME TypeOK, NEW s \in Nat, HasCommand(s), NEW n, StageTree(tree, n, s), tokens[n] \in Redirs,
           NEW c \in Chain, OnPath(c, n, s), c.at # NULL, NEW d,
           d = IF Kind(c.at) \in Redirs
               THEN [c EXCEPT !.nodes = @ \o c.at, !.at = Advance(c.at)]
               ELSE IF Kind(c.at) = "cmd" THEN [c EXCEPT !.cmd = c.at, !.at = NULL]
               ELSE [c EXCEPT !.at = NULL]
    PROVE  OnPath(d, n, s)
<1> DEFINE m == Command(s)
<1>1. tokens[m] = "cmd" /\ tokens[m] \notin Redirs
  <2>1. tokens[m] = "cmd"
    BY StageParts DEF TypeOK
  <2> QED
    BY <2>1 DEF Redirs
<1>2. Redirections(s) \subseteq Nat /\ \A r \in Redirections(s) : tokens[r] \in Redirs
  BY StageParts DEF TypeOK
<1> HIDE DEF m
<1>3. \/ Redirections(s) = {n} /\ Hangs(tree, n, m)
      \/ \E r : /\ Redirections(s) = {r, n} /\ r < n
                /\ tree[n].left = <<r>> /\ Hangs(tree, r, m)
  BY <1>1 DEF StageTree, m
<1>4. ASSUME NEW j, c.at = <<j>>, tokens[j] \in Redirs
      PROVE  d.at = Advance(<<j>>) /\ d.nodes = c.nodes \o <<j>> /\ d.cmd = c.cmd
  <2>1. <<j>> # NULL /\ <<j>>[1] = j
    BY DEF NULL
  <2>2. Kind(c.at) \in Redirs
    BY <1>4, <2>1 DEF Kind
  <2>3. d = [c EXCEPT !.nodes = @ \o c.at, !.at = Advance(c.at)]
    BY <2>2
  <2>4. d.at = Advance(c.at) /\ d.nodes = c.nodes \o c.at /\ d.cmd = c.cmd
    BY <2>3 DEF Chain
  <2> QED
    BY <1>4, <2>4
<1>5. CASE c.at = <<n>> /\ c.nodes = <<>> /\ c.cmd = NULL
  <2>1. d.at = Advance(<<n>>) /\ d.nodes = <<n>> /\ d.cmd = NULL
    BY <1>4, <1>5
  <2>2. CASE Redirections(s) = {n} /\ Hangs(tree, n, m)
    <3>1. Advance(<<n>>) = <<m>>
      BY <1>1, <2>2, AdvanceToCommand
    <3> QED
      BY <2>1, <2>2, <3>1 DEF OnPath, AtCommand, m
  <2>3. ASSUME NEW r, Redirections(s) = {r, n}, r < n, tree[n].left = <<r>> PROVE OnPath(d, n, s)
    <3>1. <<r>> # NULL /\ Left(<<n>>) = tree[n].left
      BY DEF NULL, Left
    <3>2. Advance(<<n>>) = <<r>>
      BY <2>3, <3>1 DEF Advance
    <3> QED
      BY <2>1, <2>3, <3>2 DEF OnPath
  <2> QED
    BY <1>3, <2>2, <2>3
<1>6. CASE Redirections(s) = {n} /\ c.nodes = <<n>> /\ AtCommand(c, m)
  <2>1. AtCommand(d, m) /\ d.nodes = c.nodes
    BY <1>1, <1>6, AtCommandStep
  <2> QED
    BY <1>6, <2>1 DEF OnPath, m
<1>7. ASSUME NEW r, Redirections(s) = {r, n}, r < n, c.nodes = <<n, r>>, AtCommand(c, m)
      PROVE  OnPath(d, n, s)
  <2>1. AtCommand(d, m) /\ d.nodes = c.nodes
    BY <1>1, <1>7, AtCommandStep
  <2> QED
    BY <1>7, <2>1 DEF OnPath, m
<1>8. ASSUME NEW r, Redirections(s) = {r, n}, r < n, c.at = <<r>>, c.nodes = <<n>>, c.cmd = NULL
      PROVE  OnPath(d, n, s)
  <2>1. Hangs(tree, r, m)
    <3>1. r \in Nat /\ n \in Nat
      BY <1>2, <1>8
    <3>2. Redirections(s) # {n}
      BY <1>8, <3>1
    <3>3. \A q : Redirections(s) = {q, n} /\ q < n => q = r
      <4> SUFFICES ASSUME NEW q, {r, n} = {q, n}, q < n PROVE q = r
        BY <1>8
      <4>1. q \in {r, n}
        OBVIOUS
      <4>2. ~(n < n)
        BY <3>1
      <4> QED
        BY <4>1, <4>2
    <3> QED
      BY <1>3, <3>2, <3>3
  <2>2. tokens[r] \in Redirs
    BY <1>2, <1>8
  <2>3. d.at = <<m>> /\ d.nodes = <<n>> \o <<r>> /\ d.cmd = NULL
    BY <1>1, <1>4, <1>8, <2>1, <2>2, AdvanceToCommand
  <2>4. n \in Nat /\ r \in Nat
    BY <1>2, <1>8
  <2>5. <<n>> \o <<r>> = <<n, r>>
    BY <2>4, TwoCollected
  <2> QED
    BY <1>8, <2>3, <2>5 DEF OnPath, AtCommand, m
<1> QED
  BY <1>5, <1>6, <1>7, <1>8 DEF OnPath, m

\* The chain of a simple stage that was collected to its end.
LEMMA PathEnds ==
    ASSUME TypeOK, NEW s \in Nat, HasCommand(s), ArgsAre(tree, s), NEW n,
           NEW c \in Chain, OnPath(c, n, s), c.at = NULL
    PROVE  Meant(Job(c), s)
<1>1. \A j : <<j>> # NULL
  BY DEF NULL
<1>2. /\ c.cmd = <<Command(s)>>
      /\ \/ Redirections(s) = {n} /\ c.nodes = <<n>>
         \/ \E r : Redirections(s) = {r, n} /\ r < n /\ c.nodes = <<n, r>>
  BY <1>1 DEF OnPath, AtCommand
<1> QED
  BY <1>2, MeantJob

-----------------------------------------------------------------------------
(***************************************************************************)
(* Simple stages during the walk.                                          *)
(***************************************************************************)
\* A node of stage s is what the stage was meant to be.  The parts that are left of
\* the walk are, and so is what the sides of a pipe will add to them.
StraightAt(tr, n, s) == tokens[n] # "|" /\ Stage(n) = s /\ Simple(s) => StageTree(tr, n, s)
StraightWalk(tr, q) == \A s :
    /\ \A n \in Places : tokens[n] = "|" /\ tr[n].left # NULL =>
           StraightAt(tr, tr[n].left[1], s) /\ StraightAt(tr, tr[n].right[1], s)
    /\ \A i \in DOMAIN q : StraightAt(tr, q[i][1], s)
\* A chain that was begun at a redirection is on its way.
ChainOnPath(c, n, s) == tokens[n] \in Redirs /\ (Simple(s) => OnPath(c, n, s))

SidesInv == Walking => StraightWalk(tree, todo)
PathInv  == pc = "chain" => ChainOnPath(chain, Head(todo)[1], Len(jobs) + 1)
SimpleInv == SidesInv /\ PathInv /\ SimpleStages

\* What a stage is made of does not change while the line does not.
LEMMA SameStages ==
    ASSUME tokens' = tokens
    PROVE  /\ \A s : /\ Redirections(s)' = Redirections(s) /\ PlainWords(s)' = PlainWords(s)
                     /\ Command(s)' = Command(s) /\ Simple(s)' = Simple(s)
           /\ \A j, s : Meant(j, s)' = Meant(j, s)
           /\ \A c, n, s : OnPath(c, n, s)' = OnPath(c, n, s)
           /\ \A tr, n, s : StraightAt(tr, n, s)' = StraightAt(tr, n, s)
<1>1. \A s : InStage(s)' = InStage(s)
  BY SameLine
<1>2. \A s : Redirections(s)' = Redirections(s)
  BY <1>1 DEF Redirections
<1>3. \A s : Names(s)' = Names(s)
  BY <1>1, <1>2 DEF Names
<1>4. \A s : PlainWords(s)' = PlainWords(s)
  BY <1>1, <1>2, <1>3 DEF PlainWords
<1>5. \A s : Command(s)' = Command(s)
  BY <1>4 DEF Command, MinOf
<1>6. \A s : Plain(s)' = Plain(s)
  BY <1>1, <1>2, <1>4 DEF Plain, MinOf
<1>7. PipesBefore(Eof)' = PipesBefore(Eof)
  BY SameLine DEF PipesBefore
<1>8. \A s : Simple(s)' = Simple(s)
  BY <1>2, <1>4, <1>6, <1>7 DEF Simple, MinOf
<1>9. \A j, s : Meant(j, s)' = Meant(j, s)
  BY <1>2, <1>4, <1>8 DEF Meant
<1>10. \A c, n, s : OnPath(c, n, s)' = OnPath(c, n, s)
  BY <1>2, <1>5 DEF OnPath, AtCommand
<1>11. \A tr, s : ArgsAre(tr, s)' = ArgsAre(tr, s)
  BY <1>4, <1>5 DEF ArgsAre, Command, MinOf
<1>12. \A tr, n, s : StageTree(tr, n, s)' = StageTree(tr, n, s)
  BY <1>2, <1>5, <1>11 DEF StageTree, Hangs
<1>13. \A tr, n, s : StraightAt(tr, n, s)' = StraightAt(tr, n, s)
  BY <1>8, <1>12, SameLine DEF StraightAt
<1> QED
  BY <1>2, <1>4, <1>5, <1>8, <1>9, <1>10, <1>13

\* The parts that are left are still what they were meant to be after a step that
\* leaves the line as it is.
LEMMA SameSides ==
    ASSUME tokens' = tokens, NEW tr, NEW q, tree' = tr, todo' = q, StraightWalk(tr, q)
    PROVE  SidesInv'
<1>1. \A n, s : StraightAt(tr, n, s)' = StraightAt(tr, n, s)
  BY SameStages
<1>2. StraightWalk(tr, q)'
  BY <1>1, SameLine DEF StraightWalk, StraightAt
<1>3. StraightWalk(tree, todo)' <=> StraightWalk(tr, q)'
  BY DEF StraightWalk, StraightAt, StageTree, ArgsAre, Hangs
<1> QED
  BY <1>2, <1>3 DEF SidesInv
\* So is a chain on its path.
LEMMA SamePath ==
    ASSUME tokens' = tokens, NEW c, NEW n, NEW s, chain' = c, Head(todo')[1] = n, Len(jobs') + 1 = s,
           ChainOnPath(c, n, s)
    PROVE  PathInv'
<1>1. ChainOnPath(c, n, s)'
  BY SameStages DEF ChainOnPath
<1>2. ChainOnPath(chain, Head(todo)[1], Len(jobs) + 1)' <=> ChainOnPath(c, n, s)'
  BY DEF ChainOnPath, OnPath, AtCommand
<1> QED
  BY <1>1, <1>2 DEF PathInv
\* And the jobs are still what they were meant to be.
LEMMA SameJobs ==
    ASSUME tokens' = tokens, NEW q, jobs' = q, \A s \in DOMAIN q : Meant(q[s], s)
    PROVE  SimpleStages'
<1>1. \A s \in DOMAIN q : Meant(q[s], s)'
  BY SameStages
<1> QED
  BY <1>1 DEF SimpleStages, Meant, Set, Increasing

\* The part that is next, if its stage is simple.
LEMMA SimpleHead ==
    ASSUME IInv, SidesInv, Walking, todo # <<>>, Kind(Head(todo)) # "|", Simple(Len(jobs) + 1)
    PROVE  /\ Head(todo) = <<Head(todo)[1]>> /\ Kind(Head(todo)) = tokens[Head(todo)[1]]
           /\ HasCommand(Len(jobs) + 1) /\ Len(jobs) + 1 \in Nat
           /\ StageTree(tree, Head(todo)[1], Len(jobs) + 1)
<1> DEFINE p == Head(todo)
           s == Len(jobs) + 1
<1>1. /\ p \in Pointer /\ p # NULL /\ tokens[p[1]] = Kind(p) /\ Set(p) \subseteq InStage(s)
      /\ todo \in Seq(Pointer) /\ Len(jobs) \in Nat
  BY NextPart
<1>2. TypeOK /\ tokens \in Lines /\ StraightWalk(tree, todo)
  BY DEF IInv, TypeOK, SidesInv
<1>3. s \in Nat /\ p = todo[1] /\ 1 \in DOMAIN todo
  BY <1>1
<1>4. HasCommand(s)
  BY DEF Simple, HasCommand
<1> HIDE DEF p, s
<1>5. p = <<p[1]>>
  BY <1>1 DEF Pointer, NULL
<1>6. p[1] \in InStage(s)
  <2>1. p[1] \in Set(<<p[1]>>)
    BY SetOfOne
  <2> QED
    BY <1>1, <1>5, <2>1
<1>7. Stage(p[1]) = s
  BY <1>2, <1>3, <1>6, OfStage
<1>8. StraightAt(tree, p[1], s)
  BY <1>2, <1>3 DEF StraightWalk
<1>9. StageTree(tree, p[1], s)
  <2>1. tokens[p[1]] # "|"
    BY <1>1 DEF p
  <2> QED
    BY <1>7, <1>8, <2>1 DEF StraightAt, s
<1> QED
  BY <1>1, <1>3, <1>4, <1>5, <1>9 DEF p, s

\* When the part has run, the others are left.
LEMMA SidesOfTail ==
    ASSUME NEW tr, NEW S, NEW q \in Seq(S), q # <<>>, StraightWalk(tr, q)
    PROVE  StraightWalk(tr, Tail(q))
<1>1. \A i \in DOMAIN Tail(q) : i + 1 \in DOMAIN q /\ Tail(q)[i] = q[i + 1]
  OBVIOUS
<1> QED
  BY <1>1 DEF StraightWalk

\* A job that is what its stage was meant to be.
LEMMA JobsKeepMeaning ==
    ASSUME SimpleStages, NEW S, jobs \in Seq(S), tokens' = tokens, NEW c, RunsNext(c),
           Meant(Job(c), Len(jobs) + 1)
    PROVE  SimpleStages'
<1> DEFINE q == Append(jobs, Job(c))
           j == Job(c)
<1>1. jobs' = q
  BY DEF RunsNext
<1>2. \A s \in DOMAIN jobs : Meant(jobs[s], s)
  BY DEF SimpleStages, Meant
<1> HIDE DEF j
<1>3. /\ DOMAIN q = 1..(Len(jobs) + 1) /\ q[Len(jobs) + 1] = j
      /\ \A s \in 1..Len(jobs) : q[s] = jobs[s]
  BY DEF j
<1>4. \A s \in 1..(Len(jobs) + 1) : s = Len(jobs) + 1 \/ s \in 1..Len(jobs)
  OBVIOUS
<1>5. DOMAIN jobs = 1..Len(jobs)
  OBVIOUS
<1> HIDE DEF q
<1>6. \A s \in DOMAIN q : Meant(q[s], s)
  BY <1>2, <1>3, <1>4, <1>5 DEF j
<1> QED
  BY <1>1, <1>6, SameJobs

\* A step that runs a stage.
LEMMA RunsSimple ==
    ASSUME IInv, SimpleInv, Walking, todo # <<>>, pc' = "run", tokens' = tokens, tree' = tree,
           NEW c, RunsNext(c), Meant(Job(c), Len(jobs) + 1)
    PROVE  SimpleInv'
<1>1. /\ todo \in Seq(Pointer) /\ StraightWalk(tree, todo) /\ SimpleStages
      /\ jobs \in Seq([redirs : Seq(Places), cmd : Seq(Places)])
  BY DEF IInv, TypeOK, SimpleInv, SidesInv
<1>2. SidesInv'
  <2> DEFINE q == Tail(todo)
             tr == tree
  <2>1. StraightWalk(tr, q) /\ todo' = q /\ tree' = tr
    BY <1>1, SidesOfTail DEF RunsNext
  <2> HIDE DEF q, tr
  <2> QED
    BY <2>1, SameSides
<1>3. SimpleStages'
  BY <1>1, JobsKeepMeaning
<1>4. PathInv'
  BY DEF PathInv
<1> QED
  BY <1>2, <1>3, <1>4 DEF SimpleInv

\* A step that runs none.
LEMMA KeepsJobs ==
    ASSUME SimpleStages, UNCHANGED <<tokens, jobs>>
    PROVE  SimpleStages'
<1> DEFINE q == jobs
<1>1. jobs' = q /\ \A s \in DOMAIN q : Meant(q[s], s)
  BY DEF SimpleStages, Meant
<1> HIDE DEF q
<1> QED
  BY <1>1, SameJobs
\* The same for the parts that are left.
LEMMA KeepsSides ==
    ASSUME SidesInv, Walking, UNCHANGED <<tokens, tree, todo>>
    PROVE  SidesInv'
<1> DEFINE q == todo
           tr == tree
<1>1. StraightWalk(tr, q) /\ todo' = q /\ tree' = tr
  BY DEF SidesInv
<1> HIDE DEF q, tr
<1> QED
  BY <1>1, SameSides

\* One sequence behind another.
LEMMA OneBehindAnother ==
    ASSUME NEW S, NEW a \in Seq(S), NEW b \in Seq(S)
    PROVE  /\ DOMAIN (a \o b) = 1..(Len(a) + Len(b)) /\ Len(a) \in Nat /\ Len(b) \in Nat
           /\ DOMAIN b = 1..Len(b)
           /\ \A i \in 1..Len(a) : (a \o b)[i] = a[i]
           /\ \A i \in (Len(a) + 1)..(Len(a) + Len(b)) : (a \o b)[i] = b[i - Len(a)]
OBVIOUS

\* The tree of a line has every simple stage as it was meant.
LEMMA InitYggdrasilSimple == IInv /\ SimpleInv /\ InitYggdrasil => SimpleInv'
<1> SUFFICES ASSUME IInv, SimpleInv, InitYggdrasil PROVE SimpleInv'
  OBVIOUS
<1> DEFINE b == Built(status)
           tr == b.tree
           p == b.node
<1>1. /\ root' = p /\ tree' = tr /\ tokens' = tokens /\ jobs' = jobs
      /\ IF root' = NULL THEN pc' = "refused" /\ todo' = todo
                         ELSE pc' = "run" /\ todo' = <<root'>>
  BY DEF InitYggdrasil
<1>2. TypeOK /\ SimpleStages
  BY DEF IInv, SimpleInv
<1>3. tokens \in Lines /\ status \in 0..255
  <2>1. 0 \in 0..255 /\ 1 \in 0..255 /\ 2 \in 0..255
    OBVIOUS
  <2> QED
    BY <1>2, <2>1 DEF TypeOK
<1>4. p # NULL => /\ \A n \in Places : Sides(tr, n, Places)
                  /\ StraightIn(tr, p[1], Places)
  BY <1>3, BuiltIsStraight
<1> HIDE DEF b, tr, p
<1>5. SimpleStages' /\ PathInv'
  <2>1. pc' # "chain"
    BY <1>1
  <2> QED
    BY <1>1, <1>2, <2>1, KeepsJobs DEF PathInv
<1>6. CASE p = NULL
  BY <1>1, <1>5, <1>6 DEF SimpleInv, SidesInv, Walking
<1>7. CASE p # NULL
  <2> DEFINE q == <<p>>
  <2>1. DOMAIN q = 1..1 /\ q[1] = p
    OBVIOUS
  <2>2. \A n, s : StraightIn(tr, n, Places) => StraightAt(tr, n, s)
    BY DEF StraightIn, StraightAt
  <2>3. todo' = q
    BY <1>1, <1>7
  <2> HIDE DEF q
  <2>4. StraightWalk(tr, q)
    <3>1. \A i \in DOMAIN q : i = 1
      BY <2>1
    <3> QED
      BY <1>4, <1>7, <2>1, <2>2, <3>1 DEF StraightWalk, Sides
  <2> QED
    BY <1>1, <1>5, <2>3, <2>4, SameSides DEF SimpleInv
<1> QED
  BY <1>6, <1>7

\* The two sides of a pipe are as they were meant, too.
LEMMA HandlePipeExecutionSimple == IInv /\ SimpleInv /\ HandlePipeExecution => SimpleInv'
<1> SUFFICES ASSUME IInv, SimpleInv, HandlePipeExecution PROVE SimpleInv'
  OBVIOUS
<1> DEFINE p == Head(todo)
           l == Left(p)
           r == Right(p)
           w == <<l, r>>
           q == w \o Tail(todo)
           tr == tree
<1>1. /\ pc = "run" /\ pc' = "run" /\ todo # <<>> /\ Kind(p) = "|"
      /\ NULL \notin {l, r} => todo' = q
      /\ tokens' = tokens /\ tree' = tr /\ jobs' = jobs
  BY DEF HandlePipeExecution
<1>2. Walking /\ TypeOK /\ SimpleStages /\ StraightWalk(tr, todo) /\ \A n \in Places : GoodNode(tree, n)
  BY <1>1 DEF Walking, IInv, GoodInv, SimpleInv, SidesInv
<1>3. /\ p # NULL /\ p \in Pointer /\ tokens[p[1]] = "|"
      /\ todo \in Seq(Pointer) /\ Len(jobs) \in Nat /\ Follows(tree, todo, Len(jobs))
  BY <1>1, <1>2, NextPart
<1>4. NULL \notin {l, r} /\ p[1] \in Places /\ l \in Pointer /\ r \in Pointer
  <2>1. NULL \notin {l, r}
    BY <1>1, <1>2, <1>3, FollowsSplit
  <2>2. p[1] \in Places /\ l \in Pointer /\ r \in Pointer
    BY <1>2, <1>3, PartsAre
  <2> QED
    BY <2>1, <2>2
<1>5. l = tr[p[1]].left /\ r = tr[p[1]].right
  BY DEF Left, Right
<1>6. todo' = q
  BY <1>1, <1>4
<1>7. StraightWalk(tr, Tail(todo)) /\ Tail(todo) \in Seq(Pointer)
  BY <1>1, <1>2, <1>3, SidesOfTail
<1>8. w \in Seq(Pointer) /\ Len(w) = 2 /\ w[1] = l /\ w[2] = r
  BY <1>4
<1> HIDE DEF p, l, r, w, tr
<1>9. ASSUME NEW s, NEW i \in DOMAIN q PROVE StraightAt(tr, q[i][1], s)
  <2> DEFINE a == Tail(todo)
  <2>1. q = w \o a /\ a \in Seq(Pointer)
    BY <1>7 DEF q
  <2>2. \A j \in DOMAIN a : StraightAt(tr, a[j][1], s)
    BY <1>7 DEF StraightWalk
  <2>3. StraightAt(tr, l[1], s) /\ StraightAt(tr, r[1], s)
    BY <1>2, <1>3, <1>4, <1>5 DEF StraightWalk
  <2>4. /\ DOMAIN q = 1..(2 + Len(a)) /\ Len(a) \in Nat /\ DOMAIN a = 1..Len(a)
        /\ \A j \in 1..2 : q[j] = w[j]
        /\ \A j \in (2 + 1)..(2 + Len(a)) : q[j] = a[j - 2]
    <3>1. /\ DOMAIN (w \o a) = 1..(Len(w) + Len(a)) /\ Len(w) \in Nat /\ Len(a) \in Nat
          /\ DOMAIN a = 1..Len(a)
          /\ \A j \in 1..Len(w) : (w \o a)[j] = w[j]
          /\ \A j \in (Len(w) + 1)..(Len(w) + Len(a)) : (w \o a)[j] = a[j - Len(w)]
      <4>1. w \in Seq(Pointer) /\ a \in Seq(Pointer)
        BY <1>8, <2>1
      <4> HIDE DEF a
      <4> QED
        BY <4>1, OneBehindAnother
    <3> HIDE DEF a, q
    <3> QED
      BY <1>8, <2>1, <3>1
  <2> HIDE DEF a, q
  <2>5. CASE i \in 1..2
    <3>1. q[i] = w[i] /\ (i = 1 \/ i = 2)
      BY <2>4, <2>5
    <3> QED
      BY <1>8, <2>3, <3>1
  <2>6. CASE i \notin 1..2
    <3>1. i \in (2 + 1)..(2 + Len(a)) /\ i - 2 \in 1..Len(a)
      BY <2>4, <2>6
    <3>2. q[i] = a[i - 2]
      BY <2>4, <3>1
    <3> QED
      BY <2>2, <2>4, <3>1, <3>2
  <2> QED
    BY <2>5, <2>6
<1>10. StraightWalk(tr, q)
  BY <1>2, <1>9 DEF StraightWalk
<1> HIDE DEF q
<1>11. SidesInv'
  BY <1>1, <1>6, <1>10, SameSides
<1>12. SimpleStages' /\ PathInv'
  <2>1. pc' # "chain"
    BY <1>1
  <2> QED
    BY <1>1, <1>2, <2>1, KeepsJobs DEF PathInv
<1> QED
  BY <1>11, <1>12 DEF SimpleInv

\* A stage without redirections runs its command with all its arguments.
LEMMA DispatchAstNodeSimple == IInv /\ SimpleInv /\ DispatchAstNode => SimpleInv'
<1> SUFFICES ASSUME IInv, SimpleInv, DispatchAstNode PROVE SimpleInv'
  OBVIOUS
<1> DEFINE n == Head(todo)[1]
           s == Len(jobs) + 1
           c == [ChainFrom(NULL) EXCEPT !.cmd = Head(todo)]
<1>1. /\ pc = "run" /\ pc' = "run" /\ todo # <<>> /\ Kind(Head(todo)) \notin Redirs \cup {"|"}
      /\ RunsNext(c) /\ tokens' = tokens /\ tree' = tree
  BY DEF DispatchAstNode
<1>2. Walking /\ TypeOK /\ SidesInv
  BY <1>1 DEF Walking, IInv, SimpleInv
<1>3. Meant(Job(c), s)
  <2>1. CASE Simple(s)
    <3>1. /\ Head(todo) = <<n>> /\ Kind(Head(todo)) = tokens[n]
          /\ HasCommand(s) /\ s \in Nat /\ StageTree(tree, n, s)
      BY <1>1, <1>2, <2>1, SimpleHead
    <3>2. c = [ChainFrom(NULL) EXCEPT !.cmd = <<n>>] /\ tokens[n] \notin Redirs
      BY <1>1, <3>1
    <3> HIDE DEF n, s, c
    <3> QED
      BY <1>2, <3>1, <3>2, PathOfCommand
  <2>2. CASE ~Simple(s)
    BY <2>2 DEF Meant
  <2> QED
    BY <2>1, <2>2
<1> HIDE DEF c
<1> QED
  BY <1>1, <1>2, <1>3, RunsSimple

\* A chain that is begun, or the complex pattern, which has the whole stage.
LEMMA CollectRedirAndCommandNodesSimple ==
    IInv /\ SimpleInv /\ CollectRedirAndCommandNodes => SimpleInv'
<1> SUFFICES ASSUME IInv, SimpleInv, CollectRedirAndCommandNodes PROVE SimpleInv'
  OBVIOUS
<1> DEFINE p == Head(todo)
           n == p[1]
           s == Len(jobs) + 1
<1>1. /\ pc = "run" /\ todo # <<>> /\ Kind(p) \in Redirs
      /\ tokens' = tokens /\ tree' = tree
      /\ IF IsComplex(p)
         THEN RunsNext(ComplexPattern(p)) /\ pc' = pc
         ELSE pc' = "chain" /\ chain' = ChainFrom(p) /\ todo' = todo /\ jobs' = jobs
  BY DEF CollectRedirAndCommandNodes
<1>2. Walking /\ TypeOK /\ SidesInv /\ SimpleStages
  BY <1>1 DEF Walking, IInv, SimpleInv
<1>3. Kind(p) # "|" /\ p # NULL /\ p \in Pointer /\ tokens[n] = Kind(p)
  BY <1>1, <1>2, KindsAre, NextPart
<1>4. p = <<n>>
  <2> HIDE DEF p
  <2> QED
    BY <1>3 DEF Pointer, NULL
<1>5. CASE IsComplex(p)
  <2> DEFINE c == ComplexPattern(p)
  <2>1. Meant(Job(c), s)
    <3>1. CASE Simple(s)
      <4>1. /\ p = <<n>> /\ HasCommand(s) /\ s \in Nat /\ StageTree(tree, n, s)
        BY <1>1, <1>2, <1>3, <3>1, SimpleHead
      <4> HIDE DEF n, s, p
      <4>2. Meant(Job(ComplexPattern(<<n>>)), s)
        BY <1>2, <1>5, <4>1, PathOfComplex
      <4> QED
        BY <4>1, <4>2
    <3>2. CASE ~Simple(s)
      BY <3>2 DEF Meant
    <3> QED
      BY <3>1, <3>2
  <2>2. RunsNext(c) /\ pc' = "run"
    BY <1>1, <1>5
  <2> HIDE DEF c
  <2> QED
    BY <1>1, <1>2, <2>1, <2>2, RunsSimple
<1>6. CASE ~IsComplex(p)
  <2> DEFINE c == ChainFrom(p)
  <2>1. pc' = "chain" /\ chain' = c /\ todo' = todo /\ jobs' = jobs
    BY <1>1, <1>6
  <2>2. c.at = <<n>> /\ c.nodes = <<>> /\ c.cmd = NULL
    BY <1>4 DEF ChainFrom
  <2>3. Head(todo')[1] = n /\ Len(jobs') + 1 = s
    BY <2>1
  <2> HIDE DEF n, s, c
  <2>4. ChainOnPath(c, n, s)
    BY <1>1, <1>3, <2>2 DEF ChainOnPath, OnPath
  <2>5. PathInv'
    BY <1>1, <2>1, <2>3, <2>4, SamePath
  <2>6. SidesInv'
    BY <1>1, <1>2, <2>1, KeepsSides
  <2>7. SimpleStages'
    BY <1>1, <1>2, <2>1, KeepsJobs
  <2> QED
    BY <2>5, <2>6, <2>7 DEF SimpleInv
<1> QED
  BY <1>5, <1>6

\* A step of the collector.
LEMMA ProcessNodeInLinearChainSimple ==
    IInv /\ SimpleInv /\ ProcessNodeInLinearChain => SimpleInv'
<1> SUFFICES ASSUME IInv, SimpleInv, ProcessNodeInLinearChain PROVE SimpleInv'
  OBVIOUS
<1> DEFINE n == Head(todo)[1]
           s == Len(jobs) + 1
           d == IF Kind(chain.at) \in Redirs
                THEN [chain EXCEPT !.nodes = @ \o chain.at, !.at = Advance(chain.at)]
                ELSE IF Kind(chain.at) = "cmd" THEN [chain EXCEPT !.cmd = chain.at, !.at = NULL]
                ELSE [chain EXCEPT !.at = NULL]
<1>1. /\ pc = "chain" /\ pc' = "chain" /\ chain.at # NULL /\ chain' = d
      /\ todo' = todo /\ jobs' = jobs /\ tokens' = tokens /\ tree' = tree
  BY DEF ProcessNodeInLinearChain
<1>2. Walking /\ TypeOK /\ chain \in Chain /\ todo # <<>> /\ tokens[n] # "|"
  BY <1>1 DEF Walking, IInv, TypeOK, ChainInv
<1>3. SidesInv /\ SimpleStages /\ ChainOnPath(chain, n, s)
  BY <1>1 DEF SimpleInv, PathInv
<1>4. Head(todo')[1] = n /\ Len(jobs') + 1 = s
  BY <1>1
<1>5. ChainOnPath(d, n, s)
  <2>1. CASE Simple(s)
    <3>1. Kind(Head(todo)) # "|"
      BY <1>2, NextPart
    <3>2. HasCommand(s) /\ s \in Nat /\ StageTree(tree, n, s)
      BY <1>2, <1>3, <2>1, <3>1, SimpleHead
    <3>3. tokens[n] \in Redirs /\ OnPath(chain, n, s)
      BY <1>3, <2>1 DEF ChainOnPath
    <3> HIDE DEF n, s
    <3>4. OnPath(d, n, s)
      BY <1>1, <1>2, <3>2, <3>3, PathStep
    <3> HIDE DEF d
    <3> QED
      BY <3>3, <3>4 DEF ChainOnPath
  <2>2. CASE ~Simple(s)
    BY <1>3, <2>2 DEF ChainOnPath
  <2> QED
    BY <2>1, <2>2
<1> HIDE DEF n, s, d
<1>6. PathInv'
  BY <1>1, <1>4, <1>5, SamePath
<1>7. SidesInv'
  BY <1>1, <1>2, <1>3, KeepsSides
<1>8. SimpleStages'
  BY <1>1, <1>3, KeepsJobs
<1> QED
  BY <1>6, <1>7, <1>8 DEF SimpleInv

\* The chain that was collected has the whole stage.
LEMMA ExecuteRedirChainSimple == IInv /\ SimpleInv /\ ExecuteRedirChain => SimpleInv'
<1> SUFFICES ASSUME IInv, SimpleInv, ExecuteRedirChain PROVE SimpleInv'
  OBVIOUS
<1> DEFINE n == Head(todo)[1]
           s == Len(jobs) + 1
           c == chain
<1>1. /\ pc = "chain" /\ pc' = "run" /\ c.at = NULL /\ RunsNext(c)
      /\ tokens' = tokens /\ tree' = tree
  BY DEF ExecuteRedirChain
<1>2. Walking /\ TypeOK /\ c \in Chain /\ todo # <<>> /\ tokens[n] # "|"
  BY <1>1 DEF Walking, IInv, TypeOK, ChainInv
<1>3. SidesInv /\ ChainOnPath(c, n, s)
  BY <1>1 DEF SimpleInv, PathInv
<1>4. Meant(Job(c), s)
  <2>1. CASE Simple(s)
    <3>1. Kind(Head(todo)) # "|"
      BY <1>2, NextPart
    <3>2. HasCommand(s) /\ s \in Nat /\ StageTree(tree, n, s)
      BY <1>2, <1>3, <2>1, <3>1, SimpleHead
    <3>3. OnPath(c, n, s) /\ ArgsAre(tree, s)
      BY <1>3, <2>1, <3>2 DEF ChainOnPath, StageTree
    <3> HIDE DEF n, s, c
    <3> QED
      BY <1>1, <1>2, <3>2, <3>3, PathEnds
  <2>2. CASE ~Simple(s)
    BY <2>2 DEF Meant
  <2> QED
    BY <2>1, <2>2
<1> HIDE DEF c
<1> QED
  BY <1>1, <1>2, <1>4, RunsSimple

\* The end of the walk.
LEMMA ExecuteAstEndsSimple == IInv /\ SimpleInv /\ ExecuteAstEnds => SimpleInv'
<1> SUFFICES ASSUME IInv, SimpleInv, ExecuteAstEnds PROVE SimpleInv'
  OBVIOUS
<1>1. pc' = "done" /\ tokens' = tokens /\ jobs' = jobs
  BY DEF ExecuteAstEnds
<1>2. SimpleStages'
  BY <1>1, KeepsJobs DEF SimpleInv
<1> QED
  BY <1>1, <1>2 DEF SimpleInv, SidesInv, PathInv, Walking
\* A step that changes nothing.
LEMMA StutteringSimple == SimpleInv /\ UNCHANGED vars => SimpleInv'
<1> SUFFICES ASSUME SimpleInv, UNCHANGED vars PROVE SimpleInv'
  OBVIOUS
<1>1. /\ pc' = pc /\ tokens' = tokens /\ tree' = tree /\ todo' = todo
      /\ chain' = chain /\ jobs' = jobs
  BY DEF vars
<1>2. SimpleStages'
  BY <1>1, KeepsJobs DEF SimpleInv
<1>3. SidesInv'
  <2>1. CASE Walking
    BY <1>1, <2>1, KeepsSides DEF SimpleInv
  <2>2. CASE ~Walking
    BY <1>1, <2>2 DEF SidesInv, Walking
  <2> QED
    BY <2>1, <2>2
<1>4. PathInv'
  <2>1. CASE pc = "chain"
    <3> DEFINE c == chain
               n == Head(todo)[1]
               s == Len(jobs) + 1
    <3>1. chain' = c /\ Head(todo')[1] = n /\ Len(jobs') + 1 = s /\ ChainOnPath(c, n, s)
      BY <1>1, <2>1 DEF SimpleInv, PathInv
    <3> HIDE DEF c, n, s
    <3> QED
      BY <1>1, <3>1, SamePath
  <2>2. CASE pc # "chain"
    BY <1>1, <2>2 DEF PathInv
  <2> QED
    BY <2>1, <2>2
<1> QED
  BY <1>2, <1>3, <1>4 DEF SimpleInv

-----------------------------------------------------------------------------
(***************************************************************************)
(* The theorems.                                                           *)
(***************************************************************************)
\* The invariant holds of every line: the tree and the walk are what the
\* following theorems say, after init_yggdrasil and during execute_ast.
THEOREM InvariantAlways == Spec => []IInv
<1>1. IInv /\ [Next]_vars => IInv'
  BY InitYggdrasilHolds, HandlePipeExecutionHolds, DispatchAstNodeHolds,
     CollectRedirAndCommandNodesHolds, ProcessNodeInLinearChainHolds,
     ExecuteRedirChainHolds, ExecuteAstEndsHolds, StutteringHolds DEF Next
<1> QED
  BY InitHolds, <1>1, PTL DEF Spec

\* The builder returns nodes of the line's tokens and no status but those of
\* handle_parser_error and of the line before; what the walk keeps is of its type.
THEOREM TypesAlways == Spec => []TypeOK
<1>1. IInv => TypeOK
  BY DEF IInv
<1> QED
  BY InvariantAlways, <1>1, PTL

\* On a line of any length no token is found by two of the nodes that
\* set_ygg_children, the gathering of arguments and that of file names make.
THEOREM NothingTwiceAlways == Spec => []NothingTwice
<1>1. IInv => NothingTwice
  BY DEF IInv
<1> QED
  BY InvariantAlways, <1>1, PTL

\* However many pipes, redirections and words a line has, execute_ast runs its
\* stages in their order, one job for each, and none runs a word of another.
THEOREM StagesKeptAlways == Spec => []StagesKept
<1>1. IInv => StagesKept
  BY DEF IInv
<1> QED
  BY InvariantAlways, <1>1, PTL

\* check_child_node_errors reads a status that may be the line before's, but on no
\* line does the tree depend on it.
THEOREM StaleStatusHarmlessAlways == Spec => []StaleStatusHarmless
<1>1. IInv => StaleStatusHarmless
  <2> SUFFICES ASSUME IInv PROVE StaleStatusHarmless
    OBVIOUS
  <2>1. tokens \in Lines /\ 0 \in 0..255 /\ 1 \in 0..255
    BY DEF IInv, TypeOK
  <2>2. Built(0).node = Built(1).node /\ Built(0).tree = Built(1).tree
    BY <2>1, BuiltWithoutStatus
  <2> QED
    BY <2>2 DEF StaleStatusHarmless
<1> QED
  BY InvariantAlways, <1>1, PTL

\* In a line of any length, however many pipes it has, a simple stage applies its
\* redirections in their order and its command gets all its arguments: the token that
\* find_left_token, find_right_token or find_initial_root chooses for the stage, what
\* gather_arguments and gather_filename take, and the chain that is collected again.
THEOREM SimpleStagesAlways == Spec => []SimpleStages
<1>1. Init => SimpleInv
  BY DEF Init, SimpleInv, SidesInv, PathInv, SimpleStages, Walking
<1>2. IInv /\ SimpleInv /\ [Next]_vars => SimpleInv'
  BY InitYggdrasilSimple, HandlePipeExecutionSimple, DispatchAstNodeSimple,
     CollectRedirAndCommandNodesSimple, ProcessNodeInLinearChainSimple,
     ExecuteRedirChainSimple, ExecuteAstEndsSimple, StutteringSimple DEF Next
<1>3. SimpleInv => SimpleStages
  BY DEF SimpleInv
<1> QED
  BY InvariantAlways, <1>1, <1>2, <1>3, PTL DEF Spec
=============================================================================
