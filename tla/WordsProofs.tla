----------------------------- MODULE WordsProofs -----------------------------
(***************************************************************************)
(* Proofs about Words, for every line, environment, status and set of      *)
(* commands, every first capacity of the expander's buffer and however     *)
(* many of its allocations fail.                                           *)
(***************************************************************************)
EXTENDS Words, ExpanderProofs, FiniteSetTheorems

-----------------------------------------------------------------------------
(***************************************************************************)
(* Places in a text.                                                       *)
(***************************************************************************)
\* Some numbers, not none, have a least one.
LEMMA LeastOf ==
    ASSUME NEW S \in SUBSET Nat, S # {}
    PROVE  Min(S) \in S /\ \A y \in S : Min(S) <= y
<1>1. PICK x \in S : \A y \in S : ~(<<y, x>> \in OpToRel(<, Nat))
  BY WFMin, NatLessThanWellFounded
<1>2. \A y \in S : ~(y < x) /\ x \in Nat /\ y \in Nat
  BY <1>1 DEF OpToRel
<1>3. \A y \in S : x <= y
  BY <1>2
<1> QED
  BY <1>3 DEF Min

\* And a greatest one, if they have a bound.
LEMMA GreatestOf ==
    ASSUME NEW n \in Nat, NEW S \in SUBSET (0..n), S # {}
    PROVE  Max(S) \in S /\ \A y \in S : y <= Max(S)
<1> DEFINE D == {n - y : y \in S}
<1>1. D \in SUBSET Nat /\ D # {}
  <2>1. \A y \in S : n - y \in Nat
    OBVIOUS
  <2> QED
    BY <2>1
<1>2. PICK d \in D : \A e \in D : ~(<<e, d>> \in OpToRel(<, Nat))
  <2> HIDE DEF D
  <2> QED
    BY <1>1, WFMin, NatLessThanWellFounded
<1>3. PICK x \in S : d = n - x
  OBVIOUS
<1>4. \A y \in S : n - y \in D /\ n - y \in Nat
  OBVIOUS
<1>5. \A y \in S : ~(n - y < n - x)
  <2> HIDE DEF D
  <2> QED
    BY <1>1, <1>2, <1>3, <1>4 DEF OpToRel
<1>6. \A y \in S : x >= y
  BY <1>5
<1> QED
  BY <1>6 DEF Max

\* Where a search ends: at the first character of the set, or behind the text.
LEMMA NextAtIs ==
    ASSUME NEW s \in Text, NEW k \in Nat \ {0}, NEW S
    PROVE  /\ NextAt(s, k, S) \in Nat /\ NextAt(s, k, S) <= Len(s) + 1
           /\ \/ NextAt(s, k, S) = Len(s) + 1
              \/ NextAt(s, k, S) \in k..Len(s) /\ s[NextAt(s, k, S)] \in S
           /\ \A j \in k..Len(s) : j < NextAt(s, k, S) => s[j] \notin S
<1> DEFINE Found == {j \in k..Len(s) : s[j] \in S} \cup {Len(s) + 1}
<1>1. Len(s) \in Nat
  BY DEF Text
<1>2. Found \in SUBSET Nat /\ Len(s) + 1 \in Found
  BY <1>1
<1>3. Min(Found) \in Found /\ \A y \in Found : Min(Found) <= y
  <2> HIDE DEF Found
  <2> QED
    BY <1>2, LeastOf
<1>4. NextAt(s, k, S) = Min(Found)
  BY DEF NextAt
<1> DEFINE e == Min(Found)
<1>5. e \in Nat /\ (e = Len(s) + 1 \/ (e \in k..Len(s) /\ s[e] \in S))
  BY <1>2, <1>3
<1>6. \A j \in k..Len(s) : s[j] \in S => e <= j
  BY <1>3
<1> HIDE DEF e
<1>7. e <= Len(s) + 1 /\ \A j \in k..Len(s) : j < e => s[j] \notin S
  BY <1>1, <1>5, <1>6
<1> QED
  BY <1>4, <1>5, <1>7 DEF e

\* A part of a text is a text.
LEMMA PartIsText ==
    ASSUME NEW s \in Text, NEW a \in Nat \ {0}, NEW b \in Int, b <= Len(s)
    PROVE  SubSeq(s, a, b) \in Text
<1>1. \A i \in a..b : s[i] \in Char
  BY DEF Text
<1> QED
  BY <1>1, SubSeqProperties DEF Text

\* What is trimmed is.
LEMMA TrimIsText ==
    ASSUME NEW s \in Text, NEW S
    PROVE  Trim(s, S) \in Text
<1> DEFINE kept == {j \in DOMAIN s : s[j] \notin S}
<1>1. Len(s) \in Nat /\ DOMAIN s = 1..Len(s) /\ <<>> \in Text
  BY DEF Text
<1>2. CASE kept = {}
  BY <1>1, <1>2 DEF Trim
<1>3. CASE kept # {}
  <2>1. kept \in SUBSET Nat /\ kept \in SUBSET (0..Len(s)) /\ kept \subseteq 1..Len(s)
    BY <1>1
  <2>2. Trim(s, S) = SubSeq(s, Min(kept), Max(kept))
    BY <1>3 DEF Trim
  <2> HIDE DEF kept
  <2>3. Min(kept) \in kept /\ Max(kept) \in kept
    BY <1>1, <1>3, <2>1, LeastOf, GreatestOf
  <2>4. Min(kept) \in Nat \ {0} /\ Max(kept) \in Int /\ Max(kept) <= Len(s)
    <3>1. Min(kept) \in 1..Len(s) /\ Max(kept) \in 1..Len(s)
      BY <2>1, <2>3
    <3> QED
      BY <1>1, <3>1
  <2> QED
    BY <2>2, <2>4, PartIsText
<1> QED
  BY <1>2, <1>3

\* A token has at least one character and ends in the line.
LEMMA TokenLenFits ==
    ASSUME NEW s \in Text, Len(s) >= 1
    PROVE  GetTokenLen(s) \in 1..Len(s)
<1>1. Len(s) \in Nat /\ DOMAIN s = 1..Len(s) /\ s[1] \in Char
  BY DEF Text
<1>2. \A k \in Nat \ {0} : \A S :
          /\ NextAt(s, k, S) \in Nat
          /\ NextAt(s, k, S) = Len(s) + 1 \/ NextAt(s, k, S) \in k..Len(s)
  BY NextAtIs
<1>3. GetDollarSpecialQuotedLen(s) \in 1..Len(s)
  <2> DEFINE e == NextAt(s, 3, {s[2]})
  <2>1. e \in Nat /\ (e = Len(s) + 1 \/ e \in 3..Len(s))
    BY <1>2
  <2> HIDE DEF e
  <2>2. {e, Len(s)} \in SUBSET Nat /\ {e, Len(s)} # {}
    BY <1>1, <2>1
  <2>3. Min({e, Len(s)}) \in {e, Len(s)} /\ Min({e, Len(s)}) <= Len(s)
    BY <2>2, LeastOf
  <2>4. Min({e, Len(s)}) \in 1..Len(s)
    BY <1>1, <2>1, <2>3
  <2> QED
    BY <2>4 DEF e, GetDollarSpecialQuotedLen
<1>4. GetStandardQuotedLen(s) \in 1..Len(s)
  <2> DEFINE e == NextAt(s, 2, {s[1]})
  <2>1. e \in Nat /\ (e = Len(s) + 1 \/ e \in 2..Len(s))
    BY <1>2
  <2>2. GetStandardQuotedLen(s) = IF e <= Len(s) THEN e ELSE 1
    BY DEF GetStandardQuotedLen
  <2> HIDE DEF e
  <2> QED
    BY <1>1, <2>1, <2>2
<1>5. GetUnquotedTokenLen(s) \in 1..Len(s)
  <2> DEFINE word == NextAt(s, 1, Quote \cup Operator \cup {" "}) - 1
  <2>1. word \in 0..Len(s)
    <3> DEFINE e == NextAt(s, 1, Quote \cup Operator \cup {" "})
    <3>1. e \in Nat /\ (e = Len(s) + 1 \/ e \in 1..Len(s))
      <4>1. 1 \in Nat \ {0}
        OBVIOUS
      <4> QED
        BY <1>2, <4>1, Zenon
    <3> HIDE DEF e
    <3>2. e - 1 \in 0..Len(s)
      BY <1>1, <3>1
    <3> QED
      BY <3>2 DEF e
  <2>2. CharAt(s, 2) = s[1] => 2 \in 1..Len(s)
    BY <1>1, CharAssumption DEF CharAt
  <2>3. GetUnquotedTokenLen(s) = IF word > 0 THEN word
                                 ELSE IF s[1] \in {"<", ">"} /\ CharAt(s, 2) = s[1] THEN 2 ELSE 1
    BY DEF GetUnquotedTokenLen
  <2> HIDE DEF word
  <2> QED
    BY <1>1, <2>1, <2>2, <2>3
<1> QED
  BY <1>3, <1>4, <1>5 DEF GetTokenLen

-----------------------------------------------------------------------------
(***************************************************************************)
(* The text in double quotes.                                              *)
(***************************************************************************)
\* What a place of it contributes, and where quote_handler_cpy goes on.
CopyPiece(s, e, k) == IF s[k] # "$" THEN <<s[k]>> ELSE DomaneExpantion(s, k, e)
CopyBehind(s, k)   == IF s[k] # "$" THEN k + 1 ELSE ReferenceEnd(s, k)

\* At each place of a text some piece is copied, and reading goes on behind it.
LEMMA CopyIsReading ==
    ASSUME NEW s \in Text, NEW e, \A n \in DOMAIN e : e[n] \in Text
    PROVE  Reading(Len(s), Char, [k \in 1..Len(s) |-> CopyPiece(s, e, k)],
                   [k \in 1..Len(s) |-> CopyBehind(s, k)])
<1>1. Len(s) \in Nat /\ <<>> \in Seq(Char) /\ Text = Seq(Char)
  BY DEF Text
<1>2. ASSUME NEW k \in 1..Len(s) PROVE CopyPiece(s, e, k) \in Seq(Char)
  <2>1. <<s[k]>> \in Seq(Char)
    BY DEF Text
  <2> QED
    BY <1>1, <2>1 DEF CopyPiece, DomaneExpantion, ValueOf
<1>3. ASSUME NEW k \in 1..Len(s) PROVE CopyBehind(s, k) \in 1..(Len(s) + 1) /\ CopyBehind(s, k) > k
  <2> DEFINE r == ReferenceEnd(s, k)
  <2>1. r \in Nat /\ (r = Len(s) + 1 \/ r \in (k + 1)..Len(s))
    <3>1. k + 1 \in Nat \ {0}
      OBVIOUS
    <3> QED
      BY <3>1, NextAtIs DEF ReferenceEnd
  <2>2. CopyBehind(s, k) \in {k + 1, r}
    BY DEF CopyBehind
  <2> HIDE DEF r
  <2> QED
    BY <1>1, <2>1, <2>2
<1> QED
  BY <1>1, <1>2, <1>3 DEF Reading

\* The functions that CopyExpansions and QuoteHandlerCounter define.
IsCopy(f, s, e) ==
    f = [k \in 1..(Len(s) + 1) |->
            IF k > Len(s) THEN <<>>
            ELSE IF s[k] # "$" THEN <<s[k]>> \o f[k + 1]
            ELSE DomaneExpantion(s, k, e) \o f[ReferenceEnd(s, k)]]
IsCount(g, s, e) ==
    g = [k \in 1..(Len(s) + 1) |->
            IF k > Len(s) THEN 0
            ELSE IF s[k] # "$" THEN 1 + g[k + 1]
            ELSE Len(DomaneExpantion(s, k, e)) + g[ReferenceEnd(s, k)]]

\* The first copies piece by piece,
LEMMA CopyOnly ==
    ASSUME NEW s \in Text, NEW e, NEW f
    PROVE  IsCopy(f, s, e)
              <=> f = [k \in 1..(Len(s) + 1) |->
                         IF k > Len(s) THEN <<>> ELSE CopyPiece(s, e, k) \o f[CopyBehind(s, k)]]
<1>1. \A k \in 1..(Len(s) + 1) :
          (IF k > Len(s) THEN <<>>
           ELSE IF s[k] # "$" THEN <<s[k]>> \o f[k + 1]
           ELSE DomaneExpantion(s, k, e) \o f[ReferenceEnd(s, k)])
          = IF k > Len(s) THEN <<>> ELSE CopyPiece(s, e, k) \o f[CopyBehind(s, k)]
  BY DEF CopyPiece, CopyBehind
<1> QED
  BY <1>1 DEF IsCopy

\* and the second counts the same pieces.
LEMMA CountOnly ==
    ASSUME NEW s \in Text, NEW e, NEW g
    PROVE  IsCount(g, s, e)
              <=> g = [k \in 1..(Len(s) + 1) |->
                         IF k > Len(s) THEN 0
                         ELSE Len(CopyPiece(s, e, k)) + g[CopyBehind(s, k)]]
<1>1. \A k \in 1..(Len(s) + 1) : s[k] # "$" => Len(CopyPiece(s, e, k)) = 1 /\ CopyBehind(s, k) = k + 1
  BY DEF CopyPiece, CopyBehind
<1>2. \A k \in 1..(Len(s) + 1) : s[k] = "$" => /\ CopyPiece(s, e, k) = DomaneExpantion(s, k, e)
                                              /\ CopyBehind(s, k) = ReferenceEnd(s, k)
  BY DEF CopyPiece, CopyBehind
<1>3. \A k \in 1..(Len(s) + 1) :
          (IF k > Len(s) THEN 0
           ELSE IF s[k] # "$" THEN 1 + g[k + 1]
           ELSE Len(DomaneExpantion(s, k, e)) + g[ReferenceEnd(s, k)])
          = IF k > Len(s) THEN 0 ELSE Len(CopyPiece(s, e, k)) + g[CopyBehind(s, k)]
  BY <1>1, <1>2
<1> QED
  BY <1>3 DEF IsCount

\* The copy is a text, and quote_handler_counter counts its length.
LEMMA CopyAndCount ==
    ASSUME NEW s \in Text, NEW e, \A n \in DOMAIN e : e[n] \in Text
    PROVE  CopyExpansions(s, e) \in Text /\ QuoteHandlerCounter(s, e) = Len(CopyExpansions(s, e))
<1> DEFINE n == Len(s)
           piece == [k \in 1..Len(s) |-> CopyPiece(s, e, k)]
           onward == [k \in 1..Len(s) |-> CopyBehind(s, k)]
           copy == CHOOSE f : IsCopy(f, s, e)
           count == CHOOSE g : IsCount(g, s, e)
<1>1. Reading(n, Char, piece, onward)
  BY CopyIsReading
<1>2. n \in Nat /\ 1 \in 1..(n + 1) /\ Text = Seq(Char)
  BY DEF Text
<1>3. PICK f \in [1..(n + 1) -> Seq(Char)] : Reads(f, n, piece, onward)
  <2> HIDE DEF n, piece, onward
  <2> QED
    BY <1>1, ReadingExists
<1>4. /\ f[n + 1] = <<>>
      /\ \A k \in 1..n : f[k] = CopyPiece(s, e, k) \o f[CopyBehind(s, k)]
  BY <1>3 DEF Reads
<1>5. \A k \in 1..n : /\ CopyPiece(s, e, k) \in Seq(Char) /\ CopyBehind(s, k) \in 1..(n + 1)
                      /\ CopyBehind(s, k) > k
  BY <1>1 DEF Reading
<1>6. \A k \in 1..(n + 1) : (k > n <=> k = n + 1) /\ (~(k > n) => k \in 1..n)
  BY <1>2
<1>7. IsCopy(f, s, e)
  <2>1. \A k \in 1..(n + 1) :
            f[k] = IF k > n THEN <<>> ELSE CopyPiece(s, e, k) \o f[CopyBehind(s, k)]
    BY <1>4, <1>6
  <2>2. f = [k \in 1..(n + 1) |->
                IF k > n THEN <<>> ELSE CopyPiece(s, e, k) \o f[CopyBehind(s, k)]]
    BY <2>1
  <2> QED
    BY <2>2, CopyOnly
<1> DEFINE length == [k \in 1..(n + 1) |-> Len(f[k])]
<1>8. /\ \A k \in 1..(n + 1) : length[k] = Len(f[k]) /\ length[k] \in Nat
      /\ length[n + 1] = 0
      /\ \A k \in 1..n : length[k] = Len(CopyPiece(s, e, k)) + length[CopyBehind(s, k)]
  <2>1. \A k \in 1..(n + 1) : length[k] = Len(f[k]) /\ length[k] \in Nat
    BY LenProperties
  <2>2. length[n + 1] = 0
    BY <1>2, <1>4
  <2>3. ASSUME NEW k \in 1..n
        PROVE  length[k] = Len(CopyPiece(s, e, k)) + length[CopyBehind(s, k)]
    <3>1. f[CopyBehind(s, k)] \in Seq(Char) /\ CopyPiece(s, e, k) \in Seq(Char)
      BY <1>5
    <3>2. Len(f[k]) = Len(CopyPiece(s, e, k)) + Len(f[CopyBehind(s, k)])
      <4>1. PICK p \in Seq(Char), q \in Seq(Char) :
                  p = CopyPiece(s, e, k) /\ q = f[CopyBehind(s, k)]
        BY <3>1
      <4>2. Len(p \o q) = Len(p) + Len(q)
        BY ConcatProperties
      <4> QED
        BY <1>4, <4>1, <4>2
    <3>3. k \in 1..(n + 1) /\ CopyBehind(s, k) \in 1..(n + 1)
      BY <1>2, <1>5
    <3> HIDE DEF length
    <3> QED
      BY <2>1, <3>2, <3>3
  <2> QED
    BY <2>1, <2>2, <2>3
<1>9. IsCount(length, s, e)
  <2>1. length = [k \in 1..(n + 1) |-> length[k]]
    OBVIOUS
  <2> HIDE DEF length
  <2>2. \A k \in 1..(n + 1) :
            length[k] = IF k > n THEN 0 ELSE Len(CopyPiece(s, e, k)) + length[CopyBehind(s, k)]
    BY <1>6, <1>8
  <2>3. length = [k \in 1..(n + 1) |->
                IF k > n THEN 0 ELSE Len(CopyPiece(s, e, k)) + length[CopyBehind(s, k)]]
    BY <2>1, <2>2
  <2> QED
    BY <2>3, CountOnly
<1> HIDE DEF length
<1>10. IsCopy(copy, s, e) /\ IsCount(count, s, e)
  BY <1>7, <1>9
<1> HIDE DEF copy, count
<1>11. Reads(copy, n, piece, onward)
  <2>1. copy = [k \in 1..(n + 1) |->
                IF k > n THEN <<>> ELSE CopyPiece(s, e, k) \o copy[CopyBehind(s, k)]]
    BY <1>10, CopyOnly
  <2>2. \A k \in 1..(n + 1) :
            copy[k] = IF k > n THEN <<>> ELSE CopyPiece(s, e, k) \o copy[CopyBehind(s, k)]
    BY <2>1
  <2>3. n + 1 \in 1..(n + 1) /\ n + 1 > n /\ \A k \in 1..n : k \in 1..(n + 1) /\ ~(k > n)
    BY <1>2
  <2> QED
    BY <2>2, <2>3 DEF Reads
<1>12. \A k \in 1..(n + 1) : copy[k] = f[k]
  <2> HIDE DEF piece, onward
  <2> QED
    BY <1>1, <1>3, <1>11, ReadingUnique
<1>13. \A k \in 1..(n + 1) : count[k] = length[k]
  <2> DEFINE T == {k \in 1..(n + 1) : count[k] = length[k]}
  <2>1. \A k \in 1..(n + 1) :
            count[k] = IF k > n THEN 0 ELSE Len(CopyPiece(s, e, k)) + count[CopyBehind(s, k)]
    <3>1. count = [k \in 1..(n + 1) |->
                     IF k > n THEN 0 ELSE Len(CopyPiece(s, e, k)) + count[CopyBehind(s, k)]]
      BY <1>10, CountOnly
    <3> QED
      BY <3>1
  <2>2. n + 1 \in 1..(n + 1) /\ n + 1 > n /\ \A k \in 1..n : k \in 1..(n + 1) /\ ~(k > n)
    BY <1>2
  <2>3. n + 1 \in T
    BY <1>8, <2>1, <2>2
  <2>4. ASSUME NEW k \in 1..n, \A j \in (k + 1)..(n + 1) : j \in T PROVE k \in T
    <3>1. CopyBehind(s, k) \in (k + 1)..(n + 1)
      <4>1. CopyBehind(s, k) \in 1..(n + 1) /\ CopyBehind(s, k) > k
        BY <1>5
      <4> QED
        BY <1>2, <4>1
    <3>2. count[CopyBehind(s, k)] = length[CopyBehind(s, k)]
      BY <2>4, <3>1
    <3>3. count[k] = length[k]
      BY <1>8, <2>1, <2>2, <3>2
    <3> QED
      BY <2>2, <3>3
  <2>5. \A k \in 1..(n + 1) : k \in T
    <3> HIDE DEF T, n
    <3> QED
      BY <1>2, <2>3, <2>4, FromTheEnd
  <2> QED
    BY <2>5
<1>14. CopyExpansions(s, e) = copy[1] /\ QuoteHandlerCounter(s, e) = count[1]
  BY DEF CopyExpansions, QuoteHandlerCounter, IsCopy, IsCount, copy, count
<1> QED
  BY <1>2, <1>8, <1>12, <1>13, <1>14

-----------------------------------------------------------------------------
(***************************************************************************)
(* What the functions make of a token.                                     *)
(***************************************************************************)
Valued(e) == \A n \in DOMAIN e : e[n] \in Text

\* create_and_init_token.
LEMMA NewTokenIs ==
    ASSUME NEW from \in 1..Len(line), NEW n \in 1..(Len(line) - from + 1), line \in Text
    PROVE  /\ CreateAndInitToken(from, n) \in Token
           /\ CreateAndInitToken(from, n).type = "word" /\ CreateAndInitToken(from, n).rank = "C"
<1>1. Len(line) \in Nat
  BY DEF Text
<1>2. from \in Nat \ {0} /\ from + n - 1 \in Int /\ from + n - 1 <= Len(line)
  BY <1>1
<1>3. SubSeq(line, from, from + n - 1) \in Text
  BY <1>2, PartIsText
<1>4. \A value, behind : Joins(value, behind) \in BOOLEAN
  BY DEF Joins
<1> QED
  BY <1>3, <1>4 DEF CreateAndInitToken, Token, Types

\* quote_handler: a token with another value, which is a text.
LEMMA QuoteHandlerIs ==
    ASSUME NEW t \in Token, NEW e, Valued(e), status \in 0..255
    PROVE  /\ QuoteHandler(t, e) \in Token
           /\ QuoteHandler(t, e).type = t.type /\ QuoteHandler(t, e).rank = t.rank
<1> DEFINE Kept(u) == u \in Token /\ u.type = t.type /\ u.rank = t.rank
<1>1. t.value \in Text /\ <<>> \in Text /\ <<"$">> \in Text /\ Len(t.value) \in Nat
  <2>1. t.value \in Text
    BY DEF Token
  <2>2. "$" \in Char
    BY DEF Char
  <2>3. <<>> \in Text /\ <<"$">> \in Text
    BY <2>2 DEF Text
  <2>4. Len(t.value) \in Nat
    BY <2>1 DEF Text
  <2> QED
    BY <2>1, <2>3, <2>4
<1>2. ASSUME NEW v \in Text
      PROVE  /\ Kept([t EXCEPT !.value = v]) /\ Kept([t EXCEPT !.value = v, !.literal = TRUE])
             /\ Kept([t EXCEPT !.value = v, !.err = TRUE])
  BY DEF Token
<1>3. Kept(t)
  OBVIOUS
<1>4. Kept(HandleDollarQuotes(t, e))
  <2> DEFINE v == t.value
             text == IF ClosedBy(v, 2, v[2]) THEN SubSeq(v, 3, Len(v) - 1) ELSE v
  <2>1. SubSeq(v, 3, Len(v) - 1) \in Text
    BY <1>1, PartIsText
  <2>2. text \in Text
    BY <1>1, <2>1
  <2>3. Expansion(text, e, status) \in Text
    <3> HIDE DEF text
    <3> QED
      BY <2>2, ExpansionIsText DEF Valued
  <2>4. HandleDollarQuotes(t, e)
        = IF v[2] = "'" THEN [t EXCEPT !.value = text, !.literal = TRUE]
          ELSE IF ClosedBy(v, 2, v[2]) THEN [t EXCEPT !.value = Expansion(text, e, status)] ELSE t
    BY DEF HandleDollarQuotes
  <2> HIDE DEF text, v, Kept
  <2> QED
    BY <1>2, <1>3, <2>2, <2>3, <2>4
<1>5. Kept(Unclosed(t))
  BY <1>1, <1>2 DEF Unclosed
<1>6. Kept(HandleSingleQuotes(t))
  <2>1. Trim(t.value, {"'"}) \in Text
    BY <1>1, TrimIsText
  <2> HIDE DEF Kept
  <2> QED
    BY <1>2, <2>1 DEF HandleSingleQuotes
<1>7. Kept(HandleDoubleQuotes(t, e))
  <2> DEFINE text == Trim(t.value, {"\""})
  <2>1. text \in Text
    BY <1>1, TrimIsText
  <2>2. QuoteHandlerCpy(text, e) \in Text
    <3> HIDE DEF text
    <3> QED
      BY <1>1, <2>1, CopyAndCount DEF QuoteHandlerCpy, Valued
  <2>3. HandleDoubleQuotes(t, e)
        = IF QuotedOperator(t.value) THEN [t EXCEPT !.value = text, !.literal = TRUE]
          ELSE [t EXCEPT !.value = QuoteHandlerCpy(text, e)]
    BY DEF HandleDoubleQuotes
  <2> HIDE DEF text, Kept
  <2> QED
    BY <1>2, <2>1, <2>2, <2>3
<1> HIDE DEF Kept
<1>8. Kept(QuoteHandler(t, e))
  BY <1>3, <1>4, <1>5, <1>6, <1>7 DEF QuoteHandler
<1> QED
  BY <1>8 DEF Kept

\* What is an operator unless it was quoted.
OperatorValues == Redirs \cup {<<"|">>}

\* typealize changes the type and the rank only, and only such a token becomes an
\* operator.
LEMMA TypealizeIs ==
    ASSUME NEW t \in Token, t.type = "word", <<t.type, t.rank>> \in Kinds
    PROVE  /\ Typealize(t) \in Token /\ <<Typealize(t).type, Typealize(t).rank>> \in Kinds
           /\ Typealize(t).type # "assignment" /\ Typealize(t).value = t.value
           /\ IsOperator(Typealize(t)) => t.value \in OperatorValues
<1>1. /\ As(t, "pipe", "S") \in Token /\ As(t, "redir", "A") \in Token /\ As(t, "cmd", "B") \in Token
      /\ As(t, "pipe", "S").type = "pipe" /\ As(t, "pipe", "S").rank = "S"
      /\ As(t, "redir", "A").type = "redir" /\ As(t, "redir", "A").rank = "A"
      /\ As(t, "cmd", "B").type = "cmd" /\ As(t, "cmd", "B").rank = "B"
      /\ As(t, "pipe", "S").value = t.value /\ As(t, "redir", "A").value = t.value
      /\ As(t, "cmd", "B").value = t.value
  BY DEF As, Token, Types
<1>2. Typealize(t) \in {t, As(t, "cmd", "B")} \/ (Typealize(t) = As(t, "pipe", "S") /\ t.value = <<"|">>)
      \/ (Typealize(t) = As(t, "redir", "A") /\ t.value \in Redirs)
  BY DEF Typealize
<1>3. CASE Typealize(t) = t
  BY <1>3 DEF IsOperator
<1>4. CASE Typealize(t) = As(t, "cmd", "B")
  BY <1>1, <1>4 DEF IsOperator, Kinds
<1>5. CASE Typealize(t) = As(t, "pipe", "S") /\ t.value = <<"|">>
  BY <1>1, <1>5 DEF OperatorValues, Kinds
<1>6. CASE Typealize(t) = As(t, "redir", "A") /\ t.value \in Redirs
  BY <1>1, <1>6 DEF OperatorValues, Kinds
<1> QED
  BY <1>2, <1>3, <1>4, <1>5, <1>6

\* parser_cmd_no_found.
LEMMA CommandOrWordIs ==
    ASSUME NEW t \in Token, <<t.type, t.rank>> \in Kinds
    PROVE  /\ CommandOrWord(t) \in Token /\ <<CommandOrWord(t).type, CommandOrWord(t).rank>> \in Kinds
           /\ CommandOrWord(t).type = "assignment" <=> t.type = "assignment"
           /\ CommandOrWord(t).value = t.value
           /\ IsOperator(CommandOrWord(t)) <=> IsOperator(t)
<1>1. \A type \in Types, rank \in {"C", "B", "A", "S"} :
          /\ As(t, type, rank) \in Token /\ As(t, type, rank).type = type
          /\ As(t, type, rank).rank = rank /\ As(t, type, rank).value = t.value
  BY DEF As, Token
<1>2. CASE IsOperator(t) \/ t.type = "assignment"
  <2>1. CommandOrWord(t) = t
    BY <1>2 DEF CommandOrWord
  <2> QED
    BY <2>1
<1>3. CASE ~(IsOperator(t) \/ t.type = "assignment")
  <2>1. t.type \in {"cmd", "word"} /\ t.rank \in {"B", "C"}
    BY <1>3 DEF Kinds, IsOperator
  <2>2. CommandOrWord(t) \in {As(t, "cmd", "B"), As(t, "word", t.rank)}
    BY <1>3 DEF CommandOrWord
  <2>3. CASE CommandOrWord(t) = As(t, "cmd", "B")
    <3>1. "cmd" \in Types
      BY DEF Types
    <3> QED
      BY <1>1, <1>3, <2>3, <3>1 DEF Kinds, IsOperator
  <2>4. CASE CommandOrWord(t) = As(t, "word", t.rank)
    <3>1. "word" \in Types
      BY DEF Types
    <3>2. CASE t.rank = "B"
      BY <1>1, <1>3, <2>4, <3>1, <3>2 DEF Kinds, IsOperator
    <3>3. CASE t.rank = "C"
      BY <1>1, <1>3, <2>4, <3>1, <3>3 DEF Kinds, IsOperator
    <3> QED
      BY <2>1, <3>2, <3>3
  <2> QED
    BY <2>2, <2>3, <2>4
<1> QED
  BY <1>2, <1>3

\* Two tokens that are joined: one less, the others move up.
LEMMA JoinedIs ==
    ASSUME NEW ts \in Seq(Token), NEW c \in 1..Len(ts), c < Len(ts)
    PROVE  LET new == RemoveAt([ts EXCEPT ![c].value = @ \o ts[c + 1].value,
                                          ![c].join = ts[c + 1].join], c + 1)
           IN  /\ new \in Seq(Token) /\ Len(new) = Len(ts) - 1
               /\ \A k \in 1..Len(new) :
                     IF k < c THEN new[k] = ts[k]
                     ELSE IF k = c THEN /\ new[k].type = ts[k].type /\ new[k].rank = ts[k].rank
                                        /\ new[k].err = ts[k].err /\ new[k].literal = ts[k].literal
                                        /\ new[k].value = ts[k].value \o ts[k + 1].value
                                        /\ new[k].join = ts[k + 1].join
                     ELSE new[k] = ts[k + 1]
<1> DEFINE one == [ts[c] EXCEPT !.value = @ \o ts[c + 1].value, !.join = ts[c + 1].join]
           mid == [ts EXCEPT ![c].value = @ \o ts[c + 1].value, ![c].join = ts[c + 1].join]
           n == Len(ts)
           a == SubSeq(mid, 1, c)
           b == SubSeq(mid, c + 2, n)
<1>1. n \in Nat /\ c + 1 \in 1..n /\ ts[c] \in Token /\ ts[c + 1] \in Token
  OBVIOUS
<1>2. /\ one \in Token /\ one.type = ts[c].type /\ one.rank = ts[c].rank
      /\ one.err = ts[c].err /\ one.literal = ts[c].literal
      /\ one.value = ts[c].value \o ts[c + 1].value /\ one.join = ts[c + 1].join
  <2>1. ts[c].value \o ts[c + 1].value \in Text
    BY <1>1, ConcatProperties DEF Token, Text
  <2> QED
    BY <1>1, <2>1 DEF Token
<1>3. mid = [ts EXCEPT ![c] = one]
  OBVIOUS
<1> HIDE DEF one, mid
<1>4. /\ mid \in Seq(Token) /\ Len(mid) = n /\ mid[c] = one
      /\ \A k \in 1..n : k # c => mid[k] = ts[k]
  BY <1>1, <1>2, <1>3
<1> HIDE DEF n
<1>5. RemoveAt(mid, c + 1) = a \o b
  <2>1. (c + 1) - 1 = c /\ (c + 1) + 1 = c + 2
    OBVIOUS
  <2> QED
    BY <1>4, <2>1 DEF RemoveAt
<1>6. c \in Int /\ c + 2 \in Int /\ n \in Int /\ 1 \in Int /\ 1 <= c /\ c + 1 <= n
  BY <1>1 DEF n
<1>7. /\ a \in Seq(Token) /\ Len(a) = c /\ \A k \in 1..c : a[k] = mid[k]
  <2>1. \A i \in 1..c : mid[i] \in Token
    BY <1>1, <1>4, <1>6
  <2>2. /\ a \in Seq(Token) /\ Len(a) = IF 1 <= c THEN c - 1 + 1 ELSE 0
        /\ \A i \in 1..(c - 1 + 1) : a[i] = mid[1 + i - 1]
    BY <1>6, <2>1, SubSeqProperties
  <2>3. c - 1 + 1 = c /\ \A i \in 1..c : 1 + i - 1 = i
    BY <1>6
  <2> HIDE DEF a
  <2> QED
    BY <1>6, <2>2, <2>3
<1>8. /\ b \in Seq(Token) /\ Len(b) = n - c - 1
      /\ \A k \in 1..(n - c - 1) : b[k] = mid[c + 1 + k]
  <2>1. \A i \in (c + 2)..n : mid[i] \in Token
    BY <1>1, <1>4, <1>6
  <2>2. /\ b \in Seq(Token) /\ Len(b) = IF c + 2 <= n THEN n - (c + 2) + 1 ELSE 0
        /\ \A i \in 1..(n - (c + 2) + 1) : b[i] = mid[(c + 2) + i - 1]
    BY <1>6, <2>1, SubSeqProperties
  <2>3. /\ n - (c + 2) + 1 = n - c - 1 /\ (~(c + 2 <= n) => n - c - 1 = 0)
        /\ \A i \in 1..(n - c - 1) : (c + 2) + i - 1 = c + 1 + i
    BY <1>6
  <2> HIDE DEF b
  <2> QED
    BY <1>6, <2>2, <2>3
<1> HIDE DEF a, b
<1> DEFINE new == a \o b
<1>9. /\ new \in Seq(Token) /\ Len(new) = c + (n - c - 1)
      /\ \A i \in 1..(c + (n - c - 1)) : new[i] = IF i <= c THEN a[i] ELSE b[i - c]
  <2>1. /\ a \o b \in Seq(Token) /\ Len(a \o b) = Len(a) + Len(b)
        /\ \A i \in 1..(Len(a) + Len(b)) : (a \o b)[i] = IF i <= Len(a) THEN a[i] ELSE b[i - Len(a)]
    <3>1. a \in Seq(Token) /\ b \in Seq(Token)
      BY <1>7, <1>8
    <3> QED
      BY <3>1, ConcatProperties
  <2> HIDE DEF new
  <2>2. new = a \o b
    BY DEF new
  <2> QED
    BY <1>7, <1>8, <2>1, <2>2
<1> HIDE DEF new
<1>10. c + (n - c - 1) = n - 1
  BY <1>6
<1>11. ASSUME NEW k \in 1..(n - 1), k <= c PROVE new[k] = mid[k]
  <2>1. k \in 1..c
    BY <1>11
  <2> QED
    BY <1>7, <1>9, <1>10, <1>11, <2>1
<1>12. ASSUME NEW k \in 1..(n - 1), ~(k <= c) PROVE new[k] = ts[k + 1]
  <2>1. k - c \in 1..(n - c - 1) /\ c + 1 + (k - c) = k + 1 /\ k + 1 \in 1..n /\ k + 1 # c
    BY <1>6, <1>12
  <2>2. new[k] = b[k - c]
    BY <1>9, <1>10, <1>12
  <2>3. b[k - c] = mid[c + 1 + (k - c)]
    BY <1>8, <2>1
  <2> QED
    BY <1>4, <2>1, <2>2, <2>3
<1>13. \A k \in 1..Len(new) :
            IF k < c THEN new[k] = ts[k]
            ELSE IF k = c THEN new[k] = one ELSE new[k] = ts[k + 1]
  <2> SUFFICES ASSUME NEW k \in 1..(n - 1)
               PROVE  IF k < c THEN new[k] = ts[k]
                      ELSE IF k = c THEN new[k] = one ELSE new[k] = ts[k + 1]
    BY <1>9, <1>10
  <2>1. CASE k < c
    <3>1. k <= c /\ k \in 1..n /\ k # c
      BY <1>6, <2>1
    <3> QED
      BY <1>4, <1>11, <2>1, <3>1
  <2>2. CASE k = c
    <3>1. ~(k < c) /\ k <= c
      BY <1>6, <2>2
    <3> QED
      BY <1>4, <1>11, <2>2, <3>1
  <2>3. CASE ~(k < c) /\ k # c
    <3>1. ~(k <= c)
      BY <1>6, <2>3
    <3> QED
      BY <1>12, <2>3, <3>1
  <2> QED
    BY <2>1, <2>2, <2>3
<1>14. /\ new \in Seq(Token) /\ Len(new) = n - 1
       /\ \A k \in 1..Len(new) :
             IF k < c THEN new[k] = ts[k]
             ELSE IF k = c THEN /\ new[k].type = ts[k].type /\ new[k].rank = ts[k].rank
                                /\ new[k].err = ts[k].err /\ new[k].literal = ts[k].literal
                                /\ new[k].value = ts[k].value \o ts[k + 1].value
                                /\ new[k].join = ts[k + 1].join
             ELSE new[k] = ts[k + 1]
  BY <1>2, <1>9, <1>10, <1>13
<1> QED
  BY <1>5, <1>14 DEF new, mid, n

-----------------------------------------------------------------------------
(***************************************************************************)
(* Assignments.                                                            *)
(***************************************************************************)
\* Where the name of an assignment ends.
Equals(s) == {k \in 1..Len(s) : s[k] = "="}
EqualsAt(s) == IF Equals(s) # {} THEN Min(Equals(s)) ELSE 0

\* Name and value, as the code takes them apart.
LEMMA AssignmentParts ==
    ASSUME NEW s
    PROVE  /\ IsValidAssignment(s)
              <=> /\ EqualsAt(s) - 1 > 0 /\ s[1] \in Letters
                  /\ \A k \in 1..(EqualsAt(s) - 1) : s[k] \in NameChar
           /\ UpdateEnv(s) = [n \in DOMAIN env \cup {SubSeq(s, 1, EqualsAt(s) - 1)} |->
                                 IF n = SubSeq(s, 1, EqualsAt(s) - 1)
                                 THEN SubSeq(s, EqualsAt(s) + 1, Len(s)) ELSE env[n]]
<1>1. EqualsAt(s) = SelectInSeq(s, LAMBDA c : c = "=")
  BY DEF EqualsAt, Equals, SelectInSeq
<1> QED
  BY <1>1 DEF IsValidAssignment, UpdateEnv

\* A name is followed by the sign, and is no operator.
LEMMA AssignmentIs ==
    ASSUME NEW s \in Text, IsValidAssignment(s)
    PROVE  /\ EqualsAt(s) \in 2..Len(s) /\ s[EqualsAt(s)] = "=" /\ s[1] \in Letters
           /\ SubSeq(s, 1, EqualsAt(s) - 1) \in Text
           /\ SubSeq(s, EqualsAt(s) + 1, Len(s)) \in Text
           /\ s \notin OperatorValues
<1> DEFINE n == EqualsAt(s)
<1>1. Len(s) \in Nat /\ n - 1 > 0 /\ s[1] \in Letters
  <2>1. Len(s) \in Nat
    BY DEF Text
  <2>2. n - 1 > 0 /\ s[1] \in Letters
    BY AssignmentParts
  <2> QED
    BY <2>1, <2>2
<1>2. Equals(s) # {} /\ n = Min(Equals(s))
  BY <1>1 DEF EqualsAt
<1>3. Equals(s) \in SUBSET Nat
  BY <1>1 DEF Equals
<1>4. n \in Equals(s)
  BY <1>2, <1>3, LeastOf
<1> HIDE DEF n
<1>5. n \in 2..Len(s) /\ s[n] = "="
  BY <1>1, <1>4 DEF Equals
<1>6. SubSeq(s, 1, n - 1) \in Text /\ SubSeq(s, n + 1, Len(s)) \in Text
  <2>1. /\ 1 \in Nat \ {0} /\ n - 1 \in Int /\ n - 1 <= Len(s)
        /\ n + 1 \in Nat \ {0} /\ Len(s) \in Int /\ Len(s) <= Len(s)
    BY <1>1, <1>5
  <2> QED
    BY <2>1, PartIsText
<1>7. s[1] \notin {"|", "<", ">"}
  BY <1>1, WordsAssumption DEF Operator, NameChar
<1>8. s \notin OperatorValues
  BY <1>7 DEF OperatorValues, Redirs
<1> QED
  BY <1>1, <1>5, <1>6, <1>8 DEF n

-----------------------------------------------------------------------------
(***************************************************************************)
(* What is true of the tokens in each function of input_handler.           *)
(***************************************************************************)
Phases == {"split", "quotes", "types", "join", "assign", "expand", "expanding",
           "ready", "rejected", "empty"}
\* Before the first expansion.
Before == {"split", "quotes", "types", "join", "assign", "rejected", "empty"}

KindsOK(ts) ==
    \A k \in DOMAIN ts : /\ <<ts[k].type, ts[k].rank>> \in Kinds
                         /\ ts[k].type = "assignment" =>
                               \A j \in 1..k : ts[j].type = "assignment"
Shape(ph, ts, c) ==
    /\ ph \in {"split", "quotes", "types"} => \A k \in DOMAIN ts : ts[k].type = "word"
    /\ ph \in {"join", "assign"} =>
          \A k \in DOMAIN ts : IsOperator(ts[k]) => ts[k].value \in OperatorValues
    /\ ph = "join" => \A k \in DOMAIN ts : ts[k].type # "assignment"
    /\ ph = "assign" => \A k \in DOMAIN ts : ts[k].type = "assignment" <=> k < c
    /\ ph = "expanding" => c \in DOMAIN ts

WordInv ==
    /\ phase \in Phases /\ line \in Lines /\ start \in 1..(Len(line) + 1)
    /\ tokens \in Seq(Token) /\ cur \in 1..(Len(tokens) + 1)
    /\ KindsOK(tokens) /\ Shape(phase, tokens, cur)

\* The expander is idle until its first call, and at work in one phase only.
RunInv ==
    /\ phase \in Before => run = "idle"
    /\ phase # "expanding" => run # "on"

\* The initial states.
LEMMA InitWords == Init => IInv /\ TurnInv /\ WordInv /\ RunInv
<1> SUFFICES ASSUME Init PROVE IInv /\ TurnInv /\ WordInv /\ RunInv
  OBVIOUS
<1>1. /\ env \in Envs /\ status \in Statuses /\ fails = 0 /\ line \in Lines /\ start = 1
      /\ tokens = <<>> /\ phase = "split" /\ cur = 1 /\ input = <<>> /\ pos = 1
      /\ pending = <<>> /\ result = <<>> /\ cap = StartCap /\ run = "idle"
  BY DEF Init, ExpVarInit
<1>2. <<>> \in Text /\ Len(<<>>) = 0 /\ <<>> \in Seq(Char \cup {NUL}) /\ <<>> \in Seq(Token)
      /\ DOMAIN <<>> = {}
  BY DEF Text
<1>3. IInv
  BY <1>1, <1>2, InputAssumption, SizeAssumption DEF IInv, ExpTypeOK, BufferFits
<1>4. TurnInv
  BY <1>1 DEF TurnInv, ResultIsExpansion
<1>5. start \in 1..(Len(line) + 1) /\ cur \in 1..(Len(tokens) + 1)
  <2>1. line \in Text
    BY <1>1, WordsAssumption
  <2>2. Len(line) \in Nat
    BY <2>1 DEF Text
  <2> QED
    BY <1>1, <1>2, <2>2
<1>6. KindsOK(tokens) /\ Shape(phase, tokens, cur)
  BY <1>1, <1>2 DEF KindsOK, Shape
<1>7. WordInv
  BY <1>1, <1>2, <1>5, <1>6 DEF WordInv, Phases
<1> QED
  BY <1>1, <1>3, <1>4, <1>7 DEF RunInv

\* What the steps may rely on.
LEMMA WordFacts ==
    ASSUME IInv, WordInv
    PROVE  /\ line \in Text /\ Len(line) \in Nat /\ Len(tokens) \in Nat
           /\ DOMAIN tokens = 1..Len(tokens) /\ tokens \in Seq(Token)
           /\ cur \in 1..(Len(tokens) + 1) /\ start \in 1..(Len(line) + 1)
           /\ Valued(env) /\ status \in 0..255
<1>1. line \in Text
  BY WordsAssumption DEF WordInv
<1>2. Len(line) \in Nat
  BY <1>1 DEF Text
<1>3. tokens \in Seq(Token) /\ cur \in 1..(Len(tokens) + 1) /\ start \in 1..(Len(line) + 1)
  BY DEF WordInv
<1>4. Len(tokens) \in Nat /\ DOMAIN tokens = 1..Len(tokens)
  BY <1>3
<1>5. Valued(env) /\ status \in 0..255
  BY DEF IInv, ExpTypeOK, Valued
<1> QED
  BY <1>1, <1>2, <1>3, <1>4, <1>5

\* split_input.
LEMMA SplitKeeps ==
    ASSUME IInv, WordInv, ProcessSingleTokenBlock \/ SplitEnds
    PROVE  WordInv'
<1>1. /\ line \in Text /\ Len(line) \in Nat /\ Len(tokens) \in Nat
      /\ DOMAIN tokens = 1..Len(tokens) /\ tokens \in Seq(Token)
      /\ cur \in 1..(Len(tokens) + 1) /\ start \in 1..(Len(line) + 1)
  BY WordFacts
<1>2. phase = "split" /\ cur' = cur /\ line' = line /\ line \in Lines
  BY DEF ProcessSingleTokenBlock, SplitEnds, WordInv
<1>3. /\ \A k \in DOMAIN tokens : tokens[k].type = "word"
      /\ KindsOK(tokens)
  BY <1>2 DEF WordInv, Shape
<1>4. CASE ProcessSingleTokenBlock
  <2> DEFINE from == SkipSpaces
             n == GetTokenLen(SubSeq(line, SkipSpaces, Len(line)))
             t == CreateAndInitToken(from, n)
  <2>1. from \in 1..Len(line)
    <3>1. start \in Nat \ {0}
      BY <1>1
    <3>2. from \in Nat /\ (from = Len(line) + 1 \/ from \in start..Len(line)) /\ from <= Len(line)
      BY <1>1, <1>4, <3>1, NextAtIs DEF SkipSpaces, ProcessSingleTokenBlock
    <3> HIDE DEF from
    <3> QED
      BY <1>1, <3>1, <3>2
  <2>2. n \in 1..(Len(line) - from + 1)
    <3> DEFINE rest == SubSeq(line, from, Len(line))
    <3> HIDE DEF from
    <3>1. from \in Nat \ {0} /\ Len(line) \in Int /\ Len(line) <= Len(line) /\ from <= Len(line)
      BY <1>1, <2>1
    <3>2. rest \in Text
      BY <1>1, <3>1, PartIsText
    <3>3. Len(rest) = Len(line) - from + 1
      <4>1. \A i \in from..Len(line) : line[i] \in Char
        BY <1>1, <3>1 DEF Text
      <4> QED
        BY <3>1, <4>1, SubSeqProperties
    <3> HIDE DEF rest
    <3>4. Len(rest) >= 1
      BY <1>1, <2>1, <3>3
    <3>5. GetTokenLen(rest) \in 1..Len(rest)
      BY <3>2, <3>4, TokenLenFits
    <3> QED
      BY <3>3, <3>5 DEF rest, from
  <2>3. tokens' = Append(tokens, t) /\ start' = from + n /\ phase' = phase
    BY <1>4 DEF ProcessSingleTokenBlock
  <2> HIDE DEF from, n
  <2>4. t \in Token /\ t.type = "word" /\ t.rank = "C"
    BY <1>1, <2>1, <2>2, NewTokenIs
  <2> HIDE DEF t
  <2>5. start' \in 1..(Len(line) + 1)
    BY <1>1, <2>1, <2>2, <2>3
  <2>6. /\ tokens' \in Seq(Token) /\ Len(tokens') = Len(tokens) + 1
        /\ DOMAIN tokens' = 1..(Len(tokens) + 1)
        /\ \A k \in 1..Len(tokens) : tokens'[k] = tokens[k]
        /\ tokens'[Len(tokens) + 1] = t
    BY <1>1, <2>3, <2>4
  <2>7. \A k \in 1..(Len(tokens) + 1) : k \in 1..Len(tokens) \/ k = Len(tokens) + 1
    BY <1>1
  <2>8. /\ \A k \in DOMAIN tokens' : tokens'[k].type = "word"
        /\ KindsOK(tokens')
    <3>1. \A k \in DOMAIN tokens' : /\ tokens'[k].type = "word"
                                    /\ <<tokens'[k].type, tokens'[k].rank>> \in Kinds
      <4>1. <<"word", "C">> \in Kinds
        BY DEF Kinds
      <4> SUFFICES ASSUME NEW k \in 1..(Len(tokens) + 1)
                   PROVE  /\ tokens'[k].type = "word"
                          /\ <<tokens'[k].type, tokens'[k].rank>> \in Kinds
        BY <2>6
      <4>2. CASE k \in 1..Len(tokens)
        <5>1. tokens'[k] = tokens[k] /\ k \in DOMAIN tokens
          BY <1>1, <2>6, <4>2
        <5> QED
          BY <1>3, <5>1 DEF KindsOK
      <4>3. CASE k = Len(tokens) + 1
        BY <2>4, <2>6, <4>1, <4>3
      <4> QED
        BY <2>7, <4>2, <4>3
    <3> QED
      BY <3>1 DEF KindsOK
  <2>9. cur' \in 1..(Len(tokens') + 1)
    BY <1>1, <1>2, <2>6
  <2> QED
    BY <1>2, <2>3, <2>5, <2>6, <2>8, <2>9 DEF WordInv, Shape, Phases
<1>5. CASE SplitEnds
  <2>1. tokens' = tokens /\ start' = start /\ phase' \in {"empty", "quotes"}
    BY <1>5 DEF SplitEnds
  <2> QED
    BY <1>1, <1>2, <1>3, <2>1 DEF WordInv, Shape, Phases
<1> QED
  BY <1>4, <1>5

\* A loop over all tokens that leaves each a token.
LEMMA MapKeeps ==
    ASSUME NEW ts \in Seq(Token), NEW new, new = [k \in DOMAIN ts |-> new[k]],
           \A k \in DOMAIN ts : new[k] \in Token
    PROVE  new \in Seq(Token) /\ Len(new) = Len(ts) /\ DOMAIN new = DOMAIN ts
<1>1. DOMAIN ts = 1..Len(ts) /\ Len(ts) \in Nat
  OBVIOUS
<1> QED
  BY <1>1

\* quote_handler_call_loop and typealize_call_loop.
LEMMA LoopsKeep ==
    ASSUME IInv, WordInv, QuoteHandlerCallLoop \/ TypealizeCallLoop
    PROVE  WordInv'
<1>1. /\ line \in Text /\ Len(line) \in Nat /\ Len(tokens) \in Nat
      /\ DOMAIN tokens = 1..Len(tokens) /\ tokens \in Seq(Token)
      /\ cur \in 1..(Len(tokens) + 1) /\ start \in 1..(Len(line) + 1)
      /\ Valued(env) /\ status \in 0..255
  BY WordFacts
<1>2. /\ phase \in {"quotes", "types"} /\ cur' = cur /\ line' = line /\ line \in Lines
      /\ start' = start
  BY DEF QuoteHandlerCallLoop, TypealizeCallLoop, WordInv
<1>3. \A k \in DOMAIN tokens : tokens[k] \in Token
  BY <1>1
<1>4. \A k \in DOMAIN tokens : tokens[k].type = "word" /\ <<tokens[k].type, tokens[k].rank>> \in Kinds
  BY <1>2 DEF WordInv, Shape, KindsOK
<1>5. CASE QuoteHandlerCallLoop
  <2>1. tokens' = [k \in DOMAIN tokens |-> QuoteHandler(tokens[k], env)] /\ phase' = "types"
    BY <1>5 DEF QuoteHandlerCallLoop
  <2>2. ASSUME NEW k \in DOMAIN tokens
        PROVE  tokens'[k] \in Token /\ tokens'[k].type = "word"
               /\ <<tokens'[k].type, tokens'[k].rank>> \in Kinds
    <3>1. tokens'[k] = QuoteHandler(tokens[k], env)
      BY <2>1
    <3>2. /\ QuoteHandler(tokens[k], env) \in Token
          /\ QuoteHandler(tokens[k], env).type = tokens[k].type
          /\ QuoteHandler(tokens[k], env).rank = tokens[k].rank
      BY <1>1, <1>3, QuoteHandlerIs
    <3> QED
      BY <1>4, <3>1, <3>2
  <2>3. tokens' = [k \in DOMAIN tokens |-> tokens'[k]]
    BY <2>1
  <2>4. tokens' \in Seq(Token) /\ Len(tokens') = Len(tokens) /\ DOMAIN tokens' = DOMAIN tokens
    BY <1>1, <2>2, <2>3, MapKeeps
  <2>5. KindsOK(tokens') /\ Shape(phase', tokens', cur')
    BY <2>1, <2>2, <2>4 DEF KindsOK, Shape
  <2> QED
    BY <1>1, <1>2, <2>1, <2>4, <2>5 DEF WordInv, Phases
<1>6. CASE TypealizeCallLoop
  <2>1. tokens' = [k \in DOMAIN tokens |-> Typealize(tokens[k])] /\ phase' = "join"
    BY <1>6 DEF TypealizeCallLoop
  <2>2. ASSUME NEW k \in DOMAIN tokens
        PROVE  /\ tokens'[k] \in Token /\ tokens'[k].type # "assignment"
               /\ <<tokens'[k].type, tokens'[k].rank>> \in Kinds
               /\ IsOperator(tokens'[k]) => tokens'[k].value \in OperatorValues
    <3>1. tokens'[k] = Typealize(tokens[k])
      BY <2>1
    <3> QED
      BY <1>3, <1>4, <3>1, TypealizeIs
  <2>3. tokens' = [k \in DOMAIN tokens |-> tokens'[k]]
    BY <2>1
  <2>4. tokens' \in Seq(Token) /\ Len(tokens') = Len(tokens) /\ DOMAIN tokens' = DOMAIN tokens
    BY <1>1, <2>2, <2>3, MapKeeps
  <2>5. KindsOK(tokens') /\ Shape(phase', tokens', cur')
    BY <2>1, <2>2, <2>4 DEF KindsOK, Shape
  <2> QED
    BY <1>1, <1>2, <2>1, <2>4, <2>5 DEF WordInv, Phases
<1> QED
  BY <1>5, <1>6

\* perform_quote_concatenation and what input_handler does behind it.
LEMMA JoinKeeps ==
    ASSUME IInv, WordInv, PerformQuoteConcatenation \/ JoinEnds
    PROVE  WordInv'
<1>1. /\ line \in Text /\ Len(line) \in Nat /\ Len(tokens) \in Nat
      /\ DOMAIN tokens = 1..Len(tokens) /\ tokens \in Seq(Token)
      /\ cur \in 1..(Len(tokens) + 1) /\ start \in 1..(Len(line) + 1)
  BY WordFacts
<1>2. /\ phase = "join" /\ line' = line /\ line \in Lines /\ start' = start
  BY DEF PerformQuoteConcatenation, JoinEnds, WordInv
<1>3. /\ KindsOK(tokens)
      /\ \A k \in DOMAIN tokens :
            /\ tokens[k].type # "assignment" /\ <<tokens[k].type, tokens[k].rank>> \in Kinds
            /\ IsOperator(tokens[k]) => tokens[k].value \in OperatorValues
  BY <1>2 DEF WordInv, Shape, KindsOK
<1>4. CASE PerformQuoteConcatenation
  <2>1. phase' = phase /\ cur <= Len(tokens)
    BY <1>4 DEF PerformQuoteConcatenation
  <2>2. CASE cur' = cur + 1 /\ tokens' = tokens
    <3>1. cur' \in 1..(Len(tokens') + 1)
      BY <1>1, <2>1, <2>2
    <3>2. Shape(phase', tokens', cur')
      BY <1>2, <1>3, <2>1, <2>2 DEF Shape
    <3> QED
      BY <1>1, <1>2, <1>3, <2>1, <2>2, <3>1, <3>2 DEF WordInv, Phases
  <2>3. CASE /\ cur < Len(tokens) /\ ~IsOperator(tokens[cur]) /\ cur' = cur
             /\ tokens' = RemoveAt([tokens EXCEPT
                    ![cur].value = @ \o tokens[cur + 1].value,
                    ![cur].join = tokens[cur + 1].join], cur + 1)
    <3>1. cur \in 1..Len(tokens)
      BY <1>1, <2>1
    <3>2. /\ tokens' \in Seq(Token) /\ Len(tokens') = Len(tokens) - 1
          /\ \A k \in 1..Len(tokens') :
                IF k < cur THEN tokens'[k] = tokens[k]
                ELSE IF k = cur THEN /\ tokens'[k].type = tokens[k].type
                                     /\ tokens'[k].rank = tokens[k].rank
                ELSE tokens'[k] = tokens[k + 1]
      BY <1>1, <2>3, <3>1, JoinedIs
    <3>3. ASSUME NEW k \in 1..Len(tokens')
          PROVE  /\ tokens'[k].type # "assignment" /\ <<tokens'[k].type, tokens'[k].rank>> \in Kinds
                 /\ IsOperator(tokens'[k]) => tokens'[k].value \in OperatorValues
      <4>1. k \in DOMAIN tokens /\ k + 1 \in DOMAIN tokens
        BY <1>1, <3>2
      <4>2. CASE k < cur
        BY <1>3, <3>2, <4>1, <4>2
      <4>3. CASE k = cur
        BY <1>3, <2>3, <3>2, <4>1, <4>3 DEF IsOperator
      <4>4. CASE ~(k < cur) /\ k # cur
        BY <1>3, <3>2, <4>1, <4>4
      <4> QED
        BY <4>2, <4>3, <4>4
    <3>4. DOMAIN tokens' = 1..Len(tokens')
      BY <3>2
    <3>5. KindsOK(tokens') /\ Shape(phase', tokens', cur')
      BY <1>2, <2>1, <3>3, <3>4 DEF KindsOK, Shape
    <3>6. cur' \in 1..(Len(tokens') + 1)
      <4>1. Len(tokens') = Len(tokens) - 1 /\ cur' = cur /\ cur < Len(tokens)
        BY <2>3, <3>2
      <4>2. Len(tokens') + 1 = Len(tokens)
        BY <1>1, <4>1
      <4>3. cur \in 1..Len(tokens)
        BY <1>1, <4>1
      <4> QED
        BY <4>1, <4>2, <4>3
    <3> QED
      BY <1>1, <1>2, <2>1, <3>2, <3>5, <3>6 DEF WordInv, Phases
  <2> QED
    BY <1>4, <2>2, <2>3 DEF PerformQuoteConcatenation
<1>5. CASE JoinEnds
  <2>1. tokens' = tokens /\ cur' = 1 /\ phase' \in {"rejected", "assign"}
    BY <1>5 DEF JoinEnds
  <2>2. \A k \in DOMAIN tokens : ~(k < 1)
    BY <1>1
  <2>3. Shape(phase', tokens', cur')
    BY <1>3, <2>1, <2>2 DEF Shape
  <2>4. cur' \in 1..(Len(tokens') + 1)
    BY <1>1, <2>1
  <2> QED
    BY <1>1, <1>2, <1>3, <2>1, <2>3, <2>4 DEF WordInv, Phases
<1> QED
  BY <1>4, <1>5

\* apply_assignments.
LEMMA AssignKeeps ==
    ASSUME IInv, WordInv, ApplyVariableAssignment \/ AssignmentsEnd
    PROVE  WordInv'
<1>1. /\ line \in Text /\ Len(line) \in Nat /\ Len(tokens) \in Nat
      /\ DOMAIN tokens = 1..Len(tokens) /\ tokens \in Seq(Token)
      /\ cur \in 1..(Len(tokens) + 1) /\ start \in 1..(Len(line) + 1)
  BY WordFacts
<1>2. /\ phase = "assign" /\ line' = line /\ line \in Lines /\ start' = start
  BY DEF ApplyVariableAssignment, AssignmentsEnd, WordInv
<1>3. /\ KindsOK(tokens)
      /\ \A k \in DOMAIN tokens :
            /\ tokens[k].type = "assignment" <=> k < cur
            /\ <<tokens[k].type, tokens[k].rank>> \in Kinds
            /\ IsOperator(tokens[k]) => tokens[k].value \in OperatorValues
  BY <1>2 DEF WordInv, Shape, KindsOK
<1>4. CASE ApplyVariableAssignment
  <2> DEFINE t == [tokens[cur] EXCEPT !.type = "assignment"]
  <2>1. /\ phase' = phase /\ cur <= Len(tokens) /\ IsValidAssignment(tokens[cur].value)
        /\ cur' = cur + 1 /\ tokens' = [tokens EXCEPT ![cur].type = "assignment"]
    BY <1>4 DEF ApplyVariableAssignment
  <2>2. cur \in 1..Len(tokens) /\ tokens[cur] \in Token /\ cur' \in 1..(Len(tokens) + 1)
    BY <1>1, <2>1
  <2>3. t \in Token /\ t.type = "assignment" /\ t.rank = tokens[cur].rank /\ t.value = tokens[cur].value
    BY <2>2 DEF Token, Types
  <2>4. tokens[cur].value \in Text
    BY <2>2 DEF Token
  <2>5. ~IsOperator(tokens[cur])
    BY <1>1, <1>3, <2>1, <2>2, <2>4, AssignmentIs
  <2>6. <<t.type, t.rank>> \in Kinds
    <3>1. tokens[cur].rank \in {"B", "C"}
      BY <1>1, <1>3, <2>2, <2>5 DEF Kinds, IsOperator
    <3> QED
      BY <2>3, <3>1 DEF Kinds
  <2>7. tokens' = [tokens EXCEPT ![cur] = t]
    BY <2>1
  <2> HIDE DEF t
  <2>8. /\ tokens' \in Seq(Token) /\ Len(tokens') = Len(tokens) /\ DOMAIN tokens' = DOMAIN tokens
        /\ tokens'[cur] = t /\ \A k \in DOMAIN tokens : k # cur => tokens'[k] = tokens[k]
    BY <1>1, <2>2, <2>3, <2>7
  <2>9. ASSUME NEW k \in DOMAIN tokens
        PROVE  /\ tokens'[k].type = "assignment" <=> k < cur'
               /\ <<tokens'[k].type, tokens'[k].rank>> \in Kinds
               /\ IsOperator(tokens'[k]) => tokens'[k].value \in OperatorValues
    <3>1. CASE k = cur
      <4>1. k < cur'
        BY <2>1, <2>2, <3>1
      <4> QED
        BY <2>3, <2>6, <2>8, <3>1, <4>1 DEF IsOperator
    <3>2. CASE k # cur
      <4>1. k < cur' <=> k < cur
        BY <1>1, <2>1, <2>2, <3>2
      <4> QED
        BY <1>3, <2>8, <3>2, <4>1
    <3> QED
      BY <3>1, <3>2
  <2>10. KindsOK(tokens')
    <3>1. ASSUME NEW k \in DOMAIN tokens, k < cur', NEW j \in 1..k
          PROVE  j \in DOMAIN tokens /\ j < cur'
      BY <1>1, <2>2, <3>1
    <3> QED
      BY <2>8, <2>9, <3>1 DEF KindsOK
  <2>11. Shape(phase', tokens', cur')
    BY <1>2, <2>1, <2>8, <2>9 DEF Shape
  <2> QED
    BY <1>1, <1>2, <2>1, <2>2, <2>8, <2>10, <2>11 DEF WordInv, Phases
<1>5. CASE AssignmentsEnd
  <2>1. tokens' = tokens /\ cur' = 1 /\ phase' = "expand"
    BY <1>5 DEF AssignmentsEnd
  <2>2. cur' \in 1..(Len(tokens') + 1)
    BY <1>1, <2>1
  <2> QED
    BY <1>1, <1>2, <1>3, <2>1, <2>2 DEF WordInv, Phases, Shape
<1> QED
  BY <1>4, <1>5

\* The expansions, between the calls of the expander and during them.
LEMMA ExpandKeeps ==
    ASSUME IInv, TurnInv, WordInv, SkipToken \/ ExpandToken \/ ExpandVariables \/ StoreExpansion
    PROVE  WordInv'
<1>1. /\ line \in Text /\ Len(line) \in Nat /\ Len(tokens) \in Nat
      /\ DOMAIN tokens = 1..Len(tokens) /\ tokens \in Seq(Token)
      /\ cur \in 1..(Len(tokens) + 1) /\ start \in 1..(Len(line) + 1)
  BY WordFacts
<1>2. KindsOK(tokens) /\ line \in Lines
  BY DEF WordInv
<1>3. CASE SkipToken
  <2>1. /\ tokens' = tokens /\ cur' = cur + 1 /\ phase' = "expand" /\ cur <= Len(tokens)
        /\ line' = line /\ start' = start
    BY <1>3 DEF SkipToken
  <2>2. cur' \in 1..(Len(tokens') + 1)
    BY <1>1, <2>1
  <2> QED
    BY <1>1, <1>2, <2>1, <2>2 DEF WordInv, Phases, Shape
<1>4. CASE ExpandToken
  <2>1. /\ tokens' = tokens /\ cur' = cur /\ phase' = "expanding" /\ cur <= Len(tokens)
        /\ line' = line /\ start' = start
    BY <1>4 DEF ExpandToken
  <2>2. cur' \in DOMAIN tokens'
    BY <1>1, <2>1
  <2> QED
    BY <1>1, <1>2, <2>1, <2>2 DEF WordInv, Phases, Shape
<1>5. CASE ExpandVariables
  BY <1>5 DEF ExpandVariables, wordVars, WordInv, Phases, Shape
<1>6. CASE StoreExpansion
  <2>1. /\ phase = "expanding" /\ cur' = cur + 1 /\ phase' = "expand"
        /\ line' = line /\ start' = start
        /\ tokens' = IF run = "done" THEN [tokens EXCEPT ![cur].value = Front(result)] ELSE tokens
    BY <1>6 DEF StoreExpansion
  <2>2. cur \in DOMAIN tokens
    BY <2>1 DEF WordInv, Shape
  <2>3. ASSUME run = "done" PROVE Front(result) \in Text
    <3>1. PICK t \in Text : result = Append(t, NUL)
      BY <2>3 DEF TurnInv
    <3>2. Front(result) = t
      <4>1. t \in Seq(Char \cup {NUL}) /\ NUL \in Char \cup {NUL}
        BY DEF Text
      <4>2. /\ Append(t, NUL) \in Seq(Char \cup {NUL}) /\ Len(Append(t, NUL)) = Len(t) + 1
            /\ \A i \in 1..Len(t) : Append(t, NUL)[i] = t[i]
        BY <4>1
      <4>3. Len(t) \in Nat /\ Len(t) + 1 - 1 = Len(t) /\ Len(t) <= Len(t) + 1
        BY <4>1
      <4>4. Front(result) = SubSeq(result, 1, Len(t))
        BY <3>1, <4>2, <4>3 DEF Front
      <4> QED
        BY <3>1, <4>1, <4>2, <4>3, <4>4
    <3> QED
      BY <3>2
  <2>4. tokens' \in Seq(Token) /\ Len(tokens') = Len(tokens) /\ DOMAIN tokens' = DOMAIN tokens
        /\ \A k \in DOMAIN tokens : tokens'[k].type = tokens[k].type /\ tokens'[k].rank = tokens[k].rank
    <3>1. CASE run = "done"
      <4> DEFINE t == [tokens[cur] EXCEPT !.value = Front(result)]
      <4>1. tokens[cur] \in Token
        BY <1>1, <2>2
      <4>2. t \in Token /\ t.type = tokens[cur].type /\ t.rank = tokens[cur].rank
        BY <2>3, <3>1, <4>1 DEF Token
      <4>3. tokens' = [tokens EXCEPT ![cur] = t]
        BY <2>1, <3>1
      <4> HIDE DEF t
      <4> QED
        BY <1>1, <2>2, <4>2, <4>3
    <3>2. CASE run # "done"
      BY <1>1, <2>1, <3>2
    <3> QED
      BY <3>1, <3>2
  <2>5. KindsOK(tokens')
    <3>1. \A k \in DOMAIN tokens : \A j \in 1..k : j \in DOMAIN tokens
      BY <1>1
    <3> QED
      BY <1>2, <2>4, <3>1 DEF KindsOK
  <2>6. cur' \in 1..(Len(tokens') + 1)
    BY <1>1, <2>1, <2>2, <2>4
  <2> QED
    BY <1>1, <1>2, <2>1, <2>4, <2>5, <2>6 DEF WordInv, Phases, Shape
<1> QED
  BY <1>3, <1>4, <1>5, <1>6

\* parser_cmd_no_found.
LEMMA FoundKeeps ==
    ASSUME IInv, WordInv, ParserCmdNoFound
    PROVE  WordInv'
<1>1. /\ line \in Text /\ Len(line) \in Nat /\ Len(tokens) \in Nat
      /\ DOMAIN tokens = 1..Len(tokens) /\ tokens \in Seq(Token)
      /\ cur \in 1..(Len(tokens) + 1) /\ start \in 1..(Len(line) + 1)
  BY WordFacts
<1>2. KindsOK(tokens) /\ line \in Lines
  BY DEF WordInv
<1>3. /\ tokens' = [k \in DOMAIN tokens |-> CommandOrWord(tokens[k])] /\ phase' = "ready"
      /\ line' = line /\ start' = start /\ cur' = cur
  BY DEF ParserCmdNoFound
<1>4. ASSUME NEW k \in DOMAIN tokens
      PROVE  /\ tokens'[k] \in Token /\ <<tokens'[k].type, tokens'[k].rank>> \in Kinds
             /\ tokens'[k].type = "assignment" <=> tokens[k].type = "assignment"
  <2>1. tokens[k] \in Token /\ <<tokens[k].type, tokens[k].rank>> \in Kinds
    BY <1>1, <1>2 DEF KindsOK
  <2>2. tokens'[k] = CommandOrWord(tokens[k])
    BY <1>3
  <2> QED
    BY <2>1, <2>2, CommandOrWordIs
<1>5. tokens' = [k \in DOMAIN tokens |-> tokens'[k]]
  BY <1>3
<1>6. tokens' \in Seq(Token) /\ Len(tokens') = Len(tokens) /\ DOMAIN tokens' = DOMAIN tokens
  BY <1>1, <1>4, <1>5, MapKeeps
<1>7. KindsOK(tokens')
  <2>1. \A k \in DOMAIN tokens : \A j \in 1..k : j \in DOMAIN tokens
    BY <1>1
  <2> QED
    BY <1>2, <1>4, <1>6, <2>1 DEF KindsOK
<1> QED
  BY <1>1, <1>2, <1>3, <1>6, <1>7 DEF WordInv, Phases, Shape

-----------------------------------------------------------------------------
(***************************************************************************)
(* The invariant, and what it says.                                        *)
(***************************************************************************)
\* The steps outside the expander's buffer leave it, and what it works on, alone.
Elsewhere == \/ ProcessSingleTokenBlock \/ SplitEnds \/ QuoteHandlerCallLoop
             \/ TypealizeCallLoop \/ PerformQuoteConcatenation \/ AssignmentsEnd
             \/ SkipToken \/ StoreExpansion \/ ParserCmdNoFound

\* They keep what holds for the expander.
LEMMA ElsewhereKeeps ==
    ASSUME IInv, TurnInv, RunInv, Elsewhere
    PROVE  IInv' /\ TurnInv' /\ RunInv'
<1>1. UNCHANGED <<shared, expVars>>
  BY DEF Elsewhere, ProcessSingleTokenBlock, SplitEnds, QuoteHandlerCallLoop, TypealizeCallLoop,
         PerformQuoteConcatenation, AssignmentsEnd, SkipToken, StoreExpansion, ParserCmdNoFound
<1>2. IInv' /\ TurnInv'
  BY <1>1, NextInv, NextTurn
<1>3. run' = run
  BY <1>1 DEF expVars
<1>4. phase' \in Before => phase \in Before
  BY DEF Elsewhere, ProcessSingleTokenBlock, SplitEnds, QuoteHandlerCallLoop, TypealizeCallLoop,
         PerformQuoteConcatenation, AssignmentsEnd, SkipToken, StoreExpansion, ParserCmdNoFound,
         Before
<1>5. run # "on"
  BY DEF Elsewhere, ProcessSingleTokenBlock, SplitEnds, QuoteHandlerCallLoop, TypealizeCallLoop,
         PerformQuoteConcatenation, AssignmentsEnd, SkipToken, StoreExpansion, ParserCmdNoFound,
         RunInv
<1> QED
  BY <1>2, <1>3, <1>4, <1>5 DEF RunInv

\* What input_handler changes of the environment and the status, it changes while
\* the expander is idle.
LEMMA SharedKeeps ==
    ASSUME IInv, TurnInv, WordInv, RunInv, JoinEnds \/ ApplyVariableAssignment
    PROVE  IInv' /\ TurnInv' /\ RunInv'
<1>1. UNCHANGED expVars /\ phase \in Before /\ phase' \in Before \cup {"assign"}
  BY DEF JoinEnds, ApplyVariableAssignment, Before
<1>2. run = "idle" /\ run' = "idle"
  BY <1>1 DEF RunInv, expVars
<1>3. RunInv'
  BY <1>2 DEF RunInv
<1>4. TurnInv'
  BY <1>2 DEF TurnInv, ResultIsExpansion
<1>5. /\ Valued(env) /\ status \in 0..255 /\ DOMAIN tokens = 1..Len(tokens) /\ Len(tokens) \in Nat
      /\ tokens \in Seq(Token) /\ cur \in 1..(Len(tokens) + 1)
  BY WordFacts
<1>6. status' \in 0..255 /\ Valued(env')
  <2>1. CASE JoinEnds
    <3>1. status' \in {2, status} /\ env' = env
      BY <2>1 DEF JoinEnds
    <3> QED
      BY <1>5, <3>1
  <2>2. CASE ApplyVariableAssignment
    <3> DEFINE s == tokens[cur].value
    <3>1. /\ status' = status /\ cur <= Len(tokens) /\ IsValidAssignment(s) /\ env' = UpdateEnv(s)
      BY <2>2 DEF ApplyVariableAssignment
    <3>2. tokens[cur] \in Token
      BY <1>5, <3>1
    <3>3. s \in Text
      BY <3>2 DEF Token
    <3> HIDE DEF s
    <3>4. SubSeq(s, EqualsAt(s) + 1, Len(s)) \in Text
      BY <3>1, <3>3, AssignmentIs
    <3>5. env' = [n \in DOMAIN env \cup {SubSeq(s, 1, EqualsAt(s) - 1)} |->
                    IF n = SubSeq(s, 1, EqualsAt(s) - 1)
                    THEN SubSeq(s, EqualsAt(s) + 1, Len(s)) ELSE env[n]]
      BY <3>1, AssignmentParts
    <3>6. Valued(env')
      BY <1>5, <3>4, <3>5 DEF Valued
    <3> QED
      BY <1>5, <3>1, <3>6
  <2> QED
    BY <2>1, <2>2
<1>7. IInv'
  BY <1>1, <1>6 DEF IInv, ExpTypeOK, BufferFits, expVars, Valued
<1> QED
  BY <1>3, <1>4, <1>7

\* A call of the expander.
LEMMA CallKeeps ==
    ASSUME IInv, TurnInv, WordInv, RunInv, ExpandToken
    PROVE  IInv' /\ TurnInv' /\ RunInv'
<1> DEFINE s == tokens[cur].value
<1>1. /\ Valued(env) /\ status \in 0..255 /\ DOMAIN tokens = 1..Len(tokens) /\ Len(tokens) \in Nat
      /\ tokens \in Seq(Token) /\ cur \in 1..(Len(tokens) + 1) /\ cur <= Len(tokens)
  BY WordFacts DEF ExpandToken
<1>2. /\ env' = env /\ status' = status /\ fails' = fails /\ input' = s /\ pos' = 1
      /\ pending' = <<>> /\ result' = <<>> /\ cap' = StartCap /\ run' = "on"
      /\ phase' = "expanding"
  BY DEF ExpandToken, ExpVarInit, shared
<1>3. tokens[cur] \in Token
  BY <1>1
<1>4. s \in Text /\ Len(s) \in Nat /\ <<>> \in Text /\ <<>> \in Seq(Char \cup {NUL})
  <2>1. s \in Text
    BY <1>3 DEF Token
  <2> HIDE DEF s
  <2> QED
    BY <2>1 DEF Text
<1> HIDE DEF s
<1>5. pos' \in 1..(Len(input') + 1)
  BY <1>2, <1>4
<1>6. IInv'
  <2>1. fails' \in 0..MaxFail
    BY <1>2 DEF IInv, ExpTypeOK
  <2>2. Len(result') < cap' /\ cap' \in Nat
    BY <1>2, SizeAssumption
  <2> QED
    BY <1>1, <1>2, <1>4, <1>5, <2>1, <2>2 DEF IInv, ExpTypeOK, BufferFits, Valued
<1>7. TurnInv'
  <2>1. \E f \in [1..(Len(s) + 1) -> Text] :
            /\ ReadsText(f, s, env, status) /\ Expansion(s, env, status) = f[1]
            /\ (<<>> \o <<>>) \o f[1] = f[1]
    BY <1>1, <1>4, CallIsHalfway DEF Valued
  <2>2. Halfway(result, pending, pos)'
    BY <1>2, <2>1 DEF Halfway
  <2> QED
    BY <1>2, <1>4, <2>2 DEF TurnInv, ResultIsExpansion
<1> QED
  BY <1>2, <1>6, <1>7 DEF RunInv, Before

\* A turn of the expander, or its end.
LEMMA TurnKeeps ==
    ASSUME IInv, TurnInv, RunInv, ExpandVariables
    PROVE  IInv' /\ TurnInv' /\ RunInv'
<1>1. ExpNext /\ phase = "expanding" /\ phase' = "expanding"
  BY DEF ExpandVariables, wordVars
<1>2. IInv' /\ TurnInv'
  BY <1>1, NextInv, NextTurn
<1> QED
  BY <1>1, <1>2 DEF RunInv, Before

\* All of it is kept.
LEMMA NextWords ==
    IInv /\ TurnInv /\ WordInv /\ RunInv /\ [Next]_vars
        => IInv' /\ TurnInv' /\ WordInv' /\ RunInv'
<1> SUFFICES ASSUME IInv, TurnInv, WordInv, RunInv, [Next]_vars
             PROVE  IInv' /\ TurnInv' /\ WordInv' /\ RunInv'
  OBVIOUS
<1>1. CASE UNCHANGED vars
  <2>1. UNCHANGED <<shared, expVars>> /\ UNCHANGED wordVars
    BY <1>1 DEF vars
  <2>2. IInv' /\ TurnInv'
    BY <2>1, NextInv, NextTurn
  <2> QED
    BY <2>1, <2>2 DEF WordInv, RunInv, Shape, KindsOK, wordVars, expVars
<1>2. CASE Next
  <2>1. Elsewhere \/ JoinEnds \/ ApplyVariableAssignment \/ ExpandToken \/ ExpandVariables
    BY <1>2 DEF Next, Elsewhere
  <2>2. IInv' /\ TurnInv' /\ RunInv'
    BY <2>1, ElsewhereKeeps, SharedKeeps, CallKeeps, TurnKeeps
  <2>3. WordInv'
    BY <1>2, SplitKeeps, LoopsKeep, JoinKeeps, AssignKeeps, ExpandKeeps, FoundKeeps DEF Next
  <2> QED
    BY <2>2, <2>3
<1> QED
  BY <1>1, <1>2

\* In every state.
LEMMA WordsInvariance == Spec => [](IInv /\ TurnInv /\ WordInv /\ RunInv)
BY InitWords, NextWords, PTL DEF Spec

\* The types, on the way from the line to the tokens: the place of split_input
\* stays in the line and each loop's token in the list; and init_yggdrasil is
\* handed tokens of the kinds it knows, the assignments first.
THEOREM TypesAlways == Spec => []TypeOK
<1>1. IInv /\ WordInv => TypeOK
  BY DEF IInv, WordInv, TypeOK, HandedOver, KindsOK, Phases
<1> QED
  BY <1>1, WordsInvariance, PTL

\* In the whole of it, too, the expander writes inside its buffer only: for every
\* line, and every token that quotes and joins make of it.
THEOREM LineBufferFits == Spec => []BufferFits
<1>1. IInv => BufferFits
  BY DEF IInv
<1> QED
  BY <1>1, WordsInvariance, PTL

\* And the tokens it expands become what their text stands for.
THEOREM LineIsExpanded == Spec => []ResultIsExpansion
<1>1. TurnInv => ResultIsExpansion
  BY DEF TurnInv
<1> QED
  BY <1>1, WordsInvariance, PTL

\* quote_handler_cpy fills the buffer that quote_handler_counter measured, and does
\* not write behind it: the two passes count the same.
THEOREM CopyFitsAlways == Spec => []CopyFits
<1>1. IInv /\ WordInv => CopyFits
  <2> SUFFICES ASSUME IInv, WordInv, NEW k \in DOMAIN tokens
               PROVE  LET text == Trim(tokens[k].value, {"\""})
                      IN  Len(CopyExpansions(text, env)) <= QuoteHandlerCounter(text, env)
    BY DEF CopyFits
  <2> DEFINE text == Trim(tokens[k].value, {"\""})
  <2>1. tokens[k] \in Token /\ Valued(env)
    BY WordFacts
  <2>2. tokens[k].value \in Text
    BY <2>1 DEF Token
  <2>3. text \in Text
    BY <2>2, TrimIsText
  <2> HIDE DEF text
  <2>4. CopyExpansions(text, env) \in Text
        /\ QuoteHandlerCounter(text, env) = Len(CopyExpansions(text, env))
    BY <2>1, <2>3, CopyAndCount DEF Valued
  <2>5. Len(CopyExpansions(text, env)) \in Nat
    BY <2>4 DEF Text
  <2>6. \A n \in Nat : n <= n
    OBVIOUS
  <2>7. Len(CopyExpansions(text, env)) <= QuoteHandlerCounter(text, env)
    BY <2>4, <2>5, <2>6
  <2> QED
    BY <2>7 DEF text
<1> QED
  BY <1>1, WordsInvariance, PTL

-----------------------------------------------------------------------------
(***************************************************************************)
(* The assignments and the environment.                                    *)
(***************************************************************************)
AssignedOf(ts) == {k \in DOMAIN ts : ts[k].type = "assignment"}
NameIn(ts, k) == SubSeq(ts[k].value, 1, EqualsAt(ts[k].value) - 1)
NamesIn(ts) == {NameIn(ts, k) : k \in AssignedOf(ts)}
Giving(ts, n) == {k \in AssignedOf(ts) : NameIn(ts, k) = n}

\* An environment is another one and what the tokens assign, the last of two
\* assignments of a name winning.
InForce(en, ts, e) ==
    /\ DOMAIN en = DOMAIN e \cup NamesIn(ts)
    /\ \A n \in DOMAIN en :
          IF Giving(ts, n) = {} THEN en[n] = e[n]
          ELSE ts[Max(Giving(ts, n))].value = n \o <<"=">> \o en[n]

\* Those are the tokens up to the first that is no assignment.
ThoseAtTheStart(ts) ==
    \A k \in DOMAIN ts :
        (\A j \in 1..k : IsValidAssignment(ts[j].value)) <=> k \in AssignedOf(ts)

AssignInv ==
    /\ phase \in {"split", "quotes", "types", "join"} => env \in Envs
    /\ phase \in {"assign", "expand", "expanding", "ready"} =>
          \E e \in Envs : InForce(env, tokens, e)
    /\ phase = "assign" => \A k \in AssignedOf(tokens) : IsValidAssignment(tokens[k].value)
    /\ phase = "expand" /\ cur = 1 => ThoseAtTheStart(tokens)
    /\ phase = "expanding" => tokens[cur].type # "assignment"

\* The characters of a part of a text.
LEMMA PartOfText ==
    ASSUME NEW s \in Text, NEW x \in Nat \ {0}, NEW y \in Int, y <= Len(s)
    PROVE  /\ SubSeq(s, x, y) \in Seq(Char)
           /\ Len(SubSeq(s, x, y)) = IF x <= y THEN y - x + 1 ELSE 0
           /\ \A i \in 1..(y - x + 1) : SubSeq(s, x, y)[i] = s[x + i - 1]
<1>1. \A i \in x..y : s[i] \in Char
  BY DEF Text
<1> QED
  BY <1>1, SubSeqProperties

\* A text is what is before a place, the character there and what is behind it.
LEMMA PartsOfText ==
    ASSUME NEW s \in Text, NEW p \in 2..Len(s)
    PROVE  s = SubSeq(s, 1, p - 1) \o <<s[p]>> \o SubSeq(s, p + 1, Len(s))
<1> DEFINE a == SubSeq(s, 1, p - 1)
           m == <<s[p]>>
           b == SubSeq(s, p + 1, Len(s))
           n == Len(s)
<1>1. n \in Nat /\ s \in Seq(Char) /\ p \in Nat /\ 2 <= p /\ p <= n /\ p \in 1..n
  <2>1. n \in Nat /\ s \in Seq(Char)
    BY DEF Text
  <2> HIDE DEF n
  <2>2. p \in 2..n
    BY DEF n
  <2> QED
    BY <2>1, <2>2
<1>2. \A i \in 1..n : s[i] \in Char
  BY <1>1
<1>3. a \in Seq(Char) /\ Len(a) = p - 1 /\ \A i \in 1..(p - 1) : a[i] = s[i]
  <2> HIDE DEF n
  <2>1. \A i \in 1..(p - 1) : s[i] \in Char
    BY <1>1, <1>2
  <2>2. 1 \in Int /\ p - 1 \in Int /\ 1 <= p - 1 /\ p - 1 - 1 + 1 = p - 1
        /\ \A i \in 1..(p - 1) : 1 + i - 1 = i
    BY <1>1
  <2>3. /\ a \in Seq(Char)
        /\ Len(a) = IF 1 <= p - 1 THEN p - 1 - 1 + 1 ELSE 0
        /\ \A i \in 1..(p - 1 - 1 + 1) : a[i] = s[1 + i - 1]
    BY <2>1, <2>2, SubSeqProperties
  <2> HIDE DEF a
  <2> QED
    BY <2>2, <2>3
<1>4. b \in Seq(Char) /\ Len(b) = n - p /\ \A i \in 1..(n - p) : b[i] = s[p + i]
  <2>2. /\ p + 1 \in Nat \ {0} /\ n \in Int /\ n <= n /\ n - (p + 1) + 1 = n - p /\ (~(p + 1 <= n) => n - p = 0)
        /\ \A i \in 1..(n - p) : (p + 1) + i - 1 = p + i
    <3> HIDE DEF n
    <3> QED
      BY <1>1
  <2>3. /\ b \in Seq(Char)
        /\ Len(b) = IF p + 1 <= n THEN n - (p + 1) + 1 ELSE 0
        /\ \A i \in 1..(n - (p + 1) + 1) : b[i] = s[(p + 1) + i - 1]
    <3>1. n <= Len(s) /\ b = SubSeq(s, p + 1, n)
      BY <2>2
    <3> HIDE DEF b, n
    <3> QED
      BY <2>2, <3>1, PartOfText
  <2> HIDE DEF b, n
  <2> QED
    BY <2>2, <2>3
<1>5. m \in Seq(Char) /\ Len(m) = 1 /\ m[1] = s[p]
  BY <1>1, <1>2
<1>6. b = SubSeq(s, p + 1, Len(s)) /\ a = SubSeq(s, 1, p - 1) /\ m = <<s[p]>>
  OBVIOUS
<1> HIDE DEF a, b, m, n
<1>7. PICK am \in Seq(Char) : am = a \o m /\ Len(am) = p
                              /\ \A i \in 1..p : am[i] = s[i]
  <2>1. /\ a \o m \in Seq(Char) /\ Len(a \o m) = Len(a) + Len(m)
        /\ \A i \in 1..(Len(a) + Len(m)) :
              (a \o m)[i] = IF i <= Len(a) THEN a[i] ELSE m[i - Len(a)]
    BY <1>3, <1>5, ConcatProperties
  <2>2. PICK am \in Seq(Char) : am = a \o m
    BY <2>1
  <2>3. Len(am) = p - 1 + 1 /\ p - 1 + 1 = p
    BY <1>1, <1>3, <1>5, <2>1, <2>2
  <2>4. \A i \in 1..p : am[i] = IF i <= p - 1 THEN a[i] ELSE m[i - (p - 1)]
    BY <1>3, <1>5, <2>1, <2>2, <2>3
  <2>5. ASSUME NEW i \in 1..p PROVE am[i] = s[i]
    <3>1. CASE i <= p - 1
      <4>1. i \in 1..(p - 1)
        BY <1>1, <3>1
      <4> QED
        BY <1>3, <2>4, <3>1, <4>1
    <3>2. CASE ~(i <= p - 1)
      <4>1. i = p /\ i - (p - 1) = 1
        BY <1>1, <3>2
      <4> QED
        BY <1>5, <2>4, <3>2, <4>1
    <3> QED
      BY <3>1, <3>2
  <2> QED
    BY <2>2, <2>3, <2>5
<1>8. am \o b = s
  <2>1. /\ am \o b \in Seq(Char) /\ Len(am \o b) = Len(am) + Len(b)
        /\ \A i \in 1..(Len(am) + Len(b)) :
              (am \o b)[i] = IF i <= Len(am) THEN am[i] ELSE b[i - Len(am)]
    <3>1. am \in Seq(Char) /\ b \in Seq(Char)
      BY <1>4, <1>7
    <3> QED
      BY <3>1, ConcatProperties
  <2>2. PICK w \in Seq(Char) : w = am \o b
    BY <2>1
  <2>3. Len(w) = n
    <3>1. Len(w) = p + (n - p)
      BY <1>4, <1>7, <2>1, <2>2
    <3> QED
      BY <1>1, <3>1
  <2>4. Len(am) + Len(b) = n
    BY <2>1, <2>2, <2>3
  <2>5. ASSUME NEW i \in 1..n PROVE w[i] = s[i]
    <3>1. w[i] = IF i <= p THEN am[i] ELSE b[i - p]
      BY <1>7, <2>1, <2>2, <2>4
    <3>2. CASE i <= p
      <4>1. i \in 1..p
        BY <1>1, <3>2
      <4> QED
        BY <1>7, <3>1, <3>2, <4>1
    <3>3. CASE ~(i <= p)
      <4>1. i - p \in 1..(n - p) /\ p + (i - p) = i
        BY <1>1, <3>3
      <4> QED
        BY <1>4, <3>1, <3>3, <4>1
    <3> QED
      BY <3>2, <3>3
  <2>6. Len(s) = n
    BY DEF n
  <2>7. w = s
    <3>1. DOMAIN w = 1..n /\ DOMAIN s = 1..n /\ w = [i \in DOMAIN w |-> w[i]]
          /\ s = [i \in DOMAIN s |-> s[i]]
      BY <1>1, <2>3, <2>6
    <3> QED
      BY <2>5, <3>1
  <2> QED
    BY <2>2, <2>7
<1>9. (a \o m) \o b = s
  BY <1>7, <1>8
<1> QED
  BY <1>6, <1>9

\* Other tokens, but the same assignments.
LEMMA SameInForce ==
    ASSUME NEW ts \in Seq(Token), NEW us, NEW en, NEW e,
           AssignedOf(us) = AssignedOf(ts),
           \A k \in AssignedOf(ts) : us[k].value = ts[k].value,
           InForce(en, ts, e)
    PROVE  InForce(en, us, e)
<1>1. \A k \in AssignedOf(ts) : NameIn(us, k) = NameIn(ts, k)
  BY DEF NameIn
<1>2. NamesIn(us) = NamesIn(ts) /\ \A n : Giving(us, n) = Giving(ts, n)
  BY <1>1 DEF NamesIn, Giving
<1>3. \A n : Giving(ts, n) # {} => Max(Giving(ts, n)) \in AssignedOf(ts)
  <2> SUFFICES ASSUME NEW n, Giving(ts, n) # {} PROVE Max(Giving(ts, n)) \in AssignedOf(ts)
    OBVIOUS
  <2>1. Giving(ts, n) \subseteq AssignedOf(ts) /\ AssignedOf(ts) \subseteq DOMAIN ts
    BY DEF Giving, AssignedOf
  <2>2. Len(ts) \in Nat /\ DOMAIN ts = 1..Len(ts)
    OBVIOUS
  <2>3. Giving(ts, n) \in SUBSET (0..Len(ts))
    BY <2>1, <2>2
  <2>4. Max(Giving(ts, n)) \in Giving(ts, n)
    BY <2>2, <2>3, GreatestOf
  <2> QED
    BY <2>1, <2>4
<1> QED
  BY <1>2, <1>3 DEF InForce

\* An environment to which nothing is assigned.
LEMMA NothingAssigned ==
    ASSUME NEW ts, NEW e, AssignedOf(ts) = {}
    PROVE  InForce(e, ts, e)
BY DEF InForce, NamesIn, Giving

\* One more assignment, behind the others.
LEMMA OneMore ==
    ASSUME NEW ts \in Seq(Token), NEW us, NEW c \in 1..Len(ts), NEW e,
           AssignedOf(ts) = 1..(c - 1), AssignedOf(us) = 1..c,
           \A k \in 1..c : us[k].value = ts[k].value,
           ts[c].value \in Text, IsValidAssignment(ts[c].value),
           InForce(env, ts, e)
    PROVE  InForce(UpdateEnv(ts[c].value), us, e)
<1> DEFINE s == ts[c].value
           p == EqualsAt(s)
           name == SubSeq(s, 1, p - 1)
           value == SubSeq(s, p + 1, Len(s))
           new == UpdateEnv(s)
<1>1. p \in 2..Len(s) /\ s[p] = "="
  BY AssignmentIs
<1>2. s = name \o <<"=">> \o value
  <2> HIDE DEF p
  <2> QED
    BY <1>1, PartsOfText
<1>3. new = [n \in DOMAIN env \cup {name} |-> IF n = name THEN value ELSE env[n]]
  BY AssignmentParts
<1>4. NameIn(us, c) = name
  <2>1. c \in 1..c
    OBVIOUS
  <2> QED
    BY <2>1 DEF NameIn
<1> HIDE DEF name, value, new, p, s
<1>5. c \in Nat /\ c >= 1 /\ Len(ts) \in Nat
  OBVIOUS
<1>6. \A k \in 1..(c - 1) : k \in 1..c /\ NameIn(us, k) = NameIn(ts, k)
  <2>1. \A k \in 1..(c - 1) : k \in 1..c
    BY <1>5
  <2>2. \A k \in 1..c : us[k].value = ts[k].value
    OBVIOUS
  <2> QED
    BY <2>1, <2>2 DEF NameIn
<1>7. \A k \in 1..c : k \in 1..(c - 1) \/ k = c
  BY <1>5
<1>8. c \in 1..c
  BY <1>5
<1>9. \A n : Giving(us, n) = Giving(ts, n) \cup (IF n = name THEN {c} ELSE {})
  BY <1>4, <1>6, <1>7, <1>8 DEF Giving
<1>10. NamesIn(us) = NamesIn(ts) \cup {name}
  BY <1>4, <1>6, <1>7, <1>8 DEF NamesIn
<1>11. DOMAIN new = DOMAIN e \cup NamesIn(us)
  BY <1>3, <1>10 DEF InForce
<1>12. ASSUME NEW n \in DOMAIN new
       PROVE  IF Giving(us, n) = {} THEN new[n] = e[n]
              ELSE us[Max(Giving(us, n))].value = n \o <<"=">> \o new[n]
  <2>1. CASE n = name
    <3>1. Giving(us, n) \subseteq 1..c /\ c \in Giving(us, n)
      BY <1>4, <1>8, <2>1 DEF Giving
    <3>2. Giving(us, n) \in SUBSET (0..c) /\ Giving(us, n) # {}
      BY <1>5, <3>1
    <3>3. Max(Giving(us, n)) \in Giving(us, n) /\ \A y \in Giving(us, n) : y <= Max(Giving(us, n))
      BY <1>5, <3>2, GreatestOf
    <3>4. Max(Giving(us, n)) \in 1..c /\ c <= Max(Giving(us, n))
      BY <3>1, <3>3
    <3>5. Max(Giving(us, n)) = c
      BY <1>5, <3>4
    <3>6. us[c].value = s
      BY <1>8 DEF s
    <3>7. new[n] = value
      BY <1>3, <2>1
    <3> QED
      BY <1>2, <2>1, <3>2, <3>5, <3>6, <3>7
  <2>2. CASE n # name
    <3>1. n \in DOMAIN env /\ new[n] = env[n] /\ Giving(us, n) = Giving(ts, n)
      BY <1>3, <1>9, <2>2
    <3>2. IF Giving(ts, n) = {} THEN env[n] = e[n]
          ELSE ts[Max(Giving(ts, n))].value = n \o <<"=">> \o env[n]
      BY <3>1 DEF InForce
    <3>3. Giving(ts, n) # {} => us[Max(Giving(ts, n))].value = ts[Max(Giving(ts, n))].value
      <4> SUFFICES ASSUME Giving(ts, n) # {}
                   PROVE  us[Max(Giving(ts, n))].value = ts[Max(Giving(ts, n))].value
        OBVIOUS
      <4>1. Giving(ts, n) \subseteq 1..(c - 1)
        BY DEF Giving
      <4>2. Giving(ts, n) \in SUBSET (0..c)
        BY <1>5, <4>1
      <4>3. Max(Giving(ts, n)) \in 1..(c - 1)
        BY <1>5, <4>1, <4>2, GreatestOf
      <4> QED
        BY <1>6, <4>3
    <3> QED
      BY <3>1, <3>2, <3>3
  <2> QED
    BY <2>1, <2>2
<1> QED
  BY <1>11, <1>12 DEF InForce, new, s

\* Until the list is joined nothing is assigned.
LEMMA EarlyAssign ==
    ASSUME IInv, WordInv, AssignInv,
           \/ ProcessSingleTokenBlock \/ SplitEnds \/ QuoteHandlerCallLoop
           \/ TypealizeCallLoop \/ PerformQuoteConcatenation \/ JoinEnds
    PROVE  AssignInv'
<1>1. /\ phase \in {"split", "quotes", "types", "join"} /\ env' = env
      /\ phase' \in {"split", "quotes", "types", "join", "empty", "rejected"}
         \/ (phase = "join" /\ phase' = "assign" /\ tokens' = tokens)
  BY DEF ProcessSingleTokenBlock, SplitEnds, QuoteHandlerCallLoop, TypealizeCallLoop,
         PerformQuoteConcatenation, JoinEnds, shared
<1>2. env' \in Envs
  BY <1>1 DEF AssignInv
<1>3. CASE phase' \in {"split", "quotes", "types", "join", "empty", "rejected"}
  BY <1>2, <1>3 DEF AssignInv
<1>4. CASE phase = "join" /\ phase' = "assign" /\ tokens' = tokens
  <2>1. AssignedOf(tokens) = {}
    BY <1>4 DEF WordInv, Shape, AssignedOf
  <2>2. InForce(env', tokens', env')
    BY <1>4, <2>1, NothingAssigned
  <2> QED
    BY <1>2, <1>4, <2>1, <2>2 DEF AssignInv
<1> QED
  BY <1>1, <1>3, <1>4

\* The loop over the assignments.
LEMMA AssignAssigns ==
    ASSUME IInv, WordInv, AssignInv, ApplyVariableAssignment \/ AssignmentsEnd
    PROVE  AssignInv'
<1>1. /\ Len(tokens) \in Nat /\ DOMAIN tokens = 1..Len(tokens) /\ tokens \in Seq(Token)
      /\ cur \in 1..(Len(tokens) + 1)
  BY WordFacts
<1>2. phase = "assign"
  BY DEF ApplyVariableAssignment, AssignmentsEnd
<1>3. \A k \in DOMAIN tokens : tokens[k].type = "assignment" <=> k < cur
  BY <1>2 DEF WordInv, Shape
<1>4. AssignedOf(tokens) = 1..(cur - 1)
  <2>1. \A k \in 1..Len(tokens) : k < cur <=> k \in 1..(cur - 1)
    BY <1>1
  <2>2. \A k \in 1..(cur - 1) : k \in 1..Len(tokens)
    BY <1>1
  <2> QED
    BY <1>1, <1>3, <2>1, <2>2 DEF AssignedOf
<1>5. PICK e \in Envs : InForce(env, tokens, e)
  BY <1>2 DEF AssignInv
<1>6. \A k \in 1..(cur - 1) : IsValidAssignment(tokens[k].value)
  BY <1>2, <1>4 DEF AssignInv
<1>7. CASE ApplyVariableAssignment
  <2>1. /\ phase' = "assign" /\ cur <= Len(tokens) /\ IsValidAssignment(tokens[cur].value)
        /\ tokens' = [tokens EXCEPT ![cur].type = "assignment"]
        /\ env' = UpdateEnv(tokens[cur].value)
    BY <1>2, <1>7 DEF ApplyVariableAssignment
  <2>2. cur \in 1..Len(tokens) /\ tokens[cur] \in Token
    BY <1>1, <2>1
  <2>3. tokens[cur].value \in Text
    BY <2>2 DEF Token
  <2>4. /\ DOMAIN tokens' = DOMAIN tokens
        /\ tokens'[cur].type = "assignment" /\ tokens'[cur].value = tokens[cur].value
        /\ \A k \in DOMAIN tokens : k # cur => tokens'[k] = tokens[k]
    <3> DEFINE t == [tokens[cur] EXCEPT !.type = "assignment"]
    <3>1. t.type = "assignment" /\ t.value = tokens[cur].value
      BY <2>2 DEF Token
    <3>2. tokens' = [tokens EXCEPT ![cur] = t]
      BY <2>1
    <3> HIDE DEF t
    <3> QED
      BY <1>1, <2>2, <3>1, <3>2
  <2>5. AssignedOf(tokens') = 1..cur
    <3>1. \A k \in DOMAIN tokens : tokens'[k].type = "assignment" <=> k < cur \/ k = cur
      BY <1>3, <2>4
    <3>2. \A k \in 1..Len(tokens) : (k < cur \/ k = cur) <=> k \in 1..cur
      BY <1>1, <2>2
    <3>3. \A k \in 1..cur : k \in 1..Len(tokens)
      BY <1>1, <2>2
    <3> QED
      BY <1>1, <2>4, <3>1, <3>2, <3>3 DEF AssignedOf
  <2>6. \A k \in 1..cur : tokens'[k].value = tokens[k].value
    <3>1. \A k \in 1..cur : k \in DOMAIN tokens
      BY <1>1, <2>2
    <3> QED
      BY <2>4, <3>1
  <2>7. InForce(env', tokens', e)
    BY <1>1, <1>4, <1>5, <2>1, <2>2, <2>3, <2>5, <2>6, OneMore
  <2>8. \A k \in AssignedOf(tokens') : IsValidAssignment(tokens'[k].value)
    <3>1. \A k \in 1..cur : k \in 1..(cur - 1) \/ k = cur
      BY <2>2
    <3> QED
      BY <1>6, <2>1, <2>5, <2>6, <3>1
  <2> QED
    BY <2>1, <2>7, <2>8 DEF AssignInv
<1>8. CASE AssignmentsEnd
  <2>1. /\ phase' = "expand" /\ tokens' = tokens /\ env' = env
        /\ ~(cur <= Len(tokens) /\ IsValidAssignment(tokens[cur].value))
    BY <1>8 DEF AssignmentsEnd, shared
  <2>2. ASSUME NEW k \in 1..Len(tokens)
        PROVE  (\A j \in 1..k : IsValidAssignment(tokens[j].value)) <=> k \in 1..(cur - 1)
    <3>1. CASE k < cur
      <4>1. k \in 1..(cur - 1) /\ \A j \in 1..k : j \in 1..(cur - 1)
        BY <1>1, <3>1
      <4> QED
        BY <1>6, <4>1
    <3>2. CASE ~(k < cur)
      <4>1. k \notin 1..(cur - 1) /\ cur \in 1..k /\ cur <= Len(tokens)
        BY <1>1, <3>2
      <4> QED
        BY <2>1, <4>1
    <3> QED
      BY <3>1, <3>2
  <2>3. ThoseAtTheStart(tokens)
    BY <1>1, <1>4, <2>2 DEF ThoseAtTheStart
  <2> QED
    BY <1>5, <2>1, <2>3 DEF AssignInv
<1> QED
  BY <1>7, <1>8

\* The expansions and the search for commands: whatever a word becomes, it is no
\* assignment by that.
LEMMA LateAssign ==
    ASSUME IInv, WordInv, AssignInv,
           SkipToken \/ ExpandToken \/ ExpandVariables \/ StoreExpansion \/ ParserCmdNoFound
    PROVE  AssignInv'
<1>1. /\ Len(tokens) \in Nat /\ DOMAIN tokens = 1..Len(tokens) /\ tokens \in Seq(Token)
      /\ cur \in 1..(Len(tokens) + 1)
  BY WordFacts
<1>2. phase \in {"expand", "expanding"} /\ phase' \in {"expand", "expanding", "ready"}
  BY DEF SkipToken, ExpandToken, ExpandVariables, StoreExpansion, ParserCmdNoFound, wordVars
<1>3. env' = env
  BY DEF SkipToken, ExpandToken, ExpandVariables, StoreExpansion, ParserCmdNoFound, shared,
         ExpNext, AppendNormalChar, HandleExitStatus, HandleVariable, HandleBraces, DollarAlone,
         AppendValue, Terminate, Expand, AppendOrFail
<1>4. PICK e \in Envs : InForce(env, tokens, e)
  BY <1>2 DEF AssignInv
<1>5. ~(phase' = "expand" /\ cur' = 1)
  <2>1. phase' = "expand" => cur' = cur + 1
    BY DEF SkipToken, ExpandToken, ExpandVariables, StoreExpansion, ParserCmdNoFound, wordVars
  <2> QED
    BY <1>1, <2>1
<1>6. phase' = "expanding" => tokens'[cur'].type # "assignment"
  BY DEF SkipToken, ExpandToken, ExpandVariables, StoreExpansion, ParserCmdNoFound, wordVars,
         IsExpanded, AssignInv
<1>7. /\ DOMAIN tokens' = DOMAIN tokens
      /\ \A k \in DOMAIN tokens :
            /\ tokens'[k].type = "assignment" <=> tokens[k].type = "assignment"
            /\ tokens[k].type = "assignment" => tokens'[k].value = tokens[k].value
  <2>1. CASE tokens' = tokens
    BY <2>1
  <2>2. CASE ParserCmdNoFound
    <3>1. tokens' = [k \in DOMAIN tokens |-> CommandOrWord(tokens[k])]
      BY <2>2 DEF ParserCmdNoFound
    <3>2. \A k \in DOMAIN tokens : tokens[k] \in Token /\ <<tokens[k].type, tokens[k].rank>> \in Kinds
      BY <1>1 DEF WordInv, KindsOK
    <3>3. \A k \in DOMAIN tokens :
              /\ CommandOrWord(tokens[k]).type = "assignment" <=> tokens[k].type = "assignment"
              /\ CommandOrWord(tokens[k]).value = tokens[k].value
      BY <3>2, CommandOrWordIs
    <3> QED
      BY <3>1, <3>3
  <2>3. CASE StoreExpansion /\ run = "done"
    <3> DEFINE t == [tokens[cur] EXCEPT !.value = Front(result)]
    <3>1. tokens' = [tokens EXCEPT ![cur] = t] /\ phase = "expanding"
      BY <2>3 DEF StoreExpansion
    <3>2. cur \in DOMAIN tokens /\ tokens[cur].type # "assignment"
      BY <3>1 DEF WordInv, Shape, AssignInv
    <3>3. tokens[cur] \in Token
      BY <1>1, <3>2
    <3>4. t.type = tokens[cur].type
      BY <3>3 DEF Token
    <3> HIDE DEF t
    <3>5. DOMAIN tokens' = DOMAIN tokens /\ tokens'[cur] = t
          /\ \A k \in DOMAIN tokens : k # cur => tokens'[k] = tokens[k]
      BY <1>1, <3>1, <3>2
    <3> QED
      BY <3>2, <3>4, <3>5
  <2> QED
    BY <2>1, <2>2, <2>3
       DEF SkipToken, ExpandToken, ExpandVariables, StoreExpansion, wordVars
<1>8. AssignedOf(tokens') = AssignedOf(tokens)
      /\ \A k \in AssignedOf(tokens) : tokens'[k].value = tokens[k].value
  BY <1>7 DEF AssignedOf
<1>9. InForce(env', tokens', e)
  BY <1>1, <1>3, <1>4, <1>8, SameInForce
<1> QED
  BY <1>2, <1>5, <1>6, <1>9 DEF AssignInv

\* In every state.
LEMMA AssignInvariance == Spec => []AssignInv
<1>1. Init => AssignInv
  BY DEF Init, AssignInv
<1>2. IInv /\ WordInv /\ AssignInv /\ [Next]_vars => AssignInv'
  <2> SUFFICES ASSUME IInv, WordInv, AssignInv, [Next]_vars PROVE AssignInv'
    OBVIOUS
  <2>1. CASE UNCHANGED vars
    BY <2>1 DEF vars, wordVars, shared, AssignInv, ThoseAtTheStart, AssignedOf
  <2>2. CASE Next
    BY <2>2, EarlyAssign, AssignAssigns, LateAssign DEF Next
  <2> QED
    BY <2>1, <2>2
<1> QED
  BY <1>1, <1>2, WordsInvariance, PTL DEF Spec

\* What a line assigns at its start, and only that, is in force for the expansions
\* of the same line, of two assignments of a name the last: no expansion takes
\* anything of it away or adds to it.
THEOREM AssignmentsInForceAlways == Spec => []AssignmentsInForce
<1>1. AssignInv => AssignmentsInForce
  <2> SUFFICES ASSUME AssignInv, phase \in {"expand", "expanding", "ready"}
               PROVE  AssignmentsInForce
    BY DEF AssignmentsInForce
  <2>1. PICK e \in Envs : InForce(env, tokens, e)
    BY DEF AssignInv
  <2>2. Assigned = AssignedOf(tokens) /\ \A k : NameOf(k) = NameIn(tokens, k)
    BY DEF Assigned, AssignedOf, NameOf, NameIn, EqualsAt, Equals, SelectInSeq
  <2>3. DOMAIN env = DOMAIN e \cup {NameOf(k) : k \in Assigned}
    BY <2>1, <2>2 DEF InForce, NamesIn
  <2>4. \A n : {k \in Assigned : NameOf(k) = n} = Giving(tokens, n)
    BY <2>2 DEF Giving
  <2>5. \A n \in DOMAIN env :
            LET ks == {k \in Assigned : NameOf(k) = n}
            IN  IF ks = {} THEN env[n] = e[n]
                ELSE tokens[Max(ks)].value = n \o <<"=">> \o env[n]
    BY <2>1, <2>4 DEF InForce
  <2>6. phase = "expand" /\ cur = 1 =>
            \A k \in DOMAIN tokens :
                (\A j \in 1..k : IsValidAssignment(tokens[j].value)) <=> k \in Assigned
    BY <2>2 DEF AssignInv, ThoseAtTheStart
  <2> QED
    BY <2>3, <2>5, <2>6 DEF AssignmentsInForce
<1> QED
  BY <1>1, AssignInvariance, PTL

-----------------------------------------------------------------------------
(***************************************************************************)
(* Which quote the places of a line are in.                                *)
(***************************************************************************)
After(q, c) == IF q = NUL /\ c \in Quote THEN c ELSE IF q = c THEN NUL ELSE q

\* The function that OpenQuote defines, for any text.
IsOpen(f, s) ==
    f = [k \in 1..(Len(s) + 1) |->
            IF k = 1 THEN NUL
            ELSE LET q == f[k - 1] c == s[k - 1]
                 IN  CASE q = NUL /\ c \in Quote -> c
                       [] q = c -> NUL
                       [] OTHER -> q]
OpenIn(s) == CHOOSE f : IsOpen(f, s)
Closed(s) == OpenIn(s)[Len(s) + 1] = NUL

\* It goes through the text character by character.
LEMMA OpenByChars ==
    ASSUME NEW s \in Text, NEW f
    PROVE  IsOpen(f, s) <=> f = [k \in 1..(Len(s) + 1) |->
                                    IF k = 1 THEN NUL ELSE After(f[k - 1], s[k - 1])]
<1>1. ASSUME NEW q, NEW c, c # NUL
      PROVE  (CASE q = NUL /\ c \in Quote -> c [] q = c -> NUL [] OTHER -> q) = After(q, c)
  <2>1. CASE q = NUL /\ c \in Quote
    BY <1>1, <2>1 DEF After
  <2>2. CASE ~(q = NUL /\ c \in Quote) /\ q = c
    BY <1>1, <2>2 DEF After
  <2>3. CASE ~(q = NUL /\ c \in Quote) /\ q # c
    BY <1>1, <2>3 DEF After
  <2> QED
    BY <2>1, <2>2, <2>3
<1>2. \A k \in 1..(Len(s) + 1) : k # 1 => s[k - 1] # NUL
  <2>1. Len(s) \in Nat /\ s \in Seq(Char)
    BY DEF Text
  <2>2. \A k \in 1..(Len(s) + 1) : k # 1 => k - 1 \in 1..Len(s)
    BY <2>1
  <2>3. \A k \in 1..Len(s) : s[k] \in Char
    BY <2>1
  <2> QED
    BY <2>2, <2>3, CharAssumption
<1>3. \A k \in 1..(Len(s) + 1) :
          (IF k = 1 THEN NUL
           ELSE LET q == f[k - 1] c == s[k - 1]
                IN  CASE q = NUL /\ c \in Quote -> c
                      [] q = c -> NUL
                      [] OTHER -> q)
          = IF k = 1 THEN NUL ELSE After(f[k - 1], s[k - 1])
  BY <1>1, <1>2
<1> QED
  BY <1>3 DEF IsOpen

\* There is such a function.
LEMMA OpenIs ==
    ASSUME NEW s \in Text
    PROVE  /\ \A k \in 1..(Len(s) + 1) : OpenIn(s)[k] \in Quote \cup {NUL}
           /\ OpenIn(s)[1] = NUL
           /\ \A k \in 1..Len(s) : OpenIn(s)[k + 1] = After(OpenIn(s)[k], s[k])
<1> DEFINE n == Len(s)
           D == 1..(n + 1)
           Good(f, m) == /\ f \in [D -> Quote \cup {NUL}] /\ f[1] = NUL
                         /\ \A k \in 1..n : k <= m => f[k + 1] = After(f[k], s[k])
           T == {m \in 0..n : \E f : Good(f, m)}
<1>1. n \in Nat
  BY DEF Text
<1>2. 0 \in T
  <2>1. Good([k \in D |-> NUL], 0)
    BY <1>1
  <2> QED
    BY <1>1, <2>1
<1>3. ASSUME NEW m \in 1..n, m - 1 \in T PROVE m \in T
  <2>1. PICK f : Good(f, m - 1)
    BY <1>3
  <2> DEFINE g == [f EXCEPT ![m + 1] = After(f[m], s[m])]
  <2> HIDE DEF n
  <2>2. m \in D /\ m + 1 \in D /\ m + 1 # 1 /\ 1 \in D
    BY <1>1
  <2>3. f[m] \in Quote \cup {NUL} /\ f \in [D -> Quote \cup {NUL}]
    BY <2>1, <2>2
  <2>4. After(f[m], s[m]) \in Quote \cup {NUL}
    BY <2>3 DEF After
  <2> HIDE DEF D
  <2>5. /\ g \in [D -> Quote \cup {NUL}] /\ g[m + 1] = After(f[m], s[m])
        /\ \A k \in D : k # m + 1 => g[k] = f[k]
    BY <2>2, <2>3, <2>4
  <2> HIDE DEF g
  <2>6. g[1] = NUL
    BY <2>1, <2>2, <2>5
  <2>7. ASSUME NEW k \in 1..n, k <= m PROVE g[k + 1] = After(g[k], s[k])
    <3>1. k \in D /\ k + 1 \in D /\ k # m + 1
      BY <1>1, <2>7 DEF D
    <3>2. CASE k = m
      BY <2>5, <3>1, <3>2
    <3>3. CASE k # m
      <4>1. k <= m - 1 /\ k + 1 # m + 1
        BY <1>1, <2>7, <3>3
      <4> QED
        BY <2>1, <2>5, <3>1, <4>1
    <3> QED
      BY <3>2, <3>3
  <2>8. Good(g, m)
    BY <2>5, <2>6, <2>7
  <2>9. m \in 0..n
    BY <1>1
  <2> QED
    BY <2>8, <2>9
<1>4. n \in T
  <2>1. \A m \in 0..n : m \in T
    <3> HIDE DEF T, n
    <3> QED
      BY <1>1, <1>2, <1>3, UpToEach
  <2> QED
    BY <1>1, <2>1
<1>5. PICK f : Good(f, n)
  BY <1>4
<1>6. IsOpen(f, s)
  <2>1. \A k \in D : f[k] = IF k = 1 THEN NUL ELSE After(f[k - 1], s[k - 1])
    <3> HIDE DEF n
    <3>1. \A k \in D : k # 1 => k - 1 \in 1..n /\ k - 1 <= n /\ (k - 1) + 1 = k
      BY <1>1
    <3> QED
      BY <1>5, <3>1
  <2>2. f = [k \in D |-> f[k]]
    BY <1>5
  <2>3. f = [k \in D |-> IF k = 1 THEN NUL ELSE After(f[k - 1], s[k - 1])]
    <3> HIDE DEF D
    <3> QED
      BY <2>1, <2>2
  <2> QED
    BY <2>3, OpenByChars
<1> DEFINE o == OpenIn(s)
<1>7. o = [k \in D |-> IF k = 1 THEN NUL ELSE After(o[k - 1], s[k - 1])]
  <2>1. IsOpen(o, s)
    BY <1>6 DEF OpenIn
  <2> HIDE DEF o
  <2> QED
    BY <2>1, OpenByChars
<1> HIDE DEF o
<1>8. o[1] = NUL
  <2>1. 1 \in D
    BY <1>1
  <2> QED
    BY <1>7, <2>1
<1>9. \A k \in 1..n : o[k + 1] = After(o[k], s[k])
  <2>1. \A k \in 1..n : k + 1 \in D /\ k + 1 # 1 /\ (k + 1) - 1 = k
    BY <1>1
  <2> HIDE DEF D, n
  <2> QED
    BY <1>7, <2>1
<1>10. \A k \in D : o[k] \in Quote \cup {NUL}
  <2> DEFINE U == {m \in 0..n : o[m + 1] \in Quote \cup {NUL}}
  <2>1. 0 \in U
    BY <1>1, <1>8
  <2>2. ASSUME NEW m \in 1..n, m - 1 \in U PROVE m \in U
    <3>1. o[m] \in Quote \cup {NUL}
      BY <2>2
    <3>2. After(o[m], s[m]) \in Quote \cup {NUL}
      BY <3>1 DEF After
    <3>3. m \in 0..n
      BY <1>1
    <3> QED
      BY <1>9, <3>2, <3>3
  <2>3. \A m \in 0..n : m \in U
    <3> HIDE DEF U, n
    <3> QED
      BY <1>1, <2>1, <2>2, UpToEach
  <2>4. \A k \in D : k - 1 \in 0..n /\ (k - 1) + 1 = k
    BY <1>1
  <2> QED
    BY <2>3, <2>4
<1> QED
  BY <1>8, <1>9, <1>10 DEF o

\* Characters that do not end what holds at a place leave it as it is.
LEMMA StaysAs ==
    ASSUME NEW s \in Text, NEW x \in 1..(Len(s) + 1), NEW y \in x..(Len(s) + 1), NEW q,
           OpenIn(s)[x] = q, \A j \in x..(y - 1) : After(q, s[j]) = q
    PROVE  \A j \in x..y : OpenIn(s)[j] = q
<1> DEFINE n == y - x
           T == {m \in 0..n : OpenIn(s)[x + m] = q}
<1>1. Len(s) \in Nat
  BY DEF Text
<1>2. x \in Nat /\ y \in Nat /\ x >= 1 /\ x <= y /\ y <= Len(s) + 1 /\ n \in Nat
  BY <1>1
<1>3. 0 \in T
  BY <1>2
<1>4. ASSUME NEW m \in 1..n, m - 1 \in T PROVE m \in T
  <2>1. /\ x + (m - 1) \in x..(y - 1) /\ x + (m - 1) \in 1..Len(s)
        /\ (x + (m - 1)) + 1 = x + m /\ m \in 0..n
    BY <1>1, <1>2
  <2>2. OpenIn(s)[x + (m - 1)] = q
    BY <1>4
  <2>3. OpenIn(s)[(x + (m - 1)) + 1] = After(q, s[x + (m - 1)])
    BY <2>1, <2>2, OpenIs
  <2> QED
    BY <2>1, <2>3
<1>5. \A m \in 0..n : m \in T
  <2> HIDE DEF T, n
  <2> QED
    BY <1>2, <1>3, <1>4, UpToEach
<1>6. \A j \in x..y : j - x \in 0..n /\ x + (j - x) = j
  BY <1>2
<1> QED
  BY <1>5, <1>6

\* From an opening quote to the place behind it, or to the closing one.
LEMMA OpenUntil ==
    ASSUME NEW s \in Text, NEW p \in 1..Len(s), OpenIn(s)[p] = NUL, s[p] \in Quote,
           NEW y \in (p + 1)..(Len(s) + 1), \A j \in (p + 1)..(y - 1) : s[j] # s[p]
    PROVE  \A j \in (p + 1)..y : OpenIn(s)[j] = s[p]
<1> DEFINE x == p + 1
<1>1. Len(s) \in Nat
  BY DEF Text
<1>2. x \in 1..(Len(s) + 1) /\ y \in x..(Len(s) + 1)
  BY <1>1
<1>3. OpenIn(s)[x] = s[p]
  BY OpenIs DEF After
<1>4. \A j \in x..(y - 1) : After(s[p], s[j]) = s[p]
  <2>1. s[p] # NUL
    BY DEF Quote, NUL
  <2> QED
    BY <2>1 DEF After
<1> HIDE DEF x
<1>5. \A j \in x..y : OpenIn(s)[j] = s[p]
  BY <1>2, <1>3, <1>4, StaysAs
<1> QED
  BY <1>5 DEF x

\* The last quote that opens in a text with an open quote.
Openings(s) == {k \in 1..Len(s) : s[k] \in Quote /\ OpenIn(s)[k] = NUL}
\* In a text with an open quote there is a last place where one opens, and no
\* place behind it is outside of quotes.
LEMMA LastOpened ==
    ASSUME NEW s \in Text, ~Closed(s)
    PROVE  /\ Max(Openings(s)) \in Openings(s)
           /\ \A j \in (Max(Openings(s)) + 1)..(Len(s) + 1) : OpenIn(s)[j] # NUL
<1> DEFINE n == Len(s)
           o == OpenIn(s)
<1>1. n \in Nat
  BY DEF Text
<1>2. /\ \A k \in 1..(n + 1) : o[k] \in Quote \cup {NUL}
      /\ o[1] = NUL
      /\ \A k \in 1..n : o[k + 1] = After(o[k], s[k])
  BY OpenIs
<1>3. o[n + 1] # NUL
  BY DEF Closed
<1>4. \A k \in 1..n : s[k] \in Quote /\ o[k] = NUL => k \in Openings(s)
  BY DEF Openings
<1> HIDE DEF o, n
<1>5. ASSUME NEW x \in 1..(n + 1), o[x] = NUL, \A k \in x..n : k \notin Openings(s)
      PROVE  FALSE
  <2> DEFINE T == {m \in 0..(n + 1 - x) : o[x + m] = NUL}
  <2>1. 0 \in T /\ n + 1 - x \in Nat
    BY <1>1, <1>5
  <2>2. ASSUME NEW m \in 1..(n + 1 - x), m - 1 \in T PROVE m \in T
    <3> DEFINE k == x + (m - 1)
    <3>1. k \in x..n /\ k \in 1..n /\ k + 1 = x + m /\ m \in 0..(n + 1 - x)
      BY <1>1
    <3>2. o[k] = NUL
      BY <2>2
    <3> HIDE DEF k
    <3>3. s[k] \notin Quote
      BY <1>4, <1>5, <3>1, <3>2
    <3>4. o[k + 1] = NUL
      BY <1>2, <3>1, <3>2, <3>3 DEF After
    <3> QED
      BY <3>1, <3>4
  <2>3. \A m \in 0..(n + 1 - x) : m \in T
    <3> HIDE DEF T
    <3> QED
      BY <2>1, <2>2, UpToEach
  <2>4. n + 1 - x \in 0..(n + 1 - x) /\ x + (n + 1 - x) = n + 1
    BY <1>1
  <2> QED
    BY <1>3, <2>3, <2>4
<1>6. Openings(s) # {}
  <2>1. 1 \in 1..(n + 1)
    BY <1>1
  <2> QED
    BY <1>2, <1>5, <2>1
<1>7. Openings(s) \in SUBSET (0..n) /\ Openings(s) \subseteq 1..n
  BY <1>1 DEF Openings, n
<1> DEFINE m == Max(Openings(s))
<1>8. m \in Openings(s) /\ \A y \in Openings(s) : y <= m
  BY <1>1, <1>6, <1>7, GreatestOf
<1> HIDE DEF m
<1>9. m \in 1..n
  BY <1>7, <1>8
<1>10. ASSUME NEW j \in (m + 1)..(n + 1), o[j] = NUL PROVE FALSE
  <2>1. j \in 1..(n + 1) /\ \A k \in j..n : k > m /\ k \in Nat
    BY <1>1, <1>9
  <2>2. \A k \in j..n : k \notin Openings(s)
    <3> SUFFICES ASSUME NEW k \in j..n, k \in Openings(s) PROVE FALSE
      OBVIOUS
    <3>1. k <= m /\ k > m /\ k \in Nat /\ m \in Nat
      BY <1>8, <1>9, <2>1
    <3> QED
      BY <3>1
  <2> QED
    BY <1>5, <1>10, <2>1, <2>2
<1> QED
  BY <1>8, <1>10 DEF m, n, o

-----------------------------------------------------------------------------
(***************************************************************************)
(* What split_input takes for a token.                                     *)
(***************************************************************************)
DollarToken(s, p, l) ==
    /\ s[p] = "$" /\ p + 1 <= Len(s) /\ s[p + 1] \in Quote
    /\ \/ /\ l >= 3 /\ s[p + l - 1] = s[p + 1]
          /\ \A j \in (p + 2)..(p + l - 2) : s[j] # s[p + 1]
       \/ p + l - 1 = Len(s) /\ \A j \in (p + 2)..Len(s) : s[j] # s[p + 1]
QuotedToken(s, p, l) ==
    /\ s[p] \in Quote
    /\ \/ /\ l >= 2 /\ s[p + l - 1] = s[p]
          /\ \A j \in (p + 1)..(p + l - 2) : s[j] # s[p]
       \/ l = 1 /\ \A j \in (p + 1)..Len(s) : s[j] # s[p]
BareToken(s, p, l) ==
    /\ \A j \in p..(p + l - 1) : s[j] \notin Quote \cup {" "}
    /\ s[p + l - 1] \in Operator => SubSeq(s, p, p + l - 1) \in OperatorValues

\* From the place of a text to a rest of it and back.
LEMMA RestIs ==
    ASSUME NEW s \in Text, NEW p \in 1..Len(s)
    PROVE  LET rest == SubSeq(s, p, Len(s))
           IN  /\ rest \in Text /\ Len(rest) = Len(s) - p + 1 /\ Len(rest) \in Nat /\ Len(rest) >= 1
               /\ \A i \in 1..Len(rest) : rest[i] = s[p + i - 1]
<1> DEFINE rest == SubSeq(s, p, Len(s))
           n == Len(s)
<1>1. n \in Nat /\ n = Len(s)
  BY DEF Text
<1> HIDE DEF n
<1>2. p \in Nat \ {0} /\ n \in Int /\ n <= Len(s) /\ p <= n
  BY <1>1
<1>3. rest = SubSeq(s, p, n)
  BY <1>1
<1> HIDE DEF rest
<1>4. /\ rest \in Seq(Char) /\ Len(rest) = IF p <= n THEN n - p + 1 ELSE 0
      /\ \A i \in 1..(n - p + 1) : rest[i] = s[p + i - 1]
  BY <1>2, <1>3, PartOfText
<1>5. Len(rest) = n - p + 1 /\ n - p + 1 \in Nat /\ n - p + 1 >= 1
  BY <1>2, <1>4
<1>6. rest \in Text
  BY <1>4 DEF Text
<1>7. \A i \in 1..Len(rest) : rest[i] = s[p + i - 1]
  BY <1>4, <1>5
<1> QED
  BY <1>1, <1>5, <1>6, <1>7 DEF rest

\* A search in the rest of a text.
LEMMA NextInRest ==
    ASSUME NEW s \in Text, NEW p \in 1..Len(s), NEW k \in Nat \ {0}, NEW S
    PROVE  LET rest == SubSeq(s, p, Len(s))
               e == NextAt(rest, k, S)
           IN  /\ e \in Nat /\ e <= Len(rest) + 1
               /\ \/ e = Len(rest) + 1
                  \/ e \in k..Len(rest) /\ s[p + e - 1] \in S
               /\ \A j \in (p + k - 1)..Len(s) : j < p + e - 1 => s[j] \notin S
<1> DEFINE rest == SubSeq(s, p, Len(s))
           e == NextAt(rest, k, S)
<1>1. /\ rest \in Text /\ Len(rest) = Len(s) - p + 1 /\ Len(rest) \in Nat
      /\ \A i \in 1..Len(rest) : rest[i] = s[p + i - 1]
  BY RestIs
<1>2. Len(s) \in Nat
  BY DEF Text
<1> HIDE DEF rest
<1>3. /\ e \in Nat /\ e <= Len(rest) + 1
      /\ \/ e = Len(rest) + 1
         \/ e \in k..Len(rest) /\ rest[e] \in S
      /\ \A j \in k..Len(rest) : j < e => rest[j] \notin S
  BY <1>1, NextAtIs
<1> HIDE DEF e
<1>4. e \in k..Len(rest) => e \in 1..Len(rest)
  BY <1>1, <1>3
<1>5. ASSUME NEW j \in (p + k - 1)..Len(s), j < p + e - 1 PROVE s[j] \notin S
  <2>1. j - p + 1 \in k..Len(rest) /\ j - p + 1 < e /\ p + (j - p + 1) - 1 = j
        /\ j - p + 1 \in 1..Len(rest)
    BY <1>1, <1>2, <1>3, <1>5
  <2>2. rest[j - p + 1] = s[p + (j - p + 1) - 1]
    BY <1>1, <2>1
  <2> QED
    BY <1>3, <2>1, <2>2
<1> QED
  BY <1>1, <1>3, <1>4, <1>5 DEF e, rest

\* The token at a place that is no space.
NoSpaceAt(s, p) == s[p] # " "
\* The token at a place that is no space is one of the three, and ends in the text.
LEMMA TokenAt ==
    ASSUME NEW s \in Text, NEW p \in 1..Len(s), NoSpaceAt(s, p)
    PROVE  LET l == GetTokenLen(SubSeq(s, p, Len(s)))
           IN  /\ l \in 1..(Len(s) - p + 1)
               /\ DollarToken(s, p, l) \/ QuotedToken(s, p, l) \/ BareToken(s, p, l)
<1> DEFINE rest == SubSeq(s, p, Len(s))
           l == GetTokenLen(rest)
           n == Len(rest)
<1>1. /\ rest \in Text /\ n = Len(s) - p + 1 /\ n \in Nat /\ n >= 1
      /\ \A i \in 1..n : rest[i] = s[p + i - 1]
  BY RestIs
<1>2. Len(s) \in Nat /\ p \in Nat /\ p >= 1
  BY DEF Text
<1>3. DOMAIN rest = 1..n /\ \A i \in 1..n : rest[i] \in Char
  BY <1>1 DEF Text
<1>4. rest[1] = s[p]
  BY <1>1, <1>2
<1>5. n >= 2 => rest[2] = s[p + 1]
  <2>1. n >= 2 => 2 \in 1..n /\ p + 2 - 1 = p + 1
    BY <1>1, <1>2
  <2> QED
    BY <1>1, <2>1
<1>6. l \in 1..n
  BY <1>1, TokenLenFits
<1> DEFINE At(k, S) == NextAt(rest, k, S)
<1>7. ASSUME NEW k \in Nat \ {0}, NEW S
      PROVE  /\ At(k, S) \in Nat /\ At(k, S) <= n + 1
             /\ \/ At(k, S) = n + 1
                \/ At(k, S) \in k..n /\ s[p + At(k, S) - 1] \in S
             /\ \A j \in (p + k - 1)..Len(s) : j < p + At(k, S) - 1 => s[j] \notin S
  BY NextInRest
<1>8. CharAt(rest, 2) = IF n >= 2 THEN s[p + 1] ELSE NUL
  <2>1. 2 \in 1..n <=> n >= 2
    BY <1>1
  <2> QED
    BY <1>3, <1>5, <2>1 DEF CharAt
<1>9. NUL \notin Quote
  BY DEF Quote, NUL
<1> HIDE DEF rest, n
<1>10. l \in 1..(Len(s) - p + 1)
  BY <1>1, <1>6
<1>11. ASSUME NEW k \in Nat \ {0}, NEW S
       PROVE  /\ At(k, S) \in Nat /\ At(k, S) <= n + 1
              /\ At(k, S) = n + 1 \/ At(k, S) \in k..n
  BY <1>7
<1>12. ASSUME NEW k \in Nat \ {0}, NEW S
       PROVE  /\ At(k, S) # n + 1 => s[p + At(k, S) - 1] \in S
              /\ \A j \in (p + k - 1)..Len(s) : j < p + At(k, S) - 1 => s[j] \notin S
  BY <1>7
<1>13. ASSUME rest[1] = "$" /\ CharAt(rest, 2) \in Quote
       PROVE  DollarToken(s, p, l)
  <2>1. n >= 2 /\ p + 1 <= Len(s) /\ rest[2] = s[p + 1]
    <3>1. n >= 2
      BY <1>1, <1>8, <1>9, <1>13
    <3> QED
      BY <1>1, <1>2, <1>5, <3>1
  <2>2. s[p] = "$" /\ s[p + 1] \in Quote
    BY <1>4, <1>8, <1>13, <2>1
  <2> DEFINE e == At(3, {rest[2]})
  <2>3. l = Min({e, n})
    <3>1. GetTokenLen(rest) = GetDollarSpecialQuotedLen(rest)
      BY <1>13 DEF GetTokenLen, Quote
    <3>2. GetDollarSpecialQuotedLen(rest) = Min({NextAt(rest, 3, {rest[2]}), Len(rest)})
      BY DEF GetDollarSpecialQuotedLen
    <3> QED
      BY <3>1, <3>2 DEF n
  <2>4. e \in Nat /\ e <= n + 1 /\ (e = n + 1 \/ e \in 3..n)
    BY <1>11
  <2>5. /\ e # n + 1 => s[p + e - 1] = s[p + 1]
        /\ \A j \in (p + 3 - 1)..Len(s) : j < p + e - 1 => s[j] # s[p + 1]
    BY <1>12, <2>1
  <2> HIDE DEF e, l
  <2>6. Min({e, n}) \in {e, n} /\ Min({e, n}) <= e /\ Min({e, n}) <= n
    <3>1. {e, n} \in SUBSET Nat /\ {e, n} # {}
      BY <1>1, <2>4
    <3> QED
      BY <3>1, LeastOf
  <2>7. ASSUME e \in 3..n PROVE DollarToken(s, p, l)
    <3>0. l \in {e, n} /\ l <= e /\ l <= n
      BY <2>3, <2>6
    <3>1. l = e
      BY <1>1, <2>7, <3>0
    <3>2. e # n + 1 /\ e >= 3
      BY <1>1, <2>7
    <3>3. \A j \in (p + 2)..(p + e - 2) : j \in (p + 3 - 1)..Len(s) /\ j < p + e - 1
      BY <1>1, <1>2, <2>7
    <3>4. l >= 3 /\ s[p + l - 1] = s[p + 1]
      BY <2>5, <3>1, <3>2
    <3>5. \A j \in (p + 2)..(p + l - 2) : s[j] # s[p + 1]
      BY <2>5, <3>1, <3>3
    <3> QED
      BY <2>1, <2>2, <3>4, <3>5 DEF DollarToken
  <2>8. ASSUME e = n + 1 PROVE DollarToken(s, p, l)
    <3>1. l = n
      BY <1>1, <2>3, <2>6, <2>8
    <3>2. p + l - 1 = Len(s)
      BY <1>1, <1>2, <3>1
    <3>3. \A j \in (p + 2)..Len(s) : j \in (p + 3 - 1)..Len(s) /\ j < p + e - 1
      BY <1>1, <1>2, <2>8
    <3>4. \A j \in (p + 2)..Len(s) : s[j] # s[p + 1]
      BY <2>5, <3>3
    <3> QED
      BY <2>1, <2>2, <3>2, <3>4 DEF DollarToken
  <2>9. DollarToken(s, p, l)
    BY <2>4, <2>7, <2>8
  <2> QED
    BY <2>9
<1>14. ASSUME ~(rest[1] = "$" /\ CharAt(rest, 2) \in Quote) /\ rest[1] \in Quote
       PROVE  QuotedToken(s, p, l)
  <2> DEFINE e == At(2, {rest[1]})
  <2>1. l = IF e <= n THEN e ELSE 1
    <3>1. GetTokenLen(rest) = GetStandardQuotedLen(rest)
      BY <1>14 DEF GetTokenLen
    <3>2. GetStandardQuotedLen(rest) = IF NextAt(rest, 2, {rest[1]}) <= Len(rest)
                                       THEN NextAt(rest, 2, {rest[1]}) ELSE 1
      BY DEF GetStandardQuotedLen
    <3> QED
      BY <3>1, <3>2 DEF n
  <2>2. e \in Nat /\ e <= n + 1 /\ (e = n + 1 \/ e \in 2..n)
    BY <1>11
  <2>3. /\ e # n + 1 => s[p + e - 1] = s[p]
        /\ \A j \in (p + 2 - 1)..Len(s) : j < p + e - 1 => s[j] # s[p]
    BY <1>4, <1>12
  <2>4. s[p] \in Quote
    BY <1>4, <1>14
  <2> HIDE DEF e, l
  <2>5. ASSUME e \in 2..n PROVE QuotedToken(s, p, l)
    <3>1. l = e /\ e >= 2 /\ e # n + 1
      BY <1>1, <2>1, <2>2, <2>5
    <3>2. \A j \in (p + 1)..(p + e - 2) : j \in (p + 2 - 1)..Len(s) /\ j < p + e - 1
      BY <1>1, <1>2, <2>5
    <3>3. \A j \in (p + 1)..(p + l - 2) : s[j] # s[p]
      BY <2>3, <3>1, <3>2
    <3>4. l >= 2 /\ s[p + l - 1] = s[p]
      BY <2>3, <3>1
    <3> QED
      BY <2>4, <3>3, <3>4 DEF QuotedToken
  <2>6. ASSUME e = n + 1 PROVE QuotedToken(s, p, l)
    <3>1. l = 1
      BY <1>1, <2>1, <2>6
    <3>2. \A j \in (p + 1)..Len(s) : j \in (p + 2 - 1)..Len(s) /\ j < p + e - 1
      BY <1>1, <1>2, <2>6
    <3>3. \A j \in (p + 1)..Len(s) : s[j] # s[p]
      BY <2>3, <3>2
    <3> QED
      BY <2>4, <3>1, <3>3 DEF QuotedToken
  <2>7. QuotedToken(s, p, l)
    BY <2>2, <2>5, <2>6
  <2> QED
    BY <2>7
<1>15. ASSUME ~(rest[1] = "$" /\ CharAt(rest, 2) \in Quote) /\ rest[1] \notin Quote
       PROVE  BareToken(s, p, l)
  <2> DEFINE Signs == Quote \cup Operator \cup {" "}
             e == At(1, Signs)
             Twice == rest[1] \in {"<", ">"} /\ CharAt(rest, 2) = rest[1]
  <2>1. l = IF e - 1 > 0 THEN e - 1 ELSE IF Twice THEN 2 ELSE 1
    <3>1. GetTokenLen(rest) = GetUnquotedTokenLen(rest)
      BY <1>15 DEF GetTokenLen
    <3> QED
      BY <3>1 DEF GetUnquotedTokenLen
  <2>2. s[p] \notin Quote /\ s[p] # " "
    BY <1>4, <1>15 DEF NoSpaceAt
  <2>3. Twice => s[p + 1] = s[p] /\ s[p] \in {"<", ">"} /\ CharAt(rest, 2) # NUL
    BY <1>4, <1>8 DEF NUL
  <2>4. Twice => n >= 2
    BY <1>8, <2>3
  <2> HIDE DEF Signs
  <2>5. e \in Nat /\ e <= n + 1 /\ (e = n + 1 \/ e \in 1..n)
    BY <1>11
  <2>6. /\ e # n + 1 => s[p + e - 1] \in Signs
        /\ \A j \in (p + 1 - 1)..Len(s) : j < p + e - 1 => s[j] \notin Signs
    BY <1>12
  <2> HIDE DEF e, l, Twice
  <2>7. ASSUME e - 1 > 0 PROVE BareToken(s, p, l)
    <3>1. l = e - 1
      BY <2>1, <2>7
    <3>2. \A j \in p..(p + l - 1) : j \in (p + 1 - 1)..Len(s) /\ j < p + e - 1
      BY <1>1, <1>2, <2>5, <3>1
    <3>3. \A j \in p..(p + l - 1) : s[j] \notin Signs
      BY <2>6, <3>2
    <3>4. p + l - 1 \in p..(p + l - 1)
      BY <1>1, <1>2, <2>5, <2>7, <3>1
    <3> QED
      BY <3>3, <3>4 DEF BareToken, Signs
  <2>8. ASSUME ~(e - 1 > 0) PROVE BareToken(s, p, l)
    <3>1. e = 1 /\ p + e - 1 = p /\ e # n + 1
      BY <1>1, <1>2, <2>5, <2>8
    <3>2. s[p] \in Operator
      BY <2>2, <2>6, <3>1 DEF Signs
    <3>3. ASSUME Twice PROVE BareToken(s, p, l)
      <4>1. l = 2
        BY <2>1, <2>8, <3>3
      <4>2. n >= 2 /\ s[p + 1] = s[p] /\ s[p] \in {"<", ">"}
        BY <2>3, <2>4, <3>3
      <4>3. \A j \in p..(p + l - 1) : j = p \/ j = p + 1
        BY <1>2, <4>1
      <4>4. SubSeq(s, p, p + 1) = <<s[p], s[p + 1]>>
        <5>1. p \in Nat \ {0} /\ p + 1 \in Int /\ p + 1 <= Len(s)
          <6>1. n >= 2
            BY <4>2
          <6> QED
            BY <1>1, <1>2, <6>1
        <5> DEFINE w == SubSeq(s, p, p + 1)
        <5>2. /\ w \in Seq(Char) /\ Len(w) = IF p <= p + 1 THEN p + 1 - p + 1 ELSE 0
              /\ \A i \in 1..(p + 1 - p + 1) : w[i] = s[p + i - 1]
          BY <5>1, PartOfText
        <5>3. p <= p + 1 /\ p + 1 - p + 1 = 2 /\ p + 1 - 1 = p /\ p + 2 - 1 = p + 1
              /\ 1 \in 1..2 /\ 2 \in 1..2
          BY <1>2
        <5> HIDE DEF w
        <5>4. Len(w) = 2 /\ w[1] = s[p] /\ w[2] = s[p + 1] /\ w \in Seq(Char)
          BY <5>2, <5>3
        <5>5. w = <<s[p], s[p + 1]>>
          BY <5>4
        <5> QED
          BY <5>5 DEF w
      <4>5. p + l - 1 = p + 1
        BY <1>2, <4>1
      <4>6. SubSeq(s, p, p + l - 1) \in OperatorValues
        BY <4>2, <4>4, <4>5 DEF OperatorValues, Redirs
      <4>7. \A j \in p..(p + l - 1) : s[j] = s[p]
        BY <4>2, <4>3
      <4> QED
        BY <2>2, <4>6, <4>7 DEF BareToken
    <3>4. ASSUME ~Twice PROVE BareToken(s, p, l)
      <4>1. l = 1
        BY <2>1, <2>8, <3>4
      <4>2. p + l - 1 = p /\ \A j \in p..(p + l - 1) : j = p
        BY <1>2, <4>1
      <4>3. SubSeq(s, p, p) = <<s[p]>>
        <5>1. p \in Nat \ {0} /\ p \in Int /\ p <= Len(s)
          BY <1>1, <1>2
        <5> DEFINE w == SubSeq(s, p, p)
        <5>2. /\ w \in Seq(Char) /\ Len(w) = IF p <= p THEN p - p + 1 ELSE 0
              /\ \A i \in 1..(p - p + 1) : w[i] = s[p + i - 1]
          BY <5>1, PartOfText
        <5>3. p <= p /\ p - p + 1 = 1 /\ p + 1 - 1 = p /\ 1 \in 1..1
          BY <1>2
        <5> HIDE DEF w
        <5>4. Len(w) = 1 /\ w[1] = s[p] /\ w \in Seq(Char)
          BY <5>2, <5>3
        <5>5. w = <<s[p]>>
          BY <5>4
        <5> QED
          BY <5>5 DEF w
      <4>4. SubSeq(s, p, p + l - 1) \in OperatorValues
        BY <3>2, <4>2, <4>3 DEF OperatorValues, Redirs, Operator
      <4> QED
        BY <2>2, <4>2, <4>4 DEF BareToken
    <3> QED
      BY <3>3, <3>4
  <2>9. BareToken(s, p, l)
    BY <2>7, <2>8
  <2> QED
    BY <2>9
<1>16. DollarToken(s, p, l) \/ QuotedToken(s, p, l) \/ BareToken(s, p, l)
  BY <1>13, <1>14, <1>15
<1> QED
  BY <1>10, <1>16 DEF rest

\* A token that quote_handler finds not closed.
Bad(v) == v[1] \in Quote /\ ~ClosedBy(v, 1, v[1])

\* A token that starts outside of quotes ends outside of them, or with the line.
LEMMA TokenCloses ==
    ASSUME NEW s \in Text, NEW p \in 1..Len(s), OpenIn(s)[p] = NUL,
           NEW l \in 1..(Len(s) - p + 1)
    PROVE  /\ DollarToken(s, p, l) \/ QuotedToken(s, p, l) \/ BareToken(s, p, l)
                  => OpenIn(s)[p + l] = NUL \/ ~Closed(s)
           /\ DollarToken(s, p, l) =>
                 \/ OpenIn(s)[p + l] = NUL /\ s[p + l - 1] \in Quote /\ l >= 3
                    /\ \A j \in (p + 2)..(p + l - 1) : OpenIn(s)[j] # NUL
                 \/ \A j \in (p + 2)..(Len(s) + 1) : OpenIn(s)[j] # NUL
           /\ QuotedToken(s, p, l) =>
                 \/ OpenIn(s)[p + l] = NUL /\ s[p + l - 1] \in Quote /\ l >= 2
                    /\ \A j \in (p + 1)..(p + l - 1) : OpenIn(s)[j] # NUL
                 \/ l = 1 /\ \A j \in (p + 1)..(Len(s) + 1) : OpenIn(s)[j] # NUL
           /\ BareToken(s, p, l) => OpenIn(s)[p + l] = NUL
<1> DEFINE o == OpenIn(s)
           n == Len(s)
<1>1. n \in Nat /\ p \in Nat /\ p >= 1 /\ l \in Nat /\ l >= 1 /\ p + l - 1 <= n /\ p + l <= n + 1
      /\ p + l \in 1..(n + 1) /\ p + l - 1 \in 1..n /\ p + l - 1 + 1 = p + l
  <2>1. n \in Nat
    BY DEF Text
  <2> QED
    BY <2>1
<1>2. /\ \A k \in 1..n : o[k + 1] = After(o[k], s[k])
  BY OpenIs
<1>3. ASSUME NEW x \in 1..n, o[x] = NUL, s[x] \in Quote, NEW y \in (x + 1)..(n + 1),
             \A j \in (x + 1)..(y - 1) : s[j] # s[x]
      PROVE  \A j \in (x + 1)..y : o[j] = s[x] /\ o[j] # NUL
  <2>1. \A j \in (x + 1)..y : o[j] = s[x]
    BY <1>3, OpenUntil
  <2>2. s[x] # NUL
    BY <1>3 DEF Quote, NUL
  <2> QED
    BY <2>1, <2>2
<1>4. ASSUME NEW x \in 1..n, NEW y \in (x + 1)..n, o[x] = NUL, s[x] \in Quote,
             \A j \in (x + 1)..(y - 1) : s[j] # s[x], s[y] = s[x]
      PROVE  o[y + 1] = NUL /\ \A j \in (x + 1)..y : o[j] # NUL
  <2>1. y \in (x + 1)..(n + 1) /\ y \in 1..n /\ y \in (x + 1)..y
    BY <1>1
  <2>2. \A j \in (x + 1)..y : o[j] = s[x] /\ o[j] # NUL
    BY <1>3, <1>4, <2>1
  <2>3. o[y + 1] = After(s[x], s[x]) /\ s[x] # NUL
    BY <1>2, <1>4, <2>1, <2>2
  <2> QED
    BY <2>2, <2>3 DEF After
<1> HIDE DEF o, n
<1>5. ASSUME DollarToken(s, p, l)
      PROVE  \/ o[p + l] = NUL /\ s[p + l - 1] \in Quote /\ l >= 3
                /\ \A j \in (p + 2)..(p + l - 1) : o[j] # NUL
             \/ \A j \in (p + 2)..(n + 1) : o[j] # NUL
  <2> DEFINE x == p + 1
  <2>1. s[p] = "$" /\ x <= n /\ s[x] \in Quote
    BY <1>5 DEF DollarToken, n
  <2>2. o[x] = NUL
    <3>1. p \in 1..n /\ o[p] = NUL
      BY <1>1 DEF n, o
    <3>2. After(NUL, s[p]) = NUL
      BY <2>1 DEF After, Quote, NUL
    <3> QED
      BY <1>2, <3>1, <3>2
  <2>3. x \in 1..n /\ x + 1 = p + 2
    <3>1. p + 1 <= n
      BY <2>1
    <3> QED
      BY <1>1, <3>1
  <2>4. CASE l >= 3 /\ s[p + l - 1] = s[p + 1] /\ \A j \in (p + 2)..(p + l - 2) : s[j] # s[p + 1]
    <3> DEFINE y == p + l - 1
    <3>1. y \in (x + 1)..n /\ y - 1 = p + l - 2 /\ y + 1 = p + l
      <4>1. l >= 3
        BY <2>4
      <4> QED
        BY <1>1, <4>1
    <3>2. s[y] = s[x] /\ \A j \in (x + 1)..(y - 1) : s[j] # s[x]
      BY <2>3, <2>4, <3>1
    <3> HIDE DEF x, y
    <3>3. o[y + 1] = NUL /\ \A j \in (x + 1)..y : o[j] # NUL
      BY <1>4, <2>1, <2>2, <2>3, <3>1, <3>2
    <3>4. s[y] \in Quote
      BY <2>1, <3>2
    <3> QED
      BY <2>3, <2>4, <3>1, <3>3, <3>4 DEF y
  <2>5. CASE p + l - 1 = n /\ \A j \in (p + 2)..n : s[j] # s[p + 1]
    <3>1. n + 1 \in (x + 1)..(n + 1) /\ (n + 1) - 1 = n
      BY <1>1, <2>3
    <3>2. \A j \in (x + 1)..((n + 1) - 1) : s[j] # s[x]
      BY <2>3, <2>5, <3>1
    <3> HIDE DEF x
    <3>3. \A j \in (x + 1)..(n + 1) : o[j] # NUL
      BY <1>3, <2>1, <2>2, <2>3, <3>1, <3>2
    <3> QED
      BY <2>3, <3>3
  <2> QED
    BY <1>5, <2>4, <2>5 DEF DollarToken, n
<1>6. ASSUME QuotedToken(s, p, l)
      PROVE  \/ o[p + l] = NUL /\ s[p + l - 1] \in Quote /\ l >= 2
                /\ \A j \in (p + 1)..(p + l - 1) : o[j] # NUL
             \/ l = 1 /\ \A j \in (p + 1)..(n + 1) : o[j] # NUL
  <2>1. s[p] \in Quote /\ o[p] = NUL /\ p \in 1..n
    BY <1>6 DEF QuotedToken, n, o
  <2>2. CASE l >= 2 /\ s[p + l - 1] = s[p] /\ \A j \in (p + 1)..(p + l - 2) : s[j] # s[p]
    <3> DEFINE y == p + l - 1
    <3>1. y \in (p + 1)..n /\ y - 1 = p + l - 2 /\ y + 1 = p + l
      <4>1. l >= 2
        BY <2>2
      <4> QED
        BY <1>1, <4>1
    <3>2. s[y] = s[p] /\ \A j \in (p + 1)..(y - 1) : s[j] # s[p]
      BY <2>2, <3>1
    <3> HIDE DEF y
    <3>3. o[y + 1] = NUL /\ \A j \in (p + 1)..y : o[j] # NUL
      BY <1>4, <2>1, <3>1, <3>2
    <3>4. s[y] \in Quote
      BY <2>1, <3>2
    <3> QED
      BY <2>2, <3>1, <3>3, <3>4 DEF y
  <2>3. CASE l = 1 /\ \A j \in (p + 1)..n : s[j] # s[p]
    <3>1. n + 1 \in (p + 1)..(n + 1) /\ (n + 1) - 1 = n
      BY <1>1
    <3>2. \A j \in (p + 1)..((n + 1) - 1) : s[j] # s[p]
      BY <2>3, <3>1
    <3>3. \A j \in (p + 1)..(n + 1) : o[j] # NUL
      BY <1>3, <2>1, <3>1, <3>2
    <3> QED
      BY <2>3, <3>3
  <2> QED
    BY <1>6, <2>2, <2>3 DEF QuotedToken, n
<1>7. ASSUME BareToken(s, p, l) PROVE o[p + l] = NUL
  <2>1. \A j \in p..(p + l - 1) : s[j] \notin Quote
    BY <1>7 DEF BareToken
  <2>2. \A j \in p..((p + l) - 1) : After(NUL, s[j]) = NUL
    <3>1. \A j \in p..((p + l) - 1) : j \in p..(p + l - 1)
      OBVIOUS
    <3> QED
      BY <2>1, <3>1 DEF After
  <2>3. p \in 1..(n + 1) /\ p + l \in p..(n + 1) /\ p + l \in p..(p + l)
    BY <1>1
  <2>4. \A j \in p..(p + l) : o[j] = NUL
    BY <2>2, <2>3, StaysAs DEF n, o
  <2> QED
    BY <2>3, <2>4
<1>8. Closed(s) => o[n + 1] = NUL /\ n + 1 \in (p + 1)..(n + 1)
                   /\ (DollarToken(s, p, l) => n + 1 \in (p + 2)..(n + 1))
  <2>1. n + 1 \in (p + 1)..(n + 1)
    BY <1>1
  <2>2. DollarToken(s, p, l) => p + 1 <= n
    BY DEF DollarToken, n
  <2>3. DollarToken(s, p, l) => n + 1 \in (p + 2)..(n + 1)
    BY <1>1, <2>2
  <2> QED
    BY <2>1, <2>3 DEF Closed, o, n
<1>9. DollarToken(s, p, l) \/ QuotedToken(s, p, l) \/ BareToken(s, p, l)
          => o[p + l] = NUL \/ ~Closed(s)
  BY <1>5, <1>6, <1>7, <1>8
<1> QED
  BY <1>5, <1>6, <1>7, <1>9 DEF o, n

\* A quoted token is not closed only if the line is not.
LEMMA BadIsOpen ==
    ASSUME NEW s \in Text, NEW p \in 1..Len(s), s[p] \in Quote, OpenIn(s)[p] = NUL,
           NEW l \in 1..(Len(s) - p + 1),
           DollarToken(s, p, l) \/ QuotedToken(s, p, l) \/ BareToken(s, p, l)
    PROVE  /\ QuotedToken(s, p, l)
           /\ Bad(SubSeq(s, p, p + l - 1)) => ~Closed(s)
           /\ l = 1 => Bad(SubSeq(s, p, p + l - 1))
<1> DEFINE v == SubSeq(s, p, p + l - 1)
<1>1. Len(s) \in Nat /\ p \in Nat /\ p >= 1 /\ l \in Nat /\ l >= 1 /\ p + l - 1 <= Len(s)
  <2>1. Len(s) \in Nat
    BY DEF Text
  <2> QED
    BY <2>1
<1>2. QuotedToken(s, p, l)
  <2>1. ~DollarToken(s, p, l)
    BY DEF DollarToken, Quote
  <2>2. p \in p..(p + l - 1)
    BY <1>1
  <2>3. ~BareToken(s, p, l)
    BY <2>2 DEF BareToken
  <2> QED
    BY <2>1, <2>3
<1>3. Len(v) = l /\ v[1] = s[p] /\ v[l] = s[p + l - 1]
  <2>1. p \in Nat \ {0} /\ p + l - 1 \in Int
    BY <1>1
  <2>2. /\ Len(v) = IF p <= p + l - 1 THEN p + l - 1 - p + 1 ELSE 0
        /\ \A i \in 1..(p + l - 1 - p + 1) : v[i] = s[p + i - 1]
    BY <1>1, <2>1, PartOfText
  <2>3. p <= p + l - 1 /\ p + l - 1 - p + 1 = l /\ 1 \in 1..l /\ l \in 1..l /\ p + 1 - 1 = p
    BY <1>1
  <2> HIDE DEF v
  <2> QED
    BY <2>2, <2>3
<1> HIDE DEF v
<1>4. Bad(v) => l = 1
  <2> SUFFICES ASSUME l # 1 PROVE ClosedBy(v, 1, v[1])
    BY DEF Bad
  <2>1. l > 1
    BY <1>1
  <2>2. s[p + l - 1] = s[p]
    BY <1>2 DEF QuotedToken
  <2> QED
    BY <1>3, <2>1, <2>2 DEF ClosedBy
<1>5. l = 1 => Bad(v)
  <2>1. ~(1 > 1)
    OBVIOUS
  <2> QED
    BY <1>3, <2>1 DEF Bad, ClosedBy
<1>6. l = 1 => ~Closed(s)
  <2> SUFFICES ASSUME l = 1 PROVE ~Closed(s)
    OBVIOUS
  <2>1. ~(l >= 2)
    OBVIOUS
  <2>2. \A j \in (p + 1)..(Len(s) + 1) : OpenIn(s)[j] # NUL
    BY <1>2, <2>1, TokenCloses
  <2>3. Len(s) + 1 \in (p + 1)..(Len(s) + 1)
    BY <1>1
  <2> QED
    BY <2>2, <2>3 DEF Closed
<1> QED
  BY <1>2, <1>4, <1>5, <1>6 DEF v

\* A line that is to be rejected: the quote at o stays open, and starts a word.
Spoils(s, o) ==
    /\ s[o] \in Quote /\ OpenIn(s)[o] = NUL
    /\ \A j \in (o + 1)..(Len(s) + 1) : OpenIn(s)[j] # NUL
    /\ o = 1 \/ (s[o - 1] \in Operator \cup {" "} /\ OpenIn(s)[o - 1] = NUL)
Doomed == \E o \in 1..Len(line) : Spoils(line, o)

\* The line of OpenQuoteRejected is such a line.
LEMMA DoomedIs ==
    ASSUME line \in Text
    PROVE  /\ AllClosed <=> Closed(line)
           /\ ~AllClosed /\ ~InWord(OpenedAt - 1) => Doomed
<1>1. OpenQuote = OpenIn(line)
  BY DEF OpenQuote, OpenIn, IsOpen
<1>2. AllClosed <=> Closed(line)
  BY <1>1 DEF AllClosed, Closed
<1>3. DOMAIN line = 1..Len(line) /\ Len(line) \in Nat
  BY DEF Text
<1>4. {k \in Marks : OpenQuote[k] = NUL} = Openings(line)
  BY <1>1, <1>3 DEF Marks, Places, Openings
<1> DEFINE o == Max(Openings(line))
<1>5. OpenedAt = o
  BY <1>4 DEF OpenedAt
<1>6. ASSUME ~AllClosed, ~InWord(OpenedAt - 1) PROVE Doomed
  <2>1. o \in Openings(line) /\ \A j \in (o + 1)..(Len(line) + 1) : OpenIn(line)[j] # NUL
    BY <1>2, <1>6, LastOpened
  <2> HIDE DEF o
  <2>2. o \in 1..Len(line) /\ line[o] \in Quote /\ OpenIn(line)[o] = NUL
    BY <2>1 DEF Openings
  <2>3. o - 1 \in 1..Len(line) => line[o - 1] \in Operator \cup {" "} /\ OpenIn(line)[o - 1] = NUL
    BY <1>1, <1>3, <1>5, <1>6 DEF InWord, Places, IsSpace, IsOp
  <2>4. o = 1 \/ o - 1 \in 1..Len(line)
    BY <1>3, <2>2
  <2> QED
    BY <2>1, <2>2, <2>3, <2>4 DEF Doomed, Spoils
<1> QED
  BY <1>2, <1>6

\* A token that is read before such a quote ends before it, and does not end in a
\* space; the token that is read at the quote is the quote alone.
LEMMA BeforeSpoiled ==
    ASSUME NEW s \in Text, NEW o \in 1..Len(s), Spoils(s, o),
           NEW p \in 1..o, OpenIn(s)[p] = NUL, NEW l \in 1..(Len(s) - p + 1),
           DollarToken(s, p, l) \/ QuotedToken(s, p, l) \/ BareToken(s, p, l)
    PROVE  /\ p = o => l = 1
           /\ p # o => /\ p + l <= o /\ OpenIn(s)[p + l] = NUL /\ s[p + l - 1] # " "
                       /\ s[p + l - 1] \in Operator => SubSeq(s, p, p + l - 1) \in OperatorValues
<1> DEFINE f == OpenIn(s)
           n == Len(s)
<1>1. n \in Nat
  BY DEF Text
<1>2. /\ s[o] \in Quote /\ f[o] = NUL
      /\ \A j \in (o + 1)..(n + 1) : f[j] # NUL
      /\ o = 1 \/ s[o - 1] \in Operator \cup {" "}
  BY DEF Spoils
<1>3. p \in 1..n
  BY <1>1
<1>4. /\ DollarToken(s, p, l) =>
            \/ f[p + l] = NUL /\ s[p + l - 1] \in Quote
            \/ \A j \in (p + 2)..(n + 1) : f[j] # NUL
      /\ QuotedToken(s, p, l) =>
            \/ f[p + l] = NUL /\ s[p + l - 1] \in Quote /\ l >= 2
            \/ l = 1 /\ \A j \in (p + 1)..(n + 1) : f[j] # NUL
      /\ BareToken(s, p, l) => f[p + l] = NUL
  BY <1>3, TokenCloses
<1>5. DollarToken(s, p, l) => s[p] = "$"
  BY DEF DollarToken
<1>6. BareToken(s, p, l) =>
        /\ s[p + l - 1] # " "
        /\ s[p + l - 1] \in Operator => SubSeq(s, p, p + l - 1) \in OperatorValues
  <2>1. p + l - 1 \in p..(p + l - 1)
    BY <1>1
  <2> QED
    BY <2>1 DEF BareToken
<1>7. s[p + l - 1] \in Quote => s[p + l - 1] # " " /\ s[p + l - 1] \notin Operator
  BY DEF Quote, Operator
<1>8. p + l \in 1..(n + 1)
  BY <1>1
<1>9. ASSUME p = o PROVE QuotedToken(s, p, l)
  BY <1>2, <1>3, <1>9, BadIsOpen
<1> HIDE DEF f, n
<1>10. ASSUME f[p + l] = NUL PROVE p + l <= o
  <2> SUFFICES ASSUME ~(p + l <= o) PROVE FALSE
    OBVIOUS
  <2>1. p + l \in (o + 1)..(n + 1)
    BY <1>1, <1>8
  <2> QED
    BY <1>2, <1>10, <2>1
<1>11. ASSUME p = o PROVE l = 1
  <2>1. f[p + l] # NUL
    <3>1. ~(p + l <= o)
      BY <1>11
    <3> QED
      BY <1>10, <3>1
  <2> QED
    BY <1>4, <1>9, <1>11, <2>1
<1>12. ASSUME p # o PROVE f[p + l] = NUL
  <2>1. o \in (p + 1)..(n + 1) /\ o # 1
    BY <1>1, <1>12 DEF n
  <2>2. o = p + 1 => s[p] \in Operator \cup {" "}
    <3>1. o = p + 1 => o - 1 = p
      OBVIOUS
    <3> QED
      BY <1>2, <2>1, <3>1
  <2>3. s[p] = "$" => o \in (p + 2)..(n + 1)
    <3>1. s[p] = "$" => o # p + 1
      BY <2>2 DEF Operator
    <3>2. o # p + 1 => o \in (p + 2)..(n + 1)
      BY <1>1, <2>1
    <3> QED
      BY <3>1, <3>2
  <2>4. CASE DollarToken(s, p, l)
    BY <1>2, <1>4, <1>5, <2>3, <2>4
  <2>5. CASE QuotedToken(s, p, l)
    BY <1>2, <1>4, <2>1, <2>5
  <2>6. CASE BareToken(s, p, l)
    BY <1>4, <2>6
  <2> QED
    BY <2>4, <2>5, <2>6
<1>13. ASSUME p # o
       PROVE  /\ s[p + l - 1] # " "
              /\ s[p + l - 1] \in Operator => SubSeq(s, p, p + l - 1) \in OperatorValues
  <2>1. o \in (p + 1)..(n + 1)
    BY <1>1, <1>13 DEF n
  <2>2. CASE DollarToken(s, p, l)
    <3>1. ~(s[p] = "$" /\ o = p + 1)
      <4>1. o = p + 1 => o - 1 = p /\ o # 1
        BY <1>3
      <4>2. o = p + 1 => s[p] \in Operator \cup {" "}
        BY <1>2, <4>1
      <4> QED
        BY <4>2 DEF Operator
    <3>2. o # p + 1 => o \in (p + 2)..(n + 1)
      BY <1>1, <2>1
    <3>3. s[p + l - 1] \in Quote
      BY <1>2, <1>4, <1>5, <2>2, <3>1, <3>2
    <3> QED
      BY <1>7, <3>3
  <2>3. CASE QuotedToken(s, p, l)
    BY <1>2, <1>4, <1>7, <2>1, <2>3
  <2>4. CASE BareToken(s, p, l)
    BY <1>6, <2>4
  <2> QED
    BY <2>2, <2>3, <2>4
<1> QED
  BY <1>10, <1>11, <1>12, <1>13 DEF f, n

-----------------------------------------------------------------------------
(***************************************************************************)
(* Open quotes: from the line to the status.                               *)
(***************************************************************************)
\* The token before is not joined to token k.
Apart(ts, k)   == k = 1 \/ ~ts[k - 1].join \/ ts[k - 1].value \in OperatorValues
ApartOp(ts, k) == k = 1 \/ ~ts[k - 1].join \/ IsOperator(ts[k - 1])

\* While the line is split, and until the quotes are looked at.
Fresh(ts) == \A k \in DOMAIN ts : /\ ~ts[k].err /\ ~ts[k].literal
                                  /\ Bad(ts[k].value) => ~Closed(line)
BadStarts(ts) == \E k \in DOMAIN ts : Bad(ts[k].value) /\ Apart(ts, k)

\* Afterwards; an operator before the quote is one that was not quoted.
Seen(ts) == \A k \in DOMAIN ts : ts[k].err => ~Closed(line)
ErrorStarts(ts) ==
    \E k \in DOMAIN ts :
        /\ ts[k].err
        /\ k = 1 \/ ~ts[k - 1].join
           \/ (ts[k - 1].value \in OperatorValues /\ ~ts[k - 1].literal)
ErrorApart(ts) == \E k \in DOMAIN ts : ts[k].err /\ ApartOp(ts, k)

\* The quote at o is still to come, and the last token ends before it.
Coming(ts, from, o) ==
    /\ from <= o /\ OpenIn(line)[from] = NUL
    /\ ts # <<>> => /\ from > 1 /\ line[from - 1] # " "
                    /\ line[from - 1] \in Operator => ts[Len(ts)].value \in OperatorValues
                    /\ CharAt(line, from) = " " => ~ts[Len(ts)].join

QuoteInv ==
    /\ phase = "split" =>
          /\ OpenIn(line)[start] = NUL \/ ~Closed(line)
          /\ Fresh(tokens)
          /\ \A o \in 1..Len(line) :
                Spoils(line, o) => Coming(tokens, start, o) \/ BadStarts(tokens)
    /\ phase = "quotes" => Fresh(tokens) /\ (Doomed => BadStarts(tokens))
    /\ phase = "types" => Seen(tokens) /\ (Doomed => ErrorStarts(tokens))
    /\ phase = "join" => Seen(tokens) /\ (Doomed => ErrorApart(tokens))
    /\ phase = "rejected" => ~Closed(line)
    /\ phase \in {"assign", "expand", "expanding", "ready", "empty"} => ~Doomed

\* The spaces before a token are outside of quotes if they follow a token.
LEMMA SkippedIs ==
    ASSUME line \in Text, start \in 1..(Len(line) + 1)
    PROVE  /\ SkipSpaces \in start..(Len(line) + 1)
           /\ \A j \in start..(SkipSpaces - 1) : line[j] = " "
           /\ SkipSpaces <= Len(line) => NoSpaceAt(line, SkipSpaces)
           /\ OpenIn(line)[start] = NUL => OpenIn(line)[SkipSpaces] = NUL
<1> DEFINE p == SkipSpaces
           n == Len(line)
<1>1. n \in Nat /\ start \in Nat \ {0} /\ start <= n + 1
  <2>1. n \in Nat
    BY DEF Text
  <2> QED
    BY <2>1
<1>2. /\ p \in Nat /\ p <= n + 1
      /\ p = n + 1 \/ (p \in start..n /\ line[p] \in Char \ {" "})
      /\ \A j \in start..n : j < p => line[j] \notin Char \ {" "}
  BY <1>1, NextAtIs DEF SkipSpaces
<1> HIDE DEF p
<1>3. p \in start..(n + 1) /\ (p <= n => p # n + 1)
  <2>1. p \in Nat /\ p <= n + 1 /\ (p = n + 1 \/ p \in start..n)
    BY <1>2
  <2> HIDE DEF n
  <2> QED
    BY <1>1, <2>1
<1>4. \A j \in start..(p - 1) : j \in start..n /\ j \in 1..n /\ j < p
  BY <1>1, <1>3
<1>5. \A j \in 1..n : line[j] \in Char
  BY DEF Text
<1>6. \A j \in start..(p - 1) : line[j] = " "
  BY <1>2, <1>4, <1>5
<1>7. p <= n => NoSpaceAt(line, p)
  BY <1>2, <1>3 DEF NoSpaceAt
<1>8. ASSUME OpenIn(line)[start] = NUL PROVE OpenIn(line)[p] = NUL
  <2>1. After(NUL, " ") = NUL
    BY DEF After, Quote, NUL
  <2>2. \A j \in start..(p - 1) : After(NUL, line[j]) = NUL
    BY <1>6, <2>1
  <2>3. p \in start..p
    BY <1>1, <1>3
  <2>4. start \in 1..(Len(line) + 1) /\ p \in start..(Len(line) + 1)
    BY <1>3 DEF n
  <2>5. \A j \in start..p : OpenIn(line)[j] = NUL
    BY <1>8, <2>2, <2>4, StaysAs
  <2> QED
    BY <2>3, <2>5
<1> QED
  BY <1>3, <1>6, <1>7, <1>8 DEF p, n

\* What a token is when it is read.
LEMMA TokenReads ==
    ASSUME line \in Text, NEW from \in 1..Len(line), NEW n \in 1..(Len(line) - from + 1)
    PROVE  LET t == CreateAndInitToken(from, n)
           IN  /\ ~t.err /\ ~t.literal
               /\ t.value = SubSeq(line, from, from + n - 1) /\ t.value[1] = line[from]
               /\ CharAt(line, from + n) = " " => ~t.join
<1> DEFINE v == SubSeq(line, from, from + n - 1)
<1>1. Len(line) \in Nat
  BY DEF Text
<1>2. v[1] = line[from]
  <2>1. from \in Nat \ {0} /\ from + n - 1 \in Int /\ from + n - 1 <= Len(line)
    BY <1>1
  <2>2. \A i \in 1..(from + n - 1 - from + 1) : v[i] = line[from + i - 1]
    BY <2>1, PartOfText
  <2>3. 1 \in 1..(from + n - 1 - from + 1) /\ from + 1 - 1 = from
    BY <1>1
  <2> HIDE DEF v
  <2> QED
    BY <2>2, <2>3
<1>3. CharAt(line, from + n) = " " => ~Joins(v, CharAt(line, from + n))
  BY DEF Joins
<1> QED
  BY <1>2, <1>3 DEF CreateAndInitToken

\* What a token of the list says of the line is kept when another is appended.
LEMMA AppendedStarts ==
    ASSUME NEW ts \in Seq(Token), NEW t \in Token
    PROVE  /\ Fresh(ts) /\ ~t.err /\ ~t.literal /\ (Bad(t.value) => ~Closed(line))
                  => Fresh(Append(ts, t))
           /\ BadStarts(ts) => BadStarts(Append(ts, t))
           /\ Bad(t.value) /\ (ts = <<>> \/ ~ts[Len(ts)].join \/ ts[Len(ts)].value \in OperatorValues)
                  => BadStarts(Append(ts, t))
<1> DEFINE new == Append(ts, t)
           n == Len(ts)
<1>1. /\ n \in Nat /\ DOMAIN ts = 1..n /\ DOMAIN new = 1..(n + 1)
      /\ \A k \in 1..n : new[k] = ts[k]
      /\ new[n + 1] = t
  OBVIOUS
<1>2. ts = <<>> => n = 0
  OBVIOUS
<1> HIDE DEF new, n
<1>3. \A k \in 1..(n + 1) : k \in 1..n \/ k = n + 1
  BY <1>1
<1>4. Fresh(ts) /\ ~t.err /\ ~t.literal /\ (Bad(t.value) => ~Closed(line)) => Fresh(new)
  BY <1>1, <1>3 DEF Fresh
<1>5. ASSUME BadStarts(ts) PROVE BadStarts(new)
  <2>1. PICK k \in 1..n : Bad(ts[k].value) /\ Apart(ts, k)
    BY <1>1, <1>5 DEF BadStarts
  <2>2. k \in 1..(n + 1) /\ new[k] = ts[k] /\ (k = 1 \/ k - 1 \in 1..n)
    BY <1>1
  <2>3. Apart(new, k)
    BY <1>1, <2>1, <2>2 DEF Apart
  <2> QED
    BY <1>1, <2>1, <2>2, <2>3 DEF BadStarts
<1>6. ASSUME Bad(t.value), ts = <<>> \/ ~ts[n].join \/ ts[n].value \in OperatorValues
      PROVE  BadStarts(new)
  <2>1. n = 0 \/ n \in 1..n
    BY <1>1
  <2>2. (n + 1) - 1 = n /\ n + 1 \in 1..(n + 1) /\ (n = 0 => n + 1 = 1)
    BY <1>1
  <2>3. Apart(new, n + 1)
    BY <1>1, <1>2, <1>6, <2>1, <2>2 DEF Apart
  <2> QED
    BY <1>1, <1>6, <2>2, <2>3 DEF BadStarts
<1> QED
  BY <1>4, <1>5, <1>6 DEF new, n

\* A token is read: the quote that stays open is still to come, or has become a
\* token of its own that is joined to nothing.
LEMMA ReadStarts ==
    ASSUME line \in Text, start \in 1..(Len(line) + 1), tokens \in Seq(Token),
           SkipSpaces <= Len(line),
           NEW l, l = GetTokenLen(SubSeq(line, SkipSpaces, Len(line))),
           NEW t, t = CreateAndInitToken(SkipSpaces, l), t \in Token,
           l \in 1..(Len(line) - SkipSpaces + 1),
           NEW o \in 1..Len(line), Spoils(line, o), Coming(tokens, start, o)
    PROVE  Coming(Append(tokens, t), SkipSpaces + l, o) \/ BadStarts(Append(tokens, t))
<1> DEFINE p == SkipSpaces
           n == Len(line)
           v == SubSeq(line, p, p + l - 1)
           new == Append(tokens, t)
<1>1. n \in Nat /\ start \in 1..(n + 1) /\ o \in 1..n
  <2>1. n \in Nat
    BY DEF Text
  <2> QED
    BY <2>1
<1>2. /\ p \in start..(n + 1) /\ NoSpaceAt(line, p)
      /\ \A j \in start..(p - 1) : line[j] = " "
      /\ OpenIn(line)[start] = NUL => OpenIn(line)[p] = NUL
  BY SkippedIs
<1>3. p <= n
  OBVIOUS
<1>4. /\ start <= o /\ OpenIn(line)[start] = NUL
      /\ tokens # <<>> => /\ start > 1 /\ line[start - 1] # " "
                          /\ line[start - 1] \in Operator
                                => tokens[Len(tokens)].value \in OperatorValues
                          /\ CharAt(line, start) = " " => ~tokens[Len(tokens)].join
  BY DEF Coming
<1>5. /\ line[o] \in Quote
      /\ o = 1 \/ line[o - 1] \in Operator \cup {" "}
  BY DEF Spoils
<1>6. /\ new # <<>> /\ Len(new) \in Nat /\ new[Len(new)] = t /\ new \in Seq(Token)
  <2>1. new \in Seq(Token) /\ Len(new) = Len(tokens) + 1 /\ Len(tokens) \in Nat
        /\ new[Len(tokens) + 1] = t
    OBVIOUS
  <2>2. Len(<<>>) = 0
    OBVIOUS
  <2> HIDE DEF new
  <2>3. Len(new) # 0
    BY <2>1
  <2> QED
    BY <2>1, <2>2, <2>3
<1> HIDE DEF p, n, new
<1>7. p \in 1..n /\ start \in Nat /\ start >= 1
  <2>1. p \in start..(n + 1)
    BY <1>2
  <2> QED
    BY <1>1, <1>3, <2>1
<1>8. p <= o
  <2> SUFFICES ASSUME ~(p <= o) PROVE FALSE
    OBVIOUS
  <2>1. o \in start..(p - 1)
    <3>1. start <= o /\ ~(p <= o)
      BY <1>4
    <3> QED
      BY <1>1, <1>7, <3>1
  <2>2. line[o] = " "
    BY <1>2, <2>1
  <2> QED
    BY <1>5, <2>2 DEF Quote
<1>9. DollarToken(line, p, l) \/ QuotedToken(line, p, l) \/ BareToken(line, p, l)
  BY <1>2, <1>7, TokenAt DEF p, n
<1>10. /\ p = o => l = 1
       /\ p # o => /\ p + l <= o /\ OpenIn(line)[p + l] = NUL /\ line[p + l - 1] # " "
                   /\ line[p + l - 1] \in Operator => v \in OperatorValues
  <2>1. p \in 1..o
    BY <1>7, <1>8
  <2>2. OpenIn(line)[p] = NUL /\ l \in 1..(Len(line) - p + 1)
    BY <1>2, <1>4 DEF p
  <2> QED
    BY <1>9, <2>1, <2>2, BeforeSpoiled
<1>11. t.value = v /\ (CharAt(line, p + l) = " " => ~t.join)
  BY <1>7, TokenReads DEF p, n
<1>12. CASE p # o
  <2>1. p + l > 1
    BY <1>7, <1>12 DEF p
  <2> DEFINE q == p + l
  <2>2. /\ q > 1 /\ q <= o /\ OpenIn(line)[q] = NUL /\ line[q - 1] # " "
        /\ line[q - 1] \in Operator => t.value \in OperatorValues
        /\ CharAt(line, q) = " " => ~t.join
    <3>1. /\ q <= o /\ OpenIn(line)[q] = NUL /\ line[q - 1] # " "
          /\ line[q - 1] \in Operator => v \in OperatorValues
      <4>1. p + l - 1 = q - 1
        BY <1>1, <1>7
      <4>2. /\ p + l <= o /\ OpenIn(line)[p + l] = NUL /\ line[p + l - 1] # " "
            /\ line[p + l - 1] \in Operator => v \in OperatorValues
        BY <1>10, <1>12
      <4> HIDE DEF v
      <4> QED
        BY <4>1, <4>2
    <3>2. t.value = v /\ (CharAt(line, q) = " " => ~t.join)
      BY <1>11
    <3> HIDE DEF q, v
    <3> QED
      BY <2>1, <3>1, <3>2 DEF q
  <2> HIDE DEF q
  <2>3. Coming(new, q, o)
    BY <1>6, <2>2 DEF Coming
  <2> QED
    BY <2>3 DEF p, q, new
<1>13. CASE p = o
  <2>1. Bad(v)
    <3>1. l \in 1..(Len(line) - p + 1) /\ p \in 1..Len(line) /\ l = 1
      BY <1>7, <1>10, <1>13 DEF p, n
    <3>2. line[p] \in Quote /\ OpenIn(line)[p] = NUL
      BY <1>2, <1>4, <1>5, <1>13
    <3> QED
      BY <1>9, <3>1, <3>2, BadIsOpen
  <2>2. ASSUME tokens # <<>>
        PROVE  ~tokens[Len(tokens)].join \/ tokens[Len(tokens)].value \in OperatorValues
    <3>1. CASE start = p
      <4>1. o # 1
        <5>1. start > 1
          BY <1>4, <2>2
        <5> QED
          BY <1>7, <1>13, <3>1, <5>1
      <4>2. line[o - 1] \in Operator
        BY <1>4, <1>5, <1>13, <2>2, <3>1, <4>1
      <4> QED
        BY <1>4, <1>13, <2>2, <3>1, <4>2
    <3>2. CASE start # p
      <4>1. start \in start..(p - 1) /\ start \in 1..n
        <5>1. p \in start..(n + 1)
          BY <1>2
        <5> QED
          BY <1>1, <1>7, <3>2, <5>1
      <4>2. line[start] = " " /\ start \in DOMAIN line
        <5>1. DOMAIN line = 1..n
          BY DEF n, Text
        <5> QED
          BY <1>2, <4>1, <5>1
      <4>3. CharAt(line, start) = " "
        BY <4>2 DEF CharAt
      <4> QED
        BY <1>4, <2>2, <4>3
    <3> QED
      BY <3>1, <3>2
  <2>3. BadStarts(new)
    BY <1>11, <2>1, <2>2, AppendedStarts DEF new
  <2> QED
    BY <2>3 DEF new
<1> QED
  BY <1>12, <1>13

\* split_input.
LEMMA SplitQuotes ==
    ASSUME IInv, WordInv, QuoteInv, ProcessSingleTokenBlock \/ SplitEnds
    PROVE  QuoteInv'
<1> DEFINE p == SkipSpaces
           n == Len(line)
<1>1. /\ line \in Text /\ n \in Nat /\ tokens \in Seq(Token) /\ Len(tokens) \in Nat
      /\ DOMAIN tokens = 1..Len(tokens) /\ start \in 1..(n + 1)
  BY WordFacts
<1>2. phase = "split" /\ line' = line
  BY DEF ProcessSingleTokenBlock, SplitEnds
<1>3. /\ OpenIn(line)[start] = NUL \/ ~Closed(line)
      /\ Fresh(tokens)
      /\ \A o \in 1..n : Spoils(line, o) => Coming(tokens, start, o) \/ BadStarts(tokens)
  BY <1>2 DEF QuoteInv
<1>4. /\ p \in start..(n + 1)
      /\ \A j \in start..(p - 1) : line[j] = " "
      /\ p <= n => NoSpaceAt(line, p)
      /\ OpenIn(line)[start] = NUL => OpenIn(line)[p] = NUL
  BY <1>1, SkippedIs
<1>5. CASE ProcessSingleTokenBlock
  <2> DEFINE l == GetTokenLen(SubSeq(line, p, n))
             t == CreateAndInitToken(p, l)
             new == Append(tokens, t)
  <2>1. p <= n /\ tokens' = new /\ start' = p + l /\ phase' = "split"
    BY <1>2, <1>5 DEF ProcessSingleTokenBlock
  <2>2. p \in 1..n
    <3> HIDE DEF p, n
    <3>1. p <= n /\ p \in start..(n + 1) /\ n \in Nat /\ start \in 1..(n + 1)
      BY <1>1, <1>4, <2>1
    <3> QED
      BY <3>1
  <2>3. /\ l \in 1..(n - p + 1)
        /\ DollarToken(line, p, l) \/ QuotedToken(line, p, l) \/ BareToken(line, p, l)
    <3>1. NoSpaceAt(line, p)
      BY <1>4, <2>1
    <3> HIDE DEF p
    <3> QED
      BY <1>1, <2>2, <3>1, TokenAt
  <2>4. t \in Token
    <3> HIDE DEF p, l
    <3> QED
      BY <1>1, <2>2, <2>3, NewTokenIs
  <2>5. ~t.err /\ ~t.literal /\ t.value = SubSeq(line, p, p + l - 1) /\ t.value[1] = line[p]
    <3> HIDE DEF p, l
    <3> QED
      BY <1>1, <2>2, <2>3, TokenReads
  <2>6. \A o \in 1..n : Spoils(line, o) => Coming(new, p + l, o) \/ BadStarts(new)
    <3> SUFFICES ASSUME NEW o \in 1..n, Spoils(line, o)
                 PROVE  Coming(new, p + l, o) \/ BadStarts(new)
      OBVIOUS
    <3>1. CASE Coming(tokens, start, o)
      BY <1>1, <2>1, <2>3, <2>4, <3>1, ReadStarts
    <3>2. CASE BadStarts(tokens)
      BY <1>1, <2>4, <3>2, AppendedStarts
    <3> QED
      BY <1>3, <3>1, <3>2
  <2> HIDE DEF p, l, t
  <2>7. OpenIn(line)[p + l] = NUL \/ ~Closed(line)
    BY <1>1, <1>3, <1>4, <2>2, <2>3, TokenCloses DEF n
  <2>8. Bad(t.value) => ~Closed(line)
    <3> SUFFICES ASSUME Bad(t.value), OpenIn(line)[p] = NUL PROVE ~Closed(line)
      BY <1>3, <1>4
    <3>1. line[p] \in Quote
      BY <2>5 DEF Bad
    <3> QED
      BY <1>1, <2>2, <2>3, <2>5, <3>1, BadIsOpen
  <2>9. Fresh(new)
    BY <1>1, <1>3, <2>4, <2>5, <2>8, AppendedStarts
  <2> HIDE DEF new
  <2>10. /\ (OpenIn(line)[start] = NUL \/ ~Closed(line))'
         /\ Fresh(tokens)'
         /\ (\A o \in 1..Len(line) :
                Spoils(line, o) => Coming(tokens, start, o) \/ BadStarts(tokens))'
    <3>1. Fresh(tokens)'
      BY <1>2, <2>1, <2>9 DEF Fresh
    <3>2. \A o : Coming(new, p + l, o) => Coming(tokens, start, o)'
      BY <1>2, <2>1 DEF Coming
    <3>3. BadStarts(new) => BadStarts(tokens)'
      BY <2>1
    <3> QED
      BY <1>2, <2>1, <2>6, <2>7, <3>1, <3>2, <3>3
  <2> QED
    BY <2>1, <2>10 DEF QuoteInv
<1>6. CASE SplitEnds
  <2>1. /\ tokens' = tokens /\ start' = start /\ p > n
        /\ phase' = IF tokens = <<>> THEN "empty" ELSE "quotes"
    BY <1>6 DEF SplitEnds
  <2>2. ASSUME NEW o \in 1..n, Spoils(line, o), Coming(tokens, start, o) PROVE FALSE
    <3> HIDE DEF p, n
    <3>1. start <= o /\ line[o] \in Quote
      BY <2>2 DEF Coming, Spoils
    <3>2. p > n
      BY <2>1
    <3>3. o \in start..(p - 1)
      <4>1. p \in start..(n + 1) /\ n \in Nat /\ start \in 1..(n + 1) /\ start <= o
        BY <1>1, <1>4, <3>1
      <4> QED
        BY <3>2, <4>1
    <3> QED
      BY <1>4, <3>1, <3>3 DEF Quote
  <2>3. Doomed => BadStarts(tokens)
    BY <1>3, <2>2 DEF Doomed
  <2>4. BadStarts(tokens) => tokens # <<>>
    <3>1. tokens = <<>> => Len(tokens) = 0
      OBVIOUS
    <3>2. \A k \in 1..0 : FALSE
      OBVIOUS
    <3> QED
      BY <1>1, <3>1, <3>2 DEF BadStarts
  <2>5. Fresh(tokens)' /\ (Doomed' <=> Doomed) /\ (BadStarts(tokens)' <=> BadStarts(tokens))
    BY <1>2, <1>3, <2>1 DEF Fresh, Doomed
  <2> QED
    BY <2>1, <2>3, <2>4, <2>5 DEF QuoteInv
<1> QED
  BY <1>5, <1>6

\* What a token ends with in handle_single_quotes and the others leaves it joined as
\* it was, and without an error.
LEMMA HandlersKeep ==
    ASSUME NEW t \in Token, NEW e
    PROVE  /\ HandleDollarQuotes(t, e).join = t.join /\ HandleDollarQuotes(t, e).err = t.err
           /\ HandleSingleQuotes(t).join = t.join /\ HandleSingleQuotes(t).err = t.err
           /\ HandleDoubleQuotes(t, e).join = t.join /\ HandleDoubleQuotes(t, e).err = t.err
           /\ Unclosed(t).join = t.join /\ Unclosed(t).err
<1>1. ASSUME NEW v
      PROVE  /\ [t EXCEPT !.value = v].join = t.join /\ [t EXCEPT !.value = v].err = t.err
             /\ [t EXCEPT !.value = v, !.literal = TRUE].join = t.join
             /\ [t EXCEPT !.value = v, !.literal = TRUE].err = t.err
             /\ [t EXCEPT !.value = v, !.err = TRUE].join = t.join
             /\ [t EXCEPT !.value = v, !.err = TRUE].err = TRUE
  BY DEF Token
<1>2. HandleDollarQuotes(t, e).join = t.join /\ HandleDollarQuotes(t, e).err = t.err
  <2> DEFINE v == t.value
             text == IF ClosedBy(v, 2, v[2]) THEN SubSeq(v, 3, Len(v) - 1) ELSE v
  <2>1. HandleDollarQuotes(t, e)
        = IF v[2] = "'" THEN [t EXCEPT !.value = text, !.literal = TRUE]
          ELSE IF ClosedBy(v, 2, v[2]) THEN [t EXCEPT !.value = Expansion(text, e, status)] ELSE t
    BY DEF HandleDollarQuotes
  <2> HIDE DEF text, v
  <2> QED
    BY <1>1, <2>1
<1>3. HandleSingleQuotes(t).join = t.join /\ HandleSingleQuotes(t).err = t.err
  BY <1>1 DEF HandleSingleQuotes
<1>4. HandleDoubleQuotes(t, e).join = t.join /\ HandleDoubleQuotes(t, e).err = t.err
  <2> DEFINE text == Trim(t.value, {"\""})
  <2>1. HandleDoubleQuotes(t, e)
        = IF QuotedOperator(t.value) THEN [t EXCEPT !.value = text, !.literal = TRUE]
          ELSE [t EXCEPT !.value = QuoteHandlerCpy(text, e)]
    BY DEF HandleDoubleQuotes
  <2> HIDE DEF text
  <2> QED
    BY <1>1, <2>1
<1>5. Unclosed(t).join = t.join /\ Unclosed(t).err
  BY <1>1 DEF Unclosed
<1> QED
  BY <1>2, <1>3, <1>4, <1>5

\* quote_handler reports exactly the tokens that are not closed, keeps what is joined,
\* and leaves an operator alone.
LEMMA QuotesReport ==
    ASSUME NEW t \in Token, NEW e
    PROVE  /\ QuoteHandler(t, e).join = t.join
           /\ QuoteHandler(t, e).err => t.err \/ Bad(t.value)
           /\ Bad(t.value) => QuoteHandler(t, e).err
           /\ t.value \in OperatorValues => QuoteHandler(t, e) = t
<1> DEFINE dollar == t.value[1] = "$" /\ CharAt(t.value, 2) \in Quote
           closed == ClosedBy(t.value, 1, t.value[1])
<1>1. QuoteHandler(t, e)
      = IF dollar THEN HandleDollarQuotes(t, e)
        ELSE IF t.value[1] \notin Quote THEN t
        ELSE IF ~closed THEN Unclosed(t)
        ELSE IF t.value[1] = "'" THEN HandleSingleQuotes(t) ELSE HandleDoubleQuotes(t, e)
  BY DEF QuoteHandler
<1>2. Bad(t.value) <=> t.value[1] \in Quote /\ ~closed
  BY DEF Bad
<1>3. dollar => t.value[1] \notin Quote
  BY DEF Quote
<1>4. t.value \in OperatorValues => ~dollar /\ t.value[1] \notin Quote
  <2>1. t.value \in OperatorValues => t.value[1] \in Operator
    BY DEF OperatorValues, Redirs, Operator
  <2> QED
    BY <2>1 DEF Operator, Quote
<1>5. /\ HandleDollarQuotes(t, e).join = t.join /\ HandleDollarQuotes(t, e).err = t.err
      /\ HandleSingleQuotes(t).join = t.join /\ HandleSingleQuotes(t).err = t.err
      /\ HandleDoubleQuotes(t, e).join = t.join /\ HandleDoubleQuotes(t, e).err = t.err
      /\ Unclosed(t).join = t.join /\ Unclosed(t).err
  BY HandlersKeep
<1> HIDE DEF dollar, closed
<1> QED
  BY <1>1, <1>2, <1>3, <1>4, <1>5

\* typealize keeps errors and joins, and makes an operator of an unquoted one.
LEMMA TypesReport ==
    ASSUME NEW t \in Token
    PROVE  /\ Typealize(t).join = t.join /\ Typealize(t).err = t.err
           /\ t.value \in OperatorValues /\ ~t.literal => IsOperator(Typealize(t))
<1>1. ASSUME NEW type, NEW rank
      PROVE  /\ As(t, type, rank).join = t.join /\ As(t, type, rank).err = t.err
             /\ As(t, type, rank).type = type
  BY DEF As, Token
<1>2. Typealize(t).join = t.join /\ Typealize(t).err = t.err
  BY <1>1 DEF Typealize
<1>3. ASSUME t.value \in OperatorValues, ~t.literal PROVE IsOperator(Typealize(t))
  <2>1. t.value = <<"|">> \/ t.value \in Redirs
    BY <1>3 DEF OperatorValues
  <2>2. Typealize(t) = As(t, "pipe", "S") \/ Typealize(t) = As(t, "redir", "A")
    BY <1>3, <2>1 DEF Typealize
  <2> QED
    BY <1>1, <2>2 DEF IsOperator
<1> QED
  BY <1>2, <1>3

\* quote_handler_call_loop and typealize_call_loop.
LEMMA LoopsReport ==
    ASSUME IInv, WordInv, QuoteInv, QuoteHandlerCallLoop \/ TypealizeCallLoop
    PROVE  QuoteInv'
<1>1. /\ tokens \in Seq(Token) /\ Len(tokens) \in Nat /\ DOMAIN tokens = 1..Len(tokens)
  BY WordFacts
<1>2. line' = line /\ (Doomed' <=> Doomed) /\ DOMAIN tokens' = DOMAIN tokens
  BY DEF QuoteHandlerCallLoop, TypealizeCallLoop, Doomed
<1>3. \A k \in DOMAIN tokens : tokens[k] \in Token /\ (k = 1 \/ k - 1 \in DOMAIN tokens)
  BY <1>1
<1>4. CASE QuoteHandlerCallLoop
  <2>1. /\ phase = "quotes" /\ phase' = "types"
        /\ \A k \in DOMAIN tokens : tokens'[k] = QuoteHandler(tokens[k], env)
    BY <1>4 DEF QuoteHandlerCallLoop
  <2>2. \A k \in DOMAIN tokens :
            /\ tokens'[k].join = tokens[k].join
            /\ tokens'[k].err => tokens[k].err \/ Bad(tokens[k].value)
            /\ Bad(tokens[k].value) => tokens'[k].err
            /\ tokens[k].value \in OperatorValues => tokens'[k] = tokens[k]
    BY <1>3, <2>1, QuotesReport
  <2>3. Fresh(tokens) /\ (Doomed => BadStarts(tokens))
    BY <2>1 DEF QuoteInv
  <2>4. Seen(tokens')
    BY <1>2, <2>2, <2>3 DEF Seen, Fresh
  <2>5. BadStarts(tokens) => ErrorStarts(tokens')
    <3> SUFFICES ASSUME NEW k \in DOMAIN tokens, Bad(tokens[k].value), Apart(tokens, k)
                 PROVE  ErrorStarts(tokens')
      BY DEF BadStarts
    <3>1. tokens'[k].err
      BY <2>2
    <3>2. k = 1 \/ ~tokens'[k - 1].join
          \/ (tokens'[k - 1].value \in OperatorValues /\ ~tokens'[k - 1].literal)
      BY <1>3, <2>2, <2>3 DEF Apart, Fresh
    <3> QED
      BY <1>2, <3>1, <3>2 DEF ErrorStarts
  <2>6. Seen(tokens)' /\ (ErrorStarts(tokens)' <=> ErrorStarts(tokens'))
    BY <1>2, <2>4 DEF Seen, ErrorStarts
  <2> QED
    BY <1>2, <2>1, <2>3, <2>5, <2>6 DEF QuoteInv
<1>5. CASE TypealizeCallLoop
  <2>1. /\ phase = "types" /\ phase' = "join"
        /\ \A k \in DOMAIN tokens : tokens'[k] = Typealize(tokens[k])
    BY <1>5 DEF TypealizeCallLoop
  <2>2. \A k \in DOMAIN tokens :
            /\ tokens'[k].join = tokens[k].join /\ tokens'[k].err = tokens[k].err
            /\ tokens[k].value \in OperatorValues /\ ~tokens[k].literal => IsOperator(tokens'[k])
    BY <1>3, <2>1, TypesReport
  <2>3. Seen(tokens) /\ (Doomed => ErrorStarts(tokens))
    BY <2>1 DEF QuoteInv
  <2>4. Seen(tokens')
    BY <1>2, <2>2, <2>3 DEF Seen
  <2>5. ErrorStarts(tokens) => ErrorApart(tokens')
    <3> SUFFICES ASSUME ErrorStarts(tokens) PROVE ErrorApart(tokens')
      OBVIOUS
    <3>1. PICK k \in DOMAIN tokens :
            /\ tokens[k].err
            /\ k = 1 \/ ~tokens[k - 1].join
               \/ (tokens[k - 1].value \in OperatorValues /\ ~tokens[k - 1].literal)
      BY DEF ErrorStarts
    <3>2. tokens'[k].err /\ ApartOp(tokens', k)
      BY <1>3, <2>2, <3>1 DEF ApartOp
    <3> QED
      BY <1>2, <3>2 DEF ErrorApart
  <2>6. Seen(tokens)' /\ (ErrorApart(tokens)' <=> ErrorApart(tokens'))
    BY <1>2, <2>4 DEF Seen
  <2> QED
    BY <1>2, <2>1, <2>3, <2>5, <2>6 DEF QuoteInv
<1> QED
  BY <1>4, <1>5

\* perform_quote_concatenation: the error of a token that is joined to nothing before
\* it stays, whatever is joined around it.
LEMMA JoiningReports ==
    ASSUME NEW ts \in Seq(Token), NEW new \in Seq(Token), NEW c \in 1..Len(ts), c < Len(ts),
           Len(new) = Len(ts) - 1, ts[c].join, ~IsOperator(ts[c]), ~IsOperator(ts[c + 1]),
           \A k \in 1..Len(new) :
              IF k < c THEN new[k] = ts[k]
              ELSE IF k = c THEN new[k].err = ts[k].err /\ new[k].join = ts[k + 1].join
              ELSE new[k] = ts[k + 1]
    PROVE  /\ Seen(ts) => Seen(new)
           /\ ErrorApart(ts) => ErrorApart(new)
<1> DEFINE n == Len(ts)
<1>1. /\ n \in Nat /\ c \in 1..n /\ c < n /\ Len(new) = n - 1
      /\ DOMAIN ts = 1..n /\ DOMAIN new = 1..(n - 1)
  <2>1. Len(ts) \in Nat /\ DOMAIN ts = 1..Len(ts) /\ DOMAIN new = 1..Len(new)
    OBVIOUS
  <2> QED
    BY <2>1
<1>2. \A k \in 1..(n - 1) : /\ k < c => new[k] = ts[k]
                            /\ k = c => new[k].err = ts[k].err /\ new[k].join = ts[k + 1].join
                            /\ k > c => new[k] = ts[k + 1]
  <2>1. \A k \in 1..(n - 1) : (k > c => ~(k < c) /\ k # c) /\ (k = c => ~(k < c))
    BY <1>1
  <2> HIDE DEF n
  <2> QED
    BY <1>1, <2>1
<1> HIDE DEF n
<1>3. ASSUME Seen(ts) PROVE Seen(new)
  <2> SUFFICES ASSUME NEW k \in 1..(n - 1), new[k].err PROVE ~Closed(line)
    BY <1>1 DEF Seen
  <2>1. k \in 1..n /\ k + 1 \in 1..n /\ (k < c \/ k = c \/ k > c)
    BY <1>1
  <2>2. ts[k].err \/ ts[k + 1].err
    BY <1>2, <2>1
  <2> QED
    BY <1>1, <1>3, <2>1, <2>2 DEF Seen
<1>4. ASSUME ErrorApart(ts) PROVE ErrorApart(new)
  <2>1. PICK k \in 1..n : ts[k].err /\ ApartOp(ts, k)
    BY <1>1, <1>4 DEF ErrorApart
  <2>2. k = 1 \/ ~ts[k - 1].join \/ IsOperator(ts[k - 1])
    BY <2>1 DEF ApartOp
  <2>3. k # c + 1
    <3>1. k = c + 1 => k - 1 = c /\ k # 1
      BY <1>1
    <3> QED
      BY <2>2, <3>1
  <2>4. CASE k < c
    <3>1. k \in 1..(n - 1) /\ (k = 1 \/ (k - 1 \in 1..(n - 1) /\ k - 1 < c))
      BY <1>1, <2>4
    <3>2. new[k] = ts[k] /\ (k # 1 => new[k - 1] = ts[k - 1])
      BY <1>2, <2>4, <3>1
    <3> QED
      BY <1>1, <2>1, <2>2, <3>1, <3>2 DEF ErrorApart, ApartOp
  <2>5. CASE k = c
    <3>1. k \in 1..(n - 1) /\ (k = 1 \/ (k - 1 \in 1..(n - 1) /\ k - 1 < c))
      BY <1>1, <2>5
    <3>2. new[k].err = ts[k].err /\ (k # 1 => new[k - 1] = ts[k - 1])
      BY <1>2, <2>5, <3>1
    <3> QED
      BY <1>1, <2>1, <2>2, <3>1, <3>2 DEF ErrorApart, ApartOp
  <2>6. CASE k = c + 2
    <3>1. /\ k - 1 \in 1..(n - 1) /\ k - 1 > c /\ (k - 1) + 1 = k /\ k # 1
          /\ c \in 1..(n - 1) /\ k - 1 = c + 1 /\ (k - 1) - 1 = c
      BY <1>1, <2>6
    <3>2. new[k - 1] = ts[k]
      BY <1>2, <3>1
    <3>3. new[c].join = ts[c + 1].join
      BY <1>2, <3>1
    <3>4. ~ts[c + 1].join
      BY <2>2, <3>1
    <3>5. ApartOp(new, k - 1)
      BY <3>1, <3>3, <3>4 DEF ApartOp
    <3> QED
      BY <1>1, <2>1, <3>1, <3>2, <3>5 DEF ErrorApart
  <2>7. CASE k > c + 2
    <3>1. /\ k - 1 \in 1..(n - 1) /\ k - 1 > c /\ (k - 1) + 1 = k /\ k # 1
          /\ (k - 1) - 1 \in 1..(n - 1) /\ (k - 1) - 1 > c /\ ((k - 1) - 1) + 1 = k - 1
      BY <1>1, <2>7
    <3>2. new[k - 1] = ts[k]
      BY <1>2, <3>1
    <3>3. new[(k - 1) - 1] = ts[k - 1]
      BY <1>2, <3>1
    <3>4. ApartOp(new, k - 1)
      BY <2>2, <3>1, <3>3 DEF ApartOp
    <3> QED
      BY <1>1, <2>1, <3>1, <3>2, <3>4 DEF ErrorApart
  <2>8. k < c \/ k = c \/ k = c + 2 \/ k > c + 2
    BY <1>1, <2>3
  <2> QED
    BY <2>4, <2>5, <2>6, <2>7, <2>8
<1> QED
  BY <1>3, <1>4

\* perform_quote_concatenation, and what input_handler makes of the errors.
LEMMA JoinReports ==
    ASSUME IInv, WordInv, QuoteInv, PerformQuoteConcatenation \/ JoinEnds
    PROVE  QuoteInv'
<1>1. /\ Len(tokens) \in Nat /\ DOMAIN tokens = 1..Len(tokens) /\ tokens \in Seq(Token)
      /\ cur \in 1..(Len(tokens) + 1)
  BY WordFacts
<1>2. phase = "join" /\ line' = line /\ (Doomed' <=> Doomed)
  BY DEF PerformQuoteConcatenation, JoinEnds, Doomed
<1>3. Seen(tokens) /\ (Doomed => ErrorApart(tokens))
  BY <1>2 DEF QuoteInv
<1>4. CASE PerformQuoteConcatenation
  <2>1. phase' = "join" /\ cur <= Len(tokens)
    BY <1>2, <1>4 DEF PerformQuoteConcatenation
  <2>2. CASE tokens' = tokens
    <3>1. Seen(tokens)' /\ (ErrorApart(tokens)' <=> ErrorApart(tokens))
      BY <1>2, <1>3, <2>2 DEF Seen
    <3> QED
      BY <1>2, <1>3, <2>1, <3>1 DEF QuoteInv
  <2>3. CASE /\ tokens[cur].join /\ cur < Len(tokens)
             /\ ~IsOperator(tokens[cur]) /\ ~IsOperator(tokens[cur + 1])
             /\ tokens' = RemoveAt([tokens EXCEPT
                    ![cur].value = @ \o tokens[cur + 1].value,
                    ![cur].join = tokens[cur + 1].join], cur + 1)
    <3>1. cur \in 1..Len(tokens)
      BY <1>1, <2>1
    <3>2. /\ tokens' \in Seq(Token) /\ Len(tokens') = Len(tokens) - 1
          /\ \A k \in 1..Len(tokens') :
                IF k < cur THEN tokens'[k] = tokens[k]
                ELSE IF k = cur THEN /\ tokens'[k].err = tokens[k].err
                                     /\ tokens'[k].join = tokens[k + 1].join
                ELSE tokens'[k] = tokens[k + 1]
      BY <1>1, <2>3, <3>1, JoinedIs
    <3>3. (Seen(tokens) => Seen(tokens')) /\ (ErrorApart(tokens) => ErrorApart(tokens'))
      BY <1>1, <2>3, <3>1, <3>2, JoiningReports
    <3>4. Seen(tokens)' /\ (ErrorApart(tokens)' <=> ErrorApart(tokens'))
      BY <1>2, <1>3, <3>3 DEF Seen
    <3> QED
      BY <1>2, <1>3, <2>1, <3>3, <3>4 DEF QuoteInv
  <2> QED
    BY <1>4, <2>2, <2>3 DEF PerformQuoteConcatenation
<1>5. CASE JoinEnds
  <2>1. /\ HasParserError => phase' = "rejected"
        /\ ~HasParserError => phase' = "assign"
    BY <1>5 DEF JoinEnds
  <2>2. HasParserError => ~Closed(line)
    BY <1>3 DEF HasParserError, Seen
  <2>3. Doomed => HasParserError
    BY <1>3 DEF HasParserError, ErrorApart
  <2> QED
    BY <1>2, <2>1, <2>2, <2>3 DEF QuoteInv
<1> QED
  BY <1>4, <1>5

\* Once a line was not rejected, its quotes no longer matter.
LEMMA LaterPasses ==
    ASSUME QuoteInv, \/ ApplyVariableAssignment \/ AssignmentsEnd \/ SkipToken \/ ExpandToken
                     \/ ExpandVariables \/ StoreExpansion \/ ParserCmdNoFound
    PROVE  QuoteInv'
<1>1. /\ line' = line /\ (Doomed' <=> Doomed)
      /\ phase \in {"assign", "expand", "expanding"}
      /\ phase' \in {"assign", "expand", "expanding", "ready"}
  BY DEF ApplyVariableAssignment, AssignmentsEnd, SkipToken, ExpandToken, ExpandVariables,
         StoreExpansion, ParserCmdNoFound, wordVars, Doomed
<1> QED
  BY <1>1 DEF QuoteInv

\* In every state.
LEMMA QuoteInvariance == Spec => []QuoteInv
<1>1. Init => QuoteInv
  <2> SUFFICES ASSUME Init PROVE QuoteInv
    OBVIOUS
  <2>1. phase = "split" /\ start = 1 /\ tokens = <<>> /\ line \in Text
    BY WordsAssumption DEF Init
  <2>2. OpenIn(line)[1] = NUL
    BY <2>1, OpenIs
  <2>3. Fresh(<<>>)
    BY DEF Fresh
  <2>4. \A o \in 1..Len(line) : Coming(<<>>, 1, o)
    BY <2>2 DEF Coming
  <2> QED
    BY <2>1, <2>2, <2>3, <2>4 DEF QuoteInv
<1>2. IInv /\ WordInv /\ QuoteInv /\ [Next]_vars => QuoteInv'
  <2> SUFFICES ASSUME IInv, WordInv, QuoteInv, [Next]_vars PROVE QuoteInv'
    OBVIOUS
  <2>1. CASE UNCHANGED vars
    <3>1. line' = line /\ start' = start /\ tokens' = tokens /\ phase' = phase
      BY <2>1 DEF vars, wordVars
    <3> QED
      BY <3>1 DEF QuoteInv, Fresh, Seen, Coming, BadStarts, Apart, ErrorStarts, ErrorApart, ApartOp,
                  IsOperator, Doomed
  <2>2. CASE Next
    BY <2>2, SplitQuotes, LoopsReport, JoinReports, LaterPasses DEF Next
  <2> QED
    BY <2>1, <2>2
<1> QED
  BY <1>1, <1>2, WordsInvariance, PTL DEF Spec

\* For every line, only one with an open quote is rejected, and one whose open quote
\* starts a word is, before anything of it is assigned, expanded or handed over:
\* whatever the tokens before and behind the quote are split into, made of and joined
\* to.
THEOREM OpenQuoteRejectedAlways == Spec => []OpenQuoteRejected
<1>1. IInv /\ WordInv /\ QuoteInv => OpenQuoteRejected
  <2> SUFFICES ASSUME IInv, WordInv, QuoteInv PROVE OpenQuoteRejected
    OBVIOUS
  <2>1. /\ AllClosed <=> Closed(line)
        /\ ~AllClosed /\ ~InWord(OpenedAt - 1) => Doomed
    BY WordFacts, DoomedIs
  <2>2. phase \in Phases
    BY DEF WordInv
  <2>3. phase = "rejected" => ~AllClosed
    BY <2>1 DEF QuoteInv
  <2>4. Doomed => phase \in {"split", "quotes", "types", "join", "rejected"}
    BY <2>2 DEF QuoteInv, Phases
  <2> QED
    BY <2>1, <2>3, <2>4 DEF OpenQuoteRejected
<1> QED
  BY <1>1, QuoteInvariance, WordsInvariance, PTL

-----------------------------------------------------------------------------
(***************************************************************************)
(* What the places of a set spell.                                         *)
(***************************************************************************)
\* A set of places, counted.
LEMMA PlacesCount ==
    ASSUME NEW S \in SUBSET Nat, IsFiniteSet(S), NEW k \in Nat
    PROVE  /\ Cardinality(S) \in Nat /\ Order(S, k) \in Nat /\ Order(S, k) <= Cardinality(S)
           /\ k \in S => Order(S, k) >= 1
<1> DEFINE T == {i \in S : i <= k}
<1>1. T \in SUBSET S
  OBVIOUS
<1>2. IsFiniteSet(T) /\ Cardinality(T) <= Cardinality(S)
  BY <1>1, FS_Subset
<1>3. Cardinality(S) \in Nat /\ Cardinality(T) \in Nat
  BY <1>2, FS_CardinalityType
<1>4. k \in S => k \in T
  OBVIOUS
<1>5. Order(S, k) = Cardinality(T)
  BY DEF Order
<1> HIDE DEF T
<1>6. k \in S => Cardinality(T) # 0
  BY <1>2, <1>4, FS_EmptySet
<1> QED
  BY <1>2, <1>3, <1>5, <1>6

\* The next one is one more.
LEMMA NextInOrder ==
    ASSUME NEW A \in SUBSET Nat, IsFiniteSet(A), NEW B \in SUBSET Nat, IsFiniteSet(B),
           \A i \in A, j \in B : i < j
    PROVE  /\ IsFiniteSet(A \cup B) /\ A \cup B \in SUBSET Nat
           /\ Cardinality(A \cup B) = Cardinality(A) + Cardinality(B)
           /\ \A k \in A : Order(A \cup B, k) = Order(A, k)
           /\ \A k \in B : Order(A \cup B, k) = Cardinality(A) + Order(B, k)
<1>1. ASSUME NEW U \in SUBSET B
      PROVE  IsFiniteSet(A \cup U) /\ Cardinality(A \cup U) = Cardinality(A) + Cardinality(U)
  <2>1. IsFiniteSet(U)
    BY FS_Subset
  <2>2. A \cap U = {}
    <3> SUFFICES ASSUME NEW i \in A, i \in U PROVE FALSE
      OBVIOUS
    <3>1. i < i /\ i \in Nat
      OBVIOUS
    <3> QED
      BY <3>1
  <2>3. /\ IsFiniteSet(A \cup U)
        /\ Cardinality(A \cup U) = Cardinality(A) + Cardinality(U) - Cardinality(A \cap U)
    BY <2>1, FS_Union
  <2>4. Cardinality(A \cap U) = 0
    BY <2>2, FS_EmptySet
  <2>5. Cardinality(A) \in Nat /\ Cardinality(U) \in Nat
    BY <2>1, FS_CardinalityType
  <2> QED
    BY <2>3, <2>4, <2>5
<1>2. ASSUME NEW k \in A PROVE Order(A \cup B, k) = Order(A, k)
  <2>1. {i \in A \cup B : i <= k} = {i \in A : i <= k}
    <3>1. \A j \in B : ~(j <= k)
      <4>1. \A j \in B : k < j /\ j \in Nat /\ k \in Nat
        OBVIOUS
      <4> QED
        BY <4>1
    <3> QED
      BY <3>1
  <2> QED
    BY <2>1 DEF Order
<1>3. ASSUME NEW k \in B PROVE Order(A \cup B, k) = Cardinality(A) + Order(B, k)
  <2>1. {i \in A \cup B : i <= k} = A \cup {i \in B : i <= k}
    <3>1. \A i \in A : i <= k
      <4>1. \A i \in A : i < k /\ i \in Nat /\ k \in Nat
        OBVIOUS
      <4> QED
        BY <4>1
    <3> QED
      BY <3>1
  <2> DEFINE U == {i \in B : i <= k}
  <2>2. U \in SUBSET B
    OBVIOUS
  <2>3. Cardinality(A \cup U) = Cardinality(A) + Cardinality(U)
    BY <1>1, <2>2
  <2> QED
    BY <2>1, <2>3 DEF Order
<1> QED
  BY <1>1, <1>2, <1>3

\* The text of some places; each of its characters is that of one of them.
SpellsIn(s, v, S) ==
    /\ Len(v) = Cardinality(S)
    /\ \A k \in S : v[Order(S, k)] = s[k]
    /\ \A i \in 1..Len(v) : \E k \in S : v[i] = s[k]

\* Places that lie together spell a part of the text.
LEMMA PartSpells ==
    ASSUME NEW s \in Text, NEW a \in Nat \ {0}, NEW b \in Nat, b <= Len(s), a <= b + 1
    PROVE  SpellsIn(s, SubSeq(s, a, b), a..b) /\ IsFiniteSet(a..b) /\ a..b \in SUBSET Nat
<1> DEFINE v == SubSeq(s, a, b)
           n == b - a + 1
<1>1. /\ v \in Seq(Char) /\ Len(v) = n /\ n \in Nat
      /\ \A i \in 1..n : v[i] = s[a + i - 1]
  <2>1. /\ v \in Seq(Char) /\ Len(v) = IF a <= b THEN n ELSE 0
        /\ \A i \in 1..n : v[i] = s[a + i - 1]
    <3>1. b \in Int
      OBVIOUS
    <3> QED
      BY <3>1, PartOfText
  <2>2. n \in Nat /\ (~(a <= b) => n = 0)
    OBVIOUS
  <2> HIDE DEF v, n
  <2> QED
    BY <2>1, <2>2
<1>2. IsFiniteSet(a..b) /\ Cardinality(a..b) = n
  <2>1. IsFiniteSet(a..b) /\ Cardinality(a..b) = IF a > b THEN 0 ELSE b - a + 1
    BY FS_Interval
  <2> QED
    BY <2>1
<1>3. ASSUME NEW k \in a..b PROVE Order(a..b, k) = k - a + 1
  <2>1. {i \in a..b : i <= k} = a..k
    OBVIOUS
  <2>2. Cardinality(a..k) = IF a > k THEN 0 ELSE k - a + 1
    BY FS_Interval
  <2>3. Cardinality(a..k) = k - a + 1
    <3>1. ~(a > k)
      OBVIOUS
    <3> QED
      BY <2>2, <3>1
  <2> QED
    BY <2>1, <2>3, Zenon DEF Order
<1> HIDE DEF v
<1>4. ASSUME NEW k \in a..b PROVE v[Order(a..b, k)] = s[k]
  <2>1. k - a + 1 \in 1..n /\ a + (k - a + 1) - 1 = k
    <3>1. a \in Nat /\ b \in Nat /\ k \in Nat /\ a <= k /\ k <= b /\ a >= 1
      OBVIOUS
    <3> QED
      BY <3>1
  <2>2. v[k - a + 1] = s[a + (k - a + 1) - 1]
    BY <1>1, <2>1
  <2> QED
    BY <1>3, <2>1, <2>2
<1>5. ASSUME NEW i \in 1..Len(v) PROVE \E k \in a..b : v[i] = s[k]
  <2>1. i \in 1..n
    BY <1>1
  <2>2. a + i - 1 \in a..b
    BY <2>1
  <2> QED
    BY <1>1, <2>1, <2>2
<1>6. a..b \in SUBSET Nat
  OBVIOUS
<1> QED
  BY <1>1, <1>2, <1>4, <1>5, <1>6 DEF SpellsIn, v

\* Two texts, joined, are the text of the places of both.
LEMMA JoinedSpells ==
    ASSUME NEW s \in Text, NEW A \in SUBSET Nat, IsFiniteSet(A), NEW B \in SUBSET Nat, IsFiniteSet(B),
           \A i \in A, j \in B : i < j,
           NEW v \in Text, NEW w \in Text, SpellsIn(s, v, A), SpellsIn(s, w, B)
    PROVE  SpellsIn(s, v \o w, A \cup B)
<1> DEFINE u == v \o w
           m == Cardinality(A)
           n == Cardinality(B)
<1>1. /\ Len(u) = Len(v) + Len(w) /\ Len(v) \in Nat /\ Len(w) \in Nat
      /\ \A i \in 1..(Len(v) + Len(w)) : u[i] = IF i <= Len(v) THEN v[i] ELSE w[i - Len(v)]
  <2>1. v \in Seq(Char) /\ w \in Seq(Char)
    BY DEF Text
  <2> QED
    BY <2>1, ConcatProperties
<1>2. Len(v) = m /\ Len(w) = n
  BY DEF SpellsIn
<1>3. /\ Cardinality(A \cup B) = m + n
      /\ \A k \in A : Order(A \cup B, k) = Order(A, k)
      /\ \A k \in B : Order(A \cup B, k) = m + Order(B, k)
  BY NextInOrder
<1> HIDE DEF u, m, n
<1>4. /\ \A k \in A : Order(A, k) \in 1..m
      /\ \A k \in B : Order(B, k) \in 1..n
  <2>1. ASSUME NEW k \in A PROVE Order(A, k) \in 1..m
    <3>1. k \in Nat
      OBVIOUS
    <3>2. m \in Nat /\ Order(A, k) \in Nat /\ Order(A, k) <= m /\ Order(A, k) >= 1
      BY <3>1, PlacesCount DEF m
    <3> QED
      BY <3>2
  <2>2. ASSUME NEW k \in B PROVE Order(B, k) \in 1..n
    <3>1. k \in Nat
      OBVIOUS
    <3>2. n \in Nat /\ Order(B, k) \in Nat /\ Order(B, k) <= n /\ Order(B, k) >= 1
      BY <3>1, PlacesCount DEF n
    <3> QED
      BY <3>2
  <2> QED
    BY <2>1, <2>2
<1>5. \A k \in A : v[Order(A, k)] = s[k]
  BY DEF SpellsIn
<1>6. \A k \in B : w[Order(B, k)] = s[k]
  BY DEF SpellsIn
<1>7. ASSUME NEW k \in A PROVE u[Order(A \cup B, k)] = s[k]
  <2>1. Order(A, k) \in 1..m
    BY <1>4
  <2>2. Order(A, k) \in 1..(Len(v) + Len(w)) /\ Order(A, k) <= Len(v)
    BY <1>1, <1>2, <2>1
  <2> QED
    BY <1>1, <1>3, <1>5, <2>2
<1>8. ASSUME NEW k \in B PROVE u[Order(A \cup B, k)] = s[k]
  <2> DEFINE o == Order(B, k)
  <2>1. o \in 1..n
    BY <1>4
  <2> HIDE DEF o
  <2>2. m + o \in 1..(Len(v) + Len(w)) /\ ~(m + o <= Len(v)) /\ (m + o) - Len(v) = o
    BY <1>1, <1>2, <2>1
  <2>3. u[m + o] = w[o]
    BY <1>1, <2>2
  <2> QED
    BY <1>3, <1>6, <2>3 DEF o
<1>9. ASSUME NEW i \in 1..Len(u) PROVE \E k \in A \cup B : u[i] = s[k]
  <2>1. CASE i <= Len(v)
    <3>1. i \in 1..Len(v) /\ i \in 1..(Len(v) + Len(w))
      BY <1>1, <2>1
    <3>2. \E k \in A : v[i] = s[k]
      BY <3>1 DEF SpellsIn
    <3> QED
      BY <1>1, <2>1, <3>1, <3>2
  <2>2. CASE ~(i <= Len(v))
    <3>1. i - Len(v) \in 1..Len(w) /\ i \in 1..(Len(v) + Len(w))
      BY <1>1, <2>2
    <3>2. \E k \in B : w[i - Len(v)] = s[k]
      BY <3>1 DEF SpellsIn
    <3> QED
      BY <1>1, <2>2, <3>1, <3>2
  <2> QED
    BY <2>1, <2>2
<1>10. Len(u) = Cardinality(A \cup B)
  BY <1>1, <1>2, <1>3
<1> QED
  BY <1>7, <1>8, <1>9, <1>10 DEF SpellsIn, u

\* The places of a line, for any text.
SpaceIn(s, k) == s[k] = " " /\ OpenIn(s)[k] = NUL
OpIn(s, k)    == s[k] \in Operator /\ OpenIn(s)[k] = NUL
MarksIn(s)    == {k \in 1..Len(s) : s[k] \in Quote /\ OpenIn(s)[k] \in {NUL, s[k]}}
WordIn(s, k)  == k \in 1..Len(s) /\ ~SpaceIn(s, k) /\ ~OpIn(s, k)

\* The function that SecondOfTwo defines.
Pair(s, k) == k > 1 /\ OpIn(s, k) /\ s[k] # "|" /\ s[k] = s[k - 1] /\ OpIn(s, k - 1)
IsSecond(f, s) == f = [k \in 0..Len(s) |-> Pair(s, k) /\ ~f[k - 1]]
SecondIn(s) == CHOOSE f : IsSecond(f, s)

\* There is such a function: of a run of the same sign, every second one.
LEMMA SecondIs ==
    ASSUME NEW s \in Text
    PROVE  \A k \in 1..Len(s) : SecondIn(s)[k] <=> Pair(s, k) /\ ~SecondIn(s)[k - 1]
<1> DEFINE n == Len(s)
           D == 0..n
           Good(f, m) == /\ f \in [D -> BOOLEAN] /\ ~f[0]
                         /\ \A k \in 1..n : k <= m => (f[k] <=> Pair(s, k) /\ ~f[k - 1])
           T == {m \in D : \E f : Good(f, m)}
<1>1. n \in Nat
  BY DEF Text
<1>2. 0 \in T
  <2> DEFINE f == [k \in D |-> FALSE]
  <2>1. f \in [D -> BOOLEAN]
    OBVIOUS
  <2>2. 0 \in D /\ \A k \in 1..n : ~(k <= 0)
    BY <1>1
  <2>3. ~f[0]
    BY <2>2
  <2>4. Good(f, 0)
    <3> HIDE DEF f, D, n
    <3> QED
      BY <2>1, <2>2, <2>3
  <2> QED
    BY <2>2, <2>4
<1>3. ASSUME NEW m \in 1..n, m - 1 \in T PROVE m \in T
  <2>1. PICK f : Good(f, m - 1)
    BY <1>3
  <2> DEFINE here == Pair(s, m) /\ ~f[m - 1]
             g == [f EXCEPT ![m] = here]
  <2> HIDE DEF n
  <2>2. m \in D /\ m # 0 /\ 0 \in D
    BY <1>1
  <2>3. here \in BOOLEAN
    OBVIOUS
  <2> HIDE DEF D, here
  <2>4. /\ g \in [D -> BOOLEAN] /\ g[m] = here
        /\ \A k \in D : k # m => g[k] = f[k]
    BY <2>1, <2>2, <2>3
  <2> HIDE DEF g
  <2>5. ~g[0]
    BY <2>1, <2>2, <2>4
  <2>6. ASSUME NEW k \in 1..n, k <= m PROVE g[k] <=> Pair(s, k) /\ ~g[k - 1]
    <3>1. k \in D /\ k - 1 \in D /\ k - 1 # m
      BY <1>1, <2>6 DEF D
    <3>2. g[k - 1] = f[k - 1]
      BY <2>4, <3>1
    <3>3. CASE k = m
      BY <2>4, <3>2, <3>3 DEF here
    <3>4. CASE k # m
      <4>1. k <= m - 1
        BY <1>1, <2>6, <3>4
      <4>2. g[k] = f[k]
        BY <2>4, <3>1, <3>4
      <4> QED
        BY <2>1, <3>2, <4>1, <4>2
    <3> QED
      BY <3>3, <3>4
  <2>7. Good(g, m)
    BY <2>4, <2>5, <2>6
  <2> QED
    BY <2>2, <2>7
<1>4. n \in T
  <2>1. \A m \in 0..n : m \in T
    <3> HIDE DEF T, n
    <3> QED
      BY <1>1, <1>2, <1>3, UpToEach
  <2> QED
    BY <1>1, <2>1
<1>5. PICK f : Good(f, n)
  BY <1>4
<1>6. ~Pair(s, 0)
  BY DEF Pair
<1>7. IsSecond(f, s)
  <2>1. \A k \in D : f[k] = (Pair(s, k) /\ ~f[k - 1])
    <3> SUFFICES ASSUME NEW k \in D PROVE f[k] = (Pair(s, k) /\ ~f[k - 1])
      OBVIOUS
    <3>1. k = 0 \/ (k \in 1..n /\ k <= n)
      BY <1>1
    <3>2. f[k] \in BOOLEAN
      BY <1>5
    <3>3. f[k] <=> Pair(s, k) /\ ~f[k - 1]
      BY <1>5, <1>6, <3>1
    <3> QED
      BY <3>2, <3>3
  <2>2. f = [k \in D |-> f[k]]
    BY <1>5
  <2> HIDE DEF D
  <2>3. f = [k \in D |-> Pair(s, k) /\ ~f[k - 1]]
    BY <2>1, <2>2
  <2> QED
    BY <2>3 DEF IsSecond, D, n
<1> DEFINE o == SecondIn(s)
<1>8. IsSecond(o, s)
  BY <1>7 DEF SecondIn
<1>9. o = [k \in D |-> Pair(s, k) /\ ~o[k - 1]]
  <2> HIDE DEF o
  <2> QED
    BY <1>8 DEF IsSecond
<1> HIDE DEF o
<1>10. \A k \in 1..n : k \in D
  BY <1>1
<1> HIDE DEF D
<1>11. ASSUME NEW k \in 1..n PROVE o[k] <=> Pair(s, k) /\ ~o[k - 1]
  <2>1. o[k] = (Pair(s, k) /\ ~o[k - 1])
    <3>1. k \in D
      BY <1>10
    <3> QED
      BY <1>9, <3>1
  <2> QED
    BY <2>1
<1> QED
  BY <1>11 DEF o, n

\* The words and operators of a text.
StartsIn(s) == {k \in 1..Len(s) : \/ WordIn(s, k) /\ ~WordIn(s, k - 1)
                                  \/ OpIn(s, k) /\ ~SecondIn(s)[k]}
EndIn(s, k) == IF WordIn(s, k) THEN Max({j \in 1..Len(s) : \A i \in k..j : WordIn(s, i)})
               ELSE IF k + 1 \in 1..Len(s) /\ SecondIn(s)[k + 1] THEN k + 1 ELSE k
Literally(s) == /\ Closed(s)
                /\ \A k \in 1..Len(s) : s[k] = "$" =>
                      OpenIn(s)[k] = "'" /\ s[Max({i \in StartsIn(s) : i <= k})] = "'"

\* They are those of the line.
LEMMA LineIs ==
    ASSUME line \in Text
    PROVE  /\ AllClosed /\ NothingToExpand => Literally(line)
           /\ \A k : IsOp(k) <=> OpIn(line, k)
           /\ Marks = MarksIn(line) /\ Starts = StartsIn(line)
           /\ \A k : Ends(k) = EndIn(line, k)
<1>1. OpenQuote = OpenIn(line)
  BY DEF OpenQuote, OpenIn, IsOpen
<1>2. DOMAIN line = 1..Len(line)
  BY DEF Text
<1>3. \A k : (IsOp(k) <=> OpIn(line, k)) /\ (IsSpace(k) <=> SpaceIn(line, k))
  BY <1>1 DEF IsOp, OpIn, IsSpace, SpaceIn
<1>4. Marks = MarksIn(line)
  BY <1>1, <1>2 DEF Marks, MarksIn, Places
<1>5. \A k : InWord(k) <=> WordIn(line, k)
  BY <1>2, <1>3 DEF InWord, WordIn, Places
<1>6. SecondOfTwo = SecondIn(line)
  <2>1. \A second, k : (/\ k > 1 /\ IsOp(k) /\ line[k] # "|" /\ line[k] = line[k - 1] /\ IsOp(k - 1)
                        /\ ~second[k - 1])
                       = (Pair(line, k) /\ ~second[k - 1])
    BY <1>3 DEF Pair
  <2>2. \A second : [k \in 0..Len(line) |->
                         /\ k > 1 /\ IsOp(k) /\ line[k] # "|" /\ line[k] = line[k - 1] /\ IsOp(k - 1)
                         /\ ~second[k - 1]]
                    = [k \in 0..Len(line) |-> Pair(line, k) /\ ~second[k - 1]]
    BY <2>1, Zenon
  <2> QED
    BY <2>2 DEF SecondOfTwo, SecondIn, IsSecond
<1>7. Starts = StartsIn(line)
  BY <1>2, <1>3, <1>5, <1>6 DEF Starts, StartsIn, Places
<1>8. ASSUME NEW k PROVE Ends(k) = EndIn(line, k)
  <2>1. {j \in Places : \A i \in k..j : InWord(i)}
        = {j \in 1..Len(line) : \A i \in k..j : WordIn(line, i)}
    BY <1>2, <1>5 DEF Places
  <2> QED
    BY <1>2, <1>5, <1>6, <2>1 DEF Ends, EndIn, Places
<1>9. AllClosed /\ NothingToExpand => Literally(line)
  BY <1>1, <1>2, <1>7 DEF AllClosed, Closed, NothingToExpand, Literally, Dollars, StartOf, Places
<1> QED
  BY <1>3, <1>4, <1>7, <1>8, <1>9

-----------------------------------------------------------------------------
(***************************************************************************)
(* Tokens and the places they were read from.                              *)
(***************************************************************************)
\* m tokens, each from a part f[k]..e[k] of the text, one behind the other; before
\* `upto' there is nothing else but spaces.
Tiling(s, f, e, m, upto) ==
    /\ f \in [1..m -> Nat] /\ e \in [1..m -> Nat]
    /\ \A k \in 1..m : 1 <= f[k] /\ f[k] <= e[k] /\ e[k] < upto
    /\ \A i, k \in 1..m : i < k => e[i] < f[k]
    /\ \A j \in 1..(upto - 1) : SpaceIn(s, j) \/ \E k \in 1..m : f[k] <= j /\ j <= e[k]

\* An operator, and a part of a word.
OpTile(s, a, b) ==
    /\ \A j \in a..b : OpIn(s, j)
    /\ ~SecondIn(s)[a]
    /\ \/ b = a /\ ~(a + 1 \in 1..Len(s) /\ SecondIn(s)[a + 1])
       \/ b = a + 1 /\ SecondIn(s)[b]
Span(s, a, b) == \A j \in a..b : WordIn(s, j)

\* Operators and whole words.
WordTiles(s, f, e, m) ==
    \A k \in 1..m : \/ OpTile(s, f[k], e[k])
                    \/ Span(s, f[k], e[k]) /\ ~WordIn(s, e[k] + 1)

\* A word does not go on before its tile.
LEMMA WordStarts ==
    ASSUME NEW s \in Text, NEW m \in Nat, NEW f, NEW e, Tiling(s, f, e, m, Len(s) + 1),
           WordTiles(s, f, e, m), NEW k \in 1..m, Span(s, f[k], e[k])
    PROVE  ~WordIn(s, f[k] - 1)
<1> DEFINE j == f[k] - 1
           n == Len(s)
<1> SUFFICES ASSUME WordIn(s, j) PROVE FALSE
  OBVIOUS
<1>1. n \in Nat /\ k \in 1..m
  BY DEF Text
<1>2. j \in 1..n /\ ~SpaceIn(s, j) /\ ~OpIn(s, j)
  BY DEF WordIn
<1>3. /\ \A i \in 1..m : f[i] \in Nat /\ e[i] \in Nat /\ 1 <= f[i] /\ f[i] <= e[i]
      /\ \A i, l \in 1..m : i < l => e[i] < f[l]
      /\ \A l \in 1..((n + 1) - 1) : SpaceIn(s, l) \/ \E i \in 1..m : f[i] <= l /\ l <= e[i]
  BY DEF Tiling
<1>4. j \in 1..((n + 1) - 1)
  BY <1>1, <1>2
<1>5. PICK i \in 1..m : f[i] <= j /\ j <= e[i]
  BY <1>2, <1>3, <1>4
<1>6. f[k] = j + 1 /\ f[i] \in Nat /\ e[i] \in Nat /\ f[k] \in Nat /\ e[k] \in Nat /\ j \in Nat
      /\ f[k] <= e[k]
  <2>1. f[i] \in Nat /\ e[i] \in Nat /\ f[k] \in Nat /\ e[k] \in Nat /\ f[k] <= e[k]
    BY <1>3
  <2> QED
    BY <1>2, <2>1
<1> HIDE DEF j, n
<1>7. i # k
  <2>1. f[k] # f[i]
    BY <1>5, <1>6
  <2> QED
    BY <2>1
<1>8. ~(k < i)
  <2>1. k < i => e[k] < f[i]
    BY <1>3
  <2> QED
    BY <1>5, <1>6, <2>1
<1>9. i < k
  BY <1>1, <1>7, <1>8
<1>10. e[i] = j
  <2>1. e[i] < f[k]
    BY <1>3, <1>9
  <2> QED
    BY <1>5, <1>6, <2>1
<1>11. CASE OpTile(s, f[i], e[i])
  <2>1. j \in f[i]..e[i]
    BY <1>5, <1>6
  <2> QED
    BY <1>2, <1>11, <2>1 DEF OpTile
<1>12. CASE Span(s, f[i], e[i]) /\ ~WordIn(s, e[i] + 1)
  <2>1. f[k] \in f[k]..e[k] /\ e[i] + 1 = f[k]
    BY <1>6, <1>10
  <2> QED
    BY <1>12, <2>1 DEF Span
<1> QED
  BY <1>11, <1>12 DEF WordTiles

\* The tiles are the words and operators of the text, where they start and end.
LEMMA TilesStart ==
    ASSUME NEW s \in Text, NEW m \in Nat, NEW f, NEW e, Tiling(s, f, e, m, Len(s) + 1),
           WordTiles(s, f, e, m)
    PROVE  /\ StartsIn(s) = {f[k] : k \in 1..m}
           /\ \A k \in 1..m : EndIn(s, f[k]) = e[k]
<1> DEFINE n == Len(s)
<1>1. n \in Nat
  BY DEF Text
<1>2. /\ \A i \in 1..m : f[i] \in Nat /\ e[i] \in Nat /\ 1 <= f[i] /\ f[i] <= e[i] /\ e[i] < n + 1
      /\ \A l \in 1..((n + 1) - 1) : SpaceIn(s, l) \/ \E i \in 1..m : f[i] <= l /\ l <= e[i]
  BY DEF Tiling
<1>3. (n + 1) - 1 = n
  BY <1>1
<1>4. ASSUME NEW k \in 1..m
      PROVE  /\ f[k] \in 1..n /\ e[k] \in 1..n /\ f[k] \in f[k]..e[k] /\ e[k] \in f[k]..e[k]
             /\ f[k] \in Nat /\ e[k] \in Nat /\ f[k] <= e[k]
  <2>1. f[k] \in Nat /\ e[k] \in Nat /\ 1 <= f[k] /\ f[k] <= e[k] /\ e[k] < n + 1
    BY <1>2
  <2> QED
    BY <1>1, <2>1
<1> HIDE DEF n
<1>5. ASSUME NEW k \in 1..m PROVE f[k] \in StartsIn(s)
  <2>1. CASE OpTile(s, f[k], e[k])
    <3>1. OpIn(s, f[k]) /\ ~SecondIn(s)[f[k]]
      BY <1>4, <2>1 DEF OpTile
    <3> QED
      BY <1>4, <3>1 DEF StartsIn, n
  <2>2. CASE Span(s, f[k], e[k])
    <3>1. WordIn(s, f[k])
      BY <1>4, <2>2 DEF Span
    <3>2. ~WordIn(s, f[k] - 1)
      BY <2>2, WordStarts
    <3> QED
      BY <1>4, <3>1, <3>2 DEF StartsIn, n
  <2> QED
    BY <2>1, <2>2 DEF WordTiles
<1>6. ASSUME NEW j \in StartsIn(s) PROVE \E k \in 1..m : j = f[k]
  <2>1. j \in 1..n /\ (WordIn(s, j) \/ OpIn(s, j))
    BY DEF StartsIn, n
  <2>2. ~SpaceIn(s, j)
    BY <2>1 DEF WordIn, SpaceIn, OpIn, Operator
  <2>3. PICK k \in 1..m : f[k] <= j /\ j <= e[k]
    BY <1>2, <1>3, <2>1, <2>2
  <2>4. f[k] \in Nat /\ e[k] \in Nat /\ j \in Nat /\ j \in f[k]..e[k]
    BY <1>4, <2>1, <2>3
  <2>5. CASE OpTile(s, f[k], e[k])
    <3>1. OpIn(s, j)
      BY <2>4, <2>5 DEF OpTile
    <3>2. ~SecondIn(s)[j]
      BY <3>1 DEF StartsIn, WordIn
    <3>3. e[k] = f[k] \/ (e[k] = f[k] + 1 /\ SecondIn(s)[e[k]])
      BY <2>5 DEF OpTile
    <3>4. j # e[k] \/ e[k] = f[k]
      BY <3>2, <3>3
    <3> QED
      BY <2>3, <2>4, <3>3, <3>4
  <2>6. CASE Span(s, f[k], e[k])
    <3>1. WordIn(s, j)
      BY <2>4, <2>6 DEF Span
    <3>2. ~WordIn(s, j - 1)
      BY <3>1 DEF StartsIn, WordIn
    <3>3. j # f[k] => j - 1 \in f[k]..e[k]
      BY <2>4
    <3>4. j = f[k]
      BY <2>6, <3>2, <3>3 DEF Span
    <3> QED
      BY <3>4
  <2> QED
    BY <2>5, <2>6 DEF WordTiles
<1>7. ASSUME NEW k \in 1..m PROVE EndIn(s, f[k]) = e[k]
  <2> DEFINE a == f[k]
             b == e[k]
  <2>1. /\ a \in 1..n /\ b \in 1..n /\ a \in a..b /\ b \in a..b /\ a \in Nat /\ b \in Nat /\ a <= b
    BY <1>4
  <2>2. OpTile(s, a, b) \/ (Span(s, a, b) /\ ~WordIn(s, b + 1))
    BY DEF WordTiles
  <2> HIDE DEF a, b
  <2>3. ASSUME OpTile(s, a, b) PROVE EndIn(s, a) = b
    <3>1. OpIn(s, a)
      BY <2>1, <2>3 DEF OpTile
    <3>2. ~WordIn(s, a)
      BY <3>1 DEF WordIn
    <3>3. EndIn(s, a) = IF a + 1 \in 1..n /\ SecondIn(s)[a + 1] THEN a + 1 ELSE a
      BY <3>2 DEF EndIn, n
    <3>4. \/ b = a /\ ~(a + 1 \in 1..n /\ SecondIn(s)[a + 1])
          \/ b = a + 1 /\ SecondIn(s)[b]
      BY <2>3 DEF OpTile, n
    <3> QED
      BY <2>1, <3>3, <3>4
  <2>4. ASSUME Span(s, a, b), ~WordIn(s, b + 1) PROVE EndIn(s, a) = b
    <3> DEFINE S == {j \in 1..n : \A i \in a..j : WordIn(s, i)}
    <3>1. WordIn(s, a)
      BY <2>1, <2>4 DEF Span
    <3>2. EndIn(s, a) = Max(S)
      BY <3>1 DEF EndIn, n
    <3>3. b \in S
      BY <2>1, <2>4 DEF Span
    <3>4. S \in SUBSET (0..n) /\ S # {}
      <4>1. S \subseteq 1..n /\ 1..n \subseteq 0..n
        BY <1>1
      <4> QED
        BY <3>3, <4>1
    <3>5. \A y \in S : y \in Nat /\ ~(b + 1 \in a..y)
      BY <2>4
    <3> HIDE DEF S
    <3>6. Max(S) \in S /\ \A y \in S : y <= Max(S)
      BY <1>1, <3>4, GreatestOf
    <3>7. b <= Max(S) /\ Max(S) \in Nat /\ ~(b + 1 \in a..Max(S))
      BY <3>3, <3>5, <3>6
    <3> DEFINE x == Max(S)
    <3>8. b <= x /\ x \in Nat /\ ~(b + 1 \in a..x) /\ a <= b /\ a \in Nat /\ b \in Nat
      BY <2>1, <3>7
    <3> HIDE DEF x
    <3>9. x = b
      BY <3>8
    <3> QED
      BY <3>2, <3>9 DEF x
  <2>5. EndIn(s, a) = b
    BY <2>2, <2>3, <2>4
  <2> QED
    BY <2>5 DEF a, b
<1> QED
  BY <1>5, <1>6, <1>7

\* As many as there are tokens, and in their order.
LEMMA TilesCount ==
    ASSUME NEW m \in Nat, NEW f \in [1..m -> Nat], \A i, k \in 1..m : i < k => f[i] < f[k]
    PROVE  /\ Cardinality({f[k] : k \in 1..m}) = m
           /\ \A k \in 1..m : Order({f[i] : i \in 1..m}, f[k]) = k
<1>1. \A i \in 1..m : f[i] \in Nat
  OBVIOUS
<1>2. \A i, k \in 1..m : f[i] = f[k] => i = k
  <2> SUFFICES ASSUME NEW i \in 1..m, NEW k \in 1..m, i # k PROVE f[i] # f[k]
    OBVIOUS
  <2>1. i \in Nat /\ k \in Nat
    OBVIOUS
  <2>2. i < k \/ k < i
    BY <2>1
  <2>3. f[i] < f[k] \/ f[k] < f[i]
    BY <2>2
  <2>4. f[i] \in Nat /\ f[k] \in Nat
    BY <1>1
  <2> QED
    BY <2>3, <2>4
<1>3. ASSUME NEW c \in 0..m PROVE Cardinality({f[i] : i \in 1..c}) = c
  <2> DEFINE T == {f[i] : i \in 1..c}
             g == [i \in 1..c |-> f[i]]
  <2>1. \A i \in 1..c : i \in 1..m
    OBVIOUS
  <2>2. g \in [1..c -> T] /\ \A i \in 1..c : g[i] = f[i]
    OBVIOUS
  <2>3. \A x \in T : \E i \in 1..c : g[i] = x
    OBVIOUS
  <2> HIDE DEF g, T
  <2>4. \A i, k \in 1..c : g[i] = g[k] => i = k
    BY <1>2, <2>1, <2>2
  <2>5. g \in Bijection(1..c, T)
    BY <2>2, <2>3, <2>4 DEF Bijection, Injection, Surjection, IsInjective
  <2>6. ExistsBijection(1..c, T)
    BY <2>5 DEF ExistsBijection
  <2>7. IsFiniteSet(1..c) /\ Cardinality(1..c) = IF 1 > c THEN 0 ELSE c - 1 + 1
    BY FS_Interval
  <2>8. Cardinality(1..c) = c
    BY <2>7
  <2>9. Cardinality(T) = c
    BY <2>6, <2>7, <2>8, FS_Bijection
  <2> QED
    BY <2>9 DEF T
<1>4. ASSUME NEW k \in 1..m PROVE Order({f[i] : i \in 1..m}, f[k]) = k
  <2>1. \A i \in 1..m : f[i] <= f[k] <=> i \in 1..k
    <3> SUFFICES ASSUME NEW i \in 1..m PROVE f[i] <= f[k] <=> i \in 1..k
      OBVIOUS
    <3>1. i < k \/ i = k \/ k < i
      OBVIOUS
    <3>2. (i < k => f[i] < f[k]) /\ (k < i => f[k] < f[i])
      OBVIOUS
    <3>3. (k < i => ~(i \in 1..k)) /\ (i < k \/ i = k => i \in 1..k)
      OBVIOUS
    <3>4. f[i] \in Nat /\ f[k] \in Nat
      BY <1>1
    <3> QED
      BY <3>1, <3>2, <3>3, <3>4
  <2>2. \A i \in 1..k : i \in 1..m
    OBVIOUS
  <2>3. {x \in {f[i] : i \in 1..m} : x <= f[k]} = {f[i] : i \in 1..k}
    BY <2>1, <2>2
  <2>4. k \in 0..m
    OBVIOUS
  <2> QED
    BY <1>3, <2>3, <2>4 DEF Order
<1>5. m \in 0..m
  OBVIOUS
<1> QED
  BY <1>3, <1>4, <1>5

\* A token that is a whole word or operator of the text.
Whole(s, t, a, b) ==
    /\ SpellsIn(s, t.value, (a..b) \ MarksIn(s))
    /\ \/ OpTile(s, a, b) /\ IsOperator(t)
       \/ /\ Span(s, a, b) /\ ~WordIn(s, b + 1)
          /\ ~IsOperator(t) /\ (s[a] = "'" => t.literal)
WholeTokens(s, ts) ==
    \E f, e : /\ Tiling(s, f, e, Len(ts), Len(s) + 1)
              /\ \A k \in 1..Len(ts) : Whole(s, ts[k], f[k], e[k])

\* The tokens are then the words of the line.
LEMMA WholeAsWritten ==
    ASSUME line \in Text, tokens \in Seq(Token), WholeTokens(line, tokens)
    PROVE  AsWritten
<1> DEFINE m == Len(tokens)
<1>1. m \in Nat
  OBVIOUS
<1>2. PICK f, e : /\ Tiling(line, f, e, m, Len(line) + 1)
                  /\ \A k \in 1..m : Whole(line, tokens[k], f[k], e[k])
  BY DEF WholeTokens
<1> HIDE DEF m
<1>3. WordTiles(line, f, e, m)
  BY <1>2 DEF Whole, WordTiles
<1>4. /\ StartsIn(line) = {f[k] : k \in 1..m}
      /\ \A k \in 1..m : EndIn(line, f[k]) = e[k]
  BY <1>1, <1>2, <1>3, TilesStart
<1>5. f \in [1..m -> Nat] /\ \A i, k \in 1..m : i < k => f[i] < f[k]
  <2>1. /\ f \in [1..m -> Nat] /\ \A i \in 1..m : f[i] \in Nat /\ e[i] \in Nat /\ f[i] <= e[i]
        /\ \A i, k \in 1..m : i < k => e[i] < f[k]
    BY <1>2 DEF Tiling
  <2>2. ASSUME NEW i \in 1..m, NEW k \in 1..m, i < k PROVE f[i] < f[k]
    <3>1. f[i] \in Nat /\ e[i] \in Nat /\ f[k] \in Nat /\ f[i] <= e[i] /\ e[i] < f[k]
      BY <2>1, <2>2
    <3> QED
      BY <3>1
  <2> QED
    BY <2>1, <2>2
<1>6. /\ Cardinality({f[k] : k \in 1..m}) = m
      /\ \A k \in 1..m : Order({f[i] : i \in 1..m}, f[k]) = k
  BY <1>1, <1>5, TilesCount
<1>7. /\ \A k : IsOp(k) <=> OpIn(line, k)
      /\ Marks = MarksIn(line) /\ Starts = StartsIn(line)
      /\ \A k : Ends(k) = EndIn(line, k)
  BY LineIs
<1>8. m = Cardinality(Starts)
  BY <1>4, <1>6, <1>7
<1>9. ASSUME NEW k \in Starts
      PROVE  /\ Spells(tokens[Order(Starts, k)].value, (k..Ends(k)) \ Marks)
             /\ IsOperator(tokens[Order(Starts, k)]) <=> IsOp(k)
  <2>1. PICK i \in 1..m : k = f[i]
    BY <1>4, <1>7
  <2>2. Order(Starts, k) = i /\ Ends(k) = e[i]
    BY <1>4, <1>6, <1>7, <2>1
  <2>3. Whole(line, tokens[i], f[i], e[i])
    BY <1>2
  <2>4. Spells(tokens[i].value, (k..e[i]) \ Marks)
    BY <1>7, <2>1, <2>3 DEF Whole, Spells, SpellsIn
  <2>5. f[i] \in f[i]..e[i]
    BY <1>2 DEF Tiling
  <2>6. IsOperator(tokens[i]) <=> IsOp(k)
    BY <1>7, <2>1, <2>3, <2>5 DEF Whole, OpTile, Span, WordIn
  <2> QED
    BY <2>2, <2>4, <2>6
<1> QED
  BY <1>8, <1>9 DEF AsWritten, m

\* A token of them that is to be expanded has nothing that expands.
LEMMA NothingIn ==
    ASSUME NEW s \in Text, Literally(s), NEW m \in Nat, NEW f, NEW e,
           Tiling(s, f, e, m, Len(s) + 1), WordTiles(s, f, e, m), NEW k \in 1..m,
           NEW t, Whole(s, t, f[k], e[k]), ~t.literal
    PROVE  \A i \in 1..Len(t.value) : t.value[i] # "$"
<1> SUFFICES ASSUME NEW i \in 1..Len(t.value), t.value[i] = "$" PROVE FALSE
  OBVIOUS
<1> DEFINE n == Len(s)
           S == {x \in StartsIn(s) : x <= n}
<1>1. /\ n \in Nat
      /\ \A x \in 1..m : f[x] \in Nat /\ e[x] \in Nat /\ 1 <= f[x] /\ f[x] <= e[x] /\ e[x] < n + 1
      /\ \A x, y \in 1..m : x < y => e[x] < f[y]
  <2>1. n \in Nat
    BY DEF Text
  <2>2. /\ \A x \in 1..m : f[x] \in Nat /\ e[x] \in Nat /\ 1 <= f[x] /\ f[x] <= e[x] /\ e[x] < n + 1
        /\ \A x, y \in 1..m : x < y => e[x] < f[y]
    BY DEF Tiling
  <2> QED
    BY <2>1, <2>2
<1>2. PICK j \in (f[k]..e[k]) \ MarksIn(s) : t.value[i] = s[j]
  BY DEF Whole, SpellsIn
<1>3. j \in Nat /\ f[k] <= j /\ j <= e[k] /\ j \in f[k]..e[k] /\ j \in 1..n
  <2>1. f[k] \in Nat /\ e[k] \in Nat /\ 1 <= f[k] /\ e[k] < n + 1
    BY <1>1
  <2> HIDE DEF n
  <2>2. j \in f[k]..e[k]
    OBVIOUS
  <2> QED
    BY <1>1, <2>1, <2>2
<1>4. s[j] = "$"
  BY <1>2
<1> DEFINE T == {x \in StartsIn(s) : x <= j}
<1>5. Max(T) = f[k]
  <2>1. StartsIn(s) = {f[x] : x \in 1..m}
    BY TilesStart
  <2> HIDE DEF n
  <2>2. f[k] \in T
    BY <1>3, <2>1
  <2>3. ASSUME NEW y \in T PROVE y <= f[k] /\ y \in Nat /\ y <= j
    <3>1. PICK x \in 1..m : y = f[x] /\ f[x] <= j
      BY <2>1
    <3>2. f[x] \in Nat /\ e[x] \in Nat /\ f[k] \in Nat /\ e[k] \in Nat /\ f[x] <= e[x]
      BY <1>1
    <3>3. ~(k < x)
      <4>1. k < x => e[k] < f[x]
        BY <1>1
      <4> QED
        BY <1>3, <3>1, <3>2, <4>1
    <3>4. x < k => e[x] < f[k]
      BY <1>1
    <3>5. x = k \/ x < k
      BY <3>3
    <3> QED
      BY <3>1, <3>2, <3>4, <3>5
  <2>4. T \in SUBSET (0..j) /\ T # {}
    <3>1. \A y \in T : y \in 0..j
      BY <1>3, <2>3
    <3> QED
      BY <2>2, <3>1
  <2> HIDE DEF T
  <2>5. Max(T) \in T /\ \A y \in T : y <= Max(T)
    BY <1>3, <2>4, GreatestOf
  <2>6. Max(T) <= f[k] /\ f[k] <= Max(T) /\ Max(T) \in Nat
    BY <2>2, <2>3, <2>5
  <2> DEFINE x == Max(T)
  <2>7. x <= f[k] /\ f[k] <= x /\ x \in Nat /\ f[k] \in Nat
    BY <1>1, <2>6
  <2> HIDE DEF x
  <2>8. x = f[k]
    BY <2>7
  <2> QED
    BY <2>8 DEF x
<1>6. s[f[k]] = "'"
  BY <1>3, <1>4, <1>5 DEF Literally
<1>7. OpTile(s, f[k], e[k])
  BY <1>6 DEF Whole
<1>8. OpIn(s, j)
  BY <1>3, <1>7 DEF OpTile
<1> QED
  BY <1>4, <1>8 DEF OpIn, Operator

-----------------------------------------------------------------------------
(***************************************************************************)
(* What split_input makes of a line without references.                    *)
(***************************************************************************)
\* What split_input takes for a token, in a line whose quotes are closed and without a
\* reference outside of single quotes.
QuotedPart(s, a, b) == /\ s[a] \in Quote /\ a < b /\ s[b] = s[a]
                       /\ \A j \in (a + 1)..(b - 1) : s[j] # s[a]
BarePart(s, a, b)   == \A j \in a..b : /\ s[j] \notin Quote \cup Operator \cup {" ", "$"}
                                       /\ OpenIn(s)[j] = NUL

\* A place where a token starts that is neither quoted nor a reference.
PlainAt(s, p)       == s[p] \notin Quote \cup {" ", "$"}

\* That token is an operator or goes on to the next quote, operator or space.
LEMMA PlainBare ==
    ASSUME NEW s \in Text, NEW p \in 1..Len(s), OpenIn(s)[p] = NUL,
           PlainAt(s, p), ~SecondIn(s)[p],
           \A k \in 1..Len(s) : s[k] = "$" => OpenIn(s)[k] = "'",
           NEW l \in 1..(Len(s) - p + 1), l = GetTokenLen(SubSeq(s, p, Len(s)))
    PROVE  /\ OpTile(s, p, p + l - 1) \/ BarePart(s, p, p + l - 1)
           /\ p + l \in 1..Len(s) => ~SecondIn(s)[p + l]
<1> DEFINE n == Len(s)
           o == OpenIn(s)
           rest == SubSeq(s, p, n)
           S == Quote \cup Operator \cup {" "}
           e == NextAt(rest, 1, S)
           Twice == rest[1] \in {"<", ">"} /\ CharAt(rest, 2) = rest[1]
<1>1. n \in Nat /\ p \in Nat /\ p >= 1 /\ p <= n /\ l \in Nat /\ l >= 1 /\ p + l - 1 <= n
  <2>1. n \in Nat
    BY DEF Text
  <2> HIDE DEF n
  <2>2. p \in 1..n /\ l \in 1..(n - p + 1)
    BY DEF n
  <2> QED
    BY <2>1, <2>2
<1>2. /\ rest \in Text /\ Len(rest) = n - p + 1 /\ Len(rest) \in Nat /\ Len(rest) >= 1
      /\ \A i \in 1..Len(rest) : rest[i] = s[p + i - 1]
  BY RestIs
<1>3. /\ e \in Nat /\ e <= Len(rest) + 1
      /\ \/ e = Len(rest) + 1
         \/ e \in 1..Len(rest) /\ s[p + e - 1] \in S
      /\ \A j \in (p + 1 - 1)..n : j < p + e - 1 => s[j] \notin S
  <2>1. 1 \in Nat \ {0}
    OBVIOUS
  <2> HIDE DEF S
  <2> QED
    BY <2>1, NextInRest
<1>4. rest[1] = s[p] /\ DOMAIN rest = 1..Len(rest)
  <2>1. 1 \in 1..Len(rest) /\ p + 1 - 1 = p
    BY <1>1, <1>2
  <2>2. rest[1] = s[p + 1 - 1]
    BY <1>2, <2>1
  <2>3. DOMAIN rest = 1..Len(rest)
    BY <1>2 DEF Text
  <2> QED
    BY <2>1, <2>2, <2>3
<1>5. l = GetUnquotedTokenLen(rest)
  <2>1. rest[1] \notin Quote /\ rest[1] # "$"
    BY <1>4 DEF PlainAt
  <2>2. l = GetTokenLen(rest)
    OBVIOUS
  <2> HIDE DEF rest
  <2> QED
    BY <2>1, <2>2 DEF GetTokenLen
<1>6. l = IF e - 1 > 0 THEN e - 1 ELSE IF Twice THEN 2 ELSE 1
  BY <1>5 DEF GetUnquotedTokenLen
<1>7. /\ \A k \in 1..n : o[k + 1] = After(o[k], s[k])
  BY OpenIs
<1>8. \A k \in 1..n : SecondIn(s)[k] <=> Pair(s, k) /\ ~SecondIn(s)[k - 1]
  BY SecondIs
<1>9. CharAt(rest, 2) = IF p + 1 <= n THEN s[p + 1] ELSE NUL
  <2>1. 2 \in 1..Len(rest) <=> p + 1 <= n
    BY <1>1, <1>2
  <2>2. 2 \in 1..Len(rest) => rest[2] = s[p + 1]
    <3>1. p + 2 - 1 = p + 1
      BY <1>1
    <3> QED
      BY <1>2, <3>1
  <2> QED
    BY <1>4, <2>1, <2>2 DEF CharAt
<1>10. o[p] = NUL /\ s[p] \notin Quote \cup {" ", "$"} /\ ~SecondIn(s)[p]
  BY DEF PlainAt
<1>11. \A k \in 1..n : s[k] = "$" => o[k] = "'"
  OBVIOUS
<1>12. "'" # NUL
  BY DEF NUL
<1> HIDE DEF rest, e, S, o
<1>13. CASE e - 1 > 0
  <2>1. l = e - 1 /\ p + l - 1 = p + e - 1 - 1 /\ p + 1 - 1 = p
    BY <1>1, <1>3, <1>6, <1>13
  <2>2. \A j \in p..(p + l - 1) : s[j] \notin S /\ j \in 1..n
    <3>1. \A j \in p..(p + l - 1) : j \in (p + 1 - 1)..n /\ j < p + e - 1 /\ j \in 1..n
      <4> HIDE DEF n
      <4> QED
        BY <1>1, <1>3, <2>1
    <3> QED
      BY <1>3, <3>1
  <2>3. \A j \in p..(p + l) : o[j] = NUL
    <3>1. \A j \in p..((p + l) - 1) : After(NUL, s[j]) = NUL
      <4>1. \A j \in p..((p + l) - 1) : j \in p..(p + l - 1)
        BY <1>1
      <4> QED
        BY <2>2, <4>1 DEF After, S
    <3>2. p \in 1..(n + 1) /\ p + l \in p..(n + 1)
      BY <1>1
    <3> QED
      BY <1>10, <3>1, <3>2, StaysAs DEF n, o
  <2>4. BarePart(s, p, p + l - 1)
    <3> SUFFICES ASSUME NEW j \in p..(p + l - 1)
                 PROVE  s[j] \notin Quote \cup Operator \cup {" ", "$"} /\ o[j] = NUL
      BY DEF BarePart, o
    <3>1. j \in p..(p + l)
      BY <1>1
    <3>2. o[j] = NUL /\ s[j] \notin S /\ j \in 1..n
      BY <2>2, <2>3, <3>1
    <3>3. s[j] # "$"
      BY <1>11, <1>12, <3>2
    <3> QED
      BY <3>2, <3>3 DEF S
  <2>5. p + l \in 1..n => ~SecondIn(s)[p + l]
    <3>1. p + l - 1 \in p..(p + l - 1)
      BY <1>1
    <3>2. s[p + l - 1] \notin Operator
      BY <2>2, <3>1 DEF S
    <3>3. ~Pair(s, p + l)
      BY <3>2 DEF Pair, OpIn
    <3> QED
      BY <1>8, <3>3
  <2> QED
    BY <2>4, <2>5
<1>14. CASE ~(e - 1 > 0)
  <2>1. e = 1
    <3>1. e \in Nat /\ (e = Len(rest) + 1 \/ e \in 1..Len(rest)) /\ Len(rest) \in Nat
      BY <1>2, <1>3
    <3> QED
      BY <1>14, <3>1
  <2>2. s[p] \in Operator
    <3>1. e # Len(rest) + 1 /\ p + e - 1 = p
      BY <1>1, <1>2, <2>1
    <3>2. s[p] \in S
      BY <1>3, <3>1
    <3> QED
      BY <1>10, <3>2 DEF S
  <2>3. OpIn(s, p)
    BY <1>10, <2>2 DEF OpIn, o
  <2>4. o[p + 1] = NUL
    <3>1. p \in 1..n
      BY <1>1
    <3>2. o[p + 1] = After(NUL, s[p])
      BY <1>7, <1>10, <3>1
    <3> QED
      BY <1>10, <3>2 DEF After
  <2>5. l = IF Twice THEN 2 ELSE 1
    BY <1>6, <1>14
  <2>6. ASSUME Twice PROVE /\ OpTile(s, p, p + l - 1)
                           /\ p + l \in 1..n => ~SecondIn(s)[p + l]
    <3>1. l = 2 /\ p + l - 1 = p + 1
      BY <1>1, <2>5, <2>6
    <3>2. p + 1 <= n /\ s[p + 1] = s[p] /\ s[p] # "|"
      <4>1. s[p] # NUL
        BY <2>2 DEF Operator, NUL
      <4>2. rest[1] = s[p] /\ CharAt(rest, 2) = s[p] /\ s[p] \in {"<", ">"}
        BY <1>4, <2>6
      <4> QED
        BY <1>9, <4>1, <4>2
    <3>3. OpIn(s, p + 1)
      BY <2>2, <2>4, <3>2 DEF OpIn, o
    <3>4. p + 1 > 1 /\ (p + 1) - 1 = p /\ p + 1 \in 1..n
      BY <1>1, <3>2
    <3>5. Pair(s, p + 1)
      BY <2>3, <3>2, <3>3, <3>4 DEF Pair
    <3>6. SecondIn(s)[p + 1]
      BY <1>8, <1>10, <3>4, <3>5
    <3>7. \A j \in p..(p + 1) : j = p \/ j = p + 1
      BY <1>1
    <3>8. OpTile(s, p, p + 1)
      BY <1>10, <2>3, <3>3, <3>6, <3>7 DEF OpTile
    <3>9. (p + l) - 1 = p + 1
      BY <3>1
    <3>10. p + l \in 1..n => ~SecondIn(s)[p + l]
      BY <1>8, <3>6, <3>9
    <3> QED
      BY <3>1, <3>8, <3>10
  <2>7. ASSUME ~Twice PROVE /\ OpTile(s, p, p + l - 1)
                            /\ p + l \in 1..n => ~SecondIn(s)[p + l]
    <3>1. l = 1 /\ p + l - 1 = p /\ p + l = p + 1 /\ (p + 1) - 1 = p
      BY <1>1, <2>5, <2>7
    <3>2. p + 1 \in 1..n => ~SecondIn(s)[p + 1]
      <4> SUFFICES ASSUME p + 1 \in 1..n, Pair(s, p + 1) PROVE FALSE
        BY <1>8
      <4>1. s[p + 1] # "|" /\ s[p + 1] = s[p] /\ p + 1 <= n
        BY <1>1, <3>1 DEF Pair
      <4>2. s[p] \in {"<", ">"}
        BY <2>2, <4>1 DEF Operator
      <4>3. CharAt(rest, 2) = s[p]
        BY <1>9, <4>1
      <4> QED
        BY <1>4, <2>7, <4>2, <4>3
    <3>3. \A j \in p..p : j = p
      BY <1>1
    <3>4. OpTile(s, p, p)
      BY <1>10, <2>3, <3>2, <3>3 DEF OpTile, n
    <3> QED
      BY <3>1, <3>2, <3>4
  <2> QED
    BY <2>6, <2>7
<1> QED
  BY <1>13, <1>14 DEF n

\* The token at a place outside of quotes.
LEMMA PlainToken ==
    ASSUME NEW s \in Text, Literally(s), NEW p \in 1..Len(s), OpenIn(s)[p] = NUL,
           NoSpaceAt(s, p), ~SecondIn(s)[p], NEW l, l = GetTokenLen(SubSeq(s, p, Len(s)))
    PROVE  /\ l \in 1..(Len(s) - p + 1)
           /\ OpenIn(s)[p + l] = NUL
           /\ p + l \in 1..Len(s) => ~SecondIn(s)[p + l]
           /\ \/ OpTile(s, p, p + l - 1)
              \/ QuotedPart(s, p, p + l - 1)
              \/ BarePart(s, p, p + l - 1)
<1>1. /\ l \in 1..(Len(s) - p + 1)
      /\ DollarToken(s, p, l) \/ QuotedToken(s, p, l) \/ BareToken(s, p, l)
  BY TokenAt
<1>2. Closed(s) /\ \A k \in 1..Len(s) : s[k] = "$" => OpenIn(s)[k] = "'"
  BY DEF Literally
<1>3. s[p] # "$" /\ s[p] # " "
  <2>1. "'" # NUL
    BY DEF NUL
  <2> QED
    BY <1>2, <2>1 DEF NoSpaceAt
<1>4. OpenIn(s)[p + l] = NUL
  BY <1>1, <1>2, TokenCloses
<1>5. CASE s[p] \in Quote
  <2>1. ~BareToken(s, p, l) /\ ~DollarToken(s, p, l)
    <3>1. p \in p..(p + l - 1)
      BY <1>1
    <3> QED
      BY <1>3, <1>5, <3>1 DEF BareToken, DollarToken
  <2>2. QuotedToken(s, p, l)
    BY <1>1, <2>1
  <2>3. \/ s[p + l - 1] \in Quote /\ l >= 2
        \/ l = 1 /\ \A j \in (p + 1)..(Len(s) + 1) : OpenIn(s)[j] # NUL
    BY <1>1, <2>2, TokenCloses
  <2>4. Len(s) + 1 \in (p + 1)..(Len(s) + 1)
    <3>1. Len(s) \in Nat
      BY DEF Text
    <3> QED
      BY <3>1
  <2>5. l >= 2
    BY <1>2, <2>3, <2>4 DEF Closed
  <2>6. l # 1 /\ p < p + l - 1 /\ (p + l - 1) - 1 = p + l - 2 /\ (p + l) - 1 = p + l - 1
    BY <1>1, <2>5
  <2>7. QuotedPart(s, p, p + l - 1)
    BY <1>5, <2>2, <2>6 DEF QuotedToken, QuotedPart
  <2>8. p + l \in 1..Len(s) => ~SecondIn(s)[p + l]
    <3>1. s[(p + l) - 1] \in Quote
      BY <2>7, <2>6 DEF QuotedPart
    <3>2. ~Pair(s, p + l)
      BY <3>1 DEF Pair, OpIn, Quote, Operator
    <3> QED
      BY <3>2, SecondIs
  <2> QED
    BY <1>1, <1>4, <2>7, <2>8
<1>6. CASE s[p] \notin Quote
  <2>1. PlainAt(s, p)
    BY <1>3, <1>6 DEF PlainAt
  <2>2. /\ OpTile(s, p, p + l - 1) \/ BarePart(s, p, p + l - 1)
        /\ p + l \in 1..Len(s) => ~SecondIn(s)[p + l]
    BY <1>1, <1>2, <2>1, PlainBare
  <2> QED
    BY <1>1, <1>4, <2>2
<1> QED
  BY <1>5, <1>6

\* One more tile, behind spaces.
LEMMA TilingGrows ==
    ASSUME NEW s, NEW m \in Nat, NEW f, NEW e, NEW from \in Nat \ {0}, Tiling(s, f, e, m, from),
           NEW p \in Nat, from <= p, NEW b \in Nat, p <= b,
           \A j \in from..(p - 1) : SpaceIn(s, j)
    PROVE  Tiling(s, [k \in 1..(m + 1) |-> IF k = m + 1 THEN p ELSE f[k]],
                  [k \in 1..(m + 1) |-> IF k = m + 1 THEN b ELSE e[k]], m + 1, b + 1)
<1> DEFINE g == [k \in 1..(m + 1) |-> IF k = m + 1 THEN p ELSE f[k]]
           h == [k \in 1..(m + 1) |-> IF k = m + 1 THEN b ELSE e[k]]
<1>1. /\ \A k \in 1..m : f[k] \in Nat /\ e[k] \in Nat /\ 1 <= f[k] /\ f[k] <= e[k] /\ e[k] < from
      /\ \A i, k \in 1..m : i < k => e[i] < f[k]
      /\ \A j \in 1..(from - 1) : SpaceIn(s, j) \/ \E k \in 1..m : f[k] <= j /\ j <= e[k]
  BY DEF Tiling
<1>2. \A k \in 1..(m + 1) : k = m + 1 \/ (k \in 1..m /\ k # m + 1)
  OBVIOUS
<1>3. g \in [1..(m + 1) -> Nat] /\ h \in [1..(m + 1) -> Nat]
  BY <1>1, <1>2
<1>4. m + 1 \in 1..(m + 1) /\ \A k \in 1..m : k \in 1..(m + 1) /\ k # m + 1
  OBVIOUS
<1>5. /\ g[m + 1] = p /\ h[m + 1] = b
      /\ \A k \in 1..m : g[k] = f[k] /\ h[k] = e[k]
  BY <1>4
<1> HIDE DEF g, h
<1>6. ASSUME NEW k \in 1..(m + 1) PROVE 1 <= g[k] /\ g[k] <= h[k] /\ h[k] < b + 1
  <2>1. CASE k = m + 1
    BY <1>5, <2>1
  <2>2. CASE k \in 1..m
    <3>1. /\ g[k] = f[k] /\ h[k] = e[k]
          /\ f[k] \in Nat /\ e[k] \in Nat /\ 1 <= f[k] /\ f[k] <= e[k] /\ e[k] < from
      BY <1>1, <1>5, <2>2
    <3> QED
      BY <3>1
  <2> QED
    BY <1>2, <2>1, <2>2
<1>7. ASSUME NEW i \in 1..(m + 1), NEW k \in 1..(m + 1), i < k PROVE h[i] < g[k]
  <2>1. i \in 1..m
    BY <1>7
  <2>2. h[i] = e[i] /\ e[i] \in Nat /\ e[i] < from
    BY <1>1, <1>5, <2>1
  <2>3. CASE k = m + 1
    BY <1>5, <2>2, <2>3
  <2>4. CASE k \in 1..m
    BY <1>1, <1>5, <1>7, <2>1, <2>4
  <2> QED
    BY <1>2, <2>3, <2>4
<1>8. ASSUME NEW j \in 1..((b + 1) - 1)
      PROVE  SpaceIn(s, j) \/ \E k \in 1..(m + 1) : g[k] <= j /\ j <= h[k]
  <2>1. CASE j \in 1..(from - 1)
    <3>1. SpaceIn(s, j) \/ \E k \in 1..m : f[k] <= j /\ j <= e[k]
      BY <1>1, <2>1
    <3>2. ASSUME NEW k \in 1..m, f[k] <= j, j <= e[k]
          PROVE  \E i \in 1..(m + 1) : g[i] <= j /\ j <= h[i]
      BY <1>4, <1>5, <3>2
    <3> QED
      BY <3>1, <3>2
  <2>2. CASE j \in from..(p - 1)
    BY <2>2
  <2>3. CASE j >= p
    <3>1. g[m + 1] <= j /\ j <= h[m + 1]
      BY <1>5, <2>3
    <3> QED
      BY <1>4, <3>1
  <2>4. j \in 1..(from - 1) \/ j \in from..(p - 1) \/ j >= p
    OBVIOUS
  <2> QED
    BY <2>1, <2>2, <2>3, <2>4
<1> QED
  BY <1>3, <1>6, <1>7, <1>8 DEF Tiling, g, h

\* Spaces to the end.
LEMMA TilingEnds ==
    ASSUME NEW s, NEW m \in Nat, NEW f, NEW e, NEW from \in Nat \ {0}, Tiling(s, f, e, m, from),
           NEW upto \in Nat, from <= upto, \A j \in from..(upto - 1) : SpaceIn(s, j)
    PROVE  Tiling(s, f, e, m, upto)
<1>1. /\ f \in [1..m -> Nat] /\ e \in [1..m -> Nat]
      /\ \A k \in 1..m : f[k] \in Nat /\ e[k] \in Nat /\ 1 <= f[k] /\ f[k] <= e[k] /\ e[k] < from
      /\ \A i, k \in 1..m : i < k => e[i] < f[k]
      /\ \A j \in 1..(from - 1) : SpaceIn(s, j) \/ \E k \in 1..m : f[k] <= j /\ j <= e[k]
  BY DEF Tiling
<1>2. \A k \in 1..m : 1 <= f[k] /\ f[k] <= e[k] /\ e[k] < upto
  BY <1>1
<1>3. \A j \in 1..(upto - 1) : j \in 1..(from - 1) \/ j \in from..(upto - 1)
  OBVIOUS
<1>4. \A j \in 1..(upto - 1) : SpaceIn(s, j) \/ \E k \in 1..m : f[k] <= j /\ j <= e[k]
  BY <1>1, <1>3
<1> QED
  BY <1>1, <1>2, <1>4 DEF Tiling

\* A token as split_input leaves it.
Raw(s, t, a, b) ==
    /\ t.value = SubSeq(s, a, b) /\ ~t.literal
    /\ OpenIn(s)[a] = NUL /\ OpenIn(s)[b + 1] = NUL
    /\ \/ OpTile(s, a, b)
       \/ (QuotedPart(s, a, b) \/ BarePart(s, a, b)) /\ (t.join <=> WordIn(s, b + 1))
RawTokens(s, ts, upto) ==
    \E f, e : /\ Tiling(s, f, e, Len(ts), upto)
              /\ \A k \in 1..Len(ts) : Raw(s, ts[k], f[k], e[k])
SplitUpTo(s, ts, from) ==
    /\ OpenIn(s)[from] = NUL
    /\ from \in 1..Len(s) => ~SecondIn(s)[from]
    /\ RawTokens(s, ts, from)

\* create_and_init_token.
LEMMA RawToken ==
    ASSUME line \in Text, Literally(line), NEW p \in 1..Len(line), OpenIn(line)[p] = NUL,
           NoSpaceAt(line, p), ~SecondIn(line)[p],
           NEW l, l = GetTokenLen(SubSeq(line, p, Len(line)))
    PROVE  Raw(line, CreateAndInitToken(p, l), p, p + l - 1)
<1> DEFINE n == Len(line)
           t == CreateAndInitToken(p, l)
<1>1. /\ l \in 1..(n - p + 1) /\ OpenIn(line)[p + l] = NUL
      /\ \/ OpTile(line, p, p + l - 1)
         \/ QuotedPart(line, p, p + l - 1)
         \/ BarePart(line, p, p + l - 1)
  BY PlainToken
<1>2. n \in Nat /\ DOMAIN line = 1..n
  BY DEF Text
<1>3. ~t.literal /\ t.value = SubSeq(line, p, p + l - 1) /\ t.value[1] = line[p]
  BY <1>1, TokenReads
<1>4. t.join <=> Joins(t.value, CharAt(line, p + l))
  BY <1>3 DEF CreateAndInitToken
<1>5. t.value # <<"$">>
  <2>1. line[p] # "$"
    <3>1. "'" # NUL
      BY DEF NUL
    <3>2. \A k \in 1..Len(line) : line[k] = "$" => OpenIn(line)[k] = "'"
      BY DEF Literally
    <3>3. OpenIn(line)[p] = NUL
      OBVIOUS
    <3> HIDE DEF t, n
    <3> QED
      BY <3>1, <3>2, <3>3
  <2> DEFINE v == t.value
  <2>2. v[1] # "$"
    BY <1>3, <2>1
  <2> HIDE DEF v
  <2>3. v # <<"$">>
    BY <2>2
  <2> QED
    BY <2>3 DEF v
<1>6. t.join <=> WordIn(line, p + l)
  <2>1. CASE p + l \in 1..n
    <3>1. CharAt(line, p + l) = line[p + l] /\ line[p + l] # NUL
      <4>1. \A k \in 1..Len(line) : line[k] \in Char
        BY DEF Text
      <4>2. line[p + l] # NUL
        BY <2>1, <4>1, CharAssumption
      <4>3. CharAt(line, p + l) = line[p + l]
        BY <1>2, <2>1 DEF CharAt
      <4> QED
        BY <4>2, <4>3
    <3>2. t.join <=> line[p + l] \notin Operator \cup {" "}
      BY <1>4, <1>5, <3>1 DEF Joins
    <3>3. WordIn(line, p + l) <=> line[p + l] \notin Operator \cup {" "}
      BY <1>1, <2>1 DEF WordIn, SpaceIn, OpIn
    <3> QED
      BY <3>2, <3>3
  <2>2. CASE p + l \notin 1..n
    <3>1. CharAt(line, p + l) = NUL
      BY <1>2, <2>2 DEF CharAt
    <3>2. ~t.join
      BY <1>4, <3>1 DEF Joins
    <3>3. ~WordIn(line, p + l)
      BY <2>2 DEF WordIn
    <3> QED
      BY <3>2, <3>3
  <2> QED
    BY <2>1, <2>2
<1>7. (p + l - 1) + 1 = p + l
  BY <1>1, <1>2
<1> HIDE DEF t
<1>8. Raw(line, t, p, p + l - 1)
  BY <1>1, <1>3, <1>6, <1>7 DEF Raw
<1> QED
  BY <1>8 DEF t

\* One more token.
LEMMA RawGrows ==
    ASSUME NEW s, NEW ts \in Seq(Token), NEW t \in Token, NEW from \in Nat \ {0},
           RawTokens(s, ts, from), NEW p \in Nat, from <= p, NEW b \in Nat, p <= b,
           \A j \in from..(p - 1) : SpaceIn(s, j), Raw(s, t, p, b)
    PROVE  RawTokens(s, Append(ts, t), b + 1)
<1> DEFINE m == Len(ts)
           new == Append(ts, t)
<1>1. PICK f, e : Tiling(s, f, e, m, from) /\ \A k \in 1..m : Raw(s, ts[k], f[k], e[k])
  BY DEF RawTokens
<1>2. m \in Nat /\ Len(new) = m + 1 /\ new[m + 1] = t /\ \A k \in 1..m : new[k] = ts[k]
  OBVIOUS
<1> DEFINE g == [k \in 1..(m + 1) |-> IF k = m + 1 THEN p ELSE f[k]]
           h == [k \in 1..(m + 1) |-> IF k = m + 1 THEN b ELSE e[k]]
<1> HIDE DEF m, new
<1>3. Tiling(s, g, h, m + 1, b + 1)
  BY <1>1, <1>2, TilingGrows
<1>4. ASSUME NEW k \in 1..(m + 1) PROVE Raw(s, new[k], g[k], h[k])
  <2>1. CASE k = m + 1
    <3>1. g[k] = p /\ h[k] = b
      BY <2>1
    <3> QED
      BY <1>2, <2>1, <3>1
  <2>2. CASE k # m + 1
    <3>1. k \in 1..m
      BY <1>2, <2>2
    <3>2. g[k] = f[k] /\ h[k] = e[k]
      BY <2>2
    <3> HIDE DEF g, h
    <3> QED
      BY <1>1, <1>2, <3>1, <3>2
  <2> QED
    BY <2>1, <2>2
<1> HIDE DEF g, h
<1> QED
  BY <1>2, <1>3, <1>4 DEF RawTokens, new

\* split_input goes on.
LEMMA SplitReads ==
    ASSUME IInv, WordInv, Literally(line), SplitUpTo(line, tokens, start), ProcessSingleTokenBlock
    PROVE  SplitUpTo(line, tokens', start')
<1> DEFINE n == Len(line)
           p == SkipSpaces
           l == GetTokenLen(SubSeq(line, p, n))
           t == CreateAndInitToken(p, l)
           b == p + l - 1
<1>1. /\ line \in Text /\ n \in Nat /\ tokens \in Seq(Token) /\ start \in 1..(n + 1)
  BY WordFacts
<1>2. p <= n /\ tokens' = Append(tokens, t) /\ start' = p + l
  BY DEF ProcessSingleTokenBlock
<1>3. /\ p \in start..(n + 1)
      /\ \A j \in start..(p - 1) : line[j] = " "
      /\ NoSpaceAt(line, p)
      /\ OpenIn(line)[p] = NUL
  BY <1>1, <1>2, SkippedIs DEF SplitUpTo
<1> HIDE DEF p, n
<1>4. p \in 1..n /\ p \in Nat /\ start <= p /\ start \in Nat \ {0} /\ p \in start..(n + 1)
  <2>1. n \in Nat /\ start \in 1..(n + 1) /\ p \in start..(n + 1) /\ p <= n
    BY <1>1, <1>2, <1>3
  <2> QED
    BY <2>1
<1>5. \A j \in start..(p - 1) : OpenIn(line)[j] = NUL
  <2>1. After(NUL, " ") = NUL
    BY DEF After, Quote, NUL
  <2>2. \A j \in start..(p - 1) : After(NUL, line[j]) = NUL
    BY <1>3, <2>1
  <2>3. \A j \in start..p : OpenIn(line)[j] = NUL
    BY <1>1, <1>4, <2>2, StaysAs DEF SplitUpTo, n
  <2>4. \A j \in start..(p - 1) : j \in start..p
    BY <1>4
  <2> QED
    BY <2>3, <2>4
<1>6. \A j \in start..(p - 1) : SpaceIn(line, j)
  BY <1>3, <1>5 DEF SpaceIn
<1>7. ~SecondIn(line)[p]
  <2>1. CASE p = start
    BY <1>4, <2>1 DEF SplitUpTo, n
  <2>2. CASE p # start
    <3>1. p - 1 \in start..(p - 1)
      BY <1>4, <2>2
    <3>2. ~Pair(line, p)
      BY <1>3, <3>1 DEF Pair, OpIn, Operator
    <3> QED
      BY <1>1, <1>4, <3>2, SecondIs DEF n
  <2> QED
    BY <2>1, <2>2
<1>8. /\ l \in 1..(n - p + 1)
      /\ OpenIn(line)[p + l] = NUL
      /\ p + l \in 1..n => ~SecondIn(line)[p + l]
  <2> HIDE DEF l
  <2>1. l = GetTokenLen(SubSeq(line, p, Len(line)))
    BY DEF l, n
  <2> QED
    BY <1>1, <1>3, <1>4, <1>7, <2>1, PlainToken DEF n
<1>9. Raw(line, t, p, b)
  <2>1. l = GetTokenLen(SubSeq(line, p, Len(line)))
    BY DEF n
  <2> HIDE DEF l
  <2> QED
    BY <1>1, <1>3, <1>4, <1>7, <2>1, RawToken DEF n
<1>10. t \in Token
  <2> HIDE DEF l
  <2> QED
    BY <1>1, <1>4, <1>8, NewTokenIs DEF n
<1> HIDE DEF l, t
<1>11. b \in Nat /\ p <= b /\ b + 1 = p + l
  BY <1>4, <1>8
<1> HIDE DEF b
<1>12. RawTokens(line, tokens, start)
  BY DEF SplitUpTo
<1>13. RawTokens(line, Append(tokens, t), b + 1)
  BY <1>1, <1>4, <1>6, <1>9, <1>10, <1>11, <1>12, RawGrows
<1> QED
  BY <1>2, <1>8, <1>11, <1>13 DEF SplitUpTo, n

\* And ends.
LEMMA SplitAll ==
    ASSUME IInv, WordInv, Literally(line), SplitUpTo(line, tokens, start), SplitEnds
    PROVE  RawTokens(line, tokens, Len(line) + 1)
<1> DEFINE n == Len(line)
           p == SkipSpaces
<1>1. /\ line \in Text /\ n \in Nat /\ tokens \in Seq(Token) /\ start \in 1..(n + 1)
      /\ Len(tokens) \in Nat
  BY WordFacts
<1>2. p > n
  BY DEF SplitEnds
<1>3. /\ p \in start..(n + 1)
      /\ \A j \in start..(p - 1) : line[j] = " "
  BY <1>1, SkippedIs
<1> HIDE DEF p, n
<1>4. p = n + 1 /\ start <= p /\ start \in Nat \ {0} /\ n + 1 \in Nat /\ p - 1 = (n + 1) - 1
  <2>1. n \in Nat /\ start \in 1..(n + 1) /\ p \in start..(n + 1) /\ p > n
    BY <1>1, <1>2, <1>3
  <2> QED
    BY <2>1
<1>5. \A j \in start..(p - 1) : OpenIn(line)[j] = NUL
  <2>1. After(NUL, " ") = NUL
    BY DEF After, Quote, NUL
  <2>2. \A j \in start..(p - 1) : After(NUL, line[j]) = NUL
    BY <1>3, <2>1
  <2>3. \A j \in start..p : OpenIn(line)[j] = NUL
    BY <1>1, <1>3, <2>2, StaysAs DEF SplitUpTo, n
  <2>4. \A j \in start..(p - 1) : j \in start..p
    BY <1>4
  <2> QED
    BY <2>3, <2>4
<1>6. \A j \in start..((n + 1) - 1) : SpaceIn(line, j)
  BY <1>3, <1>4, <1>5 DEF SpaceIn
<1>7. PICK f, e : /\ Tiling(line, f, e, Len(tokens), start)
                  /\ \A k \in 1..Len(tokens) : Raw(line, tokens[k], f[k], e[k])
  BY DEF SplitUpTo, RawTokens
<1>8. Tiling(line, f, e, Len(tokens), n + 1)
  BY <1>1, <1>4, <1>6, <1>7, TilingEnds
<1> QED
  BY <1>7, <1>8 DEF RawTokens, n

-----------------------------------------------------------------------------
(***************************************************************************)
(* What the quotes leave of a part of the line.                            *)
(***************************************************************************)
\* Two texts of the same characters are the same.
LEMMA SameText ==
    ASSUME NEW v \in Seq(Char), NEW w \in Seq(Char), Len(v) = Len(w),
           \A i \in 1..Len(v) : v[i] = w[i]
    PROVE  v = w
OBVIOUS

\* A part of a part.
LEMMA InnerPart ==
    ASSUME NEW s \in Text, NEW a \in Nat \ {0}, NEW b \in Nat, a < b, b <= Len(s)
    PROVE  LET v == SubSeq(s, a, b)
           IN  /\ v \in Text /\ Len(v) = b - a + 1 /\ v[1] = s[a] /\ v[Len(v)] = s[b]
               /\ \A i \in 1..Len(v) : v[i] = s[a + i - 1]
               /\ SubSeq(v, 2, Len(v) - 1) = SubSeq(s, a + 1, b - 1)
<1> DEFINE v == SubSeq(s, a, b)
           w == SubSeq(s, a + 1, b - 1)
           u == SubSeq(v, 2, Len(v) - 1)
<1>1. v \in Text /\ Len(v) = b - a + 1 /\ \A i \in 1..Len(v) : v[i] = s[a + i - 1]
  <2>1. b \in Int /\ a <= b
    OBVIOUS
  <2>2. /\ v \in Seq(Char) /\ Len(v) = IF a <= b THEN b - a + 1 ELSE 0
        /\ \A i \in 1..(b - a + 1) : v[i] = s[a + i - 1]
    BY <2>1, PartOfText
  <2> HIDE DEF v
  <2> QED
    BY <2>1, <2>2 DEF Text
<1>2. /\ w \in Seq(Char) /\ Len(w) = b - a - 1 /\ \A i \in 1..(b - a - 1) : w[i] = s[(a + 1) + i - 1]
  <2>1. a + 1 \in Nat \ {0} /\ b - 1 \in Int /\ b - 1 <= Len(s)
    <3>1. Len(s) \in Nat
      BY DEF Text
    <3> QED
      BY <3>1
  <2>2. /\ w \in Seq(Char)
        /\ Len(w) = IF a + 1 <= b - 1 THEN (b - 1) - (a + 1) + 1 ELSE 0
        /\ \A i \in 1..((b - 1) - (a + 1) + 1) : w[i] = s[(a + 1) + i - 1]
    BY <2>1, PartOfText
  <2> HIDE DEF w
  <2>3. (b - 1) - (a + 1) + 1 = b - a - 1 /\ (~(a + 1 <= b - 1) => b - a - 1 = 0)
    OBVIOUS
  <2> QED
    BY <2>2, <2>3
<1> HIDE DEF v, w
<1>3. /\ u \in Seq(Char) /\ Len(u) = b - a - 1 /\ \A i \in 1..(b - a - 1) : u[i] = v[2 + i - 1]
  <2>1. 2 \in Nat \ {0} /\ Len(v) - 1 \in Int /\ Len(v) - 1 <= Len(v)
    BY <1>1
  <2>2. /\ u \in Seq(Char)
        /\ Len(u) = IF 2 <= Len(v) - 1 THEN (Len(v) - 1) - 2 + 1 ELSE 0
        /\ \A i \in 1..((Len(v) - 1) - 2 + 1) : u[i] = v[2 + i - 1]
    BY <1>1, <2>1, PartOfText
  <2> HIDE DEF u
  <2>3. (Len(v) - 1) - 2 + 1 = b - a - 1 /\ (~(2 <= Len(v) - 1) => b - a - 1 = 0)
    BY <1>1
  <2> QED
    BY <2>2, <2>3
<1> HIDE DEF u
<1>4. \A i \in 1..(b - a - 1) : u[i] = w[i]
  <2> SUFFICES ASSUME NEW i \in 1..(b - a - 1) PROVE u[i] = w[i]
    OBVIOUS
  <2>1. i + 1 \in 1..Len(v) /\ 2 + i - 1 = i + 1 /\ a + (i + 1) - 1 = a + i /\ (a + 1) + i - 1 = a + i
    BY <1>1
  <2>2. u[i] = v[i + 1]
    BY <1>3, <2>1
  <2>3. v[i + 1] = s[a + i]
    BY <1>1, <2>1
  <2>4. w[i] = s[a + i]
    BY <1>2, <2>1
  <2> QED
    BY <2>2, <2>3, <2>4
<1>5. u = w
  BY <1>2, <1>3, <1>4, SameText
<1>6. v[1] = s[a] /\ v[Len(v)] = s[b]
  <2>1. 1 \in 1..Len(v) /\ Len(v) \in 1..Len(v) /\ a + 1 - 1 = a /\ a + Len(v) - 1 = b
    BY <1>1
  <2> QED
    BY <1>1, <2>1
<1> QED
  BY <1>1, <1>5, <1>6 DEF u, v, w

\* Without its quotes.
LEMMA TrimQuotes ==
    ASSUME NEW v \in Text, Len(v) >= 2, NEW q, v[1] = q, v[Len(v)] = q,
           \A i \in 2..(Len(v) - 1) : v[i] # q
    PROVE  Trim(v, {q}) = SubSeq(v, 2, Len(v) - 1)
<1> DEFINE n == Len(v)
           kept == {j \in DOMAIN v : v[j] \notin {q}}
<1>1. n \in Nat /\ n >= 2 /\ DOMAIN v = 1..n
  BY DEF Text
<1>2. kept = 2..(n - 1)
  <2> HIDE DEF n
  <2>1. v[n] = q /\ \A i \in 2..(n - 1) : v[i] # q
    BY DEF n
  <2>2. \A j \in 1..n : j = 1 \/ j = n \/ j \in 2..(n - 1)
    BY <1>1
  <2>3. \A j \in 2..(n - 1) : j \in 1..n
    BY <1>1
  <2> QED
    BY <1>1, <2>1, <2>2, <2>3
<1>3. Trim(v, {q}) = IF kept = {} THEN <<>> ELSE SubSeq(v, Min(kept), Max(kept))
  BY DEF Trim
<1> HIDE DEF kept
<1>4. CASE n = 2
  <2>1. kept = {}
    BY <1>2, <1>4
  <2>2. SubSeq(v, 2, n - 1) = <<>>
    <3> DEFINE w == SubSeq(v, 2, n - 1)
    <3>1. 2 \in Nat \ {0} /\ n - 1 \in Int /\ n - 1 <= Len(v)
      BY <1>1
    <3>2. w \in Seq(Char) /\ Len(w) = IF 2 <= n - 1 THEN (n - 1) - 2 + 1 ELSE 0
      BY <3>1, PartOfText
    <3>3. Len(w) = 0
      BY <1>4, <3>2
    <3> HIDE DEF w
    <3>4. w = <<>>
      BY <3>2, <3>3
    <3> QED
      BY <3>4 DEF w
  <2> QED
    BY <1>3, <2>1, <2>2
<1>5. CASE n # 2
  <2> HIDE DEF n
  <2>1. 2 \in kept /\ n - 1 \in kept /\ kept \in SUBSET Nat /\ kept \in SUBSET (0..n) /\ kept # {}
    BY <1>1, <1>2, <1>5
  <2>2. Min(kept) \in kept /\ \A y \in kept : Min(kept) <= y
    BY <2>1, LeastOf
  <2>3. Max(kept) \in kept /\ \A y \in kept : y <= Max(kept)
    BY <1>1, <2>1, GreatestOf
  <2> DEFINE x == Min(kept)
             y == Max(kept)
  <2>4. x \in 2..(n - 1) /\ x <= 2 /\ y \in 2..(n - 1) /\ n - 1 <= y
    BY <1>2, <2>1, <2>2, <2>3
  <2> HIDE DEF x, y
  <2>5. x = 2 /\ y = n - 1
    BY <1>1, <2>4
  <2> QED
    BY <1>3, <2>1, <2>5 DEF x, y, n
<1> QED
  BY <1>4, <1>5

\* A text without references.
NoDollar(v) == \A i \in 1..Len(v) : v[i] # "$"

\* It reads the text.
LEMMA CopyReads ==
    ASSUME NEW s \in Text, NEW e, NEW f, IsCopy(f, s, e)
    PROVE  Reads(f, Len(s), [k \in 1..Len(s) |-> CopyPiece(s, e, k)],
                 [k \in 1..Len(s) |-> CopyBehind(s, k)])
<1>1. IsCopy(f, s, e)
         <=> f = [k \in 1..(Len(s) + 1) |->
                    IF k > Len(s) THEN <<>> ELSE CopyPiece(s, e, k) \o f[CopyBehind(s, k)]]
  BY CopyOnly
<1>2. f = [k \in 1..(Len(s) + 1) |->
              IF k > Len(s) THEN <<>> ELSE CopyPiece(s, e, k) \o f[CopyBehind(s, k)]]
  BY <1>1
<1>3. \A k \in 1..(Len(s) + 1) :
          f[k] = IF k > Len(s) THEN <<>> ELSE CopyPiece(s, e, k) \o f[CopyBehind(s, k)]
  BY <1>2
<1>4. Len(s) \in Nat
  BY DEF Text
<1>5. /\ Len(s) + 1 \in 1..(Len(s) + 1) /\ Len(s) + 1 > Len(s)
      /\ \A k \in 1..Len(s) : k \in 1..(Len(s) + 1) /\ ~(k > Len(s))
  BY <1>4
<1> QED
  BY <1>3, <1>5 DEF Reads

\* quote_handler_cpy copies it as it is.
LEMMA PlainCopy ==
    ASSUME NEW s \in Text, NEW e, Valued(e), NoDollar(s)
    PROVE  CopyExpansions(s, e) = s
<1> DEFINE n == Len(s)
           piece == [k \in 1..Len(s) |-> CopyPiece(s, e, k)]
           onward == [k \in 1..Len(s) |-> CopyBehind(s, k)]
           rest == [k \in 1..(n + 1) |-> SubSeq(s, k, n)]
           copy == CHOOSE f : IsCopy(f, s, e)
<1>1. Reading(n, Char, piece, onward)
  BY CopyIsReading DEF Valued
<1>2. n \in Nat /\ 1 \in 1..(n + 1) /\ s \in Seq(Char)
  BY DEF Text
<1>3. ASSUME NEW k \in 1..n PROVE s[k] # "$" /\ s[k] \in Char
  BY <1>2 DEF NoDollar
<1>4. \A k \in 1..n : piece[k] = <<s[k]>> /\ onward[k] = k + 1
  BY <1>3 DEF CopyPiece, CopyBehind
<1> HIDE DEF piece, onward
<1>5. ASSUME NEW k \in 1..(n + 1)
      PROVE  /\ rest[k] = SubSeq(s, k, n) /\ rest[k] \in Seq(Char)
             /\ Len(rest[k]) = n + 1 - k
             /\ \A i \in 1..(n + 1 - k) : rest[k][i] = s[k + i - 1]
  <2> DEFINE w == SubSeq(s, k, n)
  <2>1. rest[k] = w
    OBVIOUS
  <2> HIDE DEF rest
  <2>2. k \in Nat \ {0} /\ n \in Int /\ n <= Len(s)
    BY <1>2
  <2>3. /\ w \in Seq(Char) /\ Len(w) = IF k <= n THEN n - k + 1 ELSE 0
        /\ \A i \in 1..(n - k + 1) : w[i] = s[k + i - 1]
    BY <2>2, PartOfText
  <2> HIDE DEF w, n
  <2>4. n - k + 1 = n + 1 - k /\ (~(k <= n) => n + 1 - k = 0)
    BY <1>2
  <2> QED
    BY <2>1, <2>3, <2>4 DEF w
<1> HIDE DEF rest
<1>6. rest[n + 1] = <<>>
  <2>1. n + 1 \in 1..(n + 1) /\ n + 1 - (n + 1) = 0
    BY <1>2
  <2>2. rest[n + 1] \in Seq(Char) /\ Len(rest[n + 1]) = 0
    BY <1>5, <2>1
  <2> QED
    BY <2>2
<1>7. ASSUME NEW k \in 1..n PROVE rest[k] = piece[k] \o rest[onward[k]]
  <2> DEFINE p == <<s[k]>>
             q == rest[k + 1]
  <2>1. k \in 1..(n + 1) /\ k + 1 \in 1..(n + 1)
    BY <1>2
  <2>2. /\ rest[k] \in Seq(Char) /\ Len(rest[k]) = n + 1 - k
        /\ \A i \in 1..(n + 1 - k) : rest[k][i] = s[k + i - 1]
    BY <1>5, <2>1
  <2>3. /\ q \in Seq(Char) /\ Len(q) = n + 1 - (k + 1)
        /\ \A i \in 1..(n + 1 - (k + 1)) : q[i] = s[(k + 1) + i - 1]
    BY <1>5, <2>1
  <2>4. p \in Seq(Char) /\ Len(p) = 1 /\ p[1] = s[k]
    BY <1>3
  <2> HIDE DEF p, q, n
  <2>5. /\ p \o q \in Seq(Char) /\ Len(p \o q) = Len(p) + Len(q)
        /\ \A i \in 1..(Len(p) + Len(q)) : (p \o q)[i] = IF i <= Len(p) THEN p[i] ELSE q[i - Len(p)]
    BY <2>3, <2>4, ConcatProperties
  <2>6. Len(p \o q) = n + 1 - k /\ Len(p) + Len(q) = n + 1 - k
    BY <1>2, <2>3, <2>4, <2>5
  <2>7. ASSUME NEW i \in 1..(n + 1 - k) PROVE rest[k][i] = (p \o q)[i]
    <3>1. rest[k][i] = s[k + i - 1]
      BY <2>2
    <3>2. (p \o q)[i] = IF i <= 1 THEN p[i] ELSE q[i - 1]
      BY <2>4, <2>5, <2>6
    <3>3. CASE i = 1
      <4>1. k + i - 1 = k
        BY <3>3
      <4> QED
        BY <2>4, <3>1, <3>2, <3>3, <4>1
    <3>4. CASE i # 1
      <4>1. i - 1 \in 1..(n + 1 - (k + 1)) /\ ~(i <= 1) /\ (k + 1) + (i - 1) - 1 = k + i - 1
        BY <1>2, <3>4
      <4>2. q[i - 1] = s[k + i - 1]
        BY <2>3, <4>1
      <4> QED
        BY <3>1, <3>2, <4>1, <4>2
    <3> QED
      BY <3>3, <3>4
  <2>8. rest[k] = p \o q
    BY <2>2, <2>5, <2>6, <2>7, SameText
  <2> QED
    BY <1>4, <2>8 DEF p, q
<1>8. Reads(rest, n, piece, onward)
  BY <1>6, <1>7 DEF Reads
<1>9. IsCopy(rest, s, e)
  <2>1. \A k \in 1..(n + 1) : (k > n <=> k = n + 1) /\ (~(k > n) => k \in 1..n)
    BY <1>2
  <2>2. \A k \in 1..n : piece[k] = CopyPiece(s, e, k) /\ onward[k] = CopyBehind(s, k)
    BY DEF piece, onward
  <2>3. \A k \in 1..(n + 1) :
            rest[k] = IF k > n THEN <<>> ELSE CopyPiece(s, e, k) \o rest[CopyBehind(s, k)]
    BY <1>6, <1>7, <2>1, <2>2
  <2>4. rest = [k \in 1..(n + 1) |-> rest[k]]
    BY DEF rest
  <2>5. rest = [k \in 1..(n + 1) |->
                IF k > n THEN <<>> ELSE CopyPiece(s, e, k) \o rest[CopyBehind(s, k)]]
    BY <2>3, <2>4
  <2> QED
    BY <2>5, CopyOnly
<1>10. IsCopy(copy, s, e)
  BY <1>9
<1> HIDE DEF copy
<1>11. Reads(copy, n, piece, onward)
  BY <1>10, CopyReads DEF piece, onward
<1>12. copy[1] = rest[1]
  <2> HIDE DEF n
  <2>1. \A k \in 1..(n + 1) : copy[k] = rest[k]
    BY <1>1, <1>8, <1>11, ReadingUnique
  <2> QED
    BY <1>2, <2>1
<1>13. rest[1] = s
  <2>1. /\ rest[1] \in Seq(Char) /\ Len(rest[1]) = n + 1 - 1
        /\ \A i \in 1..(n + 1 - 1) : rest[1][i] = s[1 + i - 1]
    BY <1>2, <1>5
  <2>2. n + 1 - 1 = n /\ \A i \in 1..n : 1 + i - 1 = i
    BY <1>2
  <2>3. Len(rest[1]) = Len(s) /\ \A i \in 1..Len(rest[1]) : rest[1][i] = s[i]
    BY <2>1, <2>2
  <2> QED
    BY <1>2, <2>1, <2>3, SameText
<1>14. CopyExpansions(s, e) = copy[1]
  BY DEF CopyExpansions, IsCopy, copy
<1> QED
  BY <1>12, <1>13, <1>14

\* quote_handler_cpy, of a text without references.
LEMMA PlainCpy ==
    ASSUME NEW s \in Text, NEW e, Valued(e), NoDollar(s)
    PROVE  QuoteHandlerCpy(s, e) = s
<1> DEFINE kept == {j \in DOMAIN s : s[j] \notin {" "}}
           x == Min(kept)
           y == Max(kept)
           w == SubSeq(s, x, y)
<1>1. Len(s) \in Nat /\ DOMAIN s = 1..Len(s)
  BY DEF Text
<1>2. Trim(s, {" "}) = IF kept = {} THEN <<>> ELSE w
  BY DEF Trim
<1>3. ASSUME kept # {} PROVE w # <<"$">>
  <2>1. kept \in SUBSET Nat /\ kept \in SUBSET (0..Len(s)) /\ kept \subseteq 1..Len(s)
    <3>1. kept \subseteq 1..Len(s)
      BY <1>1
    <3>2. 1..Len(s) \subseteq Nat /\ 1..Len(s) \subseteq 0..Len(s)
      BY <1>1
    <3> HIDE DEF kept
    <3> QED
      BY <3>1, <3>2
  <2> HIDE DEF kept
  <2>2. x \in kept /\ y \in kept
    BY <1>1, <1>3, <2>1, LeastOf, GreatestOf
  <2> HIDE DEF x, y
  <2>3. x \in Nat \ {0} /\ x \in 1..Len(s) /\ y \in Int /\ y <= Len(s) /\ x \in Int
    BY <1>1, <2>1, <2>2
  <2>4. /\ w \in Seq(Char) /\ Len(w) = IF x <= y THEN y - x + 1 ELSE 0
        /\ \A i \in 1..(y - x + 1) : w[i] = s[x + i - 1]
    BY <2>3, PartOfText
  <2> HIDE DEF w
  <2>5. ASSUME w = <<"$">> PROVE FALSE
    <3>1. Len(w) = 1 /\ w[1] = "$"
      BY <2>5
    <3>2. x <= y /\ y - x + 1 = 1
      <4>1. 1 = IF x <= y THEN y - x + 1 ELSE 0
        BY <2>4, <3>1
      <4> QED
        BY <2>3, <4>1
    <3>3. 1 \in 1..(y - x + 1) /\ x + 1 - 1 = x
      BY <2>3, <3>2
    <3>4. w[1] = s[x]
      BY <2>4, <3>3
    <3> QED
      BY <2>3, <3>1, <3>4 DEF NoDollar
  <2> QED
    BY <2>5
<1>4. Trim(s, {" "}) # <<"$">>
  <2>1. <<>> # <<"$">>
    OBVIOUS
  <2> HIDE DEF kept, w
  <2> QED
    BY <1>2, <1>3, <2>1
<1>5. CopyExpansions(s, e) = s
  BY PlainCopy
<1> QED
  BY <1>4, <1>5 DEF QuoteHandlerCpy

\* A token as quote_handler leaves it.
Read(s, t, a, b) ==
    /\ SpellsIn(s, t.value, (a..b) \ MarksIn(s))
    /\ \/ OpTile(s, a, b) /\ t.value \in OperatorValues /\ ~t.literal
       \/ /\ Span(s, a, b) /\ (t.join <=> WordIn(s, b + 1))
          /\ s[a] = "'" => t.literal
          /\ t.value \in OperatorValues => t.literal

\* The first character of an operator.
LEMMA OperatorStarts ==
    ASSUME NEW v \in OperatorValues
    PROVE  v[1] \in Operator
BY DEF OperatorValues, Redirs, Operator

\* The text of an operator.
LEMMA OpTileValue ==
    ASSUME NEW s \in Text, NEW a \in Nat \ {0}, NEW b \in Nat, a <= b, b <= Len(s), OpTile(s, a, b)
    PROVE  SubSeq(s, a, b) \in OperatorValues /\ (a..b) \ MarksIn(s) = a..b
<1> DEFINE v == SubSeq(s, a, b)
<1>1. /\ v \in Seq(Char) /\ Len(v) = IF a <= b THEN b - a + 1 ELSE 0
      /\ \A i \in 1..(b - a + 1) : v[i] = s[a + i - 1]
  <2>1. b \in Int
    OBVIOUS
  <2> QED
    BY <2>1, PartOfText
<1> HIDE DEF v
<1>2. \A j \in a..b : s[j] \in Operator
  BY DEF OpTile, OpIn
<1>3. (a..b) \ MarksIn(s) = a..b
  <2>1. \A j \in a..b : s[j] \notin Quote
    BY <1>2 DEF Operator, Quote
  <2> QED
    BY <2>1 DEF MarksIn
<1>4. v[1] = s[a] /\ s[a] \in Operator
  <2>1. 1 \in 1..(b - a + 1) /\ a + 1 - 1 = a /\ a \in a..b
    OBVIOUS
  <2> QED
    BY <1>1, <1>2, <2>1
<1>5. CASE b = a
  <2>1. Len(v) = 1
    BY <1>1, <1>5
  <2>2. v = <<s[a]>>
    BY <1>1, <1>4, <2>1
  <2>3. s[a] = "|" \/ s[a] = "<" \/ s[a] = ">"
    BY <1>4 DEF Operator
  <2> QED
    BY <1>3, <2>2, <2>3 DEF OperatorValues, Redirs, v
<1>6. CASE b = a + 1
  <2>1. Len(v) = 2
    BY <1>1, <1>6
  <2>2. v[2] = s[b]
    <3>1. 2 \in 1..(b - a + 1) /\ a + 2 - 1 = b
      BY <1>6
    <3> QED
      BY <1>1, <3>1
  <2>3. s[b] # "|" /\ s[b] = s[a]
    <3>1. SecondIn(s)[b]
      <4>1. ~(b = a)
        BY <1>6
      <4> QED
        BY <4>1 DEF OpTile
    <3>2. b \in 1..Len(s) /\ b - 1 = a
      BY <1>6
    <3> QED
      BY <3>1, <3>2, SecondIs DEF Pair
  <2>4. v = <<s[a], s[a]>>
    BY <1>1, <1>4, <2>1, <2>2, <2>3
  <2>5. s[a] = "<" \/ s[a] = ">"
    BY <1>4, <2>3 DEF Operator
  <2> QED
    BY <1>3, <2>4, <2>5 DEF OperatorValues, Redirs, v
<1> QED
  BY <1>5, <1>6 DEF OpTile

\* What is between the quotes of a part.
LEMMA QuotedMarks ==
    ASSUME NEW s \in Text, NEW a \in Nat \ {0}, NEW b \in Nat, b <= Len(s), QuotedPart(s, a, b),
           OpenIn(s)[a] = NUL
    PROVE  /\ \A j \in (a + 1)..b : OpenIn(s)[j] = s[a]
           /\ (a..b) \ MarksIn(s) = (a + 1)..(b - 1)
           /\ Span(s, a, b)
<1>1. /\ a < b /\ s[a] \in Quote /\ s[b] = s[a]
      /\ \A j \in (a + 1)..(b - 1) : s[j] # s[a]
  BY DEF QuotedPart
<1>2. Len(s) \in Nat /\ a \in 1..Len(s) /\ b \in 1..Len(s) /\ b \in (a + 1)..(Len(s) + 1)
  <2>1. Len(s) \in Nat
    BY DEF Text
  <2> QED
    BY <1>1, <2>1
<1>3. \A j \in (a + 1)..b : OpenIn(s)[j] = s[a]
  BY <1>1, <1>2, OpenUntil
<1>4. s[a] # NUL /\ s[a] # " " /\ s[a] \notin Operator
  <2>1. s[a] \in Char
    BY <1>2 DEF Text
  <2>2. s[a] # NUL
    BY <2>1, CharAssumption
  <2> QED
    BY <1>1, <2>2 DEF Quote, Operator
<1>5. a \in MarksIn(s) /\ b \in MarksIn(s)
  <2>1. b \in (a + 1)..b
    BY <1>1
  <2> QED
    BY <1>1, <1>2, <1>3, <2>1 DEF MarksIn
<1>6. \A j \in (a + 1)..(b - 1) : j \notin MarksIn(s)
  <2> SUFFICES ASSUME NEW j \in (a + 1)..(b - 1) PROVE j \notin MarksIn(s)
    OBVIOUS
  <2>1. j \in (a + 1)..b
    OBVIOUS
  <2>2. OpenIn(s)[j] = s[a] /\ s[j] # s[a]
    BY <1>1, <1>3, <2>1
  <2> QED
    BY <1>4, <2>2 DEF MarksIn
<1>7. (a..b) \ MarksIn(s) = (a + 1)..(b - 1)
  <2>1. \A j \in a..b : j = a \/ j = b \/ j \in (a + 1)..(b - 1)
    OBVIOUS
  <2>2. \A j \in (a + 1)..(b - 1) : j \in a..b
    OBVIOUS
  <2> QED
    BY <1>5, <1>6, <2>1, <2>2
<1>8. Span(s, a, b)
  <2> SUFFICES ASSUME NEW j \in a..b PROVE WordIn(s, j)
    BY DEF Span
  <2>1. j \in 1..Len(s) /\ (j = a \/ j \in (a + 1)..b)
    BY <1>2
  <2> QED
    BY <1>3, <1>4, <2>1 DEF WordIn, SpaceIn, OpIn
<1> QED
  BY <1>3, <1>7, <1>8

\* What quote_handler makes of a quoted part: what is between the quotes.
LEMMA QuotedRead ==
    ASSUME NEW s \in Text, Literally(s), NEW t \in Token, NEW e, Valued(e),
           NEW a \in Nat \ {0}, NEW b \in Nat, b <= Len(s), QuotedPart(s, a, b),
           OpenIn(s)[a] = NUL, t.value = SubSeq(s, a, b)
    PROVE  LET u == QuoteHandler(t, e)
           IN  /\ u.value = SubSeq(s, a + 1, b - 1)
               /\ s[a] = "'" => u.literal
               /\ u.value \in OperatorValues => u.literal
<1> DEFINE v == SubSeq(s, a, b)
           w == SubSeq(s, a + 1, b - 1)
           u == QuoteHandler(t, e)
<1>1. /\ a < b /\ s[a] \in Quote /\ s[b] = s[a]
      /\ \A j \in (a + 1)..(b - 1) : s[j] # s[a]
  BY DEF QuotedPart
<1>2. /\ v \in Text /\ Len(v) = b - a + 1 /\ v[1] = s[a] /\ v[Len(v)] = s[b]
      /\ \A i \in 1..Len(v) : v[i] = s[a + i - 1]
      /\ SubSeq(v, 2, Len(v) - 1) = w
  BY <1>1, InnerPart
<1>3. /\ w \in Text
      /\ Len(w) = IF a + 1 <= b - 1 THEN (b - 1) - (a + 1) + 1 ELSE 0
      /\ \A i \in 1..((b - 1) - (a + 1) + 1) : w[i] = s[(a + 1) + i - 1]
  <2>1. a + 1 \in Nat \ {0} /\ b - 1 \in Int /\ b - 1 <= Len(s)
    <3>1. Len(s) \in Nat
      BY DEF Text
    <3> QED
      BY <3>1
  <2> QED
    BY <2>1, PartOfText, PartIsText
<1> HIDE DEF v, w
<1>4. v[1] = s[a] /\ v[Len(v)] = v[1] /\ Len(v) >= 2 /\ Len(v) > 1
  BY <1>1, <1>2
<1>5. \A i \in 2..(Len(v) - 1) : v[i] # s[a]
  <2> SUFFICES ASSUME NEW i \in 2..(Len(v) - 1) PROVE v[i] # s[a]
    OBVIOUS
  <2>1. i \in 1..Len(v) /\ a + i - 1 \in (a + 1)..(b - 1)
    BY <1>2
  <2> QED
    BY <1>1, <1>2, <2>1
<1>6. Trim(v, {s[a]}) = w
  BY <1>2, <1>4, <1>5, TrimQuotes
<1>7. t.value = v /\ v[1] \in Quote /\ ClosedBy(v, 1, v[1])
  BY <1>1, <1>4 DEF v, ClosedBy
<1>8. u = IF v[1] = "'" THEN HandleSingleQuotes(t) ELSE HandleDoubleQuotes(t, e)
  <2>1. v[1] # "$"
    BY <1>7 DEF Quote
  <2> QED
    BY <1>7, <2>1 DEF QuoteHandler
<1> HIDE DEF u
<1>9. CASE s[a] = "'"
  <2>1. u = [t EXCEPT !.value = w, !.literal = TRUE]
    BY <1>4, <1>6, <1>7, <1>8, <1>9 DEF HandleSingleQuotes
  <2>2. u.value = w /\ u.literal
    BY <2>1 DEF Token
  <2> QED
    BY <2>2 DEF u, w
<1>10. CASE s[a] # "'"
  <2>1. s[a] = "\""
    BY <1>1, <1>10 DEF Quote
  <2>2. Trim(t.value, {"\""}) = w
    BY <1>6, <1>7, <2>1
  <2>3. QuotedOperator(t.value) <=> w \in OperatorValues
    <3>1. QuotedOperator(v) <=> SubSeq(v, 2, Len(v) - 1) \in Redirs \cup {<<"|">>}
      BY <1>4, <1>7 DEF QuotedOperator
    <3> QED
      BY <1>2, <1>7, <3>1 DEF OperatorValues
  <2>4. QuoteHandlerCpy(w, e) = w
    <3>1. ASSUME NEW i \in 1..Len(w) PROVE w[i] # "$"
      <4>1. i \in 1..((b - 1) - (a + 1) + 1) /\ (a + 1) + i - 1 \in (a + 1)..b /\ (a + 1) + i - 1 \in 1..Len(s)
        <5>1. Len(s) \in Nat
          BY DEF Text
        <5>2. a + 1 <= b - 1 /\ Len(w) = (b - 1) - (a + 1) + 1
          BY <1>3
        <5> QED
          BY <5>1, <5>2
      <4>2. w[i] = s[(a + 1) + i - 1]
        BY <1>3, <4>1
      <4>3. OpenIn(s)[(a + 1) + i - 1] = s[a]
        BY <4>1, QuotedMarks
      <4>4. s[(a + 1) + i - 1] = "$" => OpenIn(s)[(a + 1) + i - 1] = "'"
        BY <4>1 DEF Literally
      <4> QED
        BY <1>10, <4>2, <4>3, <4>4
    <3>2. NoDollar(w)
      BY <3>1 DEF NoDollar
    <3> QED
      BY <1>3, <3>2, PlainCpy
  <2>5. u = IF w \in OperatorValues THEN [t EXCEPT !.value = w, !.literal = TRUE]
            ELSE [t EXCEPT !.value = w]
    <3>1. u = HandleDoubleQuotes(t, e)
      BY <1>4, <1>8, <1>10
    <3> QED
      BY <2>2, <2>3, <2>4, <3>1 DEF HandleDoubleQuotes
  <2>6. u.value = w /\ (w \in OperatorValues => u.literal)
    BY <2>5 DEF Token
  <2> QED
    BY <1>10, <2>6 DEF u, w
<1> QED
  BY <1>9, <1>10

\* quote_handler.
LEMMA QuotesRead ==
    ASSUME NEW s \in Text, Literally(s), NEW t \in Token, NEW e, Valued(e),
           NEW a \in Nat \ {0}, NEW b \in Nat, a <= b, b <= Len(s), Raw(s, t, a, b)
    PROVE  Read(s, QuoteHandler(t, e), a, b)
<1> DEFINE v == SubSeq(s, a, b)
           u == QuoteHandler(t, e)
<1>1. t.value = v /\ ~t.literal /\ OpenIn(s)[a] = NUL
  BY DEF Raw
<1>2. u.join = t.join /\ (t.value \in OperatorValues => u = t)
  BY QuotesReport
<1>3. Len(s) \in Nat /\ a \in 1..Len(s) /\ b \in Int
  BY DEF Text
<1>4. SpellsIn(s, v, a..b)
  <2>1. a <= b + 1
    OBVIOUS
  <2> QED
    BY <2>1, PartSpells
<1>5. CASE OpTile(s, a, b)
  <2>1. v \in OperatorValues /\ (a..b) \ MarksIn(s) = a..b
    BY <1>5, OpTileValue
  <2> HIDE DEF u, v
  <2>2. u = t
    BY <1>1, <1>2, <2>1
  <2>3. Read(s, u, a, b)
    BY <1>1, <1>4, <1>5, <2>1, <2>2 DEF Read
  <2> QED
    BY <2>3 DEF u
<1>6. ASSUME BarePart(s, a, b), t.join <=> WordIn(s, b + 1) PROVE Read(s, u, a, b)
  <2>1. \A j \in a..b : /\ s[j] \notin Quote /\ s[j] \notin Operator /\ s[j] # " " /\ s[j] # "$"
    BY <1>6 DEF BarePart
  <2>2. (a..b) \ MarksIn(s) = a..b
    BY <2>1 DEF MarksIn
  <2>3. Span(s, a, b)
    <3>1. \A j \in a..b : j \in 1..Len(s)
      BY <1>3
    <3> QED
      BY <2>1, <3>1 DEF Span, WordIn, SpaceIn, OpIn
  <2>4. v[1] = s[a]
    <3>1. 1 \in 1..(b - a + 1) /\ a + 1 - 1 = a
      BY <1>3
    <3> QED
      BY <1>3, <3>1, PartOfText
  <2>5. a \in a..b
    BY <1>3
  <2> HIDE DEF v
  <2>6. v \notin OperatorValues
    BY <2>1, <2>4, <2>5, OperatorStarts
  <2>7. u = t
    BY <1>1, <2>1, <2>4, <2>5 DEF QuoteHandler, u
  <2>8. s[a] # "'"
    BY <2>1, <2>5 DEF Quote
  <2> QED
    BY <1>1, <1>4, <1>6, <2>2, <2>3, <2>6, <2>7, <2>8 DEF Read
<1>7. ASSUME QuotedPart(s, a, b), t.join <=> WordIn(s, b + 1) PROVE Read(s, u, a, b)
  <2>1. /\ u.value = SubSeq(s, a + 1, b - 1) /\ (s[a] = "'" => u.literal)
        /\ u.value \in OperatorValues => u.literal
    BY <1>1, <1>7, QuotedRead
  <2>2. (a..b) \ MarksIn(s) = (a + 1)..(b - 1) /\ Span(s, a, b)
    BY <1>1, <1>7, QuotedMarks
  <2>3. SpellsIn(s, SubSeq(s, a + 1, b - 1), (a + 1)..(b - 1))
    <3>1. a < b
      BY <1>7 DEF QuotedPart
    <3>2. a + 1 \in Nat \ {0} /\ b - 1 \in Nat /\ b - 1 <= Len(s) /\ a + 1 <= (b - 1) + 1
      BY <1>3, <3>1
    <3> QED
      BY <3>2, PartSpells
  <2> HIDE DEF u
  <2> QED
    BY <1>2, <1>7, <2>1, <2>2, <2>3 DEF Read
<1> QED
  BY <1>5, <1>6, <1>7 DEF Raw

\* A part of a word, or an operator, of which the loops know which it is.
Part(s, t, a, b) ==
    /\ SpellsIn(s, t.value, (a..b) \ MarksIn(s))
    /\ \/ OpTile(s, a, b) /\ IsOperator(t)
       \/ /\ Span(s, a, b) /\ ~IsOperator(t) /\ (t.join <=> WordIn(s, b + 1))
          /\ s[a] = "'" => t.literal

\* typealize leaves the quotes' mark alone, and makes no operator of what has it.
LEMMA TypesKeep ==
    ASSUME NEW t \in Token, t.type = "word"
    PROVE  /\ Typealize(t).literal = t.literal
           /\ t.literal => ~IsOperator(Typealize(t))
<1>1. t \in Token /\ t.literal \in BOOLEAN /\ ~IsOperator(t)
  BY DEF Token, IsOperator
<1>2. \A type, rank : As(t, type, rank).literal = t.literal /\ As(t, type, rank).type = type
  BY <1>1 DEF As, Token
<1>3. \/ Typealize(t) = t
      \/ ~t.literal /\ (Typealize(t) = As(t, "pipe", "S") \/ Typealize(t) = As(t, "redir", "A"))
      \/ Typealize(t) = As(t, "cmd", "B")
  BY DEF Typealize
<1> QED
  BY <1>1, <1>2, <1>3 DEF IsOperator

\* typealize.
LEMMA TypesRead ==
    ASSUME NEW s, NEW t \in Token, t.type = "word", <<t.type, t.rank>> \in Kinds, NEW a, NEW b,
           Read(s, t, a, b)
    PROVE  Part(s, Typealize(t), a, b)
<1> DEFINE u == Typealize(t)
<1>1. u.value = t.value /\ (IsOperator(u) => t.value \in OperatorValues)
  BY TypealizeIs
<1>2. u.join = t.join /\ (t.value \in OperatorValues /\ ~t.literal => IsOperator(u))
  BY TypesReport
<1>3. u.literal = t.literal /\ (t.literal => ~IsOperator(u))
  BY TypesKeep
<1> HIDE DEF u
<1>4. CASE OpTile(s, a, b) /\ t.value \in OperatorValues /\ ~t.literal
  <2>1. IsOperator(u)
    BY <1>2, <1>4
  <2>2. Part(s, u, a, b)
    BY <1>1, <1>4, <2>1 DEF Read, Part
  <2> QED
    BY <2>2 DEF u
<1>5. CASE /\ Span(s, a, b) /\ (t.join <=> WordIn(s, b + 1)) /\ (s[a] = "'" => t.literal)
           /\ t.value \in OperatorValues => t.literal
  <2>1. ~IsOperator(u)
    BY <1>1, <1>3, <1>5
  <2>2. Part(s, u, a, b)
    BY <1>1, <1>2, <1>3, <1>5, <2>1 DEF Read, Part
  <2> QED
    BY <2>2 DEF u
<1> QED
  BY <1>4, <1>5 DEF Read

-----------------------------------------------------------------------------
(***************************************************************************)
(* The loops over the tokens, and joining.                                 *)
(***************************************************************************)
\* All the tokens, when quote_handler has been called for each.
ReadTokens(s, ts) ==
    \E f, e : /\ Tiling(s, f, e, Len(ts), Len(s) + 1)
              /\ \A k \in 1..Len(ts) : Read(s, ts[k], f[k], e[k])
\* Before token c, words are whole.
PartTokens(s, ts, c) ==
    \E f, e : /\ Tiling(s, f, e, Len(ts), Len(s) + 1)
              /\ \A k \in 1..Len(ts) :
                    /\ Part(s, ts[k], f[k], e[k])
                    /\ k < c /\ Span(s, f[k], e[k]) => ~WordIn(s, e[k] + 1)

\* Where the tiles are.
LEMMA TileIn ==
    ASSUME NEW s \in Text, NEW m \in Nat, NEW f, NEW e, Tiling(s, f, e, m, Len(s) + 1), NEW k \in 1..m
    PROVE  f[k] \in Nat \ {0} /\ e[k] \in Nat /\ f[k] <= e[k] /\ e[k] <= Len(s)
<1>1. Len(s) \in Nat
  BY DEF Text
<1>2. f[k] \in Nat /\ e[k] \in Nat /\ 1 <= f[k] /\ f[k] <= e[k] /\ e[k] < Len(s) + 1
  BY DEF Tiling
<1> QED
  BY <1>1, <1>2

\* quote_handler_call_loop and typealize_call_loop.
LEMMA LoopsRead ==
    ASSUME IInv, WordInv, Literally(line)
    PROVE  /\ QuoteHandlerCallLoop /\ RawTokens(line, tokens, Len(line) + 1)
                  => ReadTokens(line, tokens')
           /\ TypealizeCallLoop /\ ReadTokens(line, tokens)
                  => PartTokens(line, tokens', 1)
<1>1. /\ line \in Text /\ Len(line) \in Nat /\ Len(tokens) \in Nat /\ DOMAIN tokens = 1..Len(tokens)
      /\ tokens \in Seq(Token) /\ Valued(env) /\ status \in 0..255
  BY WordFacts
<1>2. ASSUME QuoteHandlerCallLoop, RawTokens(line, tokens, Len(line) + 1)
      PROVE  ReadTokens(line, tokens')
  <2>1. tokens' = [k \in DOMAIN tokens |-> QuoteHandler(tokens[k], env)]
    BY <1>2 DEF QuoteHandlerCallLoop
  <2>2. PICK f, e : /\ Tiling(line, f, e, Len(tokens), Len(line) + 1)
                    /\ \A k \in 1..Len(tokens) : Raw(line, tokens[k], f[k], e[k])
    BY <1>2 DEF RawTokens
  <2>3. Len(tokens') = Len(tokens) /\ \A k \in 1..Len(tokens) : tokens'[k] = QuoteHandler(tokens[k], env)
    <3>1. \A k \in DOMAIN tokens : tokens'[k] = QuoteHandler(tokens[k], env) /\ tokens'[k] \in Token
      BY <1>1, <2>1, QuoteHandlerIs
    <3>2. tokens' = [k \in DOMAIN tokens |-> tokens'[k]]
      BY <2>1
    <3>3. Len(tokens') = Len(tokens)
      BY <1>1, <3>1, <3>2, MapKeeps
    <3> QED
      BY <1>1, <3>1, <3>3
  <2>4. ASSUME NEW k \in 1..Len(tokens) PROVE Read(line, QuoteHandler(tokens[k], env), f[k], e[k])
    <3>1. tokens[k] \in Token
      BY <1>1
    <3>2. f[k] \in Nat \ {0} /\ e[k] \in Nat /\ f[k] <= e[k] /\ e[k] <= Len(line)
      BY <1>1, <2>2, TileIn
    <3> QED
      BY <1>1, <2>2, <3>1, <3>2, QuotesRead
  <2>5. \A k \in 1..Len(tokens') : Read(line, tokens'[k], f[k], e[k])
    BY <2>3, <2>4
  <2>6. Tiling(line, f, e, Len(tokens'), Len(line) + 1)
    BY <2>2, <2>3
  <2> QED
    BY <2>5, <2>6 DEF ReadTokens
<1>3. ASSUME TypealizeCallLoop, ReadTokens(line, tokens)
      PROVE  PartTokens(line, tokens', 1)
  <2>1. tokens' = [k \in DOMAIN tokens |-> Typealize(tokens[k])] /\ phase = "types"
    BY <1>3 DEF TypealizeCallLoop
  <2>2. PICK f, e : /\ Tiling(line, f, e, Len(tokens), Len(line) + 1)
                    /\ \A k \in 1..Len(tokens) : Read(line, tokens[k], f[k], e[k])
    BY <1>3 DEF ReadTokens
  <2>3. \A k \in DOMAIN tokens : tokens[k].type = "word" /\ <<tokens[k].type, tokens[k].rank>> \in Kinds
    BY <2>1 DEF WordInv, Shape, KindsOK
  <2>4. Len(tokens') = Len(tokens) /\ \A k \in 1..Len(tokens) : tokens'[k] = Typealize(tokens[k])
    <3>1. ASSUME NEW k \in DOMAIN tokens PROVE tokens'[k] = Typealize(tokens[k]) /\ tokens'[k] \in Token
      <4>1. tokens[k] \in Token /\ tokens[k].type = "word" /\ <<tokens[k].type, tokens[k].rank>> \in Kinds
        BY <1>1, <2>3
      <4>2. Typealize(tokens[k]) \in Token
        BY <4>1, TypealizeIs
      <4>3. tokens'[k] = Typealize(tokens[k])
        BY <2>1
      <4> QED
        BY <4>2, <4>3
    <3>2. tokens' = [k \in DOMAIN tokens |-> tokens'[k]]
      BY <2>1
    <3>3. Len(tokens') = Len(tokens)
      BY <1>1, <3>1, <3>2, MapKeeps
    <3> QED
      BY <1>1, <3>1, <3>3
  <2>5. ASSUME NEW k \in 1..Len(tokens) PROVE Part(line, Typealize(tokens[k]), f[k], e[k])
    <3>1. tokens[k] \in Token /\ k \in DOMAIN tokens
      BY <1>1
    <3>2. tokens[k].type = "word" /\ <<tokens[k].type, tokens[k].rank>> \in Kinds
      BY <2>3, <3>1
    <3>3. Read(line, tokens[k], f[k], e[k])
      BY <2>2
    <3> QED
      BY <3>1, <3>2, <3>3, TypesRead
  <2>6. \A k \in 1..Len(tokens') :
           /\ Part(line, tokens'[k], f[k], e[k])
           /\ k < 1 /\ Span(line, f[k], e[k]) => ~WordIn(line, e[k] + 1)
    <3>1. \A k \in 1..Len(tokens') : ~(k < 1)
      OBVIOUS
    <3> QED
      BY <2>4, <2>5, <3>1
  <2>7. Tiling(line, f, e, Len(tokens'), Len(line) + 1)
    BY <2>2, <2>4
  <2> QED
    BY <2>6, <2>7 DEF PartTokens
<1> QED
  BY <1>2, <1>3

\* A word that goes on behind its tile goes on in the next.
LEMMA NextTile ==
    ASSUME NEW s \in Text, NEW m \in Nat, NEW f, NEW e, Tiling(s, f, e, m, Len(s) + 1),
           NEW c \in 1..m, WordIn(s, e[c] + 1)
    PROVE  c < m /\ f[c + 1] = e[c] + 1
<1> DEFINE x == e[c] + 1
<1>1. x \in 1..Len(s) /\ ~SpaceIn(s, x) /\ Len(s) \in Nat
  BY DEF WordIn, Text
<1>2. /\ \A k \in 1..m : f[k] \in Nat /\ e[k] \in Nat /\ f[k] <= e[k]
      /\ \A i, k \in 1..m : i < k => e[i] < f[k]
      /\ \A j \in 1..(Len(s) + 1 - 1) : SpaceIn(s, j) \/ \E k \in 1..m : f[k] <= j /\ j <= e[k]
  BY DEF Tiling
<1>3. e[c] \in Nat
  BY <1>2
<1>4. PICK k \in 1..m : f[k] <= x /\ x <= e[k]
  <2>1. x \in 1..(Len(s) + 1 - 1)
    BY <1>1, <1>3
  <2> QED
    BY <1>1, <1>2, <2>1
<1>5. k > c
  <2>1. CASE k = c
    BY <1>3, <1>4, <2>1
  <2>2. CASE k < c
    <3>1. e[k] < f[c] /\ f[c] <= e[c] /\ e[k] \in Nat /\ f[c] \in Nat
      BY <1>2, <2>2
    <3> QED
      BY <1>3, <1>4, <3>1
  <2> QED
    BY <2>1, <2>2
<1>6. c < m /\ c + 1 \in 1..m
  BY <1>5
<1>7. e[c] < f[c + 1] /\ f[c + 1] <= e[c + 1] /\ f[c + 1] \in Nat /\ e[c + 1] \in Nat
  BY <1>2, <1>6
<1>8. k = c + 1
  <2>1. ASSUME k > c + 1 PROVE FALSE
    <3>1. e[c + 1] < f[k] /\ f[k] \in Nat
      BY <1>2, <1>6, <2>1
    <3> HIDE DEF x
    <3>2. x = e[c] + 1
      BY DEF x
    <3> QED
      BY <1>3, <1>4, <1>7, <3>1, <3>2
  <2> QED
    BY <1>5, <2>1
<1> QED
  BY <1>3, <1>4, <1>6, <1>7, <1>8

\* Two tiles of which one follows the other, as one.
LEMMA TilingJoins ==
    ASSUME NEW s, NEW m \in Nat, NEW f, NEW e, NEW upto \in Nat, Tiling(s, f, e, m, upto),
           NEW c \in 1..m, c < m, f[c + 1] = e[c] + 1
    PROVE  Tiling(s, [k \in 1..(m - 1) |-> IF k <= c THEN f[k] ELSE f[k + 1]],
                  [k \in 1..(m - 1) |-> IF k < c THEN e[k] ELSE e[k + 1]], m - 1, upto)
<1> DEFINE g == [k \in 1..(m - 1) |-> IF k <= c THEN f[k] ELSE f[k + 1]]
           h == [k \in 1..(m - 1) |-> IF k < c THEN e[k] ELSE e[k + 1]]
<1>1. /\ \A k \in 1..m : f[k] \in Nat /\ e[k] \in Nat /\ 1 <= f[k] /\ f[k] <= e[k] /\ e[k] < upto
      /\ \A i, k \in 1..m : i < k => e[i] < f[k]
      /\ \A j \in 1..(upto - 1) : SpaceIn(s, j) \/ \E k \in 1..m : f[k] <= j /\ j <= e[k]
  BY DEF Tiling
<1>2. \A k \in 1..(m - 1) : /\ k \in 1..m /\ k + 1 \in 1..m
                            /\ g[k] = IF k <= c THEN f[k] ELSE f[k + 1]
                            /\ h[k] = IF k < c THEN e[k] ELSE e[k + 1]
  OBVIOUS
<1>3. g \in [1..(m - 1) -> Nat] /\ h \in [1..(m - 1) -> Nat]
  BY <1>1, <1>2
<1>4. c \in 1..(m - 1) /\ c + 1 \in 1..m
  OBVIOUS
<1> HIDE DEF g, h
<1>5. f[c] <= e[c] /\ e[c] < f[c + 1] /\ f[c + 1] <= e[c + 1] /\ f[c] \in Nat /\ e[c] \in Nat /\ e[c + 1] \in Nat
      /\ f[c + 1] \in Nat
  BY <1>1, <1>4
<1>6. ASSUME NEW k \in 1..(m - 1) PROVE 1 <= g[k] /\ g[k] <= h[k] /\ h[k] < upto
  <2>1. CASE k < c
    BY <1>1, <1>2, <2>1
  <2>2. CASE k = c
    <3>1. g[k] = f[c] /\ h[k] = e[c + 1]
      BY <1>2, <2>2
    <3>2. 1 <= f[c] /\ e[c + 1] < upto
      BY <1>1, <1>4
    <3> QED
      BY <1>5, <3>1, <3>2
  <2>3. CASE k > c
    <3>1. g[k] = f[k + 1] /\ h[k] = e[k + 1] /\ k + 1 \in 1..m
      BY <1>2, <2>3
    <3> QED
      BY <1>1, <3>1
  <2> QED
    BY <2>1, <2>2, <2>3
<1>7. ASSUME NEW i \in 1..(m - 1), NEW k \in 1..(m - 1), i < k PROVE h[i] < g[k]
  <2> DEFINE p == IF i < c THEN i ELSE i + 1
             q == IF k <= c THEN k ELSE k + 1
  <2>1. h[i] = e[p] /\ g[k] = f[q] /\ p \in 1..m /\ q \in 1..m /\ p < q
    BY <1>2, <1>7
  <2> HIDE DEF p, q
  <2> QED
    BY <1>1, <2>1
<1>8. ASSUME NEW j \in 1..(upto - 1), ~SpaceIn(s, j)
      PROVE  \E k \in 1..(m - 1) : g[k] <= j /\ j <= h[k]
  <2>1. PICK k \in 1..m : f[k] <= j /\ j <= e[k]
    BY <1>1, <1>8
  <2>2. CASE k < c
    <3>1. k \in 1..(m - 1) /\ g[k] = f[k] /\ h[k] = e[k]
      BY <1>2, <2>2
    <3> QED
      BY <2>1, <3>1
  <2>3. CASE k = c \/ k = c + 1
    <3>1. g[c] = f[c] /\ h[c] = e[c + 1]
      BY <1>2, <1>4
    <3>2. f[c] <= j /\ j <= e[c + 1]
      BY <1>5, <2>1, <2>3
    <3> QED
      BY <1>4, <3>1, <3>2
  <2>4. CASE k > c + 1
    <3>1. k - 1 \in 1..(m - 1) /\ ~(k - 1 <= c) /\ ~(k - 1 < c) /\ (k - 1) + 1 = k
      BY <2>4
    <3>2. g[k - 1] = f[k] /\ h[k - 1] = e[k]
      BY <1>2, <3>1
    <3> QED
      BY <2>1, <3>1, <3>2
  <2> QED
    BY <2>2, <2>3, <2>4
<1>9. Tiling(s, g, h, m - 1, upto)
  BY <1>3, <1>6, <1>7, <1>8 DEF Tiling
<1> QED
  BY <1>9 DEF g, h

\* No place is in a word and in an operator.
LEMMA WordOrOp ==
    ASSUME NEW s, NEW a \in Nat, NEW b \in Nat, a <= b, OpTile(s, a, b)
    PROVE  ~Span(s, a, b) /\ ~WordIn(s, a)
<1>1. a \in a..b
  OBVIOUS
<1> QED
  BY <1>1 DEF OpTile, Span, WordIn

\* Two parts of a word of which one follows the other, joined.
LEMMA PartJoins ==
    ASSUME NEW s \in Text, NEW t \in Token, NEW u \in Token, NEW n \in Token,
           NEW a \in Nat \ {0}, NEW b \in Nat, NEW d \in Nat, a <= b, b + 1 <= d, d <= Len(s),
           Part(s, t, a, b), Part(s, u, b + 1, d), ~IsOperator(t), ~IsOperator(u),
           n.type = t.type, n.literal = t.literal, n.value = t.value \o u.value, n.join = u.join
    PROVE  Part(s, n, a, d)
<1>1. /\ SpellsIn(s, t.value, (a..b) \ MarksIn(s)) /\ Span(s, a, b) /\ (s[a] = "'" => t.literal)
      /\ SpellsIn(s, u.value, ((b + 1)..d) \ MarksIn(s)) /\ Span(s, b + 1, d)
      /\ u.join <=> WordIn(s, d + 1)
  BY DEF Part
<1>2. Span(s, a, d)
  <2>1. \A j \in a..d : j \in a..b \/ j \in (b + 1)..d
    OBVIOUS
  <2> QED
    BY <1>1, <2>1 DEF Span
<1>3. ~IsOperator(n)
  BY DEF IsOperator
<1>4. SpellsIn(s, n.value, (a..d) \ MarksIn(s))
  <2> DEFINE A == (a..b) \ MarksIn(s)
             B == ((b + 1)..d) \ MarksIn(s)
  <2>1. A \cup B = (a..d) \ MarksIn(s)
    <3>1. \A j : j \in a..d <=> j \in a..b \/ j \in (b + 1)..d
      OBVIOUS
    <3> QED
      BY <3>1
  <2>2. A \in SUBSET Nat /\ IsFiniteSet(A) /\ B \in SUBSET Nat /\ IsFiniteSet(B)
    <3>1. a..b \in SUBSET Nat /\ (b + 1)..d \in SUBSET Nat
      OBVIOUS
    <3>2. IsFiniteSet(a..b) /\ IsFiniteSet((b + 1)..d)
      <4>1. a \in Int /\ b \in Int /\ b + 1 \in Int /\ d \in Int
        OBVIOUS
      <4> QED
        BY <4>1, FS_Interval
    <3>3. IsFiniteSet(A) /\ IsFiniteSet(B)
      BY <3>2, FS_Difference
    <3> QED
      BY <3>1, <3>3
  <2>3. \A i \in A, j \in B : i < j
    OBVIOUS
  <2>4. t.value \in Text /\ u.value \in Text
    BY DEF Token
  <2> HIDE DEF A, B
  <2>5. SpellsIn(s, t.value, A) /\ SpellsIn(s, u.value, B)
    BY <1>1 DEF A, B
  <2>6. SpellsIn(s, t.value \o u.value, A \cup B)
    BY <2>2, <2>3, <2>4, <2>5, JoinedSpells
  <2> QED
    BY <2>1, <2>6
<1> QED
  BY <1>1, <1>2, <1>3, <1>4 DEF Part

\* The list after tokens c and c + 1 were joined.
Merged(new, ts, c) ==
    \A k \in 1..Len(new) :
        /\ k < c => new[k] = ts[k]
        /\ k = c => /\ new[k].type = ts[k].type /\ new[k].literal = ts[k].literal
                    /\ new[k].value = ts[k].value \o ts[k + 1].value
                    /\ new[k].join = ts[k + 1].join
        /\ k > c => new[k] = ts[k + 1]

\* What perform_quote_concatenation makes of them.
LEMMA MergedIs ==
    ASSUME NEW ts \in Seq(Token), NEW c \in 1..Len(ts), c < Len(ts)
    PROVE  LET new == RemoveAt([ts EXCEPT ![c].value = @ \o ts[c + 1].value,
                                          ![c].join = ts[c + 1].join], c + 1)
           IN  new \in Seq(Token) /\ Len(new) = Len(ts) - 1 /\ Merged(new, ts, c)
<1> DEFINE new == RemoveAt([ts EXCEPT ![c].value = @ \o ts[c + 1].value,
                                      ![c].join = ts[c + 1].join], c + 1)
<1>1. /\ new \in Seq(Token) /\ Len(new) = Len(ts) - 1
      /\ \A k \in 1..Len(new) :
            IF k < c THEN new[k] = ts[k]
            ELSE IF k = c THEN /\ new[k].type = ts[k].type /\ new[k].rank = ts[k].rank
                               /\ new[k].err = ts[k].err /\ new[k].literal = ts[k].literal
                               /\ new[k].value = ts[k].value \o ts[k + 1].value
                               /\ new[k].join = ts[k + 1].join
            ELSE new[k] = ts[k + 1]
  BY JoinedIs
<1> HIDE DEF new
<1>2. ASSUME NEW k \in 1..Len(new)
      PROVE  /\ k < c => new[k] = ts[k]
             /\ k = c => /\ new[k].type = ts[k].type /\ new[k].literal = ts[k].literal
                         /\ new[k].value = ts[k].value \o ts[k + 1].value
                         /\ new[k].join = ts[k + 1].join
             /\ k > c => new[k] = ts[k + 1]
  <2> DEFINE last == new[k] = ts[k + 1]
             first == new[k] = ts[k]
             both == /\ new[k].type = ts[k].type /\ new[k].rank = ts[k].rank
                     /\ new[k].err = ts[k].err /\ new[k].literal = ts[k].literal
                     /\ new[k].value = ts[k].value \o ts[k + 1].value
                     /\ new[k].join = ts[k + 1].join
  <2>1. IF k < c THEN first ELSE IF k = c THEN both ELSE last
    BY <1>1
  <2>2. k \in Int /\ c \in Int
    OBVIOUS
  <2> HIDE DEF first, both, last
  <2>3. (k < c => first) /\ (k = c => both) /\ (k > c => last)
    BY <2>1, <2>2
  <2> QED
    BY <2>3 DEF first, both, last
<1>3. Merged(new, ts, c)
  BY <1>2 DEF Merged
<1> QED
  BY <1>1, <1>3 DEF new

\* Two tokens that touch, joined.
LEMMA JoinedParts ==
    ASSUME NEW s \in Text, NEW ts \in Seq(Token), NEW new \in Seq(Token), NEW c \in 1..Len(ts),
           c < Len(ts), PartTokens(s, ts, c), ts[c].join, ~IsOperator(ts[c]), ~IsOperator(ts[c + 1]),
           Len(new) = Len(ts) - 1, Merged(new, ts, c)
    PROVE  PartTokens(s, new, c)
<1> DEFINE m == Len(ts)
<1>1. PICK f, e : /\ Tiling(s, f, e, Len(ts), Len(s) + 1)
                  /\ \A k \in 1..Len(ts) :
                        /\ Part(s, ts[k], f[k], e[k])
                        /\ k < c /\ Span(s, f[k], e[k]) => ~WordIn(s, e[k] + 1)
  BY DEF PartTokens
<1>2. m \in Nat /\ c + 1 \in 1..m /\ Len(s) + 1 \in Nat
  BY DEF Text
<1> DEFINE g == [k \in 1..(m - 1) |-> IF k <= c THEN f[k] ELSE f[k + 1]]
           h == [k \in 1..(m - 1) |-> IF k < c THEN e[k] ELSE e[k + 1]]
<1>3. \A k \in 1..m : f[k] \in Nat \ {0} /\ e[k] \in Nat /\ f[k] <= e[k] /\ e[k] <= Len(s)
  BY <1>1, <1>2, TileIn
<1>4. WordIn(s, e[c] + 1)
  BY <1>1 DEF Part
<1>5. f[c + 1] = e[c] + 1
  BY <1>1, <1>2, <1>4, NextTile
<1>6. Tiling(s, g, h, m - 1, Len(s) + 1)
  <2>1. Tiling(s, f, e, m, Len(s) + 1)
    BY <1>1
  <2>2. c \in 1..m /\ c < m
    OBVIOUS
  <2> HIDE DEF m
  <2> QED
    BY <1>2, <1>5, <2>1, <2>2, TilingJoins
<1>7. \A k \in 1..(m - 1) : /\ g[k] = IF k <= c THEN f[k] ELSE f[k + 1]
                            /\ h[k] = IF k < c THEN e[k] ELSE e[k + 1]
  OBVIOUS
<1> HIDE DEF g, h
<1>8. ASSUME NEW k \in 1..(m - 1)
      PROVE  /\ Part(s, new[k], g[k], h[k])
             /\ k < c /\ Span(s, g[k], h[k]) => ~WordIn(s, h[k] + 1)
  <2>1. k \in 1..m /\ k + 1 \in 1..m /\ k \in 1..Len(new)
    BY <1>2
  <2>2. CASE k < c
    <3>1. g[k] = f[k] /\ h[k] = e[k]
      BY <1>7, <2>2
    <3>2. new[k] = ts[k]
      BY <2>1, <2>2 DEF Merged
    <3> QED
      BY <1>1, <2>1, <3>1, <3>2
  <2>3. CASE k = c
    <3>1. g[k] = f[c] /\ h[k] = e[c + 1] /\ ~(k < c)
      BY <1>7, <2>3
    <3>2. /\ new[k].type = ts[c].type /\ new[k].literal = ts[c].literal
          /\ new[k].value = ts[c].value \o ts[c + 1].value
          /\ new[k].join = ts[c + 1].join
      BY <2>1, <2>3 DEF Merged
    <3>3. ts[c] \in Token /\ ts[c + 1] \in Token /\ new[k] \in Token
      BY <1>2, <2>1
    <3>4. Part(s, ts[c], f[c], e[c]) /\ Part(s, ts[c + 1], e[c] + 1, e[c + 1])
      BY <1>1, <1>2, <1>5
    <3>5. /\ f[c] \in Nat \ {0} /\ e[c] \in Nat /\ e[c + 1] \in Nat
          /\ f[c] <= e[c] /\ e[c] + 1 <= e[c + 1] /\ e[c + 1] <= Len(s)
      <4>1. f[c + 1] <= e[c + 1] /\ e[c + 1] \in Nat /\ e[c + 1] <= Len(s)
        BY <1>2, <1>3
      <4> QED
        BY <1>3, <1>5, <4>1
    <3>6. Part(s, new[k], f[c], e[c + 1])
      BY <3>2, <3>3, <3>4, <3>5, PartJoins
    <3> QED
      BY <3>1, <3>6
  <2>4. CASE k > c
    <3>1. g[k] = f[k + 1] /\ h[k] = e[k + 1] /\ ~(k < c)
      BY <1>7, <2>4
    <3>2. new[k] = ts[k + 1]
      BY <2>1, <2>4 DEF Merged
    <3> QED
      BY <1>1, <2>1, <3>1, <3>2
  <2> QED
    BY <2>2, <2>3, <2>4
<1>9. Tiling(s, g, h, Len(new), Len(s) + 1)
  BY <1>6
<1>10. \A k \in 1..Len(new) : /\ Part(s, new[k], g[k], h[k])
                              /\ k < c /\ Span(s, g[k], h[k]) => ~WordIn(s, h[k] + 1)
  BY <1>8
<1> HIDE DEF m
<1> QED
  BY <1>9, <1>10 DEF PartTokens

\* A token that is not joined ends a word.
LEMMA NotJoined ==
    ASSUME NEW s \in Text, NEW ts \in Seq(Token), NEW c \in 1..Len(ts), PartTokens(s, ts, c),
           ~(ts[c].join /\ c < Len(ts) /\ ~IsOperator(ts[c]) /\ ~IsOperator(ts[c + 1]))
    PROVE  PartTokens(s, ts, c + 1)
<1>1. PICK f, e : /\ Tiling(s, f, e, Len(ts), Len(s) + 1)
                  /\ \A k \in 1..Len(ts) :
                        /\ Part(s, ts[k], f[k], e[k])
                        /\ k < c /\ Span(s, f[k], e[k]) => ~WordIn(s, e[k] + 1)
  BY DEF PartTokens
<1>2. \A k \in 1..Len(ts) : f[k] \in Nat \ {0} /\ e[k] \in Nat /\ f[k] <= e[k] /\ e[k] <= Len(s)
  BY <1>1, TileIn
<1>3. ASSUME Span(s, f[c], e[c]), WordIn(s, e[c] + 1) PROVE FALSE
  <2>1. ~OpTile(s, f[c], e[c])
    BY <1>2, <1>3, WordOrOp
  <2>2. ts[c].join /\ ~IsOperator(ts[c])
    BY <1>1, <1>3, <2>1 DEF Part
  <2>3. c < Len(ts) /\ f[c + 1] = e[c] + 1
    BY <1>1, <1>3, NextTile
  <2>4. c + 1 \in 1..Len(ts)
    BY <2>3
  <2>5. ~OpTile(s, f[c + 1], e[c + 1])
    BY <1>2, <1>3, <2>3, <2>4, WordOrOp
  <2>6. ~IsOperator(ts[c + 1])
    BY <1>1, <2>4, <2>5 DEF Part
  <2> QED
    BY <2>2, <2>3, <2>6
<1>4. \A k \in 1..Len(ts) : /\ Part(s, ts[k], f[k], e[k])
                            /\ k < c + 1 /\ Span(s, f[k], e[k]) => ~WordIn(s, e[k] + 1)
  <2>1. \A k \in 1..Len(ts) : k < c + 1 => k < c \/ k = c
    OBVIOUS
  <2> QED
    BY <1>1, <1>3, <2>1
<1> QED
  BY <1>1, <1>4 DEF PartTokens

\* perform_quote_concatenation.
LEMMA JoinReads ==
    ASSUME IInv, WordInv, PartTokens(line, tokens, cur)
    PROVE  /\ PerformQuoteConcatenation => PartTokens(line, tokens', cur')
           /\ JoinEnds => WholeTokens(line, tokens')
<1>1. /\ line \in Text /\ Len(tokens) \in Nat /\ tokens \in Seq(Token) /\ cur \in 1..(Len(tokens) + 1)
  BY WordFacts
<1>2. ASSUME PerformQuoteConcatenation PROVE PartTokens(line, tokens', cur')
  <2>1. cur \in 1..Len(tokens)
    BY <1>1, <1>2 DEF PerformQuoteConcatenation
  <2>2. CASE tokens[cur].join /\ cur < Len(tokens) /\ ~IsOperator(tokens[cur]) /\ ~IsOperator(tokens[cur + 1])
    <3> DEFINE new == RemoveAt([tokens EXCEPT ![cur].value = @ \o tokens[cur + 1].value,
                                              ![cur].join = tokens[cur + 1].join], cur + 1)
    <3>1. tokens' = new /\ cur' = cur
      BY <1>2, <2>2 DEF PerformQuoteConcatenation
    <3>2. new \in Seq(Token) /\ Len(new) = Len(tokens) - 1 /\ Merged(new, tokens, cur)
      BY <1>1, <2>1, <2>2, MergedIs
    <3> HIDE DEF new
    <3>3. PartTokens(line, new, cur)
      BY <1>1, <2>1, <2>2, <3>2, JoinedParts
    <3> QED
      BY <3>1, <3>3
  <2>3. CASE ~(tokens[cur].join /\ cur < Len(tokens) /\ ~IsOperator(tokens[cur]) /\ ~IsOperator(tokens[cur + 1]))
    <3>1. tokens' = tokens /\ cur' = cur + 1
      BY <1>2, <2>3 DEF PerformQuoteConcatenation
    <3>2. PartTokens(line, tokens, cur + 1)
      BY <1>1, <2>1, <2>3, NotJoined
    <3> QED
      BY <3>1, <3>2
  <2> QED
    BY <2>2, <2>3
<1>3. ASSUME JoinEnds PROVE WholeTokens(line, tokens')
  <2>1. tokens' = tokens /\ cur > Len(tokens)
    BY <1>3 DEF JoinEnds
  <2>2. PICK f, e : /\ Tiling(line, f, e, Len(tokens), Len(line) + 1)
                    /\ \A k \in 1..Len(tokens) :
                          /\ Part(line, tokens[k], f[k], e[k])
                          /\ k < cur /\ Span(line, f[k], e[k]) => ~WordIn(line, e[k] + 1)
    BY DEF PartTokens
  <2>3. \A k \in 1..Len(tokens) : k < cur
    BY <1>1, <2>1
  <2>4. \A k \in 1..Len(tokens) : Whole(line, tokens[k], f[k], e[k])
    BY <2>2, <2>3 DEF Part, Whole
  <2>5. WholeTokens(line, tokens)
    BY <2>2, <2>4 DEF WholeTokens
  <2> QED
    BY <2>1, <2>5
<1> QED
  BY <1>2, <1>3

-----------------------------------------------------------------------------
(***************************************************************************)
(* Whole words stay what they are.                                         *)
(***************************************************************************)
\* What changes neither the text of a token, nor its quotes, nor whether it is an
\* operator, leaves the words whole.
LEMMA WholeKept ==
    ASSUME NEW s, NEW ts, NEW new, Len(new) = Len(ts),
           \A k \in 1..Len(ts) : /\ new[k].value = ts[k].value /\ new[k].literal = ts[k].literal
                                 /\ IsOperator(new[k]) <=> IsOperator(ts[k]),
           WholeTokens(s, ts)
    PROVE  WholeTokens(s, new)
<1>1. PICK f, e : /\ Tiling(s, f, e, Len(ts), Len(s) + 1)
                  /\ \A k \in 1..Len(ts) : Whole(s, ts[k], f[k], e[k])
  BY DEF WholeTokens
<1>2. \A k \in 1..Len(new) : Whole(s, new[k], f[k], e[k])
  <2> SUFFICES ASSUME NEW k \in 1..Len(ts) PROVE Whole(s, new[k], f[k], e[k])
    OBVIOUS
  <2>1. Whole(s, ts[k], f[k], e[k])
    BY <1>1
  <2> QED
    BY <2>1 DEF Whole
<1> QED
  BY <1>1, <1>2 DEF WholeTokens

\* apply_variable_assignment: no operator is an assignment.
LEMMA AssignWhole ==
    ASSUME IInv, WordInv, WholeTokens(line, tokens), ApplyVariableAssignment
    PROVE  WholeTokens(line, tokens')
<1>1. /\ Len(tokens) \in Nat /\ DOMAIN tokens = 1..Len(tokens) /\ tokens \in Seq(Token)
      /\ cur \in 1..(Len(tokens) + 1)
  BY WordFacts
<1>2. /\ tokens' = [tokens EXCEPT ![cur].type = "assignment"] /\ cur <= Len(tokens)
      /\ IsValidAssignment(tokens[cur].value) /\ phase = "assign"
  BY DEF ApplyVariableAssignment
<1>3. cur \in 1..Len(tokens) /\ tokens[cur] \in Token /\ tokens[cur].value \in Text
  <2>1. cur \in 1..Len(tokens)
    BY <1>1, <1>2
  <2>2. tokens[cur] \in Token
    BY <1>1, <2>1
  <2> QED
    BY <2>1, <2>2 DEF Token
<1>4. ~IsOperator(tokens[cur])
  <2>1. tokens[cur].value \notin OperatorValues
    BY <1>2, <1>3, AssignmentIs
  <2> QED
    BY <1>1, <1>2, <1>3, <2>1 DEF WordInv, Shape
<1> DEFINE t == [tokens[cur] EXCEPT !.type = "assignment"]
<1>5. t.value = tokens[cur].value /\ t.literal = tokens[cur].literal /\ t.type = "assignment"
  BY <1>3 DEF Token
<1>6. ~IsOperator(t)
  BY <1>5 DEF IsOperator
<1>7. tokens' = [tokens EXCEPT ![cur] = t]
  BY <1>2
<1> HIDE DEF t
<1>8. Len(tokens') = Len(tokens) /\ \A k \in 1..Len(tokens) : tokens'[k] = IF k = cur THEN t ELSE tokens[k]
  BY <1>1, <1>7
<1>9. \A k \in 1..Len(tokens) : /\ tokens'[k].value = tokens[k].value
                                /\ tokens'[k].literal = tokens[k].literal
                                /\ IsOperator(tokens'[k]) <=> IsOperator(tokens[k])
  BY <1>4, <1>5, <1>6, <1>8
<1> QED
  BY <1>8, <1>9, WholeKept

\* parser_cmd_no_found.
LEMMA FoundWhole ==
    ASSUME IInv, WordInv, WholeTokens(line, tokens), ParserCmdNoFound
    PROVE  WholeTokens(line, tokens')
<1>1. /\ Len(tokens) \in Nat /\ DOMAIN tokens = 1..Len(tokens) /\ tokens \in Seq(Token)
  BY WordFacts
<1>2. tokens' = [k \in DOMAIN tokens |-> CommandOrWord(tokens[k])]
  BY DEF ParserCmdNoFound
<1>3. ASSUME NEW k \in DOMAIN tokens
      PROVE  /\ tokens'[k] \in Token /\ tokens'[k].value = tokens[k].value
             /\ tokens'[k].literal = tokens[k].literal
             /\ IsOperator(tokens'[k]) <=> IsOperator(tokens[k])
  <2>1. tokens[k] \in Token /\ <<tokens[k].type, tokens[k].rank>> \in Kinds
    BY <1>1 DEF WordInv, KindsOK
  <2>2. tokens'[k] = CommandOrWord(tokens[k])
    BY <1>2
  <2>3. CommandOrWord(tokens[k]).literal = tokens[k].literal
    BY <2>1 DEF CommandOrWord, As, Token
  <2>4. /\ CommandOrWord(tokens[k]) \in Token /\ CommandOrWord(tokens[k]).value = tokens[k].value
        /\ IsOperator(CommandOrWord(tokens[k])) <=> IsOperator(tokens[k])
    BY <2>1, CommandOrWordIs
  <2> QED
    BY <2>2, <2>3, <2>4
<1>4. tokens' = [k \in DOMAIN tokens |-> tokens'[k]]
  BY <1>2
<1>5. Len(tokens') = Len(tokens)
  BY <1>1, <1>3, <1>4, MapKeeps
<1> QED
  BY <1>1, <1>3, <1>5, WholeKept

-----------------------------------------------------------------------------
(***************************************************************************)
(* The expander at work on a text without references.                      *)
(***************************************************************************)
\* p is the place it is at, r what it has copied, st how far it is.
Copying(v, i, p, rest, r, st) ==
    /\ i = v /\ NoDollar(v) /\ rest = <<>>
    /\ st = "on" => Len(r) = p - 1 /\ \A k \in 1..(p - 1) : r[k] = v[k]
    /\ st = "done" => Len(r) = Len(v) + 1 /\ \A k \in 1..Len(v) : r[k] = v[k]

\* A turn copies a character, or the terminator, or fails.
LEMMA CopyGoesOn ==
    ASSUME IInv, NEW v \in Text, Copying(v, input, pos, pending, result, run), ExpNext
    PROVE  Copying(v, input', pos', pending', result', run')
<1>1. /\ input = v /\ NoDollar(v) /\ pending = <<>>
      /\ run = "on" => Len(result) = pos - 1 /\ \A k \in 1..(pos - 1) : result[k] = v[k]
  BY DEF Copying
<1>2. Len(v) \in Nat /\ DOMAIN v = 1..Len(v) /\ pos \in 1..(Len(v) + 1)
      /\ result \in Seq(Char \cup {NUL})
  BY <1>1 DEF IInv, ExpTypeOK, Text
<1>3. /\ pos \in 1..Len(v) => Here = v[pos] /\ Here # "$" /\ Here \in Char
      /\ pos = Len(v) + 1 => Here = NUL
  <2>1. pos \in 1..Len(v) => v[pos] # "$" /\ v[pos] \in Char
    BY <1>1, <1>2 DEF NoDollar, Text
  <2>2. pos = Len(v) + 1 => pos \notin DOMAIN v
    BY <1>2
  <2> QED
    BY <1>1, <1>2, <2>1, <2>2 DEF Here, CharAt
<1>4. pos \in 1..Len(v) \/ pos = Len(v) + 1
  BY <1>2
<1>5. Here # "$"
  <2>1. NUL # "$"
    BY CharAssumption DEF Char
  <2> QED
    BY <1>3, <1>4, <2>1
<1>6. AppendNormalChar \/ Terminate
  BY <1>1, <1>5 DEF ExpNext, HandleExitStatus, HandleVariable, HandleBraces, DollarAlone, AppendValue
<1>7. CASE AppendNormalChar
  <2>1. pos \in 1..Len(v) /\ Here = v[pos] /\ run = "on" /\ Here \in Char
    BY <1>3, <1>4, <1>7 DEF AppendNormalChar, Turn
  <2>2. input' = v /\ pending' = <<>>
    BY <1>1, <1>7 DEF AppendNormalChar, AppendOrFail
  <2>3. CASE run' = "failed"
    BY <1>1, <2>2, <2>3 DEF Copying
  <2>4. CASE AppendChar(Here) /\ pos' = pos + 1 /\ run' = run
    <3>1. result' = Append(result, v[pos])
      BY <2>1, <2>4 DEF AppendChar
    <3>2. v[pos] \in Char \cup {NUL}
      BY <2>1
    <3>3. Len(result) = pos - 1 /\ \A k \in 1..(pos - 1) : result[k] = v[k]
      BY <1>1, <2>1
    <3>4. Len(result') = Len(result) + 1 /\ \A k \in 1..(Len(result) + 1) :
              result'[k] = IF k = Len(result) + 1 THEN v[pos] ELSE result[k]
      BY <1>2, <3>1, <3>2
    <3>5. ASSUME NEW k \in 1..pos PROVE result'[k] = v[k]
      <4>1. k \in 1..(Len(result) + 1) /\ (k = Len(result) + 1 => k = pos) /\ (k # Len(result) + 1 => k \in 1..(pos - 1))
        BY <2>1, <3>3
      <4> QED
        BY <3>3, <3>4, <4>1
    <3>6. Len(result') = pos' - 1 /\ pos' - 1 = pos
      BY <2>1, <2>4, <3>3, <3>4
    <3> QED
      BY <1>1, <2>1, <2>2, <2>4, <3>5, <3>6 DEF Copying
  <2> QED
    BY <1>7, <2>3, <2>4 DEF AppendNormalChar, AppendOrFail
<1>8. CASE Terminate
  <2>1. pos = Len(v) + 1 /\ run = "on"
    <3>1. NUL \notin Char
      BY CharAssumption
    <3> QED
      BY <1>3, <1>4, <1>8, <3>1 DEF Terminate, Turn
  <2>2. input' = v /\ pending' = <<>>
    BY <1>1, <1>8 DEF Terminate
  <2>3. CASE run' = "failed"
    BY <1>1, <2>2, <2>3 DEF Copying
  <2>4. CASE AppendChar(NUL) /\ run' = "done"
    <3>1. result' = Append(result, NUL)
      BY <2>4 DEF AppendChar
    <3>2. Len(result) = Len(v) /\ \A k \in 1..Len(v) : result[k] = v[k]
      <4>1. pos - 1 = Len(v)
        BY <1>2, <2>1
      <4> QED
        BY <1>1, <2>1, <4>1
    <3>3. NUL \in Char \cup {NUL}
      OBVIOUS
    <3>4. Len(result') = Len(result) + 1 /\ \A k \in 1..Len(result) : result'[k] = result[k]
      BY <1>2, <3>1, <3>3
    <3> QED
      BY <1>1, <2>2, <2>4, <3>2, <3>4 DEF Copying
  <2> QED
    BY <1>8, <2>3, <2>4 DEF Terminate
<1> QED
  BY <1>6, <1>7, <1>8

\* A token of whole words that is given to the expander has no references.
LEMMA NothingToFind ==
    ASSUME IInv, WordInv, Literally(line), WholeTokens(line, tokens),
           NEW k \in 1..Len(tokens), ~tokens[k].literal
    PROVE  tokens[k].value \in Text /\ NoDollar(tokens[k].value)
<1>1. line \in Text /\ Len(tokens) \in Nat /\ tokens \in Seq(Token)
  BY WordFacts
<1>2. PICK f, e : /\ Tiling(line, f, e, Len(tokens), Len(line) + 1)
                  /\ \A i \in 1..Len(tokens) : Whole(line, tokens[i], f[i], e[i])
  BY DEF WholeTokens
<1>3. WordTiles(line, f, e, Len(tokens))
  <2>1. ASSUME NEW i \in 1..Len(tokens)
        PROVE  \/ OpTile(line, f[i], e[i])
               \/ Span(line, f[i], e[i]) /\ ~WordIn(line, e[i] + 1)
    <3>1. Whole(line, tokens[i], f[i], e[i])
      BY <1>2
    <3> QED
      BY <3>1 DEF Whole
  <2> QED
    BY <2>1, Zenon DEF WordTiles
<1>4. \A i \in 1..Len(tokens[k].value) : tokens[k].value[i] # "$"
  <2>1. Whole(line, tokens[k], f[k], e[k])
    BY <1>2
  <2> QED
    BY <1>1, <1>2, <1>3, <2>1, NothingIn
<1>5. tokens[k] \in Token
  BY <1>1
<1> QED
  BY <1>4, <1>5 DEF NoDollar, Token

\* A call of the expander.
LEMMA CopyStarts ==
    ASSUME IInv, WordInv, Literally(line), WholeTokens(line, tokens), ExpandToken
    PROVE  Copying(tokens[cur].value, input', pos', pending', result', run')
<1>1. cur \in 1..Len(tokens) /\ ~tokens[cur].literal
  <2>1. cur \in 1..(Len(tokens) + 1) /\ Len(tokens) \in Nat
    BY WordFacts
  <2> QED
    BY <2>1 DEF ExpandToken, IsExpanded
<1>2. NoDollar(tokens[cur].value)
  BY <1>1, NothingToFind
<1>3. /\ input' = tokens[cur].value /\ pos' = 1 /\ pending' = <<>> /\ result' = <<>> /\ run' = "on"
  BY DEF ExpandToken, ExpVarInit
<1>4. Len(result') = pos' - 1 /\ \A k \in 1..(pos' - 1) : result'[k] = tokens[cur].value[k]
  BY <1>3
<1> QED
  BY <1>2, <1>3, <1>4 DEF Copying

\* The token gets its own text back.
LEMMA StoreWhole ==
    ASSUME IInv, TurnInv, WordInv, WholeTokens(line, tokens), StoreExpansion,
           Copying(tokens[cur].value, input, pos, pending, result, run)
    PROVE  WholeTokens(line, tokens')
<1>1. /\ Len(tokens) \in Nat /\ DOMAIN tokens = 1..Len(tokens) /\ tokens \in Seq(Token)
  BY WordFacts
<1>2. /\ phase = "expanding"
      /\ tokens' = IF run = "done" THEN [tokens EXCEPT ![cur].value = Front(result)] ELSE tokens
  BY DEF StoreExpansion
<1>3. cur \in 1..Len(tokens) /\ tokens[cur] \in Token /\ tokens[cur].value \in Text
  <2>1. cur \in 1..Len(tokens)
    BY <1>1, <1>2 DEF WordInv, Shape
  <2>2. tokens[cur] \in Token
    BY <1>1, <2>1
  <2> QED
    BY <2>1, <2>2 DEF Token
<1>4. ASSUME run = "done" PROVE Front(result) = tokens[cur].value
  <2>1. PICK t \in Text : result = Append(t, NUL)
    BY <1>4 DEF TurnInv
  <2>2. t \in Seq(Char \cup {NUL}) /\ NUL \in Char \cup {NUL} /\ t \in Seq(Char) /\ Len(t) \in Nat
    BY DEF Text
  <2>3. /\ Append(t, NUL) \in Seq(Char \cup {NUL}) /\ Len(Append(t, NUL)) = Len(t) + 1
        /\ \A i \in 1..Len(t) : Append(t, NUL)[i] = t[i]
    BY <2>2
  <2>4. Front(result) = t
    <3>1. Len(t) + 1 - 1 = Len(t) /\ Len(t) <= Len(t) + 1
      BY <2>2
    <3>2. Front(result) = SubSeq(result, 1, Len(t))
      BY <2>1, <2>3, <3>1 DEF Front
    <3> QED
      BY <2>1, <2>2, <2>3, <3>1, <3>2
  <2> DEFINE v == tokens[cur].value
  <2>5. Len(result) = Len(v) + 1 /\ \A k \in 1..Len(v) : result[k] = v[k]
    BY <1>4 DEF Copying
  <2>6. v \in Seq(Char) /\ Len(v) \in Nat
    BY <1>3 DEF Text
  <2> HIDE DEF v
  <2>7. Len(t) = Len(v) /\ \A k \in 1..Len(t) : t[k] = v[k]
    <3>1. Len(t) = Len(v)
      BY <2>1, <2>2, <2>3, <2>5, <2>6
    <3> QED
      BY <2>1, <2>3, <2>5, <3>1
  <2>8. t = v
    BY <2>2, <2>6, <2>7, SameText
  <2> QED
    BY <2>4, <2>8 DEF v
<1>5. Len(tokens') = Len(tokens)
      /\ \A k \in 1..Len(tokens) : /\ tokens'[k].value = tokens[k].value
                                   /\ tokens'[k].literal = tokens[k].literal
                                   /\ IsOperator(tokens'[k]) <=> IsOperator(tokens[k])
  <2>1. CASE run = "done"
    <3> DEFINE t == [tokens[cur] EXCEPT !.value = Front(result)]
    <3>1. t.value = tokens[cur].value /\ t.literal = tokens[cur].literal /\ t.type = tokens[cur].type
      BY <1>3, <1>4, <2>1 DEF Token
    <3>2. tokens' = [tokens EXCEPT ![cur] = t]
      BY <1>2, <2>1
    <3> HIDE DEF t
    <3>3. Len(tokens') = Len(tokens) /\ \A k \in 1..Len(tokens) : tokens'[k] = IF k = cur THEN t ELSE tokens[k]
      BY <1>1, <3>2
    <3> QED
      BY <3>1, <3>3 DEF IsOperator
  <2>2. CASE run # "done"
    BY <1>2, <2>2
  <2> QED
    BY <2>1, <2>2
<1> QED
  BY <1>5, WholeKept

-----------------------------------------------------------------------------
(***************************************************************************)
(* The words of a line, in each function of input_handler.                 *)
(***************************************************************************)
LiteralInv ==
    /\ phase \in {"split", "quotes", "types"} => cur = 1
    /\ Literally(line) =>
          /\ phase = "split"  => SplitUpTo(line, tokens, start)
          /\ phase = "quotes" => RawTokens(line, tokens, Len(line) + 1)
          /\ phase = "types"  => ReadTokens(line, tokens)
          /\ phase = "join"   => PartTokens(line, tokens, cur)
          /\ phase \in {"assign", "expand", "expanding", "ready"} => WholeTokens(line, tokens)
          /\ phase = "expanding" => Copying(tokens[cur].value, input, pos, pending, result, run)

\* At the beginning.
LEMMA InitLiteral == Init => LiteralInv
<1> SUFFICES ASSUME Init PROVE LiteralInv
  OBVIOUS
<1>1. line \in Text /\ start = 1 /\ tokens = <<>> /\ phase = "split" /\ cur = 1
  BY WordsAssumption DEF Init
<1>2. OpenIn(line)[1] = NUL
  BY <1>1, OpenIs
<1>3. 1 \in 1..Len(line) => ~SecondIn(line)[1]
  BY <1>1, SecondIs DEF Pair
<1>4. RawTokens(line, tokens, 1)
  <2> DEFINE f == [k \in 1..0 |-> 1]
  <2>1. f \in [1..0 -> Nat] /\ 1..0 = {} /\ 1..(1 - 1) = {}
    OBVIOUS
  <2> HIDE DEF f
  <2>2. Tiling(line, f, f, 0, 1)
    BY <2>1 DEF Tiling
  <2>3. Len(tokens) = 0
    BY <1>1
  <2> QED
    BY <2>1, <2>2, <2>3 DEF RawTokens
<1> QED
  BY <1>1, <1>2, <1>3, <1>4 DEF LiteralInv, SplitUpTo

\* Every step keeps it.
LEMMA NextLiteral ==
    IInv /\ TurnInv /\ WordInv /\ LiteralInv /\ [Next]_vars => LiteralInv'
<1> SUFFICES ASSUME IInv, TurnInv, WordInv, LiteralInv, [Next]_vars PROVE LiteralInv'
  OBVIOUS
<1>1. CASE UNCHANGED vars
  BY <1>1 DEF vars, shared, expVars, wordVars, LiteralInv
<1>2. CASE ProcessSingleTokenBlock
  <2>1. phase = "split" /\ phase' = "split" /\ line' = line /\ cur' = cur
    BY <1>2 DEF ProcessSingleTokenBlock
  <2>2. ASSUME Literally(line) PROVE SplitUpTo(line, tokens', start')
    BY <1>2, <2>1, <2>2, SplitReads DEF LiteralInv
  <2> QED
    BY <2>1, <2>2 DEF LiteralInv
<1>3. CASE SplitEnds
  <2>1. phase = "split" /\ phase' \in {"empty", "quotes"} /\ line' = line /\ cur' = cur /\ tokens' = tokens
    BY <1>3 DEF SplitEnds
  <2>2. ASSUME Literally(line) PROVE RawTokens(line, tokens, Len(line) + 1)
    BY <1>3, <2>1, <2>2, SplitAll DEF LiteralInv
  <2> QED
    BY <2>1, <2>2 DEF LiteralInv
<1>4. CASE QuoteHandlerCallLoop
  <2>1. phase = "quotes" /\ phase' = "types" /\ line' = line /\ cur' = cur
    BY <1>4 DEF QuoteHandlerCallLoop
  <2>2. ASSUME Literally(line) PROVE ReadTokens(line, tokens')
    BY <1>4, <2>1, <2>2, LoopsRead DEF LiteralInv
  <2> QED
    BY <2>1, <2>2 DEF LiteralInv
<1>5. CASE TypealizeCallLoop
  <2>1. phase = "types" /\ phase' = "join" /\ line' = line /\ cur' = cur /\ cur = 1
    BY <1>5 DEF TypealizeCallLoop, LiteralInv
  <2>2. ASSUME Literally(line) PROVE PartTokens(line, tokens', 1)
    BY <1>5, <2>1, <2>2, LoopsRead DEF LiteralInv
  <2> QED
    BY <2>1, <2>2 DEF LiteralInv
<1>6. CASE PerformQuoteConcatenation
  <2>1. phase = "join" /\ phase' = "join" /\ line' = line
    BY <1>6 DEF PerformQuoteConcatenation
  <2>2. ASSUME Literally(line) PROVE PartTokens(line, tokens', cur')
    BY <1>6, <2>1, <2>2, JoinReads DEF LiteralInv
  <2> QED
    BY <2>1, <2>2 DEF LiteralInv
<1>7. CASE JoinEnds
  <2>1. phase = "join" /\ phase' \in {"rejected", "assign"} /\ line' = line
    BY <1>7 DEF JoinEnds
  <2>2. ASSUME Literally(line) PROVE WholeTokens(line, tokens')
    BY <1>7, <2>1, <2>2, JoinReads DEF LiteralInv
  <2> QED
    BY <2>1, <2>2 DEF LiteralInv
<1>8. CASE ApplyVariableAssignment
  <2>1. phase = "assign" /\ phase' = "assign" /\ line' = line
    BY <1>8 DEF ApplyVariableAssignment
  <2>2. ASSUME Literally(line) PROVE WholeTokens(line, tokens')
    BY <1>8, <2>1, <2>2, AssignWhole DEF LiteralInv
  <2> QED
    BY <2>1, <2>2 DEF LiteralInv
<1>9. CASE AssignmentsEnd \/ SkipToken
  <2>1. phase \in {"assign", "expand"} /\ phase' = "expand" /\ line' = line /\ tokens' = tokens
    BY <1>9 DEF AssignmentsEnd, SkipToken
  <2> QED
    BY <2>1 DEF LiteralInv
<1>10. CASE ExpandToken
  <2>1. /\ phase = "expand" /\ phase' = "expanding" /\ line' = line /\ tokens' = tokens /\ cur' = cur
    BY <1>10 DEF ExpandToken
  <2>2. ASSUME Literally(line)
        PROVE  /\ WholeTokens(line, tokens)
               /\ Copying(tokens[cur].value, input', pos', pending', result', run')
    BY <1>10, <2>1, <2>2, CopyStarts DEF LiteralInv
  <2> QED
    BY <2>1, <2>2 DEF LiteralInv
<1>11. CASE ExpandVariables
  <2>1. /\ phase = "expanding" /\ phase' = "expanding" /\ line' = line /\ tokens' = tokens /\ cur' = cur
        /\ ExpNext
    BY <1>11 DEF ExpandVariables, wordVars
  <2>2. tokens[cur].value \in Text
    <3>1. tokens \in Seq(Token) /\ cur \in DOMAIN tokens /\ DOMAIN tokens = 1..Len(tokens)
      BY <2>1, WordFacts DEF WordInv, Shape
    <3>2. tokens[cur] \in Token
      BY <3>1
    <3> QED
      BY <3>2 DEF Token
  <2>3. ASSUME Literally(line)
        PROVE  /\ WholeTokens(line, tokens)
               /\ Copying(tokens[cur].value, input', pos', pending', result', run')
    <3>1. WholeTokens(line, tokens) /\ Copying(tokens[cur].value, input, pos, pending, result, run)
      BY <2>1, <2>3 DEF LiteralInv
    <3> QED
      BY <2>1, <2>2, <3>1, CopyGoesOn
  <2> QED
    BY <2>1, <2>3 DEF LiteralInv
<1>12. CASE StoreExpansion
  <2>1. phase = "expanding" /\ phase' = "expand" /\ line' = line
    BY <1>12 DEF StoreExpansion
  <2>2. ASSUME Literally(line) PROVE WholeTokens(line, tokens')
    BY <1>12, <2>1, <2>2, StoreWhole DEF LiteralInv
  <2> QED
    BY <2>1, <2>2 DEF LiteralInv
<1>13. CASE ParserCmdNoFound
  <2>1. phase = "expand" /\ phase' = "ready" /\ line' = line
    BY <1>13 DEF ParserCmdNoFound
  <2>2. ASSUME Literally(line) PROVE WholeTokens(line, tokens')
    BY <1>13, <2>1, <2>2, FoundWhole DEF LiteralInv
  <2> QED
    BY <2>1, <2>2 DEF LiteralInv
<1> QED
  BY <1>1, <1>2, <1>3, <1>4, <1>5, <1>6, <1>7, <1>8, <1>9, <1>10, <1>11, <1>12, <1>13 DEF Next

\* For every line whose quotes are closed and that refers to nothing outside of single
\* quotes, the tokens that init_yggdrasil gets are its words and its unquoted
\* operators, one for one and in order, each with the text that was written, without
\* the quotes: whatever assignments stand before them, and however many allocations
\* of the expander fail.
THEOREM WordsAsWrittenAlways == Spec => []WordsAsWritten
<1>1. IInv /\ WordInv /\ LiteralInv => WordsAsWritten
  <2> SUFFICES ASSUME IInv, WordInv, LiteralInv, phase = "ready", AllClosed, NothingToExpand
               PROVE  AsWritten
    BY DEF WordsAsWritten
  <2>1. line \in Text /\ tokens \in Seq(Token)
    BY WordFacts
  <2>2. Literally(line)
    BY <2>1, LineIs
  <2>3. WholeTokens(line, tokens)
    BY <2>2 DEF LiteralInv
  <2> QED
    BY <2>1, <2>3, WholeAsWritten
<1>2. Spec => []LiteralInv
  <2>1. Spec => [](IInv /\ TurnInv /\ WordInv)
    BY WordsInvariance, PTL
  <2> QED
    BY <2>1, InitLiteral, NextLiteral, PTL DEF Spec
<1> QED
  BY <1>1, <1>2, WordsInvariance, PTL
=============================================================================
