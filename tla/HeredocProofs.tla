--------------------------- MODULE HeredocProofs ---------------------------
(***************************************************************************)
(* What heredocs read, for every set of heredocs, every input, every size  *)
(* of a read(), every way a line is torn into pieces and every capacity of *)
(* a pipe.                                                                 *)
(***************************************************************************)
EXTENDS Heredoc, SequenceTheorems, FiniteSetTheorems, WellFoundedInduction, TLAPS

Parents == {"start", "forked", "wait", "command", "done", "failed"}

\* What is typed is a finite sequence of pieces, read some at a time.
LEMMA SourceTypes ==
    ASSUME source \in Sources
    PROVE  /\ here \subseteq Docs /\ Len(input) \in Nat /\ DOMAIN input = Pieces
           /\ chunk \in Nat \ {0} /\ Pieces = 1..Len(input)
BY HeredocAssumption DEF here, input, chunk, Pieces

\* The smaller of two numbers.
LEMMA MinOfTwo ==
    ASSUME NEW a \in Nat, NEW b \in Nat
    PROVE  Min({a, b}) \in {a, b} /\ Min({a, b}) <= a /\ Min({a, b}) <= b
<1>1. \E x \in {a, b} : \A y \in {a, b} : x =< y
  <2>1. CASE a <= b
    BY <2>1
  <2>2. CASE b <= a
    BY <2>2
  <2> QED
    BY <2>1, <2>2
<1> QED
  BY <1>1 DEF Min

\* The least of some numbers.
LEMMA LeastIs ==
    ASSUME NEW S \in SUBSET Nat, S # {}
    PROVE  Min(S) \in S /\ \A k \in S : Min(S) <= k
<1>1. PICK e \in S : \A k \in S : ~(k < e)
  <2>1. \E e \in S : \A k \in S : <<k, e>> \notin OpToRel(<, Nat)
    BY NatLessThanWellFounded, WFMin
  <2> QED
    BY <2>1 DEF OpToRel
<1>2. \E x \in S : \A y \in S : x <= y
  BY <1>1
<1> QED
  BY <1>2 DEF Min

\* One read() returns the next pieces that have been typed, at least one and at most
\* a chunk.
LEMMA AvailableIs ==
    ASSUME TypeOK, typed > taken
    PROVE  /\ Available \in Seq(Pieces) /\ Len(Available) \in 1..(typed - taken)
           /\ chunk = 1 => Len(Available) = 1
           /\ \A k \in 1..Len(Available) : Available[k] = taken + k
<1> DEFINE n == Min({chunk, typed - taken})
<1>1. /\ typed \in Nat /\ taken \in Nat /\ typed <= Len(input) /\ Len(input) \in Nat
      /\ chunk \in Nat \ {0} /\ Pieces = 1..Len(input)
  BY SourceTypes DEF TypeOK
<1>2. n \in {chunk, typed - taken} /\ n <= chunk /\ n <= typed - taken
  <2>1. typed - taken \in Nat
    BY <1>1
  <2> QED
    BY <1>1, <2>1, MinOfTwo
<1>3. Available = [k \in 1..n |-> taken + k]
  BY DEF Available
<1> HIDE DEF n
<1>4. n \in 1..(typed - taken) /\ n \in Nat /\ (chunk = 1 => n = 1)
  BY <1>1, <1>2
<1>5. \A k \in 1..n : taken + k \in Pieces
  BY <1>1, <1>2, <1>4
<1>6. Available \in Seq(Pieces) /\ Len(Available) = n
  BY <1>3, <1>4, <1>5
<1> QED
  BY <1>3, <1>4, <1>6

-----------------------------------------------------------------------------
(***************************************************************************)
(* Sequences.                                                              *)
(***************************************************************************)
\* A nonempty sequence is its head and its tail.
LEMMA HeadAndTail ==
    ASSUME NEW S, NEW s \in Seq(S), s # <<>>
    PROVE  <<Head(s)>> \o Tail(s) = s /\ Head(s) \in S /\ Tail(s) \in Seq(S)
           /\ <<Head(s)>> \in Seq(S) /\ (Tail(s) = <<>> <=> Len(s) = 1)
<1>1. /\ Head(s) \in S /\ Tail(s) \in Seq(S) /\ Len(Tail(s)) = Len(s) - 1
      /\ \A i \in 1..Len(Tail(s)) : Tail(s)[i] = s[i + 1]
      /\ Len(s) \in Nat /\ Len(s) >= 1 /\ Head(s) = s[1]
  BY HeadTailProperties, LenProperties, EmptySeq
<1>2. <<Head(s)>> \in Seq(S) /\ Len(<<Head(s)>>) = 1 /\ <<Head(s)>>[1] = Head(s)
  BY <1>1
<1> DEFINE t == <<Head(s)>> \o Tail(s)
<1>3. /\ t \in Seq(S) /\ Len(t) = 1 + (Len(s) - 1)
      /\ \A i \in 1..(1 + (Len(s) - 1)) : t[i] = IF i <= 1 THEN <<Head(s)>>[i] ELSE Tail(s)[i - 1]
  BY <1>1, <1>2, ConcatProperties
<1> HIDE DEF t
<1>4. Len(t) = Len(s)
  BY <1>1, <1>3
<1>5. ASSUME NEW i \in 1..Len(t) PROVE t[i] = s[i]
  <2>1. CASE i = 1
    BY <1>1, <1>2, <1>3, <1>4, <2>1
  <2>2. CASE i # 1
    <3>1. i - 1 \in 1..Len(Tail(s)) /\ (i - 1) + 1 = i /\ ~(i <= 1) /\ i \in 1..(1 + (Len(s) - 1))
      BY <1>1, <1>4, <2>2
    <3> QED
      BY <1>1, <1>3, <3>1
  <2> QED
    BY <2>1, <2>2
<1>6. t = s
  BY <1>3, <1>4, <1>5, SeqEqual
<1>7. Tail(s) = <<>> <=> Len(s) = 1
  BY <1>1, EmptySeq
<1> QED
  BY <1>1, <1>2, <1>6, <1>7 DEF t

\* What moves from the head of one queue to the end of the one before stays where it
\* is in both together.
LEMMA MoveHead ==
    ASSUME NEW S, NEW s \in Seq(S), NEW t \in Seq(S), t # <<>>
    PROVE  Append(s, Head(t)) \o Tail(t) = s \o t /\ Append(s, Head(t)) \in Seq(S)
<1>1. /\ <<Head(t)>> \o Tail(t) = t /\ Head(t) \in S /\ Tail(t) \in Seq(S)
      /\ <<Head(t)>> \in Seq(S)
  BY HeadAndTail
<1>2. Append(s, Head(t)) = s \o <<Head(t)>>
  BY <1>1, AppendIsConcat
<1>3. (s \o <<Head(t)>>) \o Tail(t) = s \o (<<Head(t)>> \o Tail(t))
  BY <1>1, ConcatAssociative
<1> QED
  BY <1>1, <1>2, <1>3, AppendProperties

\* Two sequences hold what their concatenation holds.
LEMMA ConcatHolds ==
    ASSUME NEW S, NEW s \in Seq(S), NEW t \in Seq(S), NEW x
    PROVE  x \in ToSet(s \o t) <=> x \in ToSet(s) \/ x \in ToSet(t)
<1> DEFINE st == s \o t
           m == Len(s)
           n == Len(t)
<1>1. /\ st \in Seq(S) /\ Len(st) = m + n
      /\ \A i \in 1..(m + n) : st[i] = IF i <= m THEN s[i] ELSE t[i - m]
  BY ConcatProperties
<1>2. m \in Nat /\ n \in Nat /\ DOMAIN st = 1..(m + n)
  BY <1>1, LenProperties
<1>3. x \in ToSet(st) <=> \E i \in 1..(m + n) : st[i] = x
  BY <1>2 DEF ToSet
<1>8. /\ x \in ToSet(s) <=> \E i \in 1..m : s[i] = x
      /\ x \in ToSet(t) <=> \E i \in 1..n : t[i] = x
  <2>1. DOMAIN s = 1..m /\ DOMAIN t = 1..n
    BY LenProperties
  <2> QED
    BY <2>1 DEF ToSet
<1> HIDE DEF st, m, n
<1>4. ASSUME NEW i \in 1..m PROVE i \in 1..(m + n) /\ st[i] = s[i]
  BY <1>1, <1>2
<1>5. ASSUME NEW i \in 1..n PROVE m + i \in 1..(m + n) /\ st[m + i] = t[i]
  <2>1. m + i \in 1..(m + n) /\ ~(m + i <= m) /\ (m + i) - m = i
    BY <1>2
  <2> QED
    BY <1>1, <2>1
<1>6. ASSUME NEW i \in 1..(m + n)
      PROVE  (i \in 1..m /\ st[i] = s[i]) \/ (i - m \in 1..n /\ st[i] = t[i - m])
  <2>1. i <= m => i \in 1..m
    BY <1>2
  <2>2. ~(i <= m) => i - m \in 1..n
    BY <1>2
  <2> QED
    BY <1>1, <2>1, <2>2
<1>7. (\E i \in 1..(m + n) : st[i] = x)
      <=> (\E i \in 1..m : s[i] = x) \/ (\E i \in 1..n : t[i] = x)
  BY <1>4, <1>5, <1>6
<1> QED
  BY <1>3, <1>7, <1>8 DEF m, n, st

\* What is put behind an increasing sequence, and is greater, leaves it increasing.
Increasing(s) == \A i, j \in DOMAIN s : i < j => s[i] < s[j]
LEMMA StaysIncreasing ==
    ASSUME NEW S \in SUBSET Nat, NEW s \in Seq(S), NEW x \in S, Increasing(s),
           \A y \in ToSet(s) : y < x
    PROVE  Increasing(s \o <<x>>)
<1>1. /\ s \o <<x>> = Append(s, x) /\ Len(Append(s, x)) = Len(s) + 1
      /\ \A i \in 1..Len(s) : Append(s, x)[i] = s[i]
      /\ Append(s, x)[Len(s) + 1] = x /\ Append(s, x) \in Seq(S)
  BY AppendIsConcat, AppendProperties
<1>2. Len(s) \in Nat /\ DOMAIN s = 1..Len(s) /\ DOMAIN Append(s, x) = 1..(Len(s) + 1)
  BY <1>1, LenProperties
<1>3. \A i \in 1..Len(s) : s[i] < x
  BY <1>2 DEF ToSet
<1>4. ASSUME NEW i \in 1..(Len(s) + 1), NEW j \in 1..(Len(s) + 1), i < j
      PROVE  Append(s, x)[i] < Append(s, x)[j]
  <2>1. i \in 1..Len(s)
    BY <1>2, <1>4
  <2>2. CASE j \in 1..Len(s)
    BY <1>1, <1>2, <1>4, <2>1, <2>2 DEF Increasing
  <2>3. CASE j = Len(s) + 1
    BY <1>1, <1>3, <2>1, <2>3
  <2> QED
    BY <1>2, <2>2, <2>3
<1> QED
  BY <1>1, <1>2, <1>4 DEF Increasing

\* get_next_line cuts its buffer behind the first newline, or takes all of it when
\* there is none.
LEMMA CutIs ==
    ASSUME source \in Sources, NEW s \in Seq(Pieces), s # <<>>
    PROVE  /\ TakeLine(s) \in Seq(Pieces) /\ Rebuffer(s) \in Seq(Pieces)
           /\ TakeLine(s) # <<>> /\ TakeLine(s) \o Rebuffer(s) = s
           /\ \A k \in 1..(Len(TakeLine(s)) - 1) : k \notin Ends(TakeLine(s))
           /\ \/ Len(TakeLine(s)) \in Ends(TakeLine(s))
              \/ Ends(s) = {} /\ Rebuffer(s) = <<>>
           /\ (\A k \in 1..(Len(s) - 1) : k \notin Ends(s)) => Rebuffer(s) = <<>>
<1>1. Len(s) \in Nat /\ Len(s) >= 1 /\ DOMAIN s = 1..Len(s) /\ \A i \in 1..Len(s) : s[i] \in Pieces
  BY LenProperties, EmptySeq
<1>2. Ends(s) \subseteq 1..Len(s)
  BY <1>1 DEF Ends
<1>3. PICK n \in 1..Len(s) :
         /\ n = LineLength(s)
         /\ \A k \in 1..(n - 1) : k \notin Ends(s)
         /\ n \in Ends(s) \/ (Ends(s) = {} /\ n = Len(s))
  <2>1. CASE Ends(s) = {}
    <3>1. Len(s) = LineLength(s) /\ Len(s) \in 1..Len(s) /\ \A k \in 1..(Len(s) - 1) : k \notin Ends(s)
      BY <1>1, <2>1 DEF LineLength
    <3> QED
      BY <2>1, <3>1
  <2>2. CASE Ends(s) # {}
    <3>1. Ends(s) \in SUBSET Nat
      BY <1>2
    <3>2. PICK m \in Ends(s) : m = Min(Ends(s)) /\ \A k \in Ends(s) : m <= k
      BY <2>2, <3>1, LeastIs
    <3>3. m = LineLength(s)
      BY <2>2, <3>2 DEF LineLength
    <3>4. m \in 1..Len(s) /\ \A k \in 1..(m - 1) : k \notin Ends(s)
      BY <1>1, <1>2, <3>2
    <3> QED
      BY <3>2, <3>3, <3>4
  <2> QED
    BY <2>1, <2>2
<1>n. n \in Nat /\ 1 <= n /\ n <= Len(s)
  BY <1>1, <1>3
<1> DEFINE L == SubSeq(s, 1, n)
           R == SubSeq(s, n + 1, Len(s))
<1>4. TakeLine(s) = L /\ Rebuffer(s) = R
  BY <1>3 DEF TakeLine, Rebuffer
<1>5. L \in Seq(Pieces) /\ Len(L) = n /\ \A i \in 1..n : L[i] = s[i]
  <2>1. \A i \in 1..n : s[i] \in Pieces
    BY <1>1, <1>n
  <2>2. /\ L \in Seq(Pieces) /\ Len(L) = IF 1 <= n THEN n - 1 + 1 ELSE 0
        /\ \A i \in 1..(n - 1 + 1) : L[i] = s[1 + i - 1]
    BY <1>3, <2>1, SubSeqProperties
  <2>3. \A i \in 1..n : i \in 1..(n - 1 + 1) /\ 1 + i - 1 = i
    BY <1>3
  <2> QED
    BY <1>3, <2>2, <2>3
<1>6. R \in Seq(Pieces) /\ (n = Len(s) => R = <<>>)
  <2>1. \A i \in (n + 1)..Len(s) : s[i] \in Pieces
    BY <1>1, <1>n
  <2>2. R \in Seq(Pieces)
    BY <1>1, <1>3, <2>1, SubSeqProperties
  <2> QED
    BY <1>1, <1>3, <2>2, SubSeqEmpty
<1>7. L \o R = s
  <2>1. SubSeq(s, 1, n) \o SubSeq(s, n + 1, Len(s)) = SubSeq(s, 1, Len(s))
    <3>1. 1 \in 1..(Len(s) + 1) /\ n \in (1 - 1)..Len(s) /\ Len(s) \in n..Len(s)
      BY <1>1, <1>n
    <3> QED
      BY <3>1, ConcatAdjacentSubSeq
  <2> QED
    BY <2>1, SubSeqFull
<1>8. \A k \in 1..n : k \in Ends(L) <=> k \in Ends(s)
  <2>1. DOMAIN L = 1..n /\ \A k \in 1..n : k \in DOMAIN s
    BY <1>1, <1>3, <1>5, LenProperties
  <2> QED
    BY <1>5, <2>1 DEF Ends
<1>9. L # <<>>
  BY <1>3, <1>5
<1>10. \A k \in 1..(n - 1) : k \notin Ends(L)
  <2>1. \A k \in 1..(n - 1) : k \in 1..n
    BY <1>3
  <2> QED
    BY <1>3, <1>8, <2>1
<1>11. n \in Ends(L) \/ (Ends(s) = {} /\ R = <<>>)
  BY <1>3, <1>6, <1>8
<1>12. (\A k \in 1..(Len(s) - 1) : k \notin Ends(s)) => R = <<>>
  <2>1. CASE n = Len(s)
    BY <1>6, <2>1
  <2>2. CASE n # Len(s)
    BY <1>1, <1>3, <2>2
  <2> QED
    BY <2>1, <2>2
<1> QED
  BY <1>3, <1>4, <1>5, <1>6, <1>7, <1>9, <1>10, <1>11, <1>12

-----------------------------------------------------------------------------
(***************************************************************************)
(* Types.                                                                  *)
(***************************************************************************)
\* A child has something to write when it writes, and nothing before it has read;
\* it is not there before it is forked.
Hand(d) == /\ child[d] = "writing" => line[d] # <<>>
           /\ child[d] \in {"none", "inherited", "default", "reading"} => line[d] = <<>>
           /\ parent[d] = "start" => child[d] = "none"
TypeInv == TypeOK /\ \A d \in Docs : Hand(d)

\* Nothing is typed at first.
LEMMA InitTypes == Init => TypeInv
<1> SUFFICES ASSUME Init PROVE TypeInv
  OBVIOUS
<1>1. source \in Sources /\ Len(input) \in Nat
  BY SourceTypes DEF Init
<1>2. \A d \in Docs : Len(pipe[d]) <= Cap
  BY HeredocAssumption DEF Init
<1> QED
  BY <1>1, <1>2, HeredocAssumption DEF Init, TypeInv, TypeOK, ChildPlaces, Hand

\* The parts of the state, one by one.
LEMMA Parts ==
    ASSUME TypeInv, NEW d \in Docs
    PROVE  /\ Len(body[d]) \in Nat /\ Len(pipe[d]) \in Nat /\ Len(cache[d]) \in Nat
           /\ Len(line[d]) \in Nat
           /\ body[d] \in Seq(Pieces) /\ pipe[d] \in Seq(Pieces) /\ cache[d] \in Seq(Pieces)
           /\ line[d] \in Seq(Pieces)
           /\ taken \in Nat /\ typed \in Nat /\ taken <= typed /\ typed <= Len(input)
           /\ Len(input) \in Nat /\ Pieces = 1..Len(input) /\ Hand(d) /\ source \in Sources
BY SourceTypes, LenProperties DEF TypeInv, TypeOK

\* What a read() appends to the buffer is typed and was not taken before.
LEMMA ReadIs ==
    ASSUME TypeInv, NEW d \in Docs, TakeDate(d)
    PROVE  /\ Available \in Seq(Pieces) /\ cache'[d] = cache[d] \o Available
           /\ cache'[d] \in Seq(Pieces) /\ taken' = taken + Len(Available)
           /\ taken' \in 0..typed /\ Len(Available) \in Nat /\ Len(Available) >= 1
           /\ chunk = 1 => Len(Available) = 1
           /\ \A k \in 1..Len(Available) : Available[k] = taken + k
<1>1. TypeOK /\ typed > taken /\ cache' = [cache EXCEPT ![d] = cache[d] \o Available]
      /\ taken' = taken + Len(Available)
  BY DEF TypeInv, TakeDate, Join
<1>2. /\ Available \in Seq(Pieces) /\ Len(Available) \in 1..(typed - taken)
      /\ chunk = 1 => Len(Available) = 1
      /\ \A k \in 1..Len(Available) : Available[k] = taken + k
  BY <1>1, AvailableIs
<1>3. cache[d] \in Seq(Pieces) /\ taken \in Nat /\ typed \in Nat /\ DOMAIN cache = Docs
  BY <1>1 DEF TypeOK
<1>4. cache[d] \o Available \in Seq(Pieces)
  BY <1>2, <1>3, ConcatProperties
<1>5. taken' \in 0..typed /\ Len(Available) \in Nat /\ Len(Available) >= 1
  BY <1>1, <1>2, <1>3
<1> QED
  BY <1>1, <1>2, <1>3, <1>4, <1>5

\* What get_next_line returns and what it keeps.
LEMMA LineIs ==
    ASSUME TypeInv, NEW d \in Docs, GetNextLine(d)
    PROVE  /\ child[d] = "reading" /\ line[d] = <<>>
           /\ line'[d] = TakeLine(cache[d]) /\ cache'[d] = Rebuffer(cache[d])
           /\ line'[d] \in Seq(Pieces) /\ cache'[d] \in Seq(Pieces)
           /\ line'[d] # <<>> /\ line'[d] \o cache'[d] = cache[d]
           /\ \A k \in 1..(Len(line'[d]) - 1) : k \notin Ends(line'[d])
           /\ \/ Len(line'[d]) \in Ends(line'[d])
              \/ taken = Len(input) /\ cache'[d] = <<>>
           /\ (\A k \in 1..(Len(cache[d]) - 1) : k \notin Ends(cache[d])) => cache'[d] = <<>>
           /\ child'[d] = IF IsDelimiter(d, line'[d]) THEN "exited" ELSE "writing"
<1> DEFINE L == TakeLine(cache[d])
           R == Rebuffer(cache[d])
<1>0. TypeOK
  BY DEF TypeInv
<1>1. /\ child[d] = "reading" /\ cache[d] # <<>>
      /\ Ends(cache[d]) # {} \/ taken = Len(input)
  BY DEF GetNextLine
<1>2. line[d] = <<>> /\ cache[d] \in Seq(Pieces) /\ source \in Sources
  BY <1>1, Parts DEF Hand
<1>3. /\ L \in Seq(Pieces) /\ R \in Seq(Pieces) /\ L # <<>> /\ L \o R = cache[d]
      /\ \A k \in 1..(Len(L) - 1) : k \notin Ends(L)
      /\ Len(L) \in Ends(L) \/ (Ends(cache[d]) = {} /\ R = <<>>)
      /\ (\A k \in 1..(Len(cache[d]) - 1) : k \notin Ends(cache[d])) => R = <<>>
  <2> HIDE DEF L, R
  <2>1. PICK s \in Seq(Pieces) : s = cache[d] /\ s # <<>>
    BY <1>1, <1>2
  <2>2. /\ TakeLine(s) \in Seq(Pieces) /\ Rebuffer(s) \in Seq(Pieces)
        /\ TakeLine(s) # <<>> /\ TakeLine(s) \o Rebuffer(s) = s
        /\ \A k \in 1..(Len(TakeLine(s)) - 1) : k \notin Ends(TakeLine(s))
        /\ \/ Len(TakeLine(s)) \in Ends(TakeLine(s))
           \/ Ends(s) = {} /\ Rebuffer(s) = <<>>
        /\ (\A k \in 1..(Len(s) - 1) : k \notin Ends(s)) => Rebuffer(s) = <<>>
    BY <1>2, <2>1, CutIs
  <2> QED
    BY <2>1, <2>2 DEF L, R
<1>4. line'[d] = L /\ cache'[d] = R
  BY <1>0 DEF GetNextLine, TypeOK
<1>5. child'[d] = IF IsDelimiter(d, L) THEN "exited" ELSE "writing"
  BY <1>0 DEF GetNextLine, ToChild, TypeOK
<1> HIDE DEF L, R
<1>6. Len(L) \in Ends(L) \/ (taken = Len(input) /\ R = <<>>)
  BY <1>1, <1>3
<1> QED
  <2>1. line'[d] = TakeLine(cache[d]) /\ cache'[d] = Rebuffer(cache[d])
    BY <1>4 DEF L, R
  <2> QED
    BY <1>1, <1>2, <1>3, <1>4, <1>5, <1>6, <2>1

\* A step of the child keeps the types.
LEMMA ChildTypes == ASSUME TypeInv, NEW d \in here, ChildStep(d) PROVE TypeInv'
<1>0. d \in Docs /\ Len(input) \in Nat /\ Pieces = 1..Len(input) /\ TypeOK /\ Hand(d)
  BY SourceTypes DEF TypeOK, TypeInv
<1>1. CASE DefaultSignals(d) \/ CatchInterrupt(d) \/ HandleEof(d)
  <2>1. PICK there \in {"default", "reading", "exited"} : child' = [child EXCEPT ![d] = there]
    BY <1>1 DEF DefaultSignals, CatchInterrupt, HandleEof, AcceptEof, ToChild
  <2>2. UNCHANGED <<Terminal, ParentVars, taken, cache, line, pipe>>
        /\ child[d] \in {"inherited", "default", "reading"}
    BY <1>1 DEF DefaultSignals, CatchInterrupt, HandleEof
  <2>3. \A e \in Docs : Hand(e)'
    BY <1>0, <2>1, <2>2 DEF TypeOK, TypeInv, Hand, ParentVars
  <2> QED
    BY <1>0, <2>1, <2>2, <2>3 DEF TypeInv, TypeOK, Terminal, ParentVars, Pieces, input, ChildPlaces
<1>2. CASE TakeDate(d)
  <2>1. UNCHANGED <<source, typed, signals, parent, writer, body, child, line, pipe>>
    BY <1>2 DEF TakeDate, Terminal, ParentVars
  <2>2. taken' \in 0..typed /\ cache'[d] \in Seq(Pieces)
    BY <1>0, <1>2, ReadIs
  <2>3. cache' \in [Docs -> Seq(Pieces)]
    BY <1>0, <1>2, <2>2 DEF TakeDate, TypeOK
  <2> QED
    BY <1>0, <2>1, <2>2, <2>3 DEF TypeInv, TypeOK, Pieces, input, Hand
<1>3. CASE GetNextLine(d)
  <2>1. UNCHANGED <<source, typed, signals, parent, writer, body, taken, pipe>>
    BY <1>3 DEF GetNextLine, Terminal, ParentVars
  <2>2. /\ line'[d] \in Seq(Pieces) /\ cache'[d] \in Seq(Pieces) /\ line'[d] # <<>>
        /\ child'[d] \in {"exited", "writing"} /\ child[d] = "reading"
    BY <1>0, <1>3, LineIs
  <2>3. /\ line' = [line EXCEPT ![d] = line'[d]] /\ cache' = [cache EXCEPT ![d] = cache'[d]]
        /\ child' = [child EXCEPT ![d] = child'[d]]
    BY <1>0, <1>3 DEF GetNextLine, ToChild, TypeOK
  <2>4. line' \in [Docs -> Seq(Pieces)] /\ cache' \in [Docs -> Seq(Pieces)]
    BY <1>0, <2>2, <2>3 DEF TypeOK
  <2>5. child' \in [Docs -> ChildPlaces]
    BY <1>0, <2>2, <2>3 DEF TypeOK, ChildPlaces
  <2>6. \A e \in Docs : Hand(e)'
    BY <1>0, <2>1, <2>2, <2>3 DEF TypeInv, TypeOK, Hand
  <2> QED
    BY <1>0, <2>1, <2>4, <2>5, <2>6 DEF TypeInv, TypeOK, Pieces, input
<1>4. CASE ProcessLine(d)
  <2>1. /\ child[d] = "writing" /\ Len(pipe[d]) < Cap
        /\ pipe' = [pipe EXCEPT ![d] = Append(pipe[d], Head(line[d]))]
        /\ line' = [line EXCEPT ![d] = Tail(line[d])]
        /\ child' = [child EXCEPT ![d] = IF Len(line[d]) = 1 THEN "reading" ELSE "writing"]
        /\ UNCHANGED <<source, typed, signals, parent, writer, body, taken, cache>>
    BY <1>4 DEF ProcessLine, ToChild, Terminal, ParentVars
  <2>2. line[d] # <<>> /\ line[d] \in Seq(Pieces) /\ pipe[d] \in Seq(Pieces)
    BY <1>0, <2>1, Parts DEF Hand
  <2>3. /\ Head(line[d]) \in Pieces /\ Tail(line[d]) \in Seq(Pieces)
        /\ Tail(line[d]) = <<>> <=> Len(line[d]) = 1
    BY <2>2, HeadAndTail
  <2>4. Append(pipe[d], Head(line[d])) \in Seq(Pieces) /\ Len(Append(pipe[d], Head(line[d]))) <= Cap
    <3>1. Append(pipe[d], Head(line[d])) \in Seq(Pieces)
          /\ Len(Append(pipe[d], Head(line[d]))) = Len(pipe[d]) + 1 /\ Len(pipe[d]) \in Nat
      BY <2>2, <2>3, AppendProperties, LenProperties
    <3> QED
      BY <2>1, <3>1, HeredocAssumption
  <2>5. pipe' \in [Docs -> Seq(Pieces)] /\ \A e \in Docs : Len(pipe'[e]) <= Cap
    BY <1>0, <2>1, <2>4 DEF TypeOK
  <2>6. line' \in [Docs -> Seq(Pieces)] /\ child' \in [Docs -> ChildPlaces]
    BY <1>0, <2>1, <2>3 DEF TypeOK, ChildPlaces
  <2>7. \A e \in Docs : Hand(e)'
    BY <1>0, <2>1, <2>3 DEF TypeInv, TypeOK, Hand
  <2> QED
    BY <1>0, <2>1, <2>5, <2>6, <2>7 DEF TypeInv, TypeOK, Pieces, input
<1> QED
  BY <1>1, <1>2, <1>3, <1>4 DEF ChildStep

\* A step of the parent keeps the types.
LEMMA ParentTypes == ASSUME TypeInv, NEW d \in here, ParentStep(d) PROVE TypeInv'
<1>0. d \in Docs /\ TypeOK
  BY SourceTypes DEF TypeOK, TypeInv
<1>1. CASE Fork(d)
  <2>1. /\ parent' = [parent EXCEPT ![d] = "forked"] /\ child' = [child EXCEPT ![d] = "inherited"]
        /\ writer' = [writer EXCEPT ![d] = TRUE] /\ parent[d] = "start"
        /\ UNCHANGED <<source, typed, signals, taken, cache, line, pipe, body>>
    BY <1>1 DEF Fork, ToParent, ToChild, Terminal
  <2>2. child' \in [Docs -> ChildPlaces] /\ \A e \in Docs : Hand(e)'
    BY <1>0, <2>1 DEF TypeInv, TypeOK, ChildPlaces, Hand
  <2> QED
    BY <1>0, <2>1, <2>2 DEF TypeInv, TypeOK, Pieces, input, Hand
<1>2. CASE ParentWaits(d) \/ ChildEnded(d)
  <2>1. PICK there \in Parents \ {"start"} : parent' = [parent EXCEPT ![d] = there]
    <3>1. CASE ParentWaits(d)
      BY <3>1 DEF ParentWaits, ToParent, Parents
    <3>2. CASE ChildEnded(d)
      BY <3>2 DEF ChildEnded, ToParent, Parents
    <3> QED
      BY <1>2, <3>1, <3>2
  <2>2. /\ UNCHANGED <<source, typed, signals, taken, child, cache, line, pipe, body>>
        /\ writer' = writer \/ writer' = [writer EXCEPT ![d] = FALSE]
    BY <1>2 DEF ParentWaits, ChildEnded, CloseWriteEnd, Terminal
  <2>3. writer' \in [Docs -> BOOLEAN] /\ parent' \in [Docs -> Parents]
    BY <1>0, <2>1, <2>2 DEF TypeOK, Parents
  <2> QED
    <3>1. \A e \in Docs : parent'[e] = "start" => parent[e] = "start"
      BY <1>0, <2>1 DEF TypeOK
    <3>2. \A e \in Docs : Hand(e)'
      BY <2>2, <3>1 DEF TypeInv, Hand
    <3> QED
      BY <1>0, <2>2, <2>3, <3>2 DEF TypeInv, TypeOK, Pieces, input, Parents
<1>3. CASE CommandReads(d)
  <2>0. UNCHANGED <<source, typed, signals, taken, child, cache, line, writer>>
    BY <1>3 DEF CommandReads, Terminal
  <2>1. CASE pipe[d] # <<>>
    <3>1. /\ body' = [body EXCEPT ![d] = Append(@, Head(pipe[d]))]
          /\ pipe' = [pipe EXCEPT ![d] = Tail(@)] /\ parent' = parent
      BY <1>3, <2>1 DEF CommandReads
    <3>2. body[d] \in Seq(Pieces) /\ pipe[d] \in Seq(Pieces) /\ Len(pipe[d]) <= Cap
      BY <1>0 DEF TypeOK
    <3>3. /\ Head(pipe[d]) \in Pieces /\ Tail(pipe[d]) \in Seq(Pieces)
          /\ Len(Tail(pipe[d])) = Len(pipe[d]) - 1 /\ Len(pipe[d]) \in Nat
      BY <2>1, <3>2, HeadTailProperties, LenProperties
    <3>4. Append(body[d], Head(pipe[d])) \in Seq(Pieces) /\ Len(Tail(pipe[d])) <= Cap
      BY <3>2, <3>3, AppendProperties, HeredocAssumption
    <3>5. /\ body' \in [Docs -> Seq(Pieces)] /\ pipe' \in [Docs -> Seq(Pieces)]
          /\ \A e \in Docs : Len(pipe'[e]) <= Cap
      BY <1>0, <3>1, <3>3, <3>4 DEF TypeOK
    <3> QED
      BY <1>0, <2>0, <3>1, <3>5 DEF TypeInv, TypeOK, Pieces, input, Hand
  <2>2. CASE pipe[d] = <<>>
    <3>1. parent' = [parent EXCEPT ![d] = "done"] /\ UNCHANGED <<body, pipe>>
      BY <1>3, <2>2 DEF CommandReads, ToParent
    <3> QED
      BY <1>0, <2>0, <3>1 DEF TypeInv, TypeOK, Pieces, input, Hand
  <2> QED
    BY <2>1, <2>2
<1> QED
  BY <1>1, <1>2, <1>3 DEF ParentStep

\* So do the user's keys.
LEMMA UserTypes ==
    ASSUME TypeInv, Type \/ \E sig \in {"SIGINT", "SIGQUIT"} : Press(sig)
    PROVE  TypeInv'
<1>0. TypeOK /\ Len(input) \in Nat
  BY SourceTypes DEF TypeOK, TypeInv
<1>1. CASE Type
  <2>1. typed' \in 0..Len(input) /\ taken' \in 0..typed'
    BY <1>0, <1>1 DEF Type, TypeOK
  <2> QED
    BY <1>0, <1>1, <2>1 DEF Type, TypeInv, TypeOK, ParentVars, Pieces, input, Hand
<1>2. ASSUME NEW sig \in {"SIGINT", "SIGQUIT"}, Press(sig) PROVE TypeInv'
  <2>1. UNCHANGED <<source, typed, taken, writer, body, cache, line, pipe>>
    BY <1>2 DEF Press
  <2>2. signals' \in 0..MaxSignals
    BY <1>0, <1>2, HeredocAssumption DEF Press, TypeOK
  <2>3. /\ child' \in [Docs -> ChildPlaces]
        /\ \A e \in Docs : \/ child'[e] = child[e]
                           \/ child[e] # "none" /\ child'[e] \in {"SIGINT", "SIGQUIT"}
    BY <1>0, <1>2 DEF Press, Killed, TypeOK, ChildPlaces
  <2>4. parent' \in [Docs -> Parents] /\ \A e \in Docs : parent'[e] = "start" => parent[e] = "start"
    BY <1>0, <1>2 DEF Press, TypeOK, Parents
  <2>5. \A e \in Docs : Hand(e)'
    BY <2>1, <2>3, <2>4 DEF TypeInv, Hand
  <2> QED
    BY <1>0, <2>1, <2>2, <2>3, <2>4, <2>5 DEF TypeInv, TypeOK, Pieces, input, Parents
<1> QED
  BY <1>1, <1>2

\* Every step keeps the types.
LEMMA NextTypes == TypeInv /\ [Next]_vars => TypeInv'
<1> SUFFICES ASSUME TypeInv, [Next]_vars PROVE TypeInv'
  OBVIOUS
<1>1. CASE UNCHANGED vars
  BY <1>1 DEF TypeInv, TypeOK, vars, Pieces, input, Hand
<1> QED
  BY <1>1, ChildTypes, ParentTypes, UserTypes DEF Next

\* The types hold throughout.
THEOREM TypesAlways == Spec => []TypeOK
<1>1. TypeInv => TypeOK
  BY DEF TypeInv
<1> QED
  BY <1>1, InitTypes, NextTypes, PTL DEF Spec

\* No step changes the command line.
LEMMA SourceSame == [Next]_vars => source' = source
BY DEF Next, ChildStep, ParentStep, DefaultSignals, CatchInterrupt, TakeDate, GetNextLine,
   HandleEof, ProcessLine, Fork, ParentWaits, ChildEnded, CommandReads, Type, Press, vars, Terminal

-----------------------------------------------------------------------------
(***************************************************************************)
(* The places of parents and children.                                     *)
(***************************************************************************)
\* A child is forked once, a command reads when its child has exited, and ends when
\* its pipe is empty.
Places(d) == /\ parent[d] = "start" <=> child[d] = "none"
             /\ parent[d] \in {"command", "done"} => child[d] = "exited"
             /\ parent[d] = "done" => pipe[d] = <<>>
PlaceInv == \A d \in Docs : Places(d)

\* A step of one heredoc leaves the others where they are.
LEMMA OthersStay ==
    ASSUME TypeInv, NEW d \in here, ChildStep(d) \/ ParentStep(d), NEW e \in Docs, e # d
    PROVE  /\ parent'[e] = parent[e] /\ child'[e] = child[e] /\ pipe'[e] = pipe[e]
           /\ body'[e] = body[e] /\ cache'[e] = cache[e] /\ line'[e] = line[e]
BY DEF TypeInv, TypeOK, ChildStep, ParentStep, DefaultSignals, CatchInterrupt, TakeDate,
   GetNextLine, HandleEof, ProcessLine, Fork, ParentWaits, ChildEnded, CommandReads, AcceptEof, ToChild,
   ToParent, Terminal, ParentVars

\* Every step keeps the places.
LEMMA NextPlaces == TypeInv /\ PlaceInv /\ [Next]_vars => PlaceInv'
<1> SUFFICES ASSUME TypeInv, PlaceInv, [Next]_vars, NEW e \in Docs PROVE Places(e)'
  BY DEF PlaceInv
<1>0. TypeOK /\ Places(e) /\ here \subseteq Docs
  BY SourceTypes DEF TypeInv, TypeOK, PlaceInv
<1>1. ASSUME NEW d \in here, ChildStep(d) PROVE Places(e)'
  <2>1. CASE e # d
    BY <1>0, <1>1, <2>1, OthersStay DEF Places
  <2>2. CASE e = d
    <3>1. parent' = parent
      BY <1>1 DEF ChildStep, DefaultSignals, CatchInterrupt, TakeDate, GetNextLine, HandleEof,
         ProcessLine, ParentVars
    <3>2. child[d] \in Running /\ child'[d] # "none"
      BY <1>0, <1>1, <2>2 DEF ChildStep, DefaultSignals, CatchInterrupt, TakeDate, GetNextLine, HandleEof,
         ProcessLine, AcceptEof, ToChild, TypeOK, Running
    <3> QED
      BY <1>0, <2>2, <3>1, <3>2 DEF Places, Running
  <2> QED
    BY <2>1, <2>2
<1>2. ASSUME NEW d \in here, ParentStep(d) PROVE Places(e)'
  <2>1. CASE e # d
    BY <1>0, <1>2, <2>1, OthersStay DEF Places
  <2>2. CASE e = d
    <3>1. CASE Fork(d)
      BY <1>0, <2>2, <3>1 DEF Places, Fork, ToParent, ToChild, TypeOK
    <3>2. CASE ParentWaits(d)
      BY <1>0, <2>2, <3>2 DEF Places, ParentWaits, ToParent, TypeOK
    <3>3. CASE ChildEnded(d)
      BY <1>0, <2>2, <3>3 DEF Places, ChildEnded, ToParent, TypeOK
    <3>4. CASE CommandReads(d)
      BY <1>0, <2>2, <3>4 DEF Places, CommandReads, ToParent, TypeOK
    <3> QED
      BY <1>2, <3>1, <3>2, <3>3, <3>4 DEF ParentStep
  <2> QED
    BY <2>1, <2>2
<1>3. CASE Type
  BY <1>0, <1>3 DEF Places, Type, ParentVars
<1>4. ASSUME NEW sig \in {"SIGINT", "SIGQUIT"}, Press(sig) PROVE Places(e)'
  BY <1>0, <1>4 DEF Places, Press, Killed, TypeOK
<1>5. CASE UNCHANGED vars
  BY <1>0, <1>5 DEF Places, vars
<1> QED
  BY <1>1, <1>2, <1>3, <1>4, <1>5 DEF Next

-----------------------------------------------------------------------------
(***************************************************************************)
(* Where the pieces are.                                                   *)
(***************************************************************************)
\* A document and what its reader holds are sequences of pieces.
LEMMA HeldTypes ==
    ASSUME TypeInv, NEW d \in Docs
    PROVE  /\ Document(d) \in Seq(Pieces) /\ Document(d) \o line[d] \in Seq(Pieces)
           /\ Held(d) \in Seq(Pieces)
BY Parts, ConcatProperties DEF Document, Held

\* The command takes over from the pipe: a step of the parent moves pieces inside the
\* document, and none in or out of it.
LEMMA ParentKeeps ==
    ASSUME TypeInv, PlaceInv, NEW d \in here, ParentStep(d)
    PROVE  /\ Document(d)' = Document(d) /\ UNCHANGED <<source, taken, cache, line>>
           /\ \/ child'[d] = child[d]
              \/ child[d] = "none" /\ child'[d] = "inherited"
<1>0. d \in Docs /\ TypeOK /\ Places(d)
  BY SourceTypes DEF TypeInv, TypeOK, PlaceInv
<1>1. UNCHANGED <<source, taken, cache, line>>
  BY DEF ParentStep, Fork, ParentWaits, ChildEnded, CommandReads, Terminal
<1>2. CASE Fork(d) \/ ParentWaits(d) \/ ChildEnded(d)
  <2>1. UNCHANGED <<pipe, body>>
    BY <1>2 DEF Fork, ParentWaits, ChildEnded
  <2>2. \/ child'[d] = child[d]
        \/ child[d] = "none" /\ child'[d] = "inherited"
    BY <1>0, <1>2 DEF Fork, ParentWaits, ChildEnded, ToChild, TypeOK, Places
  <2> QED
    BY <1>1, <2>1, <2>2 DEF Document
<1>3. CASE CommandReads(d)
  <2>1. child' = child
    BY <1>3 DEF CommandReads
  <2>2. CASE pipe[d] = <<>>
    BY <1>1, <1>3, <2>1, <2>2 DEF CommandReads, Document
  <2>3. CASE pipe[d] # <<>>
    <3>1. body'[d] = Append(body[d], Head(pipe[d])) /\ pipe'[d] = Tail(pipe[d])
      BY <1>0, <1>3, <2>3 DEF CommandReads, TypeOK
    <3>2. body[d] \in Seq(Pieces) /\ pipe[d] \in Seq(Pieces)
      BY <1>0, Parts
    <3>3. Append(body[d], Head(pipe[d])) \o Tail(pipe[d]) = body[d] \o pipe[d]
      BY <2>3, <3>2, MoveHead
    <3> QED
      BY <1>1, <2>1, <3>1, <3>3 DEF Document
  <2> QED
    BY <2>2, <2>3
<1> QED
  BY <1>2, <1>3 DEF ParentStep

\* The child writes its line into the document, piece after piece.
LEMMA WriteKeeps ==
    ASSUME TypeInv, NEW d \in here, ProcessLine(d)
    PROVE  /\ (Document(d) \o line[d])' = Document(d) \o line[d]
           /\ UNCHANGED <<source, taken, cache>> /\ child[d] = "writing"
           /\ \/ child'[d] = "writing"
              \/ /\ child'[d] = "reading" /\ line'[d] = <<>>
                 /\ Document(d)' = Document(d) \o line[d]
<1>0. d \in Docs /\ TypeOK /\ Hand(d)
  BY SourceTypes DEF TypeInv, TypeOK
<1>1. /\ child[d] = "writing" /\ pipe'[d] = Append(pipe[d], Head(line[d]))
      /\ line'[d] = Tail(line[d]) /\ body' = body /\ UNCHANGED <<source, taken, cache>>
      /\ child'[d] = IF Len(line[d]) = 1 THEN "reading" ELSE "writing"
  BY <1>0 DEF ProcessLine, ToChild, TypeOK, ParentVars, Terminal
<1>6. (Document(d) \o line[d])' = Document(d)' \o line'[d]
  OBVIOUS
<1> DEFINE b == body[d]
           p == pipe[d]
           l == line[d]
           h == Head(line[d])
           t == Tail(line[d])
<1>2. b \in Seq(Pieces) /\ p \in Seq(Pieces) /\ l \in Seq(Pieces) /\ l # <<>>
  BY <1>0, <1>1, Parts DEF Hand
<1>3. /\ h \in Pieces /\ t \in Seq(Pieces) /\ (t = <<>> <=> Len(l) = 1)
      /\ Append(p, h) \in Seq(Pieces) /\ Append(p, h) \o t = p \o l
  BY <1>2, HeadAndTail, MoveHead
<1>4. Document(d) \o line[d] = (b \o p) \o l /\ Document(d)' = b \o Append(p, h)
  <2>1. Document(d)' = body'[d] \o pipe'[d]
    BY DEF Document
  <2>2. body'[d] = b /\ pipe'[d] = Append(p, h)
    BY <1>1
  <2>3. Document(d) \o line[d] = (b \o p) \o l
    BY DEF Document
  <2> HIDE DEF b, p, l, h, t
  <2> QED
    BY <2>1, <2>2, <2>3
<1>5. /\ line'[d] = t
      /\ Len(l) = 1 => child'[d] = "reading"
      /\ Len(l) # 1 => child'[d] = "writing"
  BY <1>1
<1> HIDE DEF b, p, l, h, t
<1>7. (b \o Append(p, h)) \o t = b \o (Append(p, h) \o t)
  <2>1. PICK a \in Seq(Pieces) : a = Append(p, h)
    BY <1>3
  <2>2. (b \o a) \o t = b \o (a \o t)
    <3>1. b \in Seq(Pieces) /\ t \in Seq(Pieces)
      BY <1>2, <1>3
    <3> QED
      BY <3>1, ConcatAssociative
  <2> QED
    BY <2>1, <2>2
<1>8. (b \o p) \o l = b \o (p \o l)
  BY <1>2, ConcatAssociative
<1>9. (Document(d) \o line[d])' = Document(d) \o line[d]
  BY <1>3, <1>4, <1>5, <1>6, <1>7, <1>8
<1>10. CASE t = <<>>
  <2>1. b \o Append(p, h) \in Seq(Pieces)
    BY <1>2, <1>3, ConcatProperties
  <2>2. (b \o Append(p, h)) \o t = b \o Append(p, h)
    BY <1>10, <2>1, ConcatEmptySeq
  <2> QED
    BY <1>1, <1>3, <1>4, <1>5, <1>7, <1>8, <1>9, <1>10, <2>2
<1>11. CASE t # <<>>
  BY <1>1, <1>3, <1>5, <1>9, <1>11
<1> QED
  BY <1>10, <1>11

\* What get_next_line returns is on its way out of the buffer.
LEMMA ReturnKeeps ==
    ASSUME TypeInv, NEW d \in here, GetNextLine(d)
    PROVE  /\ Held(d)' = Held(d) /\ Document(d)' = Document(d)
           /\ UNCHANGED <<source, taken>> /\ child[d] = "reading"
<1>0. d \in Docs
  BY SourceTypes DEF TypeInv, TypeOK
<1>1. UNCHANGED <<source, taken, body, pipe>> /\ Document(d)' = Document(d)
  BY DEF GetNextLine, Terminal, ParentVars, Document
<1>2. /\ child[d] = "reading" /\ line[d] = <<>> /\ line'[d] \in Seq(Pieces)
      /\ cache'[d] \in Seq(Pieces) /\ line'[d] \o cache'[d] = cache[d]
  BY <1>0, LineIs
<1> DEFINE D == Document(d)
           l == line'[d]
           r == cache'[d]
<1>3. D \in Seq(Pieces)
  BY <1>0, HeldTypes
<1>4. Held(d) = (D \o <<>>) \o (l \o r) /\ Held(d)' = (D \o l) \o r
  BY <1>1, <1>2 DEF Held
<1>5. l \in Seq(Pieces) /\ r \in Seq(Pieces)
  BY <1>2
<1> HIDE DEF D, l, r
<1>6. (D \o l) \o r = D \o (l \o r) /\ D \o <<>> = D
  BY <1>3, <1>5, ConcatAssociative, ConcatEmptySeq
<1> QED
  BY <1>1, <1>2, <1>4, <1>6

\* The other steps of the child, a read() apart.
LEMMA QuietKeeps ==
    ASSUME TypeInv, NEW d \in here, DefaultSignals(d) \/ CatchInterrupt(d) \/ HandleEof(d)
    PROVE  /\ Held(d)' = Held(d) /\ Document(d)' = Document(d)
           /\ UNCHANGED <<source, taken, cache, line>>
           /\ line[d] = <<>>
           /\ \/ child[d] \in {"inherited", "default"} /\ child'[d] \in {"default", "reading"}
              \/ /\ child[d] = "reading" /\ child'[d] = "exited"
                 /\ taken = Len(input) /\ cache[d] = <<>>
<1>0. d \in Docs /\ TypeOK /\ Hand(d)
  BY SourceTypes DEF TypeInv, TypeOK
<1>1. UNCHANGED <<source, taken, cache, line, body, pipe>>
  BY DEF DefaultSignals, CatchInterrupt, HandleEof, Terminal, ParentVars
<1>2. \/ child[d] \in {"inherited", "default"} /\ child'[d] \in {"default", "reading"}
      \/ /\ child[d] = "reading" /\ child'[d] = "exited"
         /\ taken = Len(input) /\ cache[d] = <<>>
  BY <1>0 DEF DefaultSignals, CatchInterrupt, HandleEof, AcceptEof, ToChild, TypeOK
<1> QED
  BY <1>0, <1>1, <1>2 DEF Document, Held, Hand

\* A read() puts pieces behind those that are held.
LEMMA ReadGrows ==
    ASSUME TypeInv, NEW d \in here, TakeDate(d)
    PROVE  /\ Held(d)' = Held(d) \o Available /\ Document(d)' = Document(d)
           /\ UNCHANGED <<source, child, line>> /\ child[d] = "reading" /\ Ends(cache[d]) = {}
<1>0. d \in Docs
  BY SourceTypes DEF TypeInv, TypeOK
<1>1. UNCHANGED <<source, child, line, body, pipe>> /\ child[d] = "reading" /\ Ends(cache[d]) = {}
  BY DEF TakeDate, Terminal, ParentVars
<1>2. Available \in Seq(Pieces) /\ cache'[d] = cache[d] \o Available
  BY <1>0, ReadIs
<1> DEFINE P == Document(d) \o line[d]
           c == cache[d]
           a == Available
<1>3. P \in Seq(Pieces) /\ c \in Seq(Pieces) /\ a \in Seq(Pieces)
  BY <1>0, <1>2, HeldTypes, Parts
<1>4. Held(d) = P \o c /\ Held(d)' = P \o (c \o a)
  BY <1>1, <1>2 DEF Held, Document
<1> HIDE DEF P, c, a
<1>5. (P \o c) \o a = P \o (c \o a)
  BY <1>3, ConcatAssociative
<1> QED
  BY <1>1, <1>4, <1>5 DEF a, Document

\* No step but a read() gives a reader a piece or takes one from it.
LEMMA HeldSame ==
    ASSUME TypeInv, PlaceInv, NEW d \in here, ChildStep(d) \/ ParentStep(d), NEW e \in here,
           e # d \/ ~TakeDate(d)
    PROVE  Held(e)' = Held(e)
<1>0. e \in Docs /\ d \in Docs
  BY SourceTypes DEF TypeInv, TypeOK
<1>1. CASE e # d
  BY <1>0, <1>1, OthersStay DEF Held, Document
<1>2. CASE e = d
  <2>1. CASE ParentStep(d)
    BY <1>2, <2>1, ParentKeeps DEF Held
  <2>2. CASE ProcessLine(d)
    <3>1. (Document(d) \o line[d])' = Document(d) \o line[d] /\ cache' = cache
      BY <2>2, WriteKeeps
    <3> QED
      BY <1>2, <3>1 DEF Held
  <2>3. CASE GetNextLine(d)
    BY <1>2, <2>3, ReturnKeeps
  <2>4. CASE DefaultSignals(d) \/ CatchInterrupt(d) \/ HandleEof(d)
    BY <1>2, <2>4, QuietKeeps
  <2> QED
    BY <1>2, <2>1, <2>2, <2>3, <2>4 DEF ChildStep
<1> QED
  BY <1>1, <1>2

-----------------------------------------------------------------------------
(***************************************************************************)
(* Lines.                                                                  *)
(***************************************************************************)
\* s is one line, as far as it goes; s ends where a line ends.
OneLine(s) == s # <<>> /\ \A k \in 1..(Len(s) - 1) : k \notin Ends(s)
Closed(s)  == s = <<>> \/ Len(s) \in Ends(s)

\* A sequence of pieces ends lines where its pieces do.
LEMMA EndsAre ==
    ASSUME NEW s \in Seq(Pieces), NEW k
    PROVE  k \in Ends(s) <=> k \in 1..Len(s) /\ input[s[k]].ends
BY LenProperties DEF Ends

\* A part of a sequence, read at a place further on, is the part there.
LEMMA SamePart ==
    ASSUME NEW s \in Seq(Pieces), NEW t \in Seq(Pieces), NEW m \in Nat,
           NEW i \in 1..Len(s), NEW j \in i..Len(s), m + Len(s) <= Len(t),
           \A k \in 1..Len(s) : t[m + k] = s[k]
    PROVE  SubSeq(t, m + i, m + j) = SubSeq(s, i, j)
<1>1. /\ Len(s) \in Nat /\ Len(t) \in Nat /\ i \in Nat /\ j \in Nat /\ 1 <= i /\ i <= j
      /\ j <= Len(s)
  BY LenProperties
<1>2. /\ \A k \in 1..Len(s) : s[k] \in Pieces
      /\ \A k \in 1..Len(t) : t[k] \in Pieces
  BY ElementOfSeq
<1> DEFINE n == j - i + 1
           a == SubSeq(s, i, j)
           b == SubSeq(t, m + i, m + j)
<1>3. a \in Seq(Pieces) /\ Len(a) = n /\ \A k \in 1..n : a[k] = s[i + k - 1]
  <2>1. \A k \in i..j : s[k] \in Pieces
    BY <1>1, <1>2
  <2>2. /\ a \in Seq(Pieces) /\ Len(a) = IF i <= j THEN j - i + 1 ELSE 0
        /\ \A k \in 1..(j - i + 1) : a[k] = s[i + k - 1]
    BY <1>1, <2>1, SubSeqProperties
  <2> QED
    BY <1>1, <2>2
<1>4. b \in Seq(Pieces) /\ Len(b) = n /\ \A k \in 1..n : b[k] = t[m + i + k - 1]
  <2>1. \A k \in (m + i)..(m + j) : t[k] \in Pieces
    BY <1>1, <1>2
  <2>2. /\ b \in Seq(Pieces) /\ Len(b) = IF m + i <= m + j THEN (m + j) - (m + i) + 1 ELSE 0
        /\ \A k \in 1..((m + j) - (m + i) + 1) : b[k] = t[m + i + k - 1]
    BY <1>1, <2>1, SubSeqProperties
  <2>3. (m + j) - (m + i) + 1 = n /\ m + i <= m + j
    BY <1>1
  <2> QED
    BY <2>2, <2>3
<1> HIDE DEF a, b
<1>5. ASSUME NEW k \in 1..n PROVE b[k] = a[k]
  <2>1. i + k - 1 \in 1..Len(s) /\ m + i + k - 1 = m + (i + k - 1)
    BY <1>1
  <2>2. t[m + (i + k - 1)] = s[i + k - 1]
    BY <2>1
  <2> QED
    BY <1>3, <1>4, <2>1, <2>2
<1> HIDE DEF n
<1>6. b = a
  BY <1>3, <1>4, <1>5, SeqEqual
<1> QED
  BY <1>6 DEF a, b

\* A line that begins in a part that is closed is a line of that part.
LEMMA LineOfPart ==
    ASSUME NEW s \in Seq(Pieces), NEW t \in Seq(Pieces), Len(s) <= Len(t),
           \A k \in 1..Len(s) : t[k] = s[k], Closed(s),
           NEW i \in 1..Len(s), NEW j \in i..Len(t), IsLine(t, i, j)
    PROVE  j \in i..Len(s) /\ IsLine(s, i, j) /\ SubSeq(t, i, j) = SubSeq(s, i, j)
<1>1. Len(s) \in Nat /\ Len(t) \in Nat /\ i \in Nat /\ j \in Nat
  BY LenProperties
<1>2. \A k \in 1..Len(s) : k \in Ends(t) <=> k \in Ends(s)
  <2>1. \A k \in 1..Len(s) : k \in 1..Len(t)
    BY <1>1
  <2> QED
    BY <2>1, EndsAre
<1>3. Len(s) \in Ends(s) /\ Len(s) \in 1..Len(s)
  <2>1. s # <<>> /\ Len(s) >= 1
    BY <1>1
  <2> QED
    BY <1>1, <2>1 DEF Closed
<1>4. j <= Len(s)
  <2>1. ~(j <= Len(s)) => Len(s) \in i..(j - 1)
    BY <1>1
  <2> QED
    BY <1>2, <1>3, <2>1 DEF IsLine
<1>5. IsLine(s, i, j)
  <2>1. i = 1 \/ i - 1 \in Ends(s)
    <3>1. i # 1 => i - 1 \in 1..Len(s)
      BY <1>1
    <3> QED
      BY <1>2, <3>1 DEF IsLine
  <2>2. \A k \in i..(j - 1) : k \notin Ends(s)
    <3>1. \A k \in i..(j - 1) : k \in 1..Len(s)
      BY <1>1, <1>4
    <3> QED
      BY <1>2, <3>1 DEF IsLine
  <2>3. j \in Ends(s) \/ j = Len(s)
    <3>1. j \in 1..Len(s) /\ (j = Len(t) => j = Len(s))
      BY <1>1, <1>4
    <3> QED
      BY <1>2, <3>1 DEF IsLine
  <2> QED
    BY <2>1, <2>2, <2>3 DEF IsLine
<1>6. SubSeq(t, i, j) = SubSeq(s, i, j)
  <2>1. 0 + Len(s) <= Len(t) /\ j \in i..Len(s) /\ 0 + i = i /\ 0 + j = j
    BY <1>1, <1>4
  <2>2. \A k \in 1..Len(s) : t[0 + k] = s[k]
    OBVIOUS
  <2>3. SubSeq(t, 0 + i, 0 + j) = SubSeq(s, i, j)
    BY <2>1, <2>2, SamePart
  <2> QED
    BY <2>1, <2>3
<1> QED
  BY <1>1, <1>4, <1>5, <1>6

\* A line behind a closed part is where the part ends, and all there is.
LEMMA LineBehind ==
    ASSUME NEW s \in Seq(Pieces), NEW w \in Seq(Pieces), OneLine(w),
           NEW i \in (Len(s) + 1)..Len(s \o w), NEW j \in i..Len(s \o w), IsLine(s \o w, i, j)
    PROVE  SubSeq(s \o w, i, j) = w
<1> DEFINE t == s \o w
           m == Len(s)
           n == Len(w)
<1>1. m \in Nat /\ n \in Nat /\ n >= 1
  BY LenProperties, EmptySeq DEF OneLine
<1>2. /\ t \in Seq(Pieces) /\ Len(t) = m + n
      /\ \A k \in 1..(m + n) : t[k] = IF k <= m THEN s[k] ELSE w[k - m]
  BY ConcatProperties
<1> HIDE DEF t, m, n
<1>3. \A k \in 1..n : t[m + k] = w[k]
  <2>1. \A k \in 1..n : m + k \in 1..(m + n) /\ ~(m + k <= m) /\ (m + k) - m = k
    BY <1>1
  <2> QED
    BY <1>2, <2>1
<1>4. \A k \in 1..(n - 1) : m + k \notin Ends(t)
  <2>1. \A k \in 1..(n - 1) : k \in 1..n /\ k \notin Ends(w)
    BY <1>1 DEF OneLine, n
  <2>2. \A k \in 1..n : k \in Ends(w) <=> input[w[k]].ends
    BY EndsAre DEF n
  <2>3. \A k \in 1..n : m + k \in Ends(t) => input[t[m + k]].ends
    BY <1>2, EndsAre
  <2> QED
    BY <1>3, <2>1, <2>2, <2>3
<1>5. IsLine(t, i, j) /\ i \in (m + 1)..(m + n) /\ j \in i..(m + n)
  BY <1>2 DEF t, m
<1>6. i = m + 1
  <2>1. i # m + 1 => (i - 1) - m \in 1..(n - 1) /\ m + ((i - 1) - m) = i - 1 /\ i # 1
    BY <1>1, <1>5
  <2> QED
    BY <1>4, <1>5, <2>1 DEF IsLine
<1>7. j = m + n
  <2>1. j # m + n => j - m \in 1..(n - 1) /\ m + (j - m) = j
    BY <1>1, <1>5
  <2> QED
    BY <1>2, <1>4, <1>5, <2>1 DEF IsLine
<1>8. SubSeq(t, m + 1, m + n) = SubSeq(w, 1, n)
  <2>1. 1 \in 1..n /\ n \in 1..n /\ m + n <= Len(t)
    BY <1>1, <1>2
  <2> QED
    BY <1>1, <1>2, <1>3, <2>1, SamePart DEF n
<1> QED
  BY <1>6, <1>7, <1>8, SubSeqFull DEF t, n

\* A document that its delimiter does not stop is not stopped either when another line
\* that is not the delimiter follows.
LEMMA AddLine ==
    ASSUME NEW d, NEW s \in Seq(Pieces), NEW w \in Seq(Pieces), Closed(s), Stops(d, s) = {},
           OneLine(w), ~IsDelimiter(d, w)
    PROVE  Stops(d, s \o w) = {} /\ (Len(w) \in Ends(w) => Closed(s \o w))
<1> DEFINE t == s \o w
<1>1. /\ t \in Seq(Pieces) /\ Len(t) = Len(s) + Len(w)
      /\ \A k \in 1..(Len(s) + Len(w)) : t[k] = IF k <= Len(s) THEN s[k] ELSE w[k - Len(s)]
  BY ConcatProperties
<1>2. Len(s) \in Nat /\ Len(w) \in Nat /\ Len(w) >= 1
  BY LenProperties, EmptySeq DEF OneLine
<1>3. DOMAIN t = 1..Len(t) /\ DOMAIN s = 1..Len(s)
  BY <1>1, LenProperties
<1>4. ASSUME NEW i \in 1..Len(t), NEW j \in i..Len(t), IsLine(t, i, j), IsDelimiter(d, SubSeq(t, i, j))
      PROVE  FALSE
  <2>1. CASE i <= Len(s)
    <3>1. /\ i \in 1..Len(s) /\ Len(s) <= Len(t)
          /\ \A k \in 1..Len(s) : t[k] = s[k]
      BY <1>1, <1>2, <2>1
    <3> HIDE DEF t
    <3>2. j \in i..Len(s) /\ IsLine(s, i, j) /\ SubSeq(t, i, j) = SubSeq(s, i, j)
      BY <1>1, <1>4, <3>1, LineOfPart
    <3>3. i \in Stops(d, s)
      BY <1>3, <1>4, <3>1, <3>2 DEF Stops
    <3> QED
      BY <3>3
  <2>2. CASE ~(i <= Len(s))
    <3>1. i \in (Len(s) + 1)..Len(s \o w)
      BY <1>1, <1>2, <2>2
    <3>2. SubSeq(s \o w, i, j) = w
      BY <1>4, <3>1, LineBehind
    <3> QED
      BY <1>4, <3>2
  <2> QED
    BY <2>1, <2>2
<1>5. Stops(d, t) = {}
  BY <1>3, <1>4 DEF Stops
<1>6. Len(w) \in Ends(w) => Len(t) \in Ends(t)
  <2>1. Len(t) \in 1..(Len(s) + Len(w)) /\ ~(Len(t) <= Len(s)) /\ Len(t) - Len(s) = Len(w)
    BY <1>1, <1>2
  <2>2. t[Len(t)] = w[Len(w)]
    BY <1>1, <2>1
  <2> HIDE DEF t
  <2> QED
    BY <1>1, <2>1, <2>2, EndsAre
<1> QED
  BY <1>5, <1>6 DEF Closed

-----------------------------------------------------------------------------
(***************************************************************************)
(* The text of a document.                                                 *)
(***************************************************************************)
\* What a child has passed on, the line that it is writing included; and that there
\* is nothing more for it to read.
Passed(d) == IF child[d] = "writing" THEN Document(d) \o line[d] ELSE Document(d)
Spent(d)  == taken = Len(input) /\ cache[d] = <<>>

\* No line that was passed on is the delimiter, what was passed on ends with a line
\* unless the input ends in its middle, and a child exits when there is nothing more
\* or when it has read its delimiter, which is one line.
Textual(d) ==
    /\ Stops(d, Passed(d)) = {}
    /\ Closed(Passed(d)) \/ (Spent(d) /\ (child[d] = "exited" => line[d] = <<>>))
    /\ child[d] = "exited" =>
           \/ line[d] = <<>> /\ Spent(d)
           \/ /\ OneLine(line[d]) /\ IsDelimiter(d, line[d])
              /\ Len(line[d]) \in Ends(line[d]) \/ Spent(d)
TextInv == \A d \in here : child[d] \notin {"SIGINT", "SIGQUIT"} => Textual(d)

\* What a step that leaves the document alone keeps.
LEMMA TextSame ==
    ASSUME UNCHANGED source, NEW e, Textual(e), Passed(e)' = Passed(e), Spent(e) => Spent(e)',
           child'[e] = "exited" => child[e] = "exited" /\ line'[e] = line[e]
    PROVE  Textual(e)'
<1>1. input' = input
  BY DEF input
<1>2. Stops(e, Passed(e))' = {}
  BY <1>1 DEF Textual, Stops, IsLine, Ends, IsDelimiter, Text
<1>3. Closed(Passed(e))' <=> Closed(Passed(e))
  BY <1>1 DEF Closed, Ends
<1>4. ASSUME child'[e] = "exited"
      PROVE  /\ OneLine(line[e])' <=> OneLine(line[e])
             /\ IsDelimiter(e, line[e])' <=> IsDelimiter(e, line[e])
             /\ (Len(line[e]) \in Ends(line[e]))' <=> Len(line[e]) \in Ends(line[e])
  BY <1>1, <1>4 DEF OneLine, Ends, IsDelimiter, Text
<1> QED
  BY <1>2, <1>3, <1>4 DEF Textual

\* Nobody reads behind the end of the input.
LEMMA SpentStays ==
    ASSUME TypeInv, PlaceInv, NEW d \in here, ChildStep(d) \/ ParentStep(d), NEW e \in here, Spent(e)
    PROVE  Spent(e)' /\ ~TakeDate(d) /\ ~(e = d /\ GetNextLine(d))
<1>0. d \in Docs /\ e \in Docs
  BY SourceTypes DEF TypeInv, TypeOK
<1>1. ~TakeDate(d)
  BY <1>0, Parts DEF Spent, TakeDate
<1>2. ~(e = d /\ GetNextLine(d))
  BY DEF Spent, GetNextLine
<1>3. taken' = taken /\ source' = source /\ (d = e => cache'[e] = cache[e])
  <2>1. CASE ParentStep(d)
    BY <2>1, ParentKeeps
  <2>2. CASE ProcessLine(d)
    BY <2>2, WriteKeeps
  <2>3. CASE GetNextLine(d)
    BY <1>2, <2>3, ReturnKeeps
  <2>4. CASE DefaultSignals(d) \/ CatchInterrupt(d) \/ HandleEof(d)
    BY <2>4, QuietKeeps
  <2> QED
    BY <1>1, <2>1, <2>2, <2>3, <2>4 DEF ChildStep
<1>4. cache'[e] = cache[e]
  BY <1>0, <1>3, OthersStay
<1> QED
  BY <1>1, <1>2, <1>3, <1>4 DEF Spent, input

\* The line that get_next_line returns is another line of the document, or stops it.
LEMMA ReturnText ==
    ASSUME TypeInv, NEW d \in here, Textual(d), GetNextLine(d)
    PROVE  Textual(d)'
<1>0. d \in Docs
  BY SourceTypes DEF TypeInv, TypeOK
<1>1. /\ Document(d)' = Document(d) /\ UNCHANGED <<source, taken>> /\ child[d] = "reading"
      /\ cache[d] # <<>> /\ input' = input
  BY ReturnKeeps DEF GetNextLine, input
<1>2. PICK w \in Seq(Pieces) :
         /\ w = line'[d] /\ w # <<>>
         /\ \A k \in 1..(Len(w) - 1) : k \notin Ends(w)
         /\ Len(w) \in Ends(w) \/ Spent(d)'
         /\ child'[d] = IF IsDelimiter(d, w) THEN "exited" ELSE "writing"
  BY <1>0, <1>1, LineIs DEF Spent
<1>3. OneLine(w)
  BY <1>2 DEF OneLine
<1>4. PICK s \in Seq(Pieces) : s = Document(d) /\ Closed(s) /\ Stops(d, s) = {}
  BY <1>0, <1>1, HeldTypes DEF Textual, Passed, Spent
<1>5. CASE IsDelimiter(d, w)
  <2>1. child'[d] = "exited" /\ Passed(d)' = s
    BY <1>1, <1>2, <1>4, <1>5 DEF Passed
  <2>2. Stops(d, Passed(d))' = {}
    BY <1>1, <1>4, <2>1 DEF Stops, IsLine, Ends, IsDelimiter, Text
  <2>3. Closed(Passed(d))'
    BY <1>1, <1>4, <2>1 DEF Closed, Ends
  <2>4. OneLine(line[d])' /\ IsDelimiter(d, line[d])'
    BY <1>1, <1>2, <1>3, <1>5 DEF OneLine, Ends, IsDelimiter, Text
  <2>5. (Len(line[d]) \in Ends(line[d]))' \/ Spent(d)'
    BY <1>1, <1>2 DEF Ends
  <2> QED
    BY <2>1, <2>2, <2>3, <2>4, <2>5 DEF Textual
<1>6. CASE ~IsDelimiter(d, w)
  <2>1. child'[d] = "writing" /\ Passed(d)' = s \o w
    BY <1>1, <1>2, <1>4, <1>6 DEF Passed
  <2>2. Stops(d, s \o w) = {} /\ (Len(w) \in Ends(w) => Closed(s \o w))
    BY <1>3, <1>4, <1>6, AddLine
  <2>3. Stops(d, Passed(d))' = {}
    BY <1>1, <2>1, <2>2 DEF Stops, IsLine, Ends, IsDelimiter, Text
  <2>4. Closed(Passed(d))' \/ Spent(d)'
    <3>1. Closed(s \o w) => Closed(Passed(d))'
      BY <1>1, <2>1 DEF Closed, Ends
    <3> QED
      BY <1>2, <2>2, <3>1
  <2> QED
    BY <2>1, <2>3, <2>4 DEF Textual
<1> QED
  BY <1>5, <1>6

\* Every step keeps what is said of the text.
LEMMA NextText == TypeInv /\ PlaceInv /\ TextInv /\ [Next]_vars => TextInv'
<1> SUFFICES ASSUME TypeInv, PlaceInv, TextInv, [Next]_vars, NEW e \in here',
                    child'[e] \notin {"SIGINT", "SIGQUIT"}
             PROVE  Textual(e)'
  BY DEF TextInv
<1>0. source' = source
  BY SourceSame
<1>1. e \in here /\ e \in Docs /\ input' = input
  BY <1>0, SourceTypes DEF here, input, TypeInv, TypeOK
<1>2. ASSUME NEW d \in here, ChildStep(d) \/ ParentStep(d) PROVE Textual(e)'
  <2>0. d \in Docs
    BY SourceTypes DEF TypeInv, TypeOK
  <2>1. Spent(e) => Spent(e)'
    BY <1>1, <1>2, SpentStays
  <2>2. CASE e # d
    <3>1. /\ parent'[e] = parent[e] /\ child'[e] = child[e] /\ pipe'[e] = pipe[e]
          /\ body'[e] = body[e] /\ cache'[e] = cache[e] /\ line'[e] = line[e]
      BY <1>1, <1>2, <2>2, OthersStay
    <3>2. Textual(e) /\ Passed(e)' = Passed(e)
      BY <1>1, <3>1 DEF TextInv, Passed, Document
    <3> QED
      BY <1>0, <2>1, <3>1, <3>2, TextSame
  <2>3. CASE e = d /\ ParentStep(d)
    <3>1. /\ Document(d)' = Document(d) /\ UNCHANGED <<source, taken, cache, line>>
          /\ \/ child'[d] = child[d]
             \/ child[d] = "none" /\ child'[d] = "inherited"
      BY <2>3, ParentKeeps
    <3>2. Textual(e) /\ Passed(e)' = Passed(e)
      BY <1>1, <2>3, <3>1 DEF TextInv, Passed
    <3> QED
      BY <1>0, <2>1, <2>3, <3>1, <3>2, TextSame
  <2>4. CASE e = d /\ ProcessLine(d)
    <3>1. /\ (Document(d) \o line[d])' = Document(d) \o line[d]
          /\ child[d] = "writing"
          /\ \/ child'[d] = "writing"
             \/ child'[d] = "reading" /\ Document(d)' = Document(d) \o line[d]
      BY <2>4, WriteKeeps
    <3>2. Textual(e) /\ Passed(e)' = Passed(e) /\ child'[e] # "exited"
      BY <1>1, <2>4, <3>1 DEF TextInv, Passed
    <3> QED
      BY <1>0, <2>1, <3>2, TextSame
  <2>5. CASE e = d /\ TakeDate(d)
    <3>1. /\ Document(d)' = Document(d) /\ UNCHANGED <<source, child, line>>
          /\ child[d] = "reading"
      BY <2>5, ReadGrows
    <3>2. Textual(e) /\ Passed(e)' = Passed(e) /\ child'[e] # "exited"
      BY <1>1, <2>5, <3>1 DEF TextInv, Passed
    <3> QED
      BY <1>0, <2>1, <3>2, TextSame
  <2>6. CASE e = d /\ GetNextLine(d)
    <3>1. Textual(d)
      BY <2>6, ReturnKeeps DEF TextInv
    <3> QED
      BY <2>6, <3>1, ReturnText
  <2>7. CASE e = d /\ (DefaultSignals(d) \/ CatchInterrupt(d) \/ HandleEof(d))
    <3>1. /\ Document(d)' = Document(d) /\ UNCHANGED <<source, taken, cache, line>>
          /\ line[d] = <<>>
          /\ \/ child[d] \in {"inherited", "default"} /\ child'[d] \in {"default", "reading"}
             \/ /\ child[d] = "reading" /\ child'[d] = "exited" /\ taken = Len(input)
                /\ cache[d] = <<>>
      BY <2>7, QuietKeeps
    <3>2. Textual(d) /\ Passed(d)' = Passed(d)
      BY <2>7, <3>1 DEF TextInv, Passed
    <3>3. CASE child'[d] # "exited"
      BY <1>0, <2>1, <2>7, <3>2, <3>3, TextSame
    <3>4. CASE child'[d] = "exited"
      <4>1. Spent(d)' /\ line'[d] = <<>>
        BY <1>1, <3>1, <3>4 DEF Spent
      <4>2. Stops(d, Passed(d))' = {}
        BY <1>1, <3>2 DEF Textual, Stops, IsLine, Ends, IsDelimiter, Text
      <4> QED
        BY <2>7, <4>1, <4>2 DEF Textual
    <3> QED
      BY <3>3, <3>4
  <2> QED
    BY <1>2, <2>2, <2>3, <2>4, <2>5, <2>6, <2>7 DEF ChildStep
<1>3. CASE Type \/ UNCHANGED vars
  <2>1. UNCHANGED <<taken, child, cache, line, pipe, body>>
    BY <1>3 DEF Type, vars, ParentVars
  <2>2. Textual(e) /\ Passed(e)' = Passed(e) /\ (Spent(e) => Spent(e)')
    BY <1>1, <2>1 DEF TextInv, Passed, Document, Spent
  <2> QED
    BY <1>0, <2>1, <2>2, TextSame
<1>4. ASSUME NEW sig \in {"SIGINT", "SIGQUIT"}, Press(sig) PROVE Textual(e)'
  <2>1. UNCHANGED <<taken, cache, line, pipe, body>>
    BY <1>4 DEF Press
  <2>2. child'[e] = child[e]
    BY <1>1, <1>4 DEF Press, Killed
  <2>3. Textual(e) /\ Passed(e)' = Passed(e) /\ (Spent(e) => Spent(e)')
    BY <1>1, <2>1, <2>2 DEF TextInv, Passed, Document, Spent
  <2> QED
    BY <1>0, <2>1, <2>2, <2>3, TextSame
<1> QED
  BY <1>2, <1>3, <1>4 DEF Next

-----------------------------------------------------------------------------
(***************************************************************************)
(* One heredoc.                                                            *)
(***************************************************************************)
\* A lone heredoc holds the first pieces of the input.
FirstPieces(n) == [k \in 1..n |-> k]
LoneInv == \A d \in here : here = {d} => Held(d) = FirstPieces(taken)

LEMMA FirstTyped ==
    ASSUME NEW l \in Nat, NEW n \in 0..l, Pieces = 1..l
    PROVE  FirstPieces(n) \in Seq(Pieces) /\ Len(FirstPieces(n)) = n /\ \A k \in 1..n : FirstPieces(n)[k] = k
<1>1. \A k \in 1..n : k \in Pieces
  OBVIOUS
<1> QED
  BY <1>1 DEF FirstPieces

\* A read() puts the next pieces behind the first ones.
LEMMA FirstGrow ==
    ASSUME TypeInv, NEW a \in Seq(Pieces), taken + Len(a) <= Len(input),
           \A k \in 1..Len(a) : a[k] = taken + k, FirstPieces(taken) \in Seq(Pieces)
    PROVE  FirstPieces(taken) \o a = FirstPieces(taken + Len(a))
<1>1. taken \in Nat /\ Len(a) \in Nat /\ Pieces = 1..Len(input) /\ Len(input) \in Nat
  BY SourceTypes, LenProperties DEF TypeInv, TypeOK
<1>2. PICK f \in Seq(Pieces) : f = FirstPieces(taken) /\ Len(f) = taken /\ \A k \in 1..taken : f[k] = k
  BY <1>1, FirstTyped
<1>3. PICK g \in Seq(Pieces) :
         /\ g = FirstPieces(taken + Len(a)) /\ Len(g) = taken + Len(a)
         /\ \A k \in 1..(taken + Len(a)) : g[k] = k
  <2>1. taken + Len(a) \in Nat
    BY <1>1
  <2> QED
    BY <1>1, <2>1, FirstTyped
<1>4. /\ f \o a \in Seq(Pieces) /\ Len(f \o a) = taken + Len(a)
      /\ \A k \in 1..(taken + Len(a)) : (f \o a)[k] = IF k <= taken THEN f[k] ELSE a[k - taken]
  <2>1. /\ f \o a \in Seq(Pieces) /\ Len(f \o a) = Len(f) + Len(a)
        /\ \A k \in 1..(Len(f) + Len(a)) : (f \o a)[k] = IF k <= Len(f) THEN f[k] ELSE a[k - Len(f)]
    BY ConcatProperties
  <2> QED
    BY <1>2, <2>1
<1>5. ASSUME NEW k \in 1..(taken + Len(a)) PROVE (f \o a)[k] = g[k]
  <2>1. CASE k <= taken
    BY <1>1, <1>2, <1>3, <1>4, <2>1
  <2>2. CASE ~(k <= taken)
    <3>1. k - taken \in 1..Len(a) /\ taken + (k - taken) = k
      BY <1>1, <2>2
    <3>2. a[k - taken] = k
      BY <3>1
    <3> QED
      BY <1>3, <1>4, <2>2, <3>2
  <2> QED
    BY <2>1, <2>2
<1>6. f \o a = g
  BY <1>3, <1>4, <1>5, SeqEqual
<1> QED
  BY <1>2, <1>3, <1>6

\* Every step keeps what a lone heredoc holds.
LEMMA NextLone == TypeInv /\ PlaceInv /\ LoneInv /\ [Next]_vars => LoneInv'
<1> SUFFICES ASSUME TypeInv, PlaceInv, LoneInv, [Next]_vars, NEW d \in here', here' = {d}
             PROVE  Held(d)' = FirstPieces(taken')
  BY DEF LoneInv, FirstPieces
<1>0. source' = source
  BY SourceSame
<1>1. here = {d} /\ d \in here /\ d \in Docs /\ Held(d) = FirstPieces(taken)
  BY <1>0, SourceTypes DEF here, LoneInv, TypeInv, TypeOK
<1>2. CASE TakeDate(d)
  <2>1. PICK a \in Seq(Pieces) :
           /\ a = Available /\ Held(d)' = Held(d) \o a /\ taken' = taken + Len(a)
           /\ taken' <= typed /\ \A k \in 1..Len(a) : a[k] = taken + k
    BY <1>1, <1>2, ReadIs, ReadGrows
  <2>2. taken + Len(a) <= Len(input) /\ FirstPieces(taken) \in Seq(Pieces)
    <3>1. typed <= Len(input) /\ typed \in Nat /\ taken \in Nat /\ Len(input) \in Nat /\ Len(a) \in Nat
      BY <1>1, Parts, LenProperties
    <3>2. Held(d) \in Seq(Pieces)
      BY <1>1, HeldTypes
    <3> QED
      BY <1>1, <2>1, <3>1, <3>2
  <2>3. FirstPieces(taken) \o a = FirstPieces(taken + Len(a))
    BY <2>1, <2>2, FirstGrow
  <2> QED
    BY <1>1, <2>1, <2>3
<1>3. CASE (ChildStep(d) \/ ParentStep(d)) /\ ~TakeDate(d)
  <2>1. Held(d)' = Held(d)
    BY <1>1, <1>3, HeldSame
  <2>2. taken' = taken
    BY <1>3 DEF ChildStep, ParentStep, DefaultSignals, CatchInterrupt, GetNextLine, HandleEof,
       ProcessLine, Fork, ParentWaits, ChildEnded, CommandReads
  <2> QED
    BY <1>1, <2>1, <2>2
<1>4. CASE Type \/ UNCHANGED vars
  BY <1>1, <1>4 DEF Type, vars, ParentVars, Held, Document
<1>5. ASSUME NEW sig \in {"SIGINT", "SIGQUIT"}, Press(sig) PROVE Held(d)' = FirstPieces(taken')
  BY <1>1, <1>5 DEF Press, Held, Document
<1> QED
  BY <1>1, <1>2, <1>3, <1>4, <1>5 DEF Next

\* Where the first delimiter stops the input: behind a document that it does not stop.
LEMMA FirstStop ==
    ASSUME TypeInv, NEW d, NEW s \in Seq(Pieces), NEW w \in Seq(Pieces),
           Len(s) + Len(w) <= Len(input), \A k \in 1..Len(s) : s[k] = k,
           \A k \in 1..Len(w) : w[k] = Len(s) + k,
           Closed(s), Stops(d, s) = {}, OneLine(w), IsDelimiter(d, w),
           Len(w) \in Ends(w) \/ Len(s) + Len(w) = Len(input)
    PROVE  BodyEnd(d) = Len(s)
<1>1. PICK m \in Nat, n \in Nat : m = Len(s) /\ n = Len(w) /\ n >= 1
  <2>1. Len(s) \in Nat /\ Len(w) \in Nat
    BY LenProperties
  <2>2. w # <<>>
    BY DEF OneLine
  <2>3. Len(w) # 0
    BY <2>2, EmptySeq
  <2> QED
    BY <2>1, <2>3
<1>2. PICK l \in Nat : l = Len(input) /\ Pieces = 1..l
  BY SourceTypes DEF TypeInv, TypeOK, Pieces
<1>3. PICK t \in Seq(Pieces) : t = AllPieces /\ Len(t) = l /\ \A k \in 1..l : t[k] = k
  <2>1. AllPieces = FirstPieces(l)
    BY <1>2 DEF AllPieces, FirstPieces
  <2>2. FirstPieces(l) \in Seq(Pieces) /\ Len(FirstPieces(l)) = l /\ \A k \in 1..l : FirstPieces(l)[k] = k
    <3>1. l \in 0..l
      OBVIOUS
    <3> QED
      BY <1>2, <3>1, FirstTyped
  <2> QED
    BY <2>1, <2>2
<1>H. m + n <= l
  BY <1>1, <1>2
<1>D. DOMAIN t = 1..l /\ DOMAIN s = 1..m
  BY <1>1, <1>3, LenProperties
<1>4. /\ \A k \in 1..m : t[k] = s[k]
      /\ \A k \in 1..n : t[m + k] = w[k]
  <2>1. \A k \in 1..m : k \in 1..l
    BY <1>H
  <2>2. \A k \in 1..n : m + k \in 1..l
    BY <1>H
  <2> QED
    BY <1>1, <1>3, <2>1, <2>2
<1>5. \A k \in 1..n : m + k \in Ends(t) <=> k \in Ends(w)
  <2>1. \A k \in 1..n : m + k \in 1..l
    BY <1>H
  <2>2. \A k \in 1..n : k \in Ends(w) <=> input[w[k]].ends
    BY <1>1, EndsAre
  <2>3. \A k \in 1..n : m + k \in Ends(t) <=> input[t[m + k]].ends
    BY <1>3, <2>1, EndsAre
  <2> QED
    BY <1>4, <2>2, <2>3
<1>6. IsLine(t, m + 1, m + n)
  <2>1. m + 1 = 1 \/ (m + 1) - 1 \in Ends(t)
    <3>1. CASE s = <<>>
      BY <1>1, <3>1
    <3>2. CASE s # <<>>
      <4>1. m \in Ends(s) /\ m >= 1
        BY <1>1, <3>2, EmptySeq, <1>1 DEF Closed
      <4>2. m \in 1..m /\ m \in 1..l /\ (m + 1) - 1 = m
        BY <1>3, <1>H, <4>1
      <4>3. input[s[m]].ends
        BY <4>1, <4>2, EndsAre
      <4> QED
        BY <1>1, <1>2, <1>3, <1>4, <4>2, <4>3, EndsAre
    <3> QED
      BY <3>1, <3>2
  <2>2. \A k \in (m + 1)..((m + n) - 1) : k \notin Ends(t)
    <3>1. \A k \in 1..(n - 1) : k \in 1..n /\ k \notin Ends(w)
      BY <1>1 DEF OneLine
    <3>2. \A k \in (m + 1)..((m + n) - 1) : k - m \in 1..(n - 1) /\ m + (k - m) = k
      BY <1>1
    <3>3. \A k \in 1..(n - 1) : m + k \notin Ends(t)
      BY <1>1, <1>5, <3>1
    <3> QED
      BY <3>2, <3>3
  <2>3. m + n \in Ends(t) \/ m + n = Len(t)
    <3>1. n \in 1..n
      BY <1>1
    <3> QED
      BY <1>1, <1>2, <1>3, <1>5, <3>1
  <2> QED
    BY <2>1, <2>2, <2>3 DEF IsLine
<1>7. SubSeq(t, m + 1, m + n) = w
  <2>1. 1 \in 1..n /\ n \in 1..n /\ m + n <= Len(t)
    BY <1>1, <1>3, <1>H
  <2>2. SubSeq(t, m + 1, m + n) = SubSeq(w, 1, n)
    BY <1>1, <1>2, <1>4, <2>1, SamePart
  <2> QED
    BY <1>1, <2>2, SubSeqFull
<1>8. m + 1 \in Stops(d, t)
  <2>1. m + 1 \in DOMAIN t /\ m + n \in (m + 1)..Len(t)
    BY <1>D, <1>1, <1>3, <1>H
  <2> QED
    BY <1>1, <1>3, <1>6, <1>7, <2>1 DEF Stops
<1>9. ASSUME NEW i \in Stops(d, t) PROVE i \in Nat /\ m + 1 <= i
  <2>1. PICK j \in i..Len(t) : IsLine(t, i, j) /\ IsDelimiter(d, SubSeq(t, i, j))
    BY <1>3, <1>9 DEF Stops
  <2>2. i \in 1..l
    BY <1>D, <1>9 DEF Stops
  <2>3. CASE i <= m
    <3>1. i \in 1..Len(s) /\ Len(s) <= Len(t) /\ \A k \in 1..Len(s) : t[k] = s[k]
      BY <1>1, <1>3, <1>H, <1>4, <2>2, <2>3
    <3>2. j \in i..Len(s) /\ IsLine(s, i, j) /\ SubSeq(t, i, j) = SubSeq(s, i, j)
      BY <2>1, <3>1, LineOfPart
    <3>3. i \in Stops(d, s)
      <4>1. DOMAIN s = 1..Len(s)
        BY <1>1, <1>D
      <4> QED
        BY <1>1, <1>3, <2>1, <3>1, <3>2, <4>1 DEF Stops
    <3> QED
      BY <3>3
  <2> QED
    BY <1>1, <2>2, <2>3
<1>10. PICK z \in Stops(d, t) : z = Min(Stops(d, t)) /\ \A k \in Stops(d, t) : z <= k
  <2>1. Stops(d, t) \in SUBSET Nat /\ Stops(d, t) # {}
    BY <1>8, <1>9
  <2> QED
    BY <2>1, LeastIs
<1>11. z = m + 1
  BY <1>1, <1>8, <1>9, <1>10
<1>12. BodyEnd(d) = z - 1
  BY <1>8, <1>10, <1>3 DEF BodyEnd
<1> QED
  BY <1>1, <1>11, <1>12

\* At first nothing is read.
LEMMA InitLone == Init => PlaceInv /\ TextInv /\ LoneInv
<1> SUFFICES ASSUME Init PROVE PlaceInv /\ TextInv /\ LoneInv
  OBVIOUS
<1>1. here \subseteq Docs
  BY SourceTypes DEF Init
<1>2. PlaceInv
  BY DEF Init, PlaceInv, Places
<1>3. ASSUME NEW d \in here PROVE Textual(d) /\ Held(d) = FirstPieces(taken)
  <2>1. /\ body[d] = <<>> /\ pipe[d] = <<>> /\ cache[d] = <<>> /\ line[d] = <<>>
        /\ child[d] = "none" /\ taken = 0
    BY <1>1, <1>3 DEF Init
  <2>2. Passed(d) = <<>> /\ Held(d) = <<>>
    <3>1. <<>> \o <<>> = <<>>
      BY EmptySeq, ConcatEmptySeq
    <3> QED
      BY <2>1, <3>1 DEF Passed, Held, Document
  <2>3. Stops(d, <<>>) = {}
    BY DEF Stops
  <2>4. FirstPieces(0) = <<>>
    BY DEF FirstPieces
  <2> QED
    BY <2>1, <2>2, <2>3, <2>4 DEF Textual, Closed
<1> QED
  BY <1>2, <1>3 DEF LoneInv, TextInv

\* The types, the places, the text and the lone heredoc's invariant hold throughout.
LEMMA LoneAlways == Spec => [](TypeInv /\ PlaceInv /\ TextInv /\ LoneInv)
<1> QED
  BY InitTypes, InitLone, NextTypes, NextPlaces, NextText, NextLone, PTL DEF Spec

\* The command of a lone heredoc reads exactly the lines before the first delimiter,
\* or the whole input without one, in order, whatever a read() returns at once and
\* however the lines are torn.
THEOREM BodyIsTextAlways == Spec => []BodyIsText
<1>1. TypeInv /\ PlaceInv /\ TextInv /\ LoneInv => BodyIsText
  <2> SUFFICES ASSUME TypeInv, PlaceInv, TextInv, LoneInv, NEW d \in here, here = {d},
                      parent[d] = "done"
               PROVE  body[d] = [k \in 1..BodyEnd(d) |-> k]
    BY DEF BodyIsText
  <2>0. d \in Docs
    BY SourceTypes DEF TypeInv, TypeOK
  <2>1. child[d] = "exited" /\ pipe[d] = <<>>
    BY <2>0 DEF PlaceInv, Places
  <2> DEFINE s == body[d]
             w == line[d]
             c == cache[d]
  <2>2. /\ s \in Seq(Pieces) /\ w \in Seq(Pieces) /\ c \in Seq(Pieces)
        /\ Len(s) \in Nat /\ Len(w) \in Nat /\ Len(c) \in Nat /\ Len(input) \in Nat
        /\ taken \in Nat /\ taken <= Len(input) /\ typed \in Nat /\ Pieces = 1..Len(input)
    <3>1. /\ s \in Seq(Pieces) /\ w \in Seq(Pieces) /\ c \in Seq(Pieces)
          /\ Len(s) \in Nat /\ Len(w) \in Nat /\ Len(c) \in Nat /\ Len(input) \in Nat
          /\ taken \in Nat /\ taken <= typed /\ typed <= Len(input) /\ typed \in Nat
          /\ Pieces = 1..Len(input)
      BY <2>0, Parts
    <3> HIDE DEF s, w, c
    <3> QED
      BY <3>1
  <2>3. Document(d) = s
    BY <2>1, <2>2, ConcatEmptySeq DEF Document
  <2>4. (s \o w) \o c = FirstPieces(taken)
    BY <2>3 DEF LoneInv, Held
  <2>5. /\ Stops(d, s) = {}
        /\ Closed(s) \/ w = <<>>
        /\ \/ w = <<>> /\ taken = Len(input) /\ c = <<>>
           \/ /\ OneLine(w) /\ IsDelimiter(d, w)
              /\ Len(w) \in Ends(w) \/ (taken = Len(input) /\ c = <<>>)
    BY <2>1, <2>3 DEF TextInv, Textual, Passed, Spent
  <2> HIDE DEF s, w, c
  <2>6. /\ Len(s) + Len(w) + Len(c) = taken
        /\ \A k \in 1..Len(s) : s[k] = k
        /\ \A k \in 1..Len(w) : w[k] = Len(s) + k
    <3>1. /\ s \o w \in Seq(Pieces) /\ Len(s \o w) = Len(s) + Len(w)
          /\ \A k \in 1..(Len(s) + Len(w)) : (s \o w)[k] = IF k <= Len(s) THEN s[k] ELSE w[k - Len(s)]
      BY <2>2, ConcatProperties
    <3> DEFINE sw == s \o w
               f == FirstPieces(taken)
    <3>2. /\ Len(f) = taken /\ \A k \in 1..taken : f[k] = k
      BY <2>2 DEF FirstPieces
    <3>3. sw \in Seq(Pieces) /\ sw \o c = f
      BY <2>4, <3>1
    <3> HIDE DEF sw, f
    <3>4. /\ Len(f) = Len(sw) + Len(c)
          /\ \A k \in 1..(Len(sw) + Len(c)) : f[k] = IF k <= Len(sw) THEN sw[k] ELSE c[k - Len(sw)]
      BY <2>2, <3>3, ConcatProperties
    <3>5. Len(sw) = Len(s) + Len(w) /\ Len(s) + Len(w) + Len(c) = taken
      BY <2>2, <3>1, <3>2, <3>4 DEF sw
    <3>6. \A k \in 1..(Len(s) + Len(w)) : sw[k] = k
      <4>1. \A k \in 1..(Len(s) + Len(w)) : k \in 1..taken /\ k \in 1..(Len(sw) + Len(c)) /\ k <= Len(sw)
        BY <2>2, <3>5
      <4> QED
        BY <3>2, <3>4, <4>1
    <3>7. \A k \in 1..Len(s) : s[k] = k
      <4>1. \A k \in 1..Len(s) : k \in 1..(Len(s) + Len(w)) /\ k <= Len(s)
        BY <2>2
      <4> QED
        BY <3>1, <3>6, <4>1 DEF sw
    <3>8. \A k \in 1..Len(w) : w[k] = Len(s) + k
      <4>1. \A k \in 1..Len(w) : /\ Len(s) + k \in 1..(Len(s) + Len(w)) /\ ~(Len(s) + k <= Len(s))
                                 /\ (Len(s) + k) - Len(s) = k
        BY <2>2
      <4> QED
        BY <3>1, <3>6, <4>1 DEF sw
    <3> QED
      BY <3>5, <3>7, <3>8
  <2>7. BodyEnd(d) = Len(s)
    <3>1. CASE w # <<>>
      <4>1. Closed(s) /\ OneLine(w) /\ IsDelimiter(d, w)
        BY <2>5, <3>1
      <4>2. Len(s) + Len(w) <= Len(input)
        BY <2>2, <2>6
      <4>3. Len(w) \in Ends(w) \/ Len(s) + Len(w) = Len(input)
        <5>1. c = <<>> => Len(c) = 0
          OBVIOUS
        <5>2. c = <<>> => Len(s) + Len(w) = taken
          BY <2>2, <2>6, <5>1
        <5> QED
          BY <2>5, <3>1, <5>2
      <4> QED
        BY <2>2, <2>5, <2>6, <4>1, <4>2, <4>3, FirstStop
    <3>2. CASE w = <<>>
      <4>1. taken = Len(input) /\ c = <<>>
        BY <2>5, <3>2 DEF OneLine
      <4>2. Len(w) = 0 /\ Len(c) = 0
        BY <3>2, <4>1
      <4>3. Len(s) = Len(input)
        BY <2>2, <2>6, <4>1, <4>2
      <4>4. s = AllPieces
        <5>1. AllPieces \in Seq(Pieces) /\ Len(AllPieces) = Len(input)
              /\ \A k \in 1..Len(input) : AllPieces[k] = k
          BY <2>2 DEF AllPieces
        <5> QED
          BY <2>2, <2>6, <4>3, <5>1, SeqEqual
      <4> QED
        BY <2>5, <4>3, <4>4 DEF BodyEnd
    <3> QED
      BY <3>1, <3>2
  <2>8. s = [k \in 1..Len(s) |-> k]
    <3> DEFINE g == [k \in 1..Len(s) |-> k]
    <3>1. \A k \in 1..Len(s) : k \in Pieces
      BY <2>2, <2>6
    <3>2. g \in Seq(Pieces) /\ Len(g) = Len(s) /\ \A k \in 1..Len(s) : g[k] = k
      BY <2>2, <3>1
    <3> HIDE DEF g
    <3>3. s = g
      BY <2>2, <2>6, <3>2, SeqEqual
    <3> QED
      BY <3>3 DEF g
  <2> QED
    BY <2>7, <2>8 DEF s
<1> QED
  BY <1>1, LoneAlways, PTL


-----------------------------------------------------------------------------
(***************************************************************************)
(* Heredocs that read one piece at a time.                                 *)
(***************************************************************************)
\* A buffer holds no more than one line, and nothing when its child has exited; what a
\* heredoc holds was read, in typing order; and what was read is held by one heredoc.
Divided(d) ==
    /\ \A k \in 1..(Len(cache[d]) - 1) : k \notin Ends(cache[d])
    /\ child[d] = "exited" => cache[d] = <<>>
    /\ Increasing(Held(d))
    /\ \A y \in ToSet(Held(d)) : y <= taken
Shared == \A k \in 1..taken : \E d \in here : \A e \in here : k \in ToSet(Held(e)) <=> e = d
DivideInv == chunk = 1 => Shared /\ \A d \in here : Divided(d)

\* What a step that moves no piece of a heredoc keeps.
LEMMA DividedSame ==
    ASSUME UNCHANGED source, NEW e, Divided(e), cache'[e] = cache[e], Held(e)' = Held(e),
           taken' = taken, child'[e] = "exited" => child[e] = "exited"
    PROVE  Divided(e)'
<1>1. input' = input
  BY DEF input
<1>2. (\A k \in 1..(Len(cache[e]) - 1) : k \notin Ends(cache[e]))'
  BY <1>1 DEF Divided, Ends
<1>3. Increasing(Held(e))'
  BY DEF Divided, Increasing
<1>4. (\A y \in ToSet(Held(e)) : y <= taken)'
  BY DEF Divided, ToSet
<1> QED
  BY <1>2, <1>3, <1>4 DEF Divided

LEMMA SharedSame ==
    ASSUME UNCHANGED source, taken' = taken, Shared, \A e \in here : Held(e)' = Held(e)
    PROVE  Shared'
<1>1. here' = here
  BY DEF here
<1>2. \A e \in here : ToSet(Held(e))' = ToSet(Held(e))
  BY DEF ToSet
<1> QED
  BY <1>1, <1>2 DEF Shared

\* A read() gives the next piece to the heredoc that reads.
LEMMA ReadDivides ==
    ASSUME TypeInv, chunk = 1, Shared, \A e \in here : Divided(e), NEW d \in here, TakeDate(d)
    PROVE  Shared' /\ \A e \in here : Divided(e)'
<1>0. d \in Docs /\ here \subseteq Docs /\ here' = here /\ source' = source /\ input' = input
      /\ child' = child
  BY SourceTypes, ReadGrows DEF TypeInv, TypeOK, here, input
<1>1. /\ taken \in Nat /\ Pieces \in SUBSET Nat
      /\ \A e \in here : Held(e) \in Seq(Pieces) /\ cache[e] \in Seq(Pieces)
  BY <1>0, Parts, HeldTypes
<1>2. PICK x \in Pieces : x = taken + 1 /\ Available = <<x>> /\ taken' = x /\ <<x>> \in Seq(Pieces)
  <2>1. PICK a \in Seq(Pieces) : a = Available /\ Len(a) = 1 /\ taken' = taken + 1 /\ a[1] = taken + 1
    BY <1>0, <1>1, ReadIs
  <2>2. a = <<a[1]>> /\ a[1] \in Pieces
    BY <2>1
  <2> QED
    BY <2>1, <2>2
<1>3. Held(d)' = Held(d) \o <<x>> /\ cache'[d] = cache[d] \o <<x>> /\ Ends(cache[d]) = {}
  BY <1>0, <1>2, ReadGrows, ReadIs
<1>4. \A e \in here : e # d => Held(e)' = Held(e) /\ cache'[e] = cache[e]
  BY <1>0, OthersStay DEF ChildStep, Held, Document
<1>5. \A y : y \in ToSet(Held(d))' <=> y \in ToSet(Held(d)) \/ y = x
  <2>1. ToSet(Held(d))' = ToSet(Held(d) \o <<x>>)
    BY <1>3 DEF ToSet
  <2>2. ToSet(<<x>>) = {x}
    BY DEF ToSet
  <2>3. \A y : y \in ToSet(Held(d) \o <<x>>) <=> y \in ToSet(Held(d)) \/ y \in ToSet(<<x>>)
    BY <1>1, <1>2, ConcatHolds
  <2> QED
    BY <2>1, <2>2, <2>3
<1>6. \A e \in here : e # d => ToSet(Held(e))' = ToSet(Held(e))
  BY <1>4 DEF ToSet
<1>7. \A e \in here : \A y \in ToSet(Held(e)) : y \in Nat /\ y <= taken /\ y # x
  <2>1. ASSUME NEW e \in here, NEW y \in ToSet(Held(e)) PROVE y \in Nat /\ y <= taken /\ y # x
    <3>1. PICK h \in Seq(Pieces) : h = Held(e)
      BY <1>1
    <3>2. y \in Pieces
      BY <3>1, LenProperties DEF ToSet
    <3>3. y <= taken
      BY DEF Divided
    <3> QED
      BY <1>1, <1>2, <3>2, <3>3
  <2> QED
    BY <2>1
<1>8. Shared'
  <2>1. ASSUME NEW k \in 1..x PROVE \E c \in here : \A e \in here : k \in ToSet(Held(e))' <=> e = c
    <3>1. CASE k = x
      BY <1>5, <1>6, <1>7, <3>1
    <3>2. CASE k # x
      <4>1. k \in 1..taken
        BY <1>1, <1>2, <3>2
      <4> QED
        BY <1>5, <1>6, <3>2, <4>1 DEF Shared
    <3> QED
      BY <3>1, <3>2
  <2> QED
    BY <1>0, <1>2, <2>1 DEF Shared
<1>9. ASSUME NEW e \in here PROVE Divided(e)'
  <2>1. CASE e = d
    <3>1. (\A k \in 1..(Len(cache[d]) - 1) : k \notin Ends(cache[d]))'
      <4>1. PICK c \in Seq(Pieces), m \in Nat : c = cache[d] /\ m = Len(c) /\ Ends(c) = {}
        BY <1>1, <1>3, LenProperties
      <4>2. PICK b \in Seq(Pieces) :
               /\ b = cache'[d] /\ Len(b) = m + 1 /\ \A k \in 1..m : b[k] = c[k]
        <5>1. /\ c \o <<x>> \in Seq(Pieces) /\ c \o <<x>> = Append(c, x)
              /\ Len(Append(c, x)) = m + 1 /\ \A k \in 1..m : Append(c, x)[k] = c[k]
          BY <1>2, <4>1, ConcatProperties, AppendProperties, AppendIsConcat
        <5>2. cache'[d] = c \o <<x>>
          BY <1>3, <4>1
        <5>3. /\ cache'[d] \in Seq(Pieces) /\ Len(cache'[d]) = m + 1
              /\ \A k \in 1..m : cache'[d][k] = c[k]
          BY <5>1, <5>2
        <5> QED
          BY <5>3
      <4>3. \A k \in 1..m : ~input[c[k]].ends
        BY <4>1, EndsAre
      <4>4. \A k \in 1..m : k \notin Ends(b)
        BY <4>2, <4>3, EndsAre
      <4>5. Ends(cache[d])' = Ends(b) /\ (Len(cache[d]) - 1)' = m
        BY <1>0, <4>2 DEF Ends
      <4> QED
        BY <4>4, <4>5
    <3>2. Increasing(Held(d))'
      <4>1. \A y \in ToSet(Held(d)) : y < x
        BY <1>1, <1>2, <1>7
      <4>2. Increasing(Held(d))
        BY DEF Divided
      <4>3. Increasing(Held(d) \o <<x>>)
        BY <1>1, <1>2, <4>1, <4>2, StaysIncreasing
      <4> QED
        BY <1>3, <4>3 DEF Increasing
    <3>3. (\A y \in ToSet(Held(d)) : y <= taken)'
      BY <1>1, <1>2, <1>5, <1>7
    <3>4. child'[d] # "exited"
      BY <1>0 DEF TakeDate
    <3> QED
      BY <2>1, <3>1, <3>2, <3>3, <3>4 DEF Divided
  <2>2. CASE e # d
    <3>1. (\A k \in 1..(Len(cache[e]) - 1) : k \notin Ends(cache[e]))'
      BY <1>0, <1>4, <2>2 DEF Divided, Ends
    <3>2. Increasing(Held(e))'
      BY <1>4, <2>2 DEF Divided, Increasing
    <3>3. (\A y \in ToSet(Held(e)) : y <= taken)'
      BY <1>1, <1>2, <1>6, <1>7, <2>2
    <3>4. child'[e] = "exited" => cache'[e] = <<>>
      BY <1>0, <1>4, <2>2 DEF Divided
    <3> QED
      BY <3>1, <3>2, <3>3, <3>4 DEF Divided
  <2> QED
    BY <2>1, <2>2
<1> QED
  BY <1>8, <1>9

\* Every step keeps how heredocs divide what is typed.
LEMMA NextDivide == TypeInv /\ PlaceInv /\ DivideInv /\ [Next]_vars => DivideInv'
<1> SUFFICES ASSUME TypeInv, PlaceInv, DivideInv, [Next]_vars PROVE DivideInv'
  OBVIOUS
<1>0. source' = source
  BY SourceSame
<1> SUFFICES ASSUME chunk' = 1 PROVE Shared' /\ \A e \in here : Divided(e)'
  BY <1>0 DEF DivideInv, here
<1>1. chunk = 1 /\ Shared /\ (\A e \in here : Divided(e)) /\ here \subseteq Docs
  BY <1>0, SourceTypes DEF chunk, DivideInv, TypeInv, TypeOK
<1>2. ASSUME NEW d \in here, ChildStep(d) \/ ParentStep(d), ~TakeDate(d)
      PROVE  Shared' /\ \A e \in here : Divided(e)'
  <2>1. \A e \in here : Held(e)' = Held(e)
    BY <1>2, HeldSame
  <2>2. taken' = taken
    BY <1>2 DEF ChildStep, ParentStep, DefaultSignals, CatchInterrupt, GetNextLine, HandleEof,
       ProcessLine, Fork, ParentWaits, ChildEnded, CommandReads
  <2>3. Shared'
    BY <1>0, <1>1, <2>1, <2>2, SharedSame
  <2>4. ASSUME NEW e \in here PROVE Divided(e)'
    <3>1. CASE e # d
      <4>1. child'[e] = child[e] /\ cache'[e] = cache[e]
        BY <1>1, <1>2, <3>1, OthersStay
      <4> QED
        BY <1>0, <1>1, <2>1, <2>2, <4>1, DividedSame
    <3>2. CASE e = d /\ GetNextLine(d)
      <4>1. cache'[d] = <<>>
        BY <1>1, <3>2, LineIs DEF Divided
      <4>2. Len(cache'[d]) = 0
        BY <4>1
      <4>3. (\A k \in 1..(Len(cache[d]) - 1) : k \notin Ends(cache[d]))'
        BY <4>2
      <4>4. Increasing(Held(d))'
        BY <1>1, <2>1 DEF Divided, Increasing
      <4>5. (\A y \in ToSet(Held(d)) : y <= taken)'
        BY <1>1, <2>1, <2>2 DEF Divided, ToSet
      <4> QED
        BY <3>2, <4>1, <4>3, <4>4, <4>5 DEF Divided
    <3>3. CASE e = d /\ ~GetNextLine(d)
      <4>1. cache'[d] = cache[d] /\ (child'[d] = "exited" => child[d] = "exited" \/ cache[d] = <<>>)
        <5>1. CASE ParentStep(d)
          BY <5>1, ParentKeeps
        <5>2. CASE ProcessLine(d)
          BY <5>2, WriteKeeps
        <5>3. CASE DefaultSignals(d) \/ CatchInterrupt(d) \/ HandleEof(d)
          BY <5>3, QuietKeeps
        <5> QED
          BY <1>2, <3>3, <5>1, <5>2, <5>3 DEF ChildStep
      <4>2. input' = input
        BY <1>0 DEF input
      <4>3. (\A k \in 1..(Len(cache[d]) - 1) : k \notin Ends(cache[d]))'
        BY <1>1, <4>1, <4>2 DEF Divided, Ends
      <4>4. Increasing(Held(d))'
        BY <1>1, <2>1 DEF Divided, Increasing
      <4>5. (\A y \in ToSet(Held(d)) : y <= taken)'
        BY <1>1, <2>1, <2>2 DEF Divided, ToSet
      <4>6. child'[d] = "exited" => cache'[d] = <<>>
        BY <1>1, <4>1 DEF Divided
      <4> QED
        BY <3>3, <4>3, <4>4, <4>5, <4>6 DEF Divided
    <3> QED
      BY <3>1, <3>2, <3>3
  <2> QED
    BY <2>3, <2>4
<1>3. ASSUME NEW d \in here, TakeDate(d) PROVE Shared' /\ \A e \in here : Divided(e)'
  BY <1>1, <1>3, ReadDivides
<1>4. CASE Type \/ UNCHANGED vars
  <2>1. UNCHANGED <<taken, child, cache, line, pipe, body>>
    BY <1>4 DEF Type, vars, ParentVars
  <2>2. \A e \in here : Held(e)' = Held(e)
    BY <2>1 DEF Held, Document
  <2> QED
    BY <1>0, <1>1, <2>1, <2>2, SharedSame, DividedSame
<1>5. ASSUME NEW sig \in {"SIGINT", "SIGQUIT"}, Press(sig)
      PROVE  Shared' /\ \A e \in here : Divided(e)'
  <2>1. UNCHANGED <<taken, cache, line, pipe, body>>
    BY <1>5 DEF Press
  <2>2. \A e \in here : child'[e] = "exited" => child[e] = "exited"
    BY <1>1, <1>5 DEF Press, Killed
  <2>3. \A e \in here : Held(e)' = Held(e)
    BY <2>1 DEF Held, Document
  <2> QED
    BY <1>0, <1>1, <2>1, <2>2, <2>3, SharedSame, DividedSame
<1> QED
  BY <1>2, <1>3, <1>4, <1>5 DEF Next

\* At first nothing is read.
LEMMA InitDivide == Init => DivideInv
<1> SUFFICES ASSUME Init PROVE Shared /\ \A d \in here : Divided(d)
  BY DEF DivideInv
<1> SUFFICES ASSUME NEW d \in here PROVE Divided(d)
  BY DEF Init, Shared
<1>1. d \in Docs
  BY SourceTypes DEF Init
<1>2. body[d] = <<>> /\ pipe[d] = <<>> /\ cache[d] = <<>> /\ line[d] = <<>> /\ taken = 0
  BY <1>1 DEF Init
<1>3. Held(d) = <<>>
  <2>1. <<>> \o <<>> = <<>>
    BY EmptySeq, ConcatEmptySeq
  <2> QED
    BY <1>2, <2>1 DEF Held, Document
<1> QED
  BY <1>2, <1>3 DEF Divided, Increasing, ToSet

\* From a terminal every piece that was read is with exactly one heredoc, in typing
\* order, and a document is ended by nothing but its delimiter or the end of the
\* input, whatever processes read in between and whatever signals are sent.
THEOREM EveryPieceOnceAlways == Spec => []EveryPieceOnce
<1>1. TypeInv /\ TextInv /\ DivideInv => EveryPieceOnce
  <2> SUFFICES ASSUME TypeInv, TextInv, DivideInv, chunk = 1 PROVE
          /\ \A k \in 1..taken : \E d \in here : \A e \in here : k \in ToSet(Held(e)) <=> e = d
          /\ \A d \in here :
                /\ \A i, j \in DOMAIN Held(d) : i < j => Held(d)[i] < Held(d)[j]
                /\ child[d] = "exited" =>
                       /\ cache[d] = <<>> /\ (line[d] = <<>> \/ IsDelimiter(d, line[d]))
                       /\ Stops(d, Document(d)) = {}
    BY DEF EveryPieceOnce
  <2>1. \A k \in 1..taken : \E d \in here : \A e \in here : k \in ToSet(Held(e)) <=> e = d
    BY DEF DivideInv, Shared
  <2>2. ASSUME NEW d \in here PROVE \A i, j \in DOMAIN Held(d) : i < j => Held(d)[i] < Held(d)[j]
    BY DEF DivideInv, Divided, Increasing
  <2>3. ASSUME NEW d \in here, child[d] = "exited"
        PROVE  /\ cache[d] = <<>> /\ (line[d] = <<>> \/ IsDelimiter(d, line[d]))
               /\ Stops(d, Document(d)) = {}
    <3>1. cache[d] = <<>>
      BY <2>3 DEF DivideInv, Divided
    <3>2. Textual(d) /\ Passed(d) = Document(d)
      BY <2>3 DEF TextInv, Passed
    <3> QED
      BY <2>3, <3>1, <3>2 DEF Textual
  <2> QED
    BY <2>1, <2>2, <2>3
<1>2. Spec => []DivideInv
  BY InitTypes, InitLone, InitDivide, NextTypes, NextPlaces, NextDivide, PTL DEF Spec
<1> QED
  BY <1>1, <1>2, LoneAlways, PTL
=============================================================================
