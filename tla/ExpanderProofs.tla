--------------------------- MODULE ExpanderProofs ---------------------------
(***************************************************************************)
(* Proofs about Expander, for every string, environment and status, every  *)
(* first capacity of the buffer and however many allocations fail: its     *)
(* variables keep their types, and it never writes behind its buffer.      *)
(***************************************************************************)
EXTENDS Expander, SequenceTheorems, WellFoundedInduction, TLAPS

-----------------------------------------------------------------------------
(***************************************************************************)
(* The strings that are appended are strings of characters.                *)
(***************************************************************************)
\* A name that starts at or before the end of a string ends there at the latest:
\* NameEnd chooses a place of the string, or the one behind it.
LEMMA NameEndInText ==
  ASSUME NEW s \in Text, NEW k \in 1..(Len(s) + 1)
  PROVE  NameEnd(s, k) \in k..(Len(s) + 1)
<1> DEFINE Stops == {e \in k..(Len(s) + 1) : CharAt(s, e) \notin NameChar}
<1>1. Len(s) \in Nat /\ DOMAIN s = 1..Len(s)
  BY DEF Text
<1>2. Stops \subseteq Nat /\ Len(s) + 1 \in Stops
  <2>1. CharAt(s, Len(s) + 1) = NUL
    BY <1>1 DEF CharAt
  <2>2. NUL \notin NameChar
    BY CharAssumption DEF Char
  <2> QED
    BY <1>1, <2>1, <2>2
<1>3. PICK e \in Stops : \A j \in Stops : ~ (j < e)
  <2>1. \E e \in Stops : \A j \in Stops : <<j, e>> \notin OpToRel(<, Nat)
    <3> HIDE DEF Stops
    <3> QED
      BY <1>2, NatLessThanWellFounded, WFMin
  <2> QED
    BY <1>2, <2>1 DEF OpToRel
<1>4. \A j \in k..(e - 1) : s[j] \in NameChar
  <2> SUFFICES ASSUME NEW j \in k..(e - 1)
               PROVE  s[j] \in NameChar
    OBVIOUS
  <2>1. j \in k..(Len(s) + 1) /\ j < e /\ j \in DOMAIN s
    BY <1>1
  <2>2. CharAt(s, j) \in NameChar
    BY <1>3, <2>1
  <2> QED
    BY <2>1, <2>2 DEF CharAt
<1>5. \E x \in k..(Len(s) + 1) : /\ CharAt(s, x) \notin NameChar
                                  /\ \A j \in k..(x - 1) : s[j] \in NameChar
  BY <1>4
<1> QED
  BY <1>5 DEF NameEnd

\* What a name stands for is a string of characters, empty if it is not set.
LEMMA NamedIsText ==
  ASSUME NEW s, NEW k, NEW e, \A n \in DOMAIN e : e[n] \in Text
  PROVE  NamedAt(s, k, e) \in Text
<1>1. <<>> \in Text
  BY DEF Text
<1> QED
  BY <1>1 DEF NamedAt, ValueOf

\* The digits of a status are characters.
LEMMA ItoaIsText ==
  ASSUME NEW n \in 0..255
  PROVE  Itoa(n) \in Text
<1>1. \A d \in 0..9 : DigitOf[d] \in Char
  BY DEF Digits, NameChar, Char
<1>2. CASE n < 10
  <2>1. n \in 0..9 /\ Itoa(n) = <<DigitOf[n]>>
    BY <1>2 DEF Itoa
  <2> QED
    BY <1>1, <2>1 DEF Text
<1>3. CASE n >= 10 /\ n < 100
  <2>1. n \div 10 \in 0..9 /\ n % 10 \in 0..9
    BY <1>3
  <2>2. Itoa(n) = <<DigitOf[n \div 10], DigitOf[n % 10]>>
    BY <1>3 DEF Itoa
  <2> QED
    BY <1>1, <2>1, <2>2 DEF Text
<1>4. CASE n >= 100
  <2>1. n \div 100 \in 0..9 /\ (n \div 10) % 10 \in 0..9 /\ n % 10 \in 0..9
    BY <1>4
  <2>2. Itoa(n) = <<DigitOf[n \div 100], DigitOf[(n \div 10) % 10], DigitOf[n % 10]>>
    BY <1>4 DEF Itoa
  <2> QED
    BY <1>1, <2>1, <2>2 DEF Text
<1> QED
  BY <1>2, <1>3, <1>4

-----------------------------------------------------------------------------
(***************************************************************************)
(* The invariant: the types, with room for one more character, which is    *)
(* where the terminator goes.                                              *)
(***************************************************************************)
IInv == ExpTypeOK /\ BufferFits
BufferOK(r, c) == r \in Seq(Char \cup {NUL}) /\ c \in Nat /\ Len(r) < c

\* append_char keeps the buffer's bound: it doubles a buffer that has room for no
\* more than one character.
LEMMA AppendFits ==
  ASSUME NEW c \in Char \cup {NUL}, BufferOK(result, cap), AppendChar(c)
  PROVE  BufferOK(result', cap')
<1>1. result' \in Seq(Char \cup {NUL}) /\ Len(result') = Len(result) + 1
  BY DEF AppendChar, BufferOK
<1>2. cap > 0 /\ cap \in Nat /\ Len(result) \in Nat
  BY DEF BufferOK
<1>3. CASE NeedsRoom
  <2>1. cap' = 2 * cap
    BY <1>2, <1>3 DEF AppendChar, Grown
  <2> QED
    BY <1>1, <1>2, <2>1 DEF BufferOK
<1>4. CASE ~NeedsRoom
  <2>1. cap' = cap /\ Len(result) + 1 < cap
    BY <1>2, <1>4 DEF AppendChar, NeedsRoom
  <2> QED
    BY <1>1, <1>2, <2>1 DEF BufferOK
<1> QED
  BY <1>3, <1>4

\* Whether the allocation succeeds or fails, buffer and count of failures are sound.
LEMMA AppendOrNot ==
  ASSUME IInv, NEW c \in Char \cup {NUL}, AppendChar(c) \/ NoMemory
  PROVE  BufferOK(result', cap') /\ fails' \in 0..MaxFail
<1>1. BufferOK(result, cap) /\ fails \in 0..MaxFail
  BY DEF IInv, ExpTypeOK, BufferFits, BufferOK
<1>2. CASE AppendChar(c)
  <2>1. fails' = fails
    BY <1>2 DEF AppendChar
  <2> QED
    BY <1>1, <1>2, <2>1, AppendFits
<1>3. CASE NoMemory
  BY <1>1, <1>3, SizeAssumption DEF NoMemory, BufferOK
<1> QED
  BY <1>2, <1>3

\* A character of a string is one, and the place of one is a place of the string.
LEMMA HereIsChar ==
  ASSUME NEW s \in Text, NEW k \in Nat \ {0}, CharAt(s, k) # NUL
  PROVE  CharAt(s, k) \in Char /\ k \in 1..Len(s)
BY DEF CharAt, Text

\* The initial states.
LEMMA InitInv == ExpInit => IInv
<1> SUFFICES ASSUME ExpInit PROVE IInv
  OBVIOUS
<1>1. PICK text \in Texts : /\ input = text /\ pos = 1 /\ pending = <<>>
                            /\ result = <<>> /\ cap = StartCap /\ run = "on"
  BY DEF ExpInit, ExpVarInit
<1>2. input \in Text /\ pos \in 1..(Len(input) + 1)
  <2>1. input \in Text
    BY <1>1, InputAssumption
  <2>2. Len(input) \in Nat
    BY <2>1 DEF Text
  <2> QED
    BY <1>1, <2>1, <2>2
<1>3. pending \in Text /\ result \in Seq(Char \cup {NUL}) /\ Len(result) = 0
  BY <1>1 DEF Text
<1>4. cap \in Nat /\ Len(result) < cap /\ fails \in 0..MaxFail
  BY <1>1, <1>3, SizeAssumption DEF ExpInit
<1>5. status \in 0..255 /\ \A n \in DOMAIN env : env[n] \in Text
  BY InputAssumption DEF ExpInit
<1> QED
  BY <1>1, <1>2, <1>3, <1>4, <1>5 DEF IInv, ExpTypeOK, BufferFits

\* Each turn of the loop keeps the invariant.
LEMMA NextInv == IInv /\ [ExpNext]_<<shared, expVars>> => IInv'
<1> SUFFICES ASSUME IInv, [ExpNext]_<<shared, expVars>>
             PROVE  IInv'
  OBVIOUS
<1>1. /\ input \in Text /\ Len(input) \in Nat /\ pos \in 1..(Len(input) + 1)
      /\ pending \in Text /\ run \in {"idle", "on", "done", "failed"}
      /\ status \in 0..255 /\ \A n \in DOMAIN env : env[n] \in Text
      /\ fails \in 0..MaxFail /\ BufferOK(result, cap)
  BY DEF IInv, ExpTypeOK, BufferFits, BufferOK, Text
<1> DEFINE Sound == /\ UNCHANGED shared
                    /\ input' = input /\ pos' \in 1..(Len(input) + 1)
                    /\ pending' \in Text /\ run' \in {"idle", "on", "done", "failed"}
                    /\ fails' \in 0..MaxFail /\ BufferOK(result', cap')
<1>2. Sound => IInv'
  BY <1>1 DEF IInv, ExpTypeOK, BufferFits, BufferOK, shared
<1>3. \A k \in 1..(Len(input) + 1) : NameEnd(input, k) \in k..(Len(input) + 1)
  BY <1>1, NameEndInText
<1>4. ASSUME NEW c \in Char, NEW where \in 1..(Len(input) + 1), AppendOrFail(c, where)
      PROVE  Sound
  <2>1. AppendChar(c) \/ NoMemory
    BY <1>4 DEF AppendOrFail
  <2>2. BufferOK(result', cap') /\ fails' \in 0..MaxFail
    BY <2>1, AppendOrNot
  <2> QED
    BY <1>1, <1>4, <2>2 DEF AppendOrFail, shared
<1>5. ASSUME NEW v \in Text, NEW where \in 1..(Len(input) + 1), Expand(v, where)
      PROVE  Sound
  BY <1>1, <1>5 DEF Expand, shared
<1>6. CASE AppendNormalChar
  <2>1. Here # NUL /\ AppendOrFail(Here, pos + 1)
    BY <1>6 DEF AppendNormalChar
  <2>2. Here \in Char /\ pos \in 1..Len(input)
    BY <1>1, <2>1, HereIsChar DEF Here
  <2>3. pos + 1 \in 1..(Len(input) + 1)
    BY <1>1, <2>2
  <2> HIDE DEF Sound
  <2> QED
    BY <1>2, <1>4, <2>1, <2>2, <2>3
<1>7. CASE HandleExitStatus
  <2>1. Next1 # NUL /\ Expand(Itoa(status), pos + 2)
    BY <1>7, CharAssumption DEF HandleExitStatus, Char
  <2>2. pos + 1 \in 1..Len(input)
    BY <1>1, <2>1, HereIsChar DEF Next1
  <2>3. pos + 2 \in 1..(Len(input) + 1)
    BY <1>1, <2>2
  <2>4. Itoa(status) \in Text
    BY <1>1, ItoaIsText
  <2> HIDE DEF Sound
  <2> QED
    BY <1>2, <1>5, <2>1, <2>3, <2>4
<1>8. CASE HandleVariable
  <2>1. Next1 # NUL /\ Expand(NamedAt(input, pos + 1, env), NameEnd(input, pos + 1))
    BY <1>8, CharAssumption DEF HandleVariable, Char, NameChar
  <2>2. pos + 1 \in 1..Len(input)
    BY <1>1, <2>1, HereIsChar DEF Next1
  <2>3. NameEnd(input, pos + 1) \in 1..(Len(input) + 1)
    BY <1>1, <1>3, <2>2
  <2>4. NamedAt(input, pos + 1, env) \in Text
    BY <1>1, NamedIsText
  <2> HIDE DEF Sound
  <2> QED
    BY <1>2, <1>5, <2>1, <2>3, <2>4
<1>9. CASE HandleBraces
  <2> DEFINE e == NameEnd(input, pos + 2)
             where == IF CharAt(input, e) = "}" THEN e + 1 ELSE e
  <2>1. Next2 # NUL /\ Expand(NamedAt(input, pos + 2, env), where)
    BY <1>9, CharAssumption DEF HandleBraces, Char, NameChar
  <2>2. pos + 2 \in 1..Len(input)
    <3>1. pos + 2 \in Nat \ {0}
      BY <1>1
    <3>2. CharAt(input, pos + 2) # NUL
      BY <2>1 DEF Next2
    <3> QED
      BY <1>1, <3>1, <3>2, HereIsChar
  <2>3. e \in 1..(Len(input) + 1)
    BY <1>1, <1>3, <2>2
  <2>4. CharAt(input, e) = "}" => e \in 1..Len(input)
    <3>1. "}" # NUL
      BY CharAssumption DEF Char
    <3>2. e \in Nat \ {0}
      BY <1>1, <2>3
    <3> HIDE DEF e
    <3> QED
      BY <1>1, <3>1, <3>2, HereIsChar
  <2>5. where \in 1..(Len(input) + 1)
    <3>1. CASE CharAt(input, e) = "}"
      <4>1. where = e + 1
        BY <3>1
      <4>2. e \in 1..Len(input)
        BY <2>4, <3>1
      <4>3. Len(input) \in Nat
        BY <1>1
      <4> HIDE DEF e, where
      <4> QED
        BY <4>1, <4>2, <4>3
    <3>2. CASE CharAt(input, e) # "}"
      <4>1. where = e
        BY <3>2
      <4> HIDE DEF e, where
      <4> QED
        BY <2>3, <4>1
    <3> QED
      BY <3>1, <3>2
  <2>6. NamedAt(input, pos + 2, env) \in Text
    BY <1>1, NamedIsText
  <2> HIDE DEF Sound, where
  <2> QED
    BY <1>2, <1>5, <2>1, <2>5, <2>6
<1>10. CASE DollarAlone
  <2>1. Here # NUL /\ AppendOrFail("$", pos + 1) /\ "$" \in Char
    BY <1>10, CharAssumption DEF DollarAlone, Char
  <2>2. pos \in 1..Len(input)
    BY <1>1, <2>1, HereIsChar DEF Here
  <2>3. pos + 1 \in 1..(Len(input) + 1)
    BY <1>1, <2>2
  <2> HIDE DEF Sound
  <2> QED
    BY <1>2, <1>4, <2>1, <2>3
<1>11. CASE AppendValue
  <2>1. Head(pending) \in Char /\ Tail(pending) \in Text /\ <<>> \in Text
    BY <1>1, <1>11 DEF AppendValue, Text
  <2>2. BufferOK(result', cap') /\ fails' \in 0..MaxFail
    BY <1>11, <2>1, AppendOrNot DEF AppendValue
  <2>3. pending' \in Text
    BY <1>11, <2>1 DEF AppendValue
  <2> QED
    BY <1>1, <1>2, <1>11, <2>2, <2>3 DEF AppendValue, shared
<1>12. CASE Terminate
  <2>1. BufferOK(result', cap') /\ fails' \in 0..MaxFail
    BY <1>12, AppendOrNot DEF Terminate
  <2> QED
    BY <1>1, <1>2, <1>12, <2>1 DEF Terminate, shared
<1>13. CASE UNCHANGED <<shared, expVars>>
  BY <1>1, <1>2, <1>13 DEF shared, expVars
<1> QED
  BY <1>6, <1>7, <1>8, <1>9, <1>10, <1>11, <1>12, <1>13 DEF ExpNext

-----------------------------------------------------------------------------
\* Every reachable state satisfies the invariant.
LEMMA Invariance == ExpSpec => []IInv
BY InitInv, NextInv, PTL DEF ExpSpec

\* The variables of the expander keep their types: in particular its place never
\* leaves the string, whatever names and braces are left open at its end.
THEOREM TypeCorrect == ExpSpec => []ExpTypeOK
<1>1. IInv => ExpTypeOK
  BY DEF IInv
<1> QED
  BY <1>1, Invariance, PTL

\* append_char's writes are inside the buffer: for every string, every
\* environment, every first capacity and however often growing fails.
THEOREM BufferFitsAlways == ExpSpec => []BufferFits
<1>1. IInv => BufferFits
  BY DEF IInv
<1> QED
  BY <1>1, Invariance, PTL

-----------------------------------------------------------------------------
(***************************************************************************)
(* What a text is read to: functions that are defined from the end of a    *)
(* text, where each place contributes a piece and says where to go on.     *)
(***************************************************************************)
\* A set of numbers that has 0, and with each number the next, has all up to n.
LEMMA UpToEach ==
    ASSUME NEW n \in Nat, NEW T, 0 \in T, \A m \in 1..n : m - 1 \in T => m \in T
    PROVE  \A m \in 0..n : m \in T
<1> DEFINE Bad == {m \in 0..n : m \notin T}
<1> SUFFICES ASSUME Bad # {} PROVE FALSE
  OBVIOUS
<1>1. Bad \subseteq Nat
  OBVIOUS
<1>2. PICK m \in Bad : \A k \in Bad : ~(<<k, m>> \in OpToRel(<, Nat))
  <2> HIDE DEF Bad
  <2> QED
    BY <1>1, WFMin, NatLessThanWellFounded
<1>3. m \in 1..n /\ m - 1 \in 0..n
  OBVIOUS
<1>4. m - 1 < m /\ m - 1 \in Nat /\ m \in Nat
  BY <1>3
<1>5. m - 1 \notin Bad
  <2> HIDE DEF Bad
  <2> QED
    BY <1>2, <1>4 DEF OpToRel
<1> QED
  BY <1>3, <1>5

\* What holds behind the end of a text, and at each place when it holds at all places
\* behind it, holds everywhere.
LEMMA FromTheEnd ==
    ASSUME NEW n \in Nat, NEW T, n + 1 \in T,
           \A k \in 1..n : (\A j \in (k + 1)..(n + 1) : j \in T) => k \in T
    PROVE  \A k \in 1..(n + 1) : k \in T
<1> DEFINE U == {m \in 0..n : \A j \in (n + 1 - m)..(n + 1) : j \in T}
<1>1. 0 \in U
  OBVIOUS
<1>2. ASSUME NEW m \in 1..n, m - 1 \in U PROVE m \in U
  <2>1. n + 1 - m \in 1..n /\ n + 1 - (m - 1) = (n + 1 - m) + 1
    OBVIOUS
  <2>2. \A j \in ((n + 1 - m) + 1)..(n + 1) : j \in T
    BY <1>2, <2>1
  <2>3. n + 1 - m \in T
    BY <2>1, <2>2
  <2>4. \A j \in (n + 1 - m)..(n + 1) : j = n + 1 - m \/ j \in ((n + 1 - m) + 1)..(n + 1)
    BY <2>1
  <2> QED
    BY <2>2, <2>3, <2>4
<1>3. n \in U
  <2> HIDE DEF U
  <2> QED
    BY <1>1, <1>2, UpToEach
<1> QED
  BY <1>3

Reads(f, n, piece, onward) ==
    f[n + 1] = <<>> /\ \A k \in 1..n : f[k] = piece[k] \o f[onward[k]]

\* Each of n places has a piece and a place behind it.
Reading(n, S, piece, onward) ==
    /\ n \in Nat /\ piece \in [1..n -> Seq(S)] /\ onward \in [1..n -> 1..(n + 1)]
    /\ \A k \in 1..n : onward[k] > k

\* The pieces can be put together.
LEMMA ReadingExists ==
    ASSUME NEW n, NEW S, NEW piece, NEW onward, Reading(n, S, piece, onward)
    PROVE  \E f \in [1..(n + 1) -> Seq(S)] : Reads(f, n, piece, onward)
<1> USE DEF Reading
<1> DEFINE Good(m, f) == /\ f[n + 1] = <<>>
                         /\ \A k \in 1..n : k > n - m => f[k] = piece[k] \o f[onward[k]]
           T == {m \in 0..n : \E f \in [1..(n + 1) -> Seq(S)] : Good(m, f)}
<1>1. 0 \in T
  <2> DEFINE f == [k \in 1..(n + 1) |-> <<>>]
  <2>1. f \in [1..(n + 1) -> Seq(S)] /\ Good(0, f)
    OBVIOUS
  <2>2. 0 \in 0..n
    OBVIOUS
  <2> HIDE DEF f, Good
  <2> QED
    BY <2>1, <2>2
<1>2. ASSUME NEW m \in 1..n, m - 1 \in T PROVE m \in T
  <2>1. PICK g \in [1..(n + 1) -> Seq(S)] : Good(m - 1, g)
    BY <1>2
  <2> DEFINE k == n + 1 - m
             v == piece[k] \o g[onward[k]]
             f == [g EXCEPT ![k] = v]
  <2>2. k \in 1..n /\ k # n + 1
    OBVIOUS
  <2>3. v \in Seq(S)
    <3>1. piece[k] \in Seq(S) /\ g[onward[k]] \in Seq(S)
      BY <2>2
    <3> HIDE DEF k
    <3> QED
      BY <3>1
  <2>4. f \in [1..(n + 1) -> Seq(S)] /\ f[k] = v /\ \A j \in 1..(n + 1) : j # k => f[j] = g[j]
    <3> HIDE DEF v, k
    <3> QED
      BY <2>2, <2>3
  <2>5. ASSUME NEW j \in 1..n, j > n - m PROVE f[j] = piece[j] \o f[onward[j]]
    <3>1. onward[j] \in 1..(n + 1) /\ onward[j] # k
      <4>1. onward[j] > j /\ j >= k
        BY <2>5
      <4> QED
        BY <2>2, <4>1
    <3>2. f[onward[j]] = g[onward[j]]
      BY <2>4, <3>1
    <3>3. CASE j = k
      BY <2>4, <3>2, <3>3
    <3>4. CASE j # k
      <4>1. j > n - (m - 1) /\ f[j] = g[j]
        BY <2>4, <2>5, <3>4
      <4> QED
        BY <2>1, <3>2, <4>1
    <3> QED
      BY <3>3, <3>4
  <2>6. f[n + 1] = <<>>
    <3>1. n + 1 \in 1..(n + 1)
      OBVIOUS
    <3> HIDE DEF k
    <3> QED
      BY <2>1, <2>2, <2>4, <3>1
  <2> HIDE DEF f
  <2>7. m \in 0..n /\ Good(m, f)
    BY <2>5, <2>6
  <2> QED
    BY <2>4, <2>7
<1>3. n \in T
  <2> HIDE DEF T
  <2>1. \A m \in 0..n : m \in T
    BY <1>1, <1>2, UpToEach
  <2>2. n \in 0..n
    OBVIOUS
  <2> QED
    BY <2>1, <2>2
<1>4. PICK f \in [1..(n + 1) -> Seq(S)] : Good(n, f)
  BY <1>3
<1>5. \A k \in 1..n : k > n - n
  OBVIOUS
<1> QED
  BY <1>4, <1>5 DEF Reads

\* They can be put together in one way.
LEMMA ReadingUnique ==
    ASSUME NEW n, NEW S, NEW piece, NEW onward, Reading(n, S, piece, onward),
           NEW f, NEW g, Reads(f, n, piece, onward), Reads(g, n, piece, onward)
    PROVE  \A k \in 1..(n + 1) : f[k] = g[k]
<1> DEFINE T == {k \in 1..(n + 1) : f[k] = g[k]}
<1>0. /\ n \in Nat /\ piece \in [1..n -> Seq(S)] /\ onward \in [1..n -> 1..(n + 1)]
      /\ \A k \in 1..n : onward[k] > k
  BY DEF Reading
<1>1. n + 1 \in T
  BY <1>0 DEF Reads
<1>2. ASSUME NEW k \in 1..n, \A j \in (k + 1)..(n + 1) : j \in T PROVE k \in T
  <2>1. onward[k] \in (k + 1)..(n + 1)
    <3>1. onward[k] \in 1..(n + 1) /\ onward[k] > k
      BY <1>0
    <3> QED
      BY <1>0, <3>1
  <2>2. f[onward[k]] = g[onward[k]]
    BY <1>2, <2>1
  <2>3. f[k] = piece[k] \o f[onward[k]] /\ g[k] = piece[k] \o g[onward[k]]
    BY DEF Reads
  <2>4. f[k] = g[k] /\ k \in 1..(n + 1)
    BY <1>0, <2>2, <2>3
  <2> QED
    BY <2>4
<1>3. \A k \in 1..(n + 1) : k \in T
  <2> HIDE DEF T
  <2> QED
    BY <1>0, <1>1, <1>2, FromTheEnd
<1> QED
  BY <1>3

-----------------------------------------------------------------------------
(***************************************************************************)
(* What an expansion is: its pieces, from left to right.                   *)
(***************************************************************************)
\* Every piece is a text.
LEMMA PieceIsText ==
    ASSUME NEW s \in Text, NEW e, NEW st \in 0..255, NEW k \in 1..Len(s),
           \A n \in DOMAIN e : e[n] \in Text
    PROVE  Piece(s, e, st, k) \in Text
<1>1. s[k] \in Char /\ <<s[k]>> \in Text
  BY DEF Text
<1> QED
  BY <1>1, ItoaIsText, NamedIsText DEF Piece

\* The reading goes on behind the piece, in the text or at its end.
LEMMA BehindIsFurther ==
    ASSUME NEW s \in Text, NEW k \in 1..Len(s)
    PROVE  Behind(s, k) \in 1..(Len(s) + 1) /\ Behind(s, k) > k
<1>1. Len(s) \in Nat /\ DOMAIN s = 1..Len(s) /\ k \in Nat
  BY DEF Text
<1>2. CASE IsStatus(s, k)
  <2>1. CharAt(s, k + 1) # NUL
    BY <1>2, CharAssumption DEF IsStatus, Char
  <2>2. k + 1 \in 1..Len(s)
    BY <1>1, <2>1, HereIsChar
  <2>3. Behind(s, k) = k + 2
    BY <1>2 DEF Behind
  <2> QED
    BY <1>1, <2>2, <2>3
<1>3. CASE ~IsStatus(s, k) /\ IsVariable(s, k)
  <2> DEFINE name == NameAt(s, k)
             end == NameEnd(s, name)
             next == Behind(s, k)
  <2>1. name \in Nat \ {0} /\ name > k
    <3>1. name = k + 1 \/ name = k + 2
      BY DEF NameAt
    <3> HIDE DEF name
    <3> QED
      BY <1>1, <3>1
  <2>2. CharAt(s, name) # NUL
    BY <1>3, CharAssumption DEF IsVariable, Char, NameChar
  <2>3. name \in 1..Len(s)
    BY <2>1, <2>2, HereIsChar
  <2>4. end \in name..(Len(s) + 1)
    <3>1. name \in 1..(Len(s) + 1)
      BY <1>1, <2>3
    <3> QED
      BY <3>1, NameEndInText
  <2>5. CharAt(s, end) = "}" => end \in 1..Len(s)
    <3>1. "}" # NUL
      BY CharAssumption DEF Char
    <3>2. end \in Nat \ {0}
      BY <1>1, <2>1, <2>4
    <3> HIDE DEF end
    <3> QED
      BY <3>1, <3>2, HereIsChar
  <2>6. next = end \/ (next = end + 1 /\ end \in 1..Len(s))
    BY <1>3, <2>5 DEF Behind
  <2> HIDE DEF next, end, name
  <2>7. next \in 1..(Len(s) + 1) /\ next > k
    BY <1>1, <2>1, <2>4, <2>6
  <2> QED
    BY <2>7 DEF next
<1>4. CASE ~IsStatus(s, k) /\ ~IsVariable(s, k)
  BY <1>1, <1>4 DEF Behind
<1> QED
  BY <1>2, <1>3, <1>4

\* A function that is defined from the end of a text reads it, and the other way round.
ReadsText(f, s, e, st) ==
    /\ f[Len(s) + 1] = <<>>
    /\ \A k \in 1..Len(s) : f[k] = Piece(s, e, st, k) \o f[Behind(s, k)]
IsFrom(f, s, e, st) ==
    f = [k \in 1..(Len(s) + 1) |->
            IF k > Len(s) THEN <<>> ELSE Piece(s, e, st, k) \o f[Behind(s, k)]]

\* What the helper computes from a place on is the reading from there.
LEMMA FromReads ==
    ASSUME NEW s \in Text, NEW e, NEW st, NEW f
    PROVE  IsFrom(f, s, e, st)
           <=> ReadsText(f, s, e, st) /\ f = [k \in 1..(Len(s) + 1) |-> f[k]]
<1>0. Len(s) \in Nat
  BY DEF Text
<1>1. \A k \in 1..(Len(s) + 1) : IF k > Len(s) THEN k = Len(s) + 1 ELSE k \in 1..Len(s)
  BY <1>0
<1>2. /\ \A k \in 1..Len(s) : k \in 1..(Len(s) + 1) /\ ~(k > Len(s))
      /\ Len(s) + 1 \in 1..(Len(s) + 1) /\ Len(s) + 1 > Len(s)
  BY <1>0
<1>3. ASSUME IsFrom(f, s, e, st)
      PROVE  ReadsText(f, s, e, st) /\ f = [k \in 1..(Len(s) + 1) |-> f[k]]
  BY <1>2, <1>3 DEF IsFrom, ReadsText
<1>4. ASSUME ReadsText(f, s, e, st), f = [k \in 1..(Len(s) + 1) |-> f[k]]
      PROVE  IsFrom(f, s, e, st)
  <2>1. \A k \in 1..(Len(s) + 1) :
            f[k] = IF k > Len(s) THEN <<>> ELSE Piece(s, e, st, k) \o f[Behind(s, k)]
    BY <1>1, <1>4 DEF ReadsText
  <2> QED
    BY <1>4, <2>1 DEF IsFrom
<1> QED
  BY <1>3, <1>4

\* An expansion is the pieces of its text, in order.
LEMMA ExpansionReads ==
    ASSUME NEW s \in Text, NEW e, NEW st \in 0..255, \A n \in DOMAIN e : e[n] \in Text
    PROVE  \E f \in [1..(Len(s) + 1) -> Text] :
              ReadsText(f, s, e, st) /\ Expansion(s, e, st) = f[1]
<1> DEFINE piece == [k \in 1..Len(s) |-> Piece(s, e, st, k)]
           onward == [k \in 1..Len(s) |-> Behind(s, k)]
           from == CHOOSE f : IsFrom(f, s, e, st)
<1>0. Len(s) \in Nat /\ Text = Seq(Char)
  BY DEF Text
<1>1. piece \in [1..Len(s) -> Seq(Char)]
  BY <1>0, PieceIsText
<1>2. onward \in [1..Len(s) -> 1..(Len(s) + 1)] /\ \A k \in 1..Len(s) : onward[k] > k
  BY BehindIsFurther
<1>3. \A f : ReadsText(f, s, e, st) <=> Reads(f, Len(s), piece, onward)
  BY DEF ReadsText, Reads
<1> HIDE DEF piece, onward
<1>r. Reading(Len(s), Char, piece, onward)
  BY <1>0, <1>1, <1>2 DEF Reading
<1>4. PICK g \in [1..(Len(s) + 1) -> Seq(Char)] : Reads(g, Len(s), piece, onward)
  BY <1>r, ReadingExists
<1>5. IsFrom(g, s, e, st)
  BY <1>3, <1>4, FromReads
<1>6. IsFrom(from, s, e, st)
  BY <1>5
<1>7. from = [k \in 1..(Len(s) + 1) |-> from[k]] /\ Reads(from, Len(s), piece, onward)
  <2> HIDE DEF from
  <2> QED
    BY <1>3, <1>6, FromReads
<1> HIDE DEF from
<1>8. \A k \in 1..(Len(s) + 1) : from[k] = g[k]
  BY <1>4, <1>7, <1>r, ReadingUnique
<1>9. from \in [1..(Len(s) + 1) -> Text]
  BY <1>0, <1>7, <1>8
<1>10. Expansion(s, e, st) = from[1]
  BY DEF Expansion, IsFrom, from
<1> QED
  BY <1>3, <1>7, <1>9, <1>10

-----------------------------------------------------------------------------
(***************************************************************************)
(* What the result says.                                                   *)
(***************************************************************************)
\* A loop that no allocation failed has put what it read into the result or into what
\* it still has to append, and the rest of the expansion is what it will read.
Halfway(r, p, k) ==
    \E f \in [1..(Len(input) + 1) -> Text] :
        /\ ReadsText(f, input, env, status) /\ Expansion(input, env, status) = f[1]
        /\ (r \o p) \o f[k] = f[1]
TurnInv ==
    /\ run = "on" => result \in Text
    /\ run = "done" => \E t \in Text : result = Append(t, NUL)
    /\ run = "on" /\ fails = 0 => Halfway(result, pending, pos)
    /\ ResultIsExpansion

\* An expansion is a text.
LEMMA ExpansionIsText ==
    ASSUME NEW s \in Text, NEW e, NEW st \in 0..255, \A n \in DOMAIN e : e[n] \in Text
    PROVE  Expansion(s, e, st) \in Text
<1>1. PICK f \in [1..(Len(s) + 1) -> Text] : Expansion(s, e, st) = f[1]
  BY ExpansionReads
<1>2. 1 \in 1..(Len(s) + 1)
  BY DEF Text
<1> QED
  BY <1>1, <1>2

\* A call starts with the whole text to read.
LEMMA CallIsHalfway ==
    ASSUME NEW e, NEW st \in 0..255, NEW s \in Text, \A n \in DOMAIN e : e[n] \in Text
    PROVE  \E f \in [1..(Len(s) + 1) -> Text] :
              /\ ReadsText(f, s, e, st) /\ Expansion(s, e, st) = f[1]
              /\ (<<>> \o <<>>) \o f[1] = f[1]
<1>1. PICK f \in [1..(Len(s) + 1) -> Text] :
            ReadsText(f, s, e, st) /\ Expansion(s, e, st) = f[1]
  BY ExpansionReads
<1>2. f[1] \in Seq(Char)
  <2>1. 1 \in 1..(Len(s) + 1)
    BY DEF Text
  <2> QED
    BY <2>1 DEF Text
<1>3. <<>> \o <<>> = <<>> /\ <<>> \o f[1] = f[1]
  BY <1>2, ConcatEmptySeq, EmptySeq
<1> QED
  BY <1>1, <1>3

\* Before the first call nothing is read.
LEMMA InitTurn == ExpInit => TurnInv
<1> SUFFICES ASSUME ExpInit PROVE TurnInv
  OBVIOUS
<1>1. /\ run = "on" /\ result = <<>> /\ pending = <<>> /\ pos = 1 /\ input \in Text
      /\ status \in 0..255 /\ \A n \in DOMAIN env : env[n] \in Text
  BY InputAssumption DEF ExpInit, ExpVarInit
<1>2. Halfway(<<>>, <<>>, 1)
  BY <1>1, CallIsHalfway DEF Halfway
<1>3. result \in Text
  BY <1>1 DEF Text
<1> QED
  BY <1>1, <1>2, <1>3 DEF TurnInv, ResultIsExpansion

\* Three texts, one after the other.
LEMMA Regroup ==
    ASSUME NEW r \in Seq(Char), NEW p \in Seq(Char), NEW q \in Seq(Char)
    PROVE  (r \o p) \o q = r \o (p \o q)
BY ConcatAssociative

\* What a turn appends, or sets out to append, is the piece that is at its place.
LEMMA TurnReads ==
    ASSUME NEW r \in Text, NEW k \in 1..Len(input), NEW p \in Text, NEW q \in Text,
           input \in Text, Halfway(r, <<>>, k), p \o q = Piece(input, env, status, k)
    PROVE  Halfway(r \o p, q, Behind(input, k))
<1> DEFINE next == Behind(input, k)
<1>1. PICK f \in [1..(Len(input) + 1) -> Text] :
            /\ ReadsText(f, input, env, status) /\ Expansion(input, env, status) = f[1]
            /\ (r \o <<>>) \o f[k] = f[1]
  BY DEF Halfway
<1>2. next \in 1..(Len(input) + 1)
  BY BehindIsFurther
<1> HIDE DEF next
<1>3. f[next] \in Text
  BY <1>2
<1>4. PICK pq \in Seq(Char) : pq = p \o q
  BY ConcatProperties DEF Text
<1>5. f[k] = pq \o f[next]
  BY <1>1, <1>4 DEF ReadsText, next
<1>6. /\ r \in Seq(Char) /\ p \in Seq(Char) /\ q \in Seq(Char) /\ f[next] \in Seq(Char)
      /\ r \o <<>> = r
  BY <1>3, ConcatEmptySeq DEF Text
<1>7. (r \o p) \o q = r \o pq
  BY <1>4, <1>6, Regroup
<1>8. (r \o pq) \o f[next] = r \o (pq \o f[next])
  BY <1>6, Regroup
<1>9. ((r \o p) \o q) \o f[next] = f[1]
  BY <1>1, <1>5, <1>6, <1>7, <1>8
<1> QED
  BY <1>1, <1>9 DEF Halfway, next

\* One more character of a value.
LEMMA ValueReads ==
    ASSUME NEW r \in Text, NEW p \in Text, p # <<>>, NEW k, Halfway(r, p, k)
    PROVE  Halfway(Append(r, Head(p)), Tail(p), k)
<1>1. Head(p) \in Char /\ Tail(p) \in Seq(Char) /\ p = <<Head(p)>> \o Tail(p)
  BY DEF Text
<1>2. Append(r, Head(p)) = r \o <<Head(p)>> /\ <<Head(p)>> \in Seq(Char)
  BY <1>1, AppendIsConcat DEF Text
<1>3. (r \o <<Head(p)>>) \o Tail(p) = r \o p
  BY <1>1, <1>2, ConcatAssociative DEF Text
<1> QED
  BY <1>2, <1>3 DEF Halfway

\* A character is appended to a text.
LEMMA AppendsText ==
    ASSUME NEW r \in Text, NEW c \in Char
    PROVE  Append(r, c) \in Text /\ Append(r, c) = r \o <<c>> /\ <<c>> \in Text
           /\ <<c>> \o <<>> = <<c>> /\ <<>> \in Text /\ r \o <<>> = r
<1>1. <<c>> \in Seq(Char) /\ <<>> \in Seq(Char)
  OBVIOUS
<1> QED
  BY <1>1, AppendIsConcat, ConcatEmptySeq DEF Text

\* Every turn reads on.
LEMMA NextTurn == IInv /\ TurnInv /\ [ExpNext]_<<shared, expVars>> => TurnInv'
<1> SUFFICES ASSUME IInv, TurnInv, [ExpNext]_<<shared, expVars>> PROVE TurnInv'
  OBVIOUS
<1>0. /\ input \in Text /\ Len(input) \in Nat /\ pos \in 1..(Len(input) + 1)
      /\ pending \in Text /\ status \in 0..255 /\ \A n \in DOMAIN env : env[n] \in Text
      /\ fails \in Nat /\ DOMAIN input = 1..Len(input)
  BY SizeAssumption DEF IInv, ExpTypeOK, Text
<1>1. CASE UNCHANGED <<shared, expVars>>
  BY <1>1 DEF TurnInv, Halfway, ResultIsExpansion, shared, expVars
<1>2. CASE ExpNext
  <2>1. /\ run = "on" /\ result \in Text /\ input' = input /\ env' = env /\ status' = status
        /\ fails' \in {fails, fails + 1}
    BY <1>2 DEF ExpNext, AppendNormalChar, HandleExitStatus, HandleVariable, HandleBraces,
       DollarAlone, AppendValue, Terminate, Turn, Expand, AppendOrFail, AppendChar, NoMemory,
       shared, TurnInv
  <2>2. fails' = 0 => fails = 0
    BY <1>0, <2>1
  \* The turn goes on, and does what it does not fail in.
  <2>a. ASSUME run' = "on", result' \in Text,
               fails' = 0 => Halfway(result', pending', pos')
        PROVE  TurnInv'
    BY <2>1, <2>a DEF TurnInv, ResultIsExpansion, Halfway
  <2>b. ASSUME NEW c, c = Here, c # NUL, AppendOrFail(c, pos + 1), pending = <<>>,
               ~IsStatus(input, pos), ~IsVariable(input, pos)
        PROVE  TurnInv'
    <3>1. c \in Char /\ pos \in 1..Len(input) /\ c = input[pos]
      BY <1>0, <2>b, HereIsChar DEF Here, CharAt
    <3>2. CASE run' = "failed"
      BY <3>2 DEF TurnInv, ResultIsExpansion
    <3>3. CASE AppendChar(c) /\ pos' = pos + 1 /\ run' = run /\ pending' = pending
      <4>1. result' = result \o <<c>> /\ result' \in Text /\ fails' = fails
        BY <2>1, <3>1, <3>3, AppendsText DEF AppendChar
      <4>2. ASSUME fails' = 0 PROVE Halfway(result', pending', pos')
        <5>1. Halfway(result, <<>>, pos)
          BY <2>1, <2>2, <2>b, <4>2 DEF TurnInv
        <5>2. <<c>> \o <<>> = Piece(input, env, status, pos) /\ Behind(input, pos) = pos + 1
          BY <2>1, <2>b, <3>1, AppendsText DEF Piece, Behind
        <5>3. <<c>> \in Text /\ <<>> \in Text
          BY <2>1, <3>1, AppendsText
        <5> QED
          BY <1>0, <2>1, <2>b, <3>1, <3>3, <4>1, <5>1, <5>2, <5>3, TurnReads
      <4> QED
        BY <2>1, <2>a, <3>3, <4>1, <4>2
    <3> QED
      BY <2>b, <3>2, <3>3 DEF AppendOrFail
  <2>c. ASSUME NEW value, NEW where, pos \in 1..Len(input), pending = <<>>, Expand(value, where),
               value = Piece(input, env, status, pos), where = Behind(input, pos)
        PROVE  TurnInv'
    <3>1. /\ pending' = value /\ pos' = where /\ result' = result /\ run' = run /\ fails' = fails
      BY <2>c DEF Expand
    <3>2. value \in Text /\ <<>> \in Text /\ <<>> \o value = value /\ result \o <<>> = result
      <4>1. value \in Text
        BY <1>0, <2>c, PieceIsText
      <4>2. <<>> \in Text
        BY DEF Text
      <4> QED
        BY <2>1, <4>1, <4>2, ConcatEmptySeq DEF Text
    <3>3. ASSUME fails' = 0 PROVE Halfway(result', pending', pos')
      <4>1. Halfway(result, <<>>, pos)
        BY <2>1, <2>2, <2>c, <3>3 DEF TurnInv
      <4>2. Halfway(result \o <<>>, value, Behind(input, pos))
        BY <1>0, <2>1, <2>c, <3>2, <4>1, TurnReads
      <4> QED
        BY <2>c, <3>1, <3>2, <4>2
    <3> QED
      BY <2>1, <2>a, <3>1, <3>3
  <2>d. ASSUME Here # NUL PROVE pos \in 1..Len(input) /\ Here = input[pos]
    BY <1>0, <2>d, HereIsChar DEF Here, CharAt
  <2>e. "?" \notin Letters /\ "{" \notin Letters /\ "$" # NUL
    BY CharAssumption DEF Char, NameChar
  <2>3. CASE AppendNormalChar
    <3>1. Here # NUL /\ Here # "$" /\ AppendOrFail(Here, pos + 1) /\ pending = <<>>
      BY <2>3 DEF AppendNormalChar, Turn
    <3>2. ~IsStatus(input, pos) /\ ~IsVariable(input, pos)
      BY <2>d, <3>1 DEF IsStatus, IsVariable
    <3> QED
      BY <2>b, <3>1, <3>2
  <2>4. CASE HandleExitStatus
    <3>1. Here = "$" /\ CharAt(input, pos + 1) = "?" /\ pending = <<>>
          /\ Expand(Itoa(status), pos + 2)
      BY <2>4 DEF HandleExitStatus, Turn, Next1
    <3>2. pos \in 1..Len(input) /\ IsStatus(input, pos)
      BY <2>d, <2>e, <3>1 DEF IsStatus
    <3> QED
      BY <2>c, <3>1, <3>2 DEF Piece, Behind
  <2>5. CASE HandleVariable
    <3>1. Here = "$" /\ CharAt(input, pos + 1) \in Letters /\ pending = <<>>
          /\ Expand(NamedAt(input, pos + 1, env), NameEnd(input, pos + 1))
      BY <2>5 DEF HandleVariable, Turn, Next1
    <3>2. /\ pos \in 1..Len(input) /\ ~IsStatus(input, pos) /\ IsVariable(input, pos)
          /\ ~Braced(input, pos) /\ NameAt(input, pos) = pos + 1
      BY <2>d, <2>e, <3>1 DEF IsStatus, IsVariable, Braced, NameAt
    <3> QED
      BY <2>c, <3>1, <3>2 DEF Piece, Behind
  <2>6. CASE HandleBraces
    <3> DEFINE end == NameEnd(input, pos + 2)
    <3>1. /\ Here = "$" /\ CharAt(input, pos + 1) = "{" /\ CharAt(input, pos + 2) \in Letters
          /\ pending = <<>>
          /\ Expand(NamedAt(input, pos + 2, env), IF CharAt(input, end) = "}" THEN end + 1 ELSE end)
      BY <2>6 DEF HandleBraces, Turn, Next1, Next2
    <3>2. /\ pos \in 1..Len(input) /\ ~IsStatus(input, pos) /\ IsVariable(input, pos)
          /\ Braced(input, pos) /\ NameAt(input, pos) = pos + 2
      BY <2>d, <2>e, <3>1 DEF IsStatus, IsVariable, Braced, NameAt
    <3> QED
      BY <2>c, <3>1, <3>2 DEF Piece, Behind
  <2>7. CASE DollarAlone
    <3>1. /\ Here = "$" /\ CharAt(input, pos + 1) \notin Letters \cup {"?"} /\ pending = <<>>
          /\ CharAt(input, pos + 1) = "{" => CharAt(input, pos + 2) \notin Letters
          /\ AppendOrFail("$", pos + 1)
      BY <2>7 DEF DollarAlone, Turn, Next1, Next2
    <3>2. ~IsStatus(input, pos) /\ ~IsVariable(input, pos)
      BY <3>1 DEF IsStatus, IsVariable, Braced, NameAt
    <3> QED
      BY <2>b, <2>e, <3>1, <3>2
  <2>8. CASE AppendValue
    <3>1. run' = run /\ pos' = pos /\ pending # <<>>
      BY <2>8 DEF AppendValue
    <3>2. CASE AppendChar(Head(pending)) /\ pending' = Tail(pending)
      <4>1. Head(pending) \in Char
        BY <1>0, <3>1 DEF Text
      <4>2. result' = Append(result, Head(pending)) /\ result' \in Text /\ fails' = fails
        BY <2>1, <3>2, <4>1, AppendsText DEF AppendChar
      <4>3. ASSUME fails' = 0 PROVE Halfway(result', pending', pos')
        <5>1. Halfway(result, pending, pos)
          BY <2>1, <2>2, <4>3 DEF TurnInv
        <5> QED
          BY <1>0, <2>1, <3>1, <3>2, <4>2, <5>1, ValueReads
      <4> QED
        BY <2>1, <2>a, <3>1, <4>2, <4>3
    <3>3. CASE NoMemory /\ pending' = <<>>
      <4>1. fails' = fails + 1 /\ result' = result
        BY <3>3 DEF NoMemory
      <4>2. fails' # 0
        BY <1>0, <4>1
      <4> QED
        BY <2>1, <2>a, <3>1, <4>1, <4>2
    <3> QED
      BY <2>8, <3>2, <3>3 DEF AppendValue
  <2>9. CASE Terminate
    <3>1. Here = NUL /\ pending = <<>> /\ pos' = pos
      BY <2>9 DEF Terminate, Turn
    <3>2. pos = Len(input) + 1
      <4>1. pos \notin 1..Len(input)
        <5>1. \A k \in 1..Len(input) : input[k] \in Char
          BY <1>0 DEF Text
        <5> QED
          BY <1>0, <3>1, <5>1, CharAssumption DEF Here, CharAt
      <4> QED
        BY <1>0, <4>1
    <3>3. CASE run' = "failed"
      BY <3>3 DEF TurnInv, ResultIsExpansion
    <3>4. CASE AppendChar(NUL) /\ run' = "done"
      <4>1. result' = Append(result, NUL) /\ fails' = fails
        BY <3>4 DEF AppendChar
      <4>2. ASSUME fails' = 0 PROVE result = Expansion(input, env, status)
        <5>1. Halfway(result, <<>>, pos)
          BY <2>1, <2>2, <3>1, <4>2 DEF TurnInv
        <5>2. PICK f \in [1..(Len(input) + 1) -> Text] :
                    /\ ReadsText(f, input, env, status) /\ Expansion(input, env, status) = f[1]
                    /\ (result \o <<>>) \o f[pos] = f[1]
          BY <5>1 DEF Halfway
        <5>3. f[pos] = <<>>
          BY <3>2, <5>2 DEF ReadsText
        <5>4. result \o <<>> = result
          BY <2>1, ConcatEmptySeq DEF Text
        <5> QED
          BY <5>2, <5>3, <5>4
      <4> QED
        BY <2>1, <3>4, <4>1, <4>2 DEF TurnInv, ResultIsExpansion
    <3> QED
      BY <2>9, <3>3, <3>4 DEF Terminate
  <2> QED
    BY <1>2, <2>3, <2>4, <2>5, <2>6, <2>7, <2>8, <2>9 DEF ExpNext
<1> QED
  BY <1>1, <1>2

\* An expansion during which no allocation fails ends with its text, every reference
\* in it replaced once by what it stands for: for every text, environment and status.
THEOREM ResultIsExpansionAlways == ExpSpec => []ResultIsExpansion
<1>1. TurnInv => ResultIsExpansion
  BY DEF TurnInv
<1> QED
  BY <1>1, InitTurn, NextTurn, Invariance, PTL DEF ExpSpec
=============================================================================
