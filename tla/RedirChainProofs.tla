-------------------------- MODULE RedirChainProofs --------------------------
(***************************************************************************)
(* Proofs about RedirChain, for every set of files, every size of the      *)
(* descriptor table and chains of any length: its variables keep their     *)
(* types, a line leaves the descriptors as it found them, and a command    *)
(* gets the last input and the last output of its chain.                   *)
(***************************************************************************)
EXTENDS RedirChain, FiniteSetTheorems, WellFoundedInduction, TLAPS

InOps  == {"<", "<<"}
OutOps == {">", ">>"}

\* The descriptors the chain has opened itself and not closed yet.
Own == {orig[1], orig[2], final}

\* At the prompt the table is the one the line started with.
AtRest == fd = base /\ orig = <<NoFd, NoFd>> /\ final = NoFd

\* In between it differs at the standard streams and at the chain's own
\* descriptors only, which were free before, and the saved copies are intact.
InChain ==
    /\ orig[1] \in Fd \ {STDIN_FILENO, STDOUT_FILENO}
    /\ orig[2] \in Fd \ {STDIN_FILENO, STDOUT_FILENO, orig[1]}
    /\ final \notin {STDIN_FILENO, STDOUT_FILENO, orig[1], orig[2]}
    /\ fd[orig[1]] = base[STDIN_FILENO]
    /\ fd[orig[2]] = base[STDOUT_FILENO]
    /\ \A f \in Fd \cap Own : base[f] = Free
    /\ \A f \in Fd \ (Own \cup {STDIN_FILENO, STDOUT_FILENO}) : fd[f] = base[f]

StreamsOpen(table) == table[STDIN_FILENO] # Free /\ table[STDOUT_FILENO] # Free

TableInv ==
    /\ IF pc \in {"prompt", "save"} THEN AtRest ELSE InChain
    /\ pc \in {"run", "restore"} => final = NoFd
    /\ StreamsOpen(fd) /\ StreamsOpen(base)
    /\ final # NoFd => fd[final] # Free

\* What the redirections applied so far, those after node i, ask for.
Done(ops) == {j \in Indices(ops) : j > i}
Wanted(ops, default) ==
    IF Done(ops) = {} THEN default
    ELSE LET r == line.nodes[Lowest(Done(ops))]
         IN  IF Op(r) = "<<" THEN Pipe ELSE r

\* What STDOUT_FILENO is, or will be when the chain has been applied.
Target == IF final = NoFd THEN fd[STDOUT_FILENO] ELSE fd[final]

StreamInv ==
    /\ pc \in {"apply", "run"} =>
          /\ fd[STDIN_FILENO] = Wanted(InOps, base[STDIN_FILENO])
          /\ Target = Wanted(OutOps, base[STDOUT_FILENO])
    /\ pc = "run" => i = 0
    /\ pc = "save" => i = Len(line.nodes)
    /\ CommandStreams

ChainInv == TypeOK /\ TableInv /\ StreamInv

\* A file that is open for writing is there.
FilesInv == \A f \in Fd : fd[f][1] \in OutOps => file[fd[f][2]] # Absent

IInv == ChainInv /\ FilesInv

-----------------------------------------------------------------------------
(***************************************************************************)
(* The least element of a bounded set of naturals: among the sets of       *)
(* elements up to f, for f in S, one has no other below it.                *)
(***************************************************************************)
\* Every nonempty set of naturals with a bound has a least element, so that
\* NextFd and StreamOf choose what they are meant to.
LEMMA LowestIsLeast ==
  ASSUME NEW n \in Nat, NEW S \in SUBSET (0..n), S # {}
  PROVE  Lowest(S) \in S /\ \A g \in S : Lowest(S) <= g
<1> DEFINE UpTo(f) == {g \in S : g <= f}
           Chain == {UpTo(f) : f \in S}
<1>1. IsFiniteSet(S)
  <2>1. IsFiniteSet(0..n)
    BY FS_Interval
  <2> QED
    BY <2>1, FS_Subset
<1>2. IsWellFoundedOn(StrictSubsetOrdering(S), SUBSET S)
  BY <1>1, FS_StrictSubsetOrderingWellFounded, FS_FiniteSubsetsOfFinite
<1>3. Chain \subseteq SUBSET S /\ Chain # {}
  OBVIOUS
<1>4. PICK T \in Chain : \A U \in Chain : <<U, T>> \notin StrictSubsetOrdering(S)
  <2> HIDE DEF Chain
  <2> QED
    BY <1>2, <1>3, WFMin
<1>5. PICK f \in S : T = UpTo(f)
  OBVIOUS
<1>6. \A g \in S : f <= g
  <2> SUFFICES ASSUME NEW g \in S, ~ (f <= g)
               PROVE  FALSE
    OBVIOUS
  <2>1. g \in Int /\ f \in Int /\ g < f /\ \A h \in S : h \in Int
    OBVIOUS
  <2>2. \A h \in S : h <= g => h <= f
    BY <2>1
  <2>3. f <= f /\ ~ (f <= g)
    BY <2>1
  <2>4. UpTo(g) \subseteq UpTo(f) /\ f \in UpTo(f) /\ f \notin UpTo(g)
    BY <2>2, <2>3
  <2>5. UpTo(g) \in Chain /\ UpTo(g) \in SUBSET S /\ UpTo(f) \in SUBSET S
    OBVIOUS
  <2>6. UpTo(g) # UpTo(f)
    BY <2>4
  <2> HIDE DEF UpTo, Chain
  <2> QED
    BY <2>4, <2>5, <2>6, <1>4, <1>5 DEF StrictSubsetOrdering
<1> QED
  BY <1>6 DEF Lowest

\* The least element is i when i is in the set and nothing is below it.
LEMMA LowestIs ==
  ASSUME NEW S \in SUBSET Nat, NEW k \in S, \A g \in S : k <= g
  PROVE  Lowest(S) = k
<1>1. \A f \in S : (\A g \in S : f <= g) => f = k
  OBVIOUS
<1> QED
  BY <1>1 DEF Lowest

\* The descriptor a call takes is free.
LEMMA NextFdIsFree ==
  ASSUME NEW table \in [Fd -> Object], ~Full(table)
  PROVE  NextFd(table) \in Fd /\ table[NextFd(table)] = Free
<1>1. MaxFd - 1 \in Nat /\ FreeFds(table) \in SUBSET (0 .. MaxFd - 1)
  BY RedirAssumption DEF FreeFds, Fd, Inherited
<1>2. FreeFds(table) # {}
  BY DEF Full
<1>3. Lowest(FreeFds(table)) \in FreeFds(table)
  BY <1>1, <1>2, LowestIsLeast
<1> QED
  BY <1>3 DEF NextFd, FreeFds

\* Numbers of descriptors.
LEMMA FdFacts ==
  /\ STDIN_FILENO \in Fd /\ STDOUT_FILENO \in Fd /\ STDIN_FILENO # STDOUT_FILENO
  /\ NoFd \notin Fd
  BY RedirAssumption DEF Fd, STDIN_FILENO, STDOUT_FILENO, NoFd, Inherited

\* Kinds of objects.
LEMMA ObjectFacts ==
  /\ \A r \in Redir : r \in Object /\ r # Free
  /\ {Free, Stdin, Stdout, Other, Pipe} \subseteq Object
  /\ Pipe # Free /\ Stdin # Free /\ Stdout # Free
  BY DEF Redir, Object, Free, Pipe, Ops, Stdin, Stdout

\* The node that is applied next.
LEMMA NodeFacts ==
  ASSUME TypeOK
  PROVE  /\ Len(line.nodes) \in Nat /\ line.nodes \in Seq(Redir)
         /\ i > 0 => Node \in Redir /\ Op(Node) \in Ops /\ Name(Node) \in Files
         /\ i > 0 => i - 1 \in 0..Len(line.nodes)
  BY RedirAssumption DEF TypeOK, Node, Redir, Op, Name

\* Applying node i makes it the last redirection of its kind so far, and leaves
\* the other kind alone.
LEMMA DoneStep ==
  ASSUME TypeOK, i > 0, i' = i - 1, line' = line, NEW ops
  PROVE  /\ Op(Node) \notin ops => Done(ops)' = Done(ops)
         /\ Op(Node) \in ops => Done(ops)' # {} /\ Lowest(Done(ops)') = i
<1>1. i \in Nat /\ i \in 1..Len(line.nodes) /\ Len(line.nodes) \in Nat
  BY NodeFacts DEF TypeOK
<1>2. Indices(ops)' = Indices(ops)
  BY DEF Indices
<1>3. Indices(ops) \in SUBSET Nat
  BY <1>1 DEF Indices
<1>4. i \in Indices(ops) <=> Op(Node) \in ops
  BY <1>1 DEF Indices, Node
<1>5. Done(ops)' = {j \in Indices(ops) : j > i - 1}
  BY <1>2 DEF Done
<1>6. CASE Op(Node) \notin ops
  BY <1>1, <1>3, <1>4, <1>5, <1>6 DEF Done
<1>7. CASE Op(Node) \in ops
  <2>1. i \in Done(ops)' /\ Done(ops)' \in SUBSET Nat
    BY <1>1, <1>3, <1>4, <1>5, <1>7
  <2>2. \A g \in Done(ops)' : i <= g
    BY <1>1, <1>3, <1>5
  <2> HIDE DEF Done
  <2>3. Lowest(Done(ops)') = i
    BY <2>1, <2>2, LowestIs
  <2> QED
    BY <2>1, <2>3, <1>7
<1> QED
  BY <1>6, <1>7

\* What the command was given does not change while line and base do not.
LEMMA StreamsKept ==
  ASSUME CommandStreams, UNCHANGED <<line, base, ran>>
  PROVE  CommandStreams'
  BY DEF CommandStreams, StreamOf, Indices

-----------------------------------------------------------------------------
(***************************************************************************)
(* The actions.                                                            *)
(***************************************************************************)
\* The shell starts with its own descriptors.
LEMMA InitInv == Init => IInv
<1> SUFFICES ASSUME Init PROVE IInv
  OBVIOUS
<1>1. PICK k \in Inherited..MaxFd : fd = Table(k)
  BY DEF Init
<1>2. fd \in [Fd -> Object] /\ StreamsOpen(fd)
  <2>1. fd[STDIN_FILENO] = Stdin /\ fd[STDOUT_FILENO] = Stdout
    BY <1>1, FdFacts DEF Table
  <2>2. fd \in [Fd -> Object]
    BY <1>1, ObjectFacts DEF Table
  <2> QED
    BY <2>1, <2>2, ObjectFacts DEF StreamsOpen
<1>3. Len(line.nodes) \in Nat
  BY RedirAssumption DEF Init
<1>4. file \in [Files -> Content]
  <2>1. {Absent, {"old"}} \subseteq Content
    BY DEF Content
  <2> QED
    BY <2>1 DEF Init
<1>5. TypeOK
  <2>1. orig \in [1..2 -> Fd \cup {NoFd}] /\ final \in Fd \cup {NoFd}
    BY DEF Init
  <2>2. pc \in {"prompt", "save", "apply", "run", "restore"} /\ line \in Lines
        /\ status \in {0, 1, 2, QuitStatus} /\ killed \in BOOLEAN
        /\ ran \in {NotRun} \cup (Object \X Object)
    BY DEF Init
  <2>3. i \in 0..Len(line.nodes)
    BY <1>3 DEF Init
  <2> QED
    BY <1>2, <1>4, <2>1, <2>2, <2>3 DEF TypeOK, Init
<1>6. FilesInv
  BY <1>1 DEF FilesInv, Table, OutOps, Free, Stdin, Stdout, Other
<1> QED
  BY <1>2, <1>5, <1>6
     DEF Init, IInv, ChainInv, TableInv, AtRest, StreamInv, CommandStreams, StreamsOpen

\* A new line starts from the descriptors the last one left.
LEMMA NextLineKeeps == IInv /\ NextLine => ChainInv'
<1> SUFFICES ASSUME IInv, NextLine PROVE ChainInv'
  OBVIOUS
<1>1. Len(line'.nodes) \in Nat
  BY RedirAssumption DEF NextLine
<1>2. TypeOK'
  <2>1. pc' \in {"prompt", "save", "apply", "run", "restore"} /\ line' \in Lines
        /\ killed' \in BOOLEAN
    BY DEF NextLine
  <2>2. ran' \in {NotRun} \cup (Object \X Object)
    BY DEF NextLine
  <2>3. i' \in 0..Len(line'.nodes)
    BY <1>1 DEF NextLine
  <2> QED
    BY <2>1, <2>2, <2>3 DEF NextLine, IInv, ChainInv, TypeOK
<1>3. TableInv'
  BY DEF NextLine, IInv, ChainInv, TableInv, AtRest, StreamsOpen
<1>4. StreamInv'
  BY DEF NextLine, StreamInv, CommandStreams
<1> QED
  BY <1>2, <1>3, <1>4 DEF IInv, ChainInv

\* The two copies are new descriptors, or the chain ends as it began.
LEMMA SaveKeeps == IInv /\ SaveOriginalFds => ChainInv'
<1> SUFFICES ASSUME IInv, SaveOriginalFds PROVE ChainInv'
  OBVIOUS
<1> DEFINE in == NextFd(fd)
           one == OpenAs(fd, in, fd[STDIN_FILENO])
           out == NextFd(one)
<1>1. /\ fd \in [Fd -> Object] /\ fd = base /\ StreamsOpen(fd) /\ StreamsOpen(base)
      /\ orig = <<NoFd, NoFd>> /\ final = NoFd /\ TypeOK /\ i = Len(line.nodes)
  BY DEF SaveOriginalFds, IInv, ChainInv, TypeOK, TableInv, AtRest, StreamInv
<1>2. CommandStreams'
  BY StreamsKept DEF SaveOriginalFds, History, IInv, ChainInv, StreamInv
<1>3. CASE ~Full(fd) /\ ~Full(one)
  <2>1. in \in Fd /\ fd[in] = Free
    BY <1>1, <1>3, NextFdIsFree
  <2>2. in \notin {STDIN_FILENO, STDOUT_FILENO}
    BY <2>1, <1>1 DEF StreamsOpen
  <2>3. one \in [Fd -> Object] /\ one[in] = fd[STDIN_FILENO]
        /\ \A f \in Fd \ {in} : one[f] = fd[f]
    BY <2>1, <1>1, FdFacts DEF OpenAs
  <2>4. out \in Fd /\ one[out] = Free
    BY <2>3, <1>3, NextFdIsFree
  <2>5. out \notin {STDIN_FILENO, STDOUT_FILENO, in} /\ fd[out] = Free
    BY <2>2, <2>3, <2>4, <1>1, FdFacts DEF StreamsOpen
  <2>6. /\ pc' = "apply" /\ orig' = <<in, out>> /\ final' = final /\ base' = base
        /\ fd' = [one EXCEPT ![out] = fd[STDOUT_FILENO]]
        /\ UNCHANGED <<line, i, file, before, ran, killed, status>>
    BY <1>3 DEF SaveOriginalFds, History, OpenAs
  <2>7. /\ fd' \in [Fd -> Object] /\ fd'[in] = fd[STDIN_FILENO]
        /\ fd'[out] = fd[STDOUT_FILENO]
        /\ \A f \in Fd \ {in, out} : fd'[f] = fd[f]
    BY <2>3, <2>4, <2>5, <2>6, <1>1, FdFacts
  <2> HIDE DEF in, one, out
  <2>8. TypeOK'
    BY <2>1, <2>4, <2>6, <2>7, <1>1 DEF TypeOK
  <2>9. TableInv'
    BY <2>1, <2>2, <2>4, <2>5, <2>6, <2>7, <1>1, FdFacts
       DEF TableInv, InChain, Own, StreamsOpen
  <2>10. StreamInv'
    <3>1. \A ops : Done(ops)' = {}
      BY <2>6, <1>1, NodeFacts DEF Done, Indices
    <3>2. fd'[STDIN_FILENO] = base'[STDIN_FILENO] /\ fd'[STDOUT_FILENO] = base'[STDOUT_FILENO]
      BY <2>2, <2>5, <2>6, <2>7, <1>1, FdFacts
    <3> QED
      BY <3>1, <3>2, <2>6, <1>1, <1>2 DEF StreamInv, Wanted, Target
  <2> QED
    BY <2>8, <2>9, <2>10 DEF IInv, ChainInv
<1>4. CASE ~ (~Full(fd) /\ ~Full(one))
  <2>1. /\ pc' = "prompt" /\ status' = 1
        /\ UNCHANGED <<fd, orig, line, base, before, i, final, file, ran, killed>>
    BY <1>4 DEF SaveOriginalFds, History
  <2>2. TypeOK' /\ TableInv'
    BY <2>1, <1>1 DEF TypeOK, TableInv, AtRest, StreamsOpen
  <2> QED
    BY <2>1, <2>2, <1>2 DEF IInv, ChainInv, StreamInv
<1> QED
  BY <1>3, <1>4

\* A failed redirection gives final_output_fd back and leaves the saved copies
\* where restore_fds finds them.
LEMMA AbandonKeeps ==
  ASSUME IInv, pc = "apply", Abandon(fd), UNCHANGED <<History, orig, file, ran>>,
         killed' \in BOOLEAN
  PROVE  ChainInv'
<1>1. /\ fd \in [Fd -> Object] /\ InChain /\ StreamsOpen(fd) /\ StreamsOpen(base)
      /\ final \in Fd \cup {NoFd} /\ TypeOK /\ base \in [Fd -> Object]
  BY DEF IInv, ChainInv, TypeOK, TableInv
<1>2. /\ fd' = Close(fd, final) /\ final' = NoFd /\ pc' = "restore" /\ status' = 1
      /\ UNCHANGED <<i, line, base, before, orig, file, ran>>
  BY DEF Abandon, CloseFinal, History, RedirFailure
<1>3. fd' \in [Fd -> Object]
  BY <1>1, <1>2, ObjectFacts DEF Close
<1>4. /\ \A f \in Fd \ {final} : fd'[f] = fd[f]
      /\ final \in Fd => fd'[final] = Free /\ base[final] = Free
  BY <1>1, <1>2, FdFacts DEF Close, InChain, Own
<1>5. TypeOK'
  BY <1>1, <1>2, <1>3 DEF TypeOK
<1>6. InChain' /\ StreamsOpen(fd')
  BY <1>1, <1>2, <1>4, FdFacts DEF InChain, Own, StreamsOpen
<1>7. CommandStreams'
  BY <1>2, StreamsKept DEF IInv, ChainInv, StreamInv
<1> QED
  BY <1>1, <1>2, <1>5, <1>6, <1>7 DEF IInv, ChainInv, TableInv, StreamInv

\* A standard stream is replaced and the next node follows.
LEMMA InputKeeps ==
  ASSUME IInv, pc = "apply", i > 0, Op(Node) \in InOps, NEW object \in Object,
         object # Free, object = IF Op(Node) = "<<" THEN Pipe ELSE Node,
         fd' = [fd EXCEPT ![STDIN_FILENO] = object], CountDown,
         UNCHANGED <<History, orig, final, file, ran, killed>>
  PROVE  ChainInv'
<1>1. /\ fd \in [Fd -> Object] /\ InChain /\ StreamsOpen(fd) /\ StreamsOpen(base)
      /\ final \in Fd \cup {NoFd} /\ TypeOK
  BY DEF IInv, ChainInv, TypeOK, TableInv
<1>2. /\ i' = i - 1
      /\ UNCHANGED <<pc, status, line, base, before, orig, final, file, ran, killed>>
  BY DEF CountDown, History
<1>3. /\ fd' \in [Fd -> Object] /\ fd'[STDIN_FILENO] = object
      /\ \A f \in Fd \ {STDIN_FILENO} : fd'[f] = fd[f]
  BY <1>1, FdFacts
<1>4. TypeOK'
  BY <1>1, <1>2, <1>3, NodeFacts DEF TypeOK
<1>5. TableInv'
  <2>1. InChain'
    BY <1>1, <1>2, <1>3, FdFacts DEF InChain, Own
  <2>2. final # NoFd => fd'[final] # Free
    BY <1>1, <1>3 DEF IInv, ChainInv, TableInv, InChain
  <2> QED
    BY <2>1, <2>2, <1>1, <1>2, <1>3, FdFacts DEF TableInv, StreamsOpen
<1>6. StreamInv'
  <2>1. Done(InOps)' # {} /\ Lowest(Done(InOps)') = i
    BY <1>1, <1>2, DoneStep
  <2>2. Done(OutOps)' = Done(OutOps)
    BY <1>1, <1>2, DoneStep DEF InOps, OutOps
  <2>3. fd'[STDIN_FILENO] = Wanted(InOps, base[STDIN_FILENO])'
    BY <2>1, <1>2, <1>3 DEF Wanted, Node
  <2>4. Target' = Target
    BY <1>1, <1>2, <1>3, FdFacts DEF Target, InChain
  <2>5. Wanted(OutOps, base[STDOUT_FILENO])' = Wanted(OutOps, base[STDOUT_FILENO])
    BY <2>2, <1>2 DEF Wanted
  <2>6. CommandStreams'
    BY <1>2, StreamsKept DEF IInv, ChainInv, StreamInv
  <2> QED
    BY <2>3, <2>4, <2>5, <2>6, <1>2 DEF IInv, ChainInv, StreamInv
<1> QED
  BY <1>4, <1>5, <1>6 DEF IInv, ChainInv

\* "<": the file becomes STDIN_FILENO, or the chain is given up.
LEMMA RedirInKeeps == IInv /\ HandleRedirIn => ChainInv'
<1> SUFFICES ASSUME IInv, HandleRedirIn PROVE ChainInv'
  OBVIOUS
<1>1. TypeOK /\ killed \in BOOLEAN /\ pc = "apply" /\ i > 0 /\ Op(Node) = "<"
  BY DEF IInv, ChainInv, TypeOK, HandleRedirIn
<1>2. Node \in Object /\ Node # Free
  BY <1>1, NodeFacts, ObjectFacts
<1>3. CASE Abandon(fd)
  BY <1>1, <1>3, AbandonKeeps DEF HandleRedirIn
<1>4. CASE /\ fd' = [fd EXCEPT ![STDIN_FILENO] = Node]
           /\ CountDown /\ UNCHANGED final
  BY <1>1, <1>2, <1>4, InputKeeps DEF HandleRedirIn, InOps
<1> QED
  BY <1>3, <1>4 DEF HandleRedirIn

\* "<<": the pipe becomes STDIN_FILENO, or the chain is given up.
LEMMA HeredocKeeps == IInv /\ HandleHeredoc => ChainInv'
<1> SUFFICES ASSUME IInv, HandleHeredoc PROVE ChainInv'
  OBVIOUS
<1>1. /\ TypeOK /\ pc = "apply" /\ i > 0 /\ Op(Node) = "<<"
      /\ UNCHANGED <<History, orig, file, ran>>
  BY DEF IInv, ChainInv, HandleHeredoc
<1>2. CASE Abandon(fd) /\ killed' \in BOOLEAN
  BY <1>1, <1>2, AbandonKeeps
<1>3. CASE /\ fd' = [fd EXCEPT ![STDIN_FILENO] = Pipe]
           /\ CountDown /\ UNCHANGED <<final, killed>>
  BY <1>1, <1>3, ObjectFacts, InputKeeps DEF InOps
<1>4. killed \in BOOLEAN
  BY <1>1 DEF TypeOK
<1> QED
  BY <1>2, <1>3, <1>4 DEF HandleHeredoc

\* The previous target is closed before the next one is opened, so that one
\* descriptor at most is the chain's own beside the saved copies.
LEMMA OutputKeeps == IInv /\ OpenAndSetFinalOutputFd => ChainInv'
<1> SUFFICES ASSUME IInv, OpenAndSetFinalOutputFd PROVE ChainInv'
  OBVIOUS
<1> DEFINE table == Close(fd, final)
           new == NextFd(table)
<1>1. /\ fd \in [Fd -> Object] /\ InChain /\ StreamsOpen(fd) /\ StreamsOpen(base)
      /\ final \in Fd \cup {NoFd} /\ TypeOK /\ pc = "apply" /\ i > 0
      /\ Op(Node) \in OutOps /\ base \in [Fd -> Object]
  BY DEF IInv, ChainInv, TypeOK, TableInv, OpenAndSetFinalOutputFd, OutOps
<1>2. UNCHANGED <<line, base, before, orig, ran, killed>>
  BY DEF OpenAndSetFinalOutputFd, History
<1>3. table \in [Fd -> Object]
  BY <1>1, ObjectFacts DEF Close
<1>4. /\ \A f \in Fd \ {final} : table[f] = fd[f]
      /\ final \in Fd => table[final] = Free /\ base[final] = Free
  BY <1>1, FdFacts DEF Close, InChain, Own
<1>5. CommandStreams'
  BY <1>2, StreamsKept DEF IInv, ChainInv, StreamInv
<1>6. StreamsOpen(table)
  BY <1>1, <1>4, FdFacts DEF StreamsOpen, InChain
<1>7. /\ \A f \in Fd \ {STDIN_FILENO, STDOUT_FILENO, orig[1], orig[2]} : table[f] = base[f]
      /\ table[orig[1]] = base[STDIN_FILENO] /\ table[orig[2]] = base[STDOUT_FILENO]
  BY <1>1, <1>4 DEF InChain, Own
<1>8. CASE CanWrite(Name(Node)) /\ ~Full(table)
  <2>1. new \in Fd /\ table[new] = Free
    BY <1>3, <1>8, NextFdIsFree
  <2>2. new \notin {STDIN_FILENO, STDOUT_FILENO, orig[1], orig[2]}
    BY <2>1, <1>6, <1>7, <1>1 DEF StreamsOpen
  <2>3. /\ fd' = [table EXCEPT ![new] = Node] /\ final' = new
        /\ file' = [file EXCEPT ![Name(Node)] = Opened(@, Op(Node))]
        /\ i' = i - 1 /\ UNCHANGED <<pc, status>>
    BY <1>8 DEF OpenAndSetFinalOutputFd, OpenAs, CountDown
  <2>4. Node \in Object /\ Node # Free /\ Name(Node) \in Files
    BY <1>1, NodeFacts, ObjectFacts
  <2>5. /\ fd' \in [Fd -> Object] /\ fd'[new] = Node
        /\ \A f \in Fd \ {new} : fd'[f] = table[f]
    BY <2>1, <2>3, <2>4, <1>3
  <2>6. file' \in [Files -> Content]
    <3>1. \A old \in Content : Opened(old, Op(Node)) \in Content
      BY DEF Opened, Content
    <3>2. file \in [Files -> Content]
      BY <1>1 DEF TypeOK
    <3> QED
      BY <2>3, <2>4, <3>1, <3>2
  <2>7. i' \in 0..Len(line.nodes)
    BY <2>3, <1>1, NodeFacts
  <2> HIDE DEF table, new
  <2>8. TypeOK'
    BY <2>1, <2>3, <2>5, <2>6, <2>7, <1>1, <1>2 DEF TypeOK
  <2>9. base[new] = Free /\ fd[STDIN_FILENO] = fd'[STDIN_FILENO]
        /\ StreamsOpen(fd')
    BY <2>1, <2>2, <2>5, <1>1, <1>4, <1>6, <1>7, FdFacts DEF StreamsOpen, InChain
  <2>10. InChain'
    BY <2>1, <2>2, <2>3, <2>5, <2>9, <1>1, <1>2, <1>7, FdFacts DEF InChain, Own
  <2>11. TableInv'
    BY <2>3, <2>4, <2>5, <2>9, <2>10, <1>1, <1>2 DEF TableInv
  <2>12. Done(OutOps)' # {} /\ Lowest(Done(OutOps)') = i
    BY <2>3, <1>1, <1>2, DoneStep
  <2>13. Done(InOps)' = Done(InOps)
    BY <2>3, <1>1, <1>2, DoneStep DEF InOps, OutOps
  <2>14. Target' = Wanted(OutOps, base[STDOUT_FILENO])'
    <3>1. Target' = Node
      BY <2>1, <2>3, <2>5, FdFacts DEF Target
    <3>2. Op(Node) # "<<"
      BY <1>1 DEF OutOps
    <3> QED
      BY <3>1, <3>2, <2>12, <1>2 DEF Wanted, Node
  <2>15. fd'[STDIN_FILENO] = Wanted(InOps, base[STDIN_FILENO])'
    BY <2>9, <2>13, <1>1, <1>2 DEF IInv, ChainInv, StreamInv, Wanted
  <2> QED
    BY <2>3, <2>8, <2>11, <2>14, <2>15, <1>1, <1>2, <1>5 DEF IInv, ChainInv, StreamInv
<1>9. CASE ~ (CanWrite(Name(Node)) /\ ~Full(table))
  <2>1. /\ fd' = table /\ final' = NoFd /\ pc' = "restore" /\ status' = 1
        /\ UNCHANGED <<i, file>>
    BY <1>9 DEF OpenAndSetFinalOutputFd, RedirFailure
  <2> HIDE DEF table
  <2>2. TypeOK'
    BY <2>1, <1>1, <1>2, <1>3 DEF TypeOK
  <2>3. InChain'
    BY <2>1, <1>1, <1>2, <1>7, FdFacts DEF InChain, Own
  <2> QED
    BY <2>1, <2>2, <2>3, <1>1, <1>2, <1>5, <1>6 DEF IInv, ChainInv, TableInv, StreamInv, StreamsOpen
<1> QED
  BY <1>8, <1>9

\* The last output of the line becomes STDOUT_FILENO, or the chain is given up.
LEMMA InstallKeeps == IInv /\ InstallOutput => ChainInv'
<1> SUFFICES ASSUME IInv, InstallOutput PROVE ChainInv'
  OBVIOUS
<1>1. /\ fd \in [Fd -> Object] /\ InChain /\ StreamsOpen(fd) /\ StreamsOpen(base)
      /\ final \in Fd \cup {NoFd} /\ TypeOK /\ pc = "apply" /\ i = 0
      /\ base \in [Fd -> Object]
  BY DEF IInv, ChainInv, TypeOK, TableInv, InstallOutput
<1>2. /\ UNCHANGED <<line, base, before, i, orig, file, ran, killed>> /\ final' = NoFd
  BY DEF InstallOutput, History
<1>3. CommandStreams'
  BY <1>2, StreamsKept DEF IInv, ChainInv, StreamInv
<1>4. /\ Wanted(InOps, base[STDIN_FILENO])' = fd[STDIN_FILENO]
      /\ Wanted(OutOps, base[STDOUT_FILENO])' = Target
  BY <1>1, <1>2 DEF IInv, ChainInv, StreamInv, Wanted, Done, Indices
<1>5. CASE final = NoFd
  <2>1. pc' = "run" /\ UNCHANGED <<fd, status>>
    BY <1>5 DEF InstallOutput
  <2>2. TypeOK' /\ TableInv'
    BY <2>1, <1>1, <1>2, <1>5 DEF TypeOK, TableInv, InChain, Own, StreamsOpen
  <2> QED
    BY <2>1, <2>2, <1>1, <1>2, <1>3, <1>4, <1>5 DEF IInv, ChainInv, StreamInv, Target
<1>6. CASE /\ final # NoFd
           /\ fd' = Close(Dup2(fd, final, STDOUT_FILENO), final)
           /\ pc' = "run" /\ UNCHANGED status
  <2>1. /\ fd' \in [Fd -> Object] /\ fd'[STDOUT_FILENO] = fd[final]
        /\ fd'[final] = Free /\ base[final] = Free
        /\ \A f \in Fd \ {STDOUT_FILENO, final} : fd'[f] = fd[f]
    BY <1>1, <1>6, FdFacts, ObjectFacts DEF Close, Dup2, InChain, Own
  <2>2. fd[final] # Free
    BY <1>6 DEF IInv, ChainInv, TableInv
  <2>3. TypeOK' /\ TableInv'
    BY <2>1, <2>2, <1>1, <1>2, <1>6, FdFacts DEF TypeOK, TableInv, InChain, Own, StreamsOpen
  <2>4. fd'[STDIN_FILENO] = fd[STDIN_FILENO]
    BY <2>1, <1>1, FdFacts DEF InChain
  <2> QED
    BY <2>1, <2>3, <2>4, <1>1, <1>2, <1>3, <1>4, <1>6 DEF IInv, ChainInv, StreamInv, Target
<1>7. CASE /\ final # NoFd /\ fd' = Close(fd, final)
           /\ pc' = "restore" /\ status' = RedirFailure
  <2>1. /\ fd' \in [Fd -> Object] /\ fd'[final] = Free /\ base[final] = Free
        /\ \A f \in Fd \ {final} : fd'[f] = fd[f]
    BY <1>1, <1>7, FdFacts, ObjectFacts DEF Close, InChain, Own
  <2>2. TypeOK' /\ TableInv'
    BY <2>1, <1>1, <1>2, <1>7, FdFacts
       DEF TypeOK, TableInv, InChain, Own, StreamsOpen, RedirFailure
  <2> QED
    BY <2>2, <1>1, <1>2, <1>3, <1>7 DEF IInv, ChainInv, StreamInv
<1> QED
  BY <1>5, <1>6, <1>7 DEF InstallOutput

\* With every node applied, Wanted is StreamOf: the command gets what its chain
\* asked for.
LEMMA RunKeeps == IInv /\ RunCommand => ChainInv'
<1> SUFFICES ASSUME IInv, RunCommand PROVE ChainInv'
  OBVIOUS
<1>1. /\ fd \in [Fd -> Object] /\ InChain /\ StreamsOpen(fd) /\ StreamsOpen(base)
      /\ final = NoFd /\ TypeOK /\ pc = "run" /\ i = 0 /\ file \in [Files -> Content]
  BY DEF IInv, ChainInv, TypeOK, TableInv, StreamInv, RunCommand
<1>2. UNCHANGED <<line, base, before, i, fd, orig, final, killed>> /\ pc' = "restore"
  BY DEF RunCommand, History
<1>3. /\ fd[STDIN_FILENO] = StreamOf(InOps, base[STDIN_FILENO])
      /\ fd[STDOUT_FILENO] = StreamOf(OutOps, base[STDOUT_FILENO])
  <2>1. \A ops : Done(ops) = Indices(ops)
    BY <1>1, NodeFacts DEF Done, Indices
  <2> QED
    BY <2>1, <1>1 DEF IInv, ChainInv, StreamInv, Target, Wanted, StreamOf
<1>4. CommandStreams'
  <2>1. CASE ran' = <<fd[STDIN_FILENO], fd[STDOUT_FILENO]>>
    BY <2>1, <1>2, <1>3 DEF CommandStreams, StreamOf, Indices, InOps, OutOps
  <2>2. CASE ran' = ran
    BY <2>2, <1>2, StreamsKept DEF IInv, ChainInv, StreamInv
  <2> QED
    BY <2>1, <2>2 DEF RunCommand
<1>5. fd[STDIN_FILENO] \in Object /\ fd[STDOUT_FILENO] \in Object
  BY <1>1, FdFacts
<1>6. file' \in [Files -> Content]
  <2>1. CASE file' = Write(fd[STDOUT_FILENO])
    <3> DEFINE object == fd[STDOUT_FILENO]
    <3>1. object[1] \in OutOps => object[2] \in Files /\ file[object[2]] # Absent
      BY <1>5, FdFacts DEF Object, Ops, Free, Stdin, Stdout, Other, Pipe, OutOps,
         IInv, FilesInv
    <3>2. \A old \in Content : old # Absent => old \cup {"new"} \in Content
      BY DEF Content
    <3> QED
      BY <2>1, <3>1, <3>2, <1>1 DEF Write, OutOps
  <2>2. CASE file' = file
    BY <2>2, <1>1
  <2> QED
    BY <2>1, <2>2 DEF RunCommand
<1>7. TypeOK'
  <2>1. ran' \in {NotRun} \cup (Object \X Object) /\ status' \in {0, 1, 2, QuitStatus}
    BY <1>1, <1>5 DEF RunCommand, TypeOK
  <2> QED
    BY <2>1, <1>1, <1>2, <1>6 DEF TypeOK
<1>8. TableInv'
  BY <1>1, <1>2 DEF TableInv, InChain, Own, StreamsOpen
<1> QED
  BY <1>2, <1>4, <1>7, <1>8 DEF IInv, ChainInv, StreamInv

\* The saved copies go back and are closed: the table is base again.
LEMMA RestoreKeeps == IInv /\ RestoreFds => ChainInv'
<1> SUFFICES ASSUME IInv, RestoreFds PROVE ChainInv'
  OBVIOUS
<1> DEFINE back == Dup2(Dup2(fd, orig[1], STDIN_FILENO), orig[2], STDOUT_FILENO)
<1>1. /\ fd \in [Fd -> Object] /\ base \in [Fd -> Object] /\ InChain
      /\ StreamsOpen(base) /\ final = NoFd /\ TypeOK
  BY DEF IInv, ChainInv, TypeOK, TableInv, RestoreFds
<1>2. /\ UNCHANGED <<line, base, before, i, final, file, status, ran, killed>>
      /\ pc' = "prompt" /\ orig' = <<NoFd, NoFd>>
      /\ fd' = Close(Close(back, orig[1]), orig[2])
  BY DEF RestoreFds, History
<1>3. /\ orig[1] \in Fd \ {STDIN_FILENO, STDOUT_FILENO}
      /\ orig[2] \in Fd \ {STDIN_FILENO, STDOUT_FILENO, orig[1]}
      /\ base[orig[1]] = Free /\ base[orig[2]] = Free
      /\ fd[orig[1]] = base[STDIN_FILENO] /\ fd[orig[2]] = base[STDOUT_FILENO]
  BY <1>1 DEF InChain, Own
<1>4. \A f \in Fd \ {STDIN_FILENO, STDOUT_FILENO, orig[1], orig[2]} : fd[f] = base[f]
  BY <1>1, FdFacts DEF InChain, Own
<1>5. /\ back \in [Fd -> Object]
      /\ back[STDIN_FILENO] = base[STDIN_FILENO] /\ back[STDOUT_FILENO] = base[STDOUT_FILENO]
      /\ \A f \in Fd \ {STDIN_FILENO, STDOUT_FILENO} : back[f] = fd[f]
  BY <1>1, <1>3, FdFacts DEF Dup2
<1> HIDE DEF back
<1>6. fd' = [[back EXCEPT ![orig[1]] = Free] EXCEPT ![orig[2]] = Free]
  BY <1>2, <1>3, FdFacts DEF Close
<1>7. /\ fd' \in [Fd -> Object] /\ \A f \in Fd : fd'[f] = base[f]
  BY <1>3, <1>4, <1>5, <1>6, FdFacts, ObjectFacts
<1>8. fd' = base
  BY <1>1, <1>7
<1>9. TypeOK'
  <2>1. orig' \in [1..2 -> Fd \cup {NoFd}]
    BY <1>2
  <2> QED
    BY <2>1, <1>1, <1>2, <1>7 DEF TypeOK
<1>10. TableInv'
  BY <1>1, <1>2, <1>8 DEF TableInv, AtRest, StreamsOpen
<1>11. CommandStreams'
  BY <1>2, StreamsKept DEF IInv, ChainInv, StreamInv
<1> QED
  BY <1>2, <1>9, <1>10, <1>11 DEF IInv, ChainInv, StreamInv

\* Whatever descriptor refers to an output's file, open has created the file,
\* and nothing deletes it.
LEMMA FilesKeep == IInv /\ [Next]_vars => FilesInv'
<1> SUFFICES ASSUME IInv, [Next]_vars PROVE FilesInv'
  OBVIOUS
<1> DEFINE There(object) == object[1] \in OutOps => file[object[2]] # Absent
<1>1. TypeOK /\ \A f \in Fd : There(fd[f])
  BY DEF IInv, ChainInv, FilesInv
<1>2. There(Free) /\ There(Pipe)
  BY DEF Free, Pipe, OutOps
<1>3. /\ \A f \in Fd : fd'[f] \in {fd[g] : g \in Fd} \cup {Free, Pipe}
      /\ file' = file
      => FilesInv'
  BY <1>1, <1>2 DEF FilesInv
<1>4. Abandon(fd) /\ file' = file => FilesInv'
  <2> SUFFICES ASSUME Abandon(fd), file' = file PROVE FilesInv'
    OBVIOUS
  <2>1. \A f \in Fd : fd'[f] \in {fd[g] : g \in Fd} \cup {Free, Pipe}
    BY <1>1 DEF Abandon, CloseFinal, Close, TypeOK
  <2> QED
    BY <2>1, <1>3
<1>5. CASE UNCHANGED vars \/ NextLine
  BY <1>3, <1>5 DEF vars, NextLine
<1>6. CASE SaveOriginalFds
  <2> DEFINE in == NextFd(fd)
             one == OpenAs(fd, in, fd[STDIN_FILENO])
             out == NextFd(one)
  <2>1. CASE fd' = OpenAs(one, out, fd[STDOUT_FILENO])
    <3>1. \A f \in Fd : one[f] \in {fd[g] : g \in Fd}
      BY <1>1, FdFacts DEF OpenAs, TypeOK
    <3>2. DOMAIN one = Fd
      BY <1>1 DEF OpenAs, TypeOK
    <3> HIDE DEF one, out
    <3>3. \A f \in Fd : fd'[f] \in {fd[g] : g \in Fd}
      BY <2>1, <3>1, <3>2, FdFacts DEF OpenAs
    <3> QED
      BY <3>3, <1>3, <1>6 DEF SaveOriginalFds
  <2>2. CASE fd' = fd
    BY <2>2, <1>3, <1>6 DEF SaveOriginalFds
  <2> QED
    BY <2>1, <2>2, <1>6 DEF SaveOriginalFds
<1>7. CASE HandleRedirIn
  <2>1. CASE fd' = [fd EXCEPT ![STDIN_FILENO] = Node]
    <3>1. There(Node)
      BY <1>7 DEF HandleRedirIn, Op, OutOps
    <3> QED
      BY <2>1, <3>1, <1>1, <1>7 DEF HandleRedirIn, FilesInv, TypeOK
  <2> QED
    BY <2>1, <1>4, <1>7 DEF HandleRedirIn
<1>8. CASE HandleHeredoc
  BY <1>1, <1>3, <1>4, <1>8 DEF HandleHeredoc, TypeOK
<1>9. CASE OpenAndSetFinalOutputFd
  <2> DEFINE table == Close(fd, final)
             new == NextFd(table)
  <2>1. \A f \in Fd : table[f] \in {fd[g] : g \in Fd} \cup {Free, Pipe}
    BY <1>1 DEF Close, TypeOK
  <2>2. CASE /\ fd' = OpenAs(table, new, Node)
             /\ file' = [file EXCEPT ![Name(Node)] = Opened(@, Op(Node))]
    <3>1. \A old : Opened(old, Op(Node)) # Absent
      BY DEF Opened, Absent
    <3>2. \A name : file[name] # Absent => file'[name] # Absent
      BY <2>2, <3>1, <1>1 DEF TypeOK
    <3>3. file'[Name(Node)] # Absent
      BY <2>2, <3>1, <1>1, <1>9, NodeFacts DEF TypeOK, OpenAndSetFinalOutputFd
    <3>4. \A f \in Fd : table[f][1] \in OutOps => file'[table[f][2]] # Absent
      BY <2>1, <3>2, <1>1, <1>2
    <3>5. table \in [Fd -> Object]
      BY <1>1, ObjectFacts DEF Close, TypeOK
    <3>6. \A f \in Fd : fd'[f] \in {Node, table[f]}
      BY <2>2, <3>5 DEF OpenAs
    <3> HIDE DEF table
    <3> QED
      BY <3>3, <3>4, <3>6 DEF FilesInv, Name
  <2>3. CASE fd' = table /\ file' = file
    BY <2>1, <2>3, <1>3
  <2> QED
    BY <2>2, <2>3, <1>9 DEF OpenAndSetFinalOutputFd
<1>10. CASE InstallOutput
  <2>1. \A f \in Fd : fd'[f] \in {fd[g] : g \in Fd} \cup {Free, Pipe}
    BY <1>1, <1>10 DEF InstallOutput, Close, Dup2, TypeOK, NoFd
  <2> QED
    BY <2>1, <1>3, <1>10 DEF InstallOutput
<1>11. CASE RunCommand
  <2>1. \A name \in Files : file[name] # Absent => file'[name] # Absent
    <3>1. CASE file' = Write(fd[STDOUT_FILENO])
      <4>1. \A old : old \cup {"new"} # Absent
        BY DEF Absent
      <4> QED
        BY <3>1, <4>1, <1>1 DEF Write, TypeOK
    <3>2. CASE file' = file
      BY <3>2
    <3> QED
      BY <3>1, <3>2, <1>11 DEF RunCommand
  <2>2. \A f \in Fd : fd[f][1] \in OutOps => fd[f][2] \in Files
    BY <1>1 DEF TypeOK, Object, Ops, Free, Stdin, Stdout, Other, Pipe, OutOps
  <2>3. fd' = fd
    BY <1>11 DEF RunCommand
  <2> QED
    BY <2>1, <2>2, <2>3, <1>1 DEF FilesInv
<1>12. CASE RestoreFds
  <2>1. orig[1] \in Fd /\ orig[2] \in Fd
    BY <1>12 DEF IInv, ChainInv, TableInv, InChain, RestoreFds
  <2>2. \A f \in Fd : fd'[f] \in {fd[g] : g \in Fd} \cup {Free, Pipe}
    BY <2>1, <1>1, <1>12 DEF RestoreFds, Close, Dup2, TypeOK
  <2> QED
    BY <2>2, <1>3, <1>12 DEF RestoreFds
<1> QED
  BY <1>5, <1>6, <1>7, <1>8, <1>9, <1>10, <1>11, <1>12 DEF Next

-----------------------------------------------------------------------------
\* Every reachable state satisfies the inductive invariant.
THEOREM Invariance == Spec => []IInv
<1>1. Init => IInv
  BY InitInv
<1>2. IInv /\ [Next]_vars => IInv'
  <2>1. IInv /\ Next => ChainInv'
    BY NextLineKeeps, SaveKeeps, RedirInKeeps, OutputKeeps, HeredocKeeps,
       InstallKeeps, RunKeeps, RestoreKeeps DEF Next
  <2>2. IInv /\ UNCHANGED vars => ChainInv'
    BY DEF vars, IInv, ChainInv, TypeOK, TableInv, AtRest, InChain, Own, StreamsOpen, StreamInv,
           Target, Wanted, Done, CommandStreams, StreamOf, Indices
  <2> QED
    BY <2>1, <2>2, FilesKeep DEF IInv
<1> QED
  BY <1>1, <1>2, PTL DEF Spec

\* The variables keep their types.
THEOREM TypeCorrect == Spec => []TypeOK
<1>1. IInv => TypeOK
  BY DEF IInv, ChainInv
<1> QED
  BY <1>1, Invariance, PTL

\* Whatever failed on the way, the prompt comes back with exactly the
\* descriptors the line started with.
THEOREM RestoredAlways == Spec => []Restored
<1>1. IInv => Restored
  BY DEF IInv, ChainInv, TableInv, AtRest, Restored
<1> QED
  BY <1>1, Invariance, PTL

\* A command always gets the last input and the last output of its chain.
THEOREM CommandStreamsAlways == Spec => []CommandStreams
<1>1. IInv => CommandStreams
  BY DEF IInv, ChainInv, StreamInv
<1> QED
  BY <1>1, Invariance, PTL

-----------------------------------------------------------------------------
(***************************************************************************)
(* What a line does to the files, and when it reports success.             *)
(***************************************************************************)
\* The output redirections to a file that have been applied.
Opens(name) == {j \in Indices(OutOps) : j > i /\ Name(line.nodes[j]) = name}

\* What they leave in it, and whether the command wrote to it.
Emptied(name) == before[name] = Absent \/ \E j \in Opens(name) : Op(line.nodes[j]) = ">"
Kept(name) == IF Opens(name) # {} /\ Emptied(name) THEN {} ELSE before[name]
WrittenTo(name) == ran # NotRun /\ ran[2][1] \in OutOps /\ ran[2][2] = name

\* FilesAsAsked, at any place in the chain.
ContentInv ==
    \A name \in Files :
        file[name] = IF WrittenTo(name) THEN Kept(name) \cup {"new"} ELSE Kept(name)

\* Success is only reported, and the command only run, after the last node.
SuccessInv ==
    /\ pc \in {"save", "apply", "run"} => ran = NotRun
    /\ pc \in {"restore", "prompt"} /\ status = 0 /\ line.cmd => i = 0 /\ ran # NotRun

\* A chain that has not applied another output and has not run the command
\* leaves the contents as they were.
LEMMA ContentKept ==
  ASSUME ContentInv, UNCHANGED <<line, before, ran, file>>,
         \A name : Opens(name)' = Opens(name)
  PROVE  ContentInv'
<1>1. \A name : Kept(name)' = Kept(name) /\ WrittenTo(name)' = WrittenTo(name)
  BY DEF Kept, Emptied, WrittenTo
<1> QED
  BY <1>1 DEF ContentInv

\* An input redirection opens no output.
LEMMA OpensAtInput ==
  ASSUME TypeOK, i > 0, i' = i - 1, line' = line, Op(Node) \notin OutOps
  PROVE  \A name : Opens(name)' = Opens(name)
<1>1. Done(OutOps)' = Done(OutOps)
  BY DoneStep
<1>2. \A name : Opens(name) = {j \in Done(OutOps) : Name(line.nodes[j]) = name}
  BY DEF Opens, Done
<1>3. \A name : Opens(name)' = {j \in Done(OutOps)' : Name(line.nodes[j]) = name}
  BY DEF Opens, Done
<1> QED
  BY <1>1, <1>2, <1>3

\* An output redirection is one more for its file and none for the others.
LEMMA OpensAtOutput ==
  ASSUME TypeOK, i > 0, i' = i - 1, line' = line, Op(Node) \in OutOps
  PROVE  \A name : Opens(name)' = IF name = Name(Node) THEN Opens(name) \cup {i}
                                                      ELSE Opens(name)
<1>1. i \in 1..Len(line.nodes) /\ Len(line.nodes) \in Nat
  BY NodeFacts DEF TypeOK
<1>2. Indices(OutOps)' = Indices(OutOps) /\ Indices(OutOps) \in SUBSET Nat
  BY <1>1 DEF Indices
<1>3. i \in Indices(OutOps)
  BY <1>1 DEF Indices, Node
<1>4. ASSUME NEW name
      PROVE  Opens(name)' = IF name = Name(Node) THEN Opens(name) \cup {i}
                                                 ELSE Opens(name)
  <2>1. Opens(name)' = {j \in Indices(OutOps) : j > i - 1 /\ Name(line.nodes[j]) = name}
    BY <1>2 DEF Opens
  <2>2. \A j \in Indices(OutOps) : j > i - 1 <=> (j > i \/ j = i)
    BY <1>1, <1>2
  <2>3. Opens(name) = {j \in Indices(OutOps) : j > i /\ Name(line.nodes[j]) = name}
    BY DEF Opens
  <2>4. Name(line.nodes[i]) = Name(Node)
    BY DEF Node
  <2> QED
    BY <1>3, <2>1, <2>2, <2>3, <2>4
<1> QED
  BY <1>4

\* open with O_TRUNC or O_APPEND leaves what FilesAsAsked says.
LEMMA ContentAtOutput ==
  ASSUME TypeOK, ContentInv, i > 0, i' = i - 1, Op(Node) \in OutOps, ran = NotRun,
         file' = [file EXCEPT ![Name(Node)] = Opened(@, Op(Node))],
         UNCHANGED <<line, before, ran>>
  PROVE  ContentInv'
<1>1. Name(Node) \in Files /\ file \in [Files -> Content]
  BY NodeFacts DEF TypeOK
<1>2. SUFFICES ASSUME NEW name \in Files
               PROVE  file'[name] = Kept(name)'
  BY DEF ContentInv, WrittenTo
<1>3. file[name] = Kept(name)
  BY DEF ContentInv, WrittenTo
<1>4. CASE name # Name(Node)
  <2>1. Opens(name)' = Opens(name)
    BY <1>4, OpensAtOutput
  <2>2. Kept(name)' = Kept(name)
    BY <2>1 DEF Kept, Emptied
  <2> QED
    BY <1>1, <1>3, <1>4, <2>2
<1>5. CASE name = Name(Node)
  <2>1. Opens(name)' = Opens(name) \cup {i}
    BY <1>5, OpensAtOutput
  <2>2. Op(line.nodes[i]) = Op(Node) /\ Op(Node) \in {">", ">>"}
    BY DEF Node, OutOps
  <2>3. Emptied(name)' <=> Emptied(name) \/ Op(Node) = ">"
    BY <2>1, <2>2 DEF Emptied
  <2>4. Kept(name)' = IF Emptied(name) \/ Op(Node) = ">" THEN {} ELSE before[name]
    BY <2>1, <2>3 DEF Kept
  <2>5. file'[name] = Opened(Kept(name), Op(Node))
    BY <1>1, <1>3, <1>5
  <2>6. CASE Op(Node) = ">"
    BY <2>4, <2>5, <2>6 DEF Opened
  <2>7. CASE Op(Node) # ">" /\ Opens(name) # {} /\ Emptied(name)
    <3>1. Kept(name) = {} /\ {} # Absent
      BY <2>7 DEF Kept, Absent
    <3> QED
      BY <2>4, <2>5, <2>7, <3>1 DEF Opened
  <2>8. CASE Op(Node) # ">" /\ ~ (Opens(name) # {} /\ Emptied(name))
    <3>1. Kept(name) = before[name]
      BY <2>8 DEF Kept
    <3>2. Emptied(name) => before[name] = Absent
      BY <2>8 DEF Emptied
    <3>3. before[name] = Absent => Emptied(name)
      BY DEF Emptied
    <3> QED
      BY <2>4, <2>5, <2>8, <3>1, <3>2, <3>3 DEF Opened
  <2> QED
    BY <2>6, <2>7, <2>8
<1> QED
  BY <1>4, <1>5

\* Only the command writes, and only to its own output.
LEMMA ContentStep == IInv /\ SuccessInv /\ ContentInv /\ [Next]_vars => ContentInv'
<1> SUFFICES ASSUME IInv, SuccessInv, ContentInv, [Next]_vars PROVE ContentInv'
  OBVIOUS
<1>1. TypeOK
  BY DEF IInv, ChainInv
<1>2. UNCHANGED <<line, i>> => \A name : Opens(name)' = Opens(name)
  BY DEF Opens, Indices
<1>3. CASE UNCHANGED vars
  BY <1>2, <1>3, ContentKept DEF vars
<1>4. CASE NextLine
  <2>1. line'.nodes \in Seq(Redir) /\ Len(line'.nodes) \in Nat
    BY <1>4, RedirAssumption DEF NextLine
  <2>2. \A name : Opens(name)' = {}
    BY <1>4, <2>1 DEF NextLine, Opens, Indices
  <2>3. \A name : Kept(name)' = file'[name] /\ ~WrittenTo(name)'
    BY <1>4, <2>2 DEF NextLine, Kept, WrittenTo
  <2> QED
    BY <2>3 DEF ContentInv
<1>5. CASE SaveOriginalFds
  BY <1>2, <1>5, ContentKept DEF SaveOriginalFds, History
<1>6. CASE HandleRedirIn
  <2>1. CASE CountDown
    BY <1>1, <1>6, <2>1, OpensAtInput, ContentKept DEF HandleRedirIn, History, CountDown, OutOps
  <2>2. CASE Abandon(fd)
    BY <1>2, <1>6, <2>2, ContentKept DEF HandleRedirIn, History, Abandon
  <2> QED
    BY <1>6, <2>1, <2>2 DEF HandleRedirIn
<1>7. CASE HandleHeredoc
  <2>1. CASE CountDown
    BY <1>1, <1>7, <2>1, OpensAtInput, ContentKept DEF HandleHeredoc, History, CountDown, OutOps
  <2>2. CASE Abandon(fd)
    BY <1>2, <1>7, <2>2, ContentKept DEF HandleHeredoc, History, Abandon
  <2> QED
    BY <1>7, <2>1, <2>2 DEF HandleHeredoc
<1>8. CASE OpenAndSetFinalOutputFd
  <2>1. ran = NotRun /\ Op(Node) \in OutOps /\ i > 0 /\ UNCHANGED <<line, before, ran>>
    BY <1>8 DEF OpenAndSetFinalOutputFd, SuccessInv, OutOps, History
  <2>2. CASE /\ file' = [file EXCEPT ![Name(Node)] = Opened(@, Op(Node))]
             /\ CountDown
    BY <1>1, <2>1, <2>2, ContentAtOutput DEF CountDown
  <2>3. CASE UNCHANGED <<i, file>>
    BY <1>2, <2>1, <2>3, ContentKept
  <2> QED
    BY <1>8, <2>2, <2>3 DEF OpenAndSetFinalOutputFd
<1>9. CASE InstallOutput
  BY <1>2, <1>9, ContentKept DEF InstallOutput, History
<1>10. CASE RunCommand
  <2>1. \A name : Kept(name)' = Kept(name)
    BY <1>2, <1>10 DEF RunCommand, History, Kept, Emptied
  <2>2. CASE ran' = ran /\ file' = file
    BY <1>2, <1>10, <2>2, ContentKept DEF RunCommand, History
  <2>3. CASE /\ ran' = <<fd[STDIN_FILENO], fd[STDOUT_FILENO]>>
             /\ file' = Write(fd[STDOUT_FILENO])
    <3>1. \A name : ~WrittenTo(name)
      BY <1>10 DEF RunCommand, SuccessInv, WrittenTo
    <3>2. ran'[2] = fd[STDOUT_FILENO] /\ ran' # NotRun
      BY <2>3 DEF NotRun
    <3>3. \A name : WrittenTo(name)' <=> /\ fd[STDOUT_FILENO][1] \in OutOps
                                         /\ fd[STDOUT_FILENO][2] = name
      BY <3>2 DEF WrittenTo
    <3>4. \A name \in Files : file'[name] = IF WrittenTo(name)' THEN file[name] \cup {"new"}
                                                               ELSE file[name]
      BY <1>1, <2>3, <3>3 DEF Write, OutOps, TypeOK
    <3> QED
      BY <2>1, <3>1, <3>4 DEF ContentInv
  <2> QED
    BY <1>10, <2>2, <2>3 DEF RunCommand
<1>11. CASE RestoreFds
  BY <1>2, <1>11, ContentKept DEF RestoreFds, History
<1> QED
  BY <1>3, <1>4, <1>5, <1>6, <1>7, <1>8, <1>9, <1>10, <1>11 DEF Next

\* A failure on the way sets a status, and a chain that gets to the command has
\* no node left.
LEMMA SuccessStep == IInv /\ SuccessInv /\ [Next]_vars => SuccessInv'
<1> SUFFICES ASSUME IInv, SuccessInv, [Next]_vars PROVE SuccessInv'
  OBVIOUS
<1>1. CASE UNCHANGED vars
  BY <1>1 DEF vars, SuccessInv
<1>2. CASE NextLine
  BY <1>2 DEF NextLine, SuccessInv
<1>3. CASE SaveOriginalFds
  BY <1>3 DEF SaveOriginalFds, SuccessInv, History
<1>4. CASE HandleRedirIn
  BY <1>4 DEF HandleRedirIn, SuccessInv, History, CountDown, Abandon, RedirFailure
<1>5. CASE OpenAndSetFinalOutputFd
  BY <1>5 DEF OpenAndSetFinalOutputFd, SuccessInv, History, CountDown, RedirFailure
<1>6. CASE HandleHeredoc
  BY <1>6 DEF HandleHeredoc, SuccessInv, History, CountDown, Abandon, RedirFailure
<1>7. CASE InstallOutput
  BY <1>7 DEF InstallOutput, SuccessInv, History, RedirFailure
<1>8. CASE RunCommand
  <2>1. i = 0 /\ i' = i /\ line' = line /\ pc' = "restore"
    BY <1>8 DEF RunCommand, IInv, ChainInv, StreamInv, History
  <2>2. line.cmd => ran' # NotRun
    BY <1>8 DEF RunCommand, NotRun
  <2> QED
    BY <2>1, <2>2 DEF SuccessInv
<1>9. CASE RestoreFds
  BY <1>9 DEF RestoreFds, SuccessInv, History
<1> QED
  BY <1>1, <1>2, <1>3, <1>4, <1>5, <1>6, <1>7, <1>8, <1>9 DEF Next

\* Status 0 is only reported when the whole chain was applied and the command
\* was run.
THEOREM SuccessIsTrueAlways == Spec => []SuccessIsTrue
<1>1. Init => SuccessInv
  BY DEF Init, SuccessInv
<1>2. IInv /\ SuccessInv /\ [Next]_vars => SuccessInv'
  BY SuccessStep
<1>3. SuccessInv => SuccessIsTrue
  BY DEF SuccessInv, SuccessIsTrue
<1> QED
  BY <1>1, <1>2, <1>3, Invariance, PTL DEF Spec

\* Files hold what the applied part of the chain asks for, however long the
\* chain is and wherever it stopped.
THEOREM FilesAsAskedAlways == Spec => []FilesAsAsked
<1>1. Init => SuccessInv /\ ContentInv
  <2> SUFFICES ASSUME Init PROVE SuccessInv /\ ContentInv
    OBVIOUS
  <2>1. Len(line.nodes) \in Nat /\ i = Len(line.nodes)
    BY RedirAssumption DEF Init
  <2>2. \A name : Opens(name) = {}
    BY <2>1 DEF Opens, Indices
  <2>3. \A name : Kept(name) = before[name] /\ ~WrittenTo(name)
    BY <2>2 DEF Kept, WrittenTo, Init
  <2> QED
    BY <2>3 DEF ContentInv, SuccessInv, Init
<1>2. IInv /\ SuccessInv /\ ContentInv /\ [Next]_vars => SuccessInv' /\ ContentInv'
  BY SuccessStep, ContentStep
<1>3. ContentInv => FilesAsAsked
  BY DEF ContentInv, FilesAsAsked, WrittenTo, Kept, Emptied, Opens, OutOps
<1> QED
  BY <1>1, <1>2, <1>3, Invariance, PTL DEF Spec
=============================================================================
