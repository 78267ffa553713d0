--------------------------- MODULE SessionProofs ---------------------------
(***************************************************************************)
(* What the signals of the terminal do, what is listed, looked up and run, *)
(* and what exit ends with, for every set of lines, every PATH and however *)
(* often files change and keys are pressed.                                *)
(***************************************************************************)
EXTENDS Session, FiniteSetTheorems, TLAPS

\* No signal ends process p; the child is ended by every signal of S.
Deaf(p)    == \A s \in Signals : disp[p][s] # "default"
Exposed(S) == \A s \in S : disp["child"][s] = "default"

\* The shell is deaf from its first prompt on; its child is exposed to a signal
\* from the call of handle_child_signals on that resets it.
DispOK    == disp \in [Procs -> [Signals -> Dispositions]]
ShellDeaf == pc \notin {"init", "ended"} /\ ~(pc = "top" /\ line = NoLine) => Deaf("shell")
ChildOpen == /\ child \in {"reset", "find", "exec", "running"} => Exposed({SIGINT})
             /\ child \in {"find", "exec", "running"} => Exposed({SIGQUIT})
SigInv == DispOK /\ ShellDeaf /\ ChildOpen /\ (pc = "init" => line = NoLine)

\* The two signals are different, and so are the shell and its child.
LEMMA Two == SIGINT # SIGQUIT /\ Signals = {SIGINT, SIGQUIT} /\ Procs = {"shell", "child"}
BY DEF SIGINT, SIGQUIT, Signals, Procs

\* The invariant holds when the shell starts.
LEMMA InitSig == Init => SigInv
BY Two DEF Init, SigInv, DispOK, ShellDeaf, ChildOpen, Dispositions

\* A step of the shell, or of the world, that leaves the dispositions and the
\* child alone keeps it, unless the shell goes to a prompt without a line.
LEMMA Moves ==
    ASSUME SigInv, UNCHANGED <<disp, child>>,
           pc' = "init" => pc = "init" /\ line' = line,
           pc' \notin {"init", "ended"} /\ ~(pc' = "top" /\ line' = NoLine) =>
               pc \notin {"init", "ended"} /\ ~(pc = "top" /\ line = NoLine)
    PROVE  SigInv'
BY DEF SigInv, DispOK, ShellDeaf, ChildOpen, Deaf, Exposed

\* The same of the steps of the child that reset no signal.
LEMMA ChildMoves ==
    ASSUME SigInv, UNCHANGED <<disp, pc, line>>,
           child' \in {"find", "exec", "running"} => child \in {"find", "exec", "running"},
           child' # "reset"
    PROVE  SigInv'
BY DEF SigInv, DispOK, ShellDeaf, ChildOpen, Deaf, Exposed

\* Every step of the shell keeps the invariant.
LEMMA ShellKeeps == ASSUME SigInv, ShellStep PROVE SigInv'
<1>1. CASE InitShell
  BY <1>1, Moves DEF InitShell, End, childVars, SigInv
<1>2. CASE NextPrompt
  <2>1. DispOK' /\ Deaf("shell")' /\ pc' = "read"
    BY <1>2, Two DEF NextPrompt, SigInv, DispOK, Deaf, Dispositions, Interactive
  <2>2. child' = "none"
    BY <1>2 DEF NextPrompt
  <2> QED
    BY <2>1, <2>2 DEF SigInv, ShellDeaf, ChildOpen
<1>3. CASE SearchList
  BY <1>3, Moves DEF SearchList, shellVars, childVars
<1>4. CASE OverrunCrashes
  BY <1>4, Moves DEF OverrunCrashes, End, childVars
<1>5. CASE ParserCmdNoFound
  <2>1. pc = "look" /\ pc' \in {"look", "top", "fork"} /\ UNCHANGED <<disp, child, line>>
    BY <1>5 DEF ParserCmdNoFound, Parsed, CommandNotFound, childVars
  <2> QED
    BY <2>1, Moves
<1>6. CASE Fork
  <2>1. CASE Back(1) /\ UNCHANGED <<child, disp>>
    <3>1. pc = "fork" /\ pc' = "top"
      BY <1>6, <2>1 DEF Fork, Back
    <3> QED
      BY <2>1, <3>1, Moves
  <2>2. CASE /\ child' = "born" /\ pc' = "forked" /\ UNCHANGED status
             /\ disp' = [disp EXCEPT !["child"] = disp["shell"]]
    <3>1. pc = "fork" /\ DispOK' /\ disp'["shell"] = disp["shell"]
      BY <1>6, <2>2, Two DEF Fork, SigInv, DispOK
    <3> QED
      BY <2>2, <3>1 DEF SigInv, ShellDeaf, ChildOpen, Deaf
  <2> QED
    BY <1>6, <2>1, <2>2 DEF Fork
<1>7. CASE HandleParentSignals
  <2>1. DispOK' /\ Deaf("shell")' /\ pc' = "wait"
    BY <1>7, Two DEF HandleParentSignals, SigInv, DispOK, Deaf, Dispositions, Ignored
  <2>2. child' = child /\ disp'["child"] = disp["child"]
    BY <1>7, Two DEF HandleParentSignals, childVars, SigInv, DispOK
  <2> QED
    BY <2>1, <2>2 DEF SigInv, ShellDeaf, ChildOpen, Exposed
<1>8. CASE ParentWaitExternal
  <2>1. pc = "wait" /\ pc' = "top" /\ child' = "none" /\ DispOK'
    BY <1>8, Two DEF ParentWaitExternal, SigInv, DispOK, Dispositions
  <2>2. disp'["shell"] = disp["shell"]
    BY <1>8, Two DEF ParentWaitExternal, SigInv, DispOK
  <2> QED
    BY <2>1, <2>2 DEF SigInv, ShellDeaf, ChildOpen, Deaf
<1> QED
  BY <1>1, <1>2, <1>3, <1>4, <1>5, <1>6, <1>7, <1>8 DEF ShellStep

\* A line that is typed keeps it: from then on there is a line.
LEMMA ReadKeeps == ASSUME SigInv, ReadStep PROVE SigInv'
<1>1. pc = "read" /\ UNCHANGED <<disp, child>>
  BY DEF ReadStep, HandleReceivedInput, TypeCommand, childVars
<1>2. pc' \in {"top", "ended", "look"}
  BY DEF ReadStep, HandleReceivedInput, TypeCommand, HandleEof, FtExit, HandleExitNoArg,
         HandleExitOneArg, Leave, Back, End
<1> QED
  BY <1>1, <1>2, Moves

\* Every step of the child keeps it: each reset exposes it to one signal more, and
\* execve leaves nothing caught.
LEMMA ChildKeeps == ASSUME SigInv, ChildStep PROVE SigInv'
<1>1. UNCHANGED <<pc, line>>
  BY DEF ChildStep, ResetInterrupt, ResetQuit, DirectPath, CheckPathAccess, NoPath, Execve,
         CommandExits, ChildOnly
<1>2. CASE ResetInterrupt
  <2>1. child' = "reset" /\ DispOK' /\ disp'["shell"] = disp["shell"]
    BY <1>2, Two DEF ResetInterrupt, DefaultSignal, SigInv, DispOK, Dispositions
  <2>2. disp'["child"][SIGINT] = "default"
    BY <1>2, Two DEF ResetInterrupt, DefaultSignal, SigInv, DispOK
  <2> QED
    BY <1>1, <2>1, <2>2 DEF SigInv, ShellDeaf, ChildOpen, Deaf, Exposed
<1>3. CASE ResetQuit
  <2>1. child = "reset" /\ child' = "find" /\ DispOK' /\ disp'["shell"] = disp["shell"]
    BY <1>3, Two DEF ResetQuit, DefaultSignal, SigInv, DispOK, Dispositions
  <2>2. /\ disp'["child"][SIGQUIT] = "default"
        /\ disp'["child"][SIGINT] = disp["child"][SIGINT]
    BY <1>3, Two DEF ResetQuit, DefaultSignal, SigInv, DispOK
  <2> QED
    BY <1>1, <2>1, <2>2 DEF SigInv, ShellDeaf, ChildOpen, Deaf, Exposed
<1>4. CASE DirectPath \/ CheckPathAccess \/ NoPath \/ CommandExits
  BY <1>1, <1>4, ChildMoves DEF DirectPath, CheckPathAccess, NoPath, CommandExits, Dies
<1>5. CASE Execve
  <2>1. CASE UNCHANGED disp /\ child' = "zombie"
    BY <1>1, <2>1, ChildMoves
  <2>2. CASE /\ child' = "running"
             /\ disp' = [disp EXCEPT !["child"] = [s \in Signals |->
                    IF @[s] = "handler" THEN "default" ELSE @[s]]]
    <3>1. child = "exec"
      BY <1>5 DEF Execve
    <3>2. DispOK' /\ disp'["shell"] = disp["shell"]
      BY <2>2, Two DEF SigInv, DispOK, Dispositions
    <3>3. \A s \in Signals : disp["child"][s] = "default" => disp'["child"][s] = "default"
      BY <2>2, Two DEF SigInv, DispOK
    <3> QED
      BY <1>1, <2>2, <3>1, <3>2, <3>3, Two DEF SigInv, ShellDeaf, ChildOpen, Deaf, Exposed
  <2> QED
    BY <1>5, <2>1, <2>2 DEF Execve, Dies
<1> QED
  BY <1>2, <1>3, <1>4, <1>5 DEF ChildStep

\* A signal changes no disposition: it ends who is exposed to it.
LEMMA PressKeeps == ASSUME SigInv, NEW s \in Signals, Press(s) PROVE SigInv'
<1>1. UNCHANGED <<disp, line>> /\ (child' = child \/ child' = "zombie")
  BY DEF Press, Dies
<1>2. pc' = pc \/ pc' = "ended"
  BY DEF Press, End
<1> QED
  BY <1>1, <1>2 DEF SigInv, DispOK, ShellDeaf, ChildOpen, Deaf, Exposed

\* Every step keeps the invariant.
LEMMA NextSig == SigInv /\ [Next]_vars => SigInv'
<1> SUFFICES ASSUME SigInv, [Next]_vars PROVE SigInv'
  OBVIOUS
<1>1. CASE ShellStep
  BY <1>1, ShellKeeps
<1>2. CASE ReadStep
  BY <1>2, ReadKeeps
<1>3. CASE ChildStep
  BY <1>3, ChildKeeps
<1>4. CASE ChangeFile
  BY <1>4, Moves DEF ChangeFile, shellVars, childVars
<1>5. CASE \E s \in Signals : Press(s)
  BY <1>5, PressKeeps
<1>6. CASE UNCHANGED vars
  BY <1>6, Moves DEF vars, shellVars, childVars
<1> QED
  BY <1>1, <1>2, <1>3, <1>4, <1>5, <1>6 DEF Next

\* What SignalsReachCommands says of one step.
Reaches == \A s \in Signals : Press(s) =>
              /\ pc' = "ended" => pc \in {"init", "top"} /\ line = NoLine
              /\ child = "running" => child' = "zombie"

\* A signal that ends the shell found it exposed; a command that runs is exposed.
LEMMA StepReaches == SigInv => Reaches
<1> SUFFICES ASSUME SigInv, NEW s \in Signals, Press(s)
             PROVE  /\ pc' = "ended" => pc \in {"init", "top"} /\ line = NoLine
                    /\ child = "running" => child' = "zombie"
  BY DEF Reaches
<1>1. ASSUME pc' = "ended" PROVE pc \in {"init", "top"} /\ line = NoLine
  <2>1. pc # "ended" /\ Killed("shell", s)
    BY <1>1 DEF Press
  <2>2. ~Deaf("shell")
    BY <2>1 DEF Killed, Deaf
  <2> QED
    BY <2>1, <2>2 DEF SigInv, ShellDeaf
<1>2. ASSUME child = "running" PROVE child' = "zombie"
  <2>1. disp["child"][s] = "default"
    BY <1>2, Two DEF SigInv, ChildOpen, Exposed
  <2>2. Killed("child", s)
    BY <1>2, <2>1 DEF Killed, Living
  <2> QED
    BY <2>2 DEF Press, Dies
<1> QED
  BY <1>1, <1>2

\* The invariant holds throughout.
LEMMA SigInvariant == Spec => []SigInv
<1> QED
  BY InitSig, NextSig, PTL DEF Spec

\* No signal from the terminal ends the shell after its first prompt, and each
\* ends a running command, wherever between fork, signal, execve and waitpid it
\* comes.
THEOREM SignalsReachCommandsAlways == Spec => SignalsReachCommands
<1>1. SigInv => [Reaches]_vars
  BY StepReaches
<1>2. SignalsReachCommands <=> [][Reaches]_vars
  BY PTL DEF SignalsReachCommands, Reaches
<1> QED
  BY <1>1, <1>2, SigInvariant, PTL

-----------------------------------------------------------------------------
(***************************************************************************)
(* The list of commands: its two passes over the directories.              *)
(***************************************************************************)
\* The entries of the directories numbered in J, each with its directory's number.
Upcoming(J) == {e \in J \X Names : file[Path[e[1]]][e[2]] # "absent"}

\* But for the entries that the first pass missed, what was counted is enough for the
\* entries that were passed, and what was allocated for those written and those to
\* come, and for the end of the list.
Enough ==
    \/ pass = "none"
    \/ pass = "count"  /\ filled = 0 /\ Cardinality(Upcoming(1..(dir - 1))) <= slots + missed
    \/ pass = "fill"   /\ filled + Cardinality(Upcoming(dir..Len(Path))) < slots + missed
    \/ pass = "search" /\ filled <= slots + missed
ListInv == /\ LookTypeOK
           /\ pass \in {"none", "count"} => filled = 0
           /\ Enough

\* PATH has finitely many directories.
LEMMA Directories == Len(Path) \in Nat /\ DOMAIN Path = 1..Len(Path)
BY PathAssumption

\* Every directory has finitely many entries.
LEMMA EntriesFinite ==
    ASSUME NEW d
    PROVE  IsFiniteSet(Entries(d)) /\ Cardinality(Entries(d)) \in Nat
<1>1. Entries(d) \in SUBSET Names /\ IsFiniteSet(Names)
  BY FilesAssumption DEF Entries
<1> QED
  BY <1>1, FS_Subset, FS_CardinalityType

\* And so have finitely many directories.
LEMMA UpcomingFinite ==
    ASSUME NEW J, IsFiniteSet(J)
    PROVE  IsFiniteSet(Upcoming(J)) /\ Cardinality(Upcoming(J)) \in Nat
<1>1. IsFiniteSet(J \X Names)
  BY FilesAssumption, FS_Product
<1>2. Upcoming(J) \in SUBSET (J \X Names)
  BY DEF Upcoming
<1> QED
  BY <1>1, <1>2, FS_Subset, FS_CardinalityType

\* One directory more has its own entries more.
LEMMA OneMore ==
    ASSUME NEW J, IsFiniteSet(J), NEW j, j \notin J
    PROVE  Cardinality(Upcoming(J \cup {j}))
             = Cardinality(Upcoming(J)) + Cardinality(Entries(Path[j]))
<1> DEFINE E == Entries(Path[j])
           P == {j} \X E
           U == Upcoming(J)
<1>1. IsFiniteSet(E) /\ Cardinality(E) \in Nat /\ IsFiniteSet(U) /\ Cardinality(U) \in Nat
  BY EntriesFinite, UpcomingFinite
<1>2. IsFiniteSet({j}) /\ Cardinality({j}) = 1
  BY FS_Singleton
<1>3. IsFiniteSet(P) /\ Cardinality(P) = Cardinality({j}) * Cardinality(E)
  BY <1>1, <1>2, FS_Product
<1>4. Cardinality(P) = Cardinality(E)
  <2> HIDE DEF E, P
  <2> QED
    BY <1>1, <1>2, <1>3
<1>5. Upcoming(J \cup {j}) = U \cup P
  BY DEF Upcoming, Entries
<1>6. U \cap P = {}
  BY DEF Upcoming
<1>7. Cardinality(U \cup P) = Cardinality(U) + Cardinality(P) - Cardinality(U \cap P)
  <2> HIDE DEF U, P
  <2> QED
    BY <1>1, <1>3, FS_Union
<1> HIDE DEF E, U, P
<1>8. Cardinality(U \cap P) = 0
  BY <1>6, FS_EmptySet
<1>9. Cardinality(U \cup P) = Cardinality(U) + Cardinality(E)
  BY <1>1, <1>4, <1>7, <1>8
<1> QED
  BY <1>5, <1>9 DEF U, E

\* No directory has no entries.
LEMMA NoMore == Cardinality(Upcoming({})) = 0
<1>1. Upcoming({}) = {}
  BY DEF Upcoming
<1> QED
  BY <1>1, FS_EmptySet

\* The list is idle at first.
LEMMA InitList == Init => ListInv
<1> SUFFICES ASSUME Init PROVE ListInv
  OBVIOUS
<1>1. LookTypeOK
  <2>1. file \in [Places -> [Names -> Kinds]] /\ changes \in 0..MaxChanges
    BY FilesAssumption DEF Init
  <2>2. dir \in 1..(Len(Path) + 1) /\ slots \in Nat /\ filled \in Nat
    BY Directories DEF Init, Idle
  <2> QED
    BY <2>1, <2>2 DEF Init, Idle, LookTypeOK
<1> QED
  BY <1>1 DEF Init, Idle, ListInv, Enough

\* The lookup's own steps keep the types.
LEMMA LookTypes == ASSUME LookTypeOK, LookStep PROVE LookTypeOK'
<1>1. CASE CountDirEntries
  BY <1>1, EntriesFinite, Directories DEF LookTypeOK, CountDirEntries
<1>2. CASE CommandListMalloc
  BY <1>2, Directories DEF LookTypeOK, CommandListMalloc, Slots
<1>3. CASE PopulateListFromDir
  <2>1. Entries(Path[dir]) \subseteq Names
    BY DEF Entries
  <2> QED
    BY <1>3, <2>1, EntriesFinite, Directories DEF LookTypeOK, PopulateListFromDir
<1>4. CASE EndList
  BY <1>4 DEF LookTypeOK, EndList
<1> QED
  BY <1>1, <1>2, <1>3, <1>4 DEF LookStep

\* They keep the count: what a directory adds in the first pass is what the second
\* one finds in it.
LEMMA LookKeeps == ASSUME ListInv, LookStep PROVE ListInv'
<1>1. LookTypeOK' /\ LookTypeOK
  BY LookTypes DEF ListInv
<1>2. dir \in Nat \ {0} /\ slots \in Nat /\ filled \in Nat /\ missed \in Nat /\ Len(Path) \in Nat
  BY <1>1, Directories DEF LookTypeOK
<1>3. UNCHANGED <<file, missed>>
  BY DEF LookStep, CountDirEntries, CommandListMalloc, PopulateListFromDir, EndList
<1>4. \A J : Upcoming(J)' = Upcoming(J)
  BY <1>3 DEF Upcoming
<1>5. Enough /\ (pass \in {"none", "count"} => filled = 0)
  BY DEF ListInv
<1>6. CASE CountDirEntries
  <2> DEFINE J == 1..(dir - 1)
  <2>0. IsFiniteSet(J)
    BY <1>2, FS_Interval
  <2>1. IsFiniteSet(J) /\ dir \notin J /\ J \cup {dir} = 1..dir
    BY <1>2, <2>0
  <2>2. /\ Cardinality(Upcoming(1..dir)) = Cardinality(Upcoming(J)) + Cardinality(Entries(Path[dir]))
        /\ Cardinality(Upcoming(J)) \in Nat /\ Cardinality(Entries(Path[dir])) \in Nat
    BY <2>1, OneMore, UpcomingFinite, EntriesFinite
  <2>3. dir' - 1 = dir /\ pass' = "count" /\ filled' = 0
        /\ Cardinality(Upcoming(J)) <= slots + missed
        /\ slots' = slots + Cardinality(Entries(Path[dir]))
    BY <1>2, <1>5, <1>6 DEF CountDirEntries, Enough
  <2>4. Cardinality(Upcoming(1..dir)) <= slots' + missed'
    BY <1>2, <1>3, <2>2, <2>3
  <2> QED
    BY <1>1, <1>3, <1>4, <2>3, <2>4 DEF ListInv, Enough
<1>7. CASE CommandListMalloc
  <2>1. dir - 1 = Len(Path) /\ pass' = "fill" /\ dir' = 1 /\ filled' = 0 /\ slots' = slots + 1
        /\ Cardinality(Upcoming(1..(dir - 1))) <= slots + missed
    BY <1>1, <1>2, <1>5, <1>7 DEF CommandListMalloc, Enough, Slots, LookTypeOK
  <2>2. Cardinality(Upcoming(1..Len(Path))) \in Nat
    BY <1>2, FS_Interval, UpcomingFinite
  <2>3. filled' + Cardinality(Upcoming(dir'..Len(Path))) < slots' + missed'
    BY <1>2, <1>3, <2>1, <2>2
  <2> QED
    BY <1>1, <1>3, <1>4, <2>1, <2>3 DEF ListInv, Enough
<1>8. CASE PopulateListFromDir
  <2> DEFINE J == (dir + 1)..Len(Path)
  <2>0. dir <= Len(Path)
    BY <1>8 DEF PopulateListFromDir
  <2>a. IsFiniteSet(J)
    BY <1>2, FS_Interval
  <2>1. IsFiniteSet(J) /\ dir \notin J /\ J \cup {dir} = dir..Len(Path)
    BY <1>2, <2>0, <2>a
  <2>2. /\ Cardinality(Upcoming(dir..Len(Path)))
              = Cardinality(Upcoming(J)) + Cardinality(Entries(Path[dir]))
        /\ Cardinality(Upcoming(J)) \in Nat /\ Cardinality(Entries(Path[dir])) \in Nat
    BY <2>1, OneMore, UpcomingFinite, EntriesFinite
  <2>3. /\ dir' = dir + 1 /\ pass' = "fill" /\ slots' = slots
        /\ filled + Cardinality(Upcoming(dir..Len(Path))) < slots + missed
        /\ filled' = filled + Cardinality(Entries(Path[dir]))
    BY <1>5, <1>8 DEF PopulateListFromDir, Enough
  <2>4. filled' + Cardinality(Upcoming(J)) < slots' + missed'
    BY <1>2, <1>3, <2>2, <2>3
  <2> QED
    BY <1>1, <1>3, <1>4, <2>3, <2>4 DEF ListInv, Enough
<1>9. CASE EndList
  <2>1. dir..Len(Path) = {}
    BY <1>2, <1>9 DEF EndList
  <2>2. filled + 0 < slots + missed
    BY <1>5, <1>9, <2>1, NoMore DEF EndList, Enough
  <2>3. pass' = "search" /\ filled' <= slots' + missed'
    BY <1>2, <1>3, <1>9, <2>2 DEF EndList
  <2> QED
    BY <1>1, <2>3 DEF ListInv, Enough
<1> QED
  BY <1>6, <1>7, <1>8, <1>9 DEF LookStep

\* A change of one file adds at most one entry, and that to its own directory and only
\* if the file was not there.
LEMMA OneEntry ==
    ASSUME LookTypeOK, NEW d \in Places, NEW n \in Names, NEW k \in Kinds, Change(d, n, k),
           NEW J, J \subseteq 1..Len(Path), IsFiniteSet(J)
    PROVE  /\ Cardinality(Upcoming(J)') \in Nat /\ Cardinality(Upcoming(J)) \in Nat
           /\ Cardinality(Upcoming(J)') <= Cardinality(Upcoming(J)) + 1
           /\ file[d][n] # "absent" \/ (\A j \in J : Path[j] # d)
                 => Cardinality(Upcoming(J)') <= Cardinality(Upcoming(J))
<1>1. \A j \in J : Path[j] \in Places
  BY Directories DEF Places, Dirs
<1>2. \A e \in Places, m \in Names :
         file'[e][m] # "absent" => file[e][m] # "absent" \/ (e = d /\ m = n)
  BY DEF Change, LookTypeOK
<1>3. IsFiniteSet(Upcoming(J)) /\ Cardinality(Upcoming(J)) \in Nat
  BY UpcomingFinite
<1>4. ASSUME file[d][n] # "absent" \/ (\A j \in J : Path[j] # d)
      PROVE  Cardinality(Upcoming(J)') <= Cardinality(Upcoming(J)) /\ Cardinality(Upcoming(J)') \in Nat
  <2>1. Upcoming(J)' \in SUBSET Upcoming(J)
    BY <1>1, <1>2, <1>4 DEF Upcoming
  <2> QED
    BY <1>3, <2>1, FS_Subset, FS_CardinalityType
<1>5. ASSUME NEW j \in J, Path[j] = d
      PROVE  Cardinality(Upcoming(J)') <= Cardinality(Upcoming(J)) + 1 /\ Cardinality(Upcoming(J)') \in Nat
  <2>1. \A i \in J : Path[i] = d => i = j
    BY <1>5, Directories, PathAssumption
  <2>a. \A i \in J, m \in Names :
           file'[Path[i]][m] # "absent" => (file[Path[i]][m] # "absent" \/ (i = j /\ m = n))
    BY <1>1, <1>2, <2>1
  <2>2. Upcoming(J)' \in SUBSET (Upcoming(J) \cup {<<j, n>>})
    <3>1. SUFFICES ASSUME NEW e \in Upcoming(J)', e \notin Upcoming(J)
                   PROVE  e = <<j, n>>
      OBVIOUS
    <3>2. /\ e \in J \X Names
          /\ file'[Path[e[1]]][e[2]] # "absent" /\ ~(file[Path[e[1]]][e[2]] # "absent")
      BY <3>1, Zenon DEF Upcoming
    <3>3. e[1] \in J /\ e[2] \in Names /\ e = <<e[1], e[2]>>
      BY <3>2
    <3> QED
      BY <2>a, <3>2, <3>3
  <2>b. /\ IsFiniteSet(Upcoming(J) \cup {<<j, n>>})
        /\ \/ Cardinality(Upcoming(J) \cup {<<j, n>>}) = Cardinality(Upcoming(J))
           \/ Cardinality(Upcoming(J) \cup {<<j, n>>}) = Cardinality(Upcoming(J)) + 1
    BY <1>3, FS_AddElement, Zenon
  <2>3. /\ IsFiniteSet(Upcoming(J) \cup {<<j, n>>})
        /\ Cardinality(Upcoming(J) \cup {<<j, n>>}) <= Cardinality(Upcoming(J)) + 1
    BY <1>3, <2>b
  <2>4. /\ Cardinality(Upcoming(J)') <= Cardinality(Upcoming(J) \cup {<<j, n>>})
        /\ Cardinality(Upcoming(J)') \in Nat /\ Cardinality(Upcoming(J) \cup {<<j, n>>}) \in Nat
    BY <2>2, <2>3, FS_Subset, FS_CardinalityType
  <2> QED
    BY <1>3, <2>3, <2>4
<1> QED
  BY <1>3, <1>4, <1>5

\* A file that is created takes room that was not counted only if the history notes it.
LEMMA ChangeKeeps ==
    ASSUME ListInv, NEW d \in Places, NEW n \in Names, NEW k \in Kinds, Change(d, n, k)
    PROVE  ListInv'
<1>1. LookTypeOK' /\ LookTypeOK
  BY FilesAssumption DEF ListInv, LookTypeOK, Change
<1>2. /\ UNCHANGED <<pass, dir, slots, filled>> /\ (pass \in {"none", "count"} => filled = 0)
      /\ missed' = IF file[d][n] = "absent" /\ Between(d) THEN missed + 1 ELSE missed
      /\ Enough
  BY DEF Change, ListInv
<1>3. dir \in Nat \ {0} /\ dir <= Len(Path) + 1 /\ slots \in Nat /\ filled \in Nat
      /\ missed \in Nat /\ Len(Path) \in Nat /\ DOMAIN Path = 1..Len(Path)
  BY <1>1, Directories DEF LookTypeOK
<1>4. ASSUME NEW J, J \subseteq 1..Len(Path), IsFiniteSet(J), \A j \in J : Path[j] = d => Between(d)
      PROVE  /\ Cardinality(Upcoming(J)') - missed' <= Cardinality(Upcoming(J)) - missed
             /\ Cardinality(Upcoming(J)') \in Nat /\ Cardinality(Upcoming(J)) \in Nat
  <2>1. /\ Cardinality(Upcoming(J)') \in Nat /\ Cardinality(Upcoming(J)) \in Nat
        /\ Cardinality(Upcoming(J)') <= Cardinality(Upcoming(J)) + 1
        /\ file[d][n] # "absent" \/ (\A j \in J : Path[j] # d)
              => Cardinality(Upcoming(J)') <= Cardinality(Upcoming(J))
    BY <1>1, <1>4, OneEntry
  <2>2. CASE file[d][n] = "absent" /\ Between(d)
    BY <1>2, <1>3, <2>1, <2>2
  <2>3. CASE ~(file[d][n] = "absent" /\ Between(d))
    BY <1>2, <1>3, <1>4, <2>1, <2>3
  <2> QED
    BY <2>2, <2>3
<1>5. CASE pass = "count"
  <2>0. PICK J : J = 1..(dir - 1)
    OBVIOUS
  <2>1. IsFiniteSet(J)
    BY <1>3, <2>0, FS_Interval
  <2>2. J \subseteq 1..Len(Path) /\ \A j \in J : Path[j] = d => Between(d)
    BY <1>3, <1>5, <2>0 DEF Between
  <2>3. filled = 0 /\ Cardinality(Upcoming(J)) <= slots + missed
    BY <1>2, <1>5, <2>0 DEF Enough
  <2>4. missed' \in Nat /\ Cardinality(Upcoming(J)') <= slots + missed'
    <3>1. /\ Cardinality(Upcoming(J)') - missed' <= Cardinality(Upcoming(J)) - missed
          /\ Cardinality(Upcoming(J)') \in Nat /\ Cardinality(Upcoming(J)) \in Nat
      BY <1>4, <2>1, <2>2
    <3>2. missed' \in Nat
      BY <1>2, <1>3
    <3> QED
      BY <1>3, <2>3, <3>1, <3>2
  <2>5. Cardinality(Upcoming(1..(dir - 1)))' <= slots' + missed'
    BY <1>2, <2>0, <2>4 DEF Upcoming
  <2> QED
    BY <1>1, <1>2, <1>5, <2>3, <2>5 DEF ListInv, Enough
<1>6. CASE pass = "fill"
  <2>0. PICK J : J = dir..Len(Path)
    OBVIOUS
  <2>1. IsFiniteSet(J)
    BY <1>3, <2>0, FS_Interval
  <2>2. J \subseteq 1..Len(Path) /\ \A j \in J : Path[j] = d => Between(d)
    BY <1>3, <1>6, <2>0 DEF Between
  <2>3. filled + Cardinality(Upcoming(J)) < slots + missed
    BY <1>2, <1>6, <2>0 DEF Enough
  <2>4. missed' \in Nat /\ filled + Cardinality(Upcoming(J)') < slots + missed'
    <3>1. /\ Cardinality(Upcoming(J)') - missed' <= Cardinality(Upcoming(J)) - missed
          /\ Cardinality(Upcoming(J)') \in Nat /\ Cardinality(Upcoming(J)) \in Nat
      BY <1>4, <2>1, <2>2
    <3>2. missed' \in Nat
      BY <1>2, <1>3
    <3> QED
      BY <1>3, <2>3, <3>1, <3>2
  <2>5. (filled + Cardinality(Upcoming(dir..Len(Path))))' < slots' + missed'
    BY <1>2, <2>0, <2>4 DEF Upcoming
  <2> QED
    BY <1>1, <1>2, <1>6, <2>5 DEF ListInv, Enough
<1>7. CASE pass = "search"
  <2>1. missed <= missed' /\ missed' \in Nat /\ filled <= slots + missed
    BY <1>2, <1>3, <1>7 DEF Enough
  <2>2. filled' <= slots' + missed'
    BY <1>2, <1>3, <2>1
  <2> QED
    BY <1>1, <1>2, <1>7, <2>2 DEF ListInv, Enough
<1>8. CASE pass = "none"
  BY <1>1, <1>2, <1>8 DEF ListInv, Enough
<1> QED
  BY <1>1, <1>5, <1>6, <1>7, <1>8 DEF LookTypeOK

\* A lookup that starts, and one that is over, has nothing to hold.
LEMMA ScanForget == ASSUME ListInv, Scan \/ Forget PROVE ListInv'
<1>1. LookTypeOK'
  <2>1. (dir \in 1..(Len(Path) + 1))' /\ (slots \in Nat /\ filled \in Nat /\ missed \in Nat)'
    BY Directories DEF Scan, Forget
  <2> QED
    BY <2>1 DEF Scan, Forget, ListInv, LookTypeOK
<1>2. CASE Forget
  BY <1>1, <1>2 DEF Forget, ListInv, Enough
<1>3. CASE Scan
  <2>1. 1..(dir' - 1) = {} /\ slots' = 0 /\ missed' = 0
    BY <1>3 DEF Scan
  <2>2. Upcoming(1..(dir - 1))' = {}
    BY <2>1 DEF Upcoming
  <2>3. Cardinality(Upcoming(1..(dir - 1)))' <= slots' + missed'
    BY <2>1, <2>2, FS_EmptySet
  <2> QED
    BY <1>1, <1>3, <2>3 DEF Scan, ListInv, Enough
<1> QED
  BY <1>2, <1>3

\* All else leaves the lookup alone.
LEMMA LookAlone == ASSUME ListInv, UNCHANGED lookVars PROVE ListInv'
BY DEF ListInv, LookTypeOK, Enough, Upcoming, lookVars

\* Every step keeps the list's invariant.
LEMMA NextList == ListInv /\ [Next]_vars => ListInv'
<1> SUFFICES ASSUME ListInv, [Next]_vars PROVE ListInv'
  OBVIOUS
<1>1. CASE ShellStep
  <2>1. CASE SearchList
    BY <2>1, LookKeeps DEF SearchList
  <2>2. CASE ParserCmdNoFound
    BY <2>2, ScanForget, LookAlone DEF ParserCmdNoFound
  <2> QED
    BY <1>1, <2>1, <2>2, LookAlone DEF ShellStep, InitShell, NextPrompt, OverrunCrashes, Fork,
       HandleParentSignals, ParentWaitExternal
<1>2. CASE ReadStep
  BY <1>2, ScanForget, LookAlone DEF ReadStep, HandleReceivedInput, TypeCommand
<1>3. CASE ChildStep
  BY <1>3, LookAlone DEF ChildStep, ResetInterrupt, ResetQuit, DirectPath, CheckPathAccess,
     NoPath, Execve, CommandExits
<1>4. CASE ChangeFile
  BY <1>4, ChangeKeeps DEF ChangeFile
<1>5. CASE \E s \in Signals : Press(s)
  BY <1>5, LookAlone DEF Press
<1>6. CASE UNCHANGED vars
  BY <1>6, LookAlone DEF vars
<1> QED
  BY <1>1, <1>2, <1>3, <1>4, <1>5, <1>6 DEF Next

\* The invariant holds throughout.
LEMMA ListInvariant == Spec => []ListInv
<1> QED
  BY InitList, NextList, PTL DEF Spec

\* Whatever other processes create and remove, the second pass writes behind the list
\* at most as many entries as files were created in a directory between its passes:
\* what is not created so was counted, and the end of the list has a slot.
THEOREM ListFitsAlways == Spec => []ListFits
<1>1. ListInv => ListFits
  <2> SUFFICES ASSUME ListInv, pass \in {"fill", "search"} PROVE filled <= slots + missed
    BY DEF ListFits
  <2>1. dir \in Nat /\ slots \in Nat /\ filled \in Nat /\ missed \in Nat /\ Len(Path) \in Nat /\ Enough
    BY Directories DEF ListInv, LookTypeOK
  <2>2. Cardinality(Upcoming(dir..Len(Path))) \in Nat
    BY <2>1, FS_Interval, UpcomingFinite
  <2> QED
    BY <2>1, <2>2 DEF Enough
<1> QED
  BY <1>1, ListInvariant, PTL

-----------------------------------------------------------------------------
(***************************************************************************)
(* What runs: the first program of the command's name in PATH.             *)
(***************************************************************************)
IsCommand == line.kind = "command"
Starting  == {"born", "reset", "find", "exec"}
Fresh     == fate = <<>> /\ ran = Nowhere

\* Where the shell is at a command, and where the command has a child.
Lined ==
    /\ pc \in {"init", "read"} => line = NoLine
    /\ pc = "read" => Fresh /\ child = "none" /\ tried = 0 /\ looked = 0 /\ typed = "word"
    /\ pc \in {"look", "fork", "forked", "wait"} => IsCommand
    /\ child # "none" => IsCommand /\ pc \in {"forked", "wait", "ended"}
    /\ IsCommand => line \in CommandLines

\* The history is right: what was always a program is one, and what is one has
\* been one.
Known == /\ always \subseteq Programs(line) /\ Programs(line) \subseteq ever
         /\ ever \subseteq PlacesOf(line)

\* The lookup finds what was there all the time; what is run as a path was there.
Looking ==
    /\ pc = "look" /\ looked # 0 /\ always # {} => typed = "cmd"
    /\ line.direct /\ typed = "cmd" => Here \in ever
    /\ pc \in {"fork", "forked", "wait"} \/ child # "none" => typed = "cmd"
    /\ ~line.direct /\ pass \in {"fill", "search"} =>
          \A k \in 1..(dir - 1) : Path[k] \in always => line.name \in listed
    /\ ~line.direct /\ pass = "search" => dir = Len(Path) + 1

\* The directories the child has tried were not always right; the one it has found
\* was once.
Finding ==
    /\ pc \in {"look", "fork"} \/ child \in Starting => Fresh
    /\ pc \in {"look", "fork"} \/ child \in {"born", "reset"} => tried = 0
    /\ child \in Starting => tried \in Nat /\ tried <= Len(Path)
    /\ child \in Starting => \A k \in 1..tried : Path[k] \notin always
    /\ child = "exec" =>
          path \in ever /\ (line.direct \/ (tried < Len(Path) /\ path = Path[tried + 1]))

\* What has run was the first, and nothing has run that never was there.
FirstRuns == \A d \in always : (\A e \in ever : InOrder(d, e)) => ran = d
Right     == FirstRuns /\ (ran # Nowhere => ran \in ever)
Running ==
    /\ child = "running" => Right /\ ran # Nowhere
    /\ child = "zombie" => /\ fate # <<>> /\ (fate[1] # "signal" => fate[1] = "exit" /\ Right)
                           /\ fate[1] = "exit" /\ ever = {} => fate = <<"exit", 127>>

RunInv == Lined /\ (IsCommand => Known /\ Looking /\ Finding /\ Running /\ RunsFirstOnPath)

\* At first there is no line.
LEMMA InitRun == Init => RunInv
BY DEF Init, RunInv, Lined, IsCommand, NoLine

\* A prompt forgets the line.
LEMMA PromptRuns == ASSUME RunInv, InitShell \/ NextPrompt PROVE RunInv'
<1>1. CASE InitShell
  BY <1>1 DEF InitShell, End, RunInv, Lined, IsCommand, NoLine, childVars, Fresh
<1>2. CASE NextPrompt
  BY <1>2 DEF NextPrompt, RunInv, Lined, IsCommand, NoLine, Fresh
<1> QED
  BY <1>1, <1>2

\* A line that is no command leaves nothing to say.
LEMMA InputRuns == ASSUME RunInv, HandleReceivedInput PROVE RunInv'
<1>1. pc = "read" /\ line'.kind # "command" /\ child' = child
  BY DEF HandleReceivedInput, childVars
<1>2. pc' \in {"top", "ended"}
  BY DEF HandleReceivedInput, HandleEof, FtExit, HandleExitNoArg, HandleExitOneArg, Leave,
         Back, End
<1> QED
  BY <1>1, <1>2 DEF RunInv, Lined, IsCommand

\* A command that is typed has no child yet, and its history begins.
LEMMA TypeRuns == ASSUME RunInv, TypeCommand PROVE RunInv'
<1>1. PICK l \in Lines : /\ l.kind = "command" /\ line' = l
                         /\ always' = Programs(l) /\ ever' = Programs(l)
                         /\ IF l.direct THEN UNCHANGED lookVars ELSE Scan
  BY DEF TypeCommand
<1>2. l \in CommandLines
  BY <1>1, LinesAssumption DEF NumberLines, OtherLines
<1>3. /\ pc = "read" /\ pc' = "look" /\ Fresh /\ child = "none" /\ tried = 0
      /\ looked = 0 /\ typed = "word"
      /\ UNCHANGED <<childVars, looked, typed>>
  BY DEF TypeCommand, RunInv, Lined
<1>4. Lined'
  BY <1>1, <1>2, <1>3 DEF Lined, IsCommand, childVars
<1>5. file' = file
  BY <1>1 DEF lookVars, Scan
<1>6. Known'
  BY <1>1, <1>5 DEF Known, Programs, PlacesOf, IsProgram
<1>7. Looking'
  <2>1. CASE l.direct
    BY <1>1, <1>3, <2>1 DEF Looking, childVars
  <2>2. CASE ~l.direct
    BY <1>1, <1>3, <2>2 DEF Looking, Scan, childVars
  <2> QED
    BY <2>1, <2>2
<1> QED
  BY <1>3, <1>4, <1>6, <1>7 DEF RunInv, Finding, Running, RunsFirstOnPath, Fresh, childVars,
     Starting

\* The history stays right as long as no file changes.
LEMMA KnownStays == ASSUME Known, UNCHANGED <<file, line, always, ever>> PROVE Known'
BY DEF Known, Programs, PlacesOf, IsProgram

\* The list takes in every directory, and what has a program of the name there.
LEMMA ListRuns == ASSUME LookTypeOK, RunInv, SearchList PROVE RunInv'
<1>1. pc = "look" /\ LookStep /\ UNCHANGED <<shellVars, childVars, histVars>>
  BY DEF SearchList
<1>2. IsCommand /\ line \in CommandLines
  BY <1>1 DEF RunInv, Lined
<1>3. file' = file
  BY <1>1 DEF LookStep, CountDirEntries, CommandListMalloc, PopulateListFromDir, EndList
<1>4. Known'
  BY <1>1, <1>2, <1>3, KnownStays DEF RunInv, shellVars, histVars
<1>5. Looking'
  <2>0. Looking /\ Known /\ line.name \in Names
    BY <1>2 DEF RunInv, CommandLines
  <2>1. CASE CountDirEntries \/ CommandListMalloc
    BY <1>1, <2>0, <2>1 DEF Looking, shellVars, histVars, childVars, CountDirEntries, CommandListMalloc
  <2>2. CASE EndList
    <3>1. dir = Len(Path) + 1 /\ dir' = dir /\ pass = "fill" /\ pass' = "search" /\ listed' = listed
      BY <2>2, Directories DEF EndList, LookTypeOK
    <3> QED
      BY <1>1, <2>0, <3>1 DEF Looking, shellVars, histVars, childVars
  <2>3. CASE PopulateListFromDir
    <3>1. /\ dir' = dir + 1 /\ dir \in Nat \ {0} /\ pass = "fill" /\ pass' = "fill"
          /\ listed' = listed \cup Entries(Path[dir])
      BY <2>3, Directories DEF PopulateListFromDir, LookTypeOK
    <3>2. ASSUME Path[dir] \in always PROVE line.name \in Entries(Path[dir])
      BY <2>0, <3>2 DEF Known, Programs, IsProgram, Entries
    <3>3. ASSUME ~line.direct, NEW k \in 1..dir, Path[k] \in always PROVE line.name \in listed'
      <4>1. CASE k = dir
        BY <3>1, <3>2, <3>3, <4>1
      <4>2. CASE k # dir
        <5>1. k \in 1..(dir - 1)
          BY <3>1, <4>2
        <5> QED
          BY <2>0, <3>1, <3>3, <5>1 DEF Looking
      <4> QED
        BY <4>1, <4>2
    <3>4. dir' - 1 = dir
      BY <3>1
    <3> QED
      BY <1>1, <2>0, <3>1, <3>3, <3>4 DEF Looking, shellVars, histVars, childVars
  <2> QED
    BY <1>1, <2>1, <2>2, <2>3 DEF LookStep
<1>6. Finding' /\ Running' /\ Lined' /\ RunsFirstOnPath'
  BY <1>1, <1>2 DEF RunInv, Lined, IsCommand, Finding, Running, Right, FirstRuns, Fresh,
     RunsFirstOnPath, shellVars, childVars, histVars
<1> QED
  BY <1>4, <1>5, <1>6 DEF RunInv

\* What is there all the time is found by every lookup: the word becomes a command.
\* What is not found is not run.
LEMMA FoundRuns == ASSUME LookTypeOK, RunInv, ParserCmdNoFound PROVE RunInv'
<1>1. PICK yes \in BOOLEAN :
          /\ Answers(yes)
          /\ typed' = IF yes /\ looked # 1 THEN "cmd" ELSE IF ~yes THEN "word" ELSE typed
          /\ LET again == looked = 0 \/ (looked = 1 /\ yes /\ typed = "word")
             IN  /\ looked' = looked + 1
                 /\ IF again
                    THEN /\ UNCHANGED <<pc, status>>
                         /\ IF line.direct THEN UNCHANGED lookVars ELSE Scan
                    ELSE Parsed(typed') /\ Forget
  BY DEF ParserCmdNoFound
<1>2. pc = "look" /\ UNCHANGED <<childVars, histVars, line>>
  BY DEF ParserCmdNoFound
<1>3. IsCommand /\ line \in CommandLines /\ Known /\ Looking /\ Finding /\ child = "none"
  BY <1>2 DEF RunInv, Lined
<1>4. file' = file
  BY <1>1 DEF lookVars, Scan, Forget
<1>5. Known'
  BY <1>2, <1>3, <1>4, KnownStays DEF histVars
<1>6. ASSUME always # {} PROVE yes
  <2>1. PICK d \in always : d \in PlacesOf(line) /\ IsProgram(d, line.name)
    BY <1>3, <1>6 DEF Known, Programs
  <2>2. CASE line.direct
    BY <1>1, <2>1, <2>2 DEF Answers, PlacesOf
  <2>3. CASE ~line.direct
    <3>1. pass = "search" /\ yes = (line.name \in listed)
      BY <1>1, <2>3 DEF Answers
    <3>2. PICK k \in DOMAIN Path : d = Path[k]
      BY <2>1, <2>3 DEF PlacesOf, Dirs
    <3>3. k \in 1..(dir - 1)
      BY <1>3, <2>3, <3>1, <3>2, Directories DEF Looking
    <3> QED
      BY <1>3, <2>1, <2>3, <3>1, <3>2, <3>3 DEF Looking
  <2> QED
    BY <2>2, <2>3
<1>7. always # {} => typed' = "cmd"
  BY <1>1, <1>2, <1>3, <1>6 DEF Looking
<1>8. line.direct /\ typed' = "cmd" => Here \in ever
  <2>1. CASE yes
    BY <1>1, <1>3, <2>1 DEF Answers, Known, Programs, PlacesOf
  <2>2. CASE ~yes
    BY <1>1, <2>2
  <2> QED
    BY <2>1, <2>2
<1>9. CASE looked = 0 \/ (looked = 1 /\ yes /\ typed = "word")
  <2>1. pc' = "look" /\ (line.direct \/ pass' = "count")
    BY <1>1, <1>2, <1>9 DEF Scan
  <2>2. line.direct => UNCHANGED lookVars
    BY <1>1, <1>9
  <2>3. Looking'
    <3>1. CASE line.direct
      BY <1>2, <1>3, <1>7, <1>8, <2>1, <2>2, <3>1 DEF Looking, lookVars, histVars, childVars
    <3>2. CASE ~line.direct
      BY <1>2, <1>3, <1>7, <1>8, <2>1, <3>2 DEF Looking, histVars, childVars
    <3> QED
      BY <3>1, <3>2
  <2> QED
    BY <1>2, <1>3, <1>5, <2>1, <2>3 DEF RunInv, Lined, IsCommand, Finding, Running, Right,
       FirstRuns, Fresh, RunsFirstOnPath, childVars, histVars, Starting
<1>10. CASE ~(looked = 0 \/ (looked = 1 /\ yes /\ typed = "word"))
  <2>1. Parsed(typed') /\ Forget
    BY <1>1, <1>10
  <2>2. pass' = "none"
    BY <2>1 DEF Forget
  <2>3. CASE typed' = "cmd"
    <3>1. pc' = "fork"
      BY <2>1, <2>3 DEF Parsed
    <3> QED
      BY <1>2, <1>3, <1>5, <1>8, <2>2, <2>3, <3>1 DEF RunInv, Lined, IsCommand, Looking, Finding,
         Running, Right, FirstRuns, Fresh, RunsFirstOnPath, childVars, histVars, Starting
  <2>4. CASE typed' # "cmd"
    <3>1. pc' = "top" /\ status' = 127 /\ always = {}
      BY <1>7, <2>1, <2>4 DEF Parsed, CommandNotFound
    <3>2. Fresh
      BY <1>2, <1>3 DEF Finding
    <3>3. Looking' /\ RunsFirstOnPath'
      BY <1>2, <1>3, <2>2, <2>4, <3>1, <3>2 DEF Looking, RunsFirstOnPath, Fresh, childVars, histVars
    <3> QED
      BY <1>2, <1>3, <1>5, <3>1, <3>3 DEF RunInv, Lined, IsCommand, Finding, Running, childVars,
         histVars, Starting
  <2> QED
    BY <2>3, <2>4
<1> QED
  BY <1>9, <1>10

\* A list that is overrun ends the shell.
LEMMA CrashRuns == ASSUME RunInv, OverrunCrashes PROVE RunInv'
<1>1. pc = "look" /\ pc' = "ended" /\ UNCHANGED <<lookVars, childVars, histVars, line, typed>>
  BY DEF OverrunCrashes, End
<1>2. IsCommand => Known' /\ Looking'
  BY <1>1, KnownStays DEF RunInv, Looking, lookVars, histVars, childVars
<1> QED
  BY <1>1, <1>2 DEF RunInv, Lined, IsCommand, Finding, Running, Right, FirstRuns, Fresh,
     RunsFirstOnPath, childVars, histVars

\* A child starts at the first directory; without one, the status says so.
LEMMA ForkRuns == ASSUME RunInv, Fork PROVE RunInv'
<1>1. /\ pc = "fork" /\ UNCHANGED <<lookVars, histVars, line, looked, typed, tried, path, fate, ran>>
      /\ \/ child' = "born" /\ pc' = "forked"
         \/ pc' = "top" /\ status' = 1 /\ child' = child
  BY DEF Fork, Back
<1>2. IsCommand /\ Finding /\ Looking /\ Known /\ child = "none" /\ line \in CommandLines
  BY <1>1 DEF RunInv, Lined
<1>3. Fresh /\ tried = 0
  BY <1>1, <1>2 DEF Finding
<1>4. Known' /\ Looking'
  BY <1>1, <1>2, KnownStays DEF Looking, lookVars, histVars
<1>5. Lined'
  BY <1>1, <1>2 DEF Lined, IsCommand
<1>6. Finding' /\ Running'
  BY <1>1, <1>2, <1>3, Directories DEF Finding, Running, Starting, Fresh
<1>7. RunsFirstOnPath'
  BY <1>1, <1>3 DEF RunsFirstOnPath, Disturbed, Fresh
<1> QED
  BY <1>4, <1>5, <1>6, <1>7 DEF RunInv

\* The shell starts to wait.
LEMMA ParentRuns == ASSUME RunInv, HandleParentSignals PROVE RunInv'
<1>1. pc = "forked" /\ pc' = "wait" /\ UNCHANGED <<lookVars, childVars, histVars, line, looked, typed>>
  BY DEF HandleParentSignals
<1>2. IsCommand
  BY <1>1 DEF RunInv, Lined
<1>3. Known' /\ Looking'
  BY <1>1, <1>2, KnownStays DEF RunInv, Looking, lookVars, histVars, childVars
<1> QED
  BY <1>1, <1>2, <1>3 DEF RunInv, Lined, IsCommand, Finding, Running, Right, FirstRuns, Fresh,
     RunsFirstOnPath, childVars, histVars

\* When the child has come to its end, what is said of it holds.
LEMMA WaitRuns == ASSUME RunInv, ParentWaitExternal PROVE RunInv'
<1>1. /\ pc = "wait" /\ child = "zombie" /\ pc' = "top" /\ status' = ExitCode /\ child' = "none"
      /\ UNCHANGED <<lookVars, histVars, line, looked, typed, tried, path, fate, ran>>
  BY DEF ParentWaitExternal
<1>2. IsCommand /\ Running
  BY <1>1 DEF RunInv, Lined
<1>3. Known' /\ Looking'
  BY <1>1, <1>2, KnownStays DEF RunInv, Looking, lookVars, histVars, childVars
<1>4. Lined' /\ Finding' /\ Running'
  BY <1>1, <1>2 DEF RunInv, Lined, IsCommand, Finding, Running, Starting
<1>5. RunsFirstOnPath'
  <2>1. fate # <<>> /\ (fate[1] # "signal" => fate[1] = "exit" /\ Right)
    BY <1>1, <1>2 DEF Running
  <2>2. fate[1] = "exit" /\ ever = {} => status' = 127
    BY <1>1, <1>2 DEF Running, ExitCode
  <2>3. Disturbed' <=> fate[1] = "signal"
    BY <1>1, <2>1 DEF Disturbed
  <2> QED
    BY <1>1, <2>1, <2>2, <2>3 DEF RunsFirstOnPath, Right, FirstRuns, histVars
<1> QED
  BY <1>3, <1>4, <1>5 DEF RunInv

\* The directory before the one that is found is not the first.
LEMMA NotBefore ==
    ASSUME RunInv, child = "exec", NEW d \in always, \A e \in ever : InOrder(d, e)
    PROVE  d = path
<1>1. IsCommand /\ Finding /\ Known
  BY DEF RunInv, Lined
<1>2. path \in ever /\ InOrder(d, path)
  BY <1>1 DEF Finding
<1>3. CASE line.direct
  BY <1>1, <1>2, <1>3 DEF Known, Programs, PlacesOf
<1>4. CASE ~line.direct
  <2>1. tried \in Nat /\ tried < Len(Path) /\ path = Path[tried + 1]
        /\ \A k \in 1..tried : Path[k] \notin always
    BY <1>1, <1>4 DEF Finding, Starting
  <2>2. SUFFICES ASSUME NEW j \in DOMAIN Path, NEW k \in DOMAIN Path,
                        j < k, Path[j] = d, Path[k] = path
                 PROVE  FALSE
    BY <1>2 DEF InOrder
  <2>3. tried + 1 \in DOMAIN Path
    BY <2>1, Directories
  <2>4. k = tried + 1
    BY <2>1, <2>2, <2>3, PathAssumption
  <2>5. j \in 1..tried
    BY <2>1, <2>2, <2>4, Directories
  <2> QED
    BY <2>1, <2>2, <2>5
<1> QED
  BY <1>3, <1>4

\* What a step of the child leaves alone is as it was.
LEMMA ChildLeaves ==
    ASSUME RunInv, ChildOnly, UNCHANGED lookVars, child # "none"
    PROVE  /\ IsCommand /\ line \in CommandLines /\ Finding /\ Running /\ Known
           /\ Known' /\ Looking' /\ (child' # "none" => Lined') /\ RunsFirstOnPath'
<1>1. /\ UNCHANGED <<pc, line, status, looked, typed, histVars, lookVars>>
      /\ IsCommand /\ pc \in {"forked", "wait", "ended"}
  BY DEF ChildOnly, RunInv, Lined
<1>2. Known' /\ Looking'
  BY <1>1, KnownStays DEF RunInv, Looking, lookVars, histVars, childVars
<1>3. child' # "none" => Lined'
  BY <1>1 DEF RunInv, Lined, IsCommand
<1>4. RunsFirstOnPath'
  BY <1>1 DEF RunsFirstOnPath
<1> QED
  BY <1>1, <1>2, <1>3, <1>4 DEF RunInv, Lined

\* The child passes over no directory that always had the command, and runs what
\* it has found.
LEMMA ChildRuns == ASSUME RunInv, ChildStep PROVE RunInv'
<1>0. ChildOnly /\ UNCHANGED lookVars /\ child \notin {"none", "zombie"} /\ child' # "none"
  BY DEF ChildStep, ResetInterrupt, ResetQuit, DirectPath, CheckPathAccess, NoPath, Execve,
     CommandExits, Dies
<1>1. /\ UNCHANGED <<pc, line, status, looked, typed, always, ever, file>>
      /\ IsCommand /\ line \in CommandLines /\ Finding /\ Running /\ Known
      /\ Known' /\ Looking' /\ Lined' /\ RunsFirstOnPath'
  BY <1>0, ChildLeaves DEF ChildOnly, histVars, lookVars
<1>p. pc \in {"forked", "wait", "ended"}
  BY <1>0 DEF RunInv, Lined
<1> SUFFICES Finding' /\ Running'
  BY <1>1 DEF RunInv
<1>2. CASE ResetInterrupt \/ ResetQuit
  <2>1. /\ child \in {"born", "reset"} /\ child' \in {"reset", "find"}
        /\ UNCHANGED <<tried, path, fate, ran>>
    BY <1>2 DEF ResetInterrupt, ResetQuit
  <2> QED
    BY <1>1, <1>p, <2>1 DEF Finding, Running, Starting, Fresh
<1>3. CASE DirectPath
  <2>1. child = "find" /\ child' = "exec" /\ line.direct /\ path' = Here
        /\ UNCHANGED <<tried, fate, ran>>
    BY <1>3 DEF DirectPath
  <2>2. Here \in ever
    BY <1>1, <2>1 DEF RunInv, Looking
  <2> QED
    BY <1>1, <1>p, <2>1, <2>2 DEF Finding, Running, Starting, Fresh
<1>4. CASE CheckPathAccess
  <2>0. child = "find" /\ ~line.direct /\ tried < Len(Path) /\ tried \in Nat /\ Len(Path) \in Nat
        /\ UNCHANGED <<fate, ran>>
    BY <1>1, <1>4, Directories DEF CheckPathAccess, Finding, Starting
  <2>1. Path[tried + 1] \in PlacesOf(line)
    BY <2>0, Directories DEF PlacesOf, Dirs
  <2>2. CASE IsProgram(Path[tried + 1], line.name)
    <3>1. path' = Path[tried + 1] /\ child' = "exec" /\ tried' = tried
      BY <1>4, <2>2 DEF CheckPathAccess
    <3>2. Path[tried + 1] \in ever
      BY <1>1, <2>1, <2>2 DEF Known, Programs
    <3> QED
      BY <1>1, <1>p, <2>0, <3>1, <3>2 DEF Finding, Running, Starting, Fresh
  <2>3. CASE ~IsProgram(Path[tried + 1], line.name)
    <3>1. tried' = tried + 1 /\ UNCHANGED <<path, child>>
      BY <1>4, <2>3 DEF CheckPathAccess
    <3>2. Path[tried + 1] \notin always
      BY <1>1, <2>3 DEF Known, Programs
    <3>3. \A k \in 1..tried' : Path[k] \notin always
      BY <1>1, <2>0, <3>1, <3>2 DEF Finding, Starting
    <3>4. tried' \in Nat /\ tried' <= Len(Path)
      BY <2>0, <3>1
    <3> QED
      BY <1>1, <1>p, <2>0, <3>1, <3>3, <3>4 DEF Finding, Running, Starting, Fresh
  <2> QED
    BY <2>2, <2>3
<1>5. CASE NoPath
  <2>1. /\ child = "find" /\ ~line.direct /\ tried = Len(Path) /\ child' = "zombie"
        /\ fate' = <<"exit", 127>> /\ UNCHANGED <<tried, path, ran>>
    BY <1>5 DEF NoPath, Dies
  <2>2. ran = Nowhere /\ \A k \in 1..Len(Path) : Path[k] \notin always
    BY <1>1, <2>1 DEF Finding, Starting, Fresh
  <2>3. always = {}
    BY <1>1, <2>1, <2>2, Directories DEF Known, Programs, PlacesOf, Dirs
  <2>4. Right'
    BY <1>1, <2>1, <2>2, <2>3 DEF Right, FirstRuns
  <2> QED
    BY <1>p, <1>1, <2>1, <2>4 DEF Finding, Running, Starting
<1>6. CASE Execve
  <2>1. child = "exec" /\ path \in ever /\ Fresh /\ UNCHANGED <<tried, path>>
    BY <1>1, <1>6 DEF Execve, Finding, Starting
  <2>2. \A d \in always : (\A e \in ever : InOrder(d, e)) => d = path
    BY <2>1, NotBefore
  <2>3. CASE file[path][line.name] = "program"
    <3>1. child' = "running" /\ ran' = path /\ fate' = fate
      BY <1>6, <2>3 DEF Execve
    <3>2. Right' /\ ran' # Nowhere
      <4>1. FirstRuns'
        BY <1>1, <2>2, <3>1 DEF FirstRuns, InOrder
      <4>2. ran' \in ever
        BY <2>1, <3>1
      <4>3. \A d \in ever : d # Nowhere
        BY <1>1, PlacesAssumption DEF Known, PlacesOf, Places
      <4> QED
        BY <1>1, <4>1, <4>2, <4>3 DEF Right
    <3> QED
      BY <1>p, <1>1, <3>1, <3>2 DEF Finding, Running, Starting
  <2>4. CASE file[path][line.name] # "program"
    <3>1. PICK n \in {1, 126} : child' = "zombie" /\ fate' = <<"exit", n>> /\ ran' = ran
      BY <1>6, <2>4 DEF Execve, Dies
    <3>2. path \notin always
      BY <1>1, <2>4 DEF Known, Programs, IsProgram
    <3>3. Right'
      BY <1>1, <2>1, <2>2, <3>1, <3>2 DEF Right, FirstRuns, Fresh, InOrder
    <3>4. ever' # {}
      BY <1>1, <2>1
    <3> QED
      BY <1>p, <1>1, <3>1, <3>3, <3>4 DEF Finding, Running, Starting
  <2> QED
    BY <2>3, <2>4
<1>7. CASE CommandExits
  <2>1. PICK n \in Codes : child = "running" /\ child' = "zombie" /\ fate' = <<"exit", n>>
                           /\ UNCHANGED <<tried, path, ran>>
    BY <1>7 DEF CommandExits, Dies
  <2>2. Right /\ ran # Nowhere
    BY <1>1, <2>1 DEF Running
  <2>3. Right' /\ ever' # {}
    BY <1>1, <2>1, <2>2 DEF Right, FirstRuns, InOrder
  <2> QED
    BY <1>p, <1>1, <2>1, <2>3 DEF Finding, Running, Starting
<1> QED
  BY <1>2, <1>3, <1>4, <1>5, <1>6, <1>7 DEF ChildStep

\* A file that changes while the command is looked for changes its history: what
\* was passed over stays passed over, and what was found has once been there.
LEMMA ChangeRuns == ASSUME LookTypeOK, RunInv, ChangeFile PROVE RunInv'
<1>1. /\ pc \in {"look", "fork", "forked", "wait"} /\ child \notin {"running", "zombie"}
      /\ UNCHANGED <<shellVars, childVars>> /\ UNCHANGED <<pass, dir, listed>>
  BY DEF ChangeFile, Change
<1>2. IsCommand /\ line \in CommandLines /\ Known /\ Looking /\ Finding /\ RunsFirstOnPath
  BY <1>1 DEF RunInv, Lined
<1> DEFINE now == {d \in PlacesOf(line) : file'[d][line.name] = "program"}
<1>3. always' = always \cap now /\ ever' = ever \cup now
  BY DEF ChangeFile
<1>4. Programs(line)' = now /\ PlacesOf(line)' = PlacesOf(line)
  BY <1>1 DEF Programs, PlacesOf, IsProgram, shellVars
<1>5. always' \subseteq always /\ ever \subseteq ever'
  BY <1>3
<1>6. Known'
  BY <1>2, <1>3, <1>4 DEF Known
<1> HIDE DEF now
<1>7. Lined'
  BY <1>1 DEF RunInv, Lined, IsCommand, Fresh, shellVars, childVars
<1>8. Looking'
  BY <1>1, <1>2, <1>5 DEF Looking, shellVars, childVars
<1>9. Finding'
  BY <1>1, <1>2, <1>5 DEF Finding, Starting, Fresh, shellVars, childVars
<1>10. Running' /\ RunsFirstOnPath'
  BY <1>1 DEF Running, RunsFirstOnPath, shellVars, childVars
<1> QED
  BY <1>6, <1>7, <1>8, <1>9, <1>10 DEF RunInv

\* A signal that ends the child leaves nothing to say of what has run.
LEMMA PressRuns == ASSUME RunInv, NEW s \in Signals, Press(s) PROVE RunInv'
<1>1. /\ UNCHANGED <<lookVars, line, status, looked, typed, tried, path, ran, histVars>>
      /\ \/ UNCHANGED <<child, fate>>
         \/ child \notin {"none", "zombie"} /\ child' = "zombie" /\ fate' = <<"signal", s>>
      /\ pc' = pc \/ (pc' = "ended" /\ pc # "ended")
  BY DEF Press, Killed, Living, Dies, End
<1>2. CASE ~IsCommand
  BY <1>1, <1>2 DEF RunInv, Lined, IsCommand, Fresh
<1>3. CASE IsCommand
  <2>1. line \in CommandLines /\ Known /\ Looking /\ Finding /\ Running /\ RunsFirstOnPath /\ Lined
    BY <1>3 DEF RunInv, Lined
  <2>2. Known' /\ Looking'
    BY <1>1, <2>1, KnownStays DEF Looking, lookVars, histVars
  <2>3. Lined'
    BY <1>1, <1>3, <2>1 DEF Lined, IsCommand, NoLine, Fresh
  <2>4. CASE UNCHANGED <<child, fate>>
    <3>1. Finding' /\ Running'
      BY <1>1, <2>1, <2>4 DEF Finding, Running, Right, FirstRuns, Fresh, Starting, histVars
    <3>2. RunsFirstOnPath'
      BY <1>1, <2>1, <2>4 DEF RunsFirstOnPath, Disturbed, histVars
    <3> QED
      BY <2>2, <2>3, <3>1, <3>2 DEF RunInv
  <2>5. CASE child \notin {"none", "zombie"} /\ child' = "zombie" /\ fate' = <<"signal", s>>
    <3>1. pc' \in {"forked", "wait", "ended"}
      BY <1>1, <2>1, <2>5 DEF Lined
    <3>2. Finding' /\ Running' /\ RunsFirstOnPath'
      BY <2>5, <3>1 DEF Finding, Running, Starting, RunsFirstOnPath
    <3> QED
      BY <2>2, <2>3, <3>2 DEF RunInv
  <2> QED
    BY <1>1, <2>4, <2>5
<1> QED
  BY <1>2, <1>3

\* Every step keeps it.
LEMMA NextRun == ListInv /\ RunInv /\ [Next]_vars => RunInv'
<1> SUFFICES ASSUME LookTypeOK, RunInv, [Next]_vars PROVE RunInv'
  BY DEF ListInv
<1>1. CASE ShellStep
  BY <1>1, PromptRuns, ListRuns, CrashRuns, FoundRuns, ForkRuns, ParentRuns, WaitRuns
  DEF ShellStep
<1>2. CASE ReadStep
  BY <1>2, InputRuns, TypeRuns DEF ReadStep
<1>3. CASE ChildStep
  BY <1>3, ChildRuns
<1>4. CASE ChangeFile
  BY <1>4, ChangeRuns
<1>5. CASE \E s \in Signals : Press(s)
  BY <1>5, PressRuns
<1>6. CASE UNCHANGED vars
  <2>1. UNCHANGED <<lookVars, pc, line, status, looked, typed, childVars, histVars>>
    BY <1>6 DEF vars, shellVars
  <2>2. IsCommand => Known' /\ Looking'
    BY <2>1, KnownStays DEF RunInv, Looking, lookVars, histVars, childVars
  <2>3. Lined' /\ (IsCommand => Finding' /\ Running' /\ RunsFirstOnPath')
    BY <2>1 DEF RunInv, Lined, IsCommand, Finding, Running, Right, FirstRuns, Fresh, Starting,
       RunsFirstOnPath, Disturbed, childVars, histVars
  <2> QED
    BY <2>1, <2>2, <2>3 DEF RunInv, IsCommand
<1> QED
  BY <1>1, <1>2, <1>3, <1>4, <1>5, <1>6 DEF Next

\* The invariant holds throughout.
LEMMA RunInvariant == Spec => []RunInv
<1> QED
  BY InitRun, NextRun, ListInvariant, PTL DEF Spec

\* If the first directory of PATH that ever had the command while it was looked
\* for had it all the time, that is what runs, however files change beside it; and
\* if none ever had it, nothing runs and the status is 127.
THEOREM RunsFirstOnPathAlways == Spec => []RunsFirstOnPath
<1>1. RunInv => RunsFirstOnPath
  BY DEF RunInv, RunsFirstOnPath, IsCommand
<1> QED
  BY <1>1, RunInvariant, PTL

-----------------------------------------------------------------------------
(***************************************************************************)
(* The number after exit.                                                  *)
(***************************************************************************)
\* A set of positions that has 0, and with each position the next, has them all.
LEMMA UpTo ==
    ASSUME NEW n \in Nat, NEW S, 0 \in S, \A k \in 1..n : k - 1 \in S => k \in S
    PROVE  \A k \in 0..n : k \in S
<1> DEFINE Bad == {k \in 0..n : k \notin S}
<1> SUFFICES ASSUME Bad # {} PROVE FALSE
  OBVIOUS
<1>1. Bad \subseteq Nat
  OBVIOUS
<1>2. PICK m \in Bad : \A k \in Bad : ~(<<k, m>> \in OpToRel(<, Nat))
  <2> HIDE DEF Bad
  <2> QED
    BY <1>1, WFMin, NatLessThanWellFounded
<1>3. m \in 1..n /\ m - 1 \in 0..n
  OBVIOUS
<1>4. m - 1 < m /\ m - 1 \in Nat /\ m \in Nat
  BY <1>3
<1>5. m - 1 \notin Bad
  <2> HIDE DEF Bad
  <2> QED
    BY <1>2, <1>4 DEF OpToRel
<1> QED
  BY <1>3, <1>5

\* Integers that are computed position by position, each from the one before it,
\* exist.
LEMMA StepByStep ==
    ASSUME NEW n \in Nat, NEW z \in Int, NEW F \in [(1..n) \X Int -> Int]
    PROVE  \E f \in [0..n -> Int] : f[0] = z /\ \A k \in 1..n : f[k] = F[<<k, f[k - 1]>>]
<1> DEFINE Good(m, f) == f[0] = z /\ \A k \in 1..m : f[k] = F[<<k, f[k - 1]>>]
           S == {m \in 0..n : \E f \in [0..m -> Int] : Good(m, f)}
<1>1. 0 \in S
  <2> DEFINE f == [k \in 0..0 |-> z]
  <2>1. f \in [0..0 -> Int] /\ Good(0, f)
    OBVIOUS
  <2> HIDE DEF f
  <2> QED
    BY <2>1
<1>2. ASSUME NEW m \in 1..n, m - 1 \in S PROVE m \in S
  <2>1. PICK g \in [0..(m - 1) -> Int] : Good(m - 1, g)
    BY <1>2
  <2> DEFINE f == [k \in 0..m |-> IF k = m THEN F[<<m, g[m - 1]>>] ELSE g[k]]
  <2>2. f \in [0..m -> Int]
    <3>1. g[m - 1] \in Int /\ <<m, g[m - 1]>> \in (1..n) \X Int
      OBVIOUS
    <3>2. \A k \in 0..m : k # m => k \in 0..(m - 1)
      OBVIOUS
    <3> QED
      BY <3>1, <3>2
  <2>3. f[0] = z
    BY <2>1
  <2>4. ASSUME NEW k \in 1..m PROVE f[k] = F[<<k, f[k - 1]>>]
    <3>1. CASE k = m
      <4>1. m - 1 \in 0..m /\ m - 1 # m /\ m \in 0..m
        OBVIOUS
      <4>2. f[m] = F[<<m, g[m - 1]>>] /\ f[m - 1] = g[m - 1]
        BY <4>1
      <4> QED
        BY <3>1, <4>2
    <3>2. CASE k # m
      <4>1. k \in 1..(m - 1) /\ k - 1 \in 0..m /\ k - 1 # m
        BY <3>2
      <4> QED
        BY <2>1, <4>1
    <3> QED
      BY <3>1, <3>2
  <2> HIDE DEF f
  <2>5. m \in 0..n /\ Good(m, f)
    BY <2>3, <2>4
  <2> QED
    BY <2>2, <2>5
<1>3. n \in S
  <2> HIDE DEF S
  <2> QED
    BY <1>1, <1>2, UpTo
<1> QED
  BY <1>3

\* int arithmetic is off by a multiple of the size of an exit status.
LEMMA WrapsByBytes ==
    ASSUME NEW n \in Int
    PROVE  Wrap(n) \in Int /\ \E q \in Int : Wrap(n) = n + Byte * q
<1> DEFINE h == IntSize \div 2
           d == (n + h) \div IntSize
           c == IntSize \div (2 * Byte)
<1>1. Byte \in Nat \ {0} /\ IntSize \in Nat \ {0} /\ 2 * Byte \in Nat \ {0}
      /\ IntSize % (2 * Byte) = 0
  BY SizesAssumption
<1>2. h \in Int /\ d \in Int /\ c \in Int
  BY <1>1
<1>3. n + h = IntSize * d + ((n + h) % IntSize)
  BY <1>1, <1>2
<1>4. IntSize = (2 * Byte) * c
  BY <1>1
<1>5. Wrap(n) = ((n + h) % IntSize) - h /\ (n + h) % IntSize \in Int
  BY <1>1, <1>2 DEF Wrap
<1> HIDE DEF h, d, c
<1>6. IntSize * d = Byte * (2 * (c * d))
  BY <1>1, <1>2, <1>4
<1> DEFINE q == -(2 * (c * d))
<1>7. q \in Int /\ Byte * q = -(Byte * (2 * (c * d))) /\ c * d \in Int
  BY <1>1, <1>2
<1> HIDE DEF q
<1>8. Wrap(n) = n + Byte * q
  <2>1. IntSize * d \in Int /\ Wrap(n) = n - IntSize * d
    BY <1>1, <1>2, <1>3, <1>5
  <2>2. Byte * q = -(IntSize * d)
    BY <1>6, <1>7
  <2> QED
    BY <2>1, <2>2
<1> QED
  BY <1>1, <1>7, <1>8

\* A multiple of the size of an exit status does not change the remainder.
LEMMA SameRemainder ==
    ASSUME NEW n \in Int, NEW q \in Int
    PROVE  (n + Byte * q) % Byte = n % Byte
<1>1. Byte \in Nat \ {0}
  BY SizesAssumption
<1> DEFINE m == n + Byte * q
           a == m \div Byte
           b == n \div Byte
<1>2. m \in Int /\ a \in Int /\ b \in Int /\ m % Byte \in 0..(Byte - 1) /\ n % Byte \in 0..(Byte - 1)
  BY <1>1
<1>3. m = Byte * a + (m % Byte) /\ n = Byte * b + (n % Byte)
  BY <1>1, <1>2
<1> DEFINE e == a - b - q
<1>4. e \in Int /\ Byte * e = (n % Byte) - (m % Byte)
  BY <1>1, <1>2, <1>3
<1> HIDE DEF a, b, e
<1>5. e = 0
  <2>1. CASE e >= 1
    <3>1. Byte * e >= Byte
      BY <1>1, <1>4, <2>1
    <3> QED
      BY <1>1, <1>2, <1>4, <3>1
  <2>2. CASE e <= -1
    <3>1. Byte * e <= -Byte
      BY <1>1, <1>4, <2>2
    <3> QED
      BY <1>1, <1>2, <1>4, <3>1
  <2> QED
    BY <1>4, <2>1, <2>2
<1> QED
  BY <1>1, <1>2, <1>4, <1>5

\* parse_exit_arg makes of C's remainder the modulus, also below 0.
LEMMA ExitIsRemainder ==
    ASSUME NEW n \in Int
    PROVE  ExitValue(n) = n % Byte /\ ExitValue(n) \in 0..255
<1>1. Byte \in Nat \ {0} /\ Byte <= 256 /\ n % Byte \in 0..(Byte - 1)
  BY SizesAssumption
<1>2. CASE n >= 0
  BY <1>1, <1>2 DEF ExitValue, Rem
<1>3. CASE n < 0
  <2> DEFINE r == (-n) % Byte
             k == (-n) \div Byte
  <2>1. r \in 0..(Byte - 1) /\ k \in Int /\ -n = Byte * k + r
    BY <1>1
  <2> HIDE DEF r, k
  <2>2. n = -r + Byte * (-k)
    BY <1>1, <2>1
  <2>3. (-r) % Byte = n % Byte
    BY <2>1, <2>2, SameRemainder
  <2>4. CASE r = 0
    BY <1>1, <1>3, <2>1, <2>3, <2>4 DEF ExitValue, Rem, r
  <2>5. CASE r # 0
    <3>1. (-r) % Byte = Byte - r
      <4>1. -r + Byte * 1 = Byte - r /\ Byte - r \in 0..(Byte - 1)
        BY <1>1, <2>1, <2>5
      <4>2. (Byte - r) % Byte = Byte - r
        BY <1>1, <4>1
      <4> QED
        BY <1>1, <2>1, <4>1, <4>2, SameRemainder
    <3> QED
      BY <1>1, <1>3, <2>1, <2>3, <2>5, <3>1 DEF ExitValue, Rem, r
  <2> QED
    BY <2>4, <2>5
<1> QED
  BY <1>2, <1>3

\* The two functions by which ft_atoi and the number's value are computed.
IsAtoi(f, n, digits)  ==
    f = [k \in 0..n |-> IF k = 0 THEN 0 ELSE Wrap(digits[k] + Wrap(f[k - 1] * 10))]
IsValue(f, n, digits) ==
    f = [k \in 0..n |-> IF k = 0 THEN 0 ELSE 10 * f[k - 1] + digits[k]]

\* Both exist.
LEMMA FunctionsExist ==
    ASSUME NEW n \in Nat, NEW digits, \A k \in 1..n : digits[k] \in Int
    PROVE  (\E f : IsAtoi(f, n, digits)) /\ (\E f : IsValue(f, n, digits))
<1>0. 0 \in Int /\ \A k \in 0..n : k # 0 => k \in 1..n
  OBVIOUS
<1>1. \E f : IsAtoi(f, n, digits)
  <2> DEFINE F == [p \in (1..n) \X Int |-> Wrap(digits[p[1]] + Wrap(p[2] * 10))]
  <2>1. F \in [(1..n) \X Int -> Int]
    <3>1. ASSUME NEW p \in (1..n) \X Int PROVE Wrap(digits[p[1]] + Wrap(p[2] * 10)) \in Int
      <4>1. p[2] * 10 \in Int /\ digits[p[1]] \in Int
        OBVIOUS
      <4>2. Wrap(p[2] * 10) \in Int
        BY <4>1, WrapsByBytes
      <4>3. digits[p[1]] + Wrap(p[2] * 10) \in Int
        BY <4>1, <4>2
      <4> QED
        BY <4>3, WrapsByBytes
    <3> QED
      BY <3>1
  <2>2. PICK f \in [0..n -> Int] : f[0] = 0 /\ \A k \in 1..n : f[k] = F[<<k, f[k - 1]>>]
    <3> HIDE DEF F
    <3>1. 0 \in Int
      OBVIOUS
    <3>2. \A z \in Int, G \in [(1..n) \X Int -> Int] : \E f \in [0..n -> Int] :
             f[0] = z /\ \A k \in 1..n : f[k] = G[<<k, f[k - 1]>>]
      BY StepByStep, Zenon
    <3> QED
      BY <2>1, <3>1, <3>2
  <2>3. ASSUME NEW k \in 1..n PROVE f[k] = Wrap(digits[k] + Wrap(f[k - 1] * 10))
    <3>1. k - 1 \in 0..n
      OBVIOUS
    <3>2. <<k, f[k - 1]>> \in (1..n) \X Int
      BY <3>1
    <3> QED
      BY <2>2, <3>2
  <2>4. IsAtoi(f, n, digits)
    BY <1>0, <2>2, <2>3 DEF IsAtoi
  <2> QED
    BY <2>4
<1>2. \E f : IsValue(f, n, digits)
  <2> DEFINE F == [p \in (1..n) \X Int |-> 10 * p[2] + digits[p[1]]]
  <2>1. F \in [(1..n) \X Int -> Int]
    OBVIOUS
  <2>2. PICK f \in [0..n -> Int] : f[0] = 0 /\ \A k \in 1..n : f[k] = F[<<k, f[k - 1]>>]
    <3> HIDE DEF F
    <3>1. 0 \in Int
      OBVIOUS
    <3>2. \A z \in Int, G \in [(1..n) \X Int -> Int] : \E f \in [0..n -> Int] :
             f[0] = z /\ \A k \in 1..n : f[k] = G[<<k, f[k - 1]>>]
      BY StepByStep, Zenon
    <3> QED
      BY <2>1, <3>1, <3>2
  <2>3. ASSUME NEW k \in 1..n PROVE f[k] = 10 * f[k - 1] + digits[k]
    <3>1. k - 1 \in 0..n
      OBVIOUS
    <3>2. <<k, f[k - 1]>> \in (1..n) \X Int
      BY <3>1
    <3> QED
      BY <2>2, <3>2
  <2>4. IsValue(f, n, digits)
    BY <1>0, <2>2, <2>3 DEF IsValue
  <2> QED
    BY <2>4
<1> QED
  BY <1>1, <1>2

\* The first is the second up to a multiple of the size of a status, however often
\* it wraps around.
LEMMA FunctionsAgree ==
    ASSUME NEW n \in Nat, NEW digits, \A k \in 1..n : digits[k] \in Int,
           NEW res, IsAtoi(res, n, digits), NEW v, IsValue(v, n, digits)
    PROVE  /\ res[n] \in Int /\ v[n] \in Int
           /\ \E q \in Int : res[n] = v[n] + Byte * q
<1> DEFINE S == {k \in 0..n : /\ res[k] \in Int /\ v[k] \in Int
                              /\ \E q \in Int : res[k] = v[k] + Byte * q}
<1>1. Byte \in Nat \ {0}
  BY SizesAssumption
<1>2. 0 \in S
  <2>1. res[0] = 0 /\ v[0] = 0 /\ 0 \in 0..n
    BY DEF IsAtoi, IsValue
  <2>2. 0 = 0 + Byte * 0
    BY <1>1
  <2> QED
    BY <2>1, <2>2
<1>3. ASSUME NEW k \in 1..n, k - 1 \in S PROVE k \in S
  <2>0. k \in 0..n /\ k # 0
    OBVIOUS
  <2>1. res[k] = Wrap(digits[k] + Wrap(res[k - 1] * 10)) /\ v[k] = 10 * v[k - 1] + digits[k]
    BY <2>0 DEF IsAtoi, IsValue
  <2> DEFINE a == res[k - 1]
             b == v[k - 1]
             d == digits[k]
  <2>2. a \in Int /\ b \in Int /\ d \in Int
    BY <1>3
  <2>3. PICK q \in Int : a = b + Byte * q
    BY <1>3
  <2>4. res[k] = Wrap(d + Wrap(a * 10)) /\ v[k] = 10 * b + d
    BY <2>1
  <2> HIDE DEF a, b, d
  <2>5. PICK q1 \in Int : Wrap(a * 10) = a * 10 + Byte * q1
    BY <2>2, WrapsByBytes
  <2>6. d + Wrap(a * 10) \in Int /\ Wrap(a * 10) \in Int
    <3>1. a * 10 \in Int
      BY <2>2
    <3> QED
      BY <2>2, <3>1, WrapsByBytes
  <2>7. PICK q2 \in Int : Wrap(d + Wrap(a * 10)) = d + Wrap(a * 10) + Byte * q2
    BY <2>6, WrapsByBytes
  <2> DEFINE r == 10 * q + q1 + q2
  <2>8. r \in Int /\ Byte * r = 10 * (Byte * q) + Byte * q1 + Byte * q2
    BY <1>1
  <2> HIDE DEF r
  <2>9. res[k] = v[k] + Byte * r /\ res[k] \in Int /\ v[k] \in Int
    <3>1. Byte * q \in Int /\ Byte * q1 \in Int /\ Byte * q2 \in Int
      BY <1>1
    <3>2. Wrap(d + Wrap(a * 10)) \in Int
      BY <2>6, WrapsByBytes
    <3> QED
      BY <2>2, <2>3, <2>4, <2>5, <2>6, <2>7, <2>8, <3>1, <3>2
  <2> QED
    BY <2>0, <2>8, <2>9
<1>4. n \in S
  <2> HIDE DEF S
  <2> QED
    BY <1>2, <1>3, UpTo
<1> QED
  BY <1>4

\* What ft_atoi computes is the number up to a multiple of the size of a status.
LEMMA AtoiIsValue ==
    ASSUME NEW sign \in {1, -1}, NEW digits \in Seq(0..9)
    PROVE  /\ Atoi(sign, digits) \in Int /\ Value(digits) \in Int
           /\ \E q \in Int : Atoi(sign, digits) = sign * Value(digits) + Byte * q
<1>1. Len(digits) \in Nat /\ \A k \in 1..Len(digits) : digits[k] \in Int
  OBVIOUS
<1> DEFINE res == CHOOSE f : IsAtoi(f, Len(digits), digits)
           v == CHOOSE f : IsValue(f, Len(digits), digits)
           a == res[Len(digits)]
           b == v[Len(digits)]
<1>2. IsAtoi(res, Len(digits), digits) /\ IsValue(v, Len(digits), digits)
  BY <1>1, FunctionsExist
<1>3. Atoi(sign, digits) = Wrap(a * sign)
  BY DEF Atoi, IsAtoi
<1>4. Value(digits) = b
  BY DEF Value, IsValue
<1> HIDE DEF res, v
<1>5. a \in Int /\ b \in Int /\ \E q \in Int : a = b + Byte * q
  BY <1>1, <1>2, FunctionsAgree
<1> HIDE DEF a, b
<1>6. PICK q \in Int : a = b + Byte * q
  BY <1>5
<1>7. a * sign \in Int /\ q * sign \in Int /\ Byte \in Nat
  BY <1>5, SizesAssumption
<1>8. Wrap(a * sign) \in Int /\ \E p \in Int : Wrap(a * sign) = a * sign + Byte * p
  BY <1>7, WrapsByBytes
<1>9. PICK p \in Int : Wrap(a * sign) = a * sign + Byte * p
  BY <1>8
<1> DEFINE r == q * sign + p
<1>10. r \in Int /\ Byte * r = Byte * (q * sign) + Byte * p
  BY <1>7
<1>11. a * sign = sign * b + Byte * (q * sign)
  BY <1>5, <1>6, <1>7
<1> HIDE DEF r
<1>12. Wrap(a * sign) = sign * b + Byte * r
  BY <1>5, <1>7, <1>9, <1>10, <1>11
<1> QED
  BY <1>3, <1>4, <1>5, <1>8, <1>10, <1>12

\* The shell's status is the number after exit modulo the size of a status.
LEMMA ExitOfNumber ==
    ASSUME NEW sign \in {1, -1}, NEW digits \in Seq(0..9)
    PROVE  /\ ExitValue(Atoi(sign, digits)) = (sign * Value(digits)) % Byte
           /\ ExitValue(Atoi(sign, digits)) \in 0..255
<1> DEFINE n == sign * Value(digits)
           a == Atoi(sign, digits)
<1>1. a \in Int /\ n \in Int /\ \E q \in Int : a = n + Byte * q
  BY AtoiIsValue
<1> HIDE DEF n, a
<1>2. a % Byte = n % Byte
  BY <1>1, SameRemainder
<1>3. ExitValue(a) = a % Byte /\ ExitValue(a) \in 0..255
  BY <1>1, ExitIsRemainder
<1> QED
  BY <1>2, <1>3 DEF a, n

\* After exit with a number there is no shell any more, and its status is that.
ExitInv == (line.kind = "exit" => pc = "ended") /\ ExitIsModulo

\* Every step keeps it: only a line that is typed makes a shell end so.
LEMMA NextExit == ExitInv /\ [Next]_vars => ExitInv'
<1> SUFFICES ASSUME ExitInv, [Next]_vars PROVE ExitInv'
  OBVIOUS
<1>1. CASE HandleReceivedInput
  <2>1. PICK l \in Lines :
          /\ l.kind # "command" /\ line' = l
          /\ CASE l.kind = "eof"    -> HandleEof
               [] l.kind = "empty"  -> Back(status)
               [] l.kind = "faulty" -> Back(2)
               [] OTHER             -> FtExit(l)
    BY <1>1 DEF HandleReceivedInput
  <2>2. CASE l.kind # "exit"
    BY <2>1, <2>2 DEF ExitInv, ExitIsModulo
  <2>3. CASE l.kind = "exit"
    <3>1. l.sign \in {1, -1} /\ l.digits \in Seq(0..9)
      BY <2>3, LinesAssumption DEF CommandLines, NumberLines, OtherLines
    <3>2. pc' = "ended" /\ ended' = <<"exit", ExitValue(Atoi(l.sign, l.digits))>>
      BY <2>1, <2>3 DEF FtExit, HandleExitOneArg, Leave, End
    <3>3. ExitValue(Atoi(l.sign, l.digits)) = (l.sign * Value(l.digits)) % Byte
      BY <3>1, ExitOfNumber
    <3>4. ended'[2] = ExitValue(Atoi(l.sign, l.digits))
      BY <3>2
    <3>5. ended'[2] = (line'.sign * Value(line'.digits)) % Byte
      BY <2>1, <3>3, <3>4
    <3> QED
      BY <3>2, <3>5 DEF ExitInv, ExitIsModulo
  <2> QED
    BY <2>2, <2>3
<1>2. CASE NextPrompt \/ TypeCommand
  BY <1>2 DEF NextPrompt, TypeCommand, NoLine, ExitInv, ExitIsModulo
<1>3. CASE ShellStep /\ ~NextPrompt
  <2>1. line' = line /\ pc # "ended"
    BY <1>3 DEF ShellStep, InitShell, SearchList, OverrunCrashes, ParserCmdNoFound, Fork,
       HandleParentSignals, ParentWaitExternal, shellVars
  <2> QED
    BY <2>1 DEF ExitInv, ExitIsModulo
<1>4. CASE ChildStep
  <2>1. UNCHANGED <<pc, line, ended>>
    BY <1>4 DEF ChildStep, ResetInterrupt, ResetQuit, DirectPath, CheckPathAccess, NoPath,
       Execve, CommandExits, ChildOnly
  <2> QED
    BY <2>1 DEF ExitInv, ExitIsModulo, Value
<1>5. CASE ChangeFile \/ UNCHANGED vars
  <2>1. UNCHANGED <<pc, line, ended>>
    BY <1>5 DEF ChangeFile, vars, shellVars
  <2> QED
    BY <2>1 DEF ExitInv, ExitIsModulo, Value
<1>6. CASE \E s \in Signals : Press(s)
  BY <1>6 DEF Press, ExitInv, ExitIsModulo
<1> QED
  BY <1>1, <1>2, <1>3, <1>4, <1>5, <1>6 DEF Next, ReadStep

\* exit with a number ends the shell with that number modulo the size of a status,
\* for every number of any length, also below 0 and beyond the range of int.
THEOREM ExitIsModuloAlways == Spec => []ExitIsModulo
<1>1. Init => ExitInv
  BY DEF Init, ExitInv, ExitIsModulo, NoLine
<1>2. ExitInv => ExitIsModulo
  BY DEF ExitInv
<1> QED
  BY <1>1, <1>2, NextExit, PTL DEF Spec

-----------------------------------------------------------------------------
(***************************************************************************)
(* Types.                                                                  *)
(***************************************************************************)
\* How a process ends, if it has ended.
IsFate(f) == f = <<>> \/ f \in {"exit"} \X (0..255) \/ f \in {"signal"} \X Signals

\* What the shell keeps; a word is looked up at most three times.
ShellTypes ==
    /\ pc \in {"init", "top", "read", "look", "fork", "forked", "wait", "ended"}
    /\ line \in Lines \cup {NoLine}
    /\ status \in 0..255
    /\ looked \in 0..3 /\ (pc = "look" => looked # 3) /\ typed \in {"word", "cmd"}
    /\ ended = <<"crash">> \/ IsFate(ended)
    /\ signals \in 0..MaxSignals

\* What the child keeps, and the history.
ChildTypes ==
    /\ child \in {"none", "born", "reset", "find", "exec", "running", "zombie"}
    /\ tried \in 0..Len(Path)
    /\ path \in Places \cup {Nowhere} /\ ran \in Places \cup {Nowhere}
    /\ IsFate(fate)
    /\ always \subseteq Places /\ ever \subseteq Places

\* It has not ended, or with a number, or by a signal.
LEMMA Fates == /\ IsFate(<<>>)
               /\ \A n \in 0..255 : IsFate(<<"exit", n>>)
               /\ \A s \in Signals : IsFate(<<"signal", s>>)
BY DEF IsFate

\* Typed lines keep the types.
LEMMA ReadTypes == ASSUME ShellTypes, RunInv, ReadStep PROVE ShellTypes'
<1>1. CASE HandleReceivedInput
  <2>1. PICK l \in Lines :
          /\ l.kind # "command" /\ line' = l
          /\ CASE l.kind = "eof"    -> HandleEof
               [] l.kind = "empty"  -> Back(status)
               [] l.kind = "faulty" -> Back(2)
               [] OTHER             -> FtExit(l)
    BY <1>1 DEF HandleReceivedInput
  <2>2. UNCHANGED <<looked, typed, signals>>
    BY <1>1 DEF HandleReceivedInput
  <2>3. \/ pc' = "top" /\ ended' = ended /\ status' \in {1, 2, status}
        \/ /\ pc' = "ended" /\ status' = status
           /\ \E n \in 0..255 : ended' = <<"exit", n>>
    <3>1. CASE l.kind # "exit"
      <4>1. l.kind \in {"eof", "empty", "faulty", "exit_none", "exit_word", "exit_two"}
        BY <2>1, <3>1, LinesAssumption DEF CommandLines, NumberLines, OtherLines
      <4>2. \/ Leave(status) \/ Leave(2) \/ Back(status) \/ Back(2) \/ Back(1)
        BY <2>1, <4>1 DEF HandleEof, FtExit, HandleExitNoArg, HandleExitOneArg
      <4>3. status \in 0..255 /\ 2 \in 0..255
        BY DEF ShellTypes
      <4> QED
        BY <4>2, <4>3 DEF Leave, Back, End
    <3>2. CASE l.kind = "exit"
      <4>1. l.sign \in {1, -1} /\ l.digits \in Seq(0..9)
        BY <3>2, LinesAssumption DEF CommandLines, NumberLines, OtherLines
      <4>2. Leave(ExitValue(Atoi(l.sign, l.digits)))
        BY <2>1, <3>2 DEF FtExit, HandleExitOneArg
      <4>3. ExitValue(Atoi(l.sign, l.digits)) \in 0..255
        BY <4>1, ExitOfNumber
      <4> QED
        BY <4>2, <4>3 DEF Leave, End
    <3> QED
      BY <3>1, <3>2
  <2>4. status' \in 0..255
    <3>1. status \in 0..255 /\ status' \in {1, 2, status}
      BY <2>3 DEF ShellTypes
    <3> QED
      BY <3>1
  <2> QED
    BY <2>1, <2>2, <2>3, <2>4, Fates DEF ShellTypes
<1>2. CASE TypeCommand
  <2>1. /\ pc = "read" /\ pc' = "look" /\ line' \in Lines
        /\ UNCHANGED <<signals, status, looked, typed, ended>>
    BY <1>2 DEF TypeCommand
  <2>2. looked = 0
    BY <2>1 DEF RunInv, Lined
  <2> QED
    BY <2>1, <2>2 DEF ShellTypes
<1> QED
  BY <1>1, <1>2 DEF ReadStep

\* The shell's own steps keep the types: what it notes of a child is what the child
\* has ended with.
LEMMA ShellStepTypes ==
    ASSUME ShellTypes, ChildTypes, RunInv, ShellStep
    PROVE  ShellTypes' /\ ChildTypes'
<1>0. Nowhere \in Places \cup {Nowhere} /\ 0 \in 0..Len(Path)
  BY Directories
<1>1. CASE InitShell
  <2>1. /\ \/ pc' = "top" /\ ended' = ended
           \/ pc' = "ended" /\ ended' = <<"exit", 1>>
        /\ UNCHANGED <<childVars, histVars, signals, line, status, looked, typed>>
    BY <1>1 DEF InitShell, End
  <2>2. ChildTypes'
    BY <2>1 DEF ChildTypes, childVars, histVars
  <2>3. IsFate(<<"exit", 1>>)
    BY Fates
  <2>4. ShellTypes'
    BY <2>1, <2>3 DEF ShellTypes
  <2> QED
    BY <2>2, <2>4
<1>2. CASE NextPrompt
  <2>1. /\ pc' = "read" /\ line' = NoLine /\ looked' = 0 /\ typed' = "word" /\ signals' = 0
        /\ UNCHANGED <<status, ended>>
    BY <1>2 DEF NextPrompt
  <2>2. ShellTypes'
    BY <2>1, CodesAssumption DEF ShellTypes
  <2>3. /\ child' = "none" /\ tried' = 0 /\ path' = Nowhere /\ fate' = <<>> /\ ran' = Nowhere
        /\ always' = {} /\ ever' = {}
    BY <1>2 DEF NextPrompt
  <2> QED
    BY <1>0, <2>2, <2>3, Fates DEF ChildTypes
<1>3. CASE SearchList
  BY <1>3 DEF SearchList, shellVars, childVars, histVars, ShellTypes, ChildTypes
<1>4. CASE OverrunCrashes
  BY <1>4 DEF OverrunCrashes, End, childVars, histVars, ShellTypes, ChildTypes
<1>5. CASE ParserCmdNoFound
  <2>1. UNCHANGED <<childVars, histVars, signals, line, ended>> /\ looked' = looked + 1
        /\ typed' \in {"word", "cmd"}
        /\ \/ pc' = "look" /\ looked \in {0, 1} /\ status' = status
           \/ pc' \in {"fork", "top"} /\ status' \in {status, 127}
    BY <1>5 DEF ParserCmdNoFound, Parsed, CommandNotFound, ShellTypes
  <2>2. pc = "look" /\ looked \in 0..2
    BY <1>5 DEF ParserCmdNoFound, ShellTypes
  <2>3. looked' \in 0..3 /\ (pc' = "look" => looked' # 3) /\ status' \in 0..255
    <3>1. status \in 0..255
      BY DEF ShellTypes
    <3> QED
      BY <2>1, <2>2, <3>1
  <2>4. ChildTypes'
    BY <2>1 DEF ChildTypes, childVars, histVars
  <2> QED
    BY <2>1, <2>3, <2>4 DEF ShellTypes
<1>6. CASE Fork
  <2>1. /\ \/ child' = "born" /\ pc' = "forked" /\ status' = status
           \/ pc' = "top" /\ status' = 1 /\ child' = child
        /\ UNCHANGED <<histVars, signals, line, looked, typed, ended, tried, path, fate, ran>>
    BY <1>6 DEF Fork, Back
  <2>2. ChildTypes'
    BY <2>1 DEF ChildTypes, histVars
  <2>3. ShellTypes'
    BY <2>1 DEF ShellTypes
  <2> QED
    BY <2>2, <2>3
<1>7. CASE HandleParentSignals
  BY <1>7 DEF HandleParentSignals, childVars, histVars, ShellTypes, ChildTypes
<1>8. CASE ParentWaitExternal
  <2>1. /\ pc = "wait" /\ child = "zombie" /\ pc' = "top" /\ status' = ExitCode /\ child' = "none"
        /\ UNCHANGED <<histVars, signals, line, looked, typed, ended, tried, path, fate, ran>>
    BY <1>8 DEF ParentWaitExternal
  <2>2. fate # <<>>
    BY <2>1 DEF RunInv, Lined, Running
  <2>3. ExitCode \in 0..255
    <3>1. CASE fate \in {"exit"} \X (0..255)
      BY <3>1 DEF ExitCode
    <3>2. CASE fate \in {"signal"} \X Signals
      BY <3>2 DEF ExitCode, Signals, SIGINT, SIGQUIT
    <3> QED
      BY <2>2, <3>1, <3>2 DEF ChildTypes, IsFate
  <2> QED
    BY <2>1, <2>3 DEF ShellTypes, ChildTypes, histVars
<1> QED
  BY <1>1, <1>2, <1>3, <1>4, <1>5, <1>6, <1>7, <1>8 DEF ShellStep

\* Reading a line touches the child only through its history.
LEMMA ReadChildTypes == ASSUME ChildTypes, ReadStep PROVE ChildTypes'
<1>1. CASE HandleReceivedInput
  BY <1>1 DEF HandleReceivedInput, childVars, histVars, ChildTypes
<1>2. CASE TypeCommand
  <2>1. PICK l \in Lines : always' = Programs(l) /\ ever' = Programs(l)
    BY <1>2 DEF TypeCommand
  <2>2. Programs(l) \subseteq Places
    BY DEF Programs, PlacesOf, Places
  <2> QED
    BY <1>2, <2>1, <2>2 DEF TypeCommand, childVars, ChildTypes
<1> QED
  BY <1>1, <1>2 DEF ReadStep

\* The child's steps keep its types and leave the shell's alone.
LEMMA ChildStepTypes ==
    ASSUME ShellTypes, ChildTypes, ChildStep
    PROVE  ShellTypes' /\ ChildTypes'
<1>1. ChildOnly
  BY DEF ChildStep, ResetInterrupt, ResetQuit, DirectPath, CheckPathAccess, NoPath, Execve,
     CommandExits
<1>2. ShellTypes'
  BY <1>1 DEF ChildOnly, ShellTypes
<1> SUFFICES ChildTypes'
  BY <1>2
<1>3. always' \subseteq Places /\ ever' \subseteq Places
  BY <1>1 DEF ChildOnly, histVars, ChildTypes
<1>4. CASE ResetInterrupt \/ ResetQuit
  BY <1>3, <1>4 DEF ResetInterrupt, ResetQuit, ChildTypes
<1>5. CASE DirectPath
  <2>1. Here \in Places
    BY DEF Places
  <2> QED
    BY <1>3, <1>5, <2>1 DEF DirectPath, ChildTypes
<1>6. CASE CheckPathAccess
  <2>1. tried \in 0..Len(Path) /\ tried < Len(Path) /\ tried + 1 \in 0..Len(Path)
    BY <1>6, Directories DEF CheckPathAccess, ChildTypes
  <2>2. Path[tried + 1] \in Places
    BY <2>1, Directories DEF Places, Dirs
  <2>3. /\ \/ path' = Path[tried + 1] /\ child' = "exec" /\ tried' = tried
           \/ tried' = tried + 1 /\ path' = path /\ child' = child
        /\ UNCHANGED <<fate, ran>>
    BY <1>6 DEF CheckPathAccess
  <2> QED
    BY <1>3, <2>1, <2>2, <2>3 DEF ChildTypes
<1>7. CASE NoPath \/ CommandExits
  <2>1. PICK n \in 0..255 : fate' = <<"exit", n>>
    <3>1. CASE NoPath
      BY <3>1 DEF NoPath, Dies
    <3>2. CASE CommandExits
      BY <3>2, CodesAssumption DEF CommandExits, Dies
    <3> QED
      BY <1>7, <3>1, <3>2
  <2>2. child' = "zombie" /\ UNCHANGED <<tried, path, ran>>
    BY <1>7 DEF NoPath, CommandExits, Dies
  <2> QED
    BY <1>3, <2>1, <2>2, Fates DEF ChildTypes
<1>8. CASE Execve
  <2>1. \/ child' = "running" /\ ran' = path /\ fate' = fate
        \/ child' = "zombie" /\ fate' = <<"exit", 1>> /\ ran' = ran
        \/ child' = "zombie" /\ fate' = <<"exit", 126>> /\ ran' = ran
    BY <1>8 DEF Execve, Dies
  <2>2. UNCHANGED <<tried, path>>
    BY <1>8 DEF Execve
  <2>3. IsFate(<<"exit", 1>>) /\ IsFate(<<"exit", 126>>)
    BY Fates
  <2> QED
    BY <1>3, <2>1, <2>2, <2>3 DEF ChildTypes
<1> QED
  BY <1>4, <1>5, <1>6, <1>7, <1>8 DEF ChildStep

\* A signal ends what it ends by its number.
LEMMA PressTypes ==
    ASSUME ShellTypes, ChildTypes, NEW s \in Signals, Press(s)
    PROVE  ShellTypes' /\ ChildTypes'
<1>1. IsFate(<<"signal", s>>)
  BY Fates
<1>2. signals' \in 0..MaxSignals
  BY CodesAssumption DEF Press, ShellTypes
<1>3. /\ UNCHANGED <<line, status, looked, typed, tried, path, ran, histVars>>
      /\ \/ child' = child /\ fate' = fate
         \/ child' = "zombie" /\ fate' = <<"signal", s>>
      /\ \/ pc' = pc /\ ended' = ended
         \/ pc' = "ended" /\ ended' = <<"signal", s>>
  BY DEF Press, Dies, End
<1>4. ShellTypes'
  BY <1>1, <1>2, <1>3 DEF ShellTypes
<1>5. ChildTypes'
  BY <1>1, <1>3 DEF ChildTypes, histVars
<1> QED
  BY <1>4, <1>5

\* Every step keeps the types.
LEMMA NextTypes == RunInv /\ ShellTypes /\ ChildTypes /\ [Next]_vars => ShellTypes' /\ ChildTypes'
<1> SUFFICES ASSUME RunInv, ShellTypes, ChildTypes, [Next]_vars PROVE ShellTypes' /\ ChildTypes'
  OBVIOUS
<1>1. CASE ChangeFile
  <2>1. UNCHANGED <<shellVars, childVars, signals>>
    BY <1>1 DEF ChangeFile
  <2>2. always' \subseteq always /\ ever' \subseteq ever \cup Places
    BY <1>1 DEF ChangeFile, PlacesOf, Places
  <2> QED
    BY <2>1, <2>2 DEF ShellTypes, ChildTypes, shellVars, childVars
<1>2. CASE UNCHANGED vars
  BY <1>2 DEF ShellTypes, ChildTypes, vars, shellVars, childVars, histVars
<1> QED
  BY <1>1, <1>2, ShellStepTypes, ReadTypes, ReadChildTypes, ChildStepTypes, PressTypes DEF Next

\* What the shell, the lookup, the child and the history keep has its types.
THEOREM TypesAlways == Spec => []TypeOK
<1>1. Init => ShellTypes /\ ChildTypes
  <2>1. 0 \in 0..MaxSignals /\ 0 \in 0..Len(Path)
    BY CodesAssumption, Directories
  <2> QED
    BY <2>1, Fates DEF Init, ShellTypes, ChildTypes
<1>2. ListInv /\ SigInv /\ ShellTypes /\ ChildTypes => TypeOK
  BY DEF ListInv, SigInv, DispOK, ShellTypes, ChildTypes, TypeOK, IsFate
<1> QED
  BY <1>1, <1>2, NextTypes, RunInvariant, ListInvariant, SigInvariant, PTL DEF Spec
=============================================================================
