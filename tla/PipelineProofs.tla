--------------------------- MODULE PipelineProofs ---------------------------
(***************************************************************************)
(* Proofs about Pipeline, for every tree of pipes and commands, every      *)
(* capacity and any number of failing calls.  First about one process at a *)
(* time: the variables keep their types, and the shell comes back to its   *)
(* prompt with the descriptors it started with.  Then about the processes  *)
(* of a line together: who is forked, waited for and gone; which pipe ends *)
(* each holds; and the status that comes back.                             *)
(***************************************************************************)
EXTENDS Pipeline, TLAPS

USE DEF Stage, Command, Shell

\* The places of the shell while it owns both ends of a pipe.
Piping == {"fork left", "fork right", "close ends"}

\* The places of the shell while it may hold saved copies of its streams.
Saved == {"launch", "builtin", "wait command", "finish"}

ShellPlaces == Piping \cup Saved \cup
    {"exec", "wait left", "wait right", "wait orphan", "prompt"}

\* The shell never loses the terminal, its pipe ends are closed outside Piping
\* and its saved copies outside Saved.
Fits(there, table) ==
    /\ there \in ShellPlaces
    /\ table["in"] = Terminal
    /\ table["out"] = Terminal
    /\ there \notin Piping => table["p0"] = Closed /\ table["p1"] = Closed
    /\ \/ table["s0"] = Closed /\ table["s1"] = Closed
       \/ there \in Saved /\ table["s0"] = Terminal /\ table["s1"] = Terminal

ShellInv == Fits(pc[Shell], fd[Shell])

IInv == TypeOK /\ ShellInv

\* What the lemmas below show of pc and fd after a step.
Kept == /\ pc' \in [Proc -> PCs]
        /\ fd' \in [Proc -> [Slot -> File]]
        /\ ShellInv'

-----------------------------------------------------------------------------
\* Every process of the tree is a process, and no child is the shell.
LEMMA Processes ==
    /\ \A n \in Node : Stage(n) \in Proc
    /\ \A l \in Leaves : Command(l) \in Proc /\ Command(l) # Shell
    /\ \A n \in Pipes : /\ LeftOf[n] \in Node /\ Stage(LeftOf[n]) # Shell
                        /\ RightOf[n] \in Node /\ Stage(RightOf[n]) # Shell
                        /\ Stage(LeftOf[n]) # Stage(n)
                        /\ Stage(RightOf[n]) # Stage(n)
    /\ Shell \in Proc
  BY TreeAssumption DEF Proc, Node

\* What closing, taking an end, saving and restoring do to a table.
LEMMA Tables ==
  ASSUME NEW t \in [Slot -> File], NEW n \in Pipes
  PROVE  /\ ClosePipe(t) \in [Slot -> File]
         /\ TakeWriteEnd(t) \in [Slot -> File]
         /\ TakeReadEnd(t) \in [Slot -> File]
         /\ [t EXCEPT !["p0"] = ReadEnd(n), !["p1"] = WriteEnd(n)]
               \in [Slot -> File]
         /\ ClosePipe(t)["p0"] = Closed /\ ClosePipe(t)["p1"] = Closed
         /\ \A s \in {"in", "out", "s0", "s1"} :
               /\ ClosePipe(t)[s] = t[s]
               /\ [t EXCEPT !["p0"] = ReadEnd(n), !["p1"] = WriteEnd(n)][s] = t[s]
<1>1. Closed \in File /\ ReadEnd(n) \in File /\ WriteEnd(n) \in File
  BY DEF File, ReadEnd, WriteEnd
<1> QED
  BY <1>1 DEF ClosePipe, TakeWriteEnd, TakeReadEnd, Slot

\* save_original_fds keeps the streams, and restore_fds undoes exactly it.
LEMMA SavedTables ==
  ASSUME NEW t \in [Slot -> File]
  PROVE  /\ Save(t) \in [Slot -> File]
         /\ Restore(t) \in [Slot -> File]
         /\ AllClosed \in [Slot -> File]
<1>1. Closed \in File
  BY DEF File
<1> QED
  BY <1>1 DEF Save, Restore, AllClosed, Slot

-----------------------------------------------------------------------------
(***************************************************************************)
(* Each kind of step, seen once for every action that takes it.            *)
(***************************************************************************)
\* A process moves on; if it is the shell, its new table fits its new place.
LEMMA MoveKeeps ==
  ASSUME IInv, NEW p \in Proc, NEW there \in PCs, NEW table \in [Slot -> File],
         Move(p, there, table), p = Shell => Fits(there, table)
  PROVE  Kept
<1>1. Shell \in Proc
  BY Processes
<1>2. pc' \in [Proc -> PCs] /\ fd' \in [Proc -> [Slot -> File]]
  BY DEF IInv, TypeOK, Move
<1>3. IF p = Shell THEN pc'[Shell] = there /\ fd'[Shell] = table
                   ELSE pc'[Shell] = pc[Shell] /\ fd'[Shell] = fd[Shell]
  BY <1>1 DEF IInv, TypeOK, Move
<1> QED
  BY <1>2, <1>3 DEF IInv, ShellInv, Kept

\* A function that fails returns 1 with the pipe closed.
LEMMA ReturnKeeps ==
  ASSUME IInv, NEW p \in Proc, NEW table \in [Slot -> File],
         ReturnFailure(p, table), p = Shell => Fits("finish", table)
  PROVE  Kept /\ code' \in [Proc -> Codes]
<1>1. "finish" \in PCs /\ EXIT_FAILURE \in Codes
  BY DEF PCs, Codes
<1>2. Kept
  BY <1>1, MoveKeeps DEF ReturnFailure
<1> QED
  BY <1>1, <1>2 DEF ReturnFailure, IInv, TypeOK

\* A process that exits is not the shell.
LEMMA ExitKeeps ==
  ASSUME IInv, NEW p \in Proc, p # Shell, NEW c \in Codes, Exit(p, c)
  PROVE  Kept /\ code' \in [Proc -> Codes]
<1>1. "zombie" \in PCs /\ AllClosed \in [Slot -> File]
  BY DEF PCs, AllClosed, File
<1>2. Kept
  BY <1>1, MoveKeeps DEF Exit
<1> QED
  BY <1>2 DEF Exit, IInv, TypeOK

\* A fork touches the descriptors of the child only, and the child is not the
\* shell.
LEMMA ForkKeeps ==
  ASSUME IInv, NEW p \in Proc, NEW child \in Proc, child # Shell, child # p,
         NEW there \in PCs, NEW start \in PCs, Fork(p, there, child, start),
         p = Shell => Fits(there, fd[p])
  PROVE  Kept /\ code' \in [Proc -> Codes]
<1>1. Shell \in Proc
  BY Processes
<1>2. /\ pc' \in [Proc -> PCs] /\ fd' \in [Proc -> [Slot -> File]]
      /\ code' \in [Proc -> Codes]
  BY DEF IInv, TypeOK, Fork
<1>3. /\ fd'[Shell] = fd[Shell]
      /\ pc'[Shell] = IF p = Shell THEN there ELSE pc[Shell]
  BY <1>1 DEF IInv, TypeOK, Fork
<1>4. Fits(pc'[Shell], fd'[Shell])
  <2>1. CASE p = Shell
    BY <1>3, <2>1
  <2>2. CASE p # Shell
    BY <1>3, <2>2 DEF IInv, ShellInv
  <2> QED
    BY <2>1, <2>2
<1> QED
  BY <1>2, <1>4 DEF ShellInv, Kept

\* A waitpid changes no descriptor, and the child it reaps is not the shell.
LEMMA ReapKeeps ==
  ASSUME IInv, NEW p \in Proc, NEW child \in Proc, child # Shell, child # p,
         NEW here, NEW there \in PCs, Reap(p, here, child, there),
         p = Shell => Fits(there, fd[p])
  PROVE  Kept
<1>1. Shell \in Proc /\ "reaped" \in PCs
  BY Processes DEF PCs
<1>2. pc' \in [Proc -> PCs] /\ fd' = fd
  BY <1>1 DEF IInv, TypeOK, Reap
<1>3. pc'[Shell] = IF p = Shell THEN there ELSE pc[Shell]
  BY <1>1 DEF IInv, TypeOK, Reap
<1> QED
  BY <1>2, <1>3 DEF IInv, TypeOK, ShellInv, Kept

\* A call that fails is counted, within the bound.
LEMMA FailsBounded ==
  ASSUME TypeOK, UNCHANGED fails \/ (fails < MaxFail /\ fails' = fails + 1)
  PROVE  fails' \in 0..MaxFail
  BY NumberAssumption DEF TypeOK

\* A status is stored for one process.
LEMMA CodeStored ==
  ASSUME TypeOK, NEW p \in Proc, NEW c \in Codes
  PROVE  [code EXCEPT ![p] = c] \in [Proc -> Codes]
  BY DEF TypeOK

-----------------------------------------------------------------------------
(***************************************************************************)
(* The actions of the pipe nodes.                                          *)
(***************************************************************************)
\* Every call of execute_pipe_command keeps the invariant, whether it succeeds
\* or fails.
LEMMA PipeStepKeeps ==
  ASSUME IInv, NEW n \in Pipes, PipeStep(n)
  PROVE  IInv'
<1> DEFINE p == Stage(n)
           l == Stage(LeftOf[n])
           r == Stage(RightOf[n])
           both == [fd[p] EXCEPT !["p0"] = ReadEnd(n), !["p1"] = WriteEnd(n)]
<1>1. /\ p \in Proc /\ l \in Proc /\ r \in Proc
      /\ l # Shell /\ r # Shell /\ l # p /\ r # p
  BY Processes DEF Node
<1>2. /\ fd[p] \in [Slot -> File] /\ TypeOK /\ ShellInv
      /\ code[l] \in Codes /\ code[r] \in Codes
  BY <1>1 DEF IInv, TypeOK
<1>3. /\ ClosePipe(fd[p]) \in [Slot -> File] /\ both \in [Slot -> File]
      /\ ClosePipe(fd[p])["p0"] = Closed /\ ClosePipe(fd[p])["p1"] = Closed
      /\ \A s \in {"in", "out", "s0", "s1"} :
             ClosePipe(fd[p])[s] = fd[p][s] /\ both[s] = fd[p][s]
  BY <1>2, Tables
<1>4. ASSUME p = Shell, pc[p] \notin Saved
      PROVE  /\ \A s \in {"in", "out"} : fd[p][s] = Terminal
             /\ \A s \in {"s0", "s1"} : fd[p][s] = Closed
  BY <1>2, <1>4 DEF ShellInv, Fits
<1>5. ASSUME NEW there \in ShellPlaces, p = Shell, pc[p] \notin Saved
      PROVE  /\ Fits(there, ClosePipe(fd[p]))
             /\ there \in Piping => Fits(there, both) /\ Fits(there, fd[p])
             /\ pc[p] \notin Piping => Fits(there, fd[p])
  BY <1>2, <1>3, <1>4, <1>5 DEF ShellInv, Fits
<1>6. SUFFICES /\ Kept /\ code' \in [Proc -> Codes]
               /\ buf' \in [Pipes -> 0..Cap]
               /\ UNCHANGED <<work, todo, held>>
               /\ UNCHANGED fails \/ (fails < MaxFail /\ fails' = fails + 1)
  BY <1>2, FailsBounded DEF IInv, TypeOK, Kept
<1>7. UNCHANGED buf => buf' \in [Pipes -> 0..Cap]
  BY <1>2 DEF TypeOK
<1>8. UNCHANGED code => code' \in [Proc -> Codes]
  BY <1>2 DEF TypeOK
<1>9. {"fork left", "fork right", "close ends", "wait left", "wait right",
       "wait orphan", "finish"} \subseteq PCs \cap ShellPlaces
  BY DEF PCs, ShellPlaces, Piping, Saved
<1> HIDE DEF p, l, r, both
<1>10. CASE SetupPipes(n)
  <2>1. pc[p] = "exec" /\ "exec" \notin Saved /\ "exec" \notin Piping
    BY <1>10 DEF SetupPipes, p, Saved, Piping
  <2>2. CASE /\ Move(p, "fork left", both) /\ UNCHANGED <<code, fails>>
             /\ buf' = [buf EXCEPT ![n] = 0]
    <3>1. 0 \in 0..Cap
      BY NumberAssumption
    <3>2. buf' \in [Pipes -> 0..Cap]
      BY <1>2, <2>2, <3>1 DEF TypeOK
    <3>3. p = Shell => Fits("fork left", both)
      BY <1>5, <1>9, <2>1 DEF Piping
    <3>4. Kept
      BY <1>1, <1>3, <1>9, <2>2, <3>3, MoveKeeps
    <3> QED
      BY <1>8, <1>10, <2>2, <3>2, <3>4 DEF SetupPipes
  <2>3. CASE /\ ReturnFailure(p, fd[p]) /\ UNCHANGED buf
             /\ fails < MaxFail /\ fails' = fails + 1
    <3>1. p = Shell => Fits("finish", fd[p])
      BY <1>5, <1>9, <2>1
    <3> QED
      BY <1>1, <1>2, <1>7, <1>10, <2>3, <3>1, ReturnKeeps DEF SetupPipes
  <2> QED
    BY <1>10, <2>2, <2>3 DEF SetupPipes, Attempt, p, both
<1>11. CASE ForkLeftChecked(n)
  <2>1. pc[p] = "fork left" /\ "fork left" \notin Saved /\ UNCHANGED Streams
    BY <1>11 DEF ForkLeftChecked, p, Saved
  <2>2. CASE Fork(p, "fork right", l, "left setup") /\ UNCHANGED fails
    <3>1. p = Shell => Fits("fork right", fd[p])
      BY <1>5, <1>9, <2>1 DEF Piping
    <3>2. "left setup" \in PCs
      BY DEF PCs
    <3>3. Kept /\ code' \in [Proc -> Codes]
      BY <1>1, <1>9, <2>2, <3>1, <3>2, ForkKeeps
    <3> QED
      BY <1>7, <2>1, <2>2, <3>3 DEF Streams
  <2>3. CASE /\ ReturnFailure(p, ClosePipe(fd[p]))
             /\ fails < MaxFail /\ fails' = fails + 1
    <3>1. p = Shell => Fits("finish", ClosePipe(fd[p]))
      BY <1>5, <1>9, <2>1
    <3> QED
      BY <1>1, <1>3, <1>7, <2>1, <2>3, <3>1, ReturnKeeps DEF Streams
  <2> QED
    BY <1>11, <2>2, <2>3 DEF ForkLeftChecked, Attempt, p, l
<1>12. CASE ForkRightChecked(n)
  <2>1. pc[p] = "fork right" /\ "fork right" \notin Saved /\ UNCHANGED Streams
    BY <1>12 DEF ForkRightChecked, p, Saved
  <2>2. CASE Fork(p, "close ends", r, "right setup") /\ UNCHANGED fails
    <3>1. p = Shell => Fits("close ends", fd[p])
      BY <1>5, <1>9, <2>1 DEF Piping
    <3>2. "right setup" \in PCs
      BY DEF PCs
    <3>3. Kept /\ code' \in [Proc -> Codes]
      BY <1>1, <1>9, <2>2, <3>1, <3>2, ForkKeeps
    <3> QED
      BY <1>7, <2>1, <2>2, <3>3 DEF Streams
  <2>3. CASE /\ Move(p, "wait orphan", ClosePipe(fd[p])) /\ UNCHANGED code
             /\ fails < MaxFail /\ fails' = fails + 1
    <3>1. p = Shell => Fits("wait orphan", ClosePipe(fd[p]))
      BY <1>5, <1>9, <2>1
    <3>2. Kept
      BY <1>1, <1>3, <1>9, <2>3, <3>1, MoveKeeps
    <3> QED
      BY <1>7, <1>8, <2>1, <2>3, <3>2 DEF Streams
  <2> QED
    BY <1>12, <2>2, <2>3 DEF ForkRightChecked, Attempt, p, r
<1>13. CASE CloseEnds(n)
  <2>1. /\ pc[p] = "close ends" /\ "close ends" \notin Saved
        /\ Move(p, "wait left", ClosePipe(fd[p]))
        /\ UNCHANGED <<code, fails, Streams>>
    BY <1>13 DEF CloseEnds, p, Saved
  <2>2. p = Shell => Fits("wait left", ClosePipe(fd[p]))
    BY <1>5, <1>9, <2>1
  <2>3. Kept
    BY <1>1, <1>3, <1>9, <2>1, <2>2, MoveKeeps
  <2> QED
    BY <1>7, <1>8, <2>1, <2>3 DEF Streams
<1>14. CASE WaitOrphan(n)
  <2>1. /\ Reap(p, "wait orphan", l, "finish")
        /\ code' = [code EXCEPT ![p] = EXIT_FAILURE]
    BY <1>14 DEF WaitOrphan, p, l
  <2>2. pc[p] = "wait orphan" /\ UNCHANGED <<fails, Streams>>
    BY <2>1 DEF Reap
  <2>3. p = Shell => Fits("finish", fd[p])
    BY <1>5, <1>9, <2>2 DEF Saved, Piping
  <2>4. Kept
    BY <1>1, <1>9, <2>1, <2>3, ReapKeeps
  <2>5. code' \in [Proc -> Codes]
    BY <1>1, <1>2, <2>1, CodeStored DEF Codes
  <2> QED
    BY <1>7, <2>2, <2>4, <2>5 DEF Streams
<1>15. CASE WaitLeft(n)
  <2>1. Reap(p, "wait left", l, "wait right") /\ UNCHANGED code
    BY <1>15 DEF WaitLeft, p, l
  <2>2. pc[p] = "wait left" /\ UNCHANGED <<fails, Streams>>
    BY <2>1 DEF Reap
  <2>3. p = Shell => Fits("wait right", fd[p])
    BY <1>5, <1>9, <2>2 DEF Saved, Piping
  <2>4. Kept
    BY <1>1, <1>9, <2>1, <2>3, ReapKeeps
  <2> QED
    BY <1>7, <1>8, <2>1, <2>2, <2>4 DEF Streams
<1>16. CASE WaitRight(n)
  <2>1. /\ Reap(p, "wait right", r, "finish")
        /\ code' = [code EXCEPT ![p] = code[r]]
    BY <1>16 DEF WaitRight, ExitCode, p, r
  <2>2. pc[p] = "wait right" /\ UNCHANGED <<fails, Streams>>
    BY <2>1 DEF Reap
  <2>3. p = Shell => Fits("finish", fd[p])
    BY <1>5, <1>9, <2>2 DEF Saved, Piping
  <2>4. Kept
    BY <1>1, <1>9, <2>1, <2>3, ReapKeeps
  <2>5. code' \in [Proc -> Codes]
    BY <1>1, <1>2, <2>1, CodeStored
  <2> QED
    BY <1>7, <2>2, <2>4, <2>5 DEF Streams
<1> QED
  BY <1>10, <1>11, <1>12, <1>13, <1>14, <1>15, <1>16 DEF PipeStep

-----------------------------------------------------------------------------
(***************************************************************************)
(* The start and the end of a node, and the leaves.                        *)
(***************************************************************************)
\* So do left_child, right_child and the end of a node.
LEMMA NodeStepKeeps ==
  ASSUME IInv, NEW n \in Node, NodeStep(n)
  PROVE  IInv'
<1> DEFINE p == Stage(n)
<1>1. p \in Proc
  BY Processes
<1>2. fd[p] \in [Slot -> File] /\ code[p] \in Codes /\ TypeOK /\ ShellInv
  BY <1>1 DEF IInv, TypeOK
<1>3. SUFFICES /\ Kept /\ code' \in [Proc -> Codes] /\ UNCHANGED Streams
               /\ UNCHANGED fails \/ (fails < MaxFail /\ fails' = fails + 1)
  BY <1>2, FailsBounded DEF IInv, TypeOK, Kept, Streams
<1>4. {"exec", "prompt"} \subseteq PCs \cap ShellPlaces /\ EXIT_FAILURE \in Codes
  BY DEF PCs, ShellPlaces, Codes
<1>5. ASSUME NEW here, NEW table \in [Slot -> File], here \notin ShellPlaces,
             ChildStarts(p, here, table)
      PROVE  /\ Kept /\ code' \in [Proc -> Codes] /\ UNCHANGED Streams
             /\ UNCHANGED fails \/ (fails < MaxFail /\ fails' = fails + 1)
  <2>1. p # Shell
    BY <1>2, <1>5 DEF ChildStarts, ShellInv, Fits
  <2>2. UNCHANGED Streams
    BY <1>5 DEF ChildStarts
  <2>3. CASE Move(p, "exec", table) /\ UNCHANGED <<code, fails>>
    <3>1. Kept
      BY <1>1, <1>4, <1>5, <2>1, <2>3, MoveKeeps
    <3> QED
      BY <1>2, <2>2, <2>3, <3>1 DEF TypeOK
  <2>4. CASE Exit(p, EXIT_FAILURE) /\ fails < MaxFail /\ fails' = fails + 1
    BY <1>1, <1>4, <2>1, <2>2, <2>4, ExitKeeps
  <2> QED
    BY <1>5, <2>3, <2>4 DEF ChildStarts, Attempt
<1>6. /\ TakeWriteEnd(fd[p]) \in [Slot -> File]
      /\ TakeReadEnd(fd[p]) \in [Slot -> File]
      /\ Restore(fd[p]) \in [Slot -> File]
  BY <1>2, SavedTables DEF TakeWriteEnd, TakeReadEnd, ClosePipe, Slot, File
<1>7. CASE LeftChild(n)
  BY <1>5, <1>6, <1>7 DEF LeftChild, ShellPlaces, Piping, Saved
<1>8. CASE RightChild(n)
  BY <1>5, <1>6, <1>8 DEF RightChild, ShellPlaces, Piping, Saved
<1>9. CASE Finish(n)
  <2>1. pc[p] = "finish" /\ UNCHANGED <<fails, Streams>>
    BY <1>9 DEF Finish
  <2>2. CASE p = Shell
    <3>1. Move(p, "prompt", Restore(fd[p])) /\ UNCHANGED code
      BY <1>9, <2>2 DEF Finish
    <3>2. Fits("prompt", Restore(fd[p]))
      BY <1>2, <1>4, <2>1, <2>2 DEF ShellInv, Fits, Restore, Piping, Slot, Closed,
         Terminal
    <3>3. Kept
      BY <1>1, <1>4, <1>6, <3>1, <3>2, MoveKeeps
    <3> QED
      BY <1>2, <2>1, <3>1, <3>3 DEF TypeOK
  <2>3. CASE p # Shell
    <3>1. Exit(p, code[p])
      BY <1>9, <2>3 DEF Finish
    <3> QED
      BY <1>1, <1>2, <2>1, <2>3, <3>1, ExitKeeps
  <2> QED
    BY <2>2, <2>3
<1> QED
  BY <1>7, <1>8, <1>9 DEF NodeStep

\* How a command may end is a status.
LEMMA Outcomes ==
  ASSUME TypeOK, NEW l \in Leaves
  PROVE  Outcome(l) \subseteq Codes
  BY DEF Outcome, Codes

\* A process writes to the terminal, to a pipe, or is killed; the shell has the
\* terminal as its output.
LEMMA WriteNextKeeps ==
  ASSUME IInv, NEW p \in Proc, NEW l \in Leaves, WriteNext(p, l)
  PROVE  /\ Kept /\ code' \in [Proc -> Codes] /\ buf' \in [Pipes -> 0..Cap]
         /\ todo' \in [Leaves -> 0..Items] /\ UNCHANGED held
<1> DEFINE next == [todo EXCEPT ![l] = IF work[l] = "yes" THEN @ ELSE @ - 1]
           Written == todo' = next /\ UNCHANGED held
<1>1. todo[l] \in 0..Items /\ todo[l] > 0
  BY DEF IInv, TypeOK, WriteNext
<1>2. next \in [Leaves -> 0..Items]
  <2>1. \A i \in 0..Items : i > 0 => i - 1 \in 0..Items
    BY NumberAssumption
  <2> QED
    BY <1>1, <2>1 DEF IInv, TypeOK
<1>3. Shell \in Proc /\ SigPipe \in Codes
  BY Processes DEF Codes
<1>4. CASE UNCHANGED <<pc, fd, code, buf>> /\ Written
  BY <1>2, <1>4 DEF IInv, TypeOK, Kept, ShellInv
<1>5. ASSUME NEW n \in Pipes, fd[p]["out"] = WriteEnd(n),
             IF HasReader(n)
             THEN /\ buf[n] < Cap /\ buf' = [buf EXCEPT ![n] = @ + 1]
                  /\ Written
                  /\ UNCHANGED <<pc, fd, code>>
             ELSE Exit(p, SigPipe) /\ UNCHANGED <<todo, held, buf>>
      PROVE  /\ Kept /\ code' \in [Proc -> Codes] /\ buf' \in [Pipes -> 0..Cap]
             /\ todo' \in [Leaves -> 0..Items] /\ UNCHANGED held
  <2>1. CASE HasReader(n)
    <3>1. buf[n] + 1 \in 0..Cap
      BY <1>5, <2>1, NumberAssumption DEF IInv, TypeOK
    <3>2. buf' \in [Pipes -> 0..Cap]
      BY <1>5, <2>1, <3>1 DEF IInv, TypeOK
    <3> QED
      BY <1>2, <1>5, <2>1, <3>2 DEF IInv, TypeOK, Kept, ShellInv
  <2>2. CASE ~HasReader(n)
    <3>1. fd[Shell]["out"] = Terminal /\ Terminal # WriteEnd(n)
      BY DEF IInv, ShellInv, Fits, Terminal, WriteEnd
    <3>2. p # Shell
      BY <1>5, <3>1
    <3> QED
      BY <1>3, <1>5, <2>2, <3>2, ExitKeeps DEF IInv, TypeOK
  <2> QED
    BY <2>1, <2>2
<1> QED
  BY <1>4, <1>5 DEF WriteNext, Write

\* So does every step of handle_command_execution, builtins included.
LEMMA LeafStepKeeps ==
  ASSUME IInv, NEW l \in Leaves, LeafStep(l)
  PROVE  IInv'
<1> DEFINE p == Stage(l)
           c == Command(l)
<1>1. p \in Proc /\ c \in Proc /\ c # Shell /\ c # p
  BY Processes DEF Node
<1>2. /\ fd[p] \in [Slot -> File] /\ code[c] \in Codes
      /\ TypeOK /\ ShellInv
  BY <1>1 DEF IInv, TypeOK
<1>3. SUFFICES /\ Kept /\ code' \in [Proc -> Codes]
               /\ buf' \in [Pipes -> 0..Cap] /\ todo' \in [Leaves -> 0..Items]
               /\ UNCHANGED <<work, held>>
               /\ UNCHANGED fails \/ (fails < MaxFail /\ fails' = fails + 1)
  BY <1>2, FailsBounded DEF IInv, TypeOK, Kept
<1>4. UNCHANGED Streams => /\ UNCHANGED <<work, held>>
                           /\ buf' \in [Pipes -> 0..Cap]
                           /\ todo' \in [Leaves -> 0..Items]
  BY <1>2 DEF TypeOK, Streams
<1>5. UNCHANGED code => code' \in [Proc -> Codes]
  BY <1>2 DEF TypeOK
<1>6. /\ {"launch", "builtin", "wait command", "finish"} \subseteq PCs \cap Saved
      /\ Saved \subseteq ShellPlaces
      /\ Saved \cap Piping = {} /\ "exec" \notin Piping
      /\ EXIT_FAILURE \in Codes /\ NotFound \in Codes
  BY DEF PCs, Saved, Piping, ShellPlaces, Codes
<1>7. ASSUME p = Shell, pc[p] \notin Piping, NEW there \in Saved
      PROVE  Fits(there, fd[p])
  BY <1>2, <1>6, <1>7 DEF ShellInv, Fits
<1> HIDE DEF p, c
<1>8. CASE SaveFds(l)
  <2> DEFINE there == IF work[l] = "builtin" THEN "builtin" ELSE "launch"
  <2>1. pc[p] = "exec" /\ UNCHANGED Streams
    BY <1>8 DEF SaveFds, p
  <2>2. there \in PCs \cap Saved /\ Save(fd[p]) \in [Slot -> File]
    BY <1>2, <1>6, SavedTables
  <2>3. CASE Move(p, there, Save(fd[p])) /\ UNCHANGED <<code, fails>>
    <3>1. p = Shell => Fits(there, Save(fd[p]))
      BY <1>2, <1>6, <2>1, <2>2 DEF ShellInv, Fits, Save, Slot
    <3>2. Kept
      BY <1>1, <2>2, <2>3, <3>1, MoveKeeps
    <3> QED
      BY <1>4, <1>5, <2>1, <2>3, <3>2
  <2>4. CASE ReturnFailure(p, fd[p]) /\ fails < MaxFail /\ fails' = fails + 1
    BY <1>1, <1>2, <1>4, <1>6, <1>7, <2>1, <2>4, ReturnKeeps
  <2> QED
    BY <1>8, <2>3, <2>4 DEF SaveFds, Attempt, p
<1>9. CASE WordToken(l)
  <2>1. /\ pc[p] = "exec" /\ Move(p, "finish", fd[p])
        /\ code' = [code EXCEPT ![p] = NotFound] /\ UNCHANGED <<fails, Streams>>
    BY <1>9 DEF WordToken, p
  <2>2. Kept
    BY <1>1, <1>2, <1>6, <1>7, <2>1, MoveKeeps
  <2> QED
    BY <1>1, <1>2, <1>4, <1>6, <2>1, <2>2, CodeStored
<1>10. CASE ForkCommand(l)
  <2>1. pc[p] = "launch" /\ UNCHANGED Streams
    BY <1>10 DEF ForkCommand, p
  <2>2. pc[p] \notin Piping /\ "setup" \in PCs
    BY <1>6, <2>1 DEF PCs
  <2>3. CASE Fork(p, "wait command", c, "setup") /\ UNCHANGED fails
    BY <1>1, <1>4, <1>6, <1>7, <2>1, <2>2, <2>3, ForkKeeps
  <2>4. CASE ReturnFailure(p, fd[p]) /\ fails < MaxFail /\ fails' = fails + 1
    BY <1>1, <1>2, <1>4, <1>6, <1>7, <2>1, <2>2, <2>4, ReturnKeeps
  <2> QED
    BY <1>10, <2>3, <2>4 DEF ForkCommand, Attempt, p, c
<1>11. CASE WaitCommand(l)
  <2>1. /\ Reap(p, "wait command", c, "finish")
        /\ code' = [code EXCEPT ![p] = code[c]]
    BY <1>11 DEF WaitCommand, p, c
  <2>2. pc[p] = "wait command" /\ UNCHANGED <<fails, Streams>>
    BY <2>1 DEF Reap
  <2>3. Kept
    BY <1>1, <1>6, <1>7, <2>1, <2>2, ReapKeeps
  <2> QED
    BY <1>1, <1>2, <1>4, <2>1, <2>2, <2>3, CodeStored
<1>12. CASE Builtin(l)
  <2>1. pc[p] = "builtin" /\ UNCHANGED <<work, fails>>
    BY <1>12 DEF Builtin, p
  <2>2. CASE WriteNext(p, l)
    BY <1>1, <2>1, <2>2, WriteNextKeeps
  <2>3. CASE Move(p, "finish", fd[p]) /\ UNCHANGED <<code, todo, held, buf>>
    <3>1. Kept
      BY <1>1, <1>2, <1>6, <1>7, <2>1, <2>3, MoveKeeps
    <3> QED
      BY <1>2, <1>5, <2>1, <2>3, <3>1 DEF TypeOK
  <2> QED
    BY <1>12, <2>2, <2>3 DEF Builtin, p
<1> QED
  BY <1>8, <1>9, <1>10, <1>11, <1>12 DEF LeafStep

\* So does every step of an external command.
LEMMA CommandStepKeeps ==
  ASSUME IInv, NEW l \in Leaves, CommandStep(l)
  PROVE  IInv'
<1> DEFINE p == Command(l)
<1>1. p \in Proc /\ p # Shell /\ Shell \in Proc
  BY Processes
<1>2. fd[p] \in [Slot -> File] /\ TypeOK /\ Outcome(l) \subseteq Codes
  BY <1>1, Outcomes DEF IInv, TypeOK
<1>3. SUFFICES /\ Kept /\ code' \in [Proc -> Codes]
               /\ buf' \in [Pipes -> 0..Cap] /\ todo' \in [Leaves -> 0..Items]
               /\ held' \in [Leaves -> BOOLEAN] /\ UNCHANGED <<work, fails>>
  BY <1>2 DEF IInv, TypeOK, Kept
<1>4. UNCHANGED Streams => /\ UNCHANGED work /\ held' \in [Leaves -> BOOLEAN]
                           /\ buf' \in [Pipes -> 0..Cap]
                           /\ todo' \in [Leaves -> 0..Items]
  BY <1>2 DEF TypeOK, Streams
<1>5. UNCHANGED <<pc, fd, code>> => Kept /\ code' \in [Proc -> Codes]
  BY <1>2 DEF IInv, TypeOK, Kept, ShellInv
<1> HIDE DEF p
<1>6. CASE ChildExecExternal(l)
  <2>1. UNCHANGED <<fails, Streams>>
    BY <1>6 DEF ChildExecExternal
  <2>2. CASE \E c \in Outcome(l) : Exit(p, c)
    BY <1>1, <1>2, <1>4, <2>1, <2>2, ExitKeeps
  <2>3. CASE Move(p, "run", fd[p]) /\ UNCHANGED code
    <3>1. "run" \in PCs
      BY DEF PCs
    <3>2. Kept
      BY <1>1, <1>2, <2>3, <3>1, MoveKeeps
    <3> QED
      BY <1>2, <1>4, <2>1, <2>3, <3>2 DEF TypeOK
  <2> QED
    BY <1>6, <2>2, <2>3 DEF ChildExecExternal, p
<1>7. CASE CommandWrites(l)
  <2>1. UNCHANGED <<work, fails>>
    BY <1>7 DEF CommandWrites
  <2>2. CASE WriteNext(p, l)
    BY <1>1, <1>2, <2>1, <2>2, WriteNextKeeps DEF TypeOK
  <2>3. CASE Write(p, held' = [held EXCEPT ![l] = FALSE] /\ UNCHANGED todo)
    <3>1. SigPipe \in Codes
      BY DEF Codes
    <3>2. \A n \in Pipes : buf[n] < Cap => buf[n] + 1 \in 0..Cap
      BY <1>2, NumberAssumption DEF TypeOK
    <3>3. \A n \in Pipes : buf[n] < Cap =>
             [buf EXCEPT ![n] = @ + 1] \in [Pipes -> 0..Cap]
      BY <1>2, <3>2 DEF TypeOK
    <3>4. /\ todo' \in [Leaves -> 0..Items] /\ held' \in [Leaves -> BOOLEAN]
          /\ buf' \in [Pipes -> 0..Cap]
      BY <1>2, <2>3, <3>3 DEF TypeOK, Write
    <3>5. UNCHANGED <<pc, fd, code>> \/ Exit(p, SigPipe)
      BY <2>3 DEF Write
    <3> QED
      BY <1>1, <1>5, <2>1, <3>1, <3>4, <3>5, ExitKeeps
  <2> QED
    BY <1>7, <2>2, <2>3 DEF CommandWrites, p
<1>8. CASE CommandReads(l)
  <2>1. \A n \in Pipes : buf[n] > 0 => buf[n] - 1 \in 0..Cap
    BY <1>2, NumberAssumption DEF TypeOK
  <2>2. buf' \in [Pipes -> 0..Cap] /\ held' \in [Leaves -> BOOLEAN]
    BY <1>2, <1>8, <2>1 DEF CommandReads, TypeOK
  <2> QED
    BY <1>2, <1>5, <1>8, <2>2 DEF CommandReads, TypeOK
<1>9. CASE CommandExits(l)
  BY <1>1, <1>2, <1>4, <1>9, ExitKeeps DEF CommandExits, p
<1> QED
  BY <1>6, <1>7, <1>8, <1>9 DEF CommandStep

\* A new line starts from the descriptors the last one left.
LEMMA NextLineKeeps ==
  ASSUME IInv, NextLine
  PROVE  IInv'
<1>1. /\ Shell \in Proc /\ TypeOK /\ ShellInv /\ pc[Shell] = "prompt"
      /\ {"exec", "none"} \subseteq PCs /\ "exec" \in ShellPlaces
      /\ 0 \in Codes /\ 0 \in 0..MaxFail /\ Items \in 0..Items
  BY Processes, NumberAssumption DEF IInv, NextLine, AtPrompt, PCs, Codes, ShellPlaces
<1>2. TypeOK'
  BY <1>1, NumberAssumption DEF TypeOK, NextLine
<1>3. ShellInv'
  BY <1>1 DEF ShellInv, Fits, NextLine, TypeOK, Saved, Piping
<1> QED
  BY <1>2, <1>3 DEF IInv

\* The shell starts a line with the invariant.
LEMMA InitInv == Init => IInv
<1> SUFFICES ASSUME Init PROVE IInv
  OBVIOUS
<1>1. /\ Shell \in Proc /\ {"exec", "none"} \subseteq PCs
      /\ 0 \in Codes /\ 0 \in 0..MaxFail /\ 0 \in 0..Cap /\ Items \in 0..Items
  BY Processes, NumberAssumption DEF PCs, Codes
<1>2. AtStart \in [Slot -> File] /\ AllClosed \in [Slot -> File]
  BY DEF AtStart, AllClosed, File
<1>3. TypeOK
  BY <1>1, <1>2, NumberAssumption DEF Init, TypeOK
<1>4. ShellInv
  BY <1>1 DEF Init, ShellInv, Fits, ShellPlaces, Piping, AtStart, AllClosed, Slot
<1> QED
  BY <1>3, <1>4 DEF IInv

\* Every step keeps it.
LEMMA StepInv == IInv /\ [Next]_vars => IInv'
<1> SUFFICES ASSUME IInv, [Next]_vars PROVE IInv'
  OBVIOUS
<1>1. CASE UNCHANGED vars
  BY <1>1 DEF vars, IInv, TypeOK, ShellInv
<1>2. CASE Next
  BY <1>2, PipeStepKeeps, LeafStepKeeps, CommandStepKeeps, NodeStepKeeps,
     NextLineKeeps DEF Next
<1> QED
  BY <1>1, <1>2

-----------------------------------------------------------------------------
\* The inductive invariant: the types, and at each place of execute_ast the
\* exact set of descriptors the shell may hold there.
THEOREM Invariance == Spec => []IInv
  BY InitInv, StepInv, PTL DEF Spec

\* For every tree, every capacity and every sequence of failing calls, the
\* variables keep their types.
THEOREM TypeCorrect == Spec => []TypeOK
<1>1. IInv => TypeOK
  BY DEF IInv
<1> QED
  BY <1>1, Invariance, PTL

\* Every path of execute_pipe_command and handle_command_execution, whatever
\* fails on it, gives the shell back exactly the descriptors it started with.
THEOREM PromptRestoredAlways == Spec => []PromptRestored
<1>1. IInv => PromptRestored
  <2> SUFFICES ASSUME IInv, AtPrompt PROVE fd[Shell] = AtStart
    BY DEF PromptRestored
  <2>1. fd[Shell] \in [Slot -> File]
    BY Processes DEF IInv, TypeOK
  <2>2. \A s \in Slot : fd[Shell][s] = AtStart[s]
    BY DEF IInv, ShellInv, Fits, AtPrompt, AtStart, AllClosed, Slot, Piping, Saved
  <2> QED
    BY <2>1, <2>2 DEF AtStart, AllClosed
<1> QED
  BY <1>1, Invariance, PTL

-----------------------------------------------------------------------------
(***************************************************************************)
(* The processes of a line together.  The children of a process are known  *)
(* from where the process is, and what holds for all of its descendants    *)
(* follows because they are the least set that is closed under children.   *)
(***************************************************************************)
HIDE DEF Stage, Command, Shell

\* Where a stage is, and the command that a leaf's stage has forked.
At(n)  == pc[Stage(n)]
Cmd(l) == pc[Command(l)]

\* A node and everything below it.
ChildrenOf(n) == IF n \in Pipes THEN {LeftOf[n], RightOf[n]} ELSE {}
Subtree(n) == {m \in Node : \A S \in SUBSET Node :
                  n \in S /\ (\A k \in S : ChildrenOf(k) \subseteq S) => m \in S}

\* Places: before a pipe is created, after the line's work is done, of a
\* process that exists, and of one that is not there.
Setup   == {"left setup", "right setup"}
Before  == Setup \cup {"none", "exec"}
Ended   == {"finish", "zombie", "reaped", "prompt"}
Running == PCs \ {"none", "reaped", "prompt"}
Absent  == {"none", "reaped"}

\* Where the two sides of a pipe may be while its process is here.
PipeFamily(here, l, r) ==
    /\ here \in Before \cup Piping \cup Ended \cup {"wait left", "wait right", "wait orphan"}
    /\ here \in Before \cup {"fork left"} => l = "none" /\ r = "none"
    /\ here \in {"fork right", "wait orphan"} => l \in Running /\ r = "none"
    /\ here \in {"close ends", "wait left"} => l \in Running /\ r \in Running
    /\ here = "wait right" => l = "reaped" /\ r \in Running
    /\ here \in Ended => l \in Absent /\ r \in Absent

\* Where the command of a leaf may be while its stage is here.
LeafFamily(here, cmd) ==
    /\ here \in Before \cup Ended \cup {"launch", "builtin", "wait command"}
    /\ cmd \in {"none", "setup", "run", "zombie", "reaped"}
    /\ here \in Before \cup {"launch", "builtin"} => cmd = "none"
    /\ here = "wait command" => cmd \in Running
    /\ here \in Ended => cmd \in Absent

\* Where a node's stage may be on its own account.
Placed(n, here) ==
    /\ n \notin Subtree(Root) => here = "none"
    /\ here = "prompt" => n = Root
    /\ here = "left setup" => \E m \in Pipes : n = LeftOf[m]
    /\ here = "right setup" => \E m \in Pipes : n = RightOf[m]

FamilyInv ==
    /\ \A n \in Pipes : PipeFamily(At(n), At(LeftOf[n]), At(RightOf[n]))
    /\ \A l \in Leaves : LeafFamily(At(l), Cmd(l))
    /\ \A n \in Node : Placed(n, At(n))

-----------------------------------------------------------------------------
\* The names of processes are distinct.
LEMMA Names ==
    /\ \A n \in Node : Stage(n) \in Proc
    /\ \A l \in Leaves : Command(l) \in Proc
    /\ \A n, m \in Node : Stage(n) = Stage(m) => n = m
    /\ \A l, k \in Leaves : Command(l) = Command(k) => l = k
    /\ \A n \in Node, l \in Leaves : Stage(n) # Command(l)
    /\ Shell = Stage(Root) /\ Root \in Node
    /\ \A p \in Proc : \/ \E n \in Node : p = Stage(n) /\ p[1] = n
                       \/ \E l \in Leaves : p = Command(l) /\ p[1] = l
    /\ \A n \in Node : Stage(n)[1] = n
    /\ \A l \in Leaves : Command(l)[1] = l
  BY TreeAssumption DEF Proc, Node, Stage, Command, Shell

\* A child has one parent, is not its own parent, and is not the root.
LEMMA Parents ==
    /\ Pipes \subseteq Node /\ Leaves \subseteq Node /\ Pipes \cap Leaves = {}
    /\ \A n \in Node : n \in Pipes \/ n \in Leaves
    /\ \A n \in Pipes : /\ LeftOf[n] \in Node /\ LeftOf[n] # Root /\ LeftOf[n] # n
                        /\ RightOf[n] \in Node /\ RightOf[n] # Root /\ RightOf[n] # n
    /\ \A n, m \in Pipes : /\ LeftOf[n] # RightOf[m]
                           /\ LeftOf[n] = LeftOf[m] => n = m
                           /\ RightOf[n] = RightOf[m] => n = m
  BY TreeAssumption DEF Node

\* Subtree(n) is the least set with n that is closed under children.
LEMMA SubtreeClosed ==
  ASSUME NEW n \in Node
  PROVE  /\ n \in Subtree(n)
         /\ \A m \in Pipes : m \in Subtree(n) =>
               LeftOf[m] \in Subtree(n) /\ RightOf[m] \in Subtree(n)
  BY Parents DEF Subtree, ChildrenOf

\* And it is within every such set.
LEMMA SubtreeLeast ==
  ASSUME NEW n \in Node, NEW S \in SUBSET Node, n \in S,
         \A m \in Pipes : m \in S => LeftOf[m] \in S /\ RightOf[m] \in S
  PROVE  Subtree(n) \subseteq S
  BY DEF Subtree, ChildrenOf

\* When a stage has not started or has ended, nothing below it is there.
LEMMA AllQuiet ==
  ASSUME FamilyInv, NEW n \in Node, At(n) \in Ended \cup {"none"}
  PROVE  /\ \A m \in Subtree(n) \ {n} : At(m) \in Absent
         /\ \A l \in Leaves : l \in Subtree(n) => Cmd(l) \in Absent
<1> DEFINE S == {m \in Node : m = n \/ At(m) \in Absent}
<1>1. ASSUME NEW m \in Pipes, m \in S
      PROVE  LeftOf[m] \in S /\ RightOf[m] \in S
  <2>1. At(m) \in Ended \cup {"none"}
    BY <1>1 DEF Absent, Ended
  <2>2. At(LeftOf[m]) \in Absent /\ At(RightOf[m]) \in Absent
    BY <2>1 DEF FamilyInv, PipeFamily, Before, Absent
  <2> QED
    BY <2>2, Parents
<1>2. Subtree(n) \subseteq S
  <2>1. n \in S /\ S \in SUBSET Node
    OBVIOUS
  <2> HIDE DEF S
  <2> QED
    BY <1>1, <2>1, SubtreeLeast
<1>3. ASSUME NEW l \in Leaves, l \in Subtree(n)
      PROVE  Cmd(l) \in Absent
  <2>1. At(l) \in Ended \cup {"none"}
    BY <1>2, <1>3 DEF Absent, Ended
  <2> QED
    BY <2>1 DEF FamilyInv, LeafFamily, Before, Absent
<1> QED
  BY <1>2, <1>3

-----------------------------------------------------------------------------
(***************************************************************************)
(* Steps, by what they do to the places: a stage moves, alone or with a    *)
(* child it forks or reaps, or a command moves.                            *)
(***************************************************************************)
Moves(n, there) ==
    /\ \A m \in Node : At(m)' = IF m = n THEN there ELSE At(m)
    /\ \A l \in Leaves : Cmd(l)' = Cmd(l)

MovesWith(n, there, child, new) ==
    /\ \A m \in Node : At(m)' = IF m = n THEN there ELSE IF m = child THEN new ELSE At(m)
    /\ \A l \in Leaves : Cmd(l)' = Cmd(l)

MovesWithCommand(n, there, new) ==
    /\ \A m \in Node : At(m)' = IF m = n THEN there ELSE At(m)
    /\ \A l \in Leaves : Cmd(l)' = IF l = n THEN new ELSE Cmd(l)

CommandMoves(k, there) ==
    /\ \A m \in Node : At(m)' = At(m)
    /\ \A l \in Leaves : Cmd(l)' = IF l = k THEN there ELSE Cmd(l)

\* Assignments to pc, read this way.
LEMMA PlaceAssigned ==
  ASSUME TypeOK, NEW n \in Node, NEW there
  PROVE  /\ pc' = [pc EXCEPT ![Stage(n)] = there] => Moves(n, there)
         /\ \A m \in Node : \A new : m # n /\ pc' = [pc EXCEPT ![Stage(n)] = there, ![Stage(m)] = new]
               => MovesWith(n, there, m, new)
         /\ \A new : n \in Leaves /\ pc' = [pc EXCEPT ![Stage(n)] = there, ![Command(n)] = new]
               => MovesWithCommand(n, there, new)
         /\ n \in Leaves /\ pc' = [pc EXCEPT ![Command(n)] = there] => CommandMoves(n, there)
<1> USE Names DEF TypeOK, At, Cmd
<1>1. pc' = [pc EXCEPT ![Stage(n)] = there] => Moves(n, there)
  BY DEF Moves
<1>2. ASSUME NEW m \in Node, NEW new, m # n,
             pc' = [pc EXCEPT ![Stage(n)] = there, ![Stage(m)] = new]
      PROVE  MovesWith(n, there, m, new)
  BY <1>2 DEF MovesWith
<1>3. ASSUME NEW new, n \in Leaves, pc' = [pc EXCEPT ![Stage(n)] = there, ![Command(n)] = new]
      PROVE  MovesWithCommand(n, there, new)
  BY <1>3 DEF MovesWithCommand
<1>4. n \in Leaves /\ pc' = [pc EXCEPT ![Command(n)] = there] => CommandMoves(n, there)
  BY DEF CommandMoves
<1> QED
  BY <1>1, <1>2, <1>3, <1>4

\* A stage that moves alone, from a place where it exists.
LEMMA FamilyMoves ==
  ASSUME FamilyInv, NEW n \in Node, NEW there, Moves(n, there), At(n) \in Running,
         there \in Running \ Setup \/ (there = "prompt" /\ n = Root),
         n \in Pipes => PipeFamily(there, At(LeftOf[n]), At(RightOf[n])),
         n \in Leaves => LeafFamily(there, Cmd(n))
  PROVE  FamilyInv'
<1>1. ASSUME NEW m \in Pipes
      PROVE  PipeFamily(At(m)', At(LeftOf[m])', At(RightOf[m])')
  <2>1. CASE m = n
    BY <2>1, Parents DEF Moves
  <2>2. CASE m # n
    <3>1. PipeFamily(At(m), At(LeftOf[m]), At(RightOf[m])) /\ At(m)' = At(m)
      BY <2>2, Parents DEF FamilyInv, Moves
    <3>2. \A x \in {LeftOf[m], RightOf[m]} :
             At(x)' = At(x) \/ (At(x) \in Running /\ At(x)' \in Running)
      BY Parents DEF Moves
    <3> QED
      BY <3>1, <3>2 DEF PipeFamily, Running, Absent
  <2> QED
    BY <2>1, <2>2
<1>2. \A l \in Leaves : LeafFamily(At(l)', Cmd(l)')
  BY Parents DEF FamilyInv, Moves
<1>3. \A m \in Node : Placed(m, At(m)')
  BY Parents DEF FamilyInv, Moves, Placed, Running, Setup
<1> QED
  BY <1>1, <1>2, <1>3 DEF FamilyInv, Placed, Subtree, ChildrenOf

\* A stage that moves while a child of its pipe is forked or reaped.
LEMMA FamilyMovesWith ==
  ASSUME FamilyInv, NEW n \in Pipes, NEW there \in Running \ Setup, NEW child, NEW new,
         MovesWith(n, there, child, new), At(n) \in Running,
         \/ child = LeftOf[n] /\ At(child) = "none" /\ new = "left setup"
         \/ child = RightOf[n] /\ At(child) = "none" /\ new = "right setup"
         \/ child \in {LeftOf[n], RightOf[n]} /\ At(child) = "zombie" /\ new = "reaped",
         PipeFamily(there, IF child = LeftOf[n] THEN new ELSE At(LeftOf[n]),
                           IF child = RightOf[n] THEN new ELSE At(RightOf[n]))
  PROVE  FamilyInv'
<1>1. n \in Node /\ child \in Node /\ child # n /\ child # Root
  BY Parents
<1>2. ASSUME NEW m \in Pipes
      PROVE  PipeFamily(At(m)', At(LeftOf[m])', At(RightOf[m])')
  <2>1. CASE m = n
    BY <1>1, <2>1, Parents DEF MovesWith
  <2>2. CASE m = child
    <3>1. \A x \in {LeftOf[m], RightOf[m]} :
             At(x)' = At(x) \/ (At(x) \in Running /\ At(x)' \in Running)
      BY <1>1, <2>2, Parents DEF MovesWith
    <3>2. PipeFamily(At(m), At(LeftOf[m]), At(RightOf[m])) /\ At(m)' = new
      BY <1>1, <2>2, Parents DEF FamilyInv, MovesWith
    <3> QED
      BY <2>2, <3>1, <3>2 DEF PipeFamily, Running, Absent, Before, Ended, Setup, Piping
  <2>3. CASE m # n /\ m # child
    <3>1. PipeFamily(At(m), At(LeftOf[m]), At(RightOf[m])) /\ At(m)' = At(m)
      BY <1>1, <2>3, Parents DEF FamilyInv, MovesWith
    <3>2. \A x \in {LeftOf[m], RightOf[m]} : x # child
      BY <2>3, Parents
    <3>3. \A x \in {LeftOf[m], RightOf[m]} :
             At(x)' = At(x) \/ (At(x) \in Running /\ At(x)' \in Running)
      BY <3>2, Parents DEF MovesWith
    <3> QED
      BY <3>1, <3>3 DEF PipeFamily, Running, Absent
  <2> QED
    BY <2>1, <2>2, <2>3
<1>3. ASSUME NEW l \in Leaves
      PROVE  LeafFamily(At(l)', Cmd(l)')
  <2>1. LeafFamily(At(l), Cmd(l)) /\ l # n /\ Cmd(l)' = Cmd(l)
    BY Parents DEF FamilyInv, MovesWith
  <2>2. At(l)' = IF l = child THEN new ELSE At(l)
    BY <2>1, Parents DEF MovesWith
  <2> QED
    BY <2>1, <2>2 DEF LeafFamily, Before, Ended, Setup
<1>4. ASSUME NEW m \in Node
      PROVE  Placed(m, At(m)')
  <2>1. Placed(m, At(m)) /\ At(m)' = IF m = n THEN there ELSE IF m = child THEN new ELSE At(m)
    BY DEF FamilyInv, MovesWith
  <2>2. n \in Subtree(Root)
    BY <1>1 DEF FamilyInv, Placed, Running
  <2>3. child \in Subtree(Root)
    <3>1. child = LeftOf[n] \/ child = RightOf[n]
      OBVIOUS
    <3>2. LeftOf[n] \in Subtree(Root) /\ RightOf[n] \in Subtree(Root)
      BY <2>2, SubtreeClosed, Names
    <3> QED
      BY <3>1, <3>2
  <2>4. CASE m = child
    BY <1>1, <2>1, <2>3, <2>4 DEF Placed
  <2>5. CASE m # child
    BY <1>1, <2>1, <2>2, <2>5 DEF Placed, Running, Setup
  <2> QED
    BY <2>4, <2>5
<1> QED
  BY <1>2, <1>3, <1>4 DEF FamilyInv, Placed, Subtree, ChildrenOf

\* The stage of a leaf moves while its command is forked or reaped.
LEMMA FamilyMovesWithCommand ==
  ASSUME FamilyInv, NEW n \in Leaves, NEW there \in Running \ Setup, NEW new,
         MovesWithCommand(n, there, new), At(n) \in Running, LeafFamily(there, new)
  PROVE  FamilyInv'
<1>1. ASSUME NEW m \in Pipes
      PROVE  PipeFamily(At(m)', At(LeftOf[m])', At(RightOf[m])')
  <2>1. PipeFamily(At(m), At(LeftOf[m]), At(RightOf[m])) /\ At(m)' = At(m)
    BY Parents DEF FamilyInv, MovesWithCommand
  <2>2. \A x \in {LeftOf[m], RightOf[m]} :
           At(x)' = At(x) \/ (At(x) \in Running /\ At(x)' \in Running)
    BY Parents DEF MovesWithCommand
  <2> QED
    BY <2>1, <2>2 DEF PipeFamily, Running, Absent
<1>2. \A l \in Leaves : LeafFamily(At(l)', Cmd(l)')
  BY Parents DEF FamilyInv, MovesWithCommand
<1>3. ASSUME NEW m \in Node
      PROVE  Placed(m, At(m)')
  <2>1. Placed(m, At(m)) /\ At(m)' = IF m = n THEN there ELSE At(m)
    BY DEF FamilyInv, MovesWithCommand
  <2>2. n \in Subtree(Root)
    BY Parents DEF FamilyInv, Placed, Running
  <2> QED
    BY <2>1, <2>2 DEF Placed, Running, Setup
<1> QED
  BY <1>1, <1>2, <1>3 DEF FamilyInv, Placed, Subtree, ChildrenOf

\* A command moves by itself, while its stage waits for it.
LEMMA FamilyCommandMoves ==
  ASSUME FamilyInv, NEW l \in Leaves, NEW there \in {"run", "zombie"},
         CommandMoves(l, there), Cmd(l) \in {"setup", "run"}
  PROVE  FamilyInv'
<1>1. \A m \in Node : At(m)' = At(m)
  BY DEF CommandMoves
<1>2. \A m \in Pipes : PipeFamily(At(m)', At(LeftOf[m])', At(RightOf[m])')
  BY <1>1, Parents DEF FamilyInv
<1>3. ASSUME NEW k \in Leaves
      PROVE  LeafFamily(At(k)', Cmd(k)')
  <2>1. LeafFamily(At(k), Cmd(k)) /\ At(k)' = At(k) /\ "run" \in Running /\ "zombie" \in Running
    BY <1>1, Parents DEF FamilyInv, Running, PCs
  <2> QED
    BY <2>1 DEF CommandMoves, LeafFamily, Absent
<1>4. \A m \in Node : Placed(m, At(m)')
  BY <1>1 DEF FamilyInv
<1> QED
  BY <1>2, <1>3, <1>4 DEF FamilyInv, Placed, Subtree, ChildrenOf

-----------------------------------------------------------------------------
(***************************************************************************)
(* The actions, by what they do to the places.                             *)
(***************************************************************************)
\* execute_pipe_command.
LEMMA PipePlaces ==
  ASSUME TypeOK, NEW n \in Pipes, PipeStep(n)
  PROVE  \/ At(n) = "exec" /\ Moves(n, "fork left")
         \/ At(n) \in {"exec", "fork left"} /\ Moves(n, "finish")
         \/ At(n) = "fork left" /\ MovesWith(n, "fork right", LeftOf[n], "left setup")
         \/ At(n) = "fork right" /\ MovesWith(n, "close ends", RightOf[n], "right setup")
         \/ At(n) = "fork right" /\ Moves(n, "wait orphan")
         \/ At(n) = "close ends" /\ Moves(n, "wait left")
         \/ /\ At(n) = "wait orphan" /\ At(LeftOf[n]) = "zombie"
            /\ MovesWith(n, "finish", LeftOf[n], "reaped")
         \/ /\ At(n) = "wait left" /\ At(LeftOf[n]) = "zombie"
            /\ MovesWith(n, "wait right", LeftOf[n], "reaped")
         \/ /\ At(n) = "wait right" /\ At(RightOf[n]) = "zombie"
            /\ MovesWith(n, "finish", RightOf[n], "reaped")
<1>1. n \in Node /\ LeftOf[n] \in Node \ {n} /\ RightOf[n] \in Node \ {n}
  BY Parents
<1>2. CASE SetupPipes(n)
  BY <1>1, <1>2, PlaceAssigned DEF SetupPipes, Attempt, Move, ReturnFailure, At
<1>3. CASE ForkLeftChecked(n)
  BY <1>1, <1>3, PlaceAssigned DEF ForkLeftChecked, Attempt, Fork, Move, ReturnFailure, At
<1>4. CASE ForkRightChecked(n)
  BY <1>1, <1>4, PlaceAssigned DEF ForkRightChecked, Attempt, Fork, Move, At
<1>5. CASE CloseEnds(n)
  BY <1>1, <1>5, PlaceAssigned DEF CloseEnds, Move, At
<1>6. CASE WaitOrphan(n)
  BY <1>1, <1>6, PlaceAssigned DEF WaitOrphan, Reap, At
<1>7. CASE WaitLeft(n)
  BY <1>1, <1>7, PlaceAssigned DEF WaitLeft, Reap, At
<1>8. CASE WaitRight(n)
  BY <1>1, <1>8, PlaceAssigned DEF WaitRight, Reap, At
<1> QED
  BY <1>2, <1>3, <1>4, <1>5, <1>6, <1>7, <1>8 DEF PipeStep

\* left_child, right_child, and the end of a stage.
LEMMA NodePlaces ==
  ASSUME TypeOK, NEW n \in Node, NodeStep(n)
  PROVE  \/ At(n) \in Setup /\ (Moves(n, "exec") \/ Moves(n, "zombie"))
         \/ At(n) = "finish" /\ Moves(n, IF n = Root THEN "prompt" ELSE "zombie")
<1>1. Stage(n) = Shell <=> n = Root
  BY Names
<1>2. CASE LeftChild(n)
  BY <1>2, PlaceAssigned DEF LeftChild, ChildStarts, Attempt, Move, Exit, At, Setup
<1>3. CASE RightChild(n)
  BY <1>3, PlaceAssigned DEF RightChild, ChildStarts, Attempt, Move, Exit, At, Setup
<1>4. CASE Finish(n)
  BY <1>1, <1>4, PlaceAssigned DEF Finish, Move, Exit, At
<1> QED
  BY <1>2, <1>3, <1>4 DEF NodeStep

\* The root is run by the shell, which no signal of a pipe reaches.
LEMMA RootKept ==
  ASSUME IInv, NEW m \in Pipes
  PROVE  fd[Stage(Root)]["out"] # WriteEnd(m)
  BY Names DEF IInv, ShellInv, Fits, Terminal, WriteEnd

\* handle_command_execution.
LEMMA LeafPlaces ==
  ASSUME IInv, NEW l \in Leaves, LeafStep(l)
  PROVE  \/ At(l) = "exec" /\ (Moves(l, "launch") \/ Moves(l, "builtin"))
         \/ At(l) \in {"exec", "launch", "builtin"} /\ Moves(l, "finish")
         \/ At(l) = "launch" /\ MovesWithCommand(l, "wait command", "setup")
         \/ /\ At(l) = "wait command" /\ Cmd(l) = "zombie"
            /\ MovesWithCommand(l, "finish", "reaped")
         \/ At(l) = "builtin" /\ (UNCHANGED pc \/ (l # Root /\ Moves(l, "zombie")))
<1>1. TypeOK /\ l \in Node
  BY Parents DEF IInv
<1>2. CASE SaveFds(l)
  BY <1>1, <1>2, PlaceAssigned DEF SaveFds, Attempt, Move, ReturnFailure, At
<1>3. CASE WordToken(l)
  BY <1>1, <1>3, PlaceAssigned DEF WordToken, Move, At
<1>4. CASE ForkCommand(l)
  BY <1>1, <1>4, PlaceAssigned DEF ForkCommand, Attempt, Fork, Move, ReturnFailure, At
<1>5. CASE WaitCommand(l)
  BY <1>1, <1>5, PlaceAssigned DEF WaitCommand, Reap, At, Cmd
<1>6. CASE Builtin(l)
  <2>1. At(l) = "builtin"
    BY <1>6 DEF Builtin, At
  <2>2. CASE Move(Stage(l), "finish", fd[Stage(l)])
    BY <1>1, <2>1, <2>2, PlaceAssigned DEF Move
  <2>3. CASE WriteNext(Stage(l), l)
    <3>1. \/ UNCHANGED pc
          \/ \E m \in Pipes : fd[Stage(l)]["out"] = WriteEnd(m) /\ Exit(Stage(l), SigPipe)
      BY <2>3 DEF WriteNext, Write
    <3> QED
      BY <1>1, <2>1, <3>1, RootKept, PlaceAssigned DEF Exit, Move
  <2> QED
    BY <1>6, <2>2, <2>3 DEF Builtin
<1> QED
  BY <1>2, <1>3, <1>4, <1>5, <1>6 DEF LeafStep

\* External commands.
LEMMA CommandPlaces ==
  ASSUME TypeOK, NEW l \in Leaves, CommandStep(l)
  PROVE  \/ UNCHANGED pc
         \/ Cmd(l) \in {"setup", "run"} /\ (CommandMoves(l, "run") \/ CommandMoves(l, "zombie"))
<1>1. l \in Node
  BY Parents
<1>2. CASE ChildExecExternal(l)
  BY <1>1, <1>2, PlaceAssigned DEF ChildExecExternal, Move, Exit, Cmd
<1>3. CASE CommandWrites(l)
  BY <1>1, <1>3, PlaceAssigned DEF CommandWrites, WriteNext, Write, Move, Exit, Cmd
<1>4. CASE CommandReads(l)
  BY <1>4 DEF CommandReads
<1>5. CASE CommandExits(l)
  BY <1>1, <1>5, PlaceAssigned DEF CommandExits, Move, Exit, Cmd
<1> QED
  BY <1>2, <1>3, <1>4, <1>5 DEF CommandStep

-----------------------------------------------------------------------------
(***************************************************************************)
(* NoOrphans: at the prompt the whole family is gone.                      *)
(***************************************************************************)
\* The steps of a stage.
LEMMA FamilyStageStep ==
  ASSUME IInv, FamilyInv, NEW n \in Node,
         (n \in Pipes /\ PipeStep(n)) \/ (n \in Leaves /\ LeafStep(n)) \/ NodeStep(n)
  PROVE  FamilyInv'
<1> USE DEF Running, PCs, Setup
<1>1. TypeOK
  BY DEF IInv
<1>2. n \in Pipes => PipeFamily(At(n), At(LeftOf[n]), At(RightOf[n]))
  BY DEF FamilyInv
<1>3. n \in Leaves => LeafFamily(At(n), Cmd(n))
  BY DEF FamilyInv
<1>4. CASE n \in Pipes /\ PipeStep(n)
  <2>1. n \notin Leaves /\ LeftOf[n] # RightOf[n]
    BY <1>4, Parents
  <2>2. CASE At(n) = "exec" /\ Moves(n, "fork left")
    BY <1>2, <1>4, <2>1, <2>2, FamilyMoves DEF PipeFamily, Before, Piping, Ended
  <2>3. CASE At(n) \in {"exec", "fork left"} /\ Moves(n, "finish")
    BY <1>2, <1>4, <2>1, <2>3, FamilyMoves DEF PipeFamily, Before, Piping, Ended, Absent
  <2>4. CASE At(n) = "fork left" /\ MovesWith(n, "fork right", LeftOf[n], "left setup")
    BY <1>2, <1>4, <2>1, <2>4, FamilyMovesWith DEF PipeFamily, Before, Piping, Ended
  <2>5. CASE At(n) = "fork right" /\ MovesWith(n, "close ends", RightOf[n], "right setup")
    BY <1>2, <1>4, <2>1, <2>5, FamilyMovesWith DEF PipeFamily, Before, Piping, Ended
  <2>6. CASE At(n) = "fork right" /\ Moves(n, "wait orphan")
    BY <1>2, <1>4, <2>1, <2>6, FamilyMoves DEF PipeFamily, Before, Piping, Ended
  <2>7. CASE At(n) = "close ends" /\ Moves(n, "wait left")
    BY <1>2, <1>4, <2>1, <2>7, FamilyMoves DEF PipeFamily, Before, Piping, Ended
  <2>8. CASE /\ At(n) = "wait orphan" /\ At(LeftOf[n]) = "zombie"
             /\ MovesWith(n, "finish", LeftOf[n], "reaped")
    BY <1>2, <1>4, <2>1, <2>8, FamilyMovesWith DEF PipeFamily, Before, Piping, Ended, Absent
  <2>9. CASE /\ At(n) = "wait left" /\ At(LeftOf[n]) = "zombie"
             /\ MovesWith(n, "wait right", LeftOf[n], "reaped")
    BY <1>2, <1>4, <2>1, <2>9, FamilyMovesWith DEF PipeFamily, Before, Piping, Ended
  <2>10. CASE /\ At(n) = "wait right" /\ At(RightOf[n]) = "zombie"
              /\ MovesWith(n, "finish", RightOf[n], "reaped")
    BY <1>2, <1>4, <2>1, <2>10, FamilyMovesWith DEF PipeFamily, Before, Piping, Ended, Absent
  <2> QED
    BY <1>1, <1>4, <2>2, <2>3, <2>4, <2>5, <2>6, <2>7, <2>8, <2>9, <2>10, PipePlaces
<1>5. CASE n \in Leaves /\ LeafStep(n)
  <2>1. n \notin Pipes
    BY <1>5, Parents
  <2>2. CASE UNCHANGED pc
    BY <2>2 DEF FamilyInv, Placed, Subtree, ChildrenOf, At, Cmd
  <2>3. CASE At(n) = "exec" /\ (Moves(n, "launch") \/ Moves(n, "builtin"))
    BY <1>3, <1>5, <2>1, <2>3, FamilyMoves DEF LeafFamily, Before, Ended
  <2>4. CASE At(n) \in {"exec", "launch", "builtin"} /\ (Moves(n, "finish") \/ Moves(n, "zombie"))
    BY <1>3, <1>5, <2>1, <2>4, FamilyMoves DEF LeafFamily, Before, Ended, Absent
  <2>5. CASE At(n) = "launch" /\ MovesWithCommand(n, "wait command", "setup")
    BY <1>3, <1>5, <2>1, <2>5, FamilyMovesWithCommand DEF LeafFamily, Before, Ended
  <2>6. CASE /\ At(n) = "wait command" /\ Cmd(n) = "zombie"
             /\ MovesWithCommand(n, "finish", "reaped")
    BY <1>3, <1>5, <2>1, <2>6, FamilyMovesWithCommand DEF LeafFamily, Before, Ended, Absent
  <2> QED
    BY <1>5, <2>2, <2>3, <2>4, <2>5, <2>6, LeafPlaces
<1>6. CASE NodeStep(n)
  <2>1. n \in Pipes \/ n \in Leaves
    BY Parents
  <2>2. CASE At(n) \in {"left setup", "right setup"} /\ (Moves(n, "exec") \/ Moves(n, "zombie"))
    BY <1>2, <1>3, <2>2, FamilyMoves DEF PipeFamily, LeafFamily, Before, Ended, Absent, Piping
  <2>3. CASE At(n) = "finish" /\ Moves(n, IF n = Root THEN "prompt" ELSE "zombie")
    <3>1. CASE n = Root
      BY <1>2, <1>3, <2>3, <3>1, FamilyMoves DEF PipeFamily, LeafFamily, Before, Ended, Absent, Piping
    <3>2. CASE n # Root
      BY <1>2, <1>3, <2>3, <3>2, FamilyMoves DEF PipeFamily, LeafFamily, Before, Ended, Absent, Piping
    <3> QED
      BY <3>1, <3>2
  <2> QED
    BY <1>1, <1>6, <2>2, <2>3, NodePlaces
<1> QED
  BY <1>4, <1>5, <1>6

\* At the prompt nothing of the line is left, so the next one starts afresh.
LEMMA PromptAlone ==
  ASSUME TypeOK, FamilyInv, AtPrompt
  PROVE  /\ \A n \in Node \ {Root} : At(n) \in Absent
         /\ \A l \in Leaves : Cmd(l) \in Absent
<1>1. At(Root) = "prompt" /\ Root \in Node
  BY Names DEF AtPrompt, At
<1>2. \A m \in Subtree(Root) \ {Root} : At(m) \in Absent
  BY <1>1, AllQuiet DEF Ended
<1>3. \A l \in Leaves : l \in Subtree(Root) => Cmd(l) \in Absent
  BY <1>1, AllQuiet DEF Ended
<1>4. \A n \in Node : n \notin Subtree(Root) => At(n) = "none"
  BY DEF FamilyInv, Placed
<1>5. \A l \in Leaves : l \notin Subtree(Root) => Cmd(l) = "none"
  BY <1>4, Parents DEF FamilyInv, LeafFamily, Before
<1> QED
  BY <1>2, <1>3, <1>4, <1>5 DEF Absent

\* What the places are when a line starts.
LineStarts ==
    /\ \A n \in Node : At(n) = IF n = Root THEN "exec" ELSE "none"
    /\ \A l \in Leaves : Cmd(l) = "none"

\* At the start of a line only the root's process is there.
LEMMA FamilyStarts ==
  ASSUME LineStarts
  PROVE  FamilyInv
<1>1. \A n \in Pipes : PipeFamily(At(n), At(LeftOf[n]), At(RightOf[n]))
  BY Parents DEF LineStarts, PipeFamily, Before, Ended, Absent
<1>2. \A l \in Leaves : LeafFamily(At(l), Cmd(l))
  BY Parents DEF LineStarts, LeafFamily, Before, Ended
<1>3. \A n \in Node : Placed(n, At(n))
  BY SubtreeClosed, Names DEF LineStarts, Placed
<1> QED
  BY <1>1, <1>2, <1>3 DEF FamilyInv

\* The next line starts the way the first one does.
LEMMA NextLineStarts ==
  ASSUME TypeOK, FamilyInv, NextLine
  PROVE  LineStarts'
<1>1. /\ \A n \in Node \ {Root} : At(n) \in Absent
      /\ \A l \in Leaves : Cmd(l) \in Absent
  BY PromptAlone DEF NextLine
<1>2. pc' = [p \in Proc |-> IF p = Shell THEN "exec"
                            ELSE IF pc[p] = "reaped" THEN "none" ELSE pc[p]]
  BY DEF NextLine
<1>3. \A n \in Node : At(n)' = IF n = Root THEN "exec" ELSE "none"
  BY <1>1, <1>2, Names DEF At, Absent
<1>4. \A l \in Leaves : Cmd(l)' = "none"
  BY <1>1, <1>2, Names DEF Cmd, Absent
<1> QED
  BY <1>3, <1>4 DEF LineStarts

\* The shell starts with the root's process alone.
LEMMA FamilyInit == Init => FamilyInv
<1> SUFFICES ASSUME Init PROVE LineStarts
  BY FamilyStarts
<1> QED
  BY Names DEF Init, LineStarts, At, Cmd

\* Every step keeps the places of processes in step with each other.
LEMMA FamilyStep == IInv /\ FamilyInv /\ [Next]_vars => FamilyInv'
<1> SUFFICES ASSUME IInv, FamilyInv, [Next]_vars PROVE FamilyInv'
  OBVIOUS
<1>1. TypeOK
  BY DEF IInv
<1>2. CASE UNCHANGED pc
  BY <1>2 DEF FamilyInv, Placed, Subtree, ChildrenOf, At, Cmd
<1>3. ASSUME NEW n \in Pipes, PipeStep(n) PROVE FamilyInv'
  BY <1>3, FamilyStageStep, Parents
<1>4. ASSUME NEW l \in Leaves, LeafStep(l) PROVE FamilyInv'
  BY <1>4, FamilyStageStep, Parents
<1>5. ASSUME NEW l \in Leaves, CommandStep(l) PROVE FamilyInv'
  BY <1>1, <1>2, <1>5, CommandPlaces, FamilyCommandMoves
<1>6. ASSUME NEW n \in Node, NodeStep(n) PROVE FamilyInv'
  BY <1>6, FamilyStageStep
<1>7. CASE NextLine
  <2>1. LineStarts'
    BY <1>1, <1>7, NextLineStarts
  <2>2. LineStarts' => FamilyInv'
    BY FamilyStarts, PTL
  <2> QED
    BY <2>1, <2>2
<1> QED
  BY <1>2, <1>3, <1>4, <1>5, <1>6, <1>7 DEF Next, vars

\* Where every process is, in every reachable state.
THEOREM FamilyKept == Spec => []FamilyInv
  BY Invariance, FamilyInit, FamilyStep, PTL DEF Spec

\* When the prompt is back, every process of the line, grandchildren included,
\* has exited and was waited for, whatever fork, pipe or dup2 failed: no
\* descendant of execute_ast outlives its line and no zombie is left.
THEOREM NoOrphansAlways == Spec => []NoOrphans
<1>1. IInv /\ FamilyInv => NoOrphans
  <2> SUFFICES ASSUME IInv, FamilyInv, AtPrompt, NEW p \in Proc \ {Shell}
               PROVE  pc[p] \in {"none", "reaped"}
    BY DEF NoOrphans
  <2>1. \/ \E n \in Node \ {Root} : p = Stage(n)
        \/ \E l \in Leaves : p = Command(l)
    BY Names
  <2> QED
    BY <2>1, PromptAlone DEF IInv, At, Cmd, Absent
<1> QED
  BY <1>1, Invariance, FamilyKept, PTL

-----------------------------------------------------------------------------
(***************************************************************************)
(* Who holds the ends of a pipe: only processes below it, never one that   *)
(* is gone, and its own process only while it sets the pipe up.            *)
(***************************************************************************)
Gone == {"none", "zombie", "reaped"}
EndsOf(n) == {ReadEnd(n), WriteEnd(n)}

\* The slots that a process keeps while it makes a pipe of its own.
Streaming == {"in", "out", "s0", "s1"}

Hand(p) ==
    /\ pc[p] \in Gone => fd[p] = AllClosed
    /\ \A s \in Slot : \A m \in Pipes : fd[p][s] \in EndsOf(m) =>
          p[1] \in Subtree(m) /\ At(m) \notin Before

StageHand(n) ==
    /\ \A s \in Streaming : fd[Stage(n)][s] \notin EndsOf(n)
    /\ At(n) \notin Setup \cup Piping =>
          fd[Stage(n)]["p0"] = Closed /\ fd[Stage(n)]["p1"] = Closed

HandsInv ==
    /\ \A p \in Proc : Hand(p)
    /\ \A n \in Node : StageHand(n)

\* A table whose open descriptors all come from another one.
Drawn(table, t) ==
    \A s \in Slot : table[s] = Closed \/ \E u \in Slot : table[s] = t[u]

\* The ends of a pipe are no other file, and no other pipe's.
LEMMA Ends ==
    /\ \A n \in Node : Closed \notin EndsOf(n) /\ Terminal \notin EndsOf(n)
    /\ \A n, m \in Node : \A f : f \in EndsOf(n) /\ f \in EndsOf(m) => n = m
    /\ \A n \in Node : ReadEnd(n) # WriteEnd(n)
    /\ \A n, m \in Node : WriteEnd(n) = WriteEnd(m) => n = m
    /\ Closed # Terminal
    /\ AllClosed \in [Slot -> File] /\ \A s \in Slot : AllClosed[s] = Closed
    /\ Streaming \subseteq Slot /\ "p0" \in Slot /\ "p1" \in Slot
    /\ Slot = Streaming \cup {"p0", "p1"}
  BY DEF EndsOf, ReadEnd, WriteEnd, Closed, Terminal, AllClosed, File, Slot, Streaming

\* What the code does to its descriptors adds none.
LEMMA TablesDrawn ==
  ASSUME NEW t \in [Slot -> File]
  PROVE  /\ Drawn(t, t) /\ Drawn(ClosePipe(t), t) /\ Drawn(AllClosed, t)
         /\ Drawn(TakeWriteEnd(t), t) /\ Drawn(TakeReadEnd(t), t)
         /\ Drawn(Save(t), t) /\ Drawn(Restore(t), t)
<1> USE DEF Drawn, Slot
<1>1. Drawn(t, t)
  OBVIOUS
<1>2. Drawn(ClosePipe(t), t)
  BY DEF ClosePipe
<1>3. Drawn(AllClosed, t)
  BY DEF AllClosed
<1>4. Drawn(TakeWriteEnd(t), t)
  BY DEF TakeWriteEnd, ClosePipe
<1>5. Drawn(TakeReadEnd(t), t)
  BY DEF TakeReadEnd, ClosePipe
<1>6. Drawn(Save(t), t)
  BY DEF Save
<1>7. Drawn(Restore(t), t)
  BY DEF Restore
<1> QED
  BY <1>1, <1>2, <1>3, <1>4, <1>5, <1>6, <1>7

\* The slots of those tables that matter.
LEMMA TableSlots ==
  ASSUME NEW t \in [Slot -> File]
  PROVE  /\ \A s \in {"p0", "p1"} : /\ ClosePipe(t)[s] = Closed /\ TakeWriteEnd(t)[s] = Closed
                                    /\ TakeReadEnd(t)[s] = Closed /\ AllClosed[s] = Closed
                                    /\ Save(t)[s] = t[s] /\ Restore(t)[s] = t[s]
         /\ \A s \in Streaming : ClosePipe(t)[s] = t[s]
         /\ TakeReadEnd(t)["in"] = t["p0"] /\ TakeReadEnd(t)["out"] = t["out"]
         /\ TakeWriteEnd(t)["out"] = t["p1"] /\ TakeWriteEnd(t)["in"] = t["in"]
         /\ \A s \in {"in", "out"} : Save(t)[s] = t[s]
         /\ \A s \in Streaming : \E u \in Streaming : Save(t)[s] = t[u]
         /\ \A s \in Streaming : Restore(t)[s] = Closed \/ \E u \in Streaming : Restore(t)[s] = t[u]
<1> USE DEF Slot, Streaming
<1>1. \A s \in {"p0", "p1"} : /\ ClosePipe(t)[s] = Closed /\ TakeWriteEnd(t)[s] = Closed
                              /\ TakeReadEnd(t)[s] = Closed /\ AllClosed[s] = Closed
                              /\ Save(t)[s] = t[s]
  BY DEF ClosePipe, TakeWriteEnd, TakeReadEnd, AllClosed, Save
<1>2. \A s \in {"p0", "p1"} : Restore(t)[s] = t[s]
  BY DEF Restore
<1>3. \A s \in Streaming : ClosePipe(t)[s] = t[s]
  BY DEF ClosePipe
<1>4. /\ TakeReadEnd(t)["in"] = t["p0"] /\ TakeReadEnd(t)["out"] = t["out"]
      /\ TakeWriteEnd(t)["out"] = t["p1"] /\ TakeWriteEnd(t)["in"] = t["in"]
  BY DEF TakeReadEnd, TakeWriteEnd, ClosePipe
<1>5. \A s \in {"in", "out"} : Save(t)[s] = t[s]
  BY DEF Save
<1>6. \A s \in Streaming : \E u \in Streaming : Save(t)[s] = t[u]
  BY DEF Save
<1>7. \A s \in Streaming : Restore(t)[s] = Closed \/ \E u \in Streaming : Restore(t)[s] = t[u]
  BY DEF Restore
<1> QED
  BY <1>1, <1>2, <1>3, <1>4, <1>5, <1>6, <1>7

\* A stage moves on with these descriptors.
LEMMA HandsMove ==
  ASSUME TypeOK, HandsInv, NEW n \in Node, NEW there \in PCs \ (Setup \cup {"none", "reaped"}),
         NEW table \in [Slot -> File], Move(Stage(n), there, table),
         At(n) \notin Before => there \notin Before,
         there = "zombie" => table = AllClosed,
         \A s \in Slot : \A m \in Pipes : table[s] \in EndsOf(m) =>
            \/ \E u \in Slot : table[s] = fd[Stage(n)][u]
            \/ m = n /\ there \notin Before,
         \A s \in Streaming : table[s] \notin EndsOf(n),
         there \notin Piping => table["p0"] = Closed /\ table["p1"] = Closed
  PROVE  HandsInv'
<1>1. Moves(n, there)
  BY PlaceAssigned DEF Move
<1>2. /\ Stage(n) \in Proc /\ pc'[Stage(n)] = there /\ fd'[Stage(n)] = table
      /\ \A p \in Proc \ {Stage(n)} : pc'[p] = pc[p] /\ fd'[p] = fd[p]
  BY Names DEF TypeOK, Move
<1>3. \A m \in Node : At(m) \notin Before => At(m)' \notin Before
  BY <1>1 DEF Moves
<1>4. n \in Subtree(n) /\ Stage(n)[1] = n /\ (there \notin Before => At(n)' \notin Before)
  BY <1>1, SubtreeClosed, Names DEF Moves
<1>5. ASSUME NEW p \in Proc
      PROVE  Hand(p)'
  <2>1. Hand(p) /\ Hand(Stage(n))
    BY <1>2 DEF HandsInv
  <2>2. CASE p = Stage(n)
    <3>1. pc'[p] \in Gone => fd'[p] = AllClosed
      BY <1>2, <2>2 DEF Gone
    <3>2. ASSUME NEW s \in Slot, NEW m \in Pipes, fd'[p][s] \in EndsOf(m)
          PROVE  p[1] \in Subtree(m) /\ At(m)' \notin Before
      <4>1. CASE \E u \in Slot : table[s] = fd[Stage(n)][u]
        BY <1>2, <1>3, <2>1, <2>2, <3>2, <4>1, Parents DEF Hand
      <4>2. CASE m = n /\ there \notin Before
        BY <1>4, <2>2, <4>2
      <4> QED
        BY <1>2, <2>2, <3>2, <4>1, <4>2
    <3> QED
      BY <3>1, <3>2 DEF Hand, Subtree, ChildrenOf
  <2>3. CASE p # Stage(n)
    BY <1>2, <1>3, <2>1, <2>3, Parents DEF Hand, Subtree, ChildrenOf
  <2> QED
    BY <2>2, <2>3
<1>6. ASSUME NEW m \in Node
      PROVE  StageHand(m)'
  <2>1. CASE m = n
    BY <1>1, <1>2, <2>1 DEF StageHand, Moves
  <2>2. CASE m # n
    <3>1. At(m)' = At(m) /\ fd'[Stage(m)] = fd[Stage(m)]
      BY <1>1, <1>2, <2>2, Names DEF Moves
    <3> QED
      BY <3>1 DEF HandsInv, StageHand
  <2> QED
    BY <2>1, <2>2
<1> QED
  BY <1>5, <1>6 DEF HandsInv

\* A side of a pipe is forked: it starts with the ends of the pipe it belongs
\* to, and none of its own, which does not exist yet.
LEMMA HandsFork ==
  ASSUME TypeOK, HandsInv, NEW n \in Pipes, NEW there \in Piping, At(n) \in Piping,
         NEW child \in {LeftOf[n], RightOf[n]}, NEW new \in Setup, At(child) = "none",
         Fork(Stage(n), there, Stage(child), new)
  PROVE  HandsInv'
<1>1. n \in Node /\ child \in Node /\ child # n
  BY Parents
<1>2. MovesWith(n, there, child, new)
  BY <1>1, PlaceAssigned DEF Fork
<1>3. /\ Stage(n) \in Proc /\ Stage(child) \in Proc /\ Stage(n) # Stage(child)
      /\ pc'[Stage(n)] = there /\ fd'[Stage(n)] = fd[Stage(n)]
      /\ pc'[Stage(child)] = new /\ fd'[Stage(child)] = fd[Stage(n)]
      /\ \A p \in Proc \ {Stage(n), Stage(child)} : pc'[p] = pc[p] /\ fd'[p] = fd[p]
  BY <1>1, Names DEF TypeOK, Fork
<1>4. \A m \in Node : At(m) \notin Before => At(m)' \notin Before
  BY <1>2 DEF MovesWith, Before, Piping, Setup
<1>5. ASSUME NEW p \in Proc
      PROVE  Hand(p)'
  <2>1. Hand(p) /\ Hand(Stage(n))
    BY <1>3 DEF HandsInv
  <2>2. CASE p = Stage(n)
    BY <1>3, <1>4, <2>1, <2>2, Parents DEF Hand, Subtree, ChildrenOf, Gone, Piping
  <2>3. CASE p = Stage(child)
    <3>1. \A m \in Pipes : n \in Subtree(m) => child \in Subtree(m)
      BY SubtreeClosed, Parents
    <3>2. pc'[p] \notin Gone
      BY <1>3, <2>3 DEF Gone, Setup
    <3>3. ASSUME NEW s \in Slot, NEW m \in Pipes, fd'[p][s] \in EndsOf(m)
          PROVE  p[1] \in Subtree(m) /\ At(m)' \notin Before
      <4>1. Stage(n)[1] = n /\ p[1] = child
        BY <1>1, <2>3, Names
      <4> QED
        BY <1>3, <1>4, <2>1, <2>3, <3>1, <3>3, <4>1, Parents DEF Hand
    <3> QED
      BY <3>2, <3>3 DEF Hand, Subtree, ChildrenOf
  <2>4. CASE p \notin {Stage(n), Stage(child)}
    BY <1>3, <1>4, <2>1, <2>4, Parents DEF Hand, Subtree, ChildrenOf
  <2> QED
    BY <2>2, <2>3, <2>4
<1>6. ASSUME NEW m \in Node
      PROVE  StageHand(m)'
  <2>1. CASE m = n
    <3>1. At(m)' \in Piping /\ fd'[Stage(m)] = fd[Stage(m)]
      BY <1>2, <1>3, <2>1 DEF MovesWith
    <3> QED
      BY <3>1 DEF HandsInv, StageHand
  <2>2. CASE m = child
    <3>1. At(m)' \in Setup
      BY <1>1, <1>2, <2>2 DEF MovesWith
    <3>2. m \in Pipes => \A s \in Slot : fd[Stage(n)][s] \notin EndsOf(m)
      BY <1>3, <2>2 DEF HandsInv, Hand, Before
    <3>3. m \in Leaves => \A s \in Slot : fd[Stage(n)][s] \notin EndsOf(m)
      <4>1. \A s \in Slot : fd[Stage(n)][s] \in File
        BY <1>3 DEF TypeOK
      <4> QED
        BY <4>1, Parents DEF File, EndsOf, ReadEnd, WriteEnd, Closed, Terminal
    <3> QED
      BY <1>3, <2>2, <3>1, <3>2, <3>3, Parents, Ends DEF StageHand
  <2>3. CASE m \notin {n, child}
    <3>1. At(m)' = At(m) /\ fd'[Stage(m)] = fd[Stage(m)]
      BY <1>1, <1>2, <1>3, <2>3, Names DEF MovesWith
    <3> QED
      BY <3>1 DEF HandsInv, StageHand
  <2> QED
    BY <2>1, <2>2, <2>3
<1> QED
  BY <1>5, <1>6 DEF HandsInv

\* Before a pipe is made nobody holds its ends.
LEMMA NotMadeYet ==
  ASSUME TypeOK, HandsInv, NEW n \in Node, At(n) \in Before, NEW p \in Proc, NEW s \in Slot
  PROVE  fd[p][s] \notin EndsOf(n)
<1>1. CASE n \in Pipes
  BY <1>1 DEF HandsInv, Hand
<1>2. CASE n \in Leaves
  <2>1. fd[p][s] \in File
    BY DEF TypeOK
  <2> QED
    BY <1>2, <2>1, Parents DEF File, EndsOf, ReadEnd, WriteEnd, Closed, Terminal
<1> QED
  BY <1>1, <1>2, Parents

\* A stage moves on with descriptors it had.
LEMMA HandsDrawn ==
  ASSUME TypeOK, HandsInv, NEW n \in Node, NEW there \in PCs \ (Setup \cup {"none", "reaped"}),
         At(n) \notin Before => there \notin Before,
         NEW table, Move(Stage(n), there, table),
         \/ table \in {ClosePipe(fd[Stage(n)]), AllClosed}
         \/ /\ table \in {fd[Stage(n)], Save(fd[Stage(n)]), Restore(fd[Stage(n)])}
            /\ At(n) \notin Setup \cup Piping
         \/ /\ table \in {TakeWriteEnd(fd[Stage(n)]), TakeReadEnd(fd[Stage(n)])}
            /\ At(n) \in Before,
         there = "zombie" => table = AllClosed
  PROVE  HandsInv'
<1> DEFINE t == fd[Stage(n)]
<1>1. t \in [Slot -> File] /\ Stage(n) \in Proc
  BY Names DEF TypeOK
<1>2. table \in [Slot -> File]
  <2>1. /\ ClosePipe(t) \in [Slot -> File] /\ TakeWriteEnd(t) \in [Slot -> File]
        /\ TakeReadEnd(t) \in [Slot -> File] /\ Save(t) \in [Slot -> File]
        /\ Restore(t) \in [Slot -> File] /\ AllClosed \in [Slot -> File]
    <3>1. Closed \in File
      BY DEF File
    <3> QED
      BY <1>1, <3>1, SavedTables DEF ClosePipe, TakeWriteEnd, TakeReadEnd, Slot
  <2> QED
    BY <1>1, <2>1
<1>3. Drawn(table, t)
  BY <1>1, TablesDrawn
<1>4. \A s \in Slot : \A m \in Pipes : table[s] \in EndsOf(m) => \E u \in Slot : table[s] = t[u]
  BY <1>3, Ends, Parents DEF Drawn
<1>5. \A s \in Streaming : t[s] \notin EndsOf(n)
  BY DEF HandsInv, StageHand
<1>6. At(n) \in Before => \A u \in Slot : t[u] \notin EndsOf(n)
  BY <1>1, NotMadeYet
<1>7. ASSUME NEW s \in Streaming
      PROVE  table[s] \notin EndsOf(n)
  <2>1. CASE At(n) \in Before
    BY <1>3, <1>6, <2>1, Ends DEF Drawn
  <2>2. CASE At(n) \notin Before
    <3>1. table \in {ClosePipe(t), AllClosed, t, Save(t), Restore(t)}
      BY <2>2
    <3>2. table[s] = Closed \/ \E u \in Streaming : table[s] = t[u]
      BY <1>1, <3>1, TableSlots, Ends
    <3> QED
      BY <1>5, <3>2, Ends
  <2> QED
    BY <2>1, <2>2
<1>8. table["p0"] = Closed /\ table["p1"] = Closed
  <2>1. CASE table \in {ClosePipe(t), AllClosed, TakeWriteEnd(t), TakeReadEnd(t)}
    BY <1>1, <2>1, TableSlots
  <2>2. CASE table \in {t, Save(t), Restore(t)} /\ At(n) \notin Setup \cup Piping
    <3>1. t["p0"] = Closed /\ t["p1"] = Closed
      BY <2>2 DEF HandsInv, StageHand
    <3> QED
      BY <1>1, <2>2, <3>1, TableSlots
  <2> QED
    BY <2>1, <2>2
<1> HIDE DEF t
<1>9. \A s \in Slot : \A m \in Pipes : table[s] \in EndsOf(m) =>
         \/ \E u \in Slot : table[s] = fd[Stage(n)][u]
         \/ m = n /\ there \notin Before
  BY <1>4 DEF t
<1> QED
  BY <1>2, <1>7, <1>8, <1>9, HandsMove

\* No descriptor changes hands.
LEMMA HandsKept ==
  ASSUME HandsInv, UNCHANGED fd,
         \A p \in Proc : pc'[p] \in Gone => pc[p] \in Gone,
         \A m \in Node : At(m) \notin Before => At(m)' \notin Before,
         \A m \in Node : At(m)' \notin Setup \cup Piping => At(m) \notin Setup \cup Piping
  PROVE  HandsInv'
<1>1. ASSUME NEW p \in Proc
      PROVE  Hand(p)'
  BY Parents DEF HandsInv, Hand, Subtree, ChildrenOf
<1>2. ASSUME NEW m \in Node
      PROVE  StageHand(m)'
  BY DEF HandsInv, StageHand
<1> QED
  BY <1>1, <1>2 DEF HandsInv

\* A command starts with the descriptors of its stage, and closes them all.
LEMMA HandsForkCommand ==
  ASSUME TypeOK, HandsInv, NEW l \in Leaves, At(l) = "launch",
         Fork(Stage(l), "wait command", Command(l), "setup")
  PROVE  HandsInv'
<1>1. MovesWithCommand(l, "wait command", "setup")
  BY Parents, PlaceAssigned DEF Fork
<1>2. /\ Stage(l) \in Proc /\ Command(l) \in Proc
      /\ \A p \in Proc : fd'[p] = fd[IF p = Command(l) THEN Stage(l) ELSE p]
      /\ \A p \in Proc : pc'[p] = IF p = Command(l) THEN "setup"
                                  ELSE IF p = Stage(l) THEN "wait command" ELSE pc[p]
  BY Names, Parents DEF TypeOK, Fork
<1>3. \A m \in Node : At(m) \notin Before => At(m)' \notin Before
  BY <1>1 DEF MovesWithCommand, Before, Setup
<1>4. ASSUME NEW p \in Proc
      PROVE  Hand(p)'
  <2>1. Hand(p) /\ Hand(Stage(l)) /\ Stage(l)[1] = l /\ Command(l)[1] = l
    BY <1>2, Names, Parents DEF HandsInv
  <2>2. pc'[p] \in Gone => fd'[p] = AllClosed
    BY <1>2, <2>1 DEF Hand, Gone
  <2>3. ASSUME NEW s \in Slot, NEW m \in Pipes, fd'[p][s] \in EndsOf(m)
        PROVE  p[1] \in Subtree(m) /\ At(m)' \notin Before
    BY <1>2, <1>3, <2>1, <2>3, Parents DEF Hand
  <2> QED
    BY <2>2, <2>3 DEF Hand, Subtree, ChildrenOf
<1>5. ASSUME NEW m \in Node
      PROVE  StageHand(m)'
  <2>1. fd'[Stage(m)] = fd[Stage(m)]
    BY <1>2, Names
  <2>2. At(m)' \notin Setup \cup Piping => At(m) \notin Setup \cup Piping
    BY <1>1 DEF MovesWithCommand, Setup, Piping
  <2> QED
    BY <2>1, <2>2 DEF HandsInv, StageHand
<1> QED
  BY <1>4, <1>5 DEF HandsInv

\* A command keeps its descriptors when it is run and closes them when it ends.
LEMMA HandsCommandMove ==
  ASSUME TypeOK, HandsInv, NEW l \in Leaves, NEW there, NEW table,
         Move(Command(l), there, table),
         \/ there = "run" /\ table = fd[Command(l)]
         \/ there = "zombie" /\ table = AllClosed
  PROVE  HandsInv'
<1>1. CommandMoves(l, there)
  BY Parents, PlaceAssigned DEF Move
<1>2. /\ Command(l) \in Proc
      /\ \A p \in Proc : fd'[p] = IF p = Command(l) THEN table ELSE fd[p]
      /\ \A p \in Proc : pc'[p] = IF p = Command(l) THEN there ELSE pc[p]
  BY Names DEF TypeOK, Move
<1>3. \A m \in Node : At(m)' = At(m)
  BY <1>1 DEF CommandMoves
<1>4. ASSUME NEW p \in Proc
      PROVE  Hand(p)'
  <2>1. Hand(p)
    BY DEF HandsInv
  <2>2. pc'[p] \in Gone => fd'[p] = AllClosed
    BY <1>2, <2>1 DEF Hand, Gone
  <2>3. ASSUME NEW s \in Slot, NEW m \in Pipes, fd'[p][s] \in EndsOf(m)
        PROVE  p[1] \in Subtree(m) /\ At(m)' \notin Before
    <3>1. fd'[p] = fd[p]
      <4>1. fd'[p] # AllClosed
        BY <2>3, Ends, Parents
      <4> QED
        BY <1>2, <4>1
    <3> QED
      BY <1>3, <2>1, <2>3, <3>1, Parents DEF Hand
  <2> QED
    BY <2>2, <2>3 DEF Hand, Subtree, ChildrenOf
<1>5. ASSUME NEW m \in Node
      PROVE  StageHand(m)'
  BY <1>2, <1>3, Names DEF HandsInv, StageHand
<1> QED
  BY <1>4, <1>5 DEF HandsInv

\* A child is waited for: its descriptors are closed already.
LEMMA HandsReap ==
  ASSUME TypeOK, HandsInv, NEW n \in Node, NEW here, NEW child \in Proc, NEW there,
         Reap(Stage(n), here, child, there), here \notin Before \cup Piping,
         there \notin Before \cup Piping \cup Gone, child # Stage(n)
  PROVE  HandsInv'
<1>1. Stage(n) \in Proc /\ At(n) = here
  BY Names DEF Reap, At
<1>2. \A p \in Proc : pc'[p] = IF p = child THEN "reaped" ELSE IF p = Stage(n) THEN there ELSE pc[p]
  BY <1>1 DEF TypeOK, Reap
<1>3. pc[child] = "zombie" /\ UNCHANGED fd
  BY DEF Reap
<1>4. \A p \in Proc : pc'[p] \in Gone => pc[p] \in Gone
  BY <1>1, <1>2, <1>3 DEF Gone
<1>5. \A m \in Node : /\ At(m) \notin Before => At(m)' \notin Before
                      /\ At(m)' \notin Setup \cup Piping => At(m) \notin Setup \cup Piping
  BY <1>1, <1>2, <1>3, Names DEF At, Before, Setup, Piping
<1> QED
  BY <1>3, <1>4, <1>5, HandsKept

\* Making the pipe gives its process both ends.
LEMMA HandsPipe ==
  ASSUME TypeOK, HandsInv, NEW n \in Pipes, At(n) = "exec",
         Move(Stage(n), "fork left",
              [fd[Stage(n)] EXCEPT !["p0"] = ReadEnd(n), !["p1"] = WriteEnd(n)])
  PROVE  HandsInv'
<1> DEFINE t     == fd[Stage(n)]
           table == [t EXCEPT !["p0"] = ReadEnd(n), !["p1"] = WriteEnd(n)]
<1>1. n \in Node /\ t \in [Slot -> File]
  BY Names, Parents DEF TypeOK
<1>2. table \in [Slot -> File]
  BY <1>1, Tables
<1>3. \A s \in Slot : IF s = "p0" THEN table[s] = ReadEnd(n)
                      ELSE IF s = "p1" THEN table[s] = WriteEnd(n) ELSE table[s] = t[s]
  BY <1>1 DEF Slot
<1>4. \A s \in Streaming : table[s] \notin EndsOf(n)
  BY <1>1, <1>3 DEF HandsInv, StageHand, Streaming, Slot
<1>5. ASSUME NEW s \in Slot, NEW m \in Pipes, table[s] \in EndsOf(m)
      PROVE  (\E u \in Slot : table[s] = t[u]) \/ (m = n /\ "fork left" \notin Before)
  <2>1. CASE s \in {"p0", "p1"}
    <3>1. table[s] \in EndsOf(n)
      BY <1>3, <2>1 DEF EndsOf
    <3> QED
      BY <1>1, <1>5, <3>1, Ends, Parents DEF Before, Setup
  <2>2. CASE s \notin {"p0", "p1"}
    BY <1>3, <2>2
  <2> QED
    BY <2>1, <2>2
<1>6. /\ "fork left" \in PCs \ (Setup \cup {"none", "reaped"})
      /\ "fork left" \notin Before /\ "fork left" \in Piping
  BY DEF PCs, Setup, Before, Piping
<1>7. Move(Stage(n), "fork left", table)
  OBVIOUS
<1> HIDE DEF table
<1> QED
  BY <1>1, <1>2, <1>4, <1>5, <1>6, <1>7, HandsMove

\* execute_pipe_command gives its ends to its two children and to no one else.
LEMMA HandsPipeStep ==
  ASSUME IInv, FamilyInv, HandsInv, NEW n \in Pipes, PipeStep(n)
  PROVE  HandsInv'
<1> USE DEF Setup, Before, PCs
<1>1. TypeOK /\ n \in Node
  BY Parents DEF IInv
<1>2. PipeFamily(At(n), At(LeftOf[n]), At(RightOf[n]))
  BY DEF FamilyInv
<1>3. /\ Stage(LeftOf[n]) \in Proc /\ Stage(LeftOf[n]) # Stage(n)
      /\ Stage(RightOf[n]) \in Proc /\ Stage(RightOf[n]) # Stage(n)
  BY Names, Parents
<1>4. CASE SetupPipes(n)
  <2>1. At(n) = "exec"
    BY <1>4 DEF SetupPipes, At
  <2>2. CASE Move(Stage(n), "fork left",
                  [fd[Stage(n)] EXCEPT !["p0"] = ReadEnd(n), !["p1"] = WriteEnd(n)])
    BY <1>1, <2>1, <2>2, HandsPipe
  <2>3. CASE Move(Stage(n), "finish", fd[Stage(n)])
    BY <1>1, <2>1, <2>3, HandsDrawn DEF Piping
  <2> QED
    BY <1>4, <2>2, <2>3 DEF SetupPipes, Attempt, ReturnFailure
<1>5. CASE ForkLeftChecked(n)
  <2>1. At(n) = "fork left" /\ At(LeftOf[n]) = "none"
    BY <1>2, <1>5 DEF ForkLeftChecked, At, PipeFamily
  <2>2. CASE Fork(Stage(n), "fork right", Stage(LeftOf[n]), "left setup")
    BY <1>1, <2>1, <2>2, HandsFork DEF Piping
  <2>3. CASE Move(Stage(n), "finish", ClosePipe(fd[Stage(n)]))
    BY <1>1, <2>1, <2>3, HandsDrawn
  <2> QED
    BY <1>5, <2>2, <2>3 DEF ForkLeftChecked, Attempt, ReturnFailure
<1>6. CASE ForkRightChecked(n)
  <2>1. At(n) = "fork right" /\ At(RightOf[n]) = "none"
    BY <1>2, <1>6 DEF ForkRightChecked, At, PipeFamily
  <2>2. CASE Fork(Stage(n), "close ends", Stage(RightOf[n]), "right setup")
    BY <1>1, <2>1, <2>2, HandsFork DEF Piping
  <2>3. CASE Move(Stage(n), "wait orphan", ClosePipe(fd[Stage(n)]))
    BY <1>1, <2>1, <2>3, HandsDrawn
  <2> QED
    BY <1>6, <2>2, <2>3 DEF ForkRightChecked, Attempt
<1>7. CASE CloseEnds(n)
  <2>1. Move(Stage(n), "wait left", ClosePipe(fd[Stage(n)]))
    BY <1>7 DEF CloseEnds
  <2> QED
    BY <1>1, <2>1, HandsDrawn
<1>8. CASE WaitOrphan(n)
  BY <1>1, <1>3, <1>8, HandsReap DEF WaitOrphan, Piping, Gone
<1>9. CASE WaitLeft(n)
  BY <1>1, <1>3, <1>9, HandsReap DEF WaitLeft, Piping, Gone
<1>10. CASE WaitRight(n)
  BY <1>1, <1>3, <1>10, HandsReap DEF WaitRight, Piping, Gone
<1> QED
  BY <1>4, <1>5, <1>6, <1>7, <1>8, <1>9, <1>10 DEF PipeStep

\* left_child, right_child and the end of a stage pass no end on.
LEMMA HandsNodeStep ==
  ASSUME IInv, FamilyInv, HandsInv, NEW n \in Node, NodeStep(n)
  PROVE  HandsInv'
<1> USE DEF Setup, Before, PCs
<1>1. TypeOK
  BY DEF IInv
<1>2. ASSUME NEW here \in Setup, NEW table, ChildStarts(Stage(n), here, table),
             table \in {TakeWriteEnd(fd[Stage(n)]), TakeReadEnd(fd[Stage(n)])}
      PROVE  HandsInv'
  <2>1. At(n) \in Before
    BY <1>2 DEF ChildStarts, At
  <2>2. CASE Move(Stage(n), "exec", table)
    BY <1>1, <1>2, <2>1, <2>2, HandsDrawn
  <2>3. CASE Move(Stage(n), "zombie", AllClosed)
    BY <1>1, <2>1, <2>3, HandsDrawn
  <2> QED
    BY <1>2, <2>2, <2>3 DEF ChildStarts, Attempt, Exit
<1>3. CASE LeftChild(n) \/ RightChild(n)
  BY <1>2, <1>3 DEF LeftChild, RightChild
<1>4. CASE Finish(n)
  <2>1. At(n) = "finish"
    BY <1>4 DEF Finish, At
  <2>2. CASE Move(Stage(n), "prompt", Restore(fd[Stage(n)]))
    BY <1>1, <2>1, <2>2, HandsDrawn DEF Piping
  <2>3. CASE Move(Stage(n), "zombie", AllClosed)
    BY <1>1, <2>1, <2>3, HandsDrawn
  <2> QED
    BY <1>4, <2>2, <2>3 DEF Finish, Exit
<1> QED
  BY <1>3, <1>4 DEF NodeStep

\* A leaf gives its command what it holds itself.
LEMMA HandsLeafStep ==
  ASSUME IInv, FamilyInv, HandsInv, NEW l \in Leaves, LeafStep(l)
  PROVE  HandsInv'
<1> USE DEF Setup, Before, PCs
<1>1. TypeOK /\ l \in Node
  BY Parents DEF IInv
<1>2. CASE SaveFds(l)
  <2>1. At(l) = "exec"
    BY <1>2 DEF SaveFds, At
  <2>2. CASE Move(Stage(l), IF work[l] = "builtin" THEN "builtin" ELSE "launch", Save(fd[Stage(l)]))
    BY <1>1, <2>1, <2>2, HandsDrawn DEF Piping
  <2>3. CASE Move(Stage(l), "finish", fd[Stage(l)])
    BY <1>1, <2>1, <2>3, HandsDrawn DEF Piping
  <2> QED
    BY <1>2, <2>2, <2>3 DEF SaveFds, Attempt, ReturnFailure
<1>3. CASE WordToken(l)
  BY <1>1, <1>3, HandsDrawn DEF WordToken, At, Piping
<1>4. CASE ForkCommand(l)
  <2>1. At(l) = "launch"
    BY <1>4 DEF ForkCommand, At
  <2>2. CASE Fork(Stage(l), "wait command", Command(l), "setup")
    BY <1>1, <2>1, <2>2, HandsForkCommand
  <2>3. CASE Move(Stage(l), "finish", fd[Stage(l)])
    BY <1>1, <2>1, <2>3, HandsDrawn DEF Piping
  <2> QED
    BY <1>4, <2>2, <2>3 DEF ForkCommand, Attempt, ReturnFailure
<1>5. CASE WaitCommand(l)
  <2>1. Command(l) \in Proc /\ Command(l) # Stage(l)
    BY Names, Parents
  <2> QED
    BY <1>1, <1>5, <2>1, HandsReap DEF WaitCommand, Piping, Gone
<1>6. CASE Builtin(l)
  <2>1. At(l) = "builtin"
    BY <1>6 DEF Builtin, At
  <2>2. CASE Move(Stage(l), "finish", fd[Stage(l)])
    BY <1>1, <2>1, <2>2, HandsDrawn DEF Piping
  <2>3. CASE Move(Stage(l), "zombie", AllClosed)
    BY <1>1, <2>1, <2>3, HandsDrawn
  <2>4. CASE UNCHANGED <<pc, fd>>
    BY <2>4, HandsKept DEF At
  <2> QED
    BY <1>6, <2>2, <2>3, <2>4 DEF Builtin, WriteNext, Write, Exit
<1> QED
  BY <1>2, <1>3, <1>4, <1>5, <1>6 DEF LeafStep

\* Commands open nothing.
LEMMA HandsCommandStep ==
  ASSUME IInv, HandsInv, NEW l \in Leaves, CommandStep(l)
  PROVE  HandsInv'
<1>1. TypeOK
  BY DEF IInv
<1>2. \/ Move(Command(l), "run", fd[Command(l)])
      \/ Move(Command(l), "zombie", AllClosed)
      \/ UNCHANGED <<pc, fd>>
  BY DEF CommandStep, ChildExecExternal, CommandWrites, CommandReads, CommandExits,
         WriteNext, Write, Exit
<1>3. CASE UNCHANGED <<pc, fd>>
  BY <1>3, HandsKept DEF At
<1> QED
  BY <1>1, <1>2, <1>3, HandsCommandMove

\* Between two lines nobody holds a pipe.
LEMMA HandsNextLine ==
  ASSUME IInv, FamilyInv, HandsInv, NextLine
  PROVE  HandsInv'
<1>1. TypeOK /\ ShellInv /\ AtPrompt /\ UNCHANGED fd
  BY DEF IInv, NextLine
<1>2. LineStarts'
  BY <1>1, NextLineStarts
<1>3. \A p \in Proc \ {Shell} : fd[p] = AllClosed
  BY <1>1, PromptAlone, Names DEF HandsInv, Hand, Gone, Absent, At, Cmd
<1>4. \A s \in Slot : fd[Shell][s] \in {Terminal, Closed}
  BY <1>1 DEF ShellInv, Fits, AtPrompt, Slot, Saved, Piping
<1>5. fd[Shell]["p0"] = Closed /\ fd[Shell]["p1"] = Closed
  BY <1>1 DEF ShellInv, Fits, AtPrompt, Piping
<1>6. pc'[Shell] = "exec"
  BY <1>2, Names DEF LineStarts, At
<1>7. \A p \in Proc, s \in Slot : fd[p][s] \in {Terminal, Closed}
  BY <1>3, <1>4, Ends
<1>8. \A p \in Proc, s \in Slot, n \in Node : fd[p][s] \notin EndsOf(n)
  BY <1>7, Ends
<1>9. ASSUME NEW p \in Proc PROVE Hand(p)'
  BY <1>1, <1>3, <1>6, <1>8, Parents DEF Hand, Gone
<1>10. ASSUME NEW n \in Node PROVE StageHand(n)'
  <2>1. fd[Stage(n)]["p0"] = Closed /\ fd[Stage(n)]["p1"] = Closed
    BY <1>3, <1>5, Names, Ends
  <2> QED
    BY <1>1, <1>8, <2>1, Names, Ends DEF StageHand
<1> QED
  BY <1>9, <1>10 DEF HandsInv

\* Nobody holds a pipe at first.
LEMMA HandsInit == Init => HandsInv
<1> SUFFICES ASSUME Init PROVE HandsInv
  OBVIOUS
<1>1. \A p \in Proc : fd[p] = IF p = Shell THEN AtStart ELSE AllClosed
  BY DEF Init
<1>2. \A s \in Slot : AtStart[s] \in {Terminal, Closed}
  BY Ends DEF AtStart
<1>3. \A s \in {"p0", "p1"} : AtStart[s] = Closed
  BY Ends DEF AtStart
<1>4. \A p \in Proc, s \in Slot, n \in Node : fd[p][s] \notin EndsOf(n)
  BY <1>1, <1>2, Ends
<1>5. pc[Shell] = "exec"
  BY Names DEF Init
<1>6. ASSUME NEW p \in Proc PROVE Hand(p)
  BY <1>1, <1>4, <1>5, Parents DEF Hand, Gone
<1>7. ASSUME NEW n \in Node PROVE StageHand(n)
  <2>1. fd[Stage(n)]["p0"] = Closed /\ fd[Stage(n)]["p1"] = Closed
    BY <1>1, <1>3, Names, Ends
  <2> QED
    BY <1>4, <2>1, Names, Ends DEF StageHand
<1> QED
  BY <1>6, <1>7 DEF HandsInv

\* Every step keeps the hands as they should be.
LEMMA HandsStep == IInv /\ FamilyInv /\ HandsInv /\ [Next]_vars => HandsInv'
<1> SUFFICES ASSUME IInv, FamilyInv, HandsInv, [Next]_vars PROVE HandsInv'
  OBVIOUS
<1>1. CASE UNCHANGED vars
  BY <1>1, HandsKept DEF vars, At
<1> QED
  BY <1>1, HandsPipeStep, HandsLeafStep, HandsCommandStep, HandsNodeStep, HandsNextLine DEF Next

\* Who holds which descriptors, in every reachable state.
THEOREM HandsKeptAlways == Spec => []HandsInv
  BY Invariance, FamilyKept, HandsInit, HandsStep, PTL DEF Spec

\* A process that waits for the sides of its pipe (waitpid in
\* execute_pipe_command and after a failed fork_right) holds no end of it
\* itself, in none of its six descriptors: so it neither keeps the writer from
\* its SIGPIPE nor the reader from its end of file.
THEOREM WaitsEmptyHandedAlways == Spec => []WaitsEmptyHanded
<1>1. HandsInv => WaitsEmptyHanded
  <2> SUFFICES ASSUME HandsInv, NEW n \in Pipes,
                      At(n) \in {"wait left", "wait right", "wait orphan"}
               PROVE  ~Holds(Stage(n), ReadEnd(n)) /\ ~Holds(Stage(n), WriteEnd(n))
    BY DEF WaitsEmptyHanded, At
  <2>1. n \in Node /\ StageHand(n)
    BY Parents DEF HandsInv
  <2>2. fd[Stage(n)]["p0"] = Closed /\ fd[Stage(n)]["p1"] = Closed
    BY <2>1 DEF StageHand, Setup, Piping
  <2>3. \A s \in Streaming : fd[Stage(n)][s] \notin EndsOf(n)
    BY <2>1 DEF StageHand
  <2>4. Closed \notin EndsOf(n)
    BY <2>1, Ends
  <2>5. \A s \in Slot : fd[Stage(n)][s] \notin EndsOf(n)
    BY <2>2, <2>3, <2>4 DEF Slot, Streaming
  <2> QED
    BY <2>5 DEF Holds, EndsOf
<1> QED
  BY <1>1, HandsKeptAlways, PTL

-----------------------------------------------------------------------------
(***************************************************************************)
(* The right stage of a pipe reads it: from the fork until it exits it     *)
(* holds the read end.                                                     *)
(***************************************************************************)
\* The places of a pipe's process after both sides were forked.
Forked == {"close ends", "wait left", "wait right"}

Reader(m) ==
    /\ At(m) \in Piping => fd[Stage(m)]["p0"] = ReadEnd(m)
    /\ At(m) \in Forked =>
          IF At(RightOf[m]) = "right setup" THEN fd[Stage(RightOf[m])]["p0"] = ReadEnd(m)
          ELSE At(RightOf[m]) \in Gone \/ fd[Stage(RightOf[m])]["in"] = ReadEnd(m)

ReaderInv == \A m \in Pipes : Reader(m)

\* A stage moves on: its input stays, or becomes the pipe's read end.
LEMMA ReaderMove ==
  ASSUME TypeOK, FamilyInv, ReaderInv, NEW n \in Node, NEW there \in PCs \ Setup, NEW table,
         Move(Stage(n), there, table),
         there \in Piping => table["p0"] = ReadEnd(n),
         there \in Forked => At(n) \in Forked,
         At(n) \notin Gone,
         \/ there = "zombie" \/ n = Root
         \/ At(n) = "left setup"
         \/ At(n) = "right setup" /\ table["in"] = fd[Stage(n)]["p0"]
         \/ At(n) # "right setup" /\ table["in"] = fd[Stage(n)]["in"]
  PROVE  ReaderInv'
<1>1. Moves(n, there)
  BY PlaceAssigned DEF Move
<1>2. \A m \in Node : fd'[Stage(m)] = IF m = n THEN table ELSE fd[Stage(m)]
  BY Names DEF TypeOK, Move
<1>3. ASSUME NEW m \in Pipes
      PROVE  Reader(m)'
  <2>1. m \in Node /\ RightOf[m] \in Node /\ RightOf[m] # m /\ Reader(m)
    BY Parents DEF ReaderInv
  <2>2. CASE m = n
    <3>1. At(RightOf[m])' = At(RightOf[m]) /\ fd'[Stage(RightOf[m])] = fd[Stage(RightOf[m])]
      BY <1>1, <1>2, <2>1, <2>2 DEF Moves
    <3>2. At(m)' = there /\ fd'[Stage(m)] = table
      BY <1>1, <1>2, <2>1, <2>2 DEF Moves
    <3> QED
      BY <2>1, <2>2, <3>1, <3>2 DEF Reader
  <2>3. CASE RightOf[m] = n
    <3>1. At(m)' = At(m) /\ fd'[Stage(m)] = fd[Stage(m)]
      BY <1>1, <1>2, <2>1, <2>3 DEF Moves
    <3>2. At(n)' = there /\ fd'[Stage(n)] = table /\ there # "right setup"
      BY <1>1, <1>2 DEF Moves, Setup
    <3>3. n # Root /\ At(n) # "left setup"
      BY <2>3, Parents DEF FamilyInv, Placed
    <3>4. there \in Gone \/ table["in"] = IF At(n) = "right setup" THEN fd[Stage(n)]["p0"]
                                          ELSE fd[Stage(n)]["in"]
      BY <3>3 DEF Gone
    <3> QED
      BY <2>1, <2>3, <3>1, <3>2, <3>4 DEF Reader
  <2>4. CASE m # n /\ RightOf[m] # n
    <3>1. At(m)' = At(m) /\ fd'[Stage(m)] = fd[Stage(m)]
      BY <1>1, <1>2, <2>1, <2>4 DEF Moves
    <3>2. At(RightOf[m])' = At(RightOf[m]) /\ fd'[Stage(RightOf[m])] = fd[Stage(RightOf[m])]
      BY <1>1, <1>2, <2>1, <2>4 DEF Moves
    <3> QED
      BY <2>1, <3>1, <3>2 DEF Reader
  <2> QED
    BY <2>2, <2>3, <2>4
<1> QED
  BY <1>3 DEF ReaderInv

\* The sides of a pipe are forked: the right one with the read end.
LEMMA ReaderFork ==
  ASSUME TypeOK, FamilyInv, ReaderInv, NEW n \in Pipes, NEW there \in Piping, NEW new \in Setup,
         NEW child \in {LeftOf[n], RightOf[n]}, At(n) \in Piping, At(child) = "none", Fork(Stage(n), there, Stage(child), new),
         \/ there = "fork right" /\ child = LeftOf[n] /\ new = "left setup"
         \/ there = "close ends" /\ child = RightOf[n] /\ new = "right setup"
  PROVE  ReaderInv'
<1>1. /\ n \in Node /\ child \in Node /\ child # n /\ child # Root /\ RightOf[n] \in Node
      /\ LeftOf[n] # RightOf[n] /\ RightOf[n] # n
  BY Parents
<1>2. MovesWith(n, there, child, new)
  BY <1>1, PlaceAssigned DEF Fork
<1>3. \A m \in Node : fd'[Stage(m)] = IF m = child THEN fd[Stage(n)] ELSE fd[Stage(m)]
  BY <1>1, Names DEF TypeOK, Fork
<1>4. At(n)' = there /\ At(child)' = new /\ fd'[Stage(n)] = fd[Stage(n)]
      /\ fd'[Stage(child)] = fd[Stage(n)]
  BY <1>1, <1>2, <1>3 DEF MovesWith
<1>5. ASSUME NEW m \in Pipes
      PROVE  Reader(m)'
  <2>1. m \in Node /\ RightOf[m] \in Node /\ RightOf[m] # m /\ Reader(m)
    BY Parents DEF ReaderInv
  <2>2. CASE m = n
    <3>1. fd[Stage(n)]["p0"] = ReadEnd(n)
      BY <2>1, <2>2 DEF Reader
    <3> QED
      BY <1>4, <2>2, <3>1 DEF Reader, Forked
  <2>3. CASE m = child
    BY <1>4, <2>3 DEF Reader, Forked, Piping
  <2>4. CASE m \notin {n, child}
    <3>1. At(m)' = At(m) /\ fd'[Stage(m)] = fd[Stage(m)]
      BY <1>2, <1>3, <2>1, <2>4 DEF MovesWith
    <3>2. RightOf[m] # child
      BY <2>4, Parents
    <3>3. CASE RightOf[m] = n
      BY <1>4, <2>1, <3>1, <3>3 DEF Reader, Gone, Piping
    <3>4. CASE RightOf[m] # n
      <4>1. At(RightOf[m])' = At(RightOf[m]) /\ fd'[Stage(RightOf[m])] = fd[Stage(RightOf[m])]
        BY <1>2, <1>3, <2>1, <3>2, <3>4 DEF MovesWith
      <4> QED
        BY <2>1, <3>1, <4>1 DEF Reader
    <3> QED
      BY <3>3, <3>4
  <2> QED
    BY <2>2, <2>3, <2>4
<1> QED
  BY <1>5 DEF ReaderInv

\* No stage's descriptors change.
LEMMA ReaderQuiet ==
  ASSUME ReaderInv,
         \A m \in Node : /\ fd'[Stage(m)] = fd[Stage(m)]
                         /\ At(m)' \in Piping => At(m) \in Piping
                         /\ At(m)' \in Forked => At(m) \in Forked
                         /\ At(m)' = "right setup" <=> At(m) = "right setup"
                         /\ At(m) \in Gone => At(m)' \in Gone
  PROVE  ReaderInv'
  BY Parents DEF ReaderInv, Reader

\* A child is waited for.
LEMMA ReaderReap ==
  ASSUME TypeOK, ReaderInv, NEW n \in Node, NEW here, NEW child \in Proc, NEW there,
         Reap(Stage(n), here, child, there), child # Stage(n),
         here \notin Piping \cup Setup \cup Gone, there \notin Piping \cup Setup \cup Gone,
         there \in Forked => here \in Forked
  PROVE  ReaderInv'
<1>1. Stage(n) \in Proc /\ At(n) = here
  BY Names DEF Reap, At
<1>2. \A p \in Proc : pc'[p] = IF p = child THEN "reaped" ELSE IF p = Stage(n) THEN there ELSE pc[p]
  BY <1>1 DEF TypeOK, Reap
<1>3. pc[child] = "zombie" /\ UNCHANGED fd
  BY DEF Reap
<1> QED
  BY <1>1, <1>2, <1>3, Names, ReaderQuiet DEF At, Piping, Setup, Gone, Forked

\* The process of a pipe keeps the read end until the right side has it.
LEMMA ReaderPipeStep ==
  ASSUME IInv, FamilyInv, ReaderInv, NEW n \in Pipes, PipeStep(n)
  PROVE  ReaderInv'
<1> USE DEF PCs, Setup, Gone, Forked, Piping
<1>1. TypeOK /\ n \in Node /\ fd[Stage(n)] \in [Slot -> File]
  BY Parents, Names DEF IInv, TypeOK
<1>2. PipeFamily(At(n), At(LeftOf[n]), At(RightOf[n]))
  BY DEF FamilyInv
<1>3. /\ Stage(LeftOf[n]) \in Proc /\ Stage(LeftOf[n]) # Stage(n)
      /\ Stage(RightOf[n]) \in Proc /\ Stage(RightOf[n]) # Stage(n)
  BY Names, Parents
<1>4. ClosePipe(fd[Stage(n)])["in"] = fd[Stage(n)]["in"]
  BY <1>1, TableSlots DEF Streaming
<1>5. CASE SetupPipes(n)
  <2>1. At(n) = "exec"
    BY <1>5 DEF SetupPipes, At
  <2>2. LET table == [fd[Stage(n)] EXCEPT !["p0"] = ReadEnd(n), !["p1"] = WriteEnd(n)]
        IN  table["p0"] = ReadEnd(n) /\ table["in"] = fd[Stage(n)]["in"]
    BY <1>1 DEF Slot
  <2>3. CASE Move(Stage(n), "fork left",
                  [fd[Stage(n)] EXCEPT !["p0"] = ReadEnd(n), !["p1"] = WriteEnd(n)])
    BY <1>1, <2>1, <2>2, <2>3, ReaderMove
  <2>4. CASE Move(Stage(n), "finish", fd[Stage(n)])
    BY <1>1, <2>1, <2>4, ReaderMove
  <2> QED
    BY <1>5, <2>3, <2>4 DEF SetupPipes, Attempt, ReturnFailure
<1>6. CASE ForkLeftChecked(n)
  <2>1. At(n) = "fork left" /\ At(LeftOf[n]) = "none"
    BY <1>2, <1>6 DEF ForkLeftChecked, At, PipeFamily
  <2>2. CASE Fork(Stage(n), "fork right", Stage(LeftOf[n]), "left setup")
    BY <1>1, <2>1, <2>2, ReaderFork
  <2>3. CASE Move(Stage(n), "finish", ClosePipe(fd[Stage(n)]))
    BY <1>1, <1>4, <2>1, <2>3, ReaderMove
  <2> QED
    BY <1>6, <2>2, <2>3 DEF ForkLeftChecked, Attempt, ReturnFailure
<1>7. CASE ForkRightChecked(n)
  <2>1. At(n) = "fork right" /\ At(RightOf[n]) = "none"
    BY <1>2, <1>7 DEF ForkRightChecked, At, PipeFamily
  <2>2. CASE Fork(Stage(n), "close ends", Stage(RightOf[n]), "right setup")
    BY <1>1, <2>1, <2>2, ReaderFork
  <2>3. CASE Move(Stage(n), "wait orphan", ClosePipe(fd[Stage(n)]))
    BY <1>1, <1>4, <2>1, <2>3, ReaderMove
  <2> QED
    BY <1>7, <2>2, <2>3 DEF ForkRightChecked, Attempt
<1>8. CASE CloseEnds(n)
  <2>1. At(n) = "close ends" /\ Move(Stage(n), "wait left", ClosePipe(fd[Stage(n)]))
    BY <1>8 DEF CloseEnds, At
  <2> QED
    BY <1>1, <1>4, <2>1, ReaderMove
<1>9. CASE WaitOrphan(n)
  BY <1>1, <1>3, <1>9, ReaderReap DEF WaitOrphan
<1>10. CASE WaitLeft(n)
  BY <1>1, <1>3, <1>10, ReaderReap DEF WaitLeft
<1>11. CASE WaitRight(n)
  BY <1>1, <1>3, <1>11, ReaderReap DEF WaitRight
<1> QED
  BY <1>5, <1>6, <1>7, <1>8, <1>9, <1>10, <1>11 DEF PipeStep

\* The right side makes the read end its input.
LEMMA ReaderNodeStep ==
  ASSUME IInv, FamilyInv, ReaderInv, NEW n \in Node, NodeStep(n)
  PROVE  ReaderInv'
<1> USE DEF PCs, Setup, Gone, Forked, Piping
<1>1. TypeOK /\ fd[Stage(n)] \in [Slot -> File]
  BY Names DEF IInv, TypeOK
<1>2. TakeReadEnd(fd[Stage(n)])["in"] = fd[Stage(n)]["p0"]
  BY <1>1, TableSlots
<1>3. CASE LeftChild(n)
  BY <1>1, <1>3, ReaderMove DEF LeftChild, ChildStarts, Attempt, Exit, At
<1>4. CASE RightChild(n)
  BY <1>1, <1>2, <1>4, ReaderMove DEF RightChild, ChildStarts, Attempt, Exit, At
<1>5. CASE Finish(n)
  <2>1. Stage(n) = Shell => n = Root
    BY Names
  <2> QED
    BY <1>1, <1>5, <2>1, ReaderMove DEF Finish, Exit, At
<1> QED
  BY <1>3, <1>4, <1>5 DEF NodeStep

\* A leaf keeps its input while it lives.
LEMMA ReaderLeafStep ==
  ASSUME IInv, FamilyInv, ReaderInv, NEW l \in Leaves, LeafStep(l)
  PROVE  ReaderInv'
<1> USE DEF PCs, Setup, Gone, Forked, Piping
<1>1. TypeOK /\ l \in Node /\ fd[Stage(l)] \in [Slot -> File]
  BY Parents, Names DEF IInv, TypeOK
<1>2. Save(fd[Stage(l)])["in"] = fd[Stage(l)]["in"]
  BY <1>1, TableSlots
<1>3. CASE SaveFds(l)
  BY <1>1, <1>2, <1>3, ReaderMove DEF SaveFds, Attempt, ReturnFailure, At
<1>4. CASE WordToken(l)
  BY <1>1, <1>4, ReaderMove DEF WordToken, At
<1>5. CASE ForkCommand(l)
  <2>1. At(l) = "launch"
    BY <1>5 DEF ForkCommand, At
  <2>2. CASE Fork(Stage(l), "wait command", Command(l), "setup")
    <3>1. MovesWithCommand(l, "wait command", "setup")
      BY <1>1, <2>2, PlaceAssigned DEF Fork
    <3>2. \A m \in Node : fd'[Stage(m)] = fd[Stage(m)]
      BY <1>1, <2>2, Names DEF Fork, TypeOK
    <3> QED
      BY <2>1, <3>1, <3>2, ReaderQuiet DEF MovesWithCommand
  <2>3. CASE Move(Stage(l), "finish", fd[Stage(l)])
    BY <1>1, <2>1, <2>3, ReaderMove
  <2> QED
    BY <1>5, <2>2, <2>3 DEF ForkCommand, Attempt, ReturnFailure
<1>6. CASE WaitCommand(l)
  <2>1. Command(l) \in Proc /\ Command(l) # Stage(l)
    BY Names, Parents
  <2> QED
    BY <1>1, <1>6, <2>1, ReaderReap DEF WaitCommand
<1>7. CASE Builtin(l)
  <2>1. At(l) = "builtin"
    BY <1>7 DEF Builtin, At
  <2>2. CASE Move(Stage(l), "finish", fd[Stage(l)]) \/ Move(Stage(l), "zombie", AllClosed)
    BY <1>1, <2>1, <2>2, ReaderMove
  <2>3. CASE UNCHANGED <<pc, fd>>
    BY <2>3, ReaderQuiet DEF At
  <2> QED
    BY <1>7, <2>2, <2>3 DEF Builtin, WriteNext, Write, Exit
<1> QED
  BY <1>3, <1>4, <1>5, <1>6, <1>7 DEF LeafStep

\* Commands have processes of their own.
LEMMA CommandApart ==
  ASSUME TypeOK, NEW l \in Leaves, CommandStep(l)
  PROVE  \A n \in Node : At(n)' = At(n) /\ fd'[Stage(n)] = fd[Stage(n)]
<1>1. \/ \E there, table : Move(Command(l), there, table)
      \/ UNCHANGED <<pc, fd>>
  BY DEF CommandStep, ChildExecExternal, CommandWrites, CommandReads, CommandExits,
         WriteNext, Write, Exit
<1> QED
  BY <1>1, Names DEF Move, At, TypeOK

\* Every step leaves the pipe its reader.
LEMMA ReaderStep == IInv /\ FamilyInv /\ ReaderInv /\ [Next]_vars => ReaderInv'
<1> SUFFICES ASSUME IInv, FamilyInv, ReaderInv, [Next]_vars PROVE ReaderInv'
  OBVIOUS
<1>1. TypeOK
  BY DEF IInv
<1>2. CASE UNCHANGED vars
  BY <1>2, ReaderQuiet DEF vars, At
<1>3. ASSUME NEW l \in Leaves, CommandStep(l) PROVE ReaderInv'
  BY <1>1, <1>3, CommandApart, ReaderQuiet
<1>4. CASE NextLine
  BY <1>1, <1>4, NextLineStarts, Parents DEF LineStarts, ReaderInv, Reader, Piping, Forked
<1> QED
  BY <1>2, <1>3, <1>4, ReaderPipeStep, ReaderLeafStep, ReaderNodeStep DEF Next

\* There is no pipe at first.
LEMMA ReaderInit == Init => ReaderInv
  BY Names, Parents DEF Init, ReaderInv, Reader, At, Piping, Forked

\* The reader of every pipe, in every reachable state.
THEOREM ReaderAlways == Spec => []ReaderInv
  BY Invariance, FamilyKept, ReaderInit, ReaderStep, PTL DEF Spec

-----------------------------------------------------------------------------
(***************************************************************************)
(* The right spine of the tree: the nodes whose output is the line's, and  *)
(* whose status is the line's.                                             *)
(***************************************************************************)
RightSpine(n) == {m \in Node : \A S \in SUBSET Node :
                     n \in S /\ (\A k \in S \cap Pipes : RightOf[k] \in S) => m \in S}

\* RightSpine(n) is closed under right children.
LEMMA SpineClosed ==
  ASSUME NEW n \in Node
  PROVE  /\ n \in RightSpine(n) /\ RightSpine(n) \subseteq Node
         /\ \A m \in Pipes : m \in RightSpine(n) => RightOf[m] \in RightSpine(n)
  BY Parents DEF RightSpine

\* And it is the least such set.
LEMMA SpineLeast ==
  ASSUME NEW n \in Node, NEW S \in SUBSET Node, n \in S,
         \A m \in Pipes : m \in S => RightOf[m] \in S
  PROVE  RightSpine(n) \subseteq S
  BY DEF RightSpine

\* No left child is on the root's spine, and only the root's spine leads to it.
LEMMA SpineOfRoot ==
  ASSUME NEW n \in Pipes
  PROVE  /\ LeftOf[n] \notin RightSpine(Root)
         /\ RightOf[n] \in RightSpine(Root) <=> n \in RightSpine(Root)
<1> Root \in Node /\ n \in Node
  BY Parents, Names
<1>1. LeftOf[n] \notin RightSpine(Root)
  <2> DEFINE S == Node \ {LeftOf[n]}
  <2>1. Root \in S /\ \A m \in Pipes : m \in S => RightOf[m] \in S
    BY Parents
  <2>2. S \in SUBSET Node
    OBVIOUS
  <2> HIDE DEF S
  <2>3. RightSpine(Root) \subseteq S
    BY <2>1, <2>2, SpineLeast
  <2> QED
    BY <2>3 DEF S
<1>2. ASSUME n \notin RightSpine(Root)
      PROVE  RightOf[n] \notin RightSpine(Root)
  <2> DEFINE S == RightSpine(Root) \ {RightOf[n]}
  <2>1. Root \in S /\ S \in SUBSET Node
    BY SpineClosed, Parents
  <2>2. ASSUME NEW m \in Pipes, m \in S PROVE RightOf[m] \in S
    BY <1>2, <2>2, SpineClosed, Parents
  <2> HIDE DEF S
  <2>3. RightSpine(Root) \subseteq S
    BY <2>1, <2>2, SpineLeast
  <2> QED
    BY <2>3 DEF S
<1> QED
  BY <1>1, <1>2, SpineClosed

\* A leaf is its own spine; the spine of a pipe is that of its right side.
LEMMA SpineUnfolds ==
  ASSUME NEW n \in Node
  PROVE  RightSpine(n) = IF n \in Leaves THEN {n} ELSE {n} \cup RightSpine(RightOf[n])
<1>1. CASE n \in Leaves
  <2>1. RightSpine(n) \subseteq {n}
    <3>1. {n} \in SUBSET Node /\ n \in {n} /\ \A m \in Pipes : m \in {n} => RightOf[m] \in {n}
      BY <1>1, Parents
    <3> QED
      BY <3>1, SpineLeast
  <2> QED
    BY <1>1, <2>1, SpineClosed
<1>2. CASE n \notin Leaves
  <2>1. n \in Pipes /\ RightOf[n] \in Node
    BY <1>2, Parents
  <2> DEFINE S == {n} \cup RightSpine(RightOf[n])
  <2>2. n \in S /\ S \in SUBSET Node
    BY <2>1, SpineClosed
  <2>3. ASSUME NEW m \in Pipes, m \in S PROVE RightOf[m] \in S
    BY <2>1, <2>3, SpineClosed
  <2>4. RightSpine(n) \subseteq S
    <3> HIDE DEF S
    <3> QED
      BY <2>2, <2>3, SpineLeast
  <2>5. RightSpine(RightOf[n]) \subseteq RightSpine(n)
    <3>1. RightOf[n] \in RightSpine(n) /\ RightSpine(n) \in SUBSET Node
      BY <2>1, SpineClosed
    <3> QED
      BY <2>1, <3>1, SpineClosed, SpineLeast
  <2> QED
    BY <1>2, <2>4, <2>5, SpineClosed
<1> QED
  BY <1>1, <1>2

\* The recursion of Last has a solution, the leaf of the spine, so Last is one.
LEMMA LastUnfolds ==
    /\ \A l \in Leaves : Last[l] = l
    /\ \A n \in Pipes : Last[n] = Last[RightOf[n]]
<1> DEFINE EndOf(n) == RightSpine(n) \cap Leaves
           f       == [n \in Node |-> CHOOSE l : l \in EndOf(n)]
           Solves(g) == g = [n \in Node |-> IF n \in Leaves THEN n ELSE g[RightOf[n]]]
<1>1. \A l \in Leaves : EndOf(l) = {l}
  BY SpineUnfolds, Parents
<1>2. \A n \in Pipes : EndOf(n) = EndOf(RightOf[n])
  BY SpineUnfolds, Parents
<1>3. ASSUME NEW n \in Node
      PROVE  f[n] = IF n \in Leaves THEN n ELSE f[RightOf[n]]
  <2>1. CASE n \in Leaves
    <3>1. f[n] = CHOOSE l : l \in {n}
      BY <1>1, <2>1
    <3> QED
      BY <2>1, <3>1
  <2>2. CASE n \notin Leaves
    <3>1. n \in Pipes /\ RightOf[n] \in Node
      BY <2>2, Parents
    <3> HIDE DEF EndOf
    <3>2. (CHOOSE l : l \in EndOf(n)) = (CHOOSE l : l \in EndOf(RightOf[n]))
      BY <1>2, <3>1
    <3>3. f[n] = (CHOOSE l : l \in EndOf(n))
      OBVIOUS
    <3>4. f[RightOf[n]] = (CHOOSE l : l \in EndOf(RightOf[n]))
      BY <3>1
    <3> HIDE DEF f
    <3> QED
      BY <2>2, <3>2, <3>3, <3>4
  <2> QED
    BY <2>1, <2>2
<1>4. f = [n \in Node |-> f[n]]
  OBVIOUS
<1> HIDE DEF f
<1>5. Solves(f)
  BY <1>3, <1>4
<1> HIDE DEF Solves
<1>6. Last = CHOOSE g : Solves(g)
  BY DEF Last, Solves
<1>7. Solves(Last)
  BY <1>5, <1>6
<1>8. \A n \in Node : Last[n] = IF n \in Leaves THEN n ELSE Last[RightOf[n]]
  BY <1>7 DEF Solves
<1> QED
  BY <1>8, Parents

-----------------------------------------------------------------------------
(***************************************************************************)
(* Processes on the root's spine write to the terminal.                    *)
(***************************************************************************)
OnSpine(p) == p[1] \in RightSpine(Root)

SpineInv == \A p \in Proc : OnSpine(p) => pc[p] \in Gone \/ fd[p]["out"] = Terminal

\* A process moves on, with its output or with none.
LEMMA SpineMove ==
  ASSUME TypeOK, SpineInv, NEW a \in Proc, NEW there, NEW table, Move(a, there, table),
         \/ there = "zombie" \/ ~OnSpine(a) \/ table["out"] = Terminal
         \/ pc[a] \notin Gone /\ table["out"] = fd[a]["out"]
  PROVE  SpineInv'
<1>1. \A p \in Proc : /\ pc'[p] = IF p = a THEN there ELSE pc[p]
                      /\ fd'[p] = IF p = a THEN table ELSE fd[p]
  BY DEF TypeOK, Move
<1> QED
  BY <1>1 DEF SpineInv, OnSpine, RightSpine, Gone

\* A child writes where its parent does.
LEMMA SpineFork ==
  ASSUME TypeOK, SpineInv, NEW a \in Proc, NEW there, NEW child \in Proc, NEW new,
         Fork(a, there, child, new), pc[a] \notin Gone, OnSpine(child) => OnSpine(a)
  PROVE  SpineInv'
<1>1. \A p \in Proc : /\ p # a /\ p # child => pc'[p] = pc[p]
                      /\ fd'[p] = IF p = child THEN fd[a] ELSE fd[p]
  BY DEF TypeOK, Fork
<1> QED
  BY <1>1 DEF SpineInv, OnSpine, RightSpine

\* No descriptors change and nobody comes back.
LEMMA SpineQuiet ==
  ASSUME SpineInv, UNCHANGED fd, \A p \in Proc : pc[p] \in Gone => pc'[p] \in Gone
  PROVE  SpineInv'
  BY DEF SpineInv, OnSpine, RightSpine

\* A child is waited for.
LEMMA SpineReap ==
  ASSUME TypeOK, SpineInv, NEW a \in Proc, NEW here, NEW child \in Proc, NEW there,
         Reap(a, here, child, there), here \notin Gone, child # a
  PROVE  SpineInv'
<1>1. \A p \in Proc : pc'[p] = IF p = child THEN "reaped" ELSE IF p = a THEN there ELSE pc[p]
  BY DEF TypeOK, Reap
<1>2. UNCHANGED fd /\ pc[a] = here
  BY DEF Reap
<1> QED
  BY <1>1, <1>2, SpineQuiet DEF Gone

\* A pipe's process keeps its output, and its right child inherits it.
LEMMA SpinePipeStep ==
  ASSUME IInv, SpineInv, NEW n \in Pipes, PipeStep(n)
  PROVE  SpineInv'
<1> USE DEF Gone
<1>1. TypeOK /\ Stage(n) \in Proc /\ fd[Stage(n)] \in [Slot -> File]
  BY Parents, Names DEF IInv, TypeOK
<1>2. /\ Stage(LeftOf[n]) \in Proc /\ Stage(LeftOf[n]) # Stage(n)
      /\ Stage(RightOf[n]) \in Proc /\ Stage(RightOf[n]) # Stage(n)
  BY Names, Parents
<1>3. /\ ~OnSpine(Stage(LeftOf[n]))
      /\ OnSpine(Stage(RightOf[n])) => OnSpine(Stage(n))
  BY Names, Parents, SpineOfRoot DEF OnSpine
<1>4. /\ ClosePipe(fd[Stage(n)])["out"] = fd[Stage(n)]["out"]
      /\ [fd[Stage(n)] EXCEPT !["p0"] = ReadEnd(n), !["p1"] = WriteEnd(n)]["out"]
            = fd[Stage(n)]["out"]
  BY <1>1 DEF Slot, ClosePipe
<1>5. CASE SetupPipes(n)
  BY <1>1, <1>4, <1>5, SpineMove DEF SetupPipes, Attempt, ReturnFailure
<1>6. CASE ForkLeftChecked(n)
  BY <1>1, <1>2, <1>3, <1>4, <1>6, SpineFork, SpineMove DEF ForkLeftChecked, Attempt, ReturnFailure
<1>7. CASE ForkRightChecked(n)
  BY <1>1, <1>2, <1>3, <1>4, <1>7, SpineFork, SpineMove DEF ForkRightChecked, Attempt
<1>8. CASE CloseEnds(n)
  BY <1>1, <1>4, <1>8, SpineMove DEF CloseEnds
<1>9. CASE WaitOrphan(n)
  BY <1>1, <1>2, <1>9, SpineReap DEF WaitOrphan
<1>10. CASE WaitLeft(n)
  BY <1>1, <1>2, <1>10, SpineReap DEF WaitLeft
<1>11. CASE WaitRight(n)
  BY <1>1, <1>2, <1>11, SpineReap DEF WaitRight
<1> QED
  BY <1>5, <1>6, <1>7, <1>8, <1>9, <1>10, <1>11 DEF PipeStep

\* Only a left child changes its output, and it is off the spine.
LEMMA SpineNodeStep ==
  ASSUME IInv, IInv', FamilyInv, SpineInv, NEW n \in Node, NodeStep(n)
  PROVE  SpineInv'
<1> USE DEF Gone
<1>1. TypeOK /\ Stage(n) \in Proc /\ fd[Stage(n)] \in [Slot -> File]
  BY Names DEF IInv, TypeOK
<1>2. CASE LeftChild(n)
  <2>1. \E m \in Pipes : n = LeftOf[m]
    BY <1>2 DEF LeftChild, ChildStarts, FamilyInv, Placed, At
  <2>2. ~OnSpine(Stage(n))
    BY <2>1, Names, SpineOfRoot DEF OnSpine
  <2> QED
    BY <1>1, <1>2, <2>2, SpineMove DEF LeftChild, ChildStarts, Attempt, Exit
<1>3. CASE RightChild(n)
  <2>1. TakeReadEnd(fd[Stage(n)])["out"] = fd[Stage(n)]["out"]
    BY <1>1, TableSlots
  <2> QED
    BY <1>1, <1>3, <2>1, SpineMove DEF RightChild, ChildStarts, Attempt, Exit
<1>4. CASE Finish(n)
  <2>1. CASE Stage(n) = Shell
    <3>1. fd'[Shell]["out"] = Terminal
      BY DEF IInv, ShellInv, Fits
    <3>2. Move(Stage(n), "prompt", Restore(fd[Stage(n)]))
      BY <1>4, <2>1 DEF Finish
    <3>3. fd'[Shell] = Restore(fd[Stage(n)])
      BY <1>1, <2>1, <3>2 DEF Move, TypeOK
    <3> QED
      BY <1>1, <3>1, <3>2, <3>3, SpineMove
  <2>2. CASE Stage(n) # Shell
    BY <1>1, <1>4, <2>2, SpineMove DEF Finish, Exit
  <2> QED
    BY <2>1, <2>2
<1> QED
  BY <1>2, <1>3, <1>4 DEF NodeStep

\* A leaf and its command write to the same file.
LEMMA SpineLeafStep ==
  ASSUME IInv, SpineInv, NEW l \in Leaves, LeafStep(l)
  PROVE  SpineInv'
<1> USE DEF Gone
<1>1. /\ TypeOK /\ Stage(l) \in Proc /\ fd[Stage(l)] \in [Slot -> File]
      /\ Command(l) \in Proc /\ Command(l) # Stage(l)
  BY Names, Parents DEF IInv, TypeOK
<1>2. OnSpine(Command(l)) => OnSpine(Stage(l))
  BY Names, Parents DEF OnSpine
<1>3. Save(fd[Stage(l)])["out"] = fd[Stage(l)]["out"]
  BY <1>1, TableSlots
<1>4. CASE SaveFds(l)
  BY <1>1, <1>3, <1>4, SpineMove DEF SaveFds, Attempt, ReturnFailure
<1>5. CASE WordToken(l)
  BY <1>1, <1>5, SpineMove DEF WordToken
<1>6. CASE ForkCommand(l)
  BY <1>1, <1>2, <1>6, SpineFork, SpineMove DEF ForkCommand, Attempt, ReturnFailure
<1>7. CASE WaitCommand(l)
  BY <1>1, <1>7, SpineReap DEF WaitCommand
<1>8. CASE Builtin(l)
  <2>1. pc[Stage(l)] = "builtin"
    BY <1>8 DEF Builtin
  <2>2. CASE Move(Stage(l), "finish", fd[Stage(l)]) \/ Move(Stage(l), "zombie", AllClosed)
    BY <1>1, <2>1, <2>2, SpineMove
  <2>3. CASE UNCHANGED <<pc, fd>>
    BY <2>3, SpineQuiet
  <2> QED
    BY <1>8, <2>2, <2>3 DEF Builtin, WriteNext, Write, Exit
<1> QED
  BY <1>4, <1>5, <1>6, <1>7, <1>8 DEF LeafStep

\* A command keeps its output until it ends.
LEMMA SpineCommandStep ==
  ASSUME IInv, SpineInv, NEW l \in Leaves, CommandStep(l)
  PROVE  SpineInv'
<1>1. TypeOK /\ Command(l) \in Proc
  BY Names DEF IInv
<1>2. \/ pc[Command(l)] = "setup" /\ Move(Command(l), "run", fd[Command(l)])
      \/ Move(Command(l), "zombie", AllClosed)
      \/ UNCHANGED <<pc, fd>>
  BY DEF CommandStep, ChildExecExternal, CommandWrites, CommandReads, CommandExits,
         WriteNext, Write, Exit
<1> QED
  BY <1>1, <1>2, SpineMove, SpineQuiet DEF Gone

\* Every step keeps the spine on the terminal.
LEMMA SpineStep == IInv /\ FamilyInv /\ SpineInv /\ [Next]_vars => SpineInv'
<1> SUFFICES ASSUME IInv, FamilyInv, SpineInv, [Next]_vars PROVE SpineInv'
  OBVIOUS
<1>1. IInv'
  BY StepInv
<1>2. CASE UNCHANGED vars
  BY <1>2, SpineQuiet DEF vars
<1>3. CASE NextLine
  <2>1. LineStarts'
    BY <1>3, NextLineStarts DEF IInv
  <2>2. fd'[Shell]["out"] = Terminal
    BY <1>1 DEF IInv, ShellInv, Fits
  <2>3. \A p \in Proc : p = Shell \/ pc'[p] = "none"
    BY <2>1, Names DEF LineStarts, At, Cmd
  <2> QED
    BY <2>2, <2>3 DEF SpineInv, Gone, OnSpine, RightSpine
<1> QED
  BY <1>1, <1>2, <1>3, SpinePipeStep, SpineLeafStep, SpineCommandStep, SpineNodeStep DEF Next

\* The shell starts on the terminal.
LEMMA SpineInit == Init => SpineInv
<1> SUFFICES ASSUME Init, NEW p \in Proc PROVE pc[p] \in Gone \/ fd[p]["out"] = Terminal
  BY DEF SpineInv
<1>1. AtStart["out"] = Terminal
  BY DEF AtStart, AllClosed, Slot
<1> QED
  BY <1>1 DEF Init, Gone

\* The output of the line's last stage is the terminal, in every reachable state.
THEOREM SpineAlways == Spec => []SpineInv
  BY Invariance, FamilyKept, SpineInit, SpineStep, PTL DEF Spec

-----------------------------------------------------------------------------
(***************************************************************************)
(* Statuses: what a process that is done has computed.                     *)
(***************************************************************************)
\* The status of a node is that of its last command, or EXIT_FAILURE after a
\* failed call, or, off the root's spine only, that of a SIGPIPE.
Explained(n, st) ==
    \/ st \in Outcome(Last[n])
    \/ fails > 0 /\ st = EXIT_FAILURE
    \/ st = SigPipe /\ n \notin RightSpine(Root)

StatusOf(p) ==
    /\ pc[p] \notin Ended => code[p] = 0
    /\ pc[p] \in Ended => Explained(p[1], code[p])
    /\ pc[p] = "wait orphan" => fails > 0
    /\ pc[p] = "builtin" => work[p[1]] = "builtin"

CodeInv == \A p \in Proc : StatusOf(p)

\* The count of failed calls only grows while a line runs.
LEMMA FailsGrow ==
  ASSUME TypeOK, fails' = fails \/ fails' = fails + 1
  PROVE  fails > 0 => fails' > 0
<1>1. MaxFail \in Nat
  BY NumberAssumption
<1>2. fails \in Nat
  BY <1>1 DEF TypeOK
<1> QED
  BY <1>2

\* One process moves on with this status; another may be forked or reaped.
LEMMA StatusMove ==
  ASSUME TypeOK, CodeInv, UNCHANGED work, fails > 0 => fails' > 0,
         NEW a \in Proc, NEW there \in PCs, NEW c \in Codes, pc'[a] = there, code'[a] = c,
         \A p \in Proc \ {a} :
            /\ code'[p] = code[p]
            /\ \/ pc'[p] = pc[p]
               \/ pc[p] = "none" /\ pc'[p] \in Setup \cup {"setup"}
               \/ pc[p] = "zombie" /\ pc'[p] = "reaped",
         there \notin Ended => c = 0,
         there \in Ended => Explained(a[1], c) \/ (fails' > 0 /\ c = EXIT_FAILURE),
         there = "wait orphan" => fails' > 0,
         there = "builtin" => work[a[1]] = "builtin"
  PROVE  CodeInv'
<1>1. fails > 0 => fails' > 0
  OBVIOUS
<1>2. ASSUME NEW n, NEW st, NEW now, now = st, Explained(n, st) \/ (fails' > 0 /\ st = EXIT_FAILURE)
      PROVE  \/ now \in Outcome(Last[n])'
             \/ fails' > 0 /\ now = EXIT_FAILURE
             \/ now = SigPipe /\ n \notin RightSpine(Root)
  BY <1>1, <1>2 DEF Explained, Outcome
<1>3. ASSUME NEW p \in Proc
      PROVE  StatusOf(p)'
  <2>1. CASE p = a
    <3>1. pc'[p] \in Ended => Explained(p[1], code[p])'
      BY <1>2, <2>1 DEF Explained, Outcome
    <3> QED
      BY <2>1, <3>1 DEF StatusOf
  <2>2. CASE p # a
    <3>1. StatusOf(p) /\ code'[p] = code[p]
      BY <2>2 DEF CodeInv
    <3>2. pc'[p] \in Ended <=> pc[p] \in Ended
      BY <2>2 DEF Ended, Setup
    <3>3. pc'[p] \in Ended => Explained(p[1], code[p])'
      BY <1>2, <3>1, <3>2 DEF StatusOf, Explained, Outcome
    <3>4. pc'[p] \in {"wait orphan", "builtin"} => pc[p] = pc'[p]
      BY <2>2 DEF Setup
    <3>5. pc'[p] \notin Ended => code'[p] = 0
      BY <3>1, <3>2 DEF StatusOf
    <3>6. pc'[p] = "wait orphan" => fails' > 0
      BY <1>1, <3>1, <3>4 DEF StatusOf
    <3>7. pc'[p] = "builtin" => work'[p[1]] = "builtin"
      BY <3>1, <3>4 DEF StatusOf
    <3> QED
      BY <3>3, <3>5, <3>6, <3>7 DEF StatusOf
  <2> QED
    BY <2>1, <2>2
<1> QED
  BY <1>3 DEF CodeInv

\* The same for each way an action is written.
LEMMA StatusMoves ==
  ASSUME TypeOK, CodeInv, UNCHANGED work, fails > 0 => fails' > 0,
         NEW a \in Proc, NEW there \in PCs, NEW table, Move(a, there, table)
  PROVE  /\ UNCHANGED code /\ there \notin Ended /\ pc[a] \notin Ended
            /\ (there = "wait orphan" => fails' > 0)
            /\ (there = "builtin" => work[a[1]] = "builtin")
               => CodeInv'
         /\ UNCHANGED code /\ there \in Ended /\ Explained(a[1], code[a]) => CodeInv'
         /\ code' = [code EXCEPT ![a] = EXIT_FAILURE] /\ there \in Ended /\ fails' > 0 => CodeInv'
         /\ \A c \in Codes : code' = [code EXCEPT ![a] = c] /\ there \in Ended /\ Explained(a[1], c)
               => CodeInv'
<1>1. pc'[a] = there /\ \A p \in Proc \ {a} : pc'[p] = pc[p]
  BY DEF TypeOK, Move
<1>2. code \in [Proc -> Codes] /\ a \in Proc /\ StatusOf(a)
  BY DEF TypeOK, CodeInv
<1>3. ASSUME UNCHANGED code, there \notin Ended, pc[a] \notin Ended,
             there = "wait orphan" => fails' > 0, there = "builtin" => work[a[1]] = "builtin"
      PROVE  CodeInv'
  <2>1. code'[a] = 0 /\ 0 \in Codes
    BY <1>2, <1>3 DEF StatusOf, Codes
  <2> QED
    BY <1>1, <1>3, <2>1, StatusMove DEF Ended
<1>4. ASSUME UNCHANGED code, there \in Ended, Explained(a[1], code[a]) PROVE CodeInv'
  <2>1. there # "wait orphan" /\ there # "builtin" /\ code'[a] = code[a] /\ code[a] \in Codes
    BY <1>2, <1>4 DEF Ended
  <2> QED
    BY <1>1, <1>4, <2>1, StatusMove
<1>5. ASSUME NEW c \in Codes, code' = [code EXCEPT ![a] = c], there \in Ended,
             Explained(a[1], c) \/ (c = EXIT_FAILURE /\ fails' > 0)
      PROVE  CodeInv'
  <2>1. there # "wait orphan" /\ there # "builtin"
    BY <1>5 DEF Ended
  <2>2. code'[a] = c /\ \A p \in Proc \ {a} : code'[p] = code[p]
    BY <1>2, <1>5
  <2> QED
    BY <1>1, <1>5, <2>1, <2>2, StatusMove
<1>6. EXIT_FAILURE \in Codes
  BY DEF Codes
<1> QED
  BY <1>3, <1>4, <1>5, <1>6

\* A process that forks, and the child, have computed nothing yet.
LEMMA StatusFork ==
  ASSUME TypeOK, CodeInv, UNCHANGED <<work, fails>>, NEW a \in Proc, NEW there \in PCs,
         NEW child \in Proc, NEW new \in Setup \cup {"setup"}, child # a, pc[child] = "none",
         Fork(a, there, child, new), pc[a] \notin Ended,
         there \notin Ended \cup {"wait orphan", "builtin"}
  PROVE  CodeInv'
<1>1. /\ pc'[a] = there /\ pc'[child] = new
      /\ \A p \in Proc \ {a, child} : pc'[p] = pc[p]
  BY DEF TypeOK, Fork
<1>2. UNCHANGED code /\ code'[a] = 0 /\ 0 \in Codes
  BY DEF Fork, CodeInv, StatusOf, Codes
<1> QED
  BY <1>1, <1>2, StatusMove

\* A process that waits takes over a status that is explained.
LEMMA StatusReap ==
  ASSUME TypeOK, CodeInv, NEW a \in Proc, NEW here, NEW child \in Proc, NEW there \in PCs,
         NEW c \in Codes,
         Reap(a, here, child, there), child # a, here \notin Ended,
         there \notin {"wait orphan", "builtin"},
         code' = [code EXCEPT ![a] = c],
         there \notin Ended => c = 0,
         there \in Ended => Explained(a[1], c)
  PROVE  CodeInv'
<1>1. /\ pc'[a] = there /\ pc'[child] = "reaped" /\ pc[child] = "zombie"
      /\ \A p \in Proc \ {a, child} : pc'[p] = pc[p]
  BY DEF TypeOK, Reap
<1>2. code'[a] = c /\ \A p \in Proc \ {a} : code'[p] = code[p]
  BY DEF TypeOK
<1>3. UNCHANGED <<work, fails>>
  BY DEF Reap, Streams
<1> QED
  BY <1>1, <1>2, <1>3, StatusMove

\* The status of the right side is the pipe's.
LEMMA ExplainedUp ==
  ASSUME NEW n \in Pipes, NEW st, Explained(RightOf[n], st)
  PROVE  Explained(n, st)
  BY LastUnfolds, SpineOfRoot DEF Explained

\* execute_pipe_command returns the status of its right side, or a failure.
LEMMA StatusPipeStep ==
  ASSUME IInv, FamilyInv, CodeInv, NEW n \in Pipes, PipeStep(n)
  PROVE  CodeInv'
<1> DEFINE p == Stage(n)
           l == Stage(LeftOf[n])
           r == Stage(RightOf[n])
<1>1. TypeOK /\ p \in Proc /\ p[1] = n /\ StatusOf(p) /\ code \in [Proc -> Codes]
  BY Parents, Names DEF IInv, TypeOK, CodeInv
<1>2. l \in Proc /\ l # p /\ r \in Proc /\ r # p
  BY Names, Parents
<1>3. r[1] = RightOf[n] /\ StatusOf(r)
  BY <1>2, Names, Parents DEF CodeInv
<1>4. PipeFamily(pc[p], pc[l], pc[r])
  BY DEF FamilyInv, At
<1>5. EXIT_FAILURE \in Codes /\ 0 \in Codes /\ code[r] \in Codes
  BY <1>1, <1>2 DEF Codes
<1> HIDE DEF p, l, r
<1>6. CASE SetupPipes(n)
  <2>1. pc[p] = "exec" /\ UNCHANGED work /\ (fails > 0 => fails' > 0)
    BY <1>1, <1>6, FailsGrow DEF SetupPipes, Attempt, p
  <2>2. CASE /\ Move(p, "fork left", [fd[p] EXCEPT !["p0"] = ReadEnd(n), !["p1"] = WriteEnd(n)])
             /\ UNCHANGED code
    BY <1>1, <2>1, <2>2, StatusMoves DEF Ended, PCs
  <2>3. CASE ReturnFailure(p, fd[p]) /\ fails' > 0
    BY <1>1, <2>1, <2>3, StatusMoves DEF ReturnFailure, Ended, PCs
  <2>4. fails' = fails + 1 => fails' > 0
    BY <1>1, NumberAssumption DEF TypeOK
  <2> QED
    BY <1>6, <2>2, <2>3, <2>4 DEF SetupPipes, Attempt, p
<1>7. CASE ForkLeftChecked(n)
  <2>1. pc[p] = "fork left" /\ UNCHANGED work /\ (fails > 0 => fails' > 0)
    BY <1>1, <1>7, FailsGrow DEF ForkLeftChecked, Attempt, Streams, p
  <2>2. CASE Fork(p, "fork right", l, "left setup") /\ UNCHANGED fails
    <3>1. pc[l] = "none"
      BY <1>4, <2>1 DEF PipeFamily
    <3> QED
      BY <1>1, <1>2, <2>1, <2>2, <3>1, StatusFork DEF Ended, PCs, Setup
  <2>3. CASE ReturnFailure(p, ClosePipe(fd[p])) /\ fails' > 0
    BY <1>1, <2>1, <2>3, StatusMoves DEF ReturnFailure, Ended, PCs
  <2>4. fails' = fails + 1 => fails' > 0
    BY <1>1, NumberAssumption DEF TypeOK
  <2> QED
    BY <1>7, <2>2, <2>3, <2>4 DEF ForkLeftChecked, Attempt, p, l
<1>8. CASE ForkRightChecked(n)
  <2>1. pc[p] = "fork right" /\ UNCHANGED work /\ (fails > 0 => fails' > 0)
    BY <1>1, <1>8, FailsGrow DEF ForkRightChecked, Attempt, Streams, p
  <2>2. CASE Fork(p, "close ends", r, "right setup") /\ UNCHANGED fails
    <3>1. pc[r] = "none"
      BY <1>4, <2>1 DEF PipeFamily
    <3> QED
      BY <1>1, <1>2, <2>1, <2>2, <3>1, StatusFork DEF Ended, PCs, Setup
  <2>3. CASE Move(p, "wait orphan", ClosePipe(fd[p])) /\ UNCHANGED code /\ fails' > 0
    BY <1>1, <2>1, <2>3, StatusMoves DEF Ended, PCs
  <2>4. fails' = fails + 1 => fails' > 0
    BY <1>1, NumberAssumption DEF TypeOK
  <2> QED
    BY <1>8, <2>2, <2>3, <2>4 DEF ForkRightChecked, Attempt, p, r
<1>9. CASE CloseEnds(n)
  <2>1. /\ pc[p] = "close ends" /\ UNCHANGED <<work, fails, code>>
        /\ Move(p, "wait left", ClosePipe(fd[p]))
    BY <1>9 DEF CloseEnds, Streams, p
  <2> QED
    BY <1>1, <2>1, StatusMoves DEF Ended, PCs
<1>10. CASE WaitOrphan(n)
  <2>1. Reap(p, "wait orphan", l, "finish") /\ code' = [code EXCEPT ![p] = EXIT_FAILURE]
    BY <1>10 DEF WaitOrphan, p, l
  <2>2. Explained(n, EXIT_FAILURE)
    BY <1>1, <2>1 DEF Reap, StatusOf, Explained
  <2> QED
    BY <1>1, <1>2, <1>5, <2>1, <2>2, StatusReap DEF Ended, PCs
<1>11. CASE WaitLeft(n)
  <2>1. Reap(p, "wait left", l, "wait right") /\ UNCHANGED code
    BY <1>11 DEF WaitLeft, p, l
  <2>2. code[p] = 0
    BY <1>1, <2>1 DEF Reap, StatusOf, Ended
  <2>3. code' = [code EXCEPT ![p] = 0]
    BY <1>1, <2>1, <2>2
  <2> QED
    BY <1>1, <1>2, <1>5, <2>1, <2>3, StatusReap DEF Ended, PCs
<1>12. CASE WaitRight(n)
  <2>1. Reap(p, "wait right", r, "finish") /\ code' = [code EXCEPT ![p] = code[r]]
    BY <1>12 DEF WaitRight, ExitCode, p, r
  <2>2. Explained(RightOf[n], code[r])
    BY <1>3, <2>1 DEF Reap, StatusOf, Ended
  <2>3. Explained(n, code[r])
    BY <2>2, ExplainedUp
  <2> QED
    BY <1>1, <1>2, <1>5, <2>1, <2>3, StatusReap DEF Ended, PCs
<1> QED
  BY <1>6, <1>7, <1>8, <1>9, <1>10, <1>11, <1>12 DEF PipeStep

\* A stage exits with the status it has computed.
LEMMA StatusNodeStep ==
  ASSUME IInv, CodeInv, NEW n \in Node, NodeStep(n)
  PROVE  CodeInv'
<1> DEFINE p == Stage(n)
<1>1. TypeOK /\ p \in Proc /\ p[1] = n /\ StatusOf(p) /\ code \in [Proc -> Codes]
  BY Parents, Names DEF IInv, TypeOK, CodeInv
<1> HIDE DEF p
<1>2. ASSUME NEW here \in Setup, NEW table, ChildStarts(p, here, table)
      PROVE  CodeInv'
  <2>1. pc[p] = here /\ UNCHANGED work /\ (fails > 0 => fails' > 0)
    BY <1>1, <1>2, FailsGrow DEF ChildStarts, Attempt, Streams
  <2>2. CASE Move(p, "exec", table) /\ UNCHANGED code
    BY <1>1, <2>1, <2>2, StatusMoves DEF Ended, PCs, Setup
  <2>3. CASE Exit(p, EXIT_FAILURE) /\ fails' > 0
    BY <1>1, <2>1, <2>3, StatusMoves DEF Exit, Ended, PCs
  <2>4. fails' = fails + 1 => fails' > 0
    BY <1>1, NumberAssumption DEF TypeOK
  <2> QED
    BY <1>2, <2>2, <2>3, <2>4 DEF ChildStarts, Attempt
<1>3. CASE LeftChild(n) \/ RightChild(n)
  BY <1>2, <1>3 DEF LeftChild, RightChild, Setup, p
<1>4. CASE Finish(n)
  <2>1. pc[p] = "finish" /\ UNCHANGED <<work, fails>>
    BY <1>4 DEF Finish, Streams, p
  <2>2. Explained(n, code[p]) /\ code[p] \in Codes
    BY <1>1, <2>1 DEF StatusOf, Ended
  <2>3. CASE Move(p, "prompt", Restore(fd[p])) /\ UNCHANGED code
    BY <1>1, <2>1, <2>2, <2>3, StatusMoves DEF Ended, PCs
  <2>4. CASE Exit(p, code[p])
    <3>1. Move(p, "zombie", AllClosed) /\ code' = [code EXCEPT ![p] = code[p]]
      BY <2>4 DEF Exit
    <3>2. UNCHANGED code
      BY <1>1, <3>1
    <3> QED
      BY <1>1, <2>1, <2>2, <3>1, <3>2, StatusMoves DEF Ended, PCs
  <2> QED
    BY <1>4, <2>3, <2>4 DEF Finish, p
<1> QED
  BY <1>3, <1>4 DEF NodeStep

\* A step that moves nobody and fails nowhere changes no status.
LEMMA StatusQuiet ==
  ASSUME CodeInv, UNCHANGED <<work, pc, code, fails>>
  PROVE  CodeInv'
  BY DEF CodeInv, StatusOf, Explained, Outcome

\* A command that writes to a pipe is off the root's spine.
LEMMA KilledOffSpine ==
  ASSUME SpineInv, NEW l \in Leaves, NEW p \in {Stage(l), Command(l)}, pc[p] \notin Gone,
         NEW m \in Pipes, fd[p]["out"] = WriteEnd(m)
  PROVE  Explained(l, SigPipe)
<1>1. p \in Proc /\ p[1] = l
  BY Names, Parents
<1>2. WriteEnd(m) # Terminal
  BY Ends, Parents DEF EndsOf
<1> QED
  BY <1>1, <1>2 DEF SpineInv, OnSpine, Explained

\* What a leaf's process writes does not change its status.
LEMMA StatusWrite ==
  ASSUME IInv, SpineInv, CodeInv, NEW l \in Leaves, NEW p \in {Stage(l), Command(l)},
         pc[p] \in {"builtin", "run"}, UNCHANGED <<work, fails>>,
         \/ UNCHANGED <<pc, code>>
         \/ \E m \in Pipes : fd[p]["out"] = WriteEnd(m) /\ Exit(p, SigPipe)
  PROVE  CodeInv'
<1>1. TypeOK /\ p \in Proc /\ p[1] = l
  BY Parents, Names DEF IInv
<1>2. CASE UNCHANGED <<pc, code>>
  BY <1>2, StatusQuiet
<1>3. ASSUME NEW m \in Pipes, fd[p]["out"] = WriteEnd(m), Exit(p, SigPipe)
      PROVE  CodeInv'
  <2>1. Explained(l, SigPipe)
    BY <1>3, KilledOffSpine DEF Gone
  <2>2. SigPipe \in Codes
    BY DEF Codes
  <2> QED
    BY <1>1, <1>3, <2>1, <2>2, StatusMoves DEF Exit, Ended, PCs
<1> QED
  BY <1>2, <1>3

\* A leaf returns the status of its command, or a failure.
LEMMA StatusLeafStep ==
  ASSUME IInv, FamilyInv, SpineInv, CodeInv, NEW l \in Leaves, LeafStep(l)
  PROVE  CodeInv'
<1> DEFINE p == Stage(l)
           c == Command(l)
<1>1. TypeOK /\ p \in Proc /\ p[1] = l /\ StatusOf(p) /\ code \in [Proc -> Codes]
  BY Parents, Names DEF IInv, TypeOK, CodeInv
<1>2. c \in Proc /\ c # p /\ c[1] = l /\ StatusOf(c) /\ LeafFamily(pc[p], pc[c])
  BY Names, Parents DEF CodeInv, FamilyInv, At, Cmd
<1>3. \A st \in Outcome(l) : Explained(l, st)
  BY LastUnfolds DEF Explained
<1>4. fails' = fails + 1 => fails' > 0
  BY <1>1, NumberAssumption DEF TypeOK
<1> HIDE DEF p, c
<1>5. CASE SaveFds(l)
  <2>1. pc[p] = "exec" /\ UNCHANGED work /\ (fails > 0 => fails' > 0)
    BY <1>1, <1>5, FailsGrow DEF SaveFds, Attempt, Streams, p
  <2>2. CASE /\ Move(p, IF work[l] = "builtin" THEN "builtin" ELSE "launch", Save(fd[p]))
             /\ UNCHANGED code
    BY <1>1, <2>1, <2>2, StatusMoves DEF Ended, PCs
  <2>3. CASE ReturnFailure(p, fd[p]) /\ fails' > 0
    BY <1>1, <2>1, <2>3, StatusMoves DEF ReturnFailure, Ended, PCs
  <2> QED
    BY <1>4, <1>5, <2>2, <2>3 DEF SaveFds, Attempt, p
<1>6. CASE WordToken(l)
  <2>1. /\ Move(p, "finish", fd[p]) /\ code' = [code EXCEPT ![p] = NotFound]
        /\ UNCHANGED <<work, fails>> /\ work[l] = "word"
    BY <1>6 DEF WordToken, Streams, p
  <2>2. NotFound \in Outcome(l) /\ NotFound \in Codes
    BY <2>1 DEF Outcome, Codes
  <2> QED
    BY <1>1, <1>3, <2>1, <2>2, StatusMoves DEF Ended, PCs
<1>7. CASE ForkCommand(l)
  <2>1. pc[p] = "launch" /\ UNCHANGED work /\ (fails > 0 => fails' > 0)
    BY <1>1, <1>7, FailsGrow DEF ForkCommand, Attempt, Streams, p
  <2>2. CASE Fork(p, "wait command", c, "setup") /\ UNCHANGED fails
    <3>1. pc[c] = "none"
      BY <1>2, <2>1 DEF LeafFamily
    <3> QED
      BY <1>1, <1>2, <2>1, <2>2, <3>1, StatusFork DEF Ended, PCs, Setup
  <2>3. CASE ReturnFailure(p, fd[p]) /\ fails' > 0
    BY <1>1, <2>1, <2>3, StatusMoves DEF ReturnFailure, Ended, PCs
  <2> QED
    BY <1>4, <1>7, <2>2, <2>3 DEF ForkCommand, Attempt, p, c
<1>8. CASE WaitCommand(l)
  <2>1. Reap(p, "wait command", c, "finish") /\ code' = [code EXCEPT ![p] = code[c]]
    BY <1>8 DEF WaitCommand, p, c
  <2>2. Explained(l, code[c]) /\ code[c] \in Codes
    BY <1>1, <1>2, <2>1 DEF Reap, StatusOf, Ended
  <2> QED
    BY <1>1, <1>2, <2>1, <2>2, StatusReap DEF Ended, PCs
<1>9. CASE Builtin(l)
  <2>1. pc[p] = "builtin" /\ UNCHANGED <<work, fails>>
    BY <1>9 DEF Builtin, p
  <2>2. CASE WriteNext(p, l)
    BY <2>1, <2>2, StatusWrite DEF WriteNext, Write, p
  <2>3. CASE Move(p, "finish", fd[p]) /\ UNCHANGED code
    <3>1. work[l] = "builtin" /\ code[p] = 0
      BY <1>1, <2>1 DEF StatusOf, Ended
    <3>2. 0 \in Outcome(l)
      BY <3>1 DEF Outcome
    <3> QED
      BY <1>1, <1>3, <2>1, <2>3, <3>1, <3>2, StatusMoves DEF Ended, PCs
  <2> QED
    BY <1>9, <2>2, <2>3 DEF Builtin, p
<1> QED
  BY <1>5, <1>6, <1>7, <1>8, <1>9 DEF LeafStep

\* A command exits as its kind does, or is killed off the spine.
LEMMA StatusCommandStep ==
  ASSUME IInv, SpineInv, CodeInv, NEW l \in Leaves, CommandStep(l)
  PROVE  CodeInv'
<1> DEFINE p == Command(l)
<1>1. TypeOK /\ p \in Proc /\ p[1] = l /\ StatusOf(p) /\ code \in [Proc -> Codes]
  BY Parents, Names DEF IInv, TypeOK, CodeInv
<1>2. \A st \in Outcome(l) : Explained(l, st) /\ st \in Codes
  BY LastUnfolds DEF Explained, Outcome, Codes
<1> HIDE DEF p
<1>3. ASSUME NEW st \in Outcome(l), Exit(p, st), UNCHANGED <<work, fails>>
      PROVE  CodeInv'
  BY <1>1, <1>2, <1>3, StatusMoves DEF Exit, Ended, PCs
<1>4. CASE ChildExecExternal(l)
  <2>1. pc[p] = "setup" /\ UNCHANGED <<work, fails>>
    BY <1>4 DEF ChildExecExternal, Streams, p
  <2>2. CASE Move(p, "run", fd[p]) /\ UNCHANGED code
    BY <1>1, <2>1, <2>2, StatusMoves DEF Ended, PCs
  <2> QED
    BY <1>3, <1>4, <2>1, <2>2 DEF ChildExecExternal, p
<1>5. CASE CommandWrites(l)
  <2>1. /\ pc[p] = "run" /\ UNCHANGED <<work, fails>>
        /\ WriteNext(p, l) \/ Write(p, held' = [held EXCEPT ![l] = FALSE] /\ UNCHANGED todo)
    BY <1>5 DEF CommandWrites, p
  <2> QED
    BY <2>1, StatusWrite DEF WriteNext, Write, p
<1>6. CASE CommandReads(l)
  BY <1>6, StatusQuiet DEF CommandReads
<1>7. CASE CommandExits(l)
  BY <1>3, <1>7 DEF CommandExits, Streams, p
<1> QED
  BY <1>4, <1>5, <1>6, <1>7 DEF CommandStep

\* Every step keeps the statuses explained.
LEMMA StatusStep == IInv /\ FamilyInv /\ SpineInv /\ CodeInv /\ [Next]_vars => CodeInv'
<1> SUFFICES ASSUME IInv, FamilyInv, SpineInv, CodeInv, [Next]_vars PROVE CodeInv'
  OBVIOUS
<1>1. CASE UNCHANGED vars
  BY <1>1, StatusQuiet DEF vars
<1>2. CASE NextLine
  <2>1. LineStarts'
    BY <1>2, NextLineStarts DEF IInv
  <2>2. \A p \in Proc : pc'[p] \in {"exec", "none"}
    BY <2>1, Names DEF LineStarts, At, Cmd
  <2>3. \A p \in Proc : code'[p] = 0
    BY <1>2 DEF NextLine
  <2> QED
    BY <2>2, <2>3 DEF CodeInv, StatusOf, Ended
<1> QED
  BY <1>1, <1>2, StatusPipeStep, StatusLeafStep, StatusCommandStep, StatusNodeStep DEF Next

\* At first nothing is computed.
LEMMA StatusInit == Init => CodeInv
  BY DEF Init, CodeInv, StatusOf, Ended

\* Every status is explained, in every reachable state.
THEOREM StatusesAlways == Spec => []CodeInv
  BY Invariance, FamilyKept, SpineAlways, StatusInit, StatusStep, PTL DEF Spec

\* $? after a pipeline is the status of its last command, whatever happened to
\* the others, a SIGPIPE included: only a failed system call of the line can
\* make it 1 instead, however deep the tree and in whatever order the
\* processes end (wait_and_get_exit_code, parent_wait_external).
THEOREM StatusIsLastAlways == Spec => []StatusIsLast
<1>1. CodeInv => StatusIsLast
  <2> SUFFICES ASSUME CodeInv, AtPrompt
               PROVE  \/ code[Shell] \in Outcome(Last[Root])
                      \/ fails > 0 /\ code[Shell] = EXIT_FAILURE
    BY DEF StatusIsLast
  <2>1. Shell \in Proc /\ Shell[1] = Root /\ Root \in RightSpine(Root)
    BY Names, SpineClosed
  <2> QED
    BY <2>1 DEF CodeInv, StatusOf, Explained, AtPrompt, Ended
<1> QED
  BY <1>1, StatusesAlways, PTL

-----------------------------------------------------------------------------
(***************************************************************************)
(* SIGPIPE comes only when nobody reads the pipe, and then the next stage  *)
(* has gone or was never forked.                                           *)
(***************************************************************************)
\* A command or builtin whose status becomes SigPipe wrote to an unread pipe.
LEMMA KilledUnread ==
  ASSUME IInv, CodeInv, Next, NEW p \in Proc, NEW n \in Pipes,
         fd[p]["out"] = WriteEnd(n), pc[p] \in {"run", "builtin"}, code'[p] = SigPipe
  PROVE  ~HasReader(n)
<1>1. TypeOK /\ code \in [Proc -> Codes] /\ code[p] # SigPipe
  <2>1. code[p] = 0
    BY DEF CodeInv, StatusOf, Ended
  <2>2. 0 # SigPipe
    BY DEF SigPipe
  <2> QED
    BY <2>1, <2>2 DEF IInv, TypeOK
<1>2. ~UNCHANGED code
  BY <1>1
<1>3. ASSUME NEW a \in Proc, NEW c, code' = [code EXCEPT ![a] = c] PROVE p = a /\ c = SigPipe
  BY <1>1, <1>3
<1>4. SigPipe # EXIT_FAILURE /\ SigPipe # NotFound /\ \A l \in Leaves : SigPipe \notin Outcome(l)
  BY DEF SigPipe, EXIT_FAILURE, NotFound, NotExecutable, Outcome
<1>5. ASSUME NEW l \in Leaves, p \in {Stage(l), Command(l)},
             \/ UNCHANGED code
             \/ \E m \in Pipes : /\ fd[p]["out"] = WriteEnd(m)
                                 /\ ~HasReader(m)
      PROVE  ~HasReader(n)
  BY <1>2, <1>5, Ends, Parents
<1>6. ASSUME NEW m \in Pipes, PipeStep(m) PROVE FALSE
  <2>1. Stage(m) \in Proc
    BY Names, Parents
  <2>2. UNCHANGED code \/ /\ \E c : code' = [code EXCEPT ![Stage(m)] = c]
                          /\ pc[Stage(m)] \notin {"run", "builtin"}
    BY <1>6 DEF PipeStep, SetupPipes, ForkLeftChecked, ForkRightChecked, CloseEnds, WaitOrphan,
                WaitLeft, WaitRight, Attempt, ReturnFailure, Fork, Reap
  <2> QED
    BY <1>2, <1>3, <2>1, <2>2
<1>7. ASSUME NEW m \in Node, NodeStep(m) PROVE FALSE
  <2>1. Stage(m) \in Proc
    BY Names
  <2>2. UNCHANGED code \/ /\ \E c : code' = [code EXCEPT ![Stage(m)] = c]
                          /\ pc[Stage(m)] \notin {"run", "builtin"}
    BY <1>7 DEF NodeStep, LeftChild, RightChild, ChildStarts, Finish, Attempt, Exit
  <2> QED
    BY <1>2, <1>3, <2>1, <2>2
<1>8. ASSUME NEW l \in Leaves, LeafStep(l) PROVE ~HasReader(n)
  <2>1. Stage(l) \in Proc
    BY Names, Parents
  <2>2. CASE Builtin(l)
    <3>1. \/ UNCHANGED code
          \/ \E m \in Pipes : /\ fd[Stage(l)]["out"] = WriteEnd(m) /\ ~HasReader(m)
                              /\ code' = [code EXCEPT ![Stage(l)] = SigPipe]
      BY <2>2 DEF Builtin, WriteNext, Write, Exit
    <3> QED
      BY <1>2, <1>3, <1>5, <2>1, <3>1
  <2>3. CASE ~Builtin(l)
    <3>1. UNCHANGED code \/ /\ \E c : code' = [code EXCEPT ![Stage(l)] = c]
                            /\ pc[Stage(l)] \notin {"run", "builtin"}
      BY <1>8, <2>3 DEF LeafStep, SaveFds, WordToken, ForkCommand, WaitCommand, Attempt,
                        ReturnFailure, Fork, Reap
    <3> QED
      BY <1>2, <1>3, <2>1, <3>1
  <2> QED
    BY <2>2, <2>3
<1>9. ASSUME NEW l \in Leaves, CommandStep(l) PROVE ~HasReader(n)
  <2>1. Command(l) \in Proc
    BY Names
  <2>2. CASE CommandWrites(l)
    <3>1. \/ UNCHANGED code
          \/ \E m \in Pipes : /\ fd[Command(l)]["out"] = WriteEnd(m) /\ ~HasReader(m)
                              /\ code' = [code EXCEPT ![Command(l)] = SigPipe]
      BY <2>2 DEF CommandWrites, WriteNext, Write, Exit
    <3> QED
      BY <1>2, <1>3, <1>5, <2>1, <3>1
  <2>3. CASE ~CommandWrites(l)
    <3>1. UNCHANGED code \/ \E c \in Outcome(l) : code' = [code EXCEPT ![Command(l)] = c]
      BY <1>9, <2>3 DEF CommandStep, ChildExecExternal, CommandReads, CommandExits, Exit
    <3> QED
      BY <1>2, <1>3, <1>4, <2>1, <3>1
  <2> QED
    BY <2>2, <2>3
<1>10. CASE NextLine
  BY <1>10 DEF NextLine, SigPipe
<1> QED
  BY <1>6, <1>7, <1>8, <1>9, <1>10 DEF Next

\* While a writer of the pipe lives, the pipe is unread only if the right side
\* has gone or could not be forked.
LEMMA UnreadWhy ==
  ASSUME IInv, FamilyInv, HandsInv, ReaderInv, NEW p \in Proc, NEW n \in Pipes,
         fd[p]["out"] = WriteEnd(n), pc[p] \in {"run", "builtin"}, ~HasReader(n)
  PROVE  At(RightOf[n]) \in {"zombie", "reaped"} \/ At(n) = "wait orphan"
<1>1. n \in Node /\ RightOf[n] \in Node /\ Stage(n) \in Proc /\ Stage(RightOf[n]) \in Proc
  BY Names, Parents
<1>2. \A q \in Proc, s \in Slot : fd[q][s] # ReadEnd(n)
  BY DEF HasReader, Holds
<1>3. "out" \in Slot /\ "in" \in Slot /\ "p0" \in Slot
  BY DEF Slot
<1>4. p[1] \in Subtree(n) /\ At(n) \notin Before
  BY <1>3 DEF HandsInv, Hand, EndsOf
<1>5. At(n) \notin Ended
  <2>1. SUFFICES ASSUME At(n) \in Ended PROVE FALSE
    OBVIOUS
  <2>2. /\ \A m \in Subtree(n) \ {n} : At(m) \in Absent
        /\ \A l \in Leaves : l \in Subtree(n) => Cmd(l) \in Absent
    BY <1>1, <2>1, AllQuiet
  <2>3. CASE \E m \in Node : p = Stage(m) /\ p[1] = m
    BY <1>4, <2>1, <2>2, <2>3 DEF At, Absent, Ended
  <2>4. CASE \E l \in Leaves : p = Command(l) /\ p[1] = l
    BY <1>4, <2>2, <2>4 DEF Cmd, Absent
  <2> QED
    BY <2>3, <2>4, Names
<1>6. PipeFamily(At(n), At(LeftOf[n]), At(RightOf[n])) /\ Reader(n)
  BY DEF FamilyInv, ReaderInv
<1>7. At(n) \notin Piping
  BY <1>1, <1>2, <1>3, <1>6 DEF Reader
<1>8. At(n) \in {"wait left", "wait right", "wait orphan"}
  BY <1>4, <1>5, <1>6, <1>7 DEF PipeFamily
<1>9. CASE At(n) \in {"wait left", "wait right"}
  <2>1. At(RightOf[n]) \in Gone
    BY <1>1, <1>2, <1>3, <1>6, <1>9 DEF Reader, Forked
  <2>2. At(RightOf[n]) \in Running
    BY <1>6, <1>9 DEF PipeFamily
  <2> QED
    BY <2>1, <2>2 DEF Gone, Running
<1> QED
  BY <1>8, <1>9

\* No step kills a command for writing while the next stage of its pipe is
\* still starting or running: the right child has the read end from the fork
\* on, so SIGPIPE means that it exited or that fork_right failed.
THEOREM SigPipeJustified == Spec => SigPipeOnlyWhenReaderGone
<1> DEFINE Justified ==
      \A p \in Proc, n \in Pipes :
         /\ fd[p]["out"] = WriteEnd(n)
         /\ pc[p] \in {"run", "builtin"}
         /\ code'[p] = SigPipe
         => \/ pc[Stage(RightOf[n])] \in {"zombie", "reaped"}
            \/ pc[Stage(n)] = "wait orphan"
<1>1. IInv /\ FamilyInv /\ HandsInv /\ ReaderInv /\ CodeInv /\ [Next]_vars => [Justified]_vars
  <2> SUFFICES ASSUME IInv, FamilyInv, HandsInv, ReaderInv, CodeInv, Next PROVE Justified
    OBVIOUS
  <2> QED
    BY KilledUnread, UnreadWhy DEF At
<1>2. SigPipeOnlyWhenReaderGone <=> [][Justified]_vars
  BY PTL DEF SigPipeOnlyWhenReaderGone, Justified
<1> HIDE DEF Justified
<1> QED
  BY <1>1, <1>2, Invariance, FamilyKept, HandsKeptAlways, ReaderAlways, StatusesAlways, PTL DEF Spec
=============================================================================
