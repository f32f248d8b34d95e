------------------------ MODULE CommandRunnerProofs ------------------------
(***************************************************************************)
(* Proofs about CommandRunner for every descriptor limit, every pipe       *)
(* capacity and any amount of output.                                      *)
(***************************************************************************)
EXTENDS CommandRunner, FiniteSetTheorems, TLAPS

\* The pipe ends the worker holds, by where it is in execute_cmd().
HeldAt(w) ==
    CASE w \in {"idle", "reaping", "exhausted", "aborted"} -> {}
      [] w = "halfPiped"                                 -> {"inR", "inW"}
      [] w \in {"piped", "forked"}                       -> {"inR", "inW", "outR", "outW"}
      [] w = "closed"                                    -> {"inW", "outR"}
      [] w \in {"reading", "collected", "replied"}       -> {"outR"}

WorkerInv ==
    /\ worker \in WorkerStates
    /\ held = HeldAt(worker)
    /\ worker \in {"idle", "halfPiped", "piped", "exhausted"} => child = "none"
    /\ child = "none" => worker \in {"idle", "halfPiped", "piped"} \union Dead

\* The ends the command and its heir hold, by how far the command is.
ChildInv ==
    /\ child \in ChildStates
    /\ child = "none" => childHeld = {} /\ heir = {}
    /\ child = "forked" => childHeld = Ends /\ heir = {}
    /\ child = "awaitingInput" => childHeld = Stdio /\ heir = {}
    /\ child = "working" => childHeld \in {{}, Stdio}
    /\ child = "writing" => childHeld = Stdio
    /\ child = "exited" => childHeld = {}
    /\ heir \in {{}, Stdio}

\* Every chunk is in the pipe, in the buffer or known to be lost, and none is
\* left once the end was seen.  A dead worker leaves the pipe as it was.
OutputInv ==
    /\ pipe \in 0..PipeCapacity
    /\ written \in 0..MaxChunks
    /\ child = "writing" => written < MaxChunks
    /\ collected \in Nat /\ lost \in Nat /\ terminated \in BOOLEAN
    /\ collected + lost + pipe = written
    /\ worker \notin {"forked", "closed", "reading"} \union Dead =>
          pipe = 0 /\ "outW" \notin childHeld \union heir
    /\ worker \in {"halfPiped", "piped"} => written = 0

\* What failed sends, clients and the current run have taken is within the
\* limit, and all but used up where a pipe() finds nothing left.
LeakInv ==
    /\ leaked \in Nat /\ connections \in Nat
    /\ unreaped = leaked
    /\ Cardinality(held) + leaked + connections <= FdLimit
    /\ worker = "exhausted" => leaked + connections > FdLimit - 4

IInv == WorkerInv /\ ChildInv /\ OutputInv /\ LeakInv

-----------------------------------------------------------------------------
\* How many descriptors the worker holds wherever it is.
LEMMA HeldCount ==
    /\ Cardinality({}) = 0
    /\ Cardinality({"outR"}) = 1
    /\ Cardinality({"inR", "inW"}) = 2
    /\ Cardinality({"inW", "outR"}) = 2
    /\ Cardinality({"inR", "inW", "outR", "outW"}) = 4
<1>1. /\ IsFiniteSet({}) /\ Cardinality({}) = 0
  BY FS_EmptySet
<1>2. /\ IsFiniteSet({"outR"}) /\ Cardinality({"outR"}) = 1
      /\ IsFiniteSet({"inR"}) /\ Cardinality({"inR"}) = 1
  BY FS_Singleton
<1>3. /\ IsFiniteSet({"inR"} \union {"inW"}) /\ Cardinality({"inR"} \union {"inW"}) = 2
      /\ Cardinality({"outR"} \union {"inW"}) = 2
  BY <1>2, FS_AddElement
<1>4. /\ {"inR"} \union {"inW"} = {"inR", "inW"}
      /\ {"outR"} \union {"inW"} = {"inW", "outR"}
  OBVIOUS
<1>5. /\ IsFiniteSet({"inR", "inW"} \union {"outR"})
      /\ Cardinality({"inR", "inW"} \union {"outR"}) = 3
  BY <1>3, <1>4, FS_AddElement
<1>6. Cardinality(({"inR", "inW"} \union {"outR"}) \union {"outW"}) = 4
  BY <1>5, FS_AddElement
<1>7. ({"inR", "inW"} \union {"outR"}) \union {"outW"} = {"inR", "inW", "outR", "outW"}
  OBVIOUS
<1> QED
  BY <1>1, <1>2, <1>3, <1>4, <1>6, <1>7

\* The worker's descriptors are a number, and a dead worker has none.
LEMMA HeldIsCounted == ASSUME WorkerInv PROVE Cardinality(held) \in 0..4
BY HeldCount DEF WorkerInv, HeldAt, WorkerStates

LEMMA InitInv == Init => IInv
<1> SUFFICES ASSUME Init PROVE IInv
  OBVIOUS
<1>1. Cardinality(held) = 0
  BY HeldCount DEF Init
<1>2. WorkerInv
  BY DEF Init, WorkerInv, HeldAt, WorkerStates
<1>3. ChildInv
  BY DEF Init, ChildInv, ChildStates
<1>4. OutputInv
  <2>1. terminated \in BOOLEAN
    BY Zenon DEF Init
  <2> QED
    BY <2>1, RunnerAssumption DEF Init, OutputInv
<1>5. LeakInv
  BY <1>1, RunnerAssumption DEF Init, LeakInv
<1> QED
  BY <1>2, <1>3, <1>4, <1>5 DEF IInv

\* A worker that ends, whyever, keeps the invariant.
LEMMA DieStep ==
    ASSUME IInv, NEW how \in Dead, Die(how),
           how = "exhausted" => child = "none" /\ leaked + connections > FdLimit - 4
    PROVE  IInv'
<1>1. Cardinality(held) \in 0..4
  BY HeldIsCounted DEF IInv
<1> QED
  BY <1>1, HeldCount, RunnerAssumption
     DEF Die, Dead, IInv, WorkerInv, ChildInv, OutputInv, LeakInv, HeldAt, WorkerStates,
         owed, buffer, childVars

\* Every action of the worker keeps the invariant.
LEMMA WorkerStep == ASSUME IInv, WorkerNext PROVE IInv'
<1> USE RunnerAssumption DEF IInv, WorkerInv, ChildInv, OutputInv, LeakInv, HeldAt,
        WorkerStates, Dead, owed, buffer, childVars, Ends, InputEnds, OutputEnds, Stdio
<1>1. CASE OpenInputPipe
  <2>1. held = {} /\ held' = {"inR", "inW"} /\ Cardinality(held) = 0 /\ Cardinality(held') = 2
    BY <1>1, HeldCount DEF OpenInputPipe
  <2>2. Cardinality(held') + leaked' + connections' <= FdLimit
    BY <1>1, <2>1 DEF OpenInputPipe, DescriptorsFree
  <2>3. terminated' \in BOOLEAN
    BY <1>1, Zenon DEF OpenInputPipe
  <2>4. WorkerInv' /\ ChildInv' /\ OutputInv'
    BY <1>1, <2>1, <2>3 DEF OpenInputPipe
  <2>5. LeakInv'
    BY <1>1, <2>2 DEF OpenInputPipe
  <2> QED
    BY <2>4, <2>5
<1>2. CASE OpenOutputPipe
  BY <1>2, HeldCount DEF OpenOutputPipe, DescriptorsFree
<1>3. CASE PipeFails
  BY <1>3, HeldCount, DieStep DEF PipeFails, DescriptorsFree
<1>4. CASE PipeRefused \/ ForkFails \/ MarshalFails
  BY <1>4, DieStep DEF PipeRefused, ForkFails, MarshalFails
<1>5. CASE Fork
  BY <1>5 DEF Fork, ChildStates
<1>6. CASE CloseChildEnds
  <2>1. held' = {"inW", "outR"} /\ Cardinality(held) = 4 /\ Cardinality(held') = 2
    BY <1>6, HeldCount DEF CloseChildEnds
  <2> QED
    BY <1>6, <2>1 DEF CloseChildEnds
<1>7. CASE CloseInput
  <2>1. held' = {"outR"} /\ Cardinality(held) = 2 /\ Cardinality(held') = 1
    BY <1>7, HeldCount DEF CloseInput
  <2> QED
    BY <1>7, <2>1 DEF CloseInput
<1>8. ASSUME NEW n \in 1..PipeCapacity, NEW hasMemory \in BOOLEAN, Read(n, hasMemory)
      PROVE  IInv'
  BY <1>8 DEF Read
<1>9. ASSUME NEW hasMemory \in BOOLEAN, ReadEnd(hasMemory) PROVE IInv'
  BY <1>9 DEF ReadEnd, EndOfOutput, Holders
<1>10. CASE Reply
  BY <1>10 DEF Reply
<1>11. CASE ReplyFails
  BY <1>11, HeldCount DEF ReplyFails, ChildStates
<1>12. CASE CloseOutput
  <2>1. held' = {} /\ Cardinality(held) = 1 /\ Cardinality(held') = 0
    BY <1>12, HeldCount DEF CloseOutput
  <2> QED
    BY <1>12, <2>1 DEF CloseOutput
<1>13. CASE Reap
  BY <1>13 DEF Reap, ChildStates
<1> QED
  BY <1>1, <1>2, <1>3, <1>4, <1>5, <1>6, <1>7, <1>8, <1>9, <1>10, <1>11, <1>12,
     <1>13
     DEF WorkerNext

\* So does what comes from outside.
LEMMA OutsideStep == ASSUME IInv, Outside PROVE IInv'
<1>1. CASE Killed
  BY <1>1, DieStep DEF Killed, Dead
<1>2. CASE Connect \/ Disconnect
  <2>1. Cardinality(held) \in 0..4
    BY HeldIsCounted DEF IInv
  <2> QED
    BY <1>2, <2>1, RunnerAssumption
       DEF Connect, Disconnect, DescriptorsFree, Dead, IInv, WorkerInv, ChildInv,
           OutputInv, LeakInv, buffer, childVars
<1> QED
  BY <1>1, <1>2 DEF Outside

\* So does every action of the command and of what it leaves behind.
LEMMA ChildStep == ASSUME IInv, ChildNext PROVE IInv'
<1> USE RunnerAssumption DEF IInv, WorkerInv, ChildInv, OutputInv, LeakInv,
        ChildStates, Dead, owed, buffer, workerVars, Ends, InputEnds, OutputEnds, Stdio
<1>1. ASSUME NEW next \in {"awaitingInput", "working"}, SetUp(next) PROVE IInv'
  BY <1>1 DEF SetUp
<1>2. CASE SetUpFails
  BY <1>2 DEF SetUpFails
<1>3. CASE SeeEndOfInput
  BY <1>3 DEF SeeEndOfInput
<1>4. CASE BeginWrite
  BY <1>4 DEF BeginWrite
<1>5. CASE Write
  BY <1>5 DEF Write, CanWrite
<1>6. CASE WriteFails
  BY <1>6 DEF WriteFails
<1>7. CASE HeirWrites
  BY <1>7 DEF HeirWrites, CanWrite
<1>8. CASE LeaveHeir
  BY <1>8 DEF LeaveHeir
<1>9. CASE Detach
  BY <1>9 DEF Detach
<1>10. CASE Exit
  BY <1>10 DEF Exit
<1>11. CASE HeirExits
  BY <1>11 DEF HeirExits
<1> QED
  BY <1>1, <1>2, <1>3, <1>4, <1>5, <1>6, <1>7, <1>8, <1>9, <1>10, <1>11 DEF ChildNext

\* The inductive invariant holds in every reachable state.
THEOREM Invariance == Spec => []IInv
<1>1. Init => IInv
  BY InitInv
<1>2. IInv /\ [Next]_vars => IInv'
  <2> SUFFICES ASSUME IInv, [Next]_vars PROVE IInv'
    OBVIOUS
  <2>1. CASE UNCHANGED vars
    BY <2>1 DEF vars, IInv, WorkerInv, ChildInv, OutputInv, LeakInv
  <2> QED
    BY <2>1, WorkerStep, OutsideStep, ChildStep DEF Next
<1> QED
  BY <1>1, <1>2, PTL DEF Spec

\* Every variable stays within its type.
THEOREM TypeCorrect == Spec => []TypeOK
<1>1. ASSUME IInv PROVE TypeOK
  <2>1. Cardinality(held) \in 0..4
    BY <1>1, HeldIsCounted DEF IInv
  <2> QED
    BY <1>1, <2>1, RunnerAssumption
       DEF IInv, WorkerInv, ChildInv, OutputInv, LeakInv, TypeOK, HeldAt, WorkerStates,
           Ends, InputEnds, OutputEnds, Stdio, ChildStates
<1> QED
  BY Invariance, <1>1, PTL

\* When the loop ends everything has been read, and the buffer lacks only the
\* chunks for which there was no memory.
THEOREM CompleteOutputCorrect == Spec => []CompleteOutput
<1>1. IInv => CompleteOutput
  BY DEF IInv, WorkerInv, OutputInv, HeldAt, CompleteOutput, Holders, Dead
<1> QED
  BY Invariance, <1>1, PTL

\* No command ever writes to a pipe without a reader while its worker lives.
THEOREM WritersHaveReaderCorrect == Spec => []WritersHaveReader
<1>1. IInv => WritersHaveReader
  BY DEF IInv, WorkerInv, ChildInv, OutputInv, HeldAt, WritersHaveReader, Holders,
         WorkerStates, Dead
<1> QED
  BY Invariance, <1>1, PTL

\* The worker leaks exactly one descriptor and one child per failed send.
THEOREM LeaksAreFailuresCorrect == Spec => []LeaksAreFailures
<1>1. IInv => LeaksAreFailures
  BY DEF IInv, WorkerInv, LeakInv, HeldAt, LeaksAreFailures
<1> QED
  BY Invariance, <1>1, PTL

\* A worker that runs out of descriptors has lost them to failed sends or
\* lent them to clients.
THEOREM ExhaustionHasCausesCorrect == Spec => []ExhaustionHasCauses
<1>1. IInv => ExhaustionHasCauses
  BY DEF IInv, LeakInv, ExhaustionHasCauses
<1> QED
  BY Invariance, <1>1, PTL

-----------------------------------------------------------------------------
\* The end of a worker is WorkerExit wherever it comes.
LEMMA DieMaps ==
    ASSUME IInv, worker \notin Dead, NEW how \in Dead, Die(how)
    PROVE  [Run!Next]_(Run!vars)
<1>1. Phase # "down" /\ Phase' = "down"
  BY DEF IInv, WorkerInv, WorkerStates, Phase, Dead, Die
<1> QED
  BY <1>1 DEF Die, Dead, Run!Next, Run!WorkerExit, owed, buffer, childVars

\* Every action of the worker is one of CommandRun, or none.
LEMMA WorkerStepMaps == ASSUME IInv, WorkerNext PROVE [Run!Next]_(Run!vars)
<1> USE RunnerAssumption DEF IInv, WorkerInv, OutputInv, LeakInv, WorkerStates, Phase,
        Dead, Run!Next, Run!vars, owed, buffer, childVars
<1>1. CASE OpenInputPipe
  BY <1>1 DEF OpenInputPipe, Run!Begin
<1>2. CASE OpenOutputPipe
  BY <1>2 DEF OpenOutputPipe
<1>3. CASE PipeFails \/ PipeRefused \/ ForkFails \/ MarshalFails
  BY <1>3, DieMaps DEF PipeFails, PipeRefused, ForkFails, MarshalFails
<1>4. CASE Fork
  BY <1>4 DEF Fork
<1>5. CASE CloseChildEnds
  BY <1>5 DEF CloseChildEnds
<1>6. CASE CloseInput
  BY <1>6 DEF CloseInput
<1>7. ASSUME NEW n \in 1..PipeCapacity, NEW hasMemory \in BOOLEAN, Read(n, hasMemory)
      PROVE  [Run!Next]_(Run!vars)
  BY <1>7 DEF Read, Run!Starve
<1>8. ASSUME NEW hasMemory \in BOOLEAN, ReadEnd(hasMemory) PROVE [Run!Next]_(Run!vars)
  BY <1>8 DEF ReadEnd, EndOfOutput, Run!CommandEnds
<1>9. CASE Reply
  BY <1>9 DEF Reply, Run!SendReply
<1>10. CASE ReplyFails
  BY <1>10, HeldCount DEF ReplyFails, HeldAt, Run!FailReply
<1>11. CASE CloseOutput
  BY <1>11 DEF CloseOutput
<1>12. CASE Reap
  BY <1>12 DEF Reap, Run!Reap
<1> QED
  BY <1>1, <1>2, <1>3, <1>4, <1>5, <1>6, <1>7, <1>8, <1>9, <1>10, <1>11, <1>12
     DEF WorkerNext

\* Clients that come and go are nothing to a run, a signal is its end.
LEMMA OutsideStepMaps == ASSUME IInv, Outside PROVE [Run!Next]_(Run!vars)
<1>1. CASE Killed
  BY <1>1, DieMaps DEF Killed, Dead
<1>2. CASE Connect \/ Disconnect
  BY <1>2 DEF Connect, Disconnect, Run!vars, Phase, buffer, childVars
<1> QED
  BY <1>1, <1>2 DEF Outside

\* So is every action of the command and of what it leaves behind.
LEMMA ChildStepMaps == ASSUME IInv, ChildNext PROVE [Run!Next]_(Run!vars)
<1> USE RunnerAssumption DEF IInv, WorkerInv, ChildInv, OutputInv, WorkerStates, Phase,
        Dead, Run!Next, Run!vars, workerVars, owed, buffer
<1>1. ASSUME NEW next \in {"awaitingInput", "working"}, SetUp(next)
      PROVE  UNCHANGED Run!vars
  BY <1>1 DEF SetUp
<1>2. CASE SetUpFails
  BY <1>2 DEF SetUpFails, Run!Exit
<1>3. CASE SeeEndOfInput \/ BeginWrite \/ WriteFails
  BY <1>3 DEF SeeEndOfInput, BeginWrite, WriteFails
<1>4. CASE Write
  BY <1>4 DEF Write, CanWrite, Holders, HeldAt, Stdio, Run!Write
<1>5. CASE HeirWrites
  <2>1. worker \notin Dead
    BY <1>5 DEF HeirWrites, CanWrite, Holders, HeldAt, Stdio, ChildStates
  <2> QED
    BY <1>5, <2>1 DEF HeirWrites, Run!Write
<1>6. CASE LeaveHeir
  BY <1>6 DEF LeaveHeir
<1>7. CASE Detach
  BY <1>7 DEF Detach
<1>8. CASE Exit
  BY <1>8 DEF Exit, Run!Exit
<1>9. CASE HeirExits
  BY <1>9 DEF HeirExits
<1> QED
  BY <1>1, <1>2, <1>3, <1>4, <1>5, <1>6, <1>7, <1>8, <1>9 DEF ChildNext

\* execute_cmd() with its pipes and processes implements what the service loop
\* takes the running of a command to be.
THEOREM RunsLikeAbstractCorrect == Spec => RunsLikeAbstract
<1>1. Init => Run!Init
  BY DEF Init, Run!Init, Phase, Dead
<1>2. IInv /\ [Next]_vars => [Run!Next]_(Run!vars)
  <2> SUFFICES ASSUME IInv, [Next]_vars PROVE [Run!Next]_(Run!vars)
    OBVIOUS
  <2>1. CASE UNCHANGED vars
    BY <2>1 DEF vars, Run!vars, Phase, Dead
  <2> QED
    BY <2>1, WorkerStepMaps, OutsideStepMaps, ChildStepMaps DEF Next
<1> QED
  BY Invariance, <1>1, <1>2, PTL DEF Spec, RunsLikeAbstract, Run!Spec
=============================================================================
