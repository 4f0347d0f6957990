-------------------------- MODULE JobControl_proofs ---------------------------
(***************************************************************************)
(* Proofs about JobControl for any number of slaves, any pipeline and any  *)
(* number of faults: its invariants, through one inductive invariant, and  *)
(* that it implements BenchJob.                                            *)
(***************************************************************************)
EXTENDS JobControl, TLAPS

\* What a slave in the middle of an operation looks like.
ExecInv ==
  \A s \in Slaves :
    Executing(s) =>
      /\ life[s] = "up" /\ task[s] \in {"running", "err"}
      /\ mpc \in {"wait", "ended"}
      /\ cell[s] = step /\ cfg[s] = step - 1
      /\ step = 1 => ~conns[s]
      /\ step > 1 => range[s]

\* The list of connections is there once Setup has passed.
ListInv ==
  \A s \in Slaves : stage[s] \in {"ready", "running", "saving"} => conns[s]

\* What the master's task knows of its slave.
TaskInv ==
  \A s \in Slaves :
    /\ task[s] \in {"run", "config", "range", "ok"} => stage[s] = "idle"
    /\ life[s] = "up" =>
         /\ task[s] = "run" =>
              /\ cell[s] = step - 1 /\ cfg[s] = step - 1
              /\ step = 1 => ~conns[s]
              /\ step > 1 => range[s]
         /\ task[s] = "running" => Executing(s)
         /\ task[s] = "config" => cell[s] = step
         /\ task[s] = "range"  => cell[s] = step /\ cfg[s] = step
         /\ task[s] = "ok"     => cell[s] = step /\ cfg[s] = step /\ range[s]

\* Where the main thread is, and what that says of all the tasks.
MainInv ==
  /\ mpc # "ended" => result = "none"
  /\ mpc \in {"probe", "create", "load"} =>
       step = 1 /\ \A s \in Slaves : task[s] = "run"
  /\ mpc \in {"gap", "verdict"} => \A s \in Slaves : task[s] = "ok"
  /\ mpc = "verdict" => step = Len(Pipeline)
  /\ mpc = "ended" => \A s \in Slaves : task[s] # "running"
  /\ result = "SUCCESS" =>
       step = Len(Pipeline) /\ \A s \in Slaves : task[s] = "ok"

\* A failed step shows in its task, at the latest when the call fails.
BrokenInv ==
  \A s \in broken :
    \/ task[s] = "err"
    \/ task[s] = "running" /\ life[s] # "up"

\* A slave that has not started yet is one the probe has not passed, and blank.
DownInv ==
  \A s \in Slaves :
    life[s] = "down" =>
      /\ mpc = "probe" /\ client <= s
      /\ cell[s] = 0 /\ cfg[s] = 0 /\ ~conns[s]

IInv ==
  /\ TypeOK
  /\ ExecInv
  /\ ListInv
  /\ TaskInv
  /\ MainInv
  /\ BrokenInv
  /\ DownInv

-----------------------------------------------------------------------------
(* Every action of an operation is a Move, a Return or a Throw, so the      *)
(* proofs below treat these three instead of the operations one by one.     *)

MoveShape(s) ==
  \E from, to \in OpPoints, st \in StatValues :
    /\ Move(s, from, st, to)
    /\ to = "ready" => conns[s]
    /\ to = "running" => from = "ready"
    /\ to = "saving" => from = "running"

ReturnShape(s) ==
  \E from \in OpPoints, st \in StatValues :
    /\ Return(s, from, st)
    /\ conns' \in {conns, [conns EXCEPT ![s] = TRUE]}

ThrowShape(s) == \E from \in OpPoints : Throw(s, from)

\* A program point of an operation only moves on, returns or throws.
LEMMA SlaveStepShape ==
  ASSUME TypeOK, NEW s \in Slaves, SlaveStep(s)
  PROVE  MoveShape(s) \/ ReturnShape(s) \/ ThrowShape(s)
<1> USE DEF OpPoints
<1> stat[s] \in StatValues
  BY DEF TypeOK
<1> /\ {HubconnUnconnected, HubconnConnecting, HubconnConnected, SendReady,
        SendRunning, SendComplete, HubconnCreating, HubconnCreated,
        HubconnDisconnecting, HubconnDisconnected, HubconnDisposing,
        HubconnDisposed} \subseteq StatValues
  BY DEF StatValues
<1>1. CASE CreateConn(s)
  BY <1>1 DEF CreateConn, MoveShape, ReturnShape
<1>2. CASE StartConn(s)
  BY <1>2 DEF StartConn, MoveShape, ReturnShape
<1>3. CASE SendReadyStep(s) \/ Setup(s) \/ SendRunningStep(s) \/ SendingEnds(s)
  BY <1>3 DEF SendReadyStep, Setup, SendRunningStep, SendingEnds, Stuck,
              MoveShape
<1>4. CASE GroupStepEnds(s) \/ SaveCounters(s)
  BY <1>4 DEF GroupStepEnds, SaveCounters, ReturnShape
<1>5. CASE StopConn(s) \/ DisposeConn(s)
  BY <1>5 DEF StopConn, DisposeConn, MoveShape, ReturnShape
<1>6. CASE OpThrows(s)
  BY <1>6 DEF OpThrows, ThrowShape
<1> QED
  BY <1>1, <1>2, <1>3, <1>4, <1>5, <1>6 DEF SlaveStep

\* The operation a step starts with is one of the program points.
LEMMA EntryPoint == \A k \in Steps : Entry(k) \in OpPoints \ {"ready", "running", "saving"}
BY DEF Entry, OpPoints

-----------------------------------------------------------------------------
(* Type correctness                                                         *)

\* Every step keeps the variables in their types.
LEMMA TypeOKStep == TypeOK /\ [Next]_jvars => TypeOK'
<1> SUFFICES ASSUME TypeOK, [Next]_jvars
             PROVE  TypeOK'
  OBVIOUS
<1> USE DEF TypeOK, master, worked, slaveside
<1> Len(Pipeline) \in Nat \ {0} /\ Steps \subseteq 0..Len(Pipeline)
  BY PipelineAssumption DEF Steps
<1>1. ASSUME NEW s \in Slaves, StartSlave(s)
      PROVE  TypeOK'
  BY <1>1 DEF StartSlave
<1>2. ASSUME NEW s \in Slaves, Crash(s)
      PROVE  TypeOK'
  <2>1. stat' \in [Slaves -> StatValues]
    BY <1>2 DEF Crash, StatValues
  <2>2. faults' \in 0..MaxFaults
    BY <1>2, FaultsAssumption DEF Crash
  <2>3. /\ conns' \in [Slaves -> BOOLEAN]
        /\ range' \in [Slaves -> BOOLEAN]
        /\ worker' \in [Slaves -> BOOLEAN]
    BY <1>2, Zenon DEF Crash
  <2>4. /\ life' \in [Slaves -> {"down", "up", "dead"}]
        /\ stage' \in [Slaves -> OpPoints \cup {"idle"}]
        /\ cell' \in [Slaves -> 0..Len(Pipeline)]
        /\ cfg' \in [Slaves -> 0..Len(Pipeline)]
    BY <1>2 DEF Crash
  <2>5. broken' \in SUBSET Slaves
    BY <1>2 DEF Crash
  <2> QED
    BY <1>2, <2>1, <2>2, <2>3, <2>4, <2>5 DEF Crash
<1>3. ASSUME NEW s \in Slaves, MoveShape(s)
      PROVE  TypeOK'
  BY <1>3 DEF MoveShape, Move
<1>4. ASSUME NEW s \in Slaves, ReturnShape(s)
      PROVE  TypeOK'
  <2> PICK from \in OpPoints, st \in StatValues :
             /\ Return(s, from, st)
             /\ conns' \in {conns, [conns EXCEPT ![s] = TRUE]}
    BY <1>4 DEF ReturnShape
  <2>1. task' \in [Slaves -> TaskPoints]
    BY DEF Return, Reply, TaskPoints
  <2>2. conns' \in [Slaves -> BOOLEAN]
    BY Zenon
  <2>3. /\ stage' \in [Slaves -> OpPoints \cup {"idle"}]
        /\ stat' \in [Slaves -> StatValues]
    BY DEF Return
  <2> QED
    BY <2>1, <2>2, <2>3 DEF Return
<1>5. ASSUME NEW s \in Slaves, ThrowShape(s)
      PROVE  TypeOK'
  BY <1>5 DEF ThrowShape, Throw, Reply, TaskPoints
<1>6. ASSUME NEW s \in Slaves, SlaveStep(s)
      PROVE  TypeOK'
  BY <1>3, <1>4, <1>5, <1>6, SlaveStepShape
<1>7. CASE MainThread
  <2> 1 \in Slaves
    BY NAssumption DEF Slaves
  <2>1. CASE ProbeOk
    <3> client' \in Slaves /\ mpc' \in MasterPoints
      BY <2>1, NAssumption DEF ProbeOk, MasterPoints, Slaves
    <3> QED
      BY <2>1 DEF ProbeOk
  <2>2. CASE ProbeFails
    BY <2>2 DEF ProbeFails
  <2>3. CASE CreateWorker
    <3> {WorkerExisted, WorkerCreated} \subseteq StatValues
      BY DEF StatValues
    <3>1. worker' \in [Slaves -> BOOLEAN]
      BY <2>3, Zenon DEF CreateWorker
    <3>2. stat' \in [Slaves -> StatValues]
      BY <2>3 DEF CreateWorker
    <3>3. mpc' \in MasterPoints
      BY <2>3 DEF CreateWorker, MasterPoints
    <3> QED
      BY <2>3, <3>1, <3>2, <3>3 DEF CreateWorker
  <2>4. CASE LoadJobConfig
    <3>1. worker' \in [Slaves -> BOOLEAN]
      BY <2>4, Zenon DEF LoadJobConfig
    <3>2. stat' \in [Slaves -> StatValues]
      BY <2>4 DEF LoadJobConfig, StatValues
    <3>3. mpc' \in MasterPoints /\ client' \in Slaves
      BY <2>4, NAssumption DEF LoadJobConfig, MasterPoints, Slaves
    <3> QED
      BY <2>4, <3>1, <3>2, <3>3 DEF LoadJobConfig
  <2>5. CASE SetupFails
    BY <2>5 DEF SetupFails, Abort, MasterPoints, Results
  <2>6. CASE WhenAll
    BY <2>6 DEF WhenAll, Abort, MasterPoints, Results
  <2>7. CASE NextStep
    <3>1. mpc' \in MasterPoints /\ step' \in Steps
      BY <2>7, PipelineAssumption DEF NextStep, MasterPoints, Steps
    <3>2. task' \in [Slaves -> TaskPoints]
      BY <2>7 DEF NextStep, TaskPoints
    <3> QED
      BY <2>7, <3>1, <3>2 DEF NextStep
  <2> QED
    BY <1>7, <2>1, <2>2, <2>3, <2>4, <2>5, <2>6, <2>7 DEF MainThread
<1>8. ASSUME NEW o \in Outcomes, Verdict(o[1], o[2])
      PROVE  TypeOK'
  <2> o[1] \in Results /\ o[2] \in {"ok", "error"}
    BY <1>8 DEF Outcomes, Results
  <2> QED
    BY <1>8 DEF Verdict, MasterPoints
<1>9. ASSUME NEW s \in Slaves, TaskStep(s) \/ RpcLost(s)
      PROVE  TypeOK'
  <2> {"running", "range", "ok", "err"} \subseteq TaskPoints
    BY DEF TaskPoints
  <2>1. CASE RunJob(s)
    BY <2>1, EntryPoint DEF RunJob
  <2>2. CASE LoadConnectionConfig(s)
    BY <2>2 DEF LoadConnectionConfig
  <2>3. CASE LoadConnectionRange(s)
    <3> range' \in [Slaves -> BOOLEAN]
      BY <2>3, Zenon DEF LoadConnectionRange
    <3> QED
      BY <2>3 DEF LoadConnectionRange
  <2>4. CASE RpcFails(s)
    BY <2>4 DEF RpcFails
  <2>5. CASE RpcLost(s)
    <3> faults' \in 0..MaxFaults
      BY <2>5, FaultsAssumption DEF RpcLost
    <3> QED
      BY <2>5 DEF RpcLost
  <2> QED
    BY <1>9, <2>1, <2>2, <2>3, <2>4, <2>5 DEF TaskStep
<1>10. CASE Terminated \/ UNCHANGED jvars
  BY <1>10 DEF Terminated, jvars
<1> QED
  BY <1>1, <1>2, <1>6, <1>7, <1>8, <1>9, <1>10 DEF Next

\* The model's variables keep their types in every run.
THEOREM TypeCorrect == JSpec => []TypeOK
<1>1. Init => TypeOK
  BY NAssumption, PipelineAssumption, FaultsAssumption
     DEF Init, TypeOK, Slaves, Steps, MasterPoints, TaskPoints, Results,
         StatValues
<1> QED
  BY <1>1, TypeOKStep, PTL DEF JSpec

-----------------------------------------------------------------------------
(* The inductive invariant                                                  *)

\* What the operations of one slave do to the invariant.
LEMMA OperationKeeps ==
  ASSUME IInv, TypeOK', NEW s \in Slaves, SlaveStep(s)
  PROVE  IInv'
<1> USE DEF IInv, TypeOK, ExecInv, ListInv, TaskInv, MainInv, BrokenInv,
            DownInv, Executing, master, worked
<1>1. CASE MoveShape(s)
  <2> PICK from \in OpPoints, to \in OpPoints, st \in StatValues :
             /\ Move(s, from, st, to)
             /\ to = "ready" => conns[s]
             /\ to = "running" => from = "ready"
             /\ to = "saving" => from = "running"
    BY <1>1 DEF MoveShape
  <2> from # "idle" /\ to # "idle"
    BY DEF OpPoints
  <2>1. ExecInv'
    BY DEF Move
  <2>2. ListInv'
    BY DEF Move
  <2>3. TaskInv'
    BY DEF Move
  <2>4. MainInv' /\ BrokenInv' /\ DownInv'
    BY DEF Move
  <2> QED
    BY <2>1, <2>2, <2>3, <2>4
<1>2. CASE ReturnShape(s)
  <2> PICK from \in OpPoints, st \in StatValues :
             /\ Return(s, from, st)
             /\ conns' \in {conns, [conns EXCEPT ![s] = TRUE]}
    BY <1>2 DEF ReturnShape
  <2> from # "idle"
    BY DEF OpPoints
  <2> \A t \in Slaves \ {s} : /\ conns'[t] = conns[t]
                              /\ task'[t] = task[t]
                              /\ stage'[t] = stage[t]
    BY DEF Return, Reply
  <2>a. stage'[s] = "idle" /\ task'[s] \in {"config", "err"}
    BY DEF Return, Reply
  <2>1. ExecInv'
    BY <2>a DEF Return
  <2>2. ListInv'
    BY <2>a DEF Return
  <2>3. TaskInv'
    BY <2>a DEF Return
  <2>4. MainInv'
    BY <2>a DEF Return
  <2>5. BrokenInv' /\ DownInv'
    BY <2>a DEF Return, Reply
  <2> QED
    BY <2>1, <2>2, <2>3, <2>4, <2>5
<1>3. CASE ThrowShape(s)
  <2> PICK from \in OpPoints : Throw(s, from)
    BY <1>3 DEF ThrowShape
  <2> from # "idle"
    BY DEF OpPoints
  <2> \A t \in Slaves \ {s} : /\ task'[t] = task[t]
                              /\ stage'[t] = stage[t]
    BY DEF Throw, Reply
  <2>a. stage'[s] = "idle" /\ task'[s] = "err"
    BY DEF Throw, Reply
  <2>1. ExecInv'
    BY <2>a DEF Throw
  <2>2. ListInv'
    BY <2>a DEF Throw
  <2>3. TaskInv'
    BY <2>a DEF Throw
  <2>4. MainInv'
    BY <2>a DEF Throw
  <2>5. BrokenInv' /\ DownInv'
    BY <2>a DEF Throw
  <2> QED
    BY <2>1, <2>2, <2>3, <2>4, <2>5
<1> QED
  BY <1>1, <1>2, <1>3, SlaveStepShape

\* What starting and crashing do to the invariant.
LEMMA ProcessKeeps ==
  ASSUME IInv, TypeOK', NEW s \in Slaves, StartSlave(s) \/ Crash(s)
  PROVE  IInv'
<1> USE DEF IInv, TypeOK, ExecInv, ListInv, TaskInv, MainInv, BrokenInv,
            DownInv, Executing, master, worked
<1>1. CASE StartSlave(s)
  <2> /\ life[s] # "up" /\ stage[s] = "idle"
      /\ life' = [life EXCEPT ![s] = "up"]
      /\ UNCHANGED <<master, task, worked, stat, stage, faults, broken>>
    BY <1>1 DEF StartSlave
  <2>1. TaskInv'
    BY <1>1, NAssumption DEF StartSlave
  <2>2. ExecInv' /\ ListInv' /\ MainInv' /\ DownInv'
    OBVIOUS
  <2>3. BrokenInv'
    BY <1>1 DEF StartSlave
  <2> QED
    BY <2>1, <2>2, <2>3
<1>2. CASE Crash(s)
  <2>1. ExecInv' /\ ListInv'
    BY <1>2 DEF Crash
  <2>2. TaskInv'
    BY <1>2 DEF Crash
  <2>3. MainInv'
    BY <1>2 DEF Crash
  <2>4. BrokenInv' /\ DownInv'
    BY <1>2 DEF Crash
  <2> QED
    BY <2>1, <2>2, <2>3, <2>4
<1> QED
  BY <1>1, <1>2

\* What the task of one slave does to the invariant.
LEMMA TaskKeeps ==
  ASSUME IInv, TypeOK', NEW s \in Slaves, TaskStep(s) \/ RpcLost(s)
  PROVE  IInv'
<1> USE DEF IInv, TypeOK, ExecInv, ListInv, TaskInv, MainInv, BrokenInv,
            DownInv, Executing, master, worked, slaveside
<1>1. CASE RunJob(s)
  <2> Entry(step) \in OpPoints \ {"ready", "running", "saving"}
    BY EntryPoint
  <2> Entry(step) # "idle"
    BY DEF OpPoints
  <2>1. ExecInv' /\ ListInv'
    BY <1>1 DEF RunJob
  <2>2. TaskInv'
    BY <1>1 DEF RunJob
  <2>3. MainInv' /\ BrokenInv' /\ DownInv'
    BY <1>1 DEF RunJob
  <2> QED
    BY <2>1, <2>2, <2>3
<1>2. CASE LoadConnectionConfig(s)
  <2>1. ExecInv' /\ ListInv'
    BY <1>2 DEF LoadConnectionConfig
  <2>2. TaskInv'
    BY <1>2 DEF LoadConnectionConfig
  <2>3. MainInv' /\ BrokenInv' /\ DownInv'
    BY <1>2 DEF LoadConnectionConfig
  <2> QED
    BY <2>1, <2>2, <2>3
<1>3. CASE LoadConnectionRange(s)
  <2>1. ExecInv' /\ ListInv'
    BY <1>3 DEF LoadConnectionRange
  <2>2. TaskInv'
    BY <1>3 DEF LoadConnectionRange
  <2>3. MainInv' /\ BrokenInv' /\ DownInv'
    BY <1>3 DEF LoadConnectionRange
  <2> QED
    BY <2>1, <2>2, <2>3
<1>4. CASE RpcFails(s) \/ RpcLost(s)
  <2> /\ mpc = "wait" /\ task[s] \notin {"ok", "err"}
      /\ task' = [task EXCEPT ![s] = "err"]
      /\ broken' = broken \cup {s}
      /\ UNCHANGED <<master, slaveside>>
    BY <1>4 DEF RpcFails, RpcLost
  <2>1. ExecInv' /\ ListInv'
    BY <1>4 DEF RpcFails, RpcLost
  <2>2. TaskInv'
    OBVIOUS
  <2>3. MainInv' /\ BrokenInv' /\ DownInv'
    OBVIOUS
  <2> QED
    BY <2>1, <2>2, <2>3
<1> QED
  BY <1>1, <1>2, <1>3, <1>4 DEF TaskStep

\* What the main thread does to the invariant.
LEMMA MainKeeps ==
  ASSUME IInv, TypeOK', MainThread
  PROVE  IInv'
<1> USE DEF IInv, TypeOK, ExecInv, ListInv, TaskInv, MainInv, BrokenInv,
            DownInv, Executing, master, worked, slaveside
<1>1. CASE ProbeOk
  <2>1. DownInv'
    BY <1>1, NAssumption DEF ProbeOk, Slaves
  <2> QED
    BY <1>1, <2>1 DEF ProbeOk
<1>2. CASE ProbeFails
  <2>1. DownInv'
    BY <1>2, NAssumption DEF ProbeFails, Slaves
  <2> QED
    BY <1>2, <2>1 DEF ProbeFails
<1>3. CASE CreateWorker \/ LoadJobConfig
  <2>1. DownInv'
    BY <1>3 DEF CreateWorker, LoadJobConfig
  <2>2. TaskInv' /\ MainInv'
    BY <1>3 DEF CreateWorker, LoadJobConfig
  <2>3. ExecInv' /\ ListInv' /\ BrokenInv'
    BY <1>3 DEF CreateWorker, LoadJobConfig
  <2> QED
    BY <2>1, <2>2, <2>3
<1>4. CASE SetupFails \/ WhenAll
  <2> /\ mpc \notin {"probe", "ended"}
      /\ \A s \in Slaves : task[s] # "running"
    BY <1>4 DEF SetupFails, WhenAll, AllTasksOver
  <2> UNCHANGED <<client, step, task, slaveside, faults, broken>>
    BY <1>4 DEF SetupFails, WhenAll
  <2>1. MainInv'
    BY <1>4 DEF SetupFails, WhenAll, Abort, AllTasksOver
  <2>2. ExecInv'
    BY <1>4 DEF SetupFails, WhenAll, Abort
  <2>3. TaskInv' /\ ListInv' /\ BrokenInv' /\ DownInv'
    OBVIOUS
  <2> QED
    BY <2>1, <2>2, <2>3
<1>5. CASE NextStep
  <2>1. broken = {} /\ \A s \in Slaves : stage[s] = "idle"
    BY <1>5 DEF NextStep
  <2>2. CASE step < Len(Pipeline)
    <3> /\ step' = step + 1 /\ step \in Nat \ {0}
        /\ task' = [s \in Slaves |-> "run"]
        /\ mpc' = "wait"
        /\ UNCHANGED <<client, result, exit, slaveside, faults, broken>>
      BY <1>5, <2>2 DEF NextStep, Steps
    <3>1. ExecInv' /\ ListInv'
      BY <2>1
    <3>2. BrokenInv' /\ MainInv' /\ DownInv'
      BY <1>5, <2>1 DEF NextStep
    <3>3. TaskInv'
      BY <1>5, <2>1 DEF NextStep
    <3> QED
      BY <3>1, <3>2, <3>3
  <2>3. CASE ~(step < Len(Pipeline))
    <3> step = Len(Pipeline)
      BY <2>3, PipelineAssumption DEF Steps
    <3> QED
      BY <1>5, <2>1, <2>3 DEF NextStep
  <2> QED
    BY <2>2, <2>3
<1> QED
  BY <1>1, <1>2, <1>3, <1>4, <1>5 DEF MainThread

\* What the line in the result file does to the invariant.
LEMMA VerdictKeeps ==
  ASSUME IInv, TypeOK', NEW o \in Outcomes, Verdict(o[1], o[2])
  PROVE  IInv'
BY DEF IInv, TypeOK, ExecInv, ListInv, TaskInv, MainInv, BrokenInv, DownInv,
       Executing,
       master, worked, slaveside, Verdict

\* Every step of Next, and every stutter, keeps the invariant.
LEMMA NextKeeps == IInv /\ [Next]_jvars => IInv'
<1> SUFFICES ASSUME IInv, [Next]_jvars PROVE IInv'
  OBVIOUS
<1> TypeOK'
  BY TypeOKStep DEF IInv
<1>1. CASE Terminated \/ UNCHANGED jvars
  BY <1>1 DEF Terminated, jvars, IInv, ExecInv, ListInv, TaskInv, MainInv,
              BrokenInv, DownInv, Executing
<1> QED
  BY <1>1, OperationKeeps, ProcessKeeps, TaskKeeps, MainKeeps, VerdictKeeps
     DEF Next

\* Runs begin with the invariant.
LEMMA InitKeeps == Init => IInv
<1> SUFFICES ASSUME Init PROVE IInv
  OBVIOUS
<1>1. TypeOK
  BY NAssumption, PipelineAssumption, FaultsAssumption
     DEF Init, TypeOK, Slaves, Steps, MasterPoints, TaskPoints, Results,
         StatValues
<1>2. DownInv
  BY NAssumption DEF Init, DownInv, Slaves
<1> QED
  BY <1>1, <1>2 DEF Init, IInv, ExecInv, ListInv, TaskInv, MainInv,
                    BrokenInv, Executing

\* The invariant holds in every reachable state.
LEMMA Invariance == JSpec => []IInv
BY InitKeeps, NextKeeps, PTL DEF JSpec

\* Slaves execute in lockstep: never operations of two different steps.
THEOREM Lockstep == JSpec => []SameStep
<1>1. IInv => SameStep
  BY DEF IInv, ExecInv, SameStep
<1> QED
  BY <1>1, Invariance, PTL

\* Slaves that execute an operation hold the same list of groups.
THEOREM OneGroupList == JSpec => []SameGroupList
<1>1. IInv => SameGroupList
  BY DEF IInv, ExecInv, SameGroupList
<1> QED
  BY <1>1, Invariance, PTL

\* No run in which a step failed reports SUCCESS.
THEOREM NoHiddenFailure == JSpec => []FailureNeverHidden
<1>1. IInv => FailureNeverHidden
  BY DEF IInv, TypeOK, MainInv, BrokenInv, FailureNeverHidden
<1> QED
  BY <1>1, Invariance, PTL

\* SUCCESS is reported only when every slave alive has done every step.
THEOREM SuccessIsComplete == JSpec => []SuccessMeansAllDone
<1>1. IInv => SuccessMeansAllDone
  BY DEF IInv, TypeOK, MainInv, TaskInv, Executing, SuccessMeansAllDone
<1> QED
  BY <1>1, Invariance, PTL

\* A sending or group operation has its connections and its range.
THEOREM RangeIsLoaded == JSpec => []RangeBeforeUse
<1>1. IInv => RangeBeforeUse
  <2> SUFFICES ASSUME IInv, NEW s \in Slaves,
                      stage[s] \in {"ready", "running", "saving"}
               PROVE  range[s] /\ cfg[s] > 0
    BY DEF RangeBeforeUse
  <2> conns[s] /\ step \in Nat \ {0}
    BY PipelineAssumption DEF IInv, ListInv, TypeOK, Steps
  <2> QED
    BY DEF IInv, ExecInv, Executing
<1> QED
  BY <1>1, Invariance, PTL

-----------------------------------------------------------------------------
(* Refinement of BenchJob: LoadJobConfig of the last slave is Begin,        *)
(* LoadConnectionRange is Finish, NextStep is Advance, the catch block is   *)
(* GiveUp and SaveJobResult at the end is Judge; all else is a stutter.     *)

Finished == {s \in Slaves : task[s] = "ok"}

\* Steps of the slaves and of their tasks, seen from the abstract job.
LEMMA SlaveRefines ==
  ASSUME IInv, NEW s \in Slaves,
         StartSlave(s) \/ Crash(s) \/ SlaveStep(s) \/ TaskStep(s) \/ RpcLost(s)
  PROVE  [J!Next]_J!bvars
<1> USE DEF J!bvars, master, slaveside
<1> task \in [Slaves -> TaskPoints]
  BY DEF IInv, TypeOK
<1>1. CASE StartSlave(s) \/ Crash(s)
  BY <1>1 DEF StartSlave, Crash
<1>2. CASE SlaveStep(s)
  <2>1. /\ UNCHANGED master
        /\ \/ UNCHANGED task
           \/ \E to \in {"config", "err"} : Reply(s, to)
    <3> TypeOK
      BY DEF IInv
    <3> QED
      BY <1>2, SlaveStepShape
         DEF MoveShape, ReturnShape, ThrowShape, Move, Return, Throw
  <2>2. Finished' = Finished
    BY <2>1 DEF Finished, Reply
  <2> QED
    BY <2>1, <2>2 DEF Finished
<1>3. CASE RunJob(s)
  <2> Finished' = Finished
    BY <1>3 DEF RunJob, Finished
  <2> QED
    BY <1>3 DEF RunJob, Finished
<1>4. CASE LoadConnectionConfig(s)
  <2> Finished' = Finished
    BY <1>4 DEF LoadConnectionConfig, Finished
  <2> QED
    BY <1>4 DEF LoadConnectionConfig, Finished
<1>5. CASE LoadConnectionRange(s)
  <2>1. s \notin Finished /\ Finished' = Finished \cup {s}
    BY <1>5 DEF LoadConnectionRange, Finished
  <2>2. J!Finish(s)
    BY <1>5, <2>1 DEF LoadConnectionRange, Finished, J!Finish
  <2> QED
    BY <2>2 DEF J!Next
<1>6. CASE RpcFails(s) \/ RpcLost(s)
  <2> Finished' = Finished
    BY <1>6 DEF RpcFails, RpcLost, Finished
  <2> QED
    BY <1>6 DEF RpcFails, RpcLost, Finished
<1> QED
  BY <1>1, <1>2, <1>3, <1>4, <1>5, <1>6 DEF TaskStep

\* Steps of the main thread, seen from the abstract job.
LEMMA MainRefines ==
  ASSUME IInv, MainThread \/ \E o \in Outcomes : Verdict(o[1], o[2])
  PROVE  [J!Next]_J!bvars
<1> USE DEF J!bvars, slaveside
<1>1. CASE ProbeOk \/ ProbeFails \/ CreateWorker
  BY <1>1 DEF ProbeOk, ProbeFails, CreateWorker
<1>2. CASE LoadJobConfig
  BY <1>2 DEF LoadJobConfig, J!Next, J!Begin
<1>3. CASE SetupFails
  BY <1>3 DEF SetupFails, Abort, J!Next, J!GiveUp
<1>4. CASE WhenAll
  BY <1>4 DEF WhenAll, Abort, J!Next, J!GiveUp
<1>5. CASE NextStep
  <2>1. mpc = "gap" /\ Finished = Slaves
    BY <1>5 DEF NextStep, IInv, MainInv, Finished
  <2>2. CASE step < Len(Pipeline)
    <3>1. Finished' = {}
      BY <1>5, <2>2 DEF NextStep, Finished
    <3>2. J!Advance
      BY <1>5, <2>1, <2>2, <3>1 DEF NextStep, J!Advance, Finished
    <3> QED
      BY <3>2 DEF J!Next
  <2>3. CASE ~(step < Len(Pipeline))
    BY <1>5, <2>3 DEF NextStep
  <2> QED
    BY <2>2, <2>3
<1>6. ASSUME NEW o \in Outcomes, Verdict(o[1], o[2])
      PROVE  [J!Next]_J!bvars
  <2>1. Finished = Slaves /\ step = Len(Pipeline)
    BY <1>6 DEF Verdict, IInv, MainInv, Finished
  <2>2. o[1] \in {"SUCCESS", "FAIL", "none"}
    BY <1>6 DEF Outcomes
  <2>3. J!Judge
    BY <1>6, <2>1, <2>2 DEF Verdict, J!Judge, Finished
  <2> QED
    BY <2>3 DEF J!Next
<1> QED
  BY <1>1, <1>2, <1>3, <1>4, <1>5, <1>6 DEF MainThread

\* Every run of the master is a run of the abstract job.
THEOREM Refinement == JSpec => ImplementsBenchJob
<1>1. Init => J!Init
  <2> SUFFICES ASSUME Init PROVE J!Init
    OBVIOUS
  <2> Finished = {}
    BY DEF Init, Finished
  <2> QED
    BY DEF Init, J!Init, Finished
<1>2. IInv /\ [Next]_jvars => [J!Next]_J!bvars
  <2> SUFFICES ASSUME IInv, [Next]_jvars PROVE [J!Next]_J!bvars
    OBVIOUS
  <2>1. CASE Terminated \/ UNCHANGED jvars
    BY <2>1 DEF Terminated, jvars, J!bvars
  <2> QED
    BY <2>1, SlaveRefines, MainRefines DEF Next
<1> QED
  BY <1>1, <1>2, Invariance, PTL DEF JSpec, ImplementsBenchJob, J!Spec
=============================================================================
