----------------------------- MODULE JobControl ------------------------------
(***************************************************************************)
(* One run of the RPC master (Bench.Client) over its slaves                *)
(* (Bench.Server): probing, setup, the pipeline of steps with one task per *)
(* slave and a barrier after each step, and the result line it leaves      *)
(* behind.  A slave is modelled by the worker object its RPC handlers work *)
(* on, and by the program point of the operation its RunJob handler is     *)
(* executing.  The counters and the collection timer are added by          *)
(* BenchRpc, which extends this module.                                    *)
(***************************************************************************)
EXTENDS BenchStat, Sequences, FiniteSets

CONSTANTS
  N,            (* number of slaves; slave i is the i-th of --slaveList     *)
  Pipeline,     (* the steps of --pipeLine, split at ';'                    *)
  Scenario,     (* --scenario: what a "scenario" step runs                  *)
  Connections,  (* --connections: total, dealt out with SplitNumber         *)
  ProtocolValid,(* whether --hubProtocal is json or messagepack             *)
  MaxFaults     (* bound: crashes and lost replies in one behaviour         *)

ASSUME NAssumption == N \in Nat \ {0}
ASSUME PipelineAssumption == Pipeline \in Seq(STRING) /\ Len(Pipeline) > 0
ASSUME ConnectionsAssumption == Connections \in Nat
ASSUME ProtocolAssumption == ProtocolValid \in BOOLEAN
ASSUME FaultsAssumption == MaxFaults \in Nat

VARIABLES
  \* the master
  mpc,      (* where its main thread is                                     *)
  client,   (* index of the client the probe or setup loop has reached      *)
  step,     (* index of the pipeline step being run                         *)
  task,     (* per slave: how far the task of the current step has come     *)
  result,   (* the line appended to jobResult.txt, "none" before            *)
  exit,     (* the exit status of the process                               *)
  \* the slaves
  life,     (* "down" before the process listens, "up", "dead" afterwards   *)
  worker,   (* _sigWorker # null                                            *)
  stat,     (* _tk.State                                                    *)
  conns,    (* _tk.Connections # null                                       *)
  cell,     (* step of _tk.BenchmarkCellConfig, 0 when it is null           *)
  cfg,      (* step whose shuffled list _tk.ConnectionConfigList is, or 0   *)
  range,    (* _tk.ConnectionRange # null                                   *)
  stage,    (* program point of the running operation, "idle" if none       *)
  \* bookkeeping of the model
  faults,   (* crashes and lost replies so far                              *)
  broken    (* slaves on which some step of this run failed                 *)

master == <<mpc, client, step, result, exit>>
worked == <<worker, conns, cell, cfg, range>>
jvars  == <<mpc, client, step, task, result, exit, life, worker, stat, conns,
            cell, cfg, range, stage, faults, broken>>

Slaves == 1..N
Steps  == 1..Len(Pipeline)

MasterPoints == {"probe", "create", "load", "wait", "gap", "verdict", "ended"}
TaskPoints   == {"run", "running", "config", "range", "ok", "err"}
OpPoints     == {"unknown", "create", "creating", "building", "start",
                 "connecting", "delay", "setup", "ready", "running", "saving",
                 "stop", "stopping", "dispose", "disposing"}
Results      == {"none", "SUCCESS", "FAIL"}

\* The share of connections slave s is told to open.
Conns(s) == SplitNumber(Connections, s - 1, N)

\* The class OperationFactory instantiates for the running step of slave s.
OpOf(k) == IF Pipeline[k] = "scenario" THEN Scenario ELSE Pipeline[k]

SendOps  == {"echo", "broadcast", "group", "mix"}
GroupOps == {"joinGroup", "leaveGroup"}

\* The program point at which the operation of step k starts.
Entry(k) ==
  CASE OpOf(k) = "createConn"            -> "create"
    [] OpOf(k) = "startConn"             -> "start"
    [] OpOf(k) \in SendOps \cup GroupOps -> "delay"
    [] OpOf(k) = "stopConn"              -> "stop"
    [] OpOf(k) = "disposeConn"           -> "dispose"
    [] OTHER                             -> "unknown"

-----------------------------------------------------------------------------
(* What a step may find in the initial state: no worker anywhere, some      *)
(* slaves perhaps not listening yet.                                        *)
Init ==
  /\ mpc = "probe" /\ client = 1 /\ step = 1
  /\ task = [s \in Slaves |-> "run"]
  /\ result = "none" /\ exit = "running"
  /\ life = [s \in Slaves |-> "down"]
  /\ worker = [s \in Slaves |-> FALSE]
  /\ stat = [s \in Slaves |-> WorkerUnexist]
  /\ conns = [s \in Slaves |-> FALSE]
  /\ cell = [s \in Slaves |-> 0]
  /\ cfg = [s \in Slaves |-> 0]
  /\ range = [s \in Slaves |-> FALSE]
  /\ stage = [s \in Slaves |-> "idle"]
  /\ faults = 0 /\ broken = {}

-----------------------------------------------------------------------------
(* Slave processes                                                          *)

StartSlave(s) ==
  /\ life[s] = "down"
  /\ life' = [life EXCEPT ![s] = "up"]
  /\ UNCHANGED <<master, task, worked, stat, stage, faults, broken>>

\* The process dies with everything it held; nothing restarts it in a run.
Crash(s) ==
  /\ faults < MaxFaults
  /\ life[s] = "up"
  /\ faults' = faults + 1
  /\ life'   = [life EXCEPT ![s] = "dead"]
  /\ worker' = [worker EXCEPT ![s] = FALSE]
  /\ stat'   = [stat EXCEPT ![s] = WorkerUnexist]
  /\ conns'  = [conns EXCEPT ![s] = FALSE]
  /\ cell'   = [cell EXCEPT ![s] = 0]
  /\ cfg'    = [cfg EXCEPT ![s] = 0]
  /\ range'  = [range EXCEPT ![s] = FALSE]
  /\ stage'  = [stage EXCEPT ![s] = "idle"]
  /\ broken' = IF stage[s] = "idle" THEN broken ELSE broken \cup {s}
  /\ UNCHANGED <<master, task>>

-----------------------------------------------------------------------------
(* Operations, one action per program point of the Do methods.  Move goes   *)
(* on to a later point, Return ends the RunJob handler, Throw ends it with  *)
(* an exception; the reply reaches the task unless it was given up before.  *)

Move(s, from, st, to) ==
  /\ stage[s] = from
  /\ stage' = [stage EXCEPT ![s] = to]
  /\ stat' = [stat EXCEPT ![s] = st]
  /\ UNCHANGED <<master, task, life, worked, faults, broken>>

Reply(s, to) ==
  task' = [task EXCEPT ![s] = IF @ = "running" THEN to ELSE @]

Return(s, from, st) ==
  /\ stage[s] = from
  /\ stage' = [stage EXCEPT ![s] = "idle"]
  /\ stat' = [stat EXCEPT ![s] = st]
  /\ Reply(s, "config")
  /\ UNCHANGED <<master, life, worker, cell, cfg, range, faults, broken>>

Throw(s, from) ==
  /\ stage[s] = from
  /\ stage' = [stage EXCEPT ![s] = "idle"]
  /\ Reply(s, "err")
  /\ broken' = broken \cup {s}
  /\ UNCHANGED <<master, life, worked, stat, faults>>

\* The group operations index the connections by ConnectionRange.
LacksRange(s) ==
  /\ OpOf(cell[s]) \in {"group"} \cup GroupOps
  /\ Conns(s) > 0
  /\ ~range[s]

\* Where an operation cannot go on: an unknown class, the first connection
\* built with an unknown hub protocol, a null list or range.
Stuck(s, from) ==
  \/ from = "unknown"
  \/ from = "building" /\ ~ProtocolValid /\ Conns(s) > 0
  \/ from \in {"connecting", "setup", "stopping", "disposing"} /\ ~conns[s]
  \/ from = "running" /\ LacksRange(s)

\* Appending to the counter file, stopping and disposing can fail by themselves.
OpThrows(s) ==
  \E from \in OpPoints :
    /\ stage[s] = from
    /\ Stuck(s, from) \/ from \in {"saving", "stopping", "disposing"}
    /\ Throw(s, from)

\* createConn: one HubConnection per connection.
CreateConn(s) ==
  \/ Move(s, "create", HubconnUnconnected, "creating")
  \/ Move(s, "creating", HubconnCreating, "building")
  \/ /\ ~Stuck(s, "building")
     /\ Return(s, "building", HubconnCreated)
     /\ conns' = [conns EXCEPT ![s] = TRUE]

\* startConn: connections that fail to start are only counted, so the step
\* succeeds whatever they do.
StartConn(s) ==
  \/ Move(s, "start", HubconnConnecting, "connecting")
  \/ /\ ~Stuck(s, "connecting")
     /\ Return(s, "connecting", HubconnConnected)
     /\ UNCHANGED conns

SendReadyStep(s) == Move(s, "delay", SendReady, "setup")

\* Setup registers a callback on every connection and resets the counters.
Setup(s) ==
  /\ ~Stuck(s, "setup")
  /\ Move(s, "setup", stat[s], "ready")

SendRunningStep(s) == Move(s, "ready", SendRunning, "running")

SendingEnds(s) ==
  /\ stage[s] = "running"
  /\ OpOf(cell[s]) \in SendOps
  /\ ~Stuck(s, "running")
  /\ Move(s, "running", stat[s], "saving")

\* joinGroup and leaveGroup start their messages and complete at once.
GroupStepEnds(s) ==
  /\ stage[s] = "running"
  /\ OpOf(cell[s]) \in GroupOps
  /\ ~Stuck(s, "running")
  /\ Return(s, "running", SendComplete)
  /\ UNCHANGED conns

\* The counters are appended to a file before the state becomes SendComplete.
SaveCounters(s) ==
  /\ Return(s, "saving", SendComplete)
  /\ UNCHANGED conns

StopConn(s) ==
  \/ Move(s, "stop", HubconnDisconnecting, "stopping")
  \/ /\ ~Stuck(s, "stopping")
     /\ Return(s, "stopping", HubconnDisconnected)
     /\ UNCHANGED conns

DisposeConn(s) ==
  \/ Move(s, "dispose", HubconnDisposing, "disposing")
  \/ /\ ~Stuck(s, "disposing")
     /\ Return(s, "disposing", HubconnDisposed)
     /\ UNCHANGED conns

SlaveStep(s) ==
  \/ CreateConn(s)
  \/ StartConn(s)
  \/ SendReadyStep(s)
  \/ Setup(s)
  \/ SendRunningStep(s)
  \/ SendingEnds(s)
  \/ GroupStepEnds(s)
  \/ SaveCounters(s)
  \/ StopConn(s)
  \/ DisposeConn(s)
  \/ OpThrows(s)

-----------------------------------------------------------------------------
(* The master's main thread                                                 *)

slaveside == <<life, worked, stat, stage>>

\* Test on each client in turn; any failure starts over with the first one.
ProbeOk ==
  /\ mpc = "probe"
  /\ life[client] = "up"
  /\ IF client < N
       THEN client' = client + 1 /\ UNCHANGED mpc
       ELSE client' = 1 /\ mpc' = "create"
  /\ UNCHANGED <<step, task, result, exit, slaveside, faults, broken>>

ProbeFails ==
  /\ mpc = "probe"
  /\ life[client] # "up"
  /\ client' = 1
  /\ UNCHANGED <<mpc, step, task, result, exit, slaveside, faults, broken>>

CreateWorker ==
  /\ mpc = "create"
  /\ life[client] = "up"
  /\ mpc' = "load"
  /\ worker' = [worker EXCEPT ![client] = TRUE]
  /\ stat' = [stat EXCEPT ![client] =
                IF worker[client] THEN WorkerExisted ELSE WorkerCreated]
  /\ UNCHANGED <<client, step, task, result, exit, life, conns, cell, cfg,
                 range, stage, faults, broken>>

\* After the last slave the collection timer is started and the first step
\* is handed to its tasks.
LoadJobConfig ==
  /\ mpc = "load"
  /\ life[client] = "up"
  /\ worker' = [worker EXCEPT ![client] = TRUE]
  /\ stat' = [stat EXCEPT ![client] = ConfigLoaded]
  /\ IF client < N
       THEN client' = client + 1 /\ mpc' = "create"
       ELSE client' = client /\ mpc' = "wait"
  /\ UNCHANGED <<step, task, result, exit, life, conns, cell, cfg, range,
                 stage, faults, broken>>

\* The catch block of Main: a FAIL line, and the exception ends the process.
Abort ==
  /\ mpc' = "ended"
  /\ result' = "FAIL"
  /\ exit' = "error"

SetupFails ==
  /\ mpc \in {"create", "load"}
  /\ life[client] # "up"
  /\ Abort
  /\ UNCHANGED <<client, step, task, slaveside, faults, broken>>

\* Mutant of AllTasksOver: WhenAny instead of WhenAll.
AnyTaskOver == \E s \in Slaves : task[s] \in {"ok", "err"}

AllTasksOver == \A s \in Slaves : task[s] \in {"ok", "err"}

\* Mutant of WhenAll: the exceptions of the tasks are not observed.
WhenAllSwallows ==
  /\ mpc = "wait"
  /\ AllTasksOver
  /\ mpc' = "gap"
  /\ UNCHANGED <<client, step, task, result, exit, slaveside, faults, broken>>

\* Task.WhenAll waits for every task, the failed ones too, then rethrows.
WhenAll ==
  /\ mpc = "wait"
  /\ AllTasksOver
  /\ IF \E s \in Slaves : task[s] = "err"
       THEN Abort
       ELSE mpc' = "gap" /\ UNCHANGED <<result, exit>>
  /\ UNCHANGED <<client, step, task, slaveside, faults, broken>>

\* One second later the next step gets a newly shuffled list and new tasks.
NextStep ==
  /\ mpc = "gap"
  /\ IF step < Len(Pipeline)
       THEN /\ step' = step + 1
            /\ task' = [s \in Slaves |-> "run"]
            /\ mpc' = "wait"
       ELSE /\ mpc' = "verdict"
            /\ UNCHANGED <<step, task>>
  /\ UNCHANGED <<client, result, exit, slaveside, faults, broken>>

\* SaveJobResult after the pipeline: a success line; a FAIL line followed by
\* an exception; a FAIL line and a normal end when nothing was ever
\* published; or no line at all when a counter it reads is missing.
Verdict(r, e) ==
  /\ mpc = "verdict"
  /\ mpc' = "ended"
  /\ result' = r
  /\ exit' = e
  /\ UNCHANGED <<client, step, task, slaveside, faults, broken>>

Outcomes == {<<"SUCCESS", "ok">>, <<"FAIL", "error">>, <<"FAIL", "ok">>,
             <<"none", "error">>}

MainThread ==
  \/ ProbeOk
  \/ ProbeFails
  \/ CreateWorker
  \/ LoadJobConfig
  \/ SetupFails
  \/ WhenAll
  \/ NextStep

-----------------------------------------------------------------------------
(* The task of a slave: RunJob, LoadConnectionConfig, LoadConnectionRange.  *)

RunJob(s) ==
  /\ mpc = "wait" /\ task[s] = "run" /\ life[s] = "up"
  /\ task' = [task EXCEPT ![s] = "running"]
  /\ cell' = [cell EXCEPT ![s] = step]
  /\ stage' = [stage EXCEPT ![s] = Entry(step)]
  /\ UNCHANGED <<master, life, worker, stat, conns, cfg, range, faults,
                 broken>>

\* Mutant of LoadConnectionConfig: no LoadConnectionRange follows it.
LoadConfigOnly(s) ==
  /\ mpc = "wait" /\ task[s] = "config" /\ life[s] = "up"
  /\ task' = [task EXCEPT ![s] = "ok"]
  /\ cfg' = [cfg EXCEPT ![s] = step]
  /\ UNCHANGED <<master, life, worker, stat, conns, cell, range, stage,
                 faults, broken>>

LoadConnectionConfig(s) ==
  /\ mpc = "wait" /\ task[s] = "config" /\ life[s] = "up"
  /\ task' = [task EXCEPT ![s] = "range"]
  /\ cfg' = [cfg EXCEPT ![s] = step]
  /\ UNCHANGED <<master, life, worker, stat, conns, cell, range, stage,
                 faults, broken>>

LoadConnectionRange(s) ==
  /\ mpc = "wait" /\ task[s] = "range" /\ life[s] = "up"
  /\ task' = [task EXCEPT ![s] = "ok"]
  /\ range' = [range EXCEPT ![s] = TRUE]
  /\ UNCHANGED <<master, life, worker, stat, conns, cell, cfg, stage, faults,
                 broken>>

\* Mutant of RpcFails: a pending RunJob is not told that its server is gone.
RpcFailsWhenCalled(s) ==
  /\ mpc = "wait" /\ task[s] \in {"run", "config", "range"} /\ life[s] # "up"
  /\ task' = [task EXCEPT ![s] = "err"]
  /\ broken' = broken \cup {s}
  /\ UNCHANGED <<master, slaveside, faults>>

\* A call to a process that is gone raises RpcException in the task.
RpcFails(s) ==
  /\ mpc = "wait" /\ task[s] \notin {"ok", "err"} /\ life[s] # "up"
  /\ task' = [task EXCEPT ![s] = "err"]
  /\ broken' = broken \cup {s}
  /\ UNCHANGED <<master, slaveside, faults>>

\* The connection breaks under a pending RunJob: the task fails while the
\* handler goes on, unsupervised, in the slave.
RpcLost(s) ==
  /\ faults < MaxFaults
  /\ mpc = "wait" /\ task[s] = "running" /\ life[s] = "up"
  /\ faults' = faults + 1
  /\ task' = [task EXCEPT ![s] = "err"]
  /\ broken' = broken \cup {s}
  /\ UNCHANGED <<master, slaveside>>

TaskStep(s) ==
  \/ RunJob(s)
  \/ LoadConnectionConfig(s)
  \/ LoadConnectionRange(s)
  \/ RpcFails(s)

-----------------------------------------------------------------------------
Ended == mpc = "ended"

Terminated ==
  /\ Ended
  /\ UNCHANGED jvars

Next ==
  \/ MainThread
  \/ \E o \in Outcomes : Verdict(o[1], o[2])
  \/ \E s \in Slaves :
       \/ StartSlave(s)
       \/ Crash(s)
       \/ SlaveStep(s)
       \/ TaskStep(s)
       \/ RpcLost(s)
  \/ Terminated

JSpec == Init /\ [][Next]_jvars

(***************************************************************************)
(* The main thread, the thread-pool threads of the tasks and the threads   *)
(* of the RPC handlers all run while they can; nothing makes a slave       *)
(* start, crash or lose a reply.                                           *)
(***************************************************************************)
Fairness ==
  /\ WF_jvars(MainThread)
  /\ WF_jvars(\E o \in Outcomes : Verdict(o[1], o[2]))
  /\ \A s \in Slaves : WF_jvars(SlaveStep(s)) /\ WF_jvars(TaskStep(s))

FairJSpec == JSpec /\ Fairness

-----------------------------------------------------------------------------
(* Properties                                                               *)

TypeOK ==
  /\ mpc \in MasterPoints /\ client \in Slaves /\ step \in Steps
  /\ task \in [Slaves -> TaskPoints]
  /\ result \in Results /\ exit \in {"running", "ok", "error"}
  /\ life \in [Slaves -> {"down", "up", "dead"}]
  /\ worker \in [Slaves -> BOOLEAN]
  /\ stat \in [Slaves -> StatValues]
  /\ conns \in [Slaves -> BOOLEAN]
  /\ cell \in [Slaves -> 0..Len(Pipeline)]
  /\ cfg \in [Slaves -> 0..Len(Pipeline)]
  /\ range \in [Slaves -> BOOLEAN]
  /\ stage \in [Slaves -> OpPoints \cup {"idle"}]
  /\ faults \in 0..MaxFaults
  /\ broken \in SUBSET Slaves

Executing(s) == stage[s] # "idle"

(***************************************************************************)
(* The barrier of Task.WhenAll: two slaves never execute operations of     *)
(* different steps at the same time, not even when one of them was given   *)
(* up by the master and goes on by itself.  A connection is thus never     *)
(* stopped on one slave while another one still sends.                     *)
(***************************************************************************)
SameStep ==
  \A s, t \in Slaves :
    Executing(s) /\ Executing(t) => cell[s] = cell[t]

(***************************************************************************)
(* The list of connection configs is shuffled anew for every step, and     *)
(* reaches a slave after its RunJob of the step.  While operations run,    *)
(* the slaves that run one hold the same list (the one of the step before, *)
(* none in the first step), so they agree on who is in which group.        *)
(***************************************************************************)
SameGroupList ==
  \A s, t \in Slaves :
    Executing(s) /\ Executing(t) => cfg[s] = cfg[t] /\ cfg[s] = cell[s] - 1

(***************************************************************************)
(* A step that failed on any slave (an exception in the operation, a lost  *)
(* call, a process that died in the middle of it) is never papered over:   *)
(* such a run does not report SUCCESS.                                     *)
(***************************************************************************)
FailureNeverHidden == broken # {} => result # "SUCCESS"

(***************************************************************************)
(* A SUCCESS line is written only after every slave that is still alive    *)
(* has executed the last step, loaded its configuration and come to rest.  *)
(***************************************************************************)
SuccessMeansAllDone ==
  result = "SUCCESS" =>
    \A s \in Slaves :
      /\ task[s] = "ok"
      /\ life[s] = "up" => /\ cell[s] = Len(Pipeline)
                           /\ cfg[s] = Len(Pipeline)
                           /\ ~Executing(s)

(***************************************************************************)
(* A group operation never meets a slave without its range: the connection *)
(* list comes from an earlier step, and a step counts as done only after   *)
(* its LoadConnectionRange.  (The code does not test for null.)            *)
(***************************************************************************)
RangeBeforeUse ==
  \A s \in Slaves :
    stage[s] \in {"ready", "running", "saving"} => range[s] /\ cfg[s] > 0

\* The abstract job this module implements.
J == INSTANCE BenchJob WITH
       Slaves   <- Slaves,
       Last     <- Len(Pipeline),
       phase    <- IF mpc \in {"probe", "create", "load"} THEN "starting"
                   ELSE IF mpc = "ended" THEN "ended" ELSE "running",
       current  <- step,
       finished <- {s \in Slaves : task[s] = "ok"},
       verdict  <- result

\* Steps one after the other, each by all slaves, then a single verdict.
ImplementsBenchJob == J!Spec

(***************************************************************************)
(* Once probing is over the run ends, whatever crashes or replies are      *)
(* lost: every task finishes or fails, and no slave is waited for forever. *)
(***************************************************************************)
EndsAfterProbe == mpc # "probe" ~> Ended
=============================================================================
