--------------------------- MODULE BenchRpc_proofs ----------------------------
(***************************************************************************)
(* Proofs about BenchRpc for any number of slaves, handlers and messages:  *)
(* the counters and the timer leave the job as JobControl describes it, so *)
(* that all the theorems about JobControl hold of BenchRpc; what the       *)
(* overlapping handlers publish is neither invented nor missed; and the    *)
(* verdict is true of the counters if its snapshot was a late one.         *)
(***************************************************************************)
EXTENDS BenchRpc, JobControl_proofs, FiniteSetTheorems

-----------------------------------------------------------------------------
(* Refinement of JobControl                                                 *)

\* A verdict is one of the outcomes JobControl allows for.
LEMMA OutcomeIsOne == Outcome \in Outcomes
BY DEF Outcome, Outcomes

\* Every step is a step of JobControl or leaves all of its variables alone.
LEMMA StepRefines == [RNext]_rvars => [Next]_jvars
<1> SUFFICES ASSUME [RNext]_rvars PROVE [Next]_jvars
  OBVIOUS
<1>1. CASE MasterStep
  BY <1>1 DEF MasterStep, Next
<1>2. CASE SaveJobResult
  BY <1>2, OutcomeIsOne DEF SaveJobResult, Next
<1>3. ASSUME NEW s \in Slaves,
             RpcStep(s) \/ CrashStep(s) \/ OperationStep(s) \/ LoadStep(s)
      PROVE  [Next]_jvars
  <2>1. CASE RpcStep(s)
    BY <2>1 DEF RpcStep, Next
  <2>2. CASE CrashStep(s)
    BY <2>2 DEF CrashStep, Next
  <2>3. CASE OperationStep(s)
    <3>1. SlaveStep(s)
      BY <2>3 DEF OperationStep, SlaveStep
    <3> QED
      BY <3>1 DEF Next
  <2>4. CASE LoadStep(s)
    BY <2>4 DEF LoadStep, SendAsync, IncreseSentMsg, IncreseNotSent,
                CountLatency
  <2> QED
    BY <1>3, <2>1, <2>2, <2>3, <2>4
<1>4. ASSUME NEW h \in Handlers, TickStarts(h) \/ TickStep(h)
      PROVE  UNCHANGED jvars
  BY <1>4 DEF TickStarts, TickStep, GetState, CollectCounters, ReadCounter,
              TickDies, Publish, NothingToPublish
<1>5. CASE UNCHANGED rvars
  BY <1>5 DEF rvars
<1> QED
  BY <1>1, <1>2, <1>3, <1>4, <1>5 DEF RNext

\* Counting and collecting change nothing of how the job is run.
THEOREM JobControlHolds == RSpec => ImplementsJobControl
<1>1. RInit => Init
  BY DEF RInit
<1> QED
  BY <1>1, StepRefines, PTL DEF RSpec, ImplementsJobControl, JSpec

-----------------------------------------------------------------------------
(* The invariant                                                            *)

\* A slave and its counter: where it is in the pipeline tells whether it can
\* have counted anything, whether it may still send, and what it reports.
SlaveInv(s) ==
  /\ stage[s] \in {"create", "creating", "building", "start", "connecting"}
       => cell[s] < SendStep
  /\ stage[s] \in {"delay", "setup", "ready", "running", "saving"}
       => cell[s] = SendStep
  /\ stage[s] \in {"stop", "stopping", "dispose", "disposing"}
       => cell[s] > SendStep
  /\ MasterCollects(stat[s]) => Listening(s)
  /\ awaiting[s] > 0 => stage[s] = "running"
  /\ ~Listening(s) => \A k \in Keys : cnt[s][k] = 0
  /\ stage[s] = "ready" => ~MasterCollects(stat[s])
  /\ stage[s] \in {"running", "saving"} => stat[s] = SendRunning

\* Sending is behind a slave.
Through(s) == Listening(s) /\ stage[s] \notin {"ready", "running", "saving"}

\* Numbers of slaves that are not dead, and never decrease from here on: the
\* slave is one the master collects from.
Backed(base) ==
  \A s \in Slaves, k \in Keys :
    life[s] # "dead" =>
      /\ base[s][k] <= cnt[s][k]
      /\ base[s][k] > 0 => MasterCollects(stat[s])

\* What a handler has gathered so far is no less than base.
Covers(t, base) ==
  /\ \A s \in Slaves, k \in Keys :
       s < t.c \/ t.at = "publish" => base[s][k] <= t.parts[s][k]
  /\ t.at = "read" =>
       \A k \in Keys \ t.todo : base[t.c][k] <= t.parts[t.c][k]

\* A handler that asks its client may do so: the client still reports.
Reporting(t) == life[t.c] # "dead" => MasterCollects(stat[t.c])

TickInv(t) ==
  t.at # "off" =>
    /\ Backed(t.floor)
    /\ Backed(t.parts)
    /\ Covers(t, t.floor)
    /\ ~t.overtaken => Covers(t, counters.parts)
    /\ t.at \in {"request", "read"} => Reporting(t)
    /\ t.isSend => t.reported # {} \/ t.at \in {"request", "read"}

SnapshotInv ==
  /\ Backed(counters.parts)
  /\ counters.published => counters.reported # {}

LineInv == mpc = "ended" => result # "none"

RInv ==
  /\ RTypeOK
  /\ IInv
  /\ \A s \in Slaves : SlaveInv(s)
  /\ \A h \in Handlers : TickInv(tick[h])
  /\ SnapshotInv
  /\ LineInv

-----------------------------------------------------------------------------
(* Type correctness                                                         *)

\* The connections of a slave are a natural number of them.
LEMMA ConnsNat == \A s \in Slaves : Conns(s) \in Nat
<1>1. Connections \div N \in Nat
  BY NAssumption, ConnectionsAssumption, Z3
<1> QED
  BY <1>1 DEF Conns, SplitNumber

\* No counts at all are counts, and a handler at rest is a handler.
LEMMA BlankTypes == /\ Zero \in [Keys -> Nat]
                    /\ Blank \in Counters
                    /\ Rest \in TickType
                    /\ NoCounters \in Snapshots
<1>1. Zero \in [Keys -> Nat]
  BY DEF Zero
<1>2. Blank \in Counters
  BY <1>1 DEF Blank, Counters
<1>3. 1 \in Slaves
  BY NAssumption DEF Slaves
<1>4. Rest \in TickType
  BY <1>2, <1>3 DEF Rest, TickType
<1>5. NoCounters \in Snapshots
  BY <1>2 DEF NoCounters, Snapshots
<1> QED
  BY <1>1, <1>2, <1>4, <1>5

LoadTypes ==
  /\ cnt \in Counters
  /\ issued \in [Slaves -> 0..MaxMsgs]
  /\ awaiting \in [Slaves -> Nat]
  /\ transit \in [Slaves -> Nat]

CollectTypes ==
  /\ tick \in [Handlers -> TickType]
  /\ counters \in Snapshots

\* The load keeps its types in the steps of one slave.
LEMMA LoadTypesStep ==
  ASSUME LoadTypes, NEW s \in Slaves,
         RpcStep(s) \/ CrashStep(s) \/ OperationStep(s) \/ LoadStep(s)
  PROVE  LoadTypes'
<1> USE DEF LoadTypes
<1>0. Zero \in [Keys -> Nat] /\ "sent" \in Keys /\ "notSent" \in Keys
      /\ "received" \in Keys
  BY BlankTypes DEF Keys
<1>a. ASSUME NEW k \in Keys, Count(s, k) PROVE cnt' \in Counters
  BY <1>a DEF Count, Counters
<1>b. ASSUME NEW f \in [Slaves -> Nat], f[s] > 0
      PROVE  [f EXCEPT ![s] = @ - 1] \in [Slaves -> Nat]
  BY <1>b
<1>c. ASSUME issued[s] < MaxMsgs, issued' = [issued EXCEPT ![s] = @ + 1]
      PROVE  issued' \in [Slaves -> 0..MaxMsgs]
  <2>1. issued[s] + 1 \in 0..MaxMsgs
    BY <1>c, MsgsAssumption
  <2> QED
    BY <1>c, <2>1
<1>1. CASE RpcStep(s)
  BY <1>1 DEF RpcStep, load
<1>2. CASE CrashStep(s)
  <2>1. cnt' \in Counters
    BY <1>0, <1>2 DEF CrashStep, Counters
  <2>2. issued' \in [Slaves -> 0..MaxMsgs]
    BY <1>2, MsgsAssumption DEF CrashStep
  <2> QED
    BY <1>2, <2>1, <2>2 DEF CrashStep
<1>3. CASE OperationStep(s)
  <2>1. cnt' = cnt \/ ResetCounters(s)
    BY <1>3 DEF OperationStep, load
  <2>2. cnt' \in Counters
    BY <1>0, <2>1 DEF ResetCounters, Counters
  <2>3. transit' \in {transit, [transit EXCEPT ![s] = 0]}
        /\ UNCHANGED <<issued, awaiting>>
    BY <1>3 DEF OperationStep, load
  <2> QED
    BY <2>2, <2>3
<1>4. CASE SendAsync(s)
  <2>1. issued' \in [Slaves -> 0..MaxMsgs]
    BY <1>4, <1>c DEF SendAsync
  <2>2. \A t \in Slaves : transit[t] + Fan(s, t) \in Nat
    BY ConnsNat DEF Fan
  <2>3. transit' \in [Slaves -> Nat]
    BY <1>4, <2>2 DEF SendAsync
  <2> QED
    BY <1>4, <2>1, <2>3 DEF SendAsync
<1>5. CASE IncreseSentMsg(s)
  BY <1>0, <1>5, <1>a, <1>b DEF IncreseSentMsg
<1>6. CASE IncreseNotSent(s)
  BY <1>0, <1>6, <1>a, <1>c DEF IncreseNotSent
<1>7. CASE CountLatency(s)
  BY <1>0, <1>7, <1>a, <1>b DEF CountLatency
<1> QED
  BY <1>1, <1>2, <1>3, <1>4, <1>5, <1>6, <1>7 DEF LoadStep

\* A handler that goes on stays what it is, but for its place.
LEMMA GoOnFacts ==
  ASSUME NEW t \in TickType
  PROVE  /\ GoOn(t) \in TickType
         /\ GoOn(t).at \in {"state", "publish"}
         /\ \/ GoOn(t).at = "state" /\ GoOn(t).c = t.c + 1
            \/ GoOn(t).at = "publish" /\ t.c = N
         /\ GoOn(t).parts = t.parts /\ GoOn(t).floor = t.floor
         /\ GoOn(t).reported = t.reported /\ GoOn(t).isSend = t.isSend
         /\ GoOn(t).overtaken = t.overtaken
<1>1. t.c \in Slaves
  BY DEF TickType
<1>2. CASE t.c < N
  <2>1. t.c + 1 \in Slaves
    BY <1>1, <1>2, NAssumption DEF Slaves
  <2> QED
    BY <1>2, <2>1 DEF GoOn, TickType
<1>3. CASE ~(t.c < N)
  <2>1. t.c = N
    BY <1>1, <1>3, NAssumption DEF Slaves
  <2> QED
    BY <1>3, <2>1 DEF GoOn, TickType
<1> QED
  BY <1>2, <1>3

\* The handlers and the snapshot keep their types in the steps of a handler.
LEMMA CollectTypesStep ==
  ASSUME LoadTypes, TypeOK, CollectTypes, NEW h \in Handlers,
         TickStarts(h) \/ TickStep(h)
  PROVE  CollectTypes'
<1> USE DEF CollectTypes
<1>0. tick[h] \in TickType /\ tick[h].c \in Slaves
      /\ tick[h].parts \in Counters /\ tick[h].floor \in Counters
  BY DEF TickType
<1>a. ASSUME NEW r \in TickType, tick' = [tick EXCEPT ![h] = r]
      PROVE  tick' \in [Handlers -> TickType]
  BY <1>a
<1>1. CASE TickStarts(h)
  <2> DEFINE f == [s \in Slaves |->
                     IF MasterCollects(stat[s]) THEN cnt[s] ELSE Zero]
             b == \A s \in Slaves : MasterCollects(stat[s])
                                    /\ stat[s] >= SendComplete
             r == [Rest EXCEPT !.at = "state", !.floor = f, !.fresh = b]
  <2>1. f \in Counters
    BY BlankTypes DEF LoadTypes, Counters
  <2>2. b \in BOOLEAN
    OBVIOUS
  <2>3. r \in TickType
    <3> HIDE DEF f, b
    <3> QED
      BY <2>1, <2>2, BlankTypes DEF TickType
  <2>4. tick' = [tick EXCEPT ![h] = r] /\ counters' = counters
    BY <1>1 DEF TickStarts
  <2> HIDE DEF r
  <2> QED
    BY <1>a, <2>3, <2>4
<1>2. CASE GetState(h)
  <2> DEFINE t == tick[h]
             st == stat[t.c]
             r1 == [t EXCEPT !.at = "request", !.isSend = TRUE,
                             !.isComplete = FALSE]
             r2 == [t EXCEPT !.isComplete =
                               t.isComplete \/ CountsAsComplete(st)]
  <2>1. r1 \in TickType
    BY <1>0 DEF TickType
  <2>2. (t.isComplete \/ CountsAsComplete(st)) \in BOOLEAN
    OBVIOUS
  <2>3. r2 \in TickType
    BY <1>0, <2>2 DEF TickType
  <2>4. GoOn(r2) \in TickType
    <3> HIDE DEF r2
    <3> QED
      BY <2>3, GoOnFacts
  <2>5. /\ tick' = [tick EXCEPT ![h] = IF MasterCollects(st) THEN r1
                                                            ELSE GoOn(r2)]
        /\ counters' = counters
    BY <1>2 DEF GetState
  <2> HIDE DEF r1, r2, st
  <2> QED
    BY <1>a, <2>1, <2>4, <2>5
<1>3. CASE CollectCounters(h)
  <2> DEFINE t == tick[h]
             r == [t EXCEPT !.at = "read", !.todo = Keys]
  <2>1. r \in TickType
    BY <1>0 DEF TickType
  <2>2. GoOn(t) \in TickType
    BY <1>0, GoOnFacts
  <2>3. /\ tick' = [tick EXCEPT ![h] = IF SlaveReports(stat[t.c])
                                         THEN r ELSE GoOn(t)]
        /\ counters' = counters
    BY <1>3 DEF CollectCounters
  <2> HIDE DEF r
  <2> QED
    BY <1>a, <2>1, <2>2, <2>3
<1>4. ASSUME NEW k \in Keys, ReadCounter(h, k)
      PROVE  CollectTypes'
  <2> DEFINE t == tick[h]
             p == [t.parts EXCEPT ![t.c][k] = cnt[t.c][k]]
             read == [t EXCEPT !.todo = t.todo \ {k},
                               !.parts[t.c][k] = cnt[t.c][k]]
             r == [read EXCEPT !.reported = read.reported \cup {t.c}]
  <2>1. p \in Counters
    BY <1>0 DEF LoadTypes, Counters
  <2>2. read \in TickType
    BY <1>0, <2>1 DEF TickType
  <2>3. r \in TickType
    <3> HIDE DEF read
    <3> QED
      BY <1>0, <2>2 DEF TickType
  <2>4. GoOn(r) \in TickType
    <3> HIDE DEF r
    <3> QED
      BY <2>3, GoOnFacts
  <2>5. /\ tick' = [tick EXCEPT ![h] = IF t.todo = {k} THEN GoOn(r) ELSE read]
        /\ counters' = counters
    BY <1>4 DEF ReadCounter
  <2> HIDE DEF r, read
  <2> QED
    BY <1>a, <2>2, <2>4, <2>5
<1>5. CASE TickDies(h) \/ NothingToPublish(h)
  <2>1. tick' = [tick EXCEPT ![h] = Rest] /\ counters' = counters
    BY <1>5 DEF TickDies, NothingToPublish
  <2> QED
    BY <1>a, <2>1, BlankTypes
<1>6. CASE Publish(h)
  <2>1. counters' \in Snapshots
    BY <1>0, <1>6 DEF Publish, Snapshots, TickType
  <2>2. \A g \in Handlers : [tick[g] EXCEPT !.overtaken = TRUE] \in TickType
    BY DEF TickType
  <2>3. tick' \in [Handlers -> TickType]
    BY <1>6, <2>2, BlankTypes DEF Publish
  <2> QED
    BY <2>1, <2>3
<1> QED
  BY <1>1, <1>2, <1>3, <1>4, <1>5, <1>6 DEF TickStep

\* Every step keeps the variables in their types.
LEMMA RTypeStep == RTypeOK /\ [RNext]_rvars => RTypeOK'
<1> SUFFICES ASSUME RTypeOK, [RNext]_rvars PROVE RTypeOK'
  OBVIOUS
<1>1. TypeOK'
  BY StepRefines, TypeOKStep DEF RTypeOK
<1>2. TypeOK /\ LoadTypes /\ CollectTypes
  BY DEF RTypeOK, LoadTypes, CollectTypes
<1>3. LoadTypes' /\ CollectTypes'
  <2>1. CASE MasterStep \/ SaveJobResult
    <3>1. /\ UNCHANGED <<load, counters>>
          /\ UNCHANGED tick \/ tick' = [h \in Handlers |-> Rest]
      BY <2>1 DEF MasterStep, SaveJobResult, HandlersEnd
    <3>2. LoadTypes'
      BY <1>2, <3>1 DEF load, LoadTypes
    <3>3. tick' \in [Handlers -> TickType]
      BY <1>2, <3>1, BlankTypes DEF CollectTypes
    <3> QED
      BY <1>2, <3>1, <3>2, <3>3 DEF CollectTypes
  <2>2. ASSUME NEW s \in Slaves,
               RpcStep(s) \/ CrashStep(s) \/ OperationStep(s) \/ LoadStep(s)
        PROVE  LoadTypes' /\ CollectTypes'
    <3>1. LoadTypes'
      BY <1>2, <2>2, LoadTypesStep
    <3>2. UNCHANGED collect
      BY <2>2 DEF RpcStep, CrashStep, OperationStep, LoadStep, SendAsync,
                  IncreseSentMsg, IncreseNotSent, CountLatency
    <3> QED
      BY <1>2, <3>1, <3>2 DEF CollectTypes, collect
  <2>3. ASSUME NEW h \in Handlers, TickStarts(h) \/ TickStep(h)
        PROVE  LoadTypes' /\ CollectTypes'
    <3>1. UNCHANGED load
      BY <2>3 DEF TickStarts, TickStep, GetState, CollectCounters,
                  ReadCounter, TickDies, Publish, NothingToPublish
    <3>2. CollectTypes'
      BY <1>2, <2>3, CollectTypesStep
    <3> QED
      BY <1>2, <3>1, <3>2 DEF LoadTypes, load
  <2>4. CASE UNCHANGED rvars
    BY <1>2, <2>4 DEF LoadTypes, CollectTypes, rvars, load, collect
  <2> QED
    BY <2>1, <2>2, <2>3, <2>4 DEF RNext
<1> QED
  BY <1>1, <1>3 DEF RTypeOK, LoadTypes, CollectTypes

\* Runs begin with everything of its type.
LEMMA InitTypes == RInit => RTypeOK
<1> SUFFICES ASSUME RInit PROVE RTypeOK
  OBVIOUS
<1>1. TypeOK
  BY NAssumption, PipelineAssumption, FaultsAssumption
     DEF RInit, Init, TypeOK, Slaves, Steps, MasterPoints, TaskPoints,
         Results, StatValues
<1>2. issued \in [Slaves -> 0..MaxMsgs]
  BY MsgsAssumption DEF RInit
<1>3. awaiting \in [Slaves -> Nat] /\ transit \in [Slaves -> Nat]
  BY DEF RInit
<1>4. cnt \in Counters /\ tick \in [Handlers -> TickType]
      /\ counters \in Snapshots
  BY BlankTypes DEF RInit
<1> QED
  BY <1>1, <1>2, <1>3, <1>4 DEF RTypeOK

\* Counters, handlers and snapshots keep their types in every run.
THEOREM RTypeCorrect == RSpec => []RTypeOK
BY InitTypes, RTypeStep, PTL DEF RSpec

-----------------------------------------------------------------------------
(* The slaves                                                               *)

\* There is one sending step; only creating and starting come before it, and
\* only stopping and disposing after it.
LEMMA Shape ==
  /\ SendStep \in Steps /\ OpOf(SendStep) = Scenario
  /\ \A j \in Steps : j < SendStep => OpOf(j) \in {"createConn", "startConn"}
  /\ \A j \in Steps : j > SendStep => OpOf(j) \in {"stopConn", "disposeConn"}
<1>1. PICK k \in Steps :
        /\ Sending(k)
        /\ \A j \in Steps : j < k => OpOf(j) \in {"createConn", "startConn"}
        /\ \A j \in Steps : j > k => OpOf(j) \in {"stopConn", "disposeConn"}
  BY ShapeAssumption
<1>2. SendStep \in Steps /\ Sending(SendStep)
  BY <1>1 DEF SendStep
<1>3. k = SendStep
  <2>1. Scenario \notin {"createConn", "startConn", "stopConn", "disposeConn"}
    BY ScenarioAssumption
  <2>2. ~(SendStep < k) /\ ~(SendStep > k)
    BY <1>1, <1>2, <2>1 DEF Sending
  <2> QED
    BY <1>2, <2>2 DEF Steps
<1> QED
  BY <1>1, <1>2, <1>3 DEF Sending

\* The program points the steps start at.
LEMMA Entries ==
  ASSUME NEW k \in Steps
  PROVE  /\ k < SendStep => Entry(k) \in {"create", "start"}
         /\ k = SendStep => Entry(k) = "delay"
         /\ k > SendStep => Entry(k) \in {"stop", "dispose"}
<1>1. ASSUME OpOf(k) = "createConn" PROVE Entry(k) = "create"
  BY <1>1 DEF Entry, SendOps, GroupOps
<1>2. ASSUME OpOf(k) = "startConn" PROVE Entry(k) = "start"
  BY <1>2 DEF Entry, SendOps, GroupOps
<1>3. ASSUME OpOf(k) = "stopConn" PROVE Entry(k) = "stop"
  BY <1>3 DEF Entry, SendOps, GroupOps
<1>4. ASSUME OpOf(k) = "disposeConn" PROVE Entry(k) = "dispose"
  BY <1>4 DEF Entry, SendOps, GroupOps
<1>5. ASSUME OpOf(k) \in {"echo", "broadcast"} PROVE Entry(k) = "delay"
  BY <1>5 DEF Entry, SendOps, GroupOps
<1> QED
  BY <1>1, <1>2, <1>3, <1>4, <1>5, Shape, ScenarioAssumption

\* The numbers the master collects from.
LEMMA CollectFacts ==
  /\ \A st \in {HubconnUnconnected, HubconnConnecting, HubconnConnected,
                ConfigLoaded, SendReady, WorkerUnexist, WorkerCreated,
                WorkerExisted, HubconnCreating, HubconnCreated} :
       ~MasterCollects(st)
  /\ \A st \in {SendRunning, SendComplete, HubconnDisconnecting,
                HubconnDisconnected, HubconnDisposing, HubconnDisposed} :
       MasterCollects(st) /\ SlaveReports(st)
  /\ \A st \in StatValues : MasterCollects(st) => SlaveReports(st)
BY DEF MasterCollects, SlaveReports, StatValues, HubconnUnconnected,
       HubconnConnecting, HubconnConnected, ConfigLoaded, SendReady,
       SendRunning, SendComplete, WorkerUnexist, WorkerCreated,
       WorkerExisted, HubconnCreating, HubconnCreated, HubconnDisconnecting,
       HubconnDisconnected, HubconnDisposing, HubconnDisposed

\* As long as it lives, a slave counts up, does not stop reporting and does
\* not send again.
Grows(s) ==
  life'[s] # "dead" =>
    /\ life[s] # "dead"
    /\ \A k \in Keys : cnt[s][k] <= cnt'[s][k]
    /\ MasterCollects(stat[s]) => MasterCollects(stat'[s])
    /\ Through(s) => /\ Through(s)'
                     /\ \A k \in {"sent", "notSent"} : cnt'[s][k] = cnt[s][k]

\* A step that does not concern slave t.
Frame(t) ==
  /\ stage'[t] = stage[t] /\ stat'[t] = stat[t] /\ cell'[t] = cell[t]
  /\ life'[t] = life[t]
  /\ awaiting'[t] = awaiting[t] /\ cnt'[t] = cnt[t]

\* What does not concern a slave leaves it in order.
LEMMA FrameKeeps ==
  ASSUME LoadTypes, NEW t \in Slaves, SlaveInv(t), Frame(t)
  PROVE  SlaveInv(t)' /\ Grows(t)
<1>1. Listening(t)' = Listening(t)
  BY DEF Frame, Listening
<1>2. SlaveInv(t)'
  BY <1>1 DEF SlaveInv, Frame
<1>3. \A k \in Keys : cnt[t][k] \in Nat
  BY DEF LoadTypes, Counters
<1>4. Through(t) => Through(t)'
  BY <1>1 DEF Through, Frame
<1> QED
  BY <1>2, <1>3, <1>4 DEF Grows, Frame

Early == {"create", "creating", "building", "start", "connecting"}
Late  == {"stop", "stopping", "dispose", "disposing"}

\* The ways an operation moves on, and the state it moves to.
Legal(s, from, to, st) ==
  \/ from \in Early /\ to \in Early \cup {"idle"} /\ ~MasterCollects(st)
  \/ from = "delay" /\ to = "setup" /\ ~MasterCollects(st)
  \/ from = "setup" /\ to = "ready" /\ st = stat[s]
  \/ from = "ready" /\ to = "running" /\ st = SendRunning
  \/ from = "running" /\ to = "saving" /\ st = stat[s] /\ awaiting[s] = 0
  \/ from = "saving" /\ to = "idle" /\ MasterCollects(st)
  \/ from \in Late /\ to \in Late \cup {"idle"} /\ MasterCollects(st)
  \/ from # "running" /\ to = "idle" /\ st = stat[s]

Effect(s, from, to, st) ==
  /\ Legal(s, from, to, st)
  /\ stage[s] = from
  /\ stage' = [stage EXCEPT ![s] = to]
  /\ stat' = [stat EXCEPT ![s] = st]
  /\ \/ cnt' = cnt
     \/ from = "setup" /\ ResetCounters(s)
  /\ UNCHANGED <<cell, life, awaiting>>

\* A legal move keeps the slave in order; the reset finds nothing to reset.
LEMMA EffectKeeps ==
  ASSUME TypeOK, LoadTypes, NEW s \in Slaves, SlaveInv(s),
         NEW from, NEW to, NEW st, Effect(s, from, to, st)
  PROVE  SlaveInv(s)' /\ Grows(s)
<1>1. /\ stage[s] = from /\ stage'[s] = to
      /\ stat'[s] = st /\ cell'[s] = cell[s]
      /\ life'[s] = life[s] /\ awaiting'[s] = awaiting[s]
      /\ cell[s] \in Nat /\ SendStep \in Nat /\ awaiting[s] \in Nat
  BY Shape DEF Effect, TypeOK, LoadTypes, Steps
<1>2. /\ \A k \in Keys : cnt[s][k] \in Nat
      /\ \/ cnt'[s] = cnt[s]
         \/ from = "setup" /\ cnt'[s] = Zero
  BY DEF Effect, ResetCounters, LoadTypes, Counters
<1>3. \A k \in Keys : cnt'[s][k] = cnt[s][k]
  <2>1. CASE cnt'[s] = cnt[s]
    BY <2>1
  <2>2. CASE from = "setup" /\ cnt'[s] = Zero
    <3>1. ~Listening(s)
      BY <1>1, <2>2 DEF Listening
    <3> QED
      BY <2>2, <3>1 DEF SlaveInv, Zero
  <2> QED
    BY <1>2, <2>1, <2>2
<1>4. Legal(s, from, to, st) /\ MasterCollects(SendRunning)
  BY CollectFacts DEF Effect
<1>5. /\ Listening(s) <=> cell[s] >= SendStep /\ from \notin {"delay", "setup"}
      /\ Listening(s)' <=> cell[s] >= SendStep /\ to \notin {"delay", "setup"}
  BY <1>1 DEF Listening
<1>6. /\ to \in Early => cell[s] < SendStep
      /\ to \in {"delay", "setup", "ready", "running", "saving"}
           => cell[s] = SendStep
      /\ to \in Late => cell[s] > SendStep
  BY <1>1, <1>4 DEF Legal, SlaveInv, Early, Late
<1>7. MasterCollects(st) => Listening(s)'
  BY <1>1, <1>4, <1>5 DEF Legal, SlaveInv, Early, Late
<1>8. awaiting[s] > 0 => to = "running"
  BY <1>1, <1>4 DEF Legal, SlaveInv, Early, Late
<1>9. ~Listening(s)' => \A k \in Keys : cnt[s][k] = 0
  BY <1>1, <1>4, <1>5 DEF Legal, SlaveInv, Early, Late
<1>10. MasterCollects(stat[s]) => MasterCollects(st)
  BY <1>1, <1>4, <1>5 DEF Legal, SlaveInv, Early, Late
<1>11. /\ to = "ready" => ~MasterCollects(st)
       /\ to \in {"running", "saving"} => st = SendRunning
  BY <1>1, <1>4, <1>5 DEF Legal, SlaveInv, Early, Late
<1>12. SlaveInv(s)'
  BY <1>1, <1>3, <1>6, <1>7, <1>8, <1>9, <1>11 DEF SlaveInv, Early, Late
<1>13. Through(s) => Through(s)'
  BY <1>1, <1>4, <1>5 DEF Through, Legal, SlaveInv, Early, Late
<1>14. Grows(s)
  BY <1>1, <1>2, <1>3, <1>10, <1>13 DEF Grows, Keys
<1> QED
  BY <1>12, <1>14

\* The operations only make legal moves.
LEMMA OperationIsLegal ==
  ASSUME TypeOK, LoadTypes, NEW s \in Slaves, SlaveInv(s), OperationStep(s)
  PROVE  \E from, to, st : Effect(s, from, to, st)
<1> USE DEF Effect, Legal, Early, Late
<1>0. /\ ~MasterCollects(HubconnUnconnected)
      /\ ~MasterCollects(HubconnCreating)
      /\ ~MasterCollects(HubconnCreated)
      /\ ~MasterCollects(HubconnConnecting)
      /\ ~MasterCollects(HubconnConnected)
      /\ ~MasterCollects(SendReady)
      /\ MasterCollects(SendRunning)
      /\ MasterCollects(SendComplete)
      /\ MasterCollects(HubconnDisconnecting)
      /\ MasterCollects(HubconnDisconnected)
      /\ MasterCollects(HubconnDisposing)
      /\ MasterCollects(HubconnDisposed)
  BY CollectFacts
<1>1. CASE Setup(s) /\ ResetCounters(s) /\ UNCHANGED <<issued, awaiting,
                                                       transit, collect>>
  <2>1. Effect(s, "setup", "ready", stat[s])
    BY <1>1 DEF Setup, Move, worked
  <2> QED
    BY <2>1
<1>2. CASE SendingEnds(s) /\ awaiting[s] = 0 /\ UNCHANGED <<load, collect>>
  <2>1. Effect(s, "running", "saving", stat[s])
    BY <1>2 DEF SendingEnds, Move, load, worked
  <2> QED
    BY <2>1
<1>3. CASE StopConn(s) /\ UNCHANGED <<cnt, issued, awaiting, collect>>
  <2>1. CASE Move(s, "stop", HubconnDisconnecting, "stopping")
    <3>1. Effect(s, "stop", "stopping", HubconnDisconnecting)
      BY <1>3, <2>1, <1>0 DEF Move, worked
    <3> QED
      BY <3>1
  <2>2. CASE Return(s, "stopping", HubconnDisconnected)
    <3>1. Effect(s, "stopping", "idle", HubconnDisconnected)
      BY <1>3, <2>2, <1>0 DEF Return
    <3> QED
      BY <3>1
  <2> QED
    BY <1>3, <2>1, <2>2 DEF StopConn
<1>4. ASSUME UNCHANGED <<load, collect>>,
             \/ CreateConn(s) \/ StartConn(s) \/ SendReadyStep(s)
             \/ SendRunningStep(s) \/ SaveCounters(s) \/ DisposeConn(s)
             \/ OpThrows(s)
      PROVE  \E from, to, st : Effect(s, from, to, st)
  <2>0. UNCHANGED <<cnt, awaiting>>
    BY <1>4 DEF load
  <2>1. CASE CreateConn(s)
    <3>1. \/ Effect(s, "create", "creating", HubconnUnconnected)
          \/ Effect(s, "creating", "building", HubconnCreating)
          \/ Effect(s, "building", "idle", HubconnCreated)
      BY <2>0, <2>1, <1>0 DEF CreateConn, Move, Return, worked
    <3> QED
      BY <3>1
  <2>2. CASE StartConn(s)
    <3>1. \/ Effect(s, "start", "connecting", HubconnConnecting)
          \/ Effect(s, "connecting", "idle", HubconnConnected)
      BY <2>0, <2>2, <1>0 DEF StartConn, Move, Return, worked
    <3> QED
      BY <3>1
  <2>3. CASE SendReadyStep(s)
    <3>1. Effect(s, "delay", "setup", SendReady)
      BY <2>0, <2>3, <1>0 DEF SendReadyStep, Move, worked
    <3> QED
      BY <3>1
  <2>4. CASE SendRunningStep(s)
    <3>1. Effect(s, "ready", "running", SendRunning)
      BY <2>0, <2>4, <1>0 DEF SendRunningStep, Move, worked
    <3> QED
      BY <3>1
  <2>5. CASE SaveCounters(s)
    <3>1. Effect(s, "saving", "idle", SendComplete)
      BY <2>0, <2>5, <1>0 DEF SaveCounters, Return
    <3> QED
      BY <3>1
  <2>6. CASE DisposeConn(s)
    <3>1. \/ Effect(s, "dispose", "disposing", HubconnDisposing)
          \/ Effect(s, "disposing", "idle", HubconnDisposed)
      BY <2>0, <2>6, <1>0 DEF DisposeConn, Move, Return, worked
    <3> QED
      BY <3>1
  <2>7. CASE OpThrows(s)
    <3>1. PICK from \in OpPoints :
            /\ stage[s] = from
            /\ Stuck(s, from) \/ from \in {"saving", "stopping", "disposing"}
            /\ Throw(s, from)
      BY <2>7 DEF OpThrows
    <3>2. from # "running"
      <4>1. stage[s] = "running" => cell[s] = SendStep
        BY DEF SlaveInv
      <4>2. stage[s] = "running" => OpOf(cell[s]) \in {"echo", "broadcast"}
        BY <4>1, Shape, ScenarioAssumption
      <4> QED
        BY <3>1, <4>2 DEF Stuck, LacksRange, GroupOps
    <3>3. stat' = [stat EXCEPT ![s] = stat[s]]
      BY <3>1 DEF Throw, TypeOK
    <3>4. Effect(s, from, "idle", stat[s])
      BY <2>0, <3>1, <3>2, <3>3 DEF Throw, worked
    <3> QED
      BY <3>4
  <2> QED
    BY <1>4, <2>1, <2>2, <2>3, <2>4, <2>5, <2>6, <2>7
<1> QED
  BY <1>1, <1>2, <1>3, <1>4 DEF OperationStep, AwaitAll

SlavesKeep == \A t \in Slaves : SlaveInv(t)' /\ Grows(t)

\* An operation keeps all the slaves in order.
LEMMA OperationKeepsSlaves ==
  ASSUME TypeOK, LoadTypes, \A t \in Slaves : SlaveInv(t),
         NEW s \in Slaves, OperationStep(s)
  PROVE  SlavesKeep
<1>1. PICK from, to, st : Effect(s, from, to, st)
  BY OperationIsLegal
<1>2. ASSUME NEW t \in Slaves, t # s PROVE Frame(t)
  BY <1>1, <1>2 DEF Effect, ResetCounters, Frame, TypeOK, LoadTypes, Counters
<1>3. \A t \in Slaves : t # s => SlaveInv(t)' /\ Grows(t)
  BY <1>2, FrameKeeps
<1>4. SlaveInv(s)' /\ Grows(s)
  BY <1>1, EffectKeeps
<1> QED
  BY <1>3, <1>4 DEF SlavesKeep

\* Counting keeps all the slaves in order.
LEMMA LoadKeepsSlaves ==
  ASSUME TypeOK, LoadTypes, \A t \in Slaves : SlaveInv(t),
         NEW s \in Slaves, LoadStep(s)
  PROVE  SlavesKeep
<1>1. UNCHANGED <<stage, stat, cell, life>>
  BY DEF LoadStep, SendAsync, IncreseSentMsg, IncreseNotSent, CountLatency,
         jvars
<1>2. /\ Listening(s)
      /\ awaiting'[s] > 0 => stage[s] = "running"
      /\ cnt' = cnt \/ \E k \in Keys : Count(s, k)
      /\ \A t \in Slaves \ {s} : awaiting'[t] = awaiting[t]
  <2>0. stage[s] = "running" => Listening(s)
    BY Shape DEF SlaveInv, Listening, Steps, TypeOK
  <2>1. CASE SendAsync(s)
    BY <2>0, <2>1 DEF SendAsync, InLoop, LoadTypes
  <2>2. CASE IncreseSentMsg(s)
    <3>1. awaiting[s] > 0 /\ stage[s] = "running"
      BY <2>2 DEF IncreseSentMsg, SlaveInv
    <3> QED
      BY <2>0, <2>2, <3>1 DEF IncreseSentMsg, LoadTypes, Keys
  <2>3. CASE IncreseNotSent(s)
    BY <2>0, <2>3 DEF IncreseNotSent, InLoop, Keys
  <2>4. CASE CountLatency(s)
    BY <2>4 DEF CountLatency, SlaveInv, Keys
  <2> QED
    BY <2>1, <2>2, <2>3, <2>4 DEF LoadStep
<1>3. ASSUME NEW t \in Slaves, t # s PROVE SlaveInv(t)' /\ Grows(t)
  <2>1. Frame(t)
    BY <1>1, <1>2, <1>3 DEF Count, Frame, LoadTypes, Counters
  <2> QED
    BY <2>1, FrameKeeps
<1>4. SlaveInv(s)'
  <2>1. Listening(s)'
    BY <1>1, <1>2 DEF Listening
  <2> QED
    BY <1>1, <1>2, <2>1 DEF SlaveInv
<1>5. Grows(s)
  <2>1. \A k \in Keys : cnt[s][k] \in Nat /\ cnt[s][k] <= cnt'[s][k]
    BY <1>2 DEF Count, LoadTypes, Counters
  <2>2. Through(s) => Through(s)'
    BY <1>1 DEF Through, Listening
  <2>3. ASSUME Through(s), NEW k \in {"sent", "notSent"} PROVE cnt'[s][k] = cnt[s][k]
    <3>1. ~SendAsync(s) /\ ~IncreseSentMsg(s) /\ ~IncreseNotSent(s)
      BY <2>3 DEF Through, SendAsync, IncreseSentMsg, IncreseNotSent, InLoop,
                  SlaveInv
    <3>2. cnt' = [cnt EXCEPT ![s]["received"] = @ + 1]
      BY <3>1 DEF LoadStep, CountLatency, Count
    <3>3. k # "received"
      OBVIOUS
    <3> QED
      BY <3>2, <3>3 DEF LoadTypes, Counters
  <2> QED
    BY <1>1, <2>1, <2>2, <2>3 DEF Grows
<1> QED
  BY <1>3, <1>4, <1>5 DEF SlavesKeep

\* So do processes that start or die, tasks that call or fail, and the setup.
LEMMA ControlKeepsSlaves ==
  ASSUME TypeOK, LoadTypes, IInv, \A t \in Slaves : SlaveInv(t),
         \/ \E s \in Slaves : RpcStep(s) \/ CrashStep(s)
         \/ MasterStep
         \/ SaveJobResult
  PROVE  SlavesKeep
<1> SUFFICES ASSUME NEW t \in Slaves PROVE SlaveInv(t)' /\ Grows(t)
  BY DEF SlavesKeep
<1>0. /\ cell[t] \in Nat /\ SendStep \in Nat /\ SendStep >= 1
      /\ step \in Steps /\ stat[t] \in StatValues
      /\ \A k \in Keys : cnt[t][k] \in Nat
  BY Shape DEF TypeOK, Steps, LoadTypes, Counters
<1>1. ASSUME NEW s \in Slaves, RpcStep(s) PROVE SlaveInv(t)' /\ Grows(t)
  <2>1. UNCHANGED <<cnt, awaiting, stat>>
    BY <1>1 DEF RpcStep, load, StartSlave, TaskStep, RunJob, worked,
                LoadConnectionConfig, LoadConnectionRange, RpcFails, RpcLost,
                slaveside
  <2>2. CASE StartSlave(s)
    <3>1. UNCHANGED <<stage, cell>> /\ life' = [life EXCEPT ![s] = "up"]
          /\ life[s] = "down"
      BY <2>2 DEF StartSlave, worked
    <3>2. SlaveInv(t)'
      BY <2>1, <3>1 DEF SlaveInv, Listening
    <3>3. life'[t] # "dead" => life[t] # "dead"
      BY <3>1 DEF TypeOK
    <3>4. Through(t)' = Through(t)
      BY <3>1 DEF Through, Listening
    <3> QED
      BY <1>0, <2>1, <3>2, <3>3, <3>4 DEF Grows
  <2>3. CASE RunJob(s)
    <3>1. /\ stage' = [stage EXCEPT ![s] = Entry(step)]
          /\ cell' = [cell EXCEPT ![s] = step]
          /\ UNCHANGED life
          /\ cell[s] = step - 1
      BY <2>3 DEF RunJob, IInv, TaskInv
    <3>2. CASE t # s
      <4>1. Frame(t)
        BY <2>1, <3>1, <3>2 DEF Frame, TypeOK
      <4> QED
        BY <4>1, FrameKeeps
    <3>3. CASE t = s
      <4>1. stage'[t] = Entry(step) /\ cell'[t] = step /\ cell[t] = step - 1
            /\ life'[t] = life[t]
        BY <3>1, <3>3 DEF TypeOK
      <4>2. stage[t] = "idle"
        BY <2>3, <3>3 DEF RunJob, IInv, TaskInv
      <4>3. ~(awaiting[t] > 0)
        BY <4>2 DEF SlaveInv
      <4>4. Listening(t)' <=> step > SendStep
        BY <1>0, <4>1, Entries DEF Listening, Steps
      <4>5. Listening(t) <=> step > SendStep
        BY <1>0, <4>1, <4>2 DEF Listening, Steps
      <4>6. SlaveInv(t)'
        BY <1>0, <2>1, <4>1, <4>3, <4>4, <4>5, Entries DEF SlaveInv, Steps
      <4>7. Through(t) => Through(t)'
        BY <1>0, <4>1, <4>4, <4>5, Entries DEF Through, Steps
      <4> QED
        BY <1>0, <2>1, <4>1, <4>6, <4>7 DEF Grows
    <3> QED
      BY <3>2, <3>3
  <2>4. CASE \/ LoadConnectionConfig(s) \/ LoadConnectionRange(s)
             \/ RpcFails(s) \/ RpcLost(s)
    <3>1. Frame(t)
      BY <2>1, <2>4 DEF Frame, LoadConnectionConfig, LoadConnectionRange,
                        RpcFails, RpcLost, slaveside, worked
    <3> QED
      BY <3>1, FrameKeeps
  <2> QED
    BY <1>1, <2>2, <2>3, <2>4 DEF RpcStep, TaskStep
<1>2. ASSUME NEW s \in Slaves, CrashStep(s) PROVE SlaveInv(t)' /\ Grows(t)
  <2>1. CASE t # s
    <3>1. Frame(t)
      BY <1>2, <2>1 DEF Frame, CrashStep, Crash, TypeOK, LoadTypes, Counters
    <3> QED
      BY <3>1, FrameKeeps
  <2>2. CASE t = s
    <3>1. /\ stage'[t] = "idle" /\ cell'[t] = 0 /\ life'[t] = "dead"
          /\ stat'[t] = WorkerUnexist /\ awaiting'[t] = 0 /\ cnt'[t] = Zero
      BY <1>2, <2>2 DEF CrashStep, Crash, TypeOK, LoadTypes, Counters
    <3>2. ~MasterCollects(WorkerUnexist)
      BY CollectFacts
    <3>3. SlaveInv(t)'
      BY <3>1, <3>2 DEF SlaveInv, Zero
    <3> QED
      BY <3>1, <3>3 DEF Grows
  <2> QED
    BY <2>1, <2>2
<1>3. CASE MasterStep
  <2>0. UNCHANGED <<cnt, awaiting>>
    BY <1>3 DEF MasterStep, load
  <2>1. CASE CreateWorker \/ LoadJobConfig
    <3>1. /\ mpc \in {"create", "load"} /\ life[client] = "up"
          /\ client \in Slaves
          /\ \E st \in {WorkerExisted, WorkerCreated, ConfigLoaded} :
               stat' = [stat EXCEPT ![client] = st]
          /\ UNCHANGED <<stage, cell, life>>
      BY <2>1 DEF CreateWorker, LoadJobConfig, TypeOK
    <3>2. CASE t # client
      <4>1. Frame(t)
        BY <2>0, <3>1, <3>2 DEF Frame, TypeOK
      <4> QED
        BY <4>1, FrameKeeps
    <3>3. CASE t = client
      <4>1. cell[t] = 0
        BY <3>1, <3>3 DEF IInv, MainInv, TaskInv
      <4>2. ~Listening(t) /\ ~Listening(t)'
        BY <1>0, <3>1, <4>1 DEF Listening
      <4>3. ~MasterCollects(stat[t]) /\ ~MasterCollects(stat'[t])
        BY <3>1, <3>3, <4>2, CollectFacts DEF SlaveInv, TypeOK
      <4>4. SlaveInv(t)'
        <5>1. stage[t] \notin {"running", "saving"}
          BY <1>0, <4>1 DEF SlaveInv
        <5> QED
          BY <2>0, <3>1, <4>2, <4>3, <5>1 DEF SlaveInv
      <4> QED
        BY <1>0, <2>0, <3>1, <4>2, <4>3, <4>4 DEF Grows, Through
    <3> QED
      BY <3>2, <3>3
  <2>2. CASE ProbeOk \/ ProbeFails \/ SetupFails \/ WhenAll \/ NextStep
    <3>1. Frame(t)
      BY <2>0, <2>2 DEF Frame, ProbeOk, ProbeFails, SetupFails, WhenAll,
                        NextStep, slaveside, worked
    <3> QED
      BY <3>1, FrameKeeps
  <2> QED
    BY <1>3, <2>1, <2>2 DEF MasterStep, MainThread
<1>4. CASE SaveJobResult
  <2>1. Frame(t)
    BY <1>4 DEF Frame, SaveJobResult, Verdict, slaveside, worked, load
  <2> QED
    BY <2>1, FrameKeeps
<1> QED
  BY <1>1, <1>2, <1>3, <1>4

-----------------------------------------------------------------------------
(* The handlers                                                             *)

BackedNext(base) ==
  \A s \in Slaves, k \in Keys :
    life'[s] # "dead" =>
      /\ base[s][k] <= cnt'[s][k]
      /\ base[s][k] > 0 => MasterCollects(stat'[s])

\* What the counters of the living slaves bear out, they go on bearing out.
LEMMA BackedStays ==
  ASSUME RTypeOK, RTypeOK', SlavesKeep, NEW base \in Counters, Backed(base)
  PROVE  BackedNext(base)
<1> SUFFICES ASSUME NEW s \in Slaves, NEW k \in Keys, life'[s] # "dead"
             PROVE  /\ base[s][k] <= cnt'[s][k]
                    /\ base[s][k] > 0 => MasterCollects(stat'[s])
  BY DEF BackedNext
<1>1. base[s][k] \in Nat /\ cnt[s][k] \in Nat /\ cnt'[s][k] \in Nat
  BY DEF RTypeOK, Counters
<1>2. Grows(s)
  BY DEF SlavesKeep
<1> QED
  BY <1>1, <1>2 DEF Grows, Backed

\* Steps of the slaves and of the main thread do not disturb the handlers.
LEMMA SlavesKeepTicks ==
  ASSUME RTypeOK, RTypeOK', SlavesKeep, UNCHANGED counters,
         UNCHANGED tick \/ tick' = [h \in Handlers |-> Rest],
         NEW h \in Handlers, TickInv(tick[h]), Backed(counters.parts)
  PROVE  TickInv(tick[h])'
<1>1. CASE tick' = [g \in Handlers |-> Rest]
  BY <1>1 DEF TickInv, Rest
<1>2. CASE UNCHANGED tick /\ tick[h].at # "off"
  <2>1. tick[h].floor \in Counters /\ tick[h].parts \in Counters
        /\ tick[h].c \in Slaves
    BY DEF RTypeOK, TickType
  <2>2. BackedNext(tick[h].floor) /\ BackedNext(tick[h].parts)
    BY <1>2, <2>1, BackedStays DEF TickInv
  <2>3. Backed(tick[h].floor)' /\ Backed(tick[h].parts)'
    BY <1>2, <2>2 DEF BackedNext, Backed
  <2>4. Grows(tick[h].c)
    BY <2>1 DEF SlavesKeep
  <2>5. Reporting(tick[h]) => Reporting(tick[h])'
    BY <1>2, <2>4 DEF Reporting, Grows
  <2>6. /\ Covers(tick[h], tick[h].floor)' = Covers(tick[h], tick[h].floor)
        /\ Covers(tick[h], counters.parts)' = Covers(tick[h], counters.parts)
    BY <1>2 DEF Covers
  <2> QED
    BY <1>2, <2>3, <2>5, <2>6 DEF TickInv
<1>3. CASE UNCHANGED tick /\ tick[h].at = "off"
  BY <1>3 DEF TickInv
<1> QED
  BY <1>1, <1>2, <1>3

\* A handler that is through with its client has covered it, if it goes on
\* having covered that client's counters.
LEMMA GoOnCovers ==
  ASSUME NEW t \in TickType, NEW base \in Counters,
         \A s \in Slaves, k \in Keys :
           s < t.c => base[s][k] <= t.parts[s][k],
         \A k \in Keys : base[t.c][k] <= t.parts[t.c][k]
  PROVE  Covers(GoOn(t), base)
<1>1. t.c \in Slaves
  BY DEF TickType
<1>2. \A s \in Slaves : s < t.c + 1 => s < t.c \/ s = t.c
  BY <1>1 DEF Slaves
<1>3. t.c = N => \A s \in Slaves : s < t.c \/ s = t.c
  BY <1>1, NAssumption DEF Slaves
<1> QED
  BY <1>2, <1>3, GoOnFacts DEF Covers

\* A handler that has nothing but what is backed counts as a good handler.
LEMMA GoOnKeeps ==
  ASSUME RTypeOK, NEW t \in TickType, Backed(t.floor), Backed(t.parts),
         Backed(counters.parts), t.isSend => t.reported # {},
         \A s \in Slaves, k \in Keys :
           s < t.c => t.floor[s][k] <= t.parts[s][k],
         \A k \in Keys : t.floor[t.c][k] <= t.parts[t.c][k],
         ~t.overtaken =>
           /\ \A s \in Slaves, k \in Keys :
                s < t.c => counters.parts[s][k] <= t.parts[s][k]
           /\ \A k \in Keys : counters.parts[t.c][k] <= t.parts[t.c][k]
  PROVE  TickInv(GoOn(t))
<1>1. t.floor \in Counters /\ counters.parts \in Counters
  BY DEF RTypeOK, TickType, Snapshots
<1>2. Covers(GoOn(t), t.floor)
  BY <1>1, GoOnCovers
<1>3. ~t.overtaken => Covers(GoOn(t), counters.parts)
  BY <1>1, GoOnCovers
<1> QED
  BY <1>2, <1>3, GoOnFacts DEF TickInv

\* What handler h looks like after a step of its own other than Publish.
LEMMA HandlerKeeps ==
  ASSUME RTypeOK, RTypeOK', \A g \in Handlers : TickInv(tick[g]),
         Backed(counters.parts), NEW h \in Handlers,
         TickStarts(h) \/ TickStep(h), ~Publish(h)
  PROVE  /\ UNCHANGED <<jvars, load, counters>>
         /\ \E r \in TickType : /\ tick' = [tick EXCEPT ![h] = r]
                                /\ TickInv(r)
<1>0. /\ tick[h] \in TickType /\ TickInv(tick[h])
      /\ tick[h].c \in Slaves
      /\ tick[h].parts \in Counters /\ tick[h].floor \in Counters
      /\ counters.parts \in Counters /\ cnt \in Counters
  BY DEF RTypeOK, TickType, Snapshots
<1>1. CASE TickStarts(h)
  <2> DEFINE f == [s \in Slaves |->
                     IF MasterCollects(stat[s]) THEN cnt[s] ELSE Zero]
             b == \A s \in Slaves : MasterCollects(stat[s])
                                    /\ stat[s] >= SendComplete
             r == [Rest EXCEPT !.at = "state", !.floor = f, !.fresh = b]
  <2>1. tick' = [tick EXCEPT ![h] = r] /\ UNCHANGED <<jvars, load, counters>>
    BY <1>1 DEF TickStarts
  <2>2. tick'[h] = r
    BY <2>1 DEF RTypeOK
  <2>3. r \in TickType
    <3> HIDE DEF r
    <3> QED
      BY <2>2 DEF RTypeOK
  <2>4. /\ r.at = "state" /\ r.c = 1 /\ r.floor = f /\ r.parts = Blank
        /\ r.isSend = FALSE
    BY DEF Rest
  <2>5. Backed(f)
    BY <1>0 DEF Backed, Counters, Zero
  <2>6. Backed(Blank)
    BY <1>0 DEF Backed, Blank, Zero, Counters
  <2>7. \A s \in Slaves : ~(s < 1)
    BY DEF Slaves
  <2>8. TickInv(r)
    <3> HIDE DEF r, f
    <3> QED
      BY <2>4, <2>5, <2>6, <2>7 DEF TickInv, Covers
  <2> HIDE DEF r
  <2> QED
    BY <2>1, <2>3, <2>8
<1>2. CASE GetState(h)
  <2> DEFINE t == tick[h]
             st == stat[t.c]
             r1 == [t EXCEPT !.at = "request", !.isSend = TRUE,
                             !.isComplete = FALSE]
             r2 == [t EXCEPT !.isComplete =
                               t.isComplete \/ CountsAsComplete(st)]
  <2>1. /\ tick' = [tick EXCEPT ![h] = IF MasterCollects(st) THEN r1
                                                            ELSE GoOn(r2)]
        /\ UNCHANGED <<jvars, load, counters>>
        /\ t.at = "state" /\ life[t.c] = "up"
    BY <1>2 DEF GetState
  <2>2. CASE MasterCollects(st)
    <3>1. r1 \in TickType
      BY <1>0 DEF TickType
    <3>2. /\ r1.at = "request" /\ r1.c = t.c /\ r1.parts = t.parts
          /\ r1.floor = t.floor /\ r1.overtaken = t.overtaken
      BY <1>0 DEF TickType
    <3>3. TickInv(r1)
      <4> HIDE DEF r1
      <4> QED
        BY <1>0, <2>1, <2>2, <3>2 DEF TickInv, Covers, Reporting
    <3> HIDE DEF r1, r2
    <3> QED
      BY <2>1, <2>2, <3>1, <3>3
  <2>3. CASE ~MasterCollects(st)
    <3>1. r2 \in TickType
      <4>1. (t.isComplete \/ CountsAsComplete(st)) \in BOOLEAN
        OBVIOUS
      <4> QED
        BY <1>0, <4>1 DEF TickType
    <3>2. /\ r2.c = t.c /\ r2.parts = t.parts /\ r2.floor = t.floor
          /\ r2.overtaken = t.overtaken /\ r2.isSend = t.isSend
          /\ r2.reported = t.reported
      BY <1>0 DEF TickType
    <3>3. \A base \in Counters : Backed(base) =>
            \A k \in Keys : base[t.c][k] <= t.parts[t.c][k]
      <4> SUFFICES ASSUME NEW base \in Counters, Backed(base), NEW k \in Keys
                   PROVE  base[t.c][k] <= t.parts[t.c][k]
        OBVIOUS
      <4>1. base[t.c][k] \in Nat /\ t.parts[t.c][k] \in Nat
        <5>1. tick[h].c \in Slaves /\ tick[h].parts \in Counters
          BY <1>0
        <5> QED
          BY <5>1 DEF Counters
      <4>2. ~(base[t.c][k] > 0)
        <5>1. life[t.c] # "dead"
          BY <2>1
        <5>2. base[t.c][k] > 0 => MasterCollects(stat[t.c])
          <6> QED
            BY <1>0, <5>1 DEF Backed
        <5> QED
          BY <5>2, <2>3
      <4> HIDE DEF t
      <4> QED
        BY <4>1, <4>2
    <3>4. TickInv(GoOn(r2))
      <4> HIDE DEF r2, st
      <4> QED
        BY <1>0, <2>1, <3>1, <3>2, <3>3, GoOnKeeps DEF TickInv, Covers
    <3>5. GoOn(r2) \in TickType
      <4> HIDE DEF r2
      <4> QED
        BY <3>1, GoOnFacts
    <3> HIDE DEF r1, r2
    <3> QED
      BY <2>1, <2>3, <3>4, <3>5
  <2> QED
    BY <2>2, <2>3
<1>3. CASE CollectCounters(h)
  <2> DEFINE t == tick[h]
             r == [t EXCEPT !.at = "read", !.todo = Keys]
  <2>1. /\ tick' = [tick EXCEPT ![h] = IF SlaveReports(stat[t.c])
                                         THEN r ELSE GoOn(t)]
        /\ UNCHANGED <<jvars, load, counters>>
        /\ t.at = "request" /\ life[t.c] = "up"
    BY <1>3 DEF CollectCounters
  <2>2. Reporting(t)
    BY <1>0, <2>1 DEF TickInv
  <2>3. SlaveReports(stat[t.c])
    BY <1>0, <2>1, <2>2, CollectFacts DEF Reporting, RTypeOK, TypeOK
  <2>4. r \in TickType
    BY <1>0 DEF TickType
  <2>5. /\ r.at = "read" /\ r.c = t.c /\ r.parts = t.parts /\ r.todo = Keys
        /\ r.floor = t.floor /\ r.overtaken = t.overtaken
    BY <1>0 DEF TickType
  <2>6. TickInv(r)
    <3> HIDE DEF r
    <3> QED
      BY <1>0, <2>1, <2>2, <2>5 DEF TickInv, Covers, Reporting
  <2> HIDE DEF r
  <2> QED
    BY <2>1, <2>3, <2>4, <2>6
<1>4. ASSUME NEW k \in Keys, ReadCounter(h, k)
      PROVE  /\ UNCHANGED <<jvars, load, counters>>
             /\ \E r \in TickType : /\ tick' = [tick EXCEPT ![h] = r]
                                    /\ TickInv(r)
  <2> DEFINE t == tick[h]
             p == [t.parts EXCEPT ![t.c][k] = cnt[t.c][k]]
             read == [t EXCEPT !.todo = t.todo \ {k},
                               !.parts[t.c][k] = cnt[t.c][k]]
             r == [read EXCEPT !.reported = read.reported \cup {t.c}]
  <2>1. /\ tick' = [tick EXCEPT ![h] = IF t.todo = {k} THEN GoOn(r) ELSE read]
        /\ UNCHANGED <<jvars, load, counters>>
        /\ t.at = "read" /\ life[t.c] = "up"
    BY <1>4 DEF ReadCounter
  <2>2. p \in Counters
    BY <1>0 DEF Counters
  <2>3. read \in TickType
    BY <1>0, <2>2 DEF TickType
  <2>4. /\ read.at = "read" /\ read.c = t.c /\ read.parts = p
        /\ read.todo = t.todo \ {k} /\ read.floor = t.floor
        /\ read.overtaken = t.overtaken /\ read.isSend = t.isSend
    BY <1>0, <2>1 DEF TickType
  <2>5. Backed(t.floor) /\ Backed(t.parts) /\ Reporting(t)
        /\ Covers(t, t.floor) /\ (~t.overtaken => Covers(t, counters.parts))
    BY <1>0, <2>1 DEF TickInv
  <2>6. \A s \in Slaves, j \in Keys :
          p[s][j] = IF s = t.c /\ j = k THEN cnt[t.c][k] ELSE t.parts[s][j]
    BY <1>0 DEF Counters
  <2>7. Backed(p)
    <3>1. MasterCollects(stat[t.c])
      BY <2>1, <2>5 DEF Reporting
    <3>2. cnt[t.c][k] \in Nat
      BY <1>0 DEF Counters
    <3> HIDE DEF p
    <3> QED
      BY <2>5, <2>6, <3>1, <3>2 DEF Backed
  <2>8. ASSUME NEW base \in Counters, Backed(base), Covers(t, base)
        PROVE  /\ \A s \in Slaves, j \in Keys :
                    s < t.c => base[s][j] <= p[s][j]
               /\ \A j \in Keys \ (t.todo \ {k}) :
                    base[t.c][j] <= p[t.c][j]
    <3>1. \A s \in Slaves : s < t.c => s # t.c
      BY <1>0 DEF Slaves
    <3>2. base[t.c][k] <= cnt[t.c][k]
      BY <1>0, <2>1, <2>8 DEF Backed
    <3> HIDE DEF p
    <3> QED
      BY <1>0, <2>1, <2>6, <2>8, <3>1, <3>2 DEF Covers
  <2>9. CASE t.todo # {k}
    <3>1. TickInv(read)
      <4> HIDE DEF read, p
      <4>1. Covers(read, t.floor)
        BY <1>0, <2>4, <2>5, <2>8 DEF Covers
      <4>2. ~t.overtaken => Covers(read, counters.parts)
        BY <1>0, <2>4, <2>5, <2>8 DEF Covers
      <4>3. Reporting(read)
        BY <2>4, <2>5 DEF Reporting
      <4> QED
        BY <2>4, <2>5, <2>7, <4>1, <4>2, <4>3 DEF TickInv
    <3> HIDE DEF read, r
    <3> QED
      BY <2>1, <2>3, <2>9, <3>1
  <2>10. CASE t.todo = {k}
    <3>1. r \in TickType
      <4> HIDE DEF read
      <4> QED
        BY <1>0, <2>3 DEF TickType
    <3>2. /\ r.c = t.c /\ r.parts = p /\ r.floor = t.floor
          /\ r.overtaken = t.overtaken /\ r.reported # {}
      <4> HIDE DEF read
      <4> QED
        BY <2>3, <2>4 DEF TickType
    <3>3. Keys \ (t.todo \ {k}) = Keys
      BY <2>10
    <3>4. TickInv(GoOn(r))
      <4> HIDE DEF r, p
      <4> QED
        BY <1>0, <2>5, <2>7, <2>8, <3>1, <3>2, <3>3, GoOnKeeps
    <3>5. GoOn(r) \in TickType
      <4> HIDE DEF r
      <4> QED
        BY <3>1, GoOnFacts
    <3> HIDE DEF read, r
    <3> QED
      BY <2>1, <2>10, <3>4, <3>5
  <2> QED
    BY <2>9, <2>10
<1>5. CASE TickDies(h) \/ NothingToPublish(h)
  <2>1. tick' = [tick EXCEPT ![h] = Rest] /\ UNCHANGED <<jvars, load, counters>>
    BY <1>5 DEF TickDies, NothingToPublish
  <2>2. TickInv(Rest)
    BY DEF TickInv, Rest
  <2> QED
    BY <2>1, <2>2, BlankTypes
<1> QED
  BY <1>1, <1>2, <1>3, <1>4, <1>5 DEF TickStep

\* What a handler publishes is backed, and so is what the others go on with.
LEMMA PublishKeeps ==
  ASSUME RTypeOK, \A g \in Handlers : TickInv(tick[g]),
         NEW h \in Handlers, Publish(h)
  PROVE  /\ UNCHANGED <<jvars, load>>
         /\ SnapshotInv'
         /\ ~tick[h].overtaken => AtMost(counters.parts, counters'.parts)
         /\ \A g \in Handlers : TickInv(tick[g])'
<1>0. /\ tick[h] \in TickType /\ TickInv(tick[h])
      /\ tick[h].at = "publish" /\ tick[h].isSend
      /\ UNCHANGED <<jvars, load>>
  BY DEF RTypeOK, Publish, Publishable
<1>1. /\ Backed(tick[h].parts) /\ tick[h].reported # {}
      /\ ~tick[h].overtaken => Covers(tick[h], counters.parts)
  BY <1>0 DEF TickInv
<1>2. /\ counters'.parts = tick[h].parts
      /\ counters'.reported = tick[h].reported
  BY DEF Publish
<1>3. UNCHANGED <<life, cnt, stat>>
  BY <1>0 DEF jvars, load, slaveside, worked
<1>4. SnapshotInv'
  BY <1>1, <1>2, <1>3 DEF SnapshotInv, Backed
<1>5. ~tick[h].overtaken => AtMost(counters.parts, counters'.parts)
  BY <1>0, <1>1, <1>2 DEF Covers, AtMost
<1>6. ASSUME NEW g \in Handlers PROVE TickInv(tick[g])'
  <2>1. CASE g = h \/ tick[g].at = "off"
    <3>1. tick'[g].at = "off"
      BY <2>1 DEF Publish, Rest
    <3> QED
      BY <3>1 DEF TickInv
  <2>2. CASE g # h /\ tick[g].at # "off"
    <3>1. tick'[g] = [tick[g] EXCEPT !.overtaken = TRUE]
      BY <2>2 DEF Publish
    <3>2. tick[g] \in TickType /\ TickInv(tick[g])
      BY DEF RTypeOK
    <3>3. /\ tick'[g].at = tick[g].at /\ tick'[g].c = tick[g].c
          /\ tick'[g].todo = tick[g].todo /\ tick'[g].parts = tick[g].parts
          /\ tick'[g].reported = tick[g].reported
          /\ tick'[g].floor = tick[g].floor
          /\ tick'[g].isSend = tick[g].isSend
          /\ tick'[g].overtaken
      BY <3>1, <3>2 DEF TickType
    <3> QED
      BY <1>3, <2>2, <3>2, <3>3 DEF TickInv, Covers, Backed, Reporting
  <2> QED
    BY <2>1, <2>2
<1> QED
  BY <1>0, <1>4, <1>5, <1>6

\* A step of a slave or of a task leaves the main thread, the handlers and
\* what is published alone.
LEMMA SlaveLeavesMaster ==
  ASSUME TypeOK, NEW s \in Slaves,
         RpcStep(s) \/ CrashStep(s) \/ OperationStep(s) \/ LoadStep(s)
  PROVE  UNCHANGED <<mpc, result, tick, counters>>
<1>1. CASE RpcStep(s) \/ CrashStep(s)
  BY <1>1 DEF RpcStep, CrashStep, Crash, StartSlave, TaskStep, RpcLost,
              RunJob, LoadConnectionConfig, LoadConnectionRange, RpcFails,
              master, collect
<1>2. CASE OperationStep(s)
  <2>1. SlaveStep(s) /\ UNCHANGED collect
    BY <1>2 DEF OperationStep, SlaveStep, load
  <2> QED
    BY <2>1, SlaveStepShape
       DEF MoveShape, ReturnShape, ThrowShape, Move, Return, Throw, master, collect
<1>3. CASE LoadStep(s)
  BY <1>3 DEF LoadStep, SendAsync, IncreseSentMsg, IncreseNotSent,
              CountLatency, jvars, collect
<1> QED
  BY <1>1, <1>2, <1>3

\* The verdict finds a line to write, and nothing else ends a run without.
LEMMA LineKeeps ==
  ASSUME TypeOK, SnapshotInv, LineInv, [RNext]_rvars
  PROVE  LineInv'
<1>1. CASE SaveJobResult
  <2>1. Outcome[1] # "none"
    BY DEF SnapshotInv, Outcome
  <2>2. mpc' = "ended" /\ result' = Outcome[1]
    BY <1>1 DEF SaveJobResult, Verdict
  <2> QED
    BY <2>1, <2>2 DEF LineInv
<1>2. CASE MasterStep
  BY <1>2 DEF LineInv, MasterStep, MainThread, Abort, ProbeOk, ProbeFails,
              CreateWorker, LoadJobConfig, SetupFails, WhenAll, NextStep
<1>3. CASE UNCHANGED <<mpc, result>>
  BY <1>3 DEF LineInv
<1>4. ASSUME NEW s \in Slaves,
             RpcStep(s) \/ CrashStep(s) \/ OperationStep(s) \/ LoadStep(s)
      PROVE  UNCHANGED <<mpc, result>>
  BY <1>4, SlaveLeavesMaster
<1>5. ASSUME NEW h \in Handlers, TickStarts(h) \/ TickStep(h)
      PROVE  UNCHANGED <<mpc, result>>
  BY <1>5 DEF TickStarts, TickStep, GetState, CollectCounters, ReadCounter,
              TickDies, Publish, NothingToPublish, jvars
<1>6. CASE UNCHANGED rvars
  BY <1>3, <1>6 DEF rvars, jvars
<1> QED
  BY <1>1, <1>2, <1>3, <1>4, <1>5, <1>6 DEF RNext

\* A step of a slave, a task or the main thread: the slaves go on in order,
\* the handlers stay or come to rest, nothing is published.
LEMMA OthersGoOn ==
  ASSUME RInv,
         \/ MasterStep
         \/ SaveJobResult
         \/ \E s \in Slaves : RpcStep(s) \/ CrashStep(s) \/ OperationStep(s)
                              \/ LoadStep(s)
  PROVE  /\ SlavesKeep /\ UNCHANGED counters
         /\ UNCHANGED tick \/ tick' = [h \in Handlers |-> Rest]
<1>0. TypeOK /\ LoadTypes /\ IInv /\ (\A s \in Slaves : SlaveInv(s))
  BY DEF RInv, RTypeOK, LoadTypes
<1>1. SlavesKeep
  <2>1. CASE MasterStep \/ SaveJobResult
    BY <1>0, <2>1, ControlKeepsSlaves
  <2>2. ASSUME NEW s \in Slaves,
               RpcStep(s) \/ CrashStep(s) \/ OperationStep(s) \/ LoadStep(s)
        PROVE  SlavesKeep
    BY <1>0, <2>2, ControlKeepsSlaves, OperationKeepsSlaves, LoadKeepsSlaves
  <2> QED
    BY <2>1, <2>2
<1>2. /\ UNCHANGED counters
      /\ UNCHANGED tick \/ tick' = [h \in Handlers |-> Rest]
  BY DEF MasterStep, SaveJobResult, HandlersEnd, RpcStep, CrashStep,
         OperationStep, LoadStep, SendAsync, IncreseSentMsg, IncreseNotSent,
         CountLatency, collect
<1> QED
  BY <1>1, <1>2

\* A step of a slave, a task or the main thread keeps all that is gathered.
LEMMA OthersKeep ==
  ASSUME RInv, RTypeOK',
         \/ MasterStep
         \/ SaveJobResult
         \/ \E s \in Slaves : RpcStep(s) \/ CrashStep(s) \/ OperationStep(s)
                              \/ LoadStep(s)
  PROVE  /\ \A s \in Slaves : SlaveInv(s)'
         /\ \A h \in Handlers : TickInv(tick[h])'
         /\ SnapshotInv'
         /\ UNCHANGED counters
<1>1. SlavesKeep
  BY OthersGoOn
<1>2. /\ UNCHANGED counters
      /\ UNCHANGED tick \/ tick' = [h \in Handlers |-> Rest]
  BY OthersGoOn
<1>3. SnapshotInv'
  <2>1. counters.parts \in Counters /\ Backed(counters.parts) /\ RTypeOK
    BY DEF RInv, RTypeOK, Snapshots, SnapshotInv
  <2>2. BackedNext(counters.parts)
    BY <1>1, <2>1, BackedStays
  <2> QED
    BY <1>2, <2>2 DEF RInv, SnapshotInv, Backed, BackedNext
<1>4. \A h \in Handlers : TickInv(tick[h])'
  BY <1>1, <1>2, SlavesKeepTicks DEF RInv, SnapshotInv
<1> QED
  BY <1>1, <1>2, <1>3, <1>4 DEF SlavesKeep

\* A step of a handler that does not publish keeps it as well.
LEMMA HandlersKeep ==
  ASSUME RInv, RTypeOK', NEW h \in Handlers,
         TickStarts(h) \/ TickStep(h), ~Publish(h)
  PROVE  /\ UNCHANGED <<jvars, load, counters>>
         /\ \A g \in Handlers : TickInv(tick[g])'
         /\ SnapshotInv'
<1>1. /\ UNCHANGED <<jvars, load, counters>>
      /\ \E r \in TickType : /\ tick' = [tick EXCEPT ![h] = r]
                             /\ TickInv(r)
  BY HandlerKeeps DEF RInv, SnapshotInv
<1>2. UNCHANGED <<life, cnt, stat, counters>>
  BY <1>1 DEF jvars, load
<1>3. SnapshotInv'
  BY <1>2 DEF RInv, SnapshotInv, Backed
<1>4. PICK r \in TickType : tick' = [tick EXCEPT ![h] = r] /\ TickInv(r)
  BY <1>1
<1>5. ASSUME NEW g \in Handlers PROVE TickInv(tick[g])'
  <2>1. TickInv(tick'[g])
    BY <1>4 DEF RInv, RTypeOK
  <2> QED
    BY <1>2, <2>1 DEF TickInv, Covers, Backed, Reporting
<1> QED
  BY <1>1, <1>3, <1>5

\* Slaves that nothing happened to are in order.
LEMMA SlavesRest ==
  ASSUME \A s \in Slaves : SlaveInv(s), UNCHANGED <<jvars, load>>
  PROVE  \A s \in Slaves : SlaveInv(s)'
BY DEF SlaveInv, Listening, jvars, load

\* The invariant holds in every reachable state.
LEMMA RInvariance == RSpec => []RInv
<1>1. RInit => RInv
  <2> SUFFICES ASSUME RInit PROVE RInv
    OBVIOUS
  <2>1. RTypeOK
    BY InitTypes
  <2>2. IInv
    BY InitKeeps DEF RInit
  <2>3. \A s \in Slaves : SlaveInv(s)
    <3>1. ~MasterCollects(WorkerUnexist)
      BY CollectFacts
    <3> QED
      BY <3>1 DEF RInit, Init, SlaveInv, Blank, Zero
  <2>4. \A h \in Handlers : TickInv(tick[h])
    BY DEF RInit, TickInv, Rest
  <2>5. SnapshotInv
    BY DEF RInit, SnapshotInv, NoCounters, Backed, Blank, Zero
  <2>6. LineInv
    BY DEF RInit, Init, LineInv
  <2> QED
    BY <2>1, <2>2, <2>3, <2>4, <2>5, <2>6 DEF RInv
<1>2. RInv /\ [RNext]_rvars => RInv'
  <2> SUFFICES ASSUME RInv, [RNext]_rvars PROVE RInv'
    OBVIOUS
  <2>1. RTypeOK' /\ IInv' /\ LineInv'
    BY RTypeStep, StepRefines, NextKeeps, LineKeeps DEF RInv, RTypeOK
  <2>2. CASE \/ MasterStep
             \/ SaveJobResult
             \/ \E s \in Slaves : RpcStep(s) \/ CrashStep(s)
                                  \/ OperationStep(s) \/ LoadStep(s)
    BY <2>1, <2>2, OthersKeep DEF RInv
  <2>3. ASSUME NEW h \in Handlers, TickStarts(h) \/ TickStep(h), ~Publish(h)
        PROVE  RInv'
    BY <2>1, <2>3, HandlersKeep, SlavesRest DEF RInv
  <2>4. ASSUME NEW h \in Handlers, Publish(h) PROVE RInv'
    BY <2>1, <2>4, PublishKeeps, SlavesRest DEF RInv
  <2>5. CASE UNCHANGED rvars
    <3>1. UNCHANGED <<jvars, load, tick, counters>>
      BY <2>5 DEF rvars, collect
    <3>2. SnapshotInv' /\ \A h \in Handlers : TickInv(tick[h])'
      BY <3>1 DEF RInv, SnapshotInv, TickInv, Covers, Backed, Reporting,
                  jvars, load
    <3> QED
      BY <2>1, <3>1, <3>2, SlavesRest DEF RInv
  <2> QED
    BY <2>2, <2>3, <2>4, <2>5 DEF RNext
<1> QED
  BY <1>1, <1>2, PTL DEF RSpec

-----------------------------------------------------------------------------
(* The verdict                                                              *)

\* What the units are.
LEMMA UnitsAre ==
  ASSUME NEW S, NEW f
  PROVE  \A u : u \in Units(f, S) <=>
           \E x \in S : \E n \in 0..f[x] - 1 : u = <<x, n>>
  BY DEF Units

\* A sum of finitely many numbers is a number, 0 if they all are.
LEMMA SumType ==
  ASSUME NEW S, IsFiniteSet(S), NEW f, \A x \in S : f[x] \in Nat
  PROVE  /\ IsFiniteSet(Units(f, S)) /\ SumOver(f, S) \in Nat
         /\ (\A x \in S : f[x] = 0) => SumOver(f, S) = 0
<1>1. IsFiniteSet(Units(f, S))
  <2> DEFINE U(x) == {x} \X (0..f[x] - 1)
             T == {U(x) : x \in S}
             g == [x \in S |-> U(x)]
  <2>1. g \in Surjection(S, T)
    BY DEF Surjection
  <2>2. IsFiniteSet(T)
    <3> HIDE DEF g, T
    <3> QED
      BY <2>1, FS_Surjection
  <2>3. ASSUME NEW x \in S PROVE IsFiniteSet(U(x))
    <3>1. IsFiniteSet({x}) /\ IsFiniteSet(0..f[x] - 1)
      <4>1. f[x] - 1 \in Int /\ 0 \in Int
        OBVIOUS
      <4>2. IsFiniteSet(0..f[x] - 1)
        BY <4>1, FS_Interval
      <4> QED
        BY <4>2, FS_Singleton
    <3> QED
      BY <3>1, FS_Product
  <2> QED
    BY <2>2, <2>3, FS_UNION DEF Units
<1>2. SumOver(f, S) \in Nat
  BY <1>1, FS_CardinalityType DEF SumOver
<1>3. (\A x \in S : f[x] = 0) => Units(f, S) = {}
  BY UnitsAre
<1> QED
  BY <1>1, <1>2, <1>3, FS_EmptySet DEF SumOver

\* A sum of greater numbers is not smaller.
LEMMA SumMonotone ==
  ASSUME NEW S, IsFiniteSet(S), NEW f, NEW g,
         \A x \in S : f[x] \in Nat /\ g[x] \in Nat /\ f[x] <= g[x]
  PROVE  SumOver(f, S) <= SumOver(g, S)
<1>1. Units(f, S) \subseteq Units(g, S)
  BY UnitsAre
<1> QED
  BY <1>1, SumType, FS_Subset DEF SumOver

\* A sum only sees the places it goes over.
LEMMA SumSame ==
  ASSUME NEW S, NEW f, NEW g, \A x \in S : f[x] = g[x]
  PROVE  SumOver(f, S) = SumOver(g, S)
<1>1. Units(f, S) = Units(g, S)
  BY DEF Units
<1> QED
  BY <1>1 DEF SumOver

\* More messages received of as many sent pass as well.
LEMMA PassesWithMore ==
  ASSUME NEW p \in Counters, NEW q \in Counters, Passes(p),
         \A s \in Slaves : /\ p[s]["sent"] = q[s]["sent"]
                           /\ p[s]["notSent"] = q[s]["notSent"]
                           /\ p[s]["received"] <= q[s]["received"]
  PROVE  Passes(q)
<1>1. IsFiniteSet(Slaves)
  <2>1. N \in Int /\ 1 \in Int
    BY NAssumption
  <2> QED
    BY <2>1, FS_Interval DEF Slaves
<1>2. \A r \in Counters, k \in Keys, s \in Slaves :
        r[s][k] \in Nat /\ [t \in Slaves |-> r[t][k]][s] = r[s][k]
  BY DEF Counters
<1>3. \A r \in Counters, k \in Keys : Total(r, k) \in Nat
  <2> TAKE r \in Counters, k \in Keys
  <2> DEFINE f == [t \in Slaves |-> r[t][k]]
  <2>1. \A s \in Slaves : f[s] \in Nat
    BY <1>2
  <2> HIDE DEF f
  <2>2. SumOver(f, Slaves) \in Nat
    BY <1>1, <2>1, SumType
  <2> QED
    BY <2>2 DEF Total, f
<1>4. ASSUME NEW k \in {"sent", "notSent"} PROVE Total(q, k) = Total(p, k)
  <2> DEFINE f == [t \in Slaves |-> p[t][k]]
             g == [t \in Slaves |-> q[t][k]]
  <2>1. \A s \in Slaves : f[s] = g[s]
    OBVIOUS
  <2> HIDE DEF f, g
  <2>2. SumOver(f, Slaves) = SumOver(g, Slaves)
    BY <2>1, SumSame
  <2> QED
    BY <2>2 DEF Total, f, g
<1>5. Total(p, "received") <= Total(q, "received")
  <2> DEFINE f == [t \in Slaves |-> p[t]["received"]]
             g == [t \in Slaves |-> q[t]["received"]]
  <2>1. \A s \in Slaves : f[s] \in Nat /\ g[s] \in Nat /\ f[s] <= g[s]
    BY <1>2 DEF Keys
  <2> HIDE DEF f, g
  <2>2. SumOver(f, Slaves) <= SumOver(g, Slaves)
    BY <1>1, <2>1, SumMonotone
  <2> QED
    BY <2>2 DEF Total, f, g
<1>6. Total(q, "sent") = Total(p, "sent") /\ Total(q, "notSent") = Total(p, "notSent")
  BY <1>4
<1> DEFINE d == (Total(p, "sent") + Total(p, "notSent"))
                  * IF Scenario = "broadcast" THEN Connections ELSE 1
<1>7. d \in Int
  <2>1. Total(p, "sent") + Total(p, "notSent") \in Nat
    BY <1>3 DEF Keys
  <2>2. (IF Scenario = "broadcast" THEN Connections ELSE 1) \in Nat
    BY ConnectionsAssumption
  <2>3. \A a, b \in Nat : a * b \in Int
    OBVIOUS
  <2> HIDE DEF d
  <2> QED
    BY <2>1, <2>2, <2>3 DEF d
<1>8. Exceeds(Total(p, "received"), d)
  BY DEF Passes
<1>9. Total(p, "received") \in Nat /\ Total(q, "received") \in Nat
  BY <1>3 DEF Keys
<1>10. Exceeds(Total(q, "received"), d)
  <2> HIDE DEF d
  <2> QED
    BY <1>5, <1>7, <1>8, <1>9 DEF Exceeds
<1> QED
  BY <1>6, <1>10 DEF Passes

(***************************************************************************)
(* Final: sending is behind the slaves that live, and these are the last   *)
(* numbers of what they have sent.  FreshInv: that is so of what a handler *)
(* found that began when all had completed, and of what it published.      *)
(***************************************************************************)
Final(base) ==
  \A s \in Slaves :
    life[s] # "dead" =>
      Through(s) /\ \A k \in {"sent", "notSent"} : base[s][k] = cnt[s][k]

FreshInv ==
  /\ \A h \in Handlers :
       tick[h].at # "off" /\ tick[h].fresh => Final(tick[h].floor)
  /\ counters.fresh => Final(counters.parts)

\* A run is over once the verdict is drawn; nobody publishes any more.
VerdictInv ==
  /\ mpc = "ended" => \A h \in Handlers : tick[h].at = "off"
  /\ result = "SUCCESS" => mpc = "ended" /\ Passes(counters.parts)

\* The last numbers stay the last.
LEMMA FinalStays ==
  ASSUME SlavesKeep, NEW base, Final(base)
  PROVE  \A s \in Slaves :
           life'[s] # "dead" =>
             Through(s)' /\ \A k \in {"sent", "notSent"} : base[s][k] = cnt'[s][k]
BY DEF SlavesKeep, Grows, Final

\* A handler that begins when all have completed finds the last numbers.
LEMMA FreshBegins ==
  ASSUME RInv, NEW h \in Handlers, TickStarts(h), tick'[h].fresh
  PROVE  Final(tick'[h].floor)
<1>1. tick'[h] = [Rest EXCEPT
          !.at = "state",
          !.floor = [s \in Slaves |->
                       IF MasterCollects(stat[s]) THEN cnt[s] ELSE Zero],
          !.fresh = \A s \in Slaves : MasterCollects(stat[s])
                                      /\ stat[s] >= SendComplete]
  BY DEF TickStarts, RInv, RTypeOK
<1>2. /\ tick'[h].floor = [s \in Slaves |->
                             IF MasterCollects(stat[s]) THEN cnt[s] ELSE Zero]
      /\ tick'[h].fresh = \A s \in Slaves : MasterCollects(stat[s])
                                            /\ stat[s] >= SendComplete
  BY <1>1 DEF Rest
<1>3. \A s \in Slaves : MasterCollects(stat[s]) /\ stat[s] >= SendComplete
  BY <1>2
<1>4. ASSUME NEW s \in Slaves PROVE Through(s)
  <2>1. SlaveInv(s)
    BY DEF RInv
  <2>2. stat[s] # SendRunning
    BY <1>3 DEF SendComplete, SendRunning
  <2> QED
    BY <1>3, <2>1, <2>2 DEF SlaveInv, Through
<1>5. \A s \in Slaves : tick'[h].floor[s] = cnt[s]
  BY <1>2, <1>3
<1> QED
  BY <1>4, <1>5 DEF Final

\* A step of a handler leaves what it found when it began as it was.
LEMMA FloorStays ==
  ASSUME RInv, NEW h \in Handlers, TickStep(h), ~Publish(h)
  PROVE  \E r \in TickType :
           /\ tick' = [tick EXCEPT ![h] = r]
           /\ r.at = "off" \/ /\ tick[h].at # "off"
                              /\ r.floor = tick[h].floor
                              /\ r.fresh = tick[h].fresh
<1> DEFINE t == tick[h]
<1>0. t \in TickType /\ t.c \in Slaves /\ cnt \in Counters
  BY DEF RInv, RTypeOK, TickType
<1> HIDE DEF t
<1>g. \A u \in TickType : /\ GoOn(u) \in TickType
                          /\ GoOn(u).floor = u.floor /\ GoOn(u).fresh = u.fresh
  <2> TAKE u \in TickType
  <2>1. GoOn(u) \in TickType
    BY GoOnFacts
  <2> QED
    BY <2>1 DEF GoOn, TickType
<1>1. CASE GetState(h)
  <2> DEFINE r1 == [t EXCEPT !.at = "request", !.isSend = TRUE,
                             !.isComplete = FALSE]
             r2 == [t EXCEPT !.isComplete =
                               t.isComplete \/ CountsAsComplete(stat[t.c])]
  <2>1. /\ t.at # "off"
        /\ \/ tick' = [tick EXCEPT ![h] = r1]
           \/ tick' = [tick EXCEPT ![h] = GoOn(r2)]
    BY <1>1 DEF GetState, t
  <2>2. r1 \in TickType /\ r1.floor = t.floor /\ r1.fresh = t.fresh
    BY <1>0 DEF TickType
  <2>3. r2 \in TickType /\ r2.floor = t.floor /\ r2.fresh = t.fresh
    <3>1. (t.isComplete \/ CountsAsComplete(stat[t.c])) \in BOOLEAN
      OBVIOUS
    <3> QED
      BY <1>0, <3>1 DEF TickType
  <2> HIDE DEF r1, r2
  <2> QED
    BY <1>g, <2>1, <2>2, <2>3 DEF t
<1>2. CASE CollectCounters(h)
  <2> DEFINE r == [t EXCEPT !.at = "read", !.todo = Keys]
  <2>1. /\ t.at # "off"
        /\ \/ tick' = [tick EXCEPT ![h] = r]
           \/ tick' = [tick EXCEPT ![h] = GoOn(t)]
    BY <1>2 DEF CollectCounters, t
  <2>2. r \in TickType /\ r.floor = t.floor /\ r.fresh = t.fresh
    BY <1>0 DEF TickType
  <2> HIDE DEF r
  <2> QED
    BY <1>0, <1>g, <2>1, <2>2 DEF t
<1>3. ASSUME NEW k \in Keys, ReadCounter(h, k)
      PROVE  \E r \in TickType :
               /\ tick' = [tick EXCEPT ![h] = r]
               /\ tick[h].at # "off"
               /\ r.floor = tick[h].floor /\ r.fresh = tick[h].fresh
  <2> DEFINE p == [t.parts EXCEPT ![t.c][k] = cnt[t.c][k]]
             read == [t EXCEPT !.todo = t.todo \ {k},
                               !.parts[t.c][k] = cnt[t.c][k]]
             r == [read EXCEPT !.reported = read.reported \cup {t.c}]
  <2>1. /\ t.at # "off"
        /\ \/ tick' = [tick EXCEPT ![h] = read]
           \/ tick' = [tick EXCEPT ![h] = GoOn(r)]
    BY <1>3 DEF ReadCounter, t
  <2>2. p \in Counters
    BY <1>0 DEF Counters, TickType
  <2>3. read \in TickType /\ read.floor = t.floor /\ read.fresh = t.fresh
    BY <1>0, <2>2 DEF TickType
  <2>4. r \in TickType /\ r.floor = t.floor /\ r.fresh = t.fresh
    <3> HIDE DEF read
    <3> QED
      BY <1>0, <2>3 DEF TickType
  <2> HIDE DEF read, r
  <2> QED
    BY <1>g, <2>1, <2>3, <2>4 DEF t
<1>4. CASE TickDies(h) \/ NothingToPublish(h)
  <2>1. tick' = [tick EXCEPT ![h] = Rest] /\ Rest.at = "off"
    BY <1>4 DEF TickDies, NothingToPublish, Rest
  <2> QED
    BY <2>1, BlankTypes
<1> QED
  BY <1>1, <1>2, <1>3, <1>4 DEF TickStep

\* A handler publishes the last numbers if it began after them.
LEMMA FreshPublished ==
  ASSUME RInv, NEW h \in Handlers, Publish(h), Final(tick[h].floor)
  PROVE  Final(counters'.parts)
<1>1. counters'.parts = tick[h].parts /\ tick[h].at = "publish"
  BY DEF Publish, Publishable
<1>2. Backed(tick[h].parts) /\ Covers(tick[h], tick[h].floor)
  BY <1>1 DEF RInv, TickInv
<1>3. \A s \in Slaves, k \in Keys :
        /\ tick[h].parts[s][k] \in Nat /\ cnt[s][k] \in Nat
        /\ tick[h].floor[s][k] <= tick[h].parts[s][k]
        /\ life[s] # "dead" => tick[h].parts[s][k] <= cnt[s][k]
  BY <1>1, <1>2 DEF Covers, Backed, RInv, RTypeOK, TickType, Counters
<1> QED
  BY <1>1, <1>3 DEF Final, Keys

LEMMA FreshKeeps ==
  ASSUME RInv, FreshInv, [RNext]_rvars
  PROVE  FreshInv'
<1>1. CASE \/ MasterStep
           \/ SaveJobResult
           \/ \E s \in Slaves : RpcStep(s) \/ CrashStep(s) \/ OperationStep(s)
                                \/ LoadStep(s)
  <2>1. /\ SlavesKeep /\ UNCHANGED counters
        /\ UNCHANGED tick \/ tick' = [h \in Handlers |-> Rest]
    BY <1>1, OthersGoOn
  <2>2. ASSUME NEW base, Final(base)
        PROVE  \A s \in Slaves :
                 life'[s] # "dead" =>
                   Through(s)' /\ \A k \in {"sent", "notSent"} : base[s][k] = cnt'[s][k]
    BY <2>1, <2>2, FinalStays
  <2>3. ASSUME NEW h \in Handlers, tick'[h].at # "off", tick'[h].fresh
        PROVE  Final(tick[h].floor)' 
    <3>1. UNCHANGED tick
      BY <2>1, <2>3 DEF Rest
    <3>2. Final(tick[h].floor)
      BY <2>3, <3>1 DEF FreshInv
    <3> QED
      BY <2>2, <3>1, <3>2 DEF Final
  <2>4. counters'.fresh => Final(counters.parts)'
    BY <2>1, <2>2 DEF FreshInv, Final
  <2> QED
    BY <2>3, <2>4 DEF FreshInv
<1>2. ASSUME UNCHANGED <<jvars, load>>, NEW base, Final(base)
      PROVE  \A s \in Slaves :
               life'[s] # "dead" =>
                 Through(s)' /\ \A k \in {"sent", "notSent"} : base[s][k] = cnt'[s][k]
  <2>1. \A s \in Slaves : Through(s)' = Through(s)
    BY <1>2 DEF Through, Listening, jvars
  <2> QED
    BY <1>2, <2>1 DEF Final, jvars, load, slaveside
<1>3. ASSUME NEW h \in Handlers, TickStarts(h) PROVE FreshInv'
  <2>1. /\ UNCHANGED <<jvars, load, counters>>
        /\ \A g \in Handlers : g # h => tick'[g] = tick[g]
    BY <1>3 DEF TickStarts, RInv, RTypeOK
  <2>2. ASSUME NEW g \in Handlers, tick'[g].at # "off", tick'[g].fresh
        PROVE  Final(tick'[g].floor)
    BY <1>3, <2>1, <2>2, FreshBegins DEF FreshInv
  <2>3. ASSUME NEW g \in Handlers, tick'[g].at # "off", tick'[g].fresh
        PROVE  Final(tick[g].floor)'
    BY <1>2, <2>1, <2>2, <2>3 DEF Final
  <2>4. counters'.fresh => Final(counters.parts)'
    BY <1>2, <2>1 DEF FreshInv, Final
  <2> QED
    BY <2>3, <2>4 DEF FreshInv
<1>4. ASSUME NEW h \in Handlers, TickStep(h), ~Publish(h) PROVE FreshInv'
  <2>1. UNCHANGED <<jvars, load, counters>>
    BY <1>4 DEF TickStep, GetState, CollectCounters, ReadCounter, TickDies,
                NothingToPublish
  <2>2. PICK r \in TickType :
          /\ tick' = [tick EXCEPT ![h] = r]
          /\ r.at = "off" \/ /\ tick[h].at # "off"
                             /\ r.floor = tick[h].floor
                             /\ r.fresh = tick[h].fresh
    BY <1>4, FloorStays
  <2>3. ASSUME NEW g \in Handlers, tick'[g].at # "off", tick'[g].fresh
        PROVE  Final(tick[g].floor)'
    <3>1. tick[g].at # "off" /\ tick[g].fresh /\ tick'[g].floor = tick[g].floor
      BY <2>2, <2>3 DEF RInv, RTypeOK
    <3> QED
      BY <1>2, <2>1, <2>3, <3>1 DEF FreshInv, Final
  <2>4. counters'.fresh => Final(counters.parts)'
    BY <1>2, <2>1 DEF FreshInv, Final
  <2> QED
    BY <2>3, <2>4 DEF FreshInv
<1>5. ASSUME NEW h \in Handlers, Publish(h) PROVE FreshInv'
  <2>1. /\ UNCHANGED <<jvars, load>>
        /\ counters'.fresh = tick[h].fresh /\ tick[h].at = "publish"
    BY <1>5 DEF Publish, Publishable
  <2>2. ASSUME NEW g \in Handlers, tick'[g].at # "off", tick'[g].fresh
        PROVE  Final(tick[g].floor)'
    <3>0. /\ tick'[g] = IF g = h THEN Rest
                        ELSE IF tick[g].at = "off" THEN tick[g]
                        ELSE [tick[g] EXCEPT !.overtaken = TRUE]
          /\ tick[g] \in TickType
      BY <1>5 DEF Publish, RInv, RTypeOK
    <3>1. tick[g].at # "off" /\ tick[g].fresh /\ tick'[g].floor = tick[g].floor
      BY <2>2, <3>0 DEF Rest, TickType
    <3> QED
      BY <1>2, <2>1, <2>2, <3>1 DEF FreshInv, Final
  <2>3. counters'.fresh => Final(counters'.parts)
    BY <1>5, <2>1, FreshPublished DEF FreshInv
  <2>4. counters'.fresh => Final(counters.parts)'
    BY <1>2, <2>1, <2>3 DEF Final
  <2> QED
    BY <2>2, <2>4 DEF FreshInv
<1>6. CASE UNCHANGED rvars
  <2>1. UNCHANGED <<jvars, load, tick, counters>>
    BY <1>6 DEF rvars, collect
  <2> QED
    BY <1>2, <2>1 DEF FreshInv, Final
<1> QED
  BY <1>1, <1>3, <1>4, <1>5, <1>6 DEF RNext

LEMMA VerdictStays ==
  ASSUME RInv, VerdictInv, [RNext]_rvars
  PROVE  VerdictInv'
<1>1. CASE SaveJobResult
  <2>1. /\ mpc' = "ended" /\ result' = Outcome[1] /\ UNCHANGED counters
        /\ tick' = [h \in Handlers |-> Rest]
    BY <1>1 DEF SaveJobResult, Verdict, HandlersEnd
  <2>2. Outcome[1] = "SUCCESS" => Passes(counters.parts)
    BY DEF Outcome
  <2>3. \A h \in Handlers : tick'[h].at = "off"
    BY <2>1 DEF Rest
  <2> QED
    BY <2>1, <2>2, <2>3 DEF VerdictInv, Passes, Total
<1>2. CASE MasterStep
  <2>1. /\ UNCHANGED counters
        /\ mpc # "ended"
        /\ result' # "SUCCESS" \/ UNCHANGED result
        /\ mpc' = "ended" => tick' = [h \in Handlers |-> Rest]
    BY <1>2 DEF MasterStep, MainThread, Abort, ProbeOk, ProbeFails,
              CreateWorker, LoadJobConfig, SetupFails, WhenAll, NextStep,
              HandlersEnd, Ended
  <2>2. mpc' = "ended" => \A h \in Handlers : tick'[h].at = "off"
    BY <2>1 DEF Rest
  <2> QED
    BY <2>1, <2>2 DEF VerdictInv
<1>3. ASSUME UNCHANGED <<mpc, result>>, UNCHANGED <<tick, counters>>
      PROVE  VerdictInv'
  BY <1>3 DEF VerdictInv, Passes, Total
<1>4. ASSUME NEW s \in Slaves,
             RpcStep(s) \/ CrashStep(s) \/ OperationStep(s) \/ LoadStep(s)
      PROVE  UNCHANGED <<mpc, result, tick, counters>>
  BY <1>4, SlaveLeavesMaster DEF RInv, RTypeOK
<1>5. ASSUME NEW h \in Handlers, TickStarts(h) \/ TickStep(h) PROVE VerdictInv'
  <2>1. UNCHANGED <<mpc, result>> /\ mpc # "ended"
    <3>1. UNCHANGED <<mpc, result>>
      BY <1>5 DEF TickStarts, TickStep, GetState, CollectCounters, ReadCounter,
                  TickDies, Publish, NothingToPublish, jvars
    <3>2. TimerOn \/ tick[h].at # "off"
      BY <1>5 DEF TickStarts, TickStep, GetState, CollectCounters, ReadCounter,
                  TickDies, Publish, Publishable, NothingToPublish
    <3> QED
      BY <3>1, <3>2 DEF VerdictInv, TimerOn
  <2> QED
    BY <2>1 DEF VerdictInv
<1>6. CASE UNCHANGED rvars
  BY <1>3, <1>6 DEF rvars, jvars, collect
<1> QED
  BY <1>1, <1>2, <1>3, <1>4, <1>5, <1>6 DEF RNext

-----------------------------------------------------------------------------
(* The properties                                                           *)

\* What is published was really counted.
THEOREM NothingIsInvented == RSpec => []NothingInvented
<1>1. RInv => NothingInvented
  BY DEF RInv, SnapshotInv, Backed, NothingInvented
<1> QED
  BY <1>1, RInvariance, PTL

\* What is published is all that was counted when its collection began.
THEOREM NothingIsMissed == RSpec => []NothingMissed
<1>1. RInv => NothingMissed
  BY DEF RInv, TickInv, Covers, Publishable, AtMost, NothingMissed
<1> QED
  BY <1>1, RInvariance, PTL

\* A run that ends leaves a line: null is not read, and what a handler publishes,
\* fresh or not, is of one slave at least.
THEOREM ALineIsLeft == RSpec => []VerdictRecorded
<1>1. RInv => VerdictRecorded
  BY DEF RInv, LineInv, Ended, VerdictRecorded
<1> QED
  BY <1>1, RInvariance, PTL

\* The totals go backwards only by overtaking.
THEOREM OnlyOvertakingGoesBack == RSpec => NoStepBack
<1>1. RInv /\ [RNext]_rvars =>
        [\A h \in Handlers :
           Publish(h) /\ ~tick[h].overtaken =>
             AtMost(counters.parts, counters'.parts)]_rvars
  BY PublishKeeps DEF RInv
<1> QED
  BY <1>1, RInvariance, PTL DEF RSpec, NoStepBack

(***************************************************************************)
(* A SUCCESS drawn from a snapshot whose collection began after all had    *)
(* completed sending is true of the counters of the slaves themselves.     *)
(***************************************************************************)
THEOREM SuccessIsTrue == RSpec => []VerdictSound
<1>1. RInit => FreshInv /\ VerdictInv
  BY DEF RInit, Init, FreshInv, VerdictInv, Rest, NoCounters
<1>2. RInv /\ (FreshInv /\ VerdictInv) /\ [RNext]_rvars => (FreshInv /\ VerdictInv)'
  BY FreshKeeps, VerdictStays
<1>3. ASSUME RInv, FreshInv /\ VerdictInv PROVE VerdictSound
  <2> SUFFICES ASSUME result = "SUCCESS", counters.fresh,
                      \A s \in Slaves : life[s] = "up"
               PROVE  Passes(cnt)
    BY DEF VerdictSound
  <2>1. Passes(counters.parts) /\ Final(counters.parts) /\ Backed(counters.parts)
    BY <1>3 DEF VerdictInv, FreshInv, RInv, SnapshotInv
  <2>2. counters.parts \in Counters /\ cnt \in Counters
    BY <1>3 DEF RInv, RTypeOK, Snapshots
  <2>3. \A s \in Slaves : /\ counters.parts[s]["sent"] = cnt[s]["sent"]
                          /\ counters.parts[s]["notSent"] = cnt[s]["notSent"]
                          /\ counters.parts[s]["received"] <= cnt[s]["received"]
    BY <2>1 DEF Final, Backed, Keys
  <2> QED
    BY <2>1, <2>2, <2>3, PassesWithMore
<1> QED
  BY <1>1, <1>2, <1>3, RInvariance, PTL DEF RSpec
=============================================================================
