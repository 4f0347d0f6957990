------------------------ MODULE JenkinsDriver_proofs -------------------------
(***************************************************************************)
(* The service of a run, the master of a job, the order of the jobs and    *)
(* their results, for any number of slaves, any plan and any failures.     *)
(***************************************************************************)
EXTENDS JenkinsDriver, TLAPS

\* The program points before the first type, and those within a type.
Before == pc \in {"vms", "clone"} \/ (pc = "kill" /\ ran = {})
Within == \/ pc \in {"cell", "connection", "groupNum", "server", "slaves",
                     "start", "master", "typeEnd"}
          \/ pc = "kill" /\ ran # {}

(***************************************************************************)
(* Creation is only reached without a connection string and with a clear   *)
(* group, a type is only gone through with a string, and a service is only *)
(* deleted where there is no string or a local SignalR.                    *)
(***************************************************************************)
ServiceInv ==
  /\ made \in Nat
  /\ pc \in {"vms", "kill", "clone", "type", "create", "undo", "cell",
             "connection", "groupNum", "server", "slaves", "start", "master",
             "typeEnd"}
  /\ ended = "no" /\ (Before \/ pc = "create") => services = {}
  /\ ended = "no" /\ Before => ran = {}
  /\ pc \in {"create", "undo"} => conn = Empty
  /\ ended = "no" /\ pc # "undo" /\ conn = Empty => services = {}
  /\ Within => conn # Empty
  /\ \A a, b \in services : a = b
  /\ conn # Empty => services \subseteq {conn}
  /\ plan.given => conn = Given /\ services = {}
  /\ ~plan.local /\ ~plan.given /\ conn # Empty => conn \in services
  /\ ended \in {"no", "done"} /\ pc = "type" /\ plan.local => services = {}
  /\ ended = "done" => pc = "type"

\* The connection strings can be told apart.
LEMMA Strings ==
  ASSUME made \in Nat
  PROVE  NewService # Empty /\ Given # Empty
  BY DEF NewService, Empty, Given

LEMMA ServiceInit == Init => ServiceInv
  BY DEF Init, ServiceInv, Before, Within, Empty, Given

USE DEF Running, Goto, End, loopVars, cloudVars, hostVars, histVars

LEMMA ServiceNext == ServiceInv /\ [Next]_vars => ServiceInv'
<1> SUFFICES ASSUME ServiceInv, [Next]_vars PROVE ServiceInv'
  OBVIOUS
<1> USE DEF ServiceInv, Before, Within
<1>1. ASSUME NEW g \in DOMAIN vm, CreateVms(g) PROVE ServiceInv'
  BY <1>1 DEF CreateVms
<1>2. CASE VmsReady
  BY <1>2 DEF VmsReady
<1>3. CASE VmsRetry
  BY <1>3 DEF VmsRetry
<1>4. CASE Kill
  BY <1>4 DEF Kill
<1>5. CASE KillEnd
  BY <1>5 DEF KillEnd
<1>6. CASE GitCloneRepo
  BY <1>6 DEF GitCloneRepo
<1>7. CASE CreateSignalrService
  <2>1. conn = Empty /\ services = {} /\ pc = "create" /\ ended = "no"
    BY <1>7 DEF CreateSignalrService
  <2>2. NewService # Empty /\ ~plan.given /\ made + 1 \in Nat
    BY <2>1, Strings
  <2>3. UNCHANGED <<plan, ran>>
    BY <1>7 DEF CreateSignalrService
  <2>4. CASE services' = {NewService} /\ made' = made + 1 /\ conn' = NewService
             /\ pc' = "cell" /\ ended' = ended
    BY <2>1, <2>2, <2>3, <2>4
  <2>5. CASE /\ services' \in {{}, {NewService}} /\ made' \in {made, made + 1}
             /\ conn' = conn
             /\ \/ pc' = "undo" /\ ended' = ended
                \/ pc' = pc /\ ended' = "exit"
    BY <2>1, <2>2, <2>3, <2>5
  <2> QED
    BY <1>7, <2>1, <2>4, <2>5 DEF CreateSignalrService
<1>8. CASE UndoService
  BY <1>8 DEF UndoService, DeleteSignalr
<1>9. CASE TypeEnd
  BY <1>9 DEF TypeEnd, DeleteSignalr
<1>10. CASE NextType
  BY <1>10 DEF NextType
<1>11. CASE NextCell
  BY <1>11 DEF NextCell
<1>12. CASE NextConnection
  BY <1>12 DEF NextConnection
<1>13. CASE NextGroupNum
  BY <1>13 DEF NextGroupNum
<1>14. CASE StartAppServer
  BY <1>14 DEF StartAppServer
<1>15. CASE StartRpcSlaves
  BY <1>15 DEF StartRpcSlaves
<1>16. CASE StartRpcMaster
  BY <1>16 DEF StartRpcMaster
<1>17. CASE MasterEnds
  BY <1>17 DEF MasterEnds
<1>18. CASE UNCHANGED vars
  BY <1>18 DEF vars
<1> QED
  BY <1>1, <1>2, <1>3, <1>4, <1>5, <1>6, <1>7, <1>8, <1>9, <1>10, <1>11,
     <1>12, <1>13, <1>14, <1>15, <1>16, <1>17, <1>18 DEF Next, Driver

LEMMA ServiceInvariance == Spec => []ServiceInv
  BY ServiceInit, ServiceNext, PTL DEF Spec

\* A job that does not use a local SignalR has its service, whatever fails.
THEOREM JobHasService == Spec => []ServiceStands
<1>1. ServiceInv => ServiceStands
  BY DEF ServiceInv, ServiceStands, InJob, Within
<1> QED
  BY <1>1, ServiceInvariance, PTL

\* There is never more than one service of a run, however often creation is
\* tried, and none is left where the SignalR was local.
THEOREM AtMostOneService == Spec => []OneService
<1>1. ServiceInv => OneService
  BY DEF ServiceInv, OneService
<1> QED
  BY <1>1, ServiceInvariance, PTL

-----------------------------------------------------------------------------
(***************************************************************************)
(* The loop that kills goes through the hosts in order and the master is   *)
(* the last, so the error code it ends with is that of the master; nothing *)
(* is started on that host but the job's own master.                       *)
(***************************************************************************)
MasterInv ==
  /\ at \in 1..Master + 1
  /\ procs = [h \in Hosts |-> procs[h]]
  /\ pc = "vms" => at = 1
  /\ ended = "no" =>
       /\ pc = "kill" /\ at = Master + 1 /\ ~err => procs[Master] = {}
       /\ pc \in {"server", "slaves", "start"} => procs[Master] = {}
       /\ pc = "master" => procs[Master] = {Job}

LEMMA HostOrder ==
  /\ Master \in Nat /\ Master \in Hosts /\ AppServer \in Hosts
  /\ AppServer # Master /\ 1 # Master + 1 /\ 1 \in 1..Master + 1
  /\ SlaveHosts \subseteq Hosts /\ Master \notin SlaveHosts
  /\ \A h \in Hosts : h + 1 \in 1..Master + 1 /\ (h + 1 = Master + 1 => h = Master)
  /\ 2 \in 1..Master + 1
  BY SlavesAssumption DEF Master, Hosts, AppServer, SlaveHosts

\* A launch on another host leaves that of the master alone.
LEMMA LaunchElsewhere ==
  ASSUME procs = [h \in Hosts |-> procs[h]],
         NEW k \in Hosts, k # Master, Launch(k)
  PROVE  procs' = [h \in Hosts |-> procs'[h]] /\ procs'[Master] = procs[Master]
  BY HostOrder DEF Launch

LEMMA MasterInit == Init => MasterInv
  BY HostOrder DEF Init, MasterInv

LEMMA MasterNext == MasterInv /\ [Next]_vars => MasterInv'
<1> SUFFICES ASSUME MasterInv, [Next]_vars PROVE MasterInv'
  OBVIOUS
<1> USE DEF MasterInv
<1>1. ASSUME NEW g \in DOMAIN vm, CreateVms(g) PROVE MasterInv'
  BY <1>1 DEF CreateVms, Job
<1>2. CASE VmsReady
  BY <1>2, HostOrder DEF VmsReady, Job
<1>3. CASE VmsRetry
  BY <1>3 DEF VmsRetry, Job
<1>4. CASE Kill
  <2>1. procs' = [h \in Hosts |-> procs'[h]]
    BY <1>4, HostOrder DEF Kill
  <2>2. at' \in 1..Master + 1 /\ (at' = Master + 1 => at = Master)
    BY <1>4, HostOrder DEF Kill
  <2>3. at = Master /\ ~err' => procs'[Master] = {}
    BY <1>4, HostOrder DEF Kill
  <2> QED
    BY <1>4, <2>1, <2>2, <2>3 DEF Kill
<1>5. CASE KillEnd
  <2>1. at = Master + 1
    BY <1>5, HostOrder DEF KillEnd
  <2> QED
    BY <1>5, <2>1 DEF KillEnd, Job
<1>6. CASE GitCloneRepo
  BY <1>6 DEF GitCloneRepo, Job
<1>7. CASE CreateSignalrService
  BY <1>7 DEF CreateSignalrService, Job
<1>8. CASE UndoService
  BY <1>8 DEF UndoService, DeleteSignalr, Job
<1>9. CASE TypeEnd
  BY <1>9 DEF TypeEnd, DeleteSignalr, Job
<1>10. CASE NextType
  BY <1>10 DEF NextType, Job
<1>11. CASE NextCell
  BY <1>11 DEF NextCell, Job
<1>12. CASE NextConnection
  BY <1>12 DEF NextConnection, Job
<1>13. CASE NextGroupNum
  BY <1>13, HostOrder DEF NextGroupNum, Job
<1>14. CASE StartAppServer
  <2>1. procs' = [h \in Hosts |-> procs'[h]] /\ procs'[Master] = procs[Master]
    BY <1>14, HostOrder, LaunchElsewhere DEF StartAppServer
  <2> QED
    BY <1>14, <2>1, HostOrder DEF StartAppServer
<1>15. CASE StartRpcSlaves
  <2>1. CASE at \in SlaveHosts
    <3>1. procs' = [h \in Hosts |-> procs'[h]] /\ procs'[Master] = procs[Master]
      BY <1>15, <2>1, HostOrder, LaunchElsewhere DEF StartRpcSlaves
    <3> QED
      BY <1>15, <2>1, <3>1, HostOrder DEF StartRpcSlaves
  <2>2. CASE at \notin SlaveHosts
    BY <1>15, <2>2 DEF StartRpcSlaves
  <2> QED
    BY <2>1, <2>2
<1>16. CASE StartRpcMaster
  <2>1. Job' = <<unit, cell, connection, groupNum'>>
    BY <1>16 DEF StartRpcMaster, Job
  <2>2. CASE pc' = "master"
    <3>1. procs' = [procs EXCEPT ![Master] = @ \cup {Job}] /\ Job' = Job
      BY <1>16, <2>2 DEF StartRpcMaster, Job
    <3>2. procs'[Master] = {Job}
      BY <1>16, <3>1, HostOrder DEF StartRpcMaster
    <3> QED
      BY <1>16, <2>2, <3>1, <3>2, HostOrder DEF StartRpcMaster
  <2>3. CASE pc' # "master"
    BY <1>16, <2>3 DEF StartRpcMaster
  <2> QED
    BY <2>2, <2>3
<1>17. CASE MasterEnds
  BY <1>17, HostOrder DEF MasterEnds
<1>18. CASE UNCHANGED vars
  BY <1>18 DEF vars, Job
<1> QED
  BY <1>1, <1>2, <1>3, <1>4, <1>5, <1>6, <1>7, <1>8, <1>9, <1>10, <1>11,
     <1>12, <1>13, <1>14, <1>15, <1>16, <1>17, <1>18 DEF Next, Driver

\* A job's master is alone on its host, whatever the commands that kill and
\* start processes return.
THEOREM MasterIsAlone == Spec => []OneMaster
<1>1. MasterInv => OneMaster
  BY DEF MasterInv, OneMaster
<1> QED
  BY <1>1, MasterInit, MasterNext, PTL DEF Spec
-----------------------------------------------------------------------------
(***************************************************************************)
(* The numbers of one loop.  A loop variable is at one of the places of    *)
(* its loop, the last of them being the limit.                             *)
(***************************************************************************)
Places(l) == {l.base + i * l.step : i \in 0..l.length}

LEMMA Multiples ==
  ASSUME NEW i \in Nat, NEW j \in Nat, NEW s \in Nat
  PROVE  /\ i * s \in Nat /\ (i + 1) * s = i * s + s
         /\ i <= j => i * s <= j * s
         /\ i < j => i * s + s <= j * s
<1>1. \A d \in Nat : d * s \in Nat /\ (i + d) * s = i * s + d * s
  OBVIOUS
<1>2. ASSUME i <= j PROVE i * s <= j * s
  <2>1. j - i \in Nat /\ j = i + (j - i)
    BY <1>2
  <2> QED
    BY <1>1, <2>1
<1>3. ASSUME i < j PROVE i * s + s <= j * s
  <2>1. j - i - 1 \in Nat /\ j = i + ((j - i - 1) + 1)
    BY <1>3
  <2>2. (j - i - 1) * s \in Nat /\ ((j - i - 1) + 1) * s = (j - i - 1) * s + s
    BY <2>1
  <2>3. j * s = i * s + ((j - i - 1) + 1) * s
    BY <1>1, <2>1
  <2> QED
    BY <2>2, <2>3
<1> QED
  BY <1>1, <1>2, <1>3

\* A loop starts at a place, goes from place to place, runs its body at the
\* numbers it is meant to go through and at no other, and has been at all of
\* them when it ends.
LEMMA LoopPlaces ==
  ASSUME NEW l \in Loops
  PROVE  /\ Limit(l) \in Nat
         /\ l.base \in Places(l)
         /\ Rounds(l) \subseteq Nat /\ Places(l) \subseteq Nat
         /\ \A x \in Rounds(l) : l.base <= x /\ x + l.step \in Places(l)
         /\ \A n \in Places(l) : n < Limit(l) => n \in Rounds(l)
         /\ \A n \in Places(l), x \in Rounds(l) : n >= Limit(l) => x < n
         /\ \A n, x \in Rounds(l) : x < n + l.step <=> x <= n
<1> DEFINE b == l.base  s == l.step  m == l.length
<1>1. b \in Nat /\ s \in Nat /\ m \in Nat
  BY DEF Loops
<1> HIDE DEF b, s, m
<1>a. b = l.base /\ s = l.step /\ m = l.length
  BY DEF b, s, m
<1>2. m * s \in Nat /\ s * m = m * s
  BY <1>1
<1>3. Limit(l) = b + m * s
  BY <1>1, <1>2, <1>a DEF Limit
<1>4. \A i \in 0..m : i * s \in Nat /\ i * s <= m * s
  BY <1>1, Multiples
<1>5. \A n \in Places(l) : \E i \in 0..m : n = b + i * s
  BY <1>a DEF Places
<1>6. \A x \in Rounds(l) : s # 0 /\ \E i \in 0..m-1 : x = b + i * s
  BY <1>a DEF Rounds
<1>7. \A i \in 0..m : b + i * s \in Places(l)
  BY <1>a DEF Places
<1>8. \A i \in 0..m-1 : s # 0 => b + i * s \in Rounds(l)
  BY <1>a DEF Rounds
<1>9. b \in Places(l)
  <2>1. 0 \in 0..m /\ b + 0 * s = b
    BY <1>1
  <2> QED
    BY <1>7, <2>1
<1>10. Rounds(l) \subseteq Nat /\ Places(l) \subseteq Nat
  BY <1>1, <1>4, <1>5, <1>6
<1>11. ASSUME NEW x \in Rounds(l) PROVE b <= x /\ x + s \in Places(l)
  <2>1. PICK i \in 0..m-1 : x = b + i * s
    BY <1>6
  <2>2. i \in 0..m /\ i + 1 \in 0..m /\ i \in Nat
    BY <1>1, <2>1
  <2>3. i * s \in Nat /\ (i + 1) * s = i * s + s
    BY <1>1, <2>2, Multiples
  <2>4. b + (i + 1) * s \in Places(l)
    BY <1>7, <2>2
  <2>5. b + (i + 1) * s = x + s /\ b <= x
    BY <1>1, <2>1, <2>3
  <2> QED
    BY <2>4, <2>5
<1>12. ASSUME NEW n \in Places(l), n < Limit(l) PROVE n \in Rounds(l)
  <2>1. PICK i \in 0..m : n = b + i * s
    BY <1>5
  <2>2. i # m
    BY <1>1, <1>2, <1>3, <1>12, <2>1
  <2>3. s # 0
    <3>1. SUFFICES ASSUME s = 0 PROVE FALSE
      OBVIOUS
    <3>2. i * s = 0 /\ m * s = 0
      BY <1>1, <3>1
    <3> QED
      BY <1>1, <1>3, <1>12, <2>1, <3>2
  <2>4. i \in 0..m-1
    BY <1>1, <2>1, <2>2
  <2> QED
    BY <1>8, <2>1, <2>3, <2>4
<1>13. ASSUME NEW n \in Places(l), NEW x \in Rounds(l), n >= Limit(l)
       PROVE  x < n
  <2>1. PICK j \in 0..m-1 : x = b + j * s
    BY <1>6
  <2>2. j \in Nat /\ j < m
    BY <1>1, <2>1
  <2>3. j * s \in Nat /\ j * s + s <= m * s
    BY <1>1, <2>2, Multiples
  <2>4. s > 0 /\ n \in Nat
    BY <1>1, <1>6, <1>10
  <2> QED
    BY <1>1, <1>2, <1>3, <1>13, <2>1, <2>3, <2>4
<1>14. ASSUME NEW n \in Rounds(l), NEW x \in Rounds(l)
       PROVE  x < n + s <=> x <= n
  <2>1. PICK i \in 0..m-1 : n = b + i * s
    BY <1>6
  <2>2. PICK j \in 0..m-1 : x = b + j * s
    BY <1>6
  <2>3. i \in Nat /\ j \in Nat /\ s > 0
    BY <1>1, <1>6, <2>1, <2>2
  <2>4. i * s \in Nat /\ j * s \in Nat
    BY <1>1, <2>3, Multiples
  <2>5. CASE j <= i
    <3>1. j * s <= i * s
      BY <1>1, <2>3, <2>5, Multiples
    <3> QED
      BY <1>1, <2>1, <2>2, <2>3, <2>4, <3>1
  <2>6. CASE j > i
    <3>1. i * s + s <= j * s
      BY <1>1, <2>3, <2>6, Multiples
    <3> QED
      BY <1>1, <2>1, <2>2, <2>3, <2>4, <3>1
  <2> QED
    BY <2>3, <2>5, <2>6
<1> QED
  BY <1>1, <1>2, <1>3, <1>9, <1>10, <1>11, <1>12, <1>13, <1>14, <1>a

-----------------------------------------------------------------------------
(***************************************************************************)
(* The jobs of the matrix and the order they are run in.                   *)
(***************************************************************************)
ConnectionsOf(j) == ConnectionConfigs(ScenarioOf(j))[j[1]]
GroupNumsOf(j) == GroupNumConfigs(ScenarioOf(j))[j[1]]

\* A job of the matrix, by its four coordinates.
LEMMA PlannedJobs ==
  ASSUME plan \in Plans
  PROVE  /\ Len(plan.types) \in Nat /\ DOMAIN plan.types = 1..Len(plan.types)
         /\ Len(plan.cells) \in Nat /\ DOMAIN plan.cells = 1..Len(plan.cells)
         /\ \A j \in Planned :
              /\ j = <<j[1], j[2], j[3], j[4]>>
              /\ j[1] \in 1..Len(plan.types) /\ j[2] \in 1..Len(plan.cells)
              /\ j[3] \in Rounds(ConnectionsOf(j))
              /\ j[4] \in Rounds(GroupNumsOf(j))
<1>1. plan.types \in Seq(Nat) /\ plan.cells \in Seq([wire : STRING,
                       scenario : {"echo", "broadcast", "group", "mix"}])
  BY PlansAssumption DEF Plan
<1>2. ASSUME NEW j \in Planned
      PROVE  \E u \in DOMAIN plan.types, c \in DOMAIN plan.cells :
               \E n \in Rounds(ConnectionConfigs(plan.cells[c].scenario)[u]),
                  g \in Rounds(GroupNumConfigs(plan.cells[c].scenario)[u]) :
                 j = <<u, c, n, g>>
  BY <1>2 DEF Planned
<1> QED
  BY <1>1, <1>2 DEF ConnectionsOf, GroupNumsOf, ScenarioOf

\* Where the lists have an entry, it is one of a loop.
LEMMA Configs ==
  ASSUME plan \in Plans, NEW c \in 1..Len(plan.cells), NEW u,
         HasConfig(plan.cells[c].scenario, u)
  PROVE  /\ ConnectionConfigs(plan.cells[c].scenario)[u] \in Loops
         /\ GroupNumConfigs(plan.cells[c].scenario)[u] \in Loops
<1> DEFINE s == plan.cells[c].scenario
<1>1. plan \in Plan
  BY PlansAssumption
<1>2. s \in {"echo", "broadcast", "group", "mix"}
  <2>1. plan.cells \in Seq([wire : STRING,
                       scenario : {"echo", "broadcast", "group", "mix"}])
    BY <1>1 DEF Plan
  <2> DEFINE C == [wire : STRING,
                   scenario : {"echo", "broadcast", "group", "mix"}]
  <2>2. \A q \in Seq(C) : c \in 1..Len(q) => q[c] \in C
    <3> HIDE DEF C
    <3> QED
      OBVIOUS
  <2> QED
    BY <2>1, <2>2
<1>3. plan.mix \in Nat /\ plan.groups \in Seq(Loops)
  BY <1>1 DEF Plan
<1>4. s # "mix" => plan.connections[s] \in Seq(Loops)
  BY <1>1, <1>2 DEF Plan
<1>5. u \in DOMAIN ConnectionConfigs(s) /\ u \in DOMAIN GroupNumConfigs(s)
  BY DEF HasConfig
<1> HIDE DEF s
<1>6. ConnectionConfigs(s)[u] \in Loops
  <2>1. CASE s = "mix"
    <3>1. [base |-> plan.mix, step |-> 1, length |-> 1] \in Loops
      BY <1>3 DEF Loops
    <3> QED
      BY <1>5, <2>1, <3>1 DEF ConnectionConfigs
  <2>2. CASE s # "mix"
    <3>1. ConnectionConfigs(s) \in Seq(Loops)
      BY <1>4, <2>2 DEF ConnectionConfigs
    <3> QED
      BY <1>5, <3>1
  <2> QED
    BY <2>1, <2>2
<1>7. GroupNumConfigs(s)[u] \in Loops
  <2>1. CASE s = "group"
    BY <1>3, <1>5, <2>1 DEF GroupNumConfigs
  <2>2. CASE s # "group"
    <3>1. [base |-> 0, step |-> 1, length |-> 1] \in Loops
      BY DEF Loops
    <3> QED
      BY <1>5, <2>2, <3>1 DEF GroupNumConfigs
  <2> QED
    BY <2>1, <2>2
<1> QED
  BY <1>6, <1>7 DEF s

\* The numbers of the jobs of a cell are those of its loops, where the lists
\* have an entry.
LEMMA CellLoops ==
  ASSUME plan \in Plans, NEW c \in 1..Len(plan.cells), NEW u,
         HasConfig(plan.cells[c].scenario, u)
  PROVE  \A j \in Planned : j[1] = u /\ j[2] = c =>
           /\ j[3] \in Rounds(ConnectionConfigs(plan.cells[c].scenario)[u])
           /\ j[4] \in Rounds(GroupNumConfigs(plan.cells[c].scenario)[u])
  BY PlannedJobs DEF ConnectionsOf, GroupNumsOf, ScenarioOf

LEMMA JobLoops ==
  ASSUME plan \in Plans, cell \in 1..Len(plan.cells), HasConfig(Scenario, unit)
  PROVE  /\ ConnectionLoop \in Loops /\ GroupNumLoop \in Loops
         /\ \A j \in Planned : j[1] = unit /\ j[2] = cell =>
              j[3] \in Rounds(ConnectionLoop) /\ j[4] \in Rounds(GroupNumLoop)
  BY Configs, CellLoops DEF ConnectionLoop, GroupNumLoop, Scenario

\* The job that the loops have reached is one of the matrix.
LEMMA JobPlanned ==
  ASSUME plan \in Plans, unit \in 1..Len(plan.types),
         cell \in 1..Len(plan.cells), connection \in Rounds(ConnectionLoop),
         groupNum \in Rounds(GroupNumLoop)
  PROVE  Job \in Planned
<1> DEFINE Jobs(u, c) ==
       {<<u, c, n, g>> :
          n \in Rounds(ConnectionConfigs(plan.cells[c].scenario)[u]),
          g \in Rounds(GroupNumConfigs(plan.cells[c].scenario)[u])}
<1>1. Job \in Jobs(unit, cell)
  BY DEF Job, ConnectionLoop, GroupNumLoop, Scenario
<1>2. unit \in DOMAIN plan.types /\ cell \in DOMAIN plan.cells
  BY PlannedJobs
<1> HIDE DEF Jobs
<1>3. Job \in UNION {Jobs(u, c) : u \in DOMAIN plan.types,
                                c \in DOMAIN plan.cells}
  BY <1>1, <1>2
<1> QED
  BY <1>3 DEF Jobs, Planned

-----------------------------------------------------------------------------
\* The cells of the matrix that are done with before the current one.
CellBefore(j) == j[1] < unit \/ (j[1] = unit /\ j[2] < cell)
InCell(j) == j[1] = unit /\ j[2] = cell

BodyPoint == pc \in {"server", "slaves", "start", "master"}
               \/ (pc = "kill" /\ ran # {})

(***************************************************************************)
(* The jobs run are those of the matrix that come before the place the     *)
(* loops have reached, in the order of the loops.                          *)
(***************************************************************************)
OrderInv ==
  /\ plan \in Plans
  /\ unit \in 0..Len(plan.types) /\ cell \in 0..Len(plan.cells)
  /\ ran \subseteq Planned
  /\ Before /\ ended = "no" => ran = {} /\ unit = 0
  /\ pc \in {"create", "undo"} =>
       /\ unit > 0 /\ cell = 0
       /\ \A j \in Planned : j \in ran <=> j[1] < unit
  /\ pc = "type" => \A j \in Planned : j \in ran <=> j[1] <= unit
  /\ ended = "done" => pc = "type" /\ unit = Len(plan.types)
  /\ pc \in {"cell", "typeEnd"} =>
       /\ unit > 0
       /\ pc = "typeEnd" => cell = Len(plan.cells)
       /\ \A j \in Planned : j \in ran <=> CellBefore(j) \/ InCell(j)
  /\ pc = "connection" \/ pc = "groupNum" \/ BodyPoint =>
       /\ unit > 0 /\ cell > 0 /\ HasConfig(Scenario, unit)
  /\ pc = "connection" =>
       /\ connection \in Places(ConnectionLoop)
       /\ \A j \in Planned :
            j \in ran <=> CellBefore(j) \/ (InCell(j) /\ j[3] < connection)
  /\ pc = "groupNum" \/ BodyPoint => connection \in Rounds(ConnectionLoop)
  /\ pc = "groupNum" =>
       /\ groupNum \in Places(GroupNumLoop)
       /\ \A j \in Planned :
            j \in ran <=>
              \/ CellBefore(j)
              \/ InCell(j) /\ j[3] < connection
              \/ InCell(j) /\ j[3] = connection /\ j[4] < groupNum
  /\ BodyPoint =>
       /\ groupNum \in Rounds(GroupNumLoop)
       /\ \A j \in Planned :
            j \in ran <=>
              \/ CellBefore(j)
              \/ InCell(j) /\ j[3] < connection
              \/ InCell(j) /\ j[3] = connection /\ j[4] <= groupNum

LEMMA OrderInit == Init => OrderInv
  BY PlannedJobs DEF Init, OrderInv, Before, BodyPoint

\* What the matrix is depends on the plan alone.
LEMMA PlanFixed ==
  ASSUME UNCHANGED plan
  PROVE  /\ Planned' = Planned
         /\ UNCHANGED <<unit, cell>> =>
              /\ Scenario' = Scenario
              /\ HasConfig(Scenario, unit)' = HasConfig(Scenario, unit)
              /\ ConnectionLoop' = ConnectionLoop
              /\ GroupNumLoop' = GroupNumLoop
  BY DEF Planned, ConnectionLoop, GroupNumLoop, ConnectionConfigs,
         GroupNumConfigs, HasConfig, Scenario

\* A step that leaves the loops and the jobs alone and stays within a
\* statement of RunJob, or before the loops, keeps the order.
LEMMA OrderStutter ==
  ASSUME OrderInv, UNCHANGED <<plan, unit, cell, connection, groupNum, ran>>,
         \/ pc' = pc /\ ended' = ended
         \/ pc' = pc /\ ended' \in {"exit", "died"}
         \/ Before /\ Before' /\ ended' = ended
         \/ BodyPoint /\ BodyPoint' /\ ended' = ended
         \/ pc \in {"create", "undo"} /\ pc' \in {"create", "undo", "cell"}
              /\ ended' = ended
  PROVE  OrderInv'
<1>1. plan \in Plans /\ plan' \in Plans
  BY DEF OrderInv
<1>2. \A j \in Planned : j[1] \in Nat /\ j[2] \in Nat /\ j[2] > 0
  BY <1>1, PlannedJobs
<1>3. Planned' = Planned
  BY PlanFixed
<1>4. unit \in Nat /\ cell \in Nat
  BY <1>1, PlannedJobs DEF OrderInv
<1> QED
  BY <1>1, <1>2, <1>3, <1>4, PlanFixed
     DEF OrderInv, Before, BodyPoint, CellBefore, InCell

LEMMA OrderNext == OrderInv /\ [Next]_vars => OrderInv'
<1> SUFFICES ASSUME OrderInv, [Next]_vars PROVE OrderInv'
  OBVIOUS
<1>a. plan \in Plans
  BY DEF OrderInv
<1>b. /\ Len(plan.types) \in Nat /\ Len(plan.cells) \in Nat
      /\ unit \in 0..Len(plan.types) /\ cell \in 0..Len(plan.cells)
      /\ \A j \in Planned :
           j[1] \in 1..Len(plan.types) /\ j[2] \in 1..Len(plan.cells)
  BY <1>a, PlannedJobs DEF OrderInv
<1>c. pc = "connection" \/ pc = "groupNum" \/ BodyPoint =>
        /\ unit \in 1..Len(plan.types) /\ cell \in 1..Len(plan.cells)
        /\ HasConfig(Scenario, unit)
        /\ ConnectionLoop \in Loops /\ GroupNumLoop \in Loops
        /\ \A j \in Planned : InCell(j) =>
             j[3] \in Rounds(ConnectionLoop) /\ j[4] \in Rounds(GroupNumLoop)
  BY <1>a, <1>b, JobLoops DEF OrderInv, InCell
<1>1. ASSUME NEW g \in DOMAIN vm, CreateVms(g) PROVE OrderInv'
  BY <1>1, OrderStutter DEF CreateVms
<1>2. CASE VmsReady
  <2>1. Before /\ Before'
    BY <1>2 DEF VmsReady, OrderInv, Before
  <2> QED
    BY <1>2, <2>1, OrderStutter DEF VmsReady
<1>3. CASE VmsRetry
  BY <1>3, OrderStutter DEF VmsRetry
<1>4. CASE Kill
  BY <1>4, OrderStutter DEF Kill
<1>5. CASE KillEnd
  <2>1. CASE err
    BY <1>5, <2>1, OrderStutter DEF KillEnd
  <2>2. CASE ran = {}
    BY <1>5, <2>2, OrderStutter DEF KillEnd, Before
  <2>3. CASE ~err /\ ran # {}
    BY <1>5, <2>3, OrderStutter DEF KillEnd, BodyPoint
  <2> QED
    BY <2>1, <2>2, <2>3
<1>6. CASE GitCloneRepo
  <2>1. CASE ended' = "exit"
    BY <1>6, <2>1, OrderStutter DEF GitCloneRepo
  <2>2. CASE pc' = "type" /\ ended' = ended
    <3>1. ran = {} /\ unit = 0
      BY <1>6 DEF GitCloneRepo, OrderInv, Before
    <3>2. UNCHANGED <<plan, unit, cell, ran>>
      BY <1>6 DEF GitCloneRepo
    <3> QED
      BY <1>6, <1>a, <1>b, <2>2, <3>1, <3>2, PlanFixed
         DEF OrderInv, Before, BodyPoint, GitCloneRepo
  <2> QED
    BY <1>6, <2>1, <2>2 DEF GitCloneRepo
<1>7. CASE CreateSignalrService
  BY <1>7, OrderStutter DEF CreateSignalrService
<1>8. CASE UndoService
  BY <1>8, OrderStutter DEF UndoService, DeleteSignalr
<1>9. CASE TypeEnd
  <2>1. CASE pc' = pc
    BY <1>9, <2>1, OrderStutter DEF TypeEnd, DeleteSignalr
  <2>2. CASE pc' = "type" /\ ended' = ended
    <3>1. UNCHANGED <<plan, unit, cell, ran>> /\ pc = "typeEnd"
      BY <1>9 DEF TypeEnd
    <3>2. \A j \in Planned : j \in ran <=> j[1] <= unit
      BY <1>b, <3>1 DEF OrderInv, CellBefore, InCell
    <3> QED
      BY <1>9, <1>a, <1>b, <2>2, <3>1, <3>2, PlanFixed
         DEF OrderInv, Before, BodyPoint, TypeEnd
  <2> QED
    BY <1>9, <2>1, <2>2 DEF TypeEnd, DeleteSignalr
<1>10. CASE NextType
  <2>1. UNCHANGED <<plan, ran>> /\ pc = "type" /\ Planned' = Planned
    BY <1>10, PlanFixed DEF NextType
  <2>2. CASE ended' = "done"
    BY <1>10, <1>a, <1>b, <2>1, <2>2, PlanFixed
       DEF NextType, OrderInv, Before, BodyPoint
  <2>3. CASE ended' = "died"
    BY <1>10, <2>1, <2>3, OrderStutter DEF NextType
  <2>4. CASE /\ unit < Len(plan.types) /\ unit' = unit + 1 /\ cell' = 0
             /\ pc' \in {"create", "cell"} /\ ended' = ended /\ ended = "no"
    <3>1. \A j \in Planned : j \in ran <=> j[1] < unit'
      BY <1>b, <2>1, <2>4 DEF OrderInv
    <3>2. \A j \in Planned : j \in ran <=> CellBefore(j)' \/ InCell(j)'
      BY <1>b, <2>4, <3>1 DEF CellBefore, InCell
    <3>3. unit' \in 0..Len(plan.types) /\ unit' > 0
      BY <1>b, <2>4
    <3> QED
      BY <1>a, <1>b, <2>1, <2>4, <3>1, <3>2, <3>3
         DEF OrderInv, Before, BodyPoint
  <2> QED
    BY <1>10, <2>2, <2>3, <2>4 DEF NextType
<1>11. CASE NextCell
  <2>1. UNCHANGED <<plan, unit, ran>> /\ pc = "cell" /\ Planned' = Planned
    BY <1>11, PlanFixed DEF NextCell
  <2>2. CASE cell = Len(plan.cells) /\ pc' = "typeEnd" /\ cell' = cell
             /\ ended' = ended /\ ended = "no"
    BY <1>a, <1>b, <2>1, <2>2
       DEF OrderInv, Before, BodyPoint, CellBefore, InCell
  <2>3. CASE ended' = "died"
    BY <1>11, <2>1, <2>3, OrderStutter DEF NextCell
  <2>4. CASE /\ cell < Len(plan.cells) /\ cell' = cell + 1
             /\ HasConfig(plan.cells[cell + 1].scenario, unit)
             /\ connection' =
                  ConnectionConfigs(plan.cells[cell + 1].scenario)[unit].base
             /\ pc' = "connection" /\ ended' = ended /\ ended = "no"
    <3>1. cell' \in 1..Len(plan.cells) /\ plan' \in Plans
      BY <1>a, <1>b, <2>1, <2>4
    <3> DEFINE L == ConnectionConfigs(plan.cells[cell + 1].scenario)[unit]
    <3>2. HasConfig(Scenario, unit)' /\ ConnectionLoop' = L
      BY <2>1, <2>4
         DEF Scenario, HasConfig, ConnectionLoop, ConnectionConfigs,
             GroupNumConfigs
    <3>3. /\ L \in Loops /\ connection' = L.base
          /\ \A j \in Planned : InCell(j)' => j[3] \in Rounds(L)
      BY <1>a, <2>1, <2>4, <3>1, Configs, CellLoops DEF InCell
    <3> HIDE DEF L
    <3>4. connection' \in Places(L)
      BY <3>3, LoopPlaces
    <3>5. \A j \in Planned : InCell(j)' => ~(j[3] < connection')
      BY <3>3, <3>4, LoopPlaces DEF Loops
    <3>6. \A j \in Planned : CellBefore(j)' <=> CellBefore(j) \/ InCell(j)
      BY <1>b, <2>1, <2>4 DEF CellBefore, InCell
    <3>7. Places(ConnectionLoop)' = Places(L)
      BY <3>2 DEF Places
    <3> QED
      BY <1>a, <1>b, <2>1, <2>4, <3>1, <3>2, <3>4, <3>5, <3>6, <3>7
         DEF OrderInv, Before, BodyPoint
  <2> QED
    BY <1>11, <2>2, <2>3, <2>4 DEF NextCell
<1>12. CASE NextConnection
  <2>1. /\ UNCHANGED <<plan, unit, cell, connection, ran>> /\ Planned' = Planned
        /\ ConnectionLoop' = ConnectionLoop /\ GroupNumLoop' = GroupNumLoop
        /\ HasConfig(Scenario, unit)' /\ pc = "connection"
        /\ ended' = ended /\ ended = "no"
    BY <1>12, <1>c, PlanFixed DEF NextConnection
  <2>2. /\ connection \in Places(ConnectionLoop)
        /\ \A j \in Planned :
             j \in ran <=> CellBefore(j) \/ (InCell(j) /\ j[3] < connection)
    BY <2>1 DEF OrderInv
  <2>3. \A j \in Planned : (CellBefore(j)' <=> CellBefore(j))
                           /\ (InCell(j)' <=> InCell(j))
    BY <2>1 DEF CellBefore, InCell
  <2>4. CASE /\ connection < Limit(ConnectionLoop)
             /\ groupNum' = GroupNumLoop.base /\ pc' = "groupNum"
    <3>1. connection \in Rounds(ConnectionLoop)
      BY <1>c, <2>1, <2>2, <2>4, LoopPlaces
    <3>2. groupNum' \in Places(GroupNumLoop)
      BY <1>c, <2>1, <2>4, LoopPlaces
    <3>3. \A j \in Planned : InCell(j) => ~(j[4] < groupNum')
      BY <1>c, <2>1, <2>4, LoopPlaces DEF Loops
    <3>4. /\ Places(GroupNumLoop)' = Places(GroupNumLoop)
          /\ Rounds(ConnectionLoop)' = Rounds(ConnectionLoop)
      BY <2>1 DEF Places, Rounds
    <3> QED
      BY <1>a, <1>b, <1>c, <2>1, <2>2, <2>3, <2>4, <3>1, <3>2, <3>3, <3>4
         DEF OrderInv, Before, BodyPoint
  <2>5. CASE connection >= Limit(ConnectionLoop) /\ pc' = "cell"
    <3>1. \A j \in Planned : InCell(j) => j[3] < connection
      BY <1>c, <2>1, <2>2, <2>5, LoopPlaces
    <3> QED
      BY <1>a, <1>b, <1>c, <2>1, <2>2, <2>3, <2>5, <3>1
         DEF OrderInv, Before, BodyPoint
  <2> QED
    BY <1>12, <2>4, <2>5 DEF NextConnection
<1>13. CASE NextGroupNum
  <2>1. /\ UNCHANGED <<plan, unit, cell, groupNum>> /\ Planned' = Planned
        /\ ConnectionLoop' = ConnectionLoop /\ GroupNumLoop' = GroupNumLoop
        /\ HasConfig(Scenario, unit)' /\ pc = "groupNum"
        /\ ended' = ended /\ ended = "no"
    BY <1>13, <1>c, PlanFixed DEF NextGroupNum
  <2>2. /\ connection \in Rounds(ConnectionLoop)
        /\ groupNum \in Places(GroupNumLoop)
        /\ \A j \in Planned :
             j \in ran <=>
               \/ CellBefore(j)
               \/ InCell(j) /\ j[3] < connection
               \/ InCell(j) /\ j[3] = connection /\ j[4] < groupNum
    BY <2>1 DEF OrderInv
  <2>3. \A j \in Planned : (CellBefore(j)' <=> CellBefore(j))
                           /\ (InCell(j)' <=> InCell(j))
    BY <2>1 DEF CellBefore, InCell
  <2>4. CASE /\ groupNum < Limit(GroupNumLoop) /\ ran' = ran \cup {Job}
             /\ pc' = "kill" /\ connection' = connection
    <3>1. groupNum \in Rounds(GroupNumLoop)
      BY <1>c, <2>1, <2>2, <2>4, LoopPlaces
    <3>2. Job \in Planned
      BY <1>a, <1>c, <2>1, <2>2, <3>1, JobPlanned
    <3>3. \A j \in Planned :
            j = Job <=> InCell(j) /\ j[3] = connection /\ j[4] = groupNum
      BY <1>a, PlannedJobs DEF Job, InCell
    <3>4. \A j \in Planned : InCell(j) => j[4] \in Nat
      BY <1>c, <2>1, LoopPlaces
    <3>5. groupNum \in Nat
      BY <1>c, <2>1, <2>2, LoopPlaces
    <3>6. Rounds(GroupNumLoop)' = Rounds(GroupNumLoop)
          /\ Rounds(ConnectionLoop)' = Rounds(ConnectionLoop)
      BY <2>1 DEF Rounds
    <3>7. \A j \in Planned :
            j \in ran' <=>
              \/ CellBefore(j)
              \/ InCell(j) /\ j[3] < connection
              \/ InCell(j) /\ j[3] = connection /\ j[4] <= groupNum
      BY <2>2, <2>4, <3>3, <3>4, <3>5
    <3>8. ran' \subseteq Planned /\ ran' # {}
      BY <2>4, <3>2 DEF OrderInv
    <3> QED
      BY <1>a, <1>b, <1>c, <2>1, <2>2, <2>3, <2>4, <3>1, <3>6, <3>7, <3>8
         DEF OrderInv, Before, BodyPoint
  <2>5. CASE /\ groupNum >= Limit(GroupNumLoop) /\ ran' = ran
             /\ pc' = "connection"
             /\ connection' = connection + ConnectionLoop.step
    <3>1. \A j \in Planned : InCell(j) => j[4] < groupNum
      BY <1>c, <2>1, <2>2, <2>5, LoopPlaces
    <3>2. connection' \in Places(ConnectionLoop)
      BY <1>c, <2>1, <2>2, <2>5, LoopPlaces
    <3>3. \A j \in Planned :
            InCell(j) => (j[3] < connection' <=> j[3] <= connection)
      BY <1>c, <2>1, <2>2, <2>5, LoopPlaces
    <3>4. \A j \in Planned : InCell(j) => j[3] \in Nat
      BY <1>c, <2>1, LoopPlaces
    <3>5. connection \in Nat
      BY <1>c, <2>1, <2>2, LoopPlaces
    <3>6. \A j \in Planned :
            j \in ran <=> CellBefore(j) \/ (InCell(j) /\ j[3] < connection')
      BY <2>2, <3>1, <3>3, <3>4, <3>5
    <3>7. Places(ConnectionLoop)' = Places(ConnectionLoop)
      BY <2>1 DEF Places
    <3> QED
      BY <1>a, <1>b, <1>c, <2>1, <2>3, <2>5, <3>2, <3>6, <3>7
         DEF OrderInv, Before, BodyPoint
  <2> QED
    BY <1>13, <2>4, <2>5 DEF NextGroupNum
<1>14. CASE StartAppServer
  BY <1>14, OrderStutter DEF StartAppServer, BodyPoint
<1>15. CASE StartRpcSlaves
  <2>1. BodyPoint /\ BodyPoint'
    BY <1>15 DEF StartRpcSlaves, BodyPoint
  <2> QED
    BY <1>15, <2>1, OrderStutter DEF StartRpcSlaves
\* The job is over, or its master could not be started.
<1>e. ASSUME BodyPoint, UNCHANGED <<plan, unit, cell, connection, ran>>,
             pc' = "groupNum", groupNum' = groupNum + GroupNumLoop.step,
             ended' = ended
      PROVE  OrderInv'
  <2>1. /\ Planned' = Planned
        /\ ConnectionLoop' = ConnectionLoop /\ GroupNumLoop' = GroupNumLoop
        /\ HasConfig(Scenario, unit)'
    BY <1>e, <1>c, PlanFixed
  <2>2. /\ connection \in Rounds(ConnectionLoop)
        /\ groupNum \in Rounds(GroupNumLoop)
        /\ \A j \in Planned :
             j \in ran <=>
               \/ CellBefore(j)
               \/ InCell(j) /\ j[3] < connection
               \/ InCell(j) /\ j[3] = connection /\ j[4] <= groupNum
    BY <1>e DEF OrderInv
  <2>3. \A j \in Planned : (CellBefore(j)' <=> CellBefore(j))
                           /\ (InCell(j)' <=> InCell(j))
    BY <1>e DEF CellBefore, InCell
  <2>4. groupNum' \in Places(GroupNumLoop)
    BY <1>c, <1>e, <2>2, LoopPlaces
  <2>5. \A j \in Planned : InCell(j) => (j[4] < groupNum' <=> j[4] <= groupNum)
    BY <1>c, <1>e, <2>2, LoopPlaces
  <2>6. /\ Places(GroupNumLoop)' = Places(GroupNumLoop)
        /\ Rounds(ConnectionLoop)' = Rounds(ConnectionLoop)
    BY <2>1 DEF Places, Rounds
  <2> QED
    BY <1>a, <1>b, <1>c, <1>e, <2>1, <2>2, <2>3, <2>4, <2>5, <2>6
       DEF OrderInv, Before, BodyPoint
<1>16. CASE StartRpcMaster
  <2>1. CASE pc' = "master"
    BY <1>16, <2>1, OrderStutter DEF StartRpcMaster, BodyPoint
  <2>2. CASE pc' = "groupNum"
    BY <1>16, <1>e, <2>2 DEF StartRpcMaster, BodyPoint
  <2> QED
    BY <1>16, <2>1, <2>2 DEF StartRpcMaster
<1>17. CASE MasterEnds
  BY <1>17, <1>e DEF MasterEnds, BodyPoint
<1>18. CASE UNCHANGED vars
  BY <1>18, OrderStutter DEF vars
<1> QED
  BY <1>1, <1>2, <1>3, <1>4, <1>5, <1>6, <1>7, <1>8, <1>9, <1>10, <1>11,
     <1>12, <1>13, <1>14, <1>15, <1>16, <1>17, <1>18 DEF Next, Driver

LEMMA OrderInvariance == Spec => []OrderInv
  BY OrderInit, OrderNext, PTL DEF Spec

\* No job is run twice, and a run of the driver that comes to its end has run
\* all of its matrix and nothing else.
THEOREM MatrixIsRun == Spec => []EachJobOnce
<1>1. ASSUME OrderInv PROVE EachJobOnce
  <2>1. ASSUME Running("groupNum"), groupNum < Limit(GroupNumLoop)
        PROVE  Job \notin ran
    <3>1. /\ unit \in 1..Len(plan.types) /\ cell \in 1..Len(plan.cells)
          /\ plan \in Plans /\ HasConfig(Scenario, unit)
      BY <1>1, <2>1, PlannedJobs DEF OrderInv
    <3>2. GroupNumLoop \in Loops /\ ConnectionLoop \in Loops
      BY <3>1, JobLoops
    <3>3. /\ connection \in Rounds(ConnectionLoop)
          /\ groupNum \in Rounds(GroupNumLoop)
      BY <1>1, <2>1, <3>2, LoopPlaces DEF OrderInv
    <3>4. Job \in Planned
      BY <3>1, <3>3, JobPlanned
    <3>5. connection \in Nat /\ groupNum \in Nat /\ unit \in Nat /\ cell \in Nat
      BY <3>1, <3>2, <3>3, LoopPlaces
    <3>6. Job[1] = unit /\ Job[2] = cell /\ Job[3] = connection /\ Job[4] = groupNum
      BY DEF Job
    <3> QED
      BY <1>1, <2>1, <3>4, <3>5, <3>6 DEF OrderInv, CellBefore, InCell
  <2>2. ASSUME ended = "done" PROVE ran = Planned
    <3>1. \A j \in Planned : j[1] <= unit
      BY <1>1, <2>2, PlannedJobs DEF OrderInv
    <3> QED
      BY <1>1, <2>2, <3>1 DEF OrderInv
  <2> QED
    BY <2>1, <2>2 DEF EachJobOnce
<1> QED
  BY <1>1, OrderInvariance, PTL

-----------------------------------------------------------------------------
(***************************************************************************)
(* The results stay: the job under way has not written one yet, and no     *)
(* other job has its directory.                                            *)
(***************************************************************************)
ResultInv ==
  /\ wrote \subseteq ran
  /\ BodyPoint => Job \notin wrote
  /\ ResultsKept

LEMMA ResultInit == Init => ResultInv
  BY DEF Init, ResultInv, ResultsKept

\* The directory tells the jobs apart, but for the mixed scenario.
LEMMA DirsDiffer ==
  ASSUME plan \in Plans, Job \in Planned, NEW j \in Planned, j # Job,
         ScenarioOf(j) # "mix", NamedOnce(j)
  PROVE  OutputDir(j) # OutputDir(Job)
<1>1. /\ Job[1] \in DOMAIN plan.types /\ Job[2] \in DOMAIN plan.cells
      /\ Job = <<Job[1], Job[2], Job[3], Job[4]>>
      /\ j = <<j[1], j[2], j[3], j[4]>>
  BY PlannedJobs
<1>2. OutputDir(j) = <<plan.types[j[1]], plan.cells[j[2]], j[3], j[4]>>
  BY DEF OutputDir
<1>3. CASE ScenarioOf(Job) = "mix"
  <2>1. OutputDir(Job) = <<>>
    BY <1>3 DEF OutputDir
  <2> QED
    BY <1>2, <2>1
<1>4. CASE ScenarioOf(Job) # "mix"
  <2>1. OutputDir(Job) =
          <<plan.types[Job[1]], plan.cells[Job[2]], Job[3], Job[4]>>
    BY <1>4 DEF OutputDir
  <2>2. SUFFICES ASSUME OutputDir(j) = OutputDir(Job) PROVE FALSE
    OBVIOUS
  <2>3. /\ plan.types[j[1]] = plan.types[Job[1]]
        /\ plan.cells[j[2]] = plan.cells[Job[2]]
        /\ j[3] = Job[3] /\ j[4] = Job[4]
    BY <1>2, <2>1, <2>2
  <2>4. j[1] = Job[1] /\ j[2] = Job[2]
    BY <1>1, <2>3 DEF NamedOnce
  <2> QED
    BY <1>1, <2>3, <2>4
<1> QED
  BY <1>3, <1>4

\* While a job is under way it is one of the matrix.
LEMMA BodyJob ==
  ASSUME OrderInv, BodyPoint
  PROVE  Job \in Planned
<1>1. /\ plan \in Plans /\ unit \in 1..Len(plan.types)
      /\ cell \in 1..Len(plan.cells)
      /\ connection \in Rounds(ConnectionLoop)
      /\ groupNum \in Rounds(GroupNumLoop)
  BY PlannedJobs DEF OrderInv
<1> QED
  BY <1>1, JobPlanned

\* What a job's directory is depends on the plan alone.
LEMMA DirFixed ==
  ASSUME UNCHANGED plan, NEW j
  PROVE  /\ OutputDir(j)' = OutputDir(j) /\ ScenarioOf(j)' = ScenarioOf(j)
         /\ NamedOnce(j)' = NamedOnce(j)
  BY DEF OutputDir, ScenarioOf, NamedOnce

\* Steps that write no result and take none away.
LEMMA ResultStutter ==
  ASSUME ResultInv, UNCHANGED <<plan, files, wrote>>, ran \subseteq ran',
         BodyPoint' => BodyPoint /\ Job' = Job
  PROVE  ResultInv'
<1>1. ResultsKept'
  BY DirFixed DEF ResultInv, ResultsKept
<1> QED
  BY <1>1 DEF ResultInv

LEMMA ResultNext == OrderInv /\ EachJobOnce /\ ResultInv /\ [Next]_vars => ResultInv'
<1> SUFFICES ASSUME OrderInv, EachJobOnce, ResultInv, [Next]_vars
             PROVE  ResultInv'
  OBVIOUS
<1>1. ASSUME NEW g \in DOMAIN vm, CreateVms(g) PROVE ResultInv'
  BY <1>1, ResultStutter DEF CreateVms, BodyPoint, Job
<1>2. CASE VmsReady
  <2>1. ~BodyPoint'
    BY <1>2 DEF VmsReady, OrderInv, Before, BodyPoint
  <2> QED
    BY <1>2, <2>1, ResultStutter DEF VmsReady
<1>3. CASE VmsRetry
  BY <1>3, ResultStutter DEF VmsRetry, BodyPoint, Job
<1>4. CASE Kill
  BY <1>4, ResultStutter DEF Kill, BodyPoint, Job
<1>5. CASE KillEnd
  BY <1>5, ResultStutter DEF KillEnd, BodyPoint, Job
<1>6. CASE GitCloneRepo
  BY <1>6, ResultStutter DEF GitCloneRepo, BodyPoint, Job
<1>7. CASE CreateSignalrService
  BY <1>7, ResultStutter DEF CreateSignalrService, BodyPoint, Job
<1>8. CASE UndoService
  BY <1>8, ResultStutter DEF UndoService, DeleteSignalr, BodyPoint, Job
<1>9. CASE TypeEnd
  BY <1>9, ResultStutter DEF TypeEnd, DeleteSignalr, BodyPoint, Job
<1>10. CASE NextType
  BY <1>10, ResultStutter DEF NextType, BodyPoint, Job
<1>11. CASE NextCell
  BY <1>11, ResultStutter DEF NextCell, BodyPoint, Job
<1>12. CASE NextConnection
  BY <1>12, ResultStutter DEF NextConnection, BodyPoint, Job
<1>13. CASE NextGroupNum
  <2>1. CASE pc' = "connection"
    BY <1>13, <2>1, ResultStutter DEF NextGroupNum, BodyPoint
  <2>2. CASE groupNum < Limit(GroupNumLoop) /\ connection' = connection
             /\ ran' = ran \cup {Job}
    <3>1. Job' = Job /\ Job \notin wrote
      BY <1>13, <2>2 DEF NextGroupNum, EachJobOnce, ResultInv, Job
    <3>2. ResultsKept'
      BY <1>13, DirFixed DEF NextGroupNum, ResultInv, ResultsKept
    <3> QED
      BY <1>13, <2>2, <3>1, <3>2 DEF NextGroupNum, ResultInv
  <2> QED
    BY <1>13, <2>1, <2>2 DEF NextGroupNum
<1>14. CASE StartAppServer
  BY <1>14, ResultStutter DEF StartAppServer, BodyPoint, Job
<1>15. CASE StartRpcSlaves
  BY <1>15, ResultStutter DEF StartRpcSlaves, BodyPoint, Job
<1>16. CASE StartRpcMaster
  <2>1. CASE pc' = "groupNum"
    BY <1>16, <2>1, ResultStutter DEF StartRpcMaster, BodyPoint
  <2>2. CASE /\ pc' = "master" /\ groupNum' = groupNum
             /\ files' = {f \in files : f.dir # OutputDir(Job)}
    <3>1. Job \in Planned /\ Job \notin wrote /\ Job' = Job
      BY <1>16, <2>2, BodyJob DEF StartRpcMaster, BodyPoint, ResultInv, Job
    <3>2. UNCHANGED <<plan, wrote, ran>> /\ plan \in Plans /\ wrote \subseteq Planned
      BY <1>16 DEF StartRpcMaster, OrderInv, ResultInv
    <3>3. ASSUME NEW j \in wrote, ScenarioOf(j) # "mix", NamedOnce(j)
          PROVE  [dir |-> OutputDir(j), job |-> j] \in files'
      <4>1. [dir |-> OutputDir(j), job |-> j] \in files
        BY <3>3 DEF ResultInv, ResultsKept
      <4>2. OutputDir(j) # OutputDir(Job)
        BY <3>1, <3>2, <3>3, DirsDiffer
      <4> QED
        BY <2>2, <4>1, <4>2
    <3>4. ResultsKept'
      BY <3>2, <3>3, DirFixed DEF ResultsKept
    <3> QED
      BY <3>1, <3>2, <3>4 DEF ResultInv
  <2> QED
    BY <1>16, <2>1, <2>2 DEF StartRpcMaster
<1>17. CASE MasterEnds
  <2>1. UNCHANGED <<plan, ran>> /\ ~BodyPoint' /\ BodyPoint
    BY <1>17 DEF MasterEnds, BodyPoint
  <2>2. CASE UNCHANGED <<files, wrote>>
    BY <2>1, <2>2, ResultStutter
  <2>3. CASE /\ files' = files \cup {[dir |-> OutputDir(Job), job |-> Job]}
             /\ wrote' = wrote \cup {Job}
    <3>1. Job \in ran
      <4>1. Job \in Planned
        BY <2>1, BodyJob
      <4>2. \A j \in Planned :
              j[1] = unit /\ j[2] = cell /\ j[3] = connection /\ j[4] = groupNum
              /\ groupNum <= groupNum => j \in ran
        BY <2>1 DEF OrderInv, InCell
      <4>3. groupNum <= groupNum
        <5>1. /\ plan \in Plans /\ cell \in 1..Len(plan.cells)
              /\ HasConfig(Scenario, unit) /\ groupNum \in Rounds(GroupNumLoop)
          BY <2>1, PlannedJobs DEF OrderInv
        <5>2. groupNum \in Nat
          BY <5>1, JobLoops, LoopPlaces
        <5> QED
          BY <5>2
      <4> QED
        BY <4>1, <4>2, <4>3 DEF Job
    <3>2. ResultsKept'
      BY <2>1, <2>3, DirFixed DEF ResultInv, ResultsKept
    <3> QED
      BY <2>1, <2>3, <3>1, <3>2 DEF ResultInv
  <2> QED
    BY <1>17, <2>2, <2>3 DEF MasterEnds
<1>18. CASE UNCHANGED vars
  BY <1>18, ResultStutter DEF vars, BodyPoint, Job
<1> QED
  BY <1>1, <1>2, <1>3, <1>4, <1>5, <1>6, <1>7, <1>8, <1>9, <1>10, <1>11,
     <1>12, <1>13, <1>14, <1>15, <1>16, <1>17, <1>18 DEF Next, Driver

\* A result once written stays, but for the mixed scenario and for what a job
\* file names twice.
THEOREM ResultsStay == Spec => []ResultsKept
<1>1. ResultInv => ResultsKept
  BY DEF ResultInv
<1> QED
  BY <1>1, ResultInit, ResultNext, OrderInvariance, MatrixIsRun, PTL DEF Spec
=============================================================================
