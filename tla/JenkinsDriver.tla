---------------------------- MODULE JenkinsDriver ----------------------------
(***************************************************************************)
(* The step "All" of the Jenkins driver: create the virtual machines,      *)
(* clear and prepare the hosts, and for every service type create a        *)
(* SignalR service (if there is no connection string yet) and run one job  *)
(* for every cell of the matrix, number of connections and number of       *)
(* groups.  A job is four remote commands: kill what runs on the hosts,    *)
(* start the app server, start the slaves (neither is waited for), run the *)
(* master and wait for it.  Every remote command and every call of the     *)
(* cloud may fail; the driver exits, dies of an exception, retries or goes *)
(* on, as the code does.                                                   *)
(***************************************************************************)
EXTENDS Integers, Sequences

CONSTANTS
  Slaves,     (* agentConfig.SlaveVmCount                                   *)
  Plans,      (* the job files and command lines considered                 *)
  MaxFaults   (* bound: commands and calls that fail in one behaviour       *)

(***************************************************************************)
(* A plan is a record of                                                   *)
(*   types       the service types by the number that follows the four     *)
(*               letters ("unit2" is 2), 0 where no number follows         *)
(*   cells       transport, protocol and scenario in the order of the      *)
(*               three nested loops, as [wire, scenario]                   *)
(*   connections per scenario the list, by type, of [base, step, length]   *)
(*   groups      the list, by type, of [base, step, length]                *)
(*   mix         the sum of the three numbers of the mixed scenario        *)
(*   local       --useLocalSignalR is "true"                               *)
(*   given       --azuresignalr has a connection string                    *)
(***************************************************************************)
Loops == [base : Nat, step : Nat, length : Nat]
Plan  == [types : Seq(Nat),
          cells : Seq([wire : STRING,
                       scenario : {"echo", "broadcast", "group", "mix"}]),
          connections : [{"echo", "broadcast", "group"} -> Seq(Loops)],
          groups : Seq(Loops), mix : Nat, local : BOOLEAN, given : BOOLEAN]

ASSUME SlavesAssumption == Slaves \in Nat
ASSUME PlansAssumption == Plans \subseteq Plan
ASSUME FaultsAssumption == MaxFaults \in Nat

VARIABLES
  \* the process of the driver
  plan,        (* its command line and job file                             *)
  pc,          (* where it is                                               *)
  vm,          (* per resource group: the task that creates it              *)
  unit,        (* index of the service type (indType + 1)                   *)
  cell,        (* index into the three loops over the matrix                *)
  connection,  (* loop variable                                             *)
  groupNum,    (* loop variable                                             *)
  at,          (* the host a loop over the hosts has reached                *)
  err,         (* errCode # 0 of KillAllDotnetProcess                       *)
  conn,        (* argsOption.AzureSignalrConnectionString                   *)
  ended,       (* "no", "done", "exit" (exit status 1), "died" (exception)  *)
  \* the cloud
  rgs,         (* the two resource groups of virtual machines that exist    *)
  group,       (* the resource group of the services exists                 *)
  services,    (* the services of this run in it                            *)
  made,        (* how many this run has created                             *)
  \* the hosts
  procs,       (* per host: the jobs that dotnet processes were started for *)
  files,       (* the counters.txt on the master, each with its job         *)
  \* bookkeeping of the model
  ran,         (* the jobs started                                          *)
  wrote,       (* the jobs that have written a result                       *)
  faults       (* commands and calls that failed                            *)

loopVars  == <<unit, cell, connection, groupNum>>
cloudVars == <<rgs, group, services, made>>
hostVars  == <<procs, files>>
histVars  == <<ran, wrote>>
vars == <<plan, pc, vm, loopVars, at, err, conn, ended, cloudVars, hostVars,
          histVars, faults>>

\* hosts, in the order of the list: app server, slaves, master.
AppServer == 1
Master    == Slaves + 2
Hosts     == 1..Master
SlaveHosts == 2..Slaves + 1

Empty == <<>>        \* no connection string
Given == <<0, 0>>    \* the one on the command line
Older == <<>>        \* processes of earlier runs of the driver

\* What distinguishes a job from the others of the run.
Job == <<unit, cell, connection, groupNum>>
ScenarioOf(j) == plan.cells[j[2]].scenario

Failure == faults < MaxFaults /\ faults' = faults + 1
NoFailure == UNCHANGED faults

Init ==
  /\ plan \in Plans
  /\ pc = "vms" /\ ended = "no"
  /\ vm = [g \in {"appserver", "agents"} |-> "running"]
  /\ rgs = {}
  /\ unit = 0 /\ cell = 0 /\ connection = 0 /\ groupNum = 0
  /\ at = 1 /\ err = FALSE
  /\ conn = IF plan.given THEN Given ELSE Empty
  /\ group \in BOOLEAN       \* other runs leave it behind or have none
  /\ services = {} /\ made = 0
  /\ \E old \in {{}, {Older}} :   \* only the master existed before
       procs = [h \in Hosts |-> IF h = Master THEN old ELSE {}]
  /\ files = {} /\ ran = {} /\ wrote = {} /\ faults = 0

Goto(p) == pc' = p /\ UNCHANGED ended
End(how) == ended' = how /\ UNCHANGED pc
Running(p) == pc = p /\ ended = "no"

-----------------------------------------------------------------------------
\* Virtual machines

\* CreateAppServerVm or CreateAgentVms, on the thread pool.
CreateVms(g) ==
  /\ Running("vms")
  /\ vm[g] = "running"
  /\ \/ vm' = [vm EXCEPT ![g] = "made"] /\ rgs' = rgs \cup {g} /\ NoFailure
     \/ /\ Failure
        /\ vm' = [vm EXCEPT ![g] = "failed"]
        /\ rgs' \in {rgs, rgs \cup {g}}
  /\ UNCHANGED <<plan, pc, loopVars, at, err, conn, ended, group, services,
                 made, hostVars, histVars>>

\* Task.WhenAll, without an exception.
VmsReady ==
  /\ Running("vms")
  /\ \A g \in DOMAIN vm : vm[g] = "made"
  /\ Goto("kill")
  /\ UNCHANGED <<plan, vm, loopVars, at, err, conn, cloudVars, hostVars,
                 histVars, faults>>

\* The catch clause: both groups are deleted, agents first, and all is tried
\* again; a deletion that throws is not caught.
VmsRetry ==
  /\ Running("vms")
  /\ \A g \in DOMAIN vm : vm[g] # "running"
  /\ \E g \in DOMAIN vm : vm[g] = "failed"
  /\ \/ /\ rgs' = {} /\ NoFailure
        /\ vm' = [g \in DOMAIN vm |-> "running"]
        /\ UNCHANGED <<pc, ended>>
     \/ /\ Failure /\ End("died")
        /\ rgs' \in {rgs, rgs \ {"agents"}}
        /\ UNCHANGED vm
  /\ UNCHANGED <<plan, loopVars, at, err, conn, group, services, made,
                 hostVars, histVars>>

-----------------------------------------------------------------------------
\* The hosts

\* One round of hosts.ForEach in KillAllDotnetProcess: the return in the
\* lambda ends this round only, and errCode is that of the last round.
Kill ==
  /\ Running("kill") /\ at \in Hosts
  /\ at' = at + 1
  /\ \/ procs' = [procs EXCEPT ![at] = {}] /\ err' = FALSE /\ NoFailure
     \/ Failure /\ err' = TRUE /\ UNCHANGED procs
  /\ UNCHANGED <<plan, pc, vm, loopVars, conn, ended, cloudVars, files,
                 histVars>>

\* Mutant of KillEnd: the error code is logged, as that of the master is.
KillEndLogs ==
  /\ Running("kill") /\ at > Master
  /\ Goto(IF ran = {} THEN "clone" ELSE "server")
  /\ UNCHANGED <<plan, vm, loopVars, at, err, conn, cloudVars, hostVars,
                 histVars, faults>>

\* The end of KillAllDotnetProcess, called before the clone and by RunJob.
KillEnd ==
  /\ Running("kill") /\ at > Master
  /\ \/ err /\ End("exit")
     \/ ~err /\ Goto(IF ran = {} THEN "clone" ELSE "server")
  /\ UNCHANGED <<plan, vm, loopVars, at, err, conn, cloudVars, hostVars,
                 histVars, faults>>

\* GitCloneRepo: all hosts but the master in parallel; any error is fatal.
GitCloneRepo ==
  /\ Running("clone")
  /\ \/ Goto("type") /\ NoFailure
     \/ Failure /\ End("exit")
  /\ UNCHANGED <<plan, vm, loopVars, at, err, conn, cloudVars, hostVars,
                 histVars>>

-----------------------------------------------------------------------------
\* The SignalR service

\* The next service: its number and its units.
NewService == <<made + 1, plan.types[unit]>>

\* CreateSignalrService.  A failing az command exits; a configuration blob
\* that cannot be read throws before, empty output of az after the service
\* has been created.
CreateSignalrService ==
  /\ Running("create")
  /\ \/ /\ NoFailure
        /\ group' = TRUE /\ services' = services \cup {NewService}
        /\ conn' = NewService /\ made' = made + 1
        /\ Goto("cell")
     \/ /\ Failure /\ End("exit")
        /\ \/ group' \in {group, TRUE} /\ UNCHANGED <<services, made>>
           \/ /\ group' = TRUE /\ services' = services \cup {NewService}
              /\ made' = made + 1
        /\ UNCHANGED conn
     \/ /\ Failure /\ Goto("undo")
        /\ \/ UNCHANGED <<group, services, made>>
           \/ /\ group' = TRUE /\ services' = services \cup {NewService}
              /\ made' = made + 1
        /\ UNCHANGED conn
  /\ UNCHANGED <<plan, vm, loopVars, at, err, rgs, hostVars, histVars>>

\* DeleteSignalr: the whole resource group.  A failing az command exits, also
\* when there is no such group; reading the blob may throw.
DeleteSignalr(next) ==
  \/ /\ group' = FALSE /\ services' = {} /\ NoFailure /\ Goto(next)
  \/ /\ ~group /\ NoFailure /\ End("exit") /\ UNCHANGED <<group, services>>
  \/ /\ Failure /\ \E how \in {"exit", "died"} : End(how)
     /\ UNCHANGED <<group, services>>

\* Mutant of UndoService: the next try starts without clearing the group.
RetryAtOnce ==
  /\ Running("undo")
  /\ Goto("create")
  /\ UNCHANGED <<plan, vm, loopVars, at, err, conn, cloudVars, hostVars,
                 histVars, faults>>

\* The catch clause around CreateSignalrService.
UndoService ==
  /\ Running("undo")
  /\ DeleteSignalr("create")
  /\ UNCHANGED <<plan, vm, loopVars, at, err, conn, rgs, made, hostVars,
                 histVars>>

\* Mutant of TypeEnd: the statement after the if, which the code has in a
\* comment, takes its place.
TypeEndDeletes ==
  /\ Running("typeEnd")
  /\ DeleteSignalr("type")
  /\ UNCHANGED <<plan, vm, loopVars, at, err, conn, rgs, made, hostVars,
                 histVars>>

\* The end of the loop body over the types.
TypeEnd ==
  /\ Running("typeEnd")
  /\ \/ (plan.local \/ conn = Empty) /\ DeleteSignalr("type")
     \/ /\ ~plan.local /\ conn # Empty
        /\ Goto("type") /\ UNCHANGED <<group, services, faults>>
  /\ UNCHANGED <<plan, vm, loopVars, at, err, conn, rgs, made, hostVars,
                 histVars>>

-----------------------------------------------------------------------------
\* The matrix

\* foreach over the types: Substring(4) must be a number.
NextType ==
  /\ Running("type")
  /\ \/ /\ unit = Len(plan.types) /\ End("done") /\ UNCHANGED <<unit, cell>>
     \/ /\ unit < Len(plan.types) /\ plan.types[unit + 1] = 0
        /\ End("died") /\ UNCHANGED <<unit, cell>>
     \/ /\ unit < Len(plan.types) /\ plan.types[unit + 1] # 0
        /\ unit' = unit + 1 /\ cell' = 0
        /\ Goto(IF conn = Empty THEN "create" ELSE "cell")
  /\ UNCHANGED <<plan, vm, connection, groupNum, at, err, conn, cloudVars,
                 hostVars, histVars, faults>>

\* GetConnectionConfig and GetGroupNumConfig.
ConnectionConfigs(s) ==
  IF s = "mix" THEN [u \in 1..Len(plan.types) |->
                       [base |-> plan.mix, step |-> 1, length |-> 1]]
  ELSE plan.connections[s]
GroupNumConfigs(s) ==
  IF s = "group" THEN plan.groups
  ELSE [u \in 1..Len(plan.types) |-> [base |-> 0, step |-> 1, length |-> 1]]

HasConfig(s, u) ==
  u \in DOMAIN ConnectionConfigs(s) /\ u \in DOMAIN GroupNumConfigs(s)

Scenario == plan.cells[cell].scenario
ConnectionLoop == ConnectionConfigs(Scenario)[unit]
GroupNumLoop == GroupNumConfigs(Scenario)[unit]
Limit(l) == l.base + l.step * l.length

\* The three foreach loops; a list without an entry for the type throws.
NextCell ==
  /\ Running("cell")
  /\ \/ /\ cell = Len(plan.cells) /\ Goto("typeEnd")
        /\ UNCHANGED <<cell, connection>>
     \/ /\ cell < Len(plan.cells)
        /\ ~HasConfig(plan.cells[cell + 1].scenario, unit)
        /\ End("died") /\ UNCHANGED <<cell, connection>>
     \/ /\ cell < Len(plan.cells)
        /\ HasConfig(plan.cells[cell + 1].scenario, unit)
        /\ cell' = cell + 1
        /\ connection' =
             ConnectionConfigs(plan.cells[cell + 1].scenario)[unit].base
        /\ Goto("connection")
  /\ UNCHANGED <<plan, vm, unit, groupNum, at, err, conn, cloudVars, hostVars,
                 histVars, faults>>

\* Mutant of NextConnection: one round more, for ever if the step is 0.
NextConnectionToo ==
  /\ Running("connection")
  /\ \/ /\ connection <= Limit(ConnectionLoop)
        /\ groupNum' = GroupNumLoop.base /\ Goto("groupNum")
     \/ /\ connection > Limit(ConnectionLoop)
        /\ Goto("cell") /\ UNCHANGED groupNum
  /\ UNCHANGED <<plan, vm, unit, cell, connection, at, err, conn, cloudVars,
                 hostVars, histVars, faults>>

NextConnection ==
  /\ Running("connection")
  /\ \/ /\ connection < Limit(ConnectionLoop)
        /\ groupNum' = GroupNumLoop.base /\ Goto("groupNum")
     \/ /\ connection >= Limit(ConnectionLoop)
        /\ Goto("cell") /\ UNCHANGED groupNum
  /\ UNCHANGED <<plan, vm, unit, cell, connection, at, err, conn, cloudVars,
                 hostVars, histVars, faults>>

\* The inner loop, and the call of RunJob.
NextGroupNum ==
  /\ Running("groupNum")
  /\ \/ /\ groupNum < Limit(GroupNumLoop)
        /\ at' = 1 /\ err' = FALSE
        /\ ran' = ran \cup {Job}
        /\ Goto("kill") /\ UNCHANGED connection
     \/ /\ groupNum >= Limit(GroupNumLoop)
        /\ connection' = connection + ConnectionLoop.step
        /\ Goto("connection") /\ UNCHANGED <<at, err, ran>>
  /\ UNCHANGED <<plan, vm, unit, cell, groupNum, conn, cloudVars, hostVars,
                 wrote, faults>>

-----------------------------------------------------------------------------
\* The rest of RunJob

\* A command that is not waited for: it never counts as failed.  The process
\* may not come up; where others still run, also for want of a port.
Launch(h) ==
  \/ procs' = [procs EXCEPT ![h] = @ \cup {Job}] /\ NoFailure
  \/ procs[h] # {} /\ UNCHANGED <<procs, faults>>
  \/ Failure /\ UNCHANGED procs

StartAppServer ==
  /\ Running("server")
  /\ Launch(AppServer)
  /\ at' = 2
  /\ Goto("slaves")
  /\ UNCHANGED <<plan, vm, loopVars, err, conn, cloudVars, files, histVars>>

StartRpcSlaves ==
  /\ Running("slaves")
  /\ \/ /\ at \in SlaveHosts /\ Launch(at) /\ at' = at + 1
        /\ UNCHANGED <<pc, ended>>
     \/ /\ at \notin SlaveHosts /\ Goto("start")
        /\ UNCHANGED <<procs, at, faults>>
  /\ UNCHANGED <<plan, vm, loopVars, err, conn, cloudVars, files, histVars>>

\* Mutant of OutputDir: the directory is not told by the number of groups.
DirWithoutGroupNum(j) ==
  IF ScenarioOf(j) = "mix" THEN <<>>
  ELSE <<plan.types[j[1]], plan.cells[j[2]], j[3]>>

\* outputCounterDir: the mixed scenario has none and uses the directory of
\* the master's program.
OutputDir(j) ==
  IF ScenarioOf(j) = "mix" THEN <<>>
  ELSE <<plan.types[j[1]], plan.cells[j[2]], j[3], j[4]>>

\* StartRpcMaster: the shell removes the old counters, then runs the master.
StartRpcMaster ==
  /\ Running("start")
  /\ \/ /\ NoFailure /\ Goto("master")
        /\ files' = {f \in files : f.dir # OutputDir(Job)}
        /\ procs' = [procs EXCEPT ![Master] = @ \cup {Job}]
        /\ UNCHANGED groupNum
     \/ /\ Failure /\ Goto("groupNum")
        /\ groupNum' = groupNum + GroupNumLoop.step
        /\ UNCHANGED hostVars
  /\ UNCHANGED <<plan, vm, unit, cell, connection, at, err, conn, cloudVars,
                 histVars>>

\* A slave that has no process keeps the master probing.
Probing == Running("master") /\ \E h \in SlaveHosts : procs[h] = {}

\* The command returns: the master has ended, with a result or without, or
\* the connection to its host is gone and it runs on.
MasterEnds ==
  /\ Running("master")
  /\ \/ ~Probing /\ procs' = [procs EXCEPT ![Master] = @ \ {Job}] /\ NoFailure
     \/ Failure /\ UNCHANGED procs
  /\ \/ /\ ~Probing
        /\ files' = files \cup {[dir |-> OutputDir(Job), job |-> Job]}
        /\ wrote' = wrote \cup {Job}
     \/ UNCHANGED <<files, wrote>>
  /\ groupNum' = groupNum + GroupNumLoop.step
  /\ Goto("groupNum")
  /\ UNCHANGED <<plan, vm, unit, cell, connection, at, err, conn, cloudVars,
                 ran>>

Driver ==
  \/ VmsReady \/ VmsRetry \/ Kill \/ KillEnd \/ GitCloneRepo
  \/ CreateSignalrService \/ UndoService \/ TypeEnd
  \/ NextType \/ NextCell \/ NextConnection \/ NextGroupNum
  \/ StartAppServer \/ StartRpcSlaves \/ StartRpcMaster \/ MasterEnds

Next ==
  \/ \E g \in DOMAIN vm : CreateVms(g)
  \/ Driver
  \/ (ended # "no" \/ Probing) /\ UNCHANGED vars

(***************************************************************************)
(* The commands and calls of the driver return, those of the cloud too;    *)
(* the master ends once it is through with probing (EndsAfterProbe of      *)
(* JobControl).                                                            *)
(***************************************************************************)
Fairness ==
  /\ \A g \in {"appserver", "agents"} : WF_vars(CreateVms(g))
  /\ WF_vars(Driver)

Spec == Init /\ [][Next]_vars
FairSpec == Spec /\ Fairness

-----------------------------------------------------------------------------
InJob == pc \in {"server", "slaves", "start", "master"}

(***************************************************************************)
(* While a job's master runs it is the only one on its host, although the  *)
(* connection to an earlier one may have broken and although the killing   *)
(* of processes forgets the errors of all hosts but the last.              *)
(***************************************************************************)
OneMaster ==
  /\ Running("master") => procs[Master] = {Job}
  /\ Running("server") \/ Running("slaves") \/ Running("start")
       => procs[Master] = {}

(***************************************************************************)
(* A job that does not use a local SignalR has its service: the one on     *)
(* the command line, or one this run has created and not deleted since,    *)
(* although the string outlives the type it was made for.                  *)
(***************************************************************************)
ServiceStands ==
  InJob /\ ~plan.local =>
    IF plan.given THEN conn = Given ELSE conn \in services

(***************************************************************************)
(* A job runs against a service of as many units as its type names: the    *)
(* job files size their lists "based on different signalr unit", and the   *)
(* creation stands inside the loop over the types.  The code does not keep *)
(* this: once there is a connection string no other service is created.    *)
(***************************************************************************)
UnitServed ==
  InJob /\ ~plan.local /\ ~plan.given => conn[2] = plan.types[unit]

(***************************************************************************)
(* However often creation fails and is tried again, there is at most one   *)
(* service of this run, the one of the connection string once there is     *)
(* one; and a run with local SignalR that comes to its end leaves none.    *)
(***************************************************************************)
OneService ==
  /\ \A a, b \in services : a = b
  /\ conn # Empty => services \subseteq {conn}
  /\ ended = "done" /\ plan.local /\ plan.types # <<>> => services = {}

\* The job file names the job's type and its cell once.
NamedOnce(j) ==
  /\ \A u \in DOMAIN plan.types : plan.types[u] = plan.types[j[1]] => u = j[1]
  /\ \A c \in DOMAIN plan.cells : plan.cells[c] = plan.cells[j[2]] => c = j[2]

(***************************************************************************)
(* A result once written stays: no later job, and no repetition, uses the  *)
(* directory of an earlier one.  Not so in the mixed scenario, whose jobs  *)
(* all write to the same file, nor where the job file repeats a type or a  *)
(* cell, since the directory goes by their names.                          *)
(***************************************************************************)
ResultsKept ==
  \A j \in wrote :
    ScenarioOf(j) # "mix" /\ NamedOnce(j) =>
      [dir |-> OutputDir(j), job |-> j] \in files

\* The numbers a loop is meant to go through: none if they do not grow.
Rounds(l) == IF l.step = 0 THEN {} ELSE {l.base + i * l.step : i \in 0..l.length - 1}
Planned ==
  UNION {{<<u, c, n, g>> :
            n \in Rounds(ConnectionConfigs(plan.cells[c].scenario)[u]),
            g \in Rounds(GroupNumConfigs(plan.cells[c].scenario)[u])} :
         u \in DOMAIN plan.types, c \in DOMAIN plan.cells}

(***************************************************************************)
(* No job is run twice, and a run that comes to its end has run exactly    *)
(* the jobs of its matrix, whatever failed on the way.                     *)
(***************************************************************************)
EachJobOnce ==
  /\ Running("groupNum") /\ groupNum < Limit(GroupNumLoop) => Job \notin ran
  /\ ended = "done" => ran = Planned

(***************************************************************************)
(* The driver comes to an end, unless a slave whose start failed unnoticed *)
(* keeps the master of a job probing for ever.                             *)
(***************************************************************************)
EndsOrProbes == <>(ended # "no" \/ Probing)
=============================================================================
