------------------------------ MODULE StartConn ------------------------------
(***************************************************************************)
(* The step startConn of one slave: the master's split of the number of    *)
(* concurrent connections, the batches in which the slave starts its       *)
(* connections, one thread-pool task for each, and the two connection      *)
(* counters.  A slave process may serve several masters one after the      *)
(* other: the connections are created anew, the counters live on.          *)
(***************************************************************************)
EXTENDS BenchStat, FiniteSets

CONSTANTS
  N,               (* number of slaves                                      *)
  MaxConnections,  (* bound: the largest --connections and                  *)
                   (* --concurrentConnection considered                     *)
  MaxRuns          (* bound: masters served by one slave process            *)

ASSUME NAssumption == N \in Nat \ {0}
ASSUME BoundsAssumption == MaxConnections \in Nat /\ MaxRuns \in Nat \ {0}

VARIABLES
  me,          (* the position of the slave in --slaveList, from 0          *)
  run,         (* how many masters it has served, the present one included  *)
  connections, (* --connections of the present master                       *)
  concurrent,  (* --concurrentConnection                                    *)
  pc,          (* program point of the slave                                *)
  count,       (* _tk.Connections.Count                                     *)
  batch,       (* nextBatch                                                 *)
  left,        (* left                                                      *)
  i,           (* i                                                         *)
  tasks,       (* tasks.Count                                               *)
  pending,     (* connections whose StartAsync has not returned yet         *)
  started,     (* connections whose StartAsync has succeeded                *)
  failed,      (* connections whose task has counted an error               *)
  errors,      (* the counter connection:error                              *)
  success,     (* the counter connection:success                            *)
  inherited    (* bookkeeping: the errors counted for earlier masters       *)

args == <<me, run, connections, concurrent>>
loop == <<count, batch, left, i, tasks>>
vars == <<args, pc, loop, pending, started, failed, errors, success, inherited>>

Points == {"load", "start", "batch", "wait", "connected"}

-----------------------------------------------------------------------------
\* What the slave is told to open.
Share == SplitNumber(connections, me, N)

\* Mutant of ConcurrentShare: without the correction.
BareShare == SplitNumber(concurrent, me, N)

\* How many of them at once: at least one if there is anything to open.
ConcurrentShare ==
  IF Share > 0 /\ SplitNumber(concurrent, me, N) = 0
    THEN 1
    ELSE SplitNumber(concurrent, me, N)

Init ==
  /\ me \in 0..N - 1
  /\ run = 1
  /\ connections \in 0..MaxConnections /\ concurrent \in 0..MaxConnections
  /\ pc = "load"
  /\ count = 0 /\ batch = 0 /\ left = 0 /\ i = 0 /\ tasks = 0
  /\ pending = {} /\ started = {} /\ failed = {}
  /\ errors = 0 /\ success = 0 /\ inherited = 0

\* createConn makes as many new connections as LoadJobConfig has announced.
CreateConn ==
  /\ pc = "load"
  /\ pc' = "start"
  /\ count' = Share /\ left' = Share
  /\ batch' = ConcurrentShare
  /\ i' = 0 /\ tasks' = 0
  /\ started' = {} /\ failed' = {}
  /\ UNCHANGED <<args, pending, errors, success, inherited>>

\* connection:success as UpdateConnectionSuccess computes it.
UpdateConnectionSuccess ==
  /\ success' = count - errors
  /\ pc' = "connected"

\* The test before the loop; if it fails nothing is started.
EnterLoop ==
  /\ pc = "start"
  /\ IF batch <= left
       THEN pc' = "batch" /\ UNCHANGED success
       ELSE UpdateConnectionSuccess
  /\ UNCHANGED <<args, loop, pending, started, failed, errors, inherited>>

\* Mutant of Batch: the inner loop runs to nextBatch inclusively.
BatchInclusive(first) == first..first + batch

\* The indices of one batch.
Batch(first) == first..first + batch - 1

NextSize(rest) == IF rest < batch THEN rest ELSE batch

\* Mutant of Goes: a rest that does not fill a batch is forgotten.
GoesWhileFull(rest) == rest >= batch

\* The condition of the loop.
Goes(rest) == rest > 0

\* One round: a task per connection of the batch, a second of delay, and the
\* size of the next batch.
StartBatch ==
  /\ pc = "batch"
  /\ pending' = pending \cup Batch(i)
  /\ tasks' = tasks + batch
  /\ i' = i + batch
  /\ left' = left - batch
  /\ batch' = NextSize(left')
  /\ pc' = IF Goes(left') THEN "batch" ELSE "wait"
  /\ UNCHANGED <<args, count, started, failed, errors, success, inherited>>

\* The tasks work on connections[index]; an index beyond the end would throw
\* like a connection that cannot be started.
Starts(index) ==
  /\ index \in pending
  /\ index < count
  /\ pending' = pending \ {index}
  /\ started' = started \cup {index}
  /\ UNCHANGED <<args, pc, loop, failed, errors, success, inherited>>

FailsToStart(index) ==
  /\ index \in pending
  /\ pending' = pending \ {index}
  /\ failed' = failed \cup {index}
  /\ errors' = errors + 1
  /\ UNCHANGED <<args, pc, loop, started, success, inherited>>

\* Mutant of WhenAll: the success counter is set without waiting.
WhenNone ==
  /\ pc = "wait"
  /\ UpdateConnectionSuccess
  /\ UNCHANGED <<args, loop, pending, started, failed, errors, inherited>>

WhenAll ==
  /\ pc = "wait"
  /\ pending = {}
  /\ UpdateConnectionSuccess
  /\ UNCHANGED <<args, loop, pending, started, failed, errors, inherited>>

\* Another master finds the worker of the one before (WorkerExisted).
NextMaster ==
  /\ pc = "connected"
  /\ run < MaxRuns
  /\ run' = run + 1
  /\ connections' \in 0..MaxConnections /\ concurrent' \in 0..MaxConnections
  /\ pc' = "load"
  /\ inherited' = errors
  /\ UNCHANGED <<me, loop, pending, started, failed, errors, success>>

Slave ==
  \/ CreateConn
  \/ EnterLoop
  \/ StartBatch
  \/ WhenAll

Next ==
  \/ Slave
  \/ \E index \in pending : Starts(index) \/ FailsToStart(index)
  \/ NextMaster
  \/ pc = "connected" /\ UNCHANGED vars

Spec == Init /\ [][Next]_vars

(***************************************************************************)
(* The slave runs while it can, and every StartAsync succeeds or fails in  *)
(* the end: the client library gives up a handshake after some time.       *)
(***************************************************************************)
Fairness ==
  /\ WF_vars(Slave)
  /\ WF_vars(\E index \in pending : Starts(index) \/ FailsToStart(index))

FairSpec == Spec /\ Fairness

-----------------------------------------------------------------------------
(* Properties                                                               *)

TypeOK ==
  /\ me \in 0..N - 1 /\ run \in 1..MaxRuns
  /\ connections \in 0..MaxConnections /\ concurrent \in 0..MaxConnections
  /\ pc \in Points
  /\ count \in Nat /\ batch \in Nat /\ left \in Nat /\ i \in Nat /\ tasks \in Nat
  /\ pending \subseteq Nat /\ started \subseteq Nat /\ failed \subseteq Nat
  /\ errors \in Nat /\ success \in Int /\ inherited \in Nat

Tried == pending \cup started \cup failed

(***************************************************************************)
(* No connection is started twice and no task goes beyond the end of the   *)
(* list: there are as many different connections as there are tasks.       *)
(***************************************************************************)
EachOnce ==
  /\ Cardinality(Tried) = tasks
  /\ \A index \in Tried : index < count

(***************************************************************************)
(* When the slave reports HubconnConnected, either every connection has    *)
(* been started (or has failed to) or none has; and it is every one unless *)
(* the master was told to open more at once than in all.                   *)
(***************************************************************************)
AllOrNone ==
  pc = "connected" =>
    /\ started \cup failed \in {{}, 0..count - 1}
    /\ concurrent <= connections => started \cup failed = 0..count - 1

(***************************************************************************)
(* Then connection:success is the number of connections that are open on a *)
(* fresh worker, and no more than that on one that has served before: the  *)
(* errors of earlier masters are never reset and are subtracted again.     *)
(***************************************************************************)
SuccessCounted ==
  pc = "connected" /\ concurrent <= connections =>
    /\ success <= Cardinality(started)
    /\ run = 1 => success = Cardinality(started)

(***************************************************************************)
(* The loop over the batches ends, whatever the split of the connections   *)
(* and of the concurrent connections over the slaves: no batch is empty    *)
(* while connections are left.                                             *)
(***************************************************************************)
BatchesEnd == pc = "batch" ~> pc = "connected"
=============================================================================
