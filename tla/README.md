# A TLA+ model of the SignalR benchmark framework

The repository drives load tests of SignalR services. A *master* (`signalr_bench/Rpc/Bench.Client`) leads
a run of several *slaves* (`Bench.Server`) over gRPC; every slave opens connections to an *app server*
(`signalr_bench/AppServer`) and sends messages through it; the master collects the counters of the slaves
every second and ends the run with one line, SUCCESS or FAIL, which the Jenkins driver
(`signalr_bench/JenkinsScript`) starts such a run for every job of a matrix; a report (`signalr_bench/Report`)
shows what the master wrote down. This directory models all of this: how the driver goes through its matrix, how the
master keeps its slaves in step, how counters get from the connections to the result line, the counter file and the
page of the report, and what may fail on the way.

All paths below are relative to `src/signalr_bench/` unless they begin with `src/`.

## 1. Inventory

| Component | State | Operations | Interacts through | Hard because |
|---|---|---|---|---|
| Master, main thread (`Rpc/Bench.Client/Program.cs`) | position in the pipeline, tasks of the step | probe, set up every slave, per step one task per slave (`RunJob`, `LoadConnectionConfig`, `LoadConnectionRange`), wait for all, verdict | blocking gRPC calls; `Task.WhenAll` | slaves differ in speed, die, lose replies; no deadlines |
| Master, collection timer (same file, 144-213) | a handler's local totals; the field `_counters` | `GetState` and `CollectCounters` of each slave in turn, merge, publish | gRPC; shared field | handlers overlap; two calls per slave are not atomic; exceptions vanish |
| Master, verdict (305-361) | `_counters` | percentage, result line, exception | file, exit status | int overflow, 0/0, missing keys, stale snapshot |
| Slave, service and worker (`Rpc/Bench.Server`) | `_sigWorker`, `WorkerToolkit` (state, connections, cell config, group list, range) | eight RPC handlers | shared `_tk`, no locks | handlers run beside the operation of `RunJob` |
| Slave, operations (`Worker/Operations`) | program point; connections and the callbacks registered on them | create, start, send (echo, broadcast, group, mix), join/leave group, stop, dispose | hub connections, counters | callbacks, unsupervised continuations, null fields |
| Slave, counters (`Worker/Counters/Counter.cs`) | a concurrent dictionary | count, reset, read all, save | callbacks write while the RPC reads | neither reading nor the reset is atomic |
| Group lists and ranges (`Rpc/Bench.Common`) | shuffled list per step; `[beg, end)` per slave | `Build`, `SplitNumber` | sent to all slaves | computed independently in every task |
| App server hub (`AppServer/Hub/BenchHub.cs`) | three static totals, groups | echo, broadcast, group messages | SignalR | messages late, lost, out of order; totals counted and read in two steps |
| Jenkins driver (`JenkinsScript/Program.cs`, `ShellHelper.cs`) | loop variables of the matrix, connection string, error codes | create and delete services, kill and start remote processes, run jobs | ssh, Azure CLI, processes and files of the hosts | error codes overwritten, strings reused, retry loops, commands not waited for |
| VM provisioning (`JenkinsScript/AzureVmCreater.cs`, `ManageVMs`) | resource groups | create, delete; retried by the driver | Azure SDK | partial creation |
| Legacy client (`Client`) | job states | start, run, stop | timers, continuations | tasks nobody awaits |
| Report viewer (`Report/routes/detail.js`, `public/javascripts/chart.js`) | the lines read, the series of the charts | read `counters.txt`, compute rates and the table | the file the master appends to | file missing or empty, lines lost or out of order, arrays changed in place |
| Scripts, samples | none of their own | - | files | - |

What makes each part correct:

* Main thread: slaves never work on different steps; a failure anywhere shows in the result; SUCCESS means
  everything was done by everybody; the run ends.
* Timer: what is published was counted, nothing counted by a sending slave is missed, totals go back only when
  handlers overtake each other.
* Verdict: a line is always left, it is right as long as numbers fit an int, and a verdict drawn from a
  snapshot taken after sending agrees with the counters.
* Slave: operations find what they need (connections, list, range).
* Ranges: disjoint, without gaps, even.
* Counters of repeated sending steps: every message counts once per step taken so far, but for
  handlers at work while the counters are cleared; the total of the hub is found.
* Driver: one master at a time, every job with its service, no service left over, no result overwritten, every job of
  the matrix once, and an end.
* Report: a run that was judged has something to show, and what is shown adds up to what was counted.

The hazards of the code, each at its line, are listed in `PROJECT.json`, with the properties that guard
against them or the reason why there is none.

## 2. Modules

    BenchStat ──┬── ConnectionRanges
                ├── JobVerdict ── Report
                ├── StartConn
                ├── GroupOp
                ├── MixOp
                ├── SendMsg
                └── JobControl ── BenchRpc          JobControl implements BenchJob
                                                    BenchRpc   implements JobControl
    JenkinsDriver

From the outside in: JenkinsDriver runs jobs, JobControl is one job, BenchRpc one job with its load and its timer,
StartConn, SendMsg, GroupOp and MixOp are single steps of a job in detail, JobVerdict and Report what becomes of the
counters.

**BenchStat** - the state numbers of `bench.proto` and the operators both sides agree by: the master's
gate (`MasterCollects`), the slave's gate (`SlaveReports`), the threshold (`Exceeds`), `SplitNumber`.

**BenchJob** - the abstract job: steps in order, each finished by every slave before the next starts, one
verdict, SUCCESS only after the last step; it may be given up at any time.

**JobControl** - the run without counters. `mpc`, `client`, `step` are the main thread (probe, create,
load, wait, gap, verdict, ended); `task[s]` how far the thread-pool task of slave `s` has come in the
step; `life`, `worker`, `stat`, `conns`, `cell`, `cfg`, `range` the slave process and the fields of its
`WorkerToolkit`; `stage[s]` the program point of the operation in its `RunJob` handler. A point of an
operation is one action, at every assignment of the state that others can see; so two slaves, their tasks
and the main thread interleave at all of them. `cfg[s]` names a shuffled list by the step it was built in.
Failures: `Crash` (at any time), `RpcLost` (the call breaks while the handler goes on, unsupervised),
`OpThrows` (where an operation can throw), `RpcFails` (a call to a process that is gone). `StartConn` always
succeeds because the code only counts connections that fail to start.

**BenchRpc** - extends JobControl with the load (`cnt`, `issued`, `awaiting`, `transit`), the handlers of
the timer (`tick`) and the published snapshot (`counters`). A send is issued, its message travels, its await
returns, in any order of the latter two; a message may stay in transit for good, which is how one is lost.
A handler reads the state, requests the counters, reads them one key at a time, goes on to the next slave,
publishes or does not. A snapshot is kept slave by slave, which the code has added up; the totals are
`Total`; `published` tells the `null` that stands there before the first from a snapshot without keys, which
`SaveJobResult` could not read. The eleven latency buckets, of which the master only uses the sum, are one number, `received`.
`floor`, `fresh` and `overtaken` are bookkeeping for the properties.
When the master ends, its handlers end with it (`HandlersEnd`).

**ConnectionRanges** - the tasks of one step, each adding up the shares of the clients before its own and
sending its range. The tasks share nothing; what can go wrong here is the arithmetic.

**JobVerdict** - one call of `SaveJobResult`, on every snapshot including none and one without keys, with
wrap-around at `Half` (2^31 in the code). It tells where `Passes` of BenchRpc, which has no overflow, is valid.

**Report** - extends JobVerdict with what stands before and after it. The handlers of the timer (`snaps`, `stage`)
collect one after the other and then publish, open the counter file and write in any order; a handler that finds the
file open by another gives its line up, as the `catch` of the code does. `Verdict` is `SaveJobResult` on what was
published last. The page reads the file at some moment (`Read`: the request fails without the file, the script of the
page without a line), computes the rates one index at a time in the array itself (`Draw`) and shows `Table`.

**SendMsg** - the sending steps of a pipeline, as many as there are, on the same connections. `callbacks` counts the
handlers on the connection of a slave. A message that arrives calls each of them, and each call counts by itself
(`HandlerCounts`, one more in one bucket) and then offers the total it brought (`HandlerSets`): `calls` and `setting` are
the calls before either. The reset of the counters has three steps in the order of the keys (`lower`, the
buckets below one second; `server` with `sent` and `notSent`; `upper`, the last bucket); `toHub`, `atHub` and `answers`
are the way of a message: called, counted by the hub, answered with the total as it is by then. A message that is lost
stays under way for good. `meanwhile` (calls that overlap the reset) and `arrived` (messages since) are bookkeeping for
the properties.

**StartConn** - the step startConn of one slave at any position of the list: the master's split of `--connections` and
`--concurrentConnection` with its correction, the loop of `StartConnOp` (`count`, `batch`, `left`, `i`), the tasks
it leaves behind (`pending`, `started`, `failed`) and the two connection counters. `NextMaster` serves another
master with the same worker: connections and cell arguments are new, the counters are not. A delay between batches
is only a point where tasks may run.

**GroupOp** - the scenario "group" on all slaves at once, on every shuffled list `Build` may return. A slave goes
through `GroupOp.Do` (`pc`, `i`); `pool` holds the tasks of its two `Task.Run` loops with the index each has
captured; `senders` are the loops that send. The hub side is `wire`, the calls of a connection in the order they were
made, and `member`. `--connections` and `--groupConnection` are independent, so a range may be longer or shorter than
the connections of its slave. `Drop` closes a connection at any time: what was on the wire is gone, the hub forgets
its groups, and the un-awaited `SendAsync` of a task tells nobody. Messages from the hub to the clients are not in
this module; who would get one is `member`.

**MixOp** - the mixed scenario on all slaves, without a barrier between them: the kinds of the connections by index
(`GetRange`, `KindOf`), `MixOp.Do` (`pc`), the callbacks (`listening`), a loop per connection (`senders`) whose
`SendAsync` and the counting after the await are separate steps, the hub (`transit`, `member`) and the counting of what
arrives. `JoinGroup` and `LeaveGroup` loop over the range of a kind "mix" that there is not, so `member` stays empty.
A message may arrive before its sender has counted it, before the receiver listens (then it is gone) and before the
receiver resets its counters.

**JenkinsDriver** - the step "All" of the driver. `pc` is its place in `Main` or `RunJob`; `unit`, `cell`, `connection`,
`groupNum` the loops of the matrix (the three `foreach` over transport, protocol and scenario are one index); `conn` the
connection string in its options, `err` the error code of `KillAllDotnetProcess`, which is that of the last host.
Outside: the resource groups of machines (`rgs`) and of services (`group`, `services`), the dotnet processes on every
host by the job they were started for (`procs`) and the counter files on the master's host (`files`). A command that is
waited for may fail with or without effect; one that is not (`Launch`) never looks failed to the driver, but the
process may not come up. When the connection to the master's host breaks, its master runs on there (`MasterEnds`). What a
master does inside is JobControl's; here it ends, unless a slave without a process keeps it `Probing`. The job files are
the records of `MCJenkinsDriver`.

**Proofs** are in `JobControl_proofs`, `BenchRpc_proofs`, `ConnectionRanges_proofs`, `Report_proofs` (JobVerdict and
Report), `SlaveOps_proofs` (StartConn and SendMsg), `GroupOp_proofs`, `MixOp_proofs` and `JenkinsDriver_proofs`.
Some modules define, just before an operator, a *mutant* of it: the same operator with a plausible bug.
`PROJECT.json` names, for every property of every run, a mutant under which that run finds it violated.

## 3. Runs

| Run | Instance | Shows |
|---|---|---|
| `control` | 3 slaves, the five steps of the job files with joinGroup and leaveGroup around the scenario, 2 faults, fair; 38 180 states | lockstep, one group list, range before use, failures never hidden, refinement of BenchJob (so SUCCESS means done), termination |
| `rpc_stop` | 2 slaves, one of them with a connection, up to stopConn, 2 echoes, one handler; 1.4 million states | gates miss nobody, also while one slave stops beside one that is complete; a line is left |
| `rpc_overlap` | 1 slave, two handlers (symmetric), 1 fault; 944 thousand states | nothing invented, totals go back only by overtaking |
| `rpc_ends` | 1 slave, 2 connections, broadcasts, five steps, 1 fault, fair; 57 517 states | SUCCESS is sound where one send brings several messages, refinement of JobControl, termination |
| `ranges` | 4 clients, totals 0..10; 1 320 states | ranges computed each by itself partition the list |
| `report` | 3-bit ints, 3 handlers, 1 or 2 connections; 2.8 million states | the line is right in range, handlers that meet at the file leave a line, the page adds up |
| `start_conn` | 2 slaves, `--connections` and `--concurrentConnection` 0..6 each, 2 masters, fair; 16 849 states | each connection started once, all or none, success counted, the batches end |
| `group` | 2 slaves, 1 or 3 connections, 2 or 3 entries in 2 groups, 1 message each, 1 drop, fair; 378 thousand states | own group only, nobody left behind, the first slave's messages reach their senders, the short slaves throw, failures counted, all comes to rest |
| `mix` | 2 slaves, at most 1 connection of each kind and 1 more, 1 message and 1 failure each; 109 thousand states | connections count their own kind only, lists and counters agree with what was sent, the dealt numbers fit but for two, every echo has a connection |
| `sendmsg` | 2 slaves (symmetric), 2 sending steps, 1 message each per step, 2 handlers out at a time, 1 late; 2.2 million states | the hub's total is found, a message counts once per step but for handlers at work during the reset, what SUCCESS then means in the k-th step |
| `driver` | 6 job files, 2 slaves, 2 faults, fair; 125 thousand states | one master, a service for every job, one service at most, results kept, each job once, an end |
| `driver_units` | the same job files without faults; violated | jobs of a second type run against the service of the first |

**The violated run.** `UnitServed` says of the driver what its job files say of themselves ("based on different signalr
unit", with one entry per unit in the lists below): that a job of the type "unit2" runs against a service of two units.
`Program.cs:248` creates a service only while there is no connection string, and nothing clears the string, so the jobs
of the second type run against the service of the first and are filed under the name of the second. `ServiceStands`,
which holds, is the other half: that service is at least still there.

**Bounds.** `MaxFaults` bounds crashes, broken calls and commands that fail, `MaxMsgs` the messages a slave issues (in a
step), `Handlers` and `MaxTicks` the handlers, `MaxTotal`, `MaxCount`, `MaxConnection` the enumerated inputs. Three
slaves and two faults let two slaves fail differently while a third is fine. Two slaves are what one handler needs to
meet different states. Overlap needs two handlers and one slave. Totals 0..10 over 4 clients cover every remainder,
totals below the number of clients, and zero. With `Half = 4` a product of three sends and two connections wraps.
Three handlers are what it takes for two to be refused at the file while a third writes, and for lines out of order; each
adds nothing, a send with or without its message, a failed send or a late message to what the one before has collected.
Up to six connections on two slaves give a slave up to three, with batches of one, two, three and more; two masters are
what it takes to inherit errors. In the group run the shares cover 0, 1 and 2 connections against ranges of 1 and 2
indices, and one slave has two connections, so that the tasks of one pool overtake each other. One connection
of each kind on two slaves already leaves kinds without a connection and a connection without a kind. Two sending steps
are the fewest with a straggler and a callback registered twice; two slaves give the hub concurrent calls and a
broadcast two receivers. `MaxCalls` bounds the handlers that are out at a time, of two slaves in the first step, the two
of one message in the second, and `MaxLate` what is still out when the next step begins: one handler, or one message,
of whose two handlers one may then count before the reset and the other after it. The driver's job files are a matrix with two types, numbers of connections and of groups; a local
SignalR; a string on the command line with two mixed jobs; a step of 0; lists that lack an entry; a type without a
number. Two faults let a creation and the deletion after it fail, or the connection to a master's host and the next
killing there. All safety properties are proved without the bounds (below).

**Symmetry.** `rpc_overlap` is symmetric in the handlers and `sendmsg` in the slaves: they differ in nothing, the
properties of `sendmsg` are invariants, and the only temporal one of `rpc_overlap` has the form `[][A]_v`. No symmetry is
used where liveness is checked.

**Fairness.** Weak fairness of the main thread, of every task, of every operation and of every handler: they run
on threads of their own and nothing they wait for takes a lock for ever. No fairness for starting, crashing,
losing a call, the arrival of messages or new ticks. The fairness of an operation excludes that `StopAsync`,
`DisposeAsync` or a send never returns: the code has no deadline there, and would hang. In StartConn every `StartAsync`
ends one way or the other, as the client library gives a handshake up. In GroupOp it is enough that something goes on
while a thread can run, the time of sending has not passed or the hub has a call; nothing makes anybody send or drop.
In JenkinsDriver the commands that are waited for return and the tasks that create machines end; whether they succeed is
open, and a master that probes is not made to end.
Termination of a job is stated from the end of probing on, because probing retries for ever while a slave is missing;
`EndsOrProbes` of the driver has the same exception.
Deadlock is checked in all runs.

## 4. Proofs

All theorems hold for every number of slaves, pipeline, number of faults, messages, handlers, width of int and set of
job files, from the named assumptions on the constants alone. Every invariant and every action property of the passing
runs is a theorem.

*Sums.* Many properties compare sums over slaves or connections. `SumOver(f, S)` of BenchStat is the number of pairs
`<<x, i>>` with `i` in `0..f[x] - 1` (`Units`), so what one more message does to a sum is what one more element does to the size of
a finite set (`SumPlusOne`, `SumSame`, `SumMonotone`). No proof needs induction over data. `Net` of Report,
whose entries may be negative, is the difference of two such sums.

*JobControl* (`JobControl_proofs`). `IInv` is the inductive invariant: what a slave in the middle of an operation
looks like (`ExecInv`), what a task knows of its slave (`TaskInv`), what the position of the main thread says of all
tasks (`MainInv`), that a failed step shows in a task (`BrokenInv`). The barrier is in `TaskInv` and `MainInv`
together: tasks start a step only after all were "ok", a task that is "err" stays so and ends the run, and the
operation a slave was left with is the one of the current step. Lockstep, the group list, the range, hidden
failures, completeness of SUCCESS and the refinement of BenchJob (`Refinement`, step by step) follow.

*BenchRpc* (`BenchRpc_proofs`). `StepRefines`: every step is a step of JobControl or a stutter, so `JobControlHolds`
and all the above carries over. `RInv` adds, for the counters: `SlaveInv`, where a slave is in the pipeline tells
whether it can have counted anything and whether the master collects from it; `Backed`, a snapshot is below the
counters of the living slaves and non-zero only for collectable ones, which lasts because counters only grow after
their reset and the state of a slave that reports never leaves the collectable numbers again (`Grows`);
`Covers`, what a handler has gathered is no less than the counters at its start and than any snapshot that was
published before it started. `Covers` for a skipped slave is where the gates come in: skipped means not collectable,
which means the base is zero there. `NothingIsInvented`, `NothingIsMissed`, `ALineIsLeft` and
`OnlyOvertakingGoesBack` follow; for `ALineIsLeft`, `SnapshotInv` says that whatever has been published has the keys of
some slave. For `SuccessIsTrue`: `sent` and `notSent` of a slave that is through its sending do not change
any more, so what a handler finds that began after all were through are the last numbers (`FreshInv`); the other counter,
`received`, can only have grown since, and the threshold is monotone in it (`PassesWithMore`). The sums enter the proof
only there. `VerdictInv` says that nobody publishes after the verdict.

*ConnectionRanges*: `beg[c]` is the closed form of the sum of the shares before (`OffsetFacts`), from which
disjointness, absence of gaps and evenness follow by arithmetic.

*JobVerdict* and *Report* (`Report_proofs`). The product below `Half` is not changed by the wrap-around; received = 0
exceeds nothing. `LineExact` is the step from one snapshot to its line, used both for a single call (`VerdictExact`) and
for the snapshot the handlers leave (`PublishedVerdictExact`). For the file, `RInv` ties what a handler has done to what is
there: whoever writes has created the file, a full snapshot means that some handler has published, and while no line
is written none of those that published can be over, for only one that writes turns others away
(`ALineOfTheFileIsLeft`). For the page, `CollectedInv` says that a later snapshot has no fewer sent, `ReadInv` that each
line read is one of them, and `DrawInv` how far the loop that turns totals into rates has come: entries below `i` are
differences, those from `i` on still totals, and the differences below `n` add up to the `n`-th total less the first, for
`n` up to `i`. The loop of the page itself is the induction: each round extends the telescope by one entry
(`OneMoreTelescopes`). `ThePageAddsUp` is what holds when it is through.

*JenkinsDriver* (`JenkinsDriver_proofs`). `ServiceInv`: creation is only reached without a connection string and with a
clear group, the loops of a type are only entered with a string, and a group is only deleted where there is no string or a
local SignalR; none of the three is inductive without the others. `JobHasService` and `AtMostOneService` follow.
`MasterInv`: the master's host is the last of the list, so when the killing comes to its end without an error its processes
are gone, whatever happened on the hosts before it, and a job only starts processes on the others until it starts its
master (`MasterIsAlone`). For the order of the jobs, `LoopPlaces` gives the numbers a loop with base, step and limit goes
through (none where the step or the length is 0), and `OrderInv` says that the jobs run are
those of the matrix that come before the place of the loops in lexicographic order, the current one included from the start of
its body on; with every loop at its end these are all (`MatrixIsRun`). `ResultInv` adds that the files of those jobs are
there. That a later job does not overwrite them needs directories that differ (`DirsDiffer`), which is so where the
job file names type and cell once, as `ResultsKept` says (`ResultsStay`).

*StartConn* (`SlaveOps_proofs`). The tasks so far are exactly `0..i - 1`, `i + left = count`, and a batch is positive
and no larger than `left` while the loop runs. That the share of `--concurrentConnection` does not exceed
that of `--connections` if the whole does not (`ShareMonotone`) is what makes "all" of "all or none".

*SendMsg* (`SlaveOps_proofs`). `TotalInv`: once every slave sends, the total of the hub is either the one some slave holds or
still on its way to one, or a message is yet to be counted that will pass it; a slave that takes up a smaller answer
later keeps the larger. `Holds` follows the total through the handlers as well: from `answers` to `calls`, to `setting`, to
`server`; `ArriveBags`, `CountsBags` and their like say what a bag contains after each step. `Counted`: a slave has one callback per step it
has begun; while its counters are being cleared, what it counts and what its handlers have yet to count is no more than
`meanwhile`; from then on both together are `step` times the messages that arrived, plus at most `meanwhile`, for a handler
that counts only moves a call from one to the other. `TotalIsFound` and `EachCountsPerStep` follow. As the latter holds of
every slave, the sum the verdict of step `k` is drawn from is at most `k` times the number of messages that arrived plus
the calls that overlap the reset, so but for these a SUCCESS means more than `70/k` percent (`SuccessPerStep`).

*GroupOp* (`GroupOp_proofs`). `IInv` holds the facts about indices: calls on a wire name the group of their own
connection, and how far the loop over the range has come tells whether connections will suffice. `Order` holds those
about time: `Phase`, which tasks and loops may be under way at a program point; `Calling`, on every wire joins come
first and leaves last; `Joining`, a connection with an entry has its join in the pool, on the wire or done until its
slave leaves; `Leaving`, one that is a member then has a leave coming. None of them is inductive alone: a
message is behind its join because the pool is empty when sending starts, and before the leave because all loops
were awaited. `LeavesClean` and `ReachesItself` follow. For the failures, `Counting` relates the counter of an operation
to the indices without a connection or a group (`Missing`): it is the number of those that the loop has passed and
whose task is no longer in the pool (`Thrown`), on which a step of the loop and the end of a task act one index at a
time (`ThrownQueue`, `ThrownRun`). At rest these are all of them (`FailuresMatch`).

*MixOp* (`MixOp_proofs`). If `connections` is the sum of three numbers, its quotient by `N` exceeds the sum of their
quotients by 0, 1 or 2 (`Between`), and in each case the remainders decide who gets one more; the steps
leave the numbers alone. `MixInv` places every loop, call and message with a connection of its kind, and has `member`
empty throughout. `HeardInv`: what a connection has counted and what is in transit to it does not exceed what was sent to it
(`SentTo`, its own sends for an echo, those of all broadcasters for a broadcast), whatever was lost before it listened
or reset (`KindsKeptApart`). `CountInv`: the entries of a list add up to the sends of its kind, and the counter of messages is that of all, but for the calls that are
out (`Counted`), and once the lists are saved no call is (`ListsMatch`).

Only model-checked: `EndsAfterProbe`, `RunEnds`, `BatchesEnd`, `ComesToRest` and `EndsOrProbes`, the liveness
properties. They rest on weak fairness, hence on ENABLED, which the proof system does not support.
`NothingReceivedFails`, `SuccessIsComplete`, `EvenShares` and the type invariants are proved and in no run.

## 5. Not modelled, and simplifications

* In JobControl and BenchRpc a run starts with fresh slaves, as the driver starts them anew for every job. A worker
  that survives a run (`WorkerExisted`) is in StartConn, for the connection counters it keeps.
* In JobControl `--connections` and `--groupConnection` agree where an operation indexes its connections by the
  range; GroupOp has the cases where they do not.
* GroupOp: the five seconds after a loop of `Task.Run` are taken to be enough for the thread pool to run the tasks,
  which is what the code relies on; not for the hub. The joins and leaves of `joinGroup` and `leaveGroup` as steps of
  their own keep only their program points (JobControl): no job file has them, and nothing reads the groups afterwards.
* One sending step per pipeline in BenchRpc (`ShapeAssumption`), echo or broadcast, as in all the job files; SendMsg has
  more, with one connection per slave and without the timer.
* MixOp: the surplus of `--connections` over the kinds is what `createConn` opened; how the connections come about
  and where they break is in the other modules. The callbacks of a slave are registered in one step.
* Report: a snapshot is collected in one step and has its keys (BenchRpc has the steps, and `VerdictRecorded`); the file is
  that of one scenario. The ten buckets below one second are one number. Pie and latency charts and the list of
  reports, which only lay out what they read, are left out, and so is the division by what was sent.
* JenkinsDriver: the hosts are remote (for "localhost" the driver neither kills nor logs in), and no other run of the driver
  works in the same resource group meanwhile. That a result is kept is said of the jobs whose type and cell the file names
  once. The local step `debugmaclocal` runs the same loops on one host; the other steps of the command line are
  single calls. Random names of services are taken to differ.
* Virtual machine provisioning: what the tasks do inside is a sequence of calls of the Azure SDK; the model has only how
  they may end.
* Delays: a `Task.Delay` is a point where others may run, nothing more.
* The contents of logs, of the slaves' record file and of the times in the counter file.
* The legacy client (`Client`), the predecessor of the RPC programs that nothing starts; the operations on the dogfood
  service, deployment scripts and samples, which are sequences of commands.
* The JavaScript of third parties under `AppServer/wwwroot/scripts`, `src/basic_sample/server/wwwroot/scripts` and in the
  report (jquery, bootstrap, msgpack5, signalr, Chart.js): vendored copies, not the program of this repository, though
  they are nearly all of its JavaScript by lines. The framework itself is written in C#, and of its own JavaScript
  there is the report.

## 6. Further work

Everything the plan put first is done: the job, its load, its verdict, its steps in detail, the driver around it and
the report after it. What would come next, in this order: `joinGroup` and `leaveGroup` as steps with a list each, on top of
GroupOp; workers that survive a run in BenchRpc, together with the repeated steps of SendMsg; the jobs and
continuations of the legacy client.
