------------------------------ MODULE BenchRpc -------------------------------
(***************************************************************************)
(* JobControl with the counters: the messages a sending step issues and    *)
(* receives, the counters every slave keeps of them, the timer of the      *)
(* master whose handlers collect them (several handlers may overlap, each  *)
(* asks one slave after the other), and the verdict drawn from the last    *)
(* snapshot published.                                                     *)
(*                                                                         *)
(* A snapshot is kept slave by slave; the sums the master adds up are      *)
(* Total.  The server:* counters are merged with Max instead and take no   *)
(* part in the verdict; they are left out here.                            *)
(***************************************************************************)
EXTENDS JobControl

CONSTANTS
  MaxMsgs,   (* bound: messages one slave issues in a run                   *)
  Handlers   (* the Elapsed handlers that can be in flight at once          *)

Sending(k) == OpOf(k) = Scenario

\* The one sending step of the pipeline, by the assumption that follows.
SendStep == CHOOSE k \in Steps : Sending(k)

(***************************************************************************)
(* The pipelines of the job files: connections are created and started,    *)
(* one step runs the scenario, and only stopping and disposing follow it.  *)
(***************************************************************************)
ASSUME ShapeAssumption ==
  \E k \in Steps :
    /\ Sending(k)
    /\ \A j \in Steps : j < k => OpOf(j) \in {"createConn", "startConn"}
    /\ \A j \in Steps : j > k => OpOf(j) \in {"stopConn", "disposeConn"}
ASSUME MsgsAssumption == MaxMsgs \in Nat
\* What a send brings to whom is modelled for these two (see Fan).
ASSUME ScenarioAssumption == Scenario \in {"echo", "broadcast"}

VARIABLES
  cnt,       (* per slave: its Counter                                      *)
  issued,    (* per slave: messages handed to SendAsync                     *)
  awaiting,  (* per slave: SendAsync calls whose await has not returned     *)
  transit,   (* per slave: messages on their way to its connections         *)
  tick,      (* per handler: where it is and what it has gathered           *)
  counters   (* _counters: the snapshot published last                      *)

load    == <<cnt, issued, awaiting, transit>>
collect == <<tick, counters>>
rvars   == <<jvars, load, collect>>

Keys == {"sent", "notSent", "received"}
Zero == [k \in Keys |-> 0]
Blank == [s \in Slaves |-> Zero]

\* _counters before anything is published: null.
NoCounters ==
  [published |-> FALSE, parts |-> Blank, reported |-> {}, fresh |-> FALSE]

(* A handler at rest.  at: what it does next; c: the client it has reached; *)
(* todo: keys GetAll has yet to read; parts, reported: what it gathered.    *)
(* For the properties: floor: the counters of the slaves that were sending  *)
(* or done when it began; fresh: all slaves were done sending then;         *)
(* overtaken: another handler published meanwhile.                          *)
Rest == [at |-> "off", c |-> 1, isSend |-> FALSE, isComplete |-> FALSE,
         todo |-> {}, parts |-> Blank, reported |-> {},
         floor |-> Blank, fresh |-> FALSE, overtaken |-> FALSE]

RInit ==
  /\ Init
  /\ cnt = Blank
  /\ issued = [s \in Slaves |-> 0]
  /\ awaiting = [s \in Slaves |-> 0]
  /\ transit = [s \in Slaves |-> 0]
  /\ tick = [h \in Handlers |-> Rest]
  /\ counters = NoCounters

-----------------------------------------------------------------------------
(* The load                                                                 *)

Count(s, k) == cnt' = [cnt EXCEPT ![s][k] = @ + 1]

InLoop(s) == stage[s] = "running"

\* How many messages one send of slave s brings to the connections of t.
Fan(s, t) ==
  IF Scenario = "broadcast" THEN Conns(t) ELSE IF s = t THEN 1 ELSE 0

\* One of the connections of s, each with one send at a time, calls SendAsync.
SendAsync(s) ==
  /\ InLoop(s)
  /\ issued[s] < MaxMsgs
  /\ awaiting[s] < Conns(s)
  /\ issued' = [issued EXCEPT ![s] = @ + 1]
  /\ awaiting' = [awaiting EXCEPT ![s] = @ + 1]
  /\ transit' = [t \in Slaves |-> transit[t] + Fan(s, t)]
  /\ UNCHANGED <<jvars, cnt, collect>>

\* The await returns; the answer may have been received before.
IncreseSentMsg(s) ==
  /\ awaiting[s] > 0
  /\ awaiting' = [awaiting EXCEPT ![s] = @ - 1]
  /\ Count(s, "sent")
  /\ UNCHANGED <<jvars, issued, transit, collect>>

\* SendAsync throws, because the connection never started or has dropped.
IncreseNotSent(s) ==
  /\ InLoop(s)
  /\ issued[s] < MaxMsgs
  /\ awaiting[s] < Conns(s)
  /\ issued' = [issued EXCEPT ![s] = @ + 1]
  /\ Count(s, "notSent")
  /\ UNCHANGED <<jvars, awaiting, transit, collect>>

\* The callbacks of slave s are registered: its Setup is behind it.
Listening(s) == cell[s] >= SendStep /\ stage[s] \notin {"delay", "setup"}

\* The callback of a connection counts a message into a latency bucket.  It
\* need never come: a lost message stays in transit.
CountLatency(s) ==
  /\ Listening(s)
  /\ transit[s] > 0
  /\ transit' = [transit EXCEPT ![s] = @ - 1]
  /\ Count(s, "received")
  /\ UNCHANGED <<jvars, issued, awaiting, collect>>

\* The steps of JobControl, with what they do to the load of their slave.
ResetCounters(s) == cnt' = [cnt EXCEPT ![s] = Zero]

\* Mutant of AwaitAll: the sending tasks are started and not awaited.
AwaitNone(s) == TRUE

\* Task.WhenAll over the sending tasks of the connections.
AwaitAll(s) == awaiting[s] = 0

OperationStep(s) ==
  \/ /\ Setup(s)
     /\ ResetCounters(s)
     /\ UNCHANGED <<issued, awaiting, transit, collect>>
  \/ /\ SendingEnds(s)
     /\ AwaitAll(s)
     /\ UNCHANGED <<load, collect>>
  \/ /\ StopConn(s)
     /\ transit' = IF stage'[s] = "idle" THEN [transit EXCEPT ![s] = 0]
                                         ELSE transit
     /\ UNCHANGED <<cnt, issued, awaiting, collect>>
  \/ /\ \/ CreateConn(s) \/ StartConn(s) \/ SendReadyStep(s)
        \/ SendRunningStep(s) \/ SaveCounters(s) \/ DisposeConn(s)
        \/ OpThrows(s)
     /\ UNCHANGED <<load, collect>>

CrashStep(s) ==
  /\ Crash(s)
  /\ cnt' = [cnt EXCEPT ![s] = Zero]
  /\ issued' = [issued EXCEPT ![s] = 0]
  /\ awaiting' = [awaiting EXCEPT ![s] = 0]
  /\ transit' = [transit EXCEPT ![s] = 0]
  /\ UNCHANGED collect

-----------------------------------------------------------------------------
(* The collection timer: AutoReset, started after setup, never stopped, and *)
(* its handlers run on the thread pool whether or not the one before is     *)
(* through.  An exception in a handler is swallowed by the timer.           *)

TimerOn == mpc \in {"wait", "gap", "verdict"}

TickStarts(h) ==
  /\ TimerOn
  /\ tick[h].at = "off"
  /\ tick' = [tick EXCEPT ![h] =
       [Rest EXCEPT
          !.at = "state",
          !.floor = [s \in Slaves |->
                       IF MasterCollects(stat[s]) THEN cnt[s] ELSE Zero],
          !.fresh = \A s \in Slaves : MasterCollects(stat[s])
                                      /\ stat[s] >= SendComplete]]
  /\ UNCHANGED <<jvars, load, counters>>

\* Done with its client, a handler turns to the next one or to publication.
GoOn(t) == IF t.c < N THEN [t EXCEPT !.at = "state", !.c = t.c + 1]
                      ELSE [t EXCEPT !.at = "publish"]

\* GetState of its client and the gate on the answer.
GetState(h) ==
  LET t == tick[h]  st == stat[t.c] IN
  /\ t.at = "state"
  /\ life[t.c] = "up"
  /\ tick' = [tick EXCEPT ![h] =
       IF MasterCollects(st)
         THEN [t EXCEPT !.at = "request", !.isSend = TRUE,
                        !.isComplete = FALSE]
         ELSE GoOn([t EXCEPT !.isComplete =
                               t.isComplete \/ CountsAsComplete(st)])]
  /\ UNCHANGED <<jvars, load, counters>>

\* CollectCounters arrives: the slave looks at its state again.
CollectCounters(h) ==
  LET t == tick[h] IN
  /\ t.at = "request"
  /\ life[t.c] = "up"
  /\ tick' = [tick EXCEPT ![h] =
       IF SlaveReports(stat[t.c])
         THEN [t EXCEPT !.at = "read", !.todo = Keys]
         ELSE GoOn(t)]
  /\ UNCHANGED <<jvars, load, counters>>

\* Mutant of ReadCounter: the pairs are merged into the ones published last.
ReadCounterOnTop(h, k) ==
  LET t == tick[h]
      read == [t EXCEPT !.todo = t.todo \ {k},
                        !.parts[t.c][k] = counters.parts[t.c][k] + cnt[t.c][k]]
  IN
  /\ t.at = "read"
  /\ k \in t.todo
  /\ life[t.c] = "up"
  /\ tick' = [tick EXCEPT ![h] =
       IF t.todo = {k}
         THEN GoOn([read EXCEPT !.reported = read.reported \cup {t.c}])
         ELSE read]
  /\ UNCHANGED <<jvars, load, counters>>

\* GetAll enumerates a ConcurrentDictionary: its lock keeps no writer out,
\* so every counter is read at a moment of its own.  The last one ends the
\* call, and the master merges the pairs.
ReadCounter(h, k) ==
  LET t == tick[h]
      read == [t EXCEPT !.todo = t.todo \ {k},
                        !.parts[t.c][k] = cnt[t.c][k]]
  IN
  /\ t.at = "read"
  /\ k \in t.todo
  /\ life[t.c] = "up"
  /\ tick' = [tick EXCEPT ![h] =
       IF t.todo = {k}
         THEN GoOn([read EXCEPT !.reported = read.reported \cup {t.c}])
         ELSE read]
  /\ UNCHANGED <<jvars, load, counters>>

\* Mutant of TickDies: the exception ends the master.
TickDiesLoudly(h) ==
  /\ tick[h].at \in {"state", "request", "read"}
  /\ life[tick[h].c] # "up"
  /\ mpc # "ended"
  /\ Abort
  /\ tick' = [tick EXCEPT ![h] = Rest]
  /\ UNCHANGED <<client, step, task, slaveside, faults, broken, load, counters>>

\* A call to a process that is gone: the handler dies, unnoticed.
TickDies(h) ==
  /\ tick[h].at \in {"state", "request", "read"}
  /\ life[tick[h].c] # "up"
  /\ tick' = [tick EXCEPT ![h] = Rest]
  /\ UNCHANGED <<jvars, load, counters>>

Publishable(h) ==
  /\ tick[h].at = "publish"
  /\ tick[h].isSend
  /\ ~tick[h].isComplete

\* _counters is overwritten, whatever another handler put there.
Publish(h) ==
  /\ Publishable(h)
  /\ counters' = [published |-> TRUE, parts |-> tick[h].parts,
                  reported |-> tick[h].reported, fresh |-> tick[h].fresh]
  /\ tick' = [g \in Handlers |->
       IF g = h THEN Rest
       ELSE IF tick[g].at = "off" THEN tick[g]
       ELSE [tick[g] EXCEPT !.overtaken = TRUE]]
  /\ UNCHANGED <<jvars, load>>

NothingToPublish(h) ==
  /\ tick[h].at = "publish"
  /\ ~Publishable(h)
  /\ tick' = [tick EXCEPT ![h] = Rest]
  /\ UNCHANGED <<jvars, load, counters>>

TickStep(h) ==
  \/ GetState(h)
  \/ CollectCounters(h)
  \/ \E k \in Keys : ReadCounter(h, k)
  \/ TickDies(h)
  \/ Publish(h)
  \/ NothingToPublish(h)

-----------------------------------------------------------------------------
(* The verdict                                                              *)

Total(parts, k) == SumOver([s \in Slaves |-> parts[s][k]], Slaves)

\* GetSuccessPercentage > 0.7, the totals being small (see JobVerdict).
Passes(parts) ==
  LET total == Total(parts, "sent") + Total(parts, "notSent") IN
  Exceeds(Total(parts, "received"),
          total * IF Scenario = "broadcast" THEN Connections ELSE 1)

\* The outcome of SaveJobResult(_counters): null, a missing key, pass, fail.
Outcome ==
  IF ~counters.published THEN <<"FAIL", "ok">>
  ELSE IF counters.reported = {} THEN <<"none", "error">>
  ELSE IF Passes(counters.parts) THEN <<"SUCCESS", "ok">>
  ELSE <<"FAIL", "error">>

\* Nothing a handler does from here on can matter: the process is ending.
HandlersEnd == tick' = [h \in Handlers |-> Rest]

SaveJobResult ==
  /\ Verdict(Outcome[1], Outcome[2])
  /\ HandlersEnd
  /\ UNCHANGED <<load, counters>>

-----------------------------------------------------------------------------
MasterStep ==
  /\ MainThread
  /\ IF Ended' THEN HandlersEnd ELSE UNCHANGED tick
  /\ UNCHANGED <<load, counters>>

RpcStep(s) ==
  /\ StartSlave(s) \/ TaskStep(s) \/ RpcLost(s)
  /\ UNCHANGED <<load, collect>>

LoadStep(s) ==
  \/ SendAsync(s)
  \/ IncreseSentMsg(s)
  \/ IncreseNotSent(s)
  \/ CountLatency(s)

RNext ==
  \/ MasterStep
  \/ SaveJobResult
  \/ \E s \in Slaves : RpcStep(s) \/ CrashStep(s) \/ OperationStep(s)
                       \/ LoadStep(s)
  \/ \E h \in Handlers : TickStarts(h) \/ TickStep(h)
  \/ Ended /\ UNCHANGED rvars

RSpec == RInit /\ [][RNext]_rvars

\* As in JobControl; the threads that await a send go on as well, and so do
\* the handlers of the timer.  Nothing makes a message arrive.
RFairness ==
  /\ WF_rvars(MasterStep)
  /\ WF_rvars(SaveJobResult)
  /\ \A s \in Slaves :
       /\ WF_rvars(OperationStep(s))
       /\ WF_rvars(RpcStep(s) /\ TaskStep(s))
       /\ WF_rvars(IncreseSentMsg(s))
  /\ \A h \in Handlers : WF_rvars(TickStep(h))

FairRSpec == RSpec /\ RFairness

-----------------------------------------------------------------------------
(* Properties                                                               *)

Counters == [Slaves -> [Keys -> Nat]]

TickType ==
  [at : {"off", "state", "request", "read", "publish"}, c : Slaves,
   isSend : BOOLEAN, isComplete : BOOLEAN, todo : SUBSET Keys,
   parts : Counters, reported : SUBSET Slaves, floor : Counters,
   fresh : BOOLEAN, overtaken : BOOLEAN]

Snapshots == [published : BOOLEAN, parts : Counters, reported : SUBSET Slaves,
              fresh : BOOLEAN]

RTypeOK ==
  /\ TypeOK
  /\ cnt \in Counters
  /\ issued \in [Slaves -> 0..MaxMsgs]
  /\ awaiting \in [Slaves -> Nat]
  /\ transit \in [Slaves -> Nat]
  /\ tick \in [Handlers -> TickType]
  /\ counters \in Snapshots

AtMost(p, q) == \A s \in Slaves, k \in Keys : p[s][k] <= q[s][k]

(***************************************************************************)
(* What is published was really counted: no counter of a snapshot exceeds  *)
(* that of the slave, though it was read while writers went on.  (A slave  *)
(* that died has taken its counters with it.)                              *)
(***************************************************************************)
NothingInvented ==
  \A s \in Slaves, k \in Keys :
    life[s] = "up" => counters.parts[s][k] <= cnt[s][k]

(***************************************************************************)
(* What is published is complete: a handler that may publish has at least  *)
(* everything counted, when it began, by the slaves that were sending or   *)
(* done.  The two gates on state numbers, asked one after the other of a   *)
(* slave that goes on meanwhile, skip none of them, not even one that is   *)
(* being stopped or disposed.  (A slave still in SendReady may have        *)
(* received broadcasts; those are only collected once it is running.)      *)
(***************************************************************************)
NothingMissed ==
  \A h \in Handlers :
    Publishable(h) => AtMost(tick[h].floor, tick[h].parts)

(***************************************************************************)
(* The totals go backwards only by overtaking: a handler that published    *)
(* without another one publishing since it began never lowers a counter.   *)
(***************************************************************************)
NoStepBack ==
  [][\A h \in Handlers :
       Publish(h) /\ ~tick[h].overtaken =>
         AtMost(counters.parts, counters'.parts)]_rvars

(***************************************************************************)
(* SaveJobResult reads keys without testing for them.  It never meets a    *)
(* snapshot of no slave at all, so that a run always leaves a line.        *)
(***************************************************************************)
VerdictRecorded == Ended => result # "none"

(***************************************************************************)
(* A SUCCESS drawn from a snapshot whose collection began after all the    *)
(* slaves had completed sending is true of the counters themselves: the    *)
(* share received of all that was ever sent exceeds the threshold.         *)
(***************************************************************************)
VerdictSound ==
  result = "SUCCESS" /\ counters.fresh /\ (\A s \in Slaves : life[s] = "up")
    => Passes(cnt)

\* The counters and the timer change nothing of how the job is run.
ImplementsJobControl == JSpec

\* With the load and the handlers, too, a run that got going comes to its end.
RunEnds == mpc # "probe" ~> Ended
=============================================================================
