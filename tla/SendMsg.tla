------------------------------- MODULE SendMsg -------------------------------
(***************************************************************************)
(* Sending steps of echo or broadcast, as many as the pipeline has, seen   *)
(* from the counters: every step registers its callbacks on the same       *)
(* connections again, clears the counters while messages of the step       *)
(* before may still arrive, and sends.  The hub counts a call and then     *)
(* reads its total again for the answer.  An answer calls every callback   *)
(* of its connection; each call counts by itself and then keeps the        *)
(* largest total seen, while others do the same and the counters are       *)
(* cleared.  The total is static: it outlives the steps.  A slave has one  *)
(* connection, whose calls may overlap as those of several do.             *)
(***************************************************************************)
EXTENDS BenchStat, Bags

CONSTANTS
  Slaves,    (* the slaves                                                  *)
  Steps,     (* sending steps in the pipeline                               *)
  MaxMsgs,   (* bound: sends of a slave in one step                         *)
  MaxCalls,  (* bound: calls of handlers that are out at a time             *)
  MaxLate    (* bound: messages and handlers still out at the next step     *)

ASSUME SlavesAssumption == IsFiniteSet(Slaves) /\ Slaves # {}
ASSUME StepsAssumption == Steps \in Nat \ {0} /\ MaxMsgs \in Nat
ASSUME BoundsOfCalls == MaxCalls \in Nat /\ MaxCalls >= Steps /\ MaxLate \in Nat

VARIABLES
  scenario,  (* --scenario                                                  *)
  step,      (* the sending step the master has reached                     *)
  phase,     (* program point of BaseSendMsgOp.Do, per slave                *)
  callbacks, (* handlers registered on the connection of a slave            *)
  sent, notSent, server,             (* counters of a slave                 *)
  lower,     (* the sum of its buckets message:lt:100 to message:lt:1000    *)
  upper,     (* its bucket message:ge:1000                                  *)
  toHub,     (* calls of a slave under way to the hub                       *)
  atHub,     (* calls of a slave the hub has counted and not yet answered   *)
  total,     (* _totalReceivedEcho or _totalReceivedBroadcast               *)
  answers,   (* per slave: the totals under way to it                       *)
  calls,     (* per slave: the totals of the handler calls still to count   *)
  setting,   (* those of the calls that have counted: SetServerCounter next *)
  meanwhile, (* calls not yet counted when a slave began to clear its       *)
             (* counters, and those made while it did                       *)
  arrived    (* messages a slave got since they were cleared                *)

sending  == <<sent, notSent>>
received == <<lower, upper>>
hub      == <<toHub, atHub, total>>
handlers == <<calls, setting>>
history  == <<meanwhile, arrived>>
svars == <<scenario, step, phase, callbacks, sending, received, server, hub,
          answers, handlers, history>>

\* Who gets the answer to a call of slave s.
Receivers(s) == IF scenario = "echo" THEN {s} ELSE Slaves
Callers(s)   == IF scenario = "echo" THEN {s} ELSE Slaves

\* The messages under way to slave s, in calls or in answers.
UnderWay(s) ==
  SumOver([c \in Slaves |-> toHub[c] + atHub[c]], Callers(s))
    + SumOver(answers[s], DOMAIN answers[s])

\* The calls of handlers of slave s that have not counted yet, and all that
\* are out at any slave.
Pending(s) == SumOver(calls[s], DOMAIN calls[s])
HandlersOut ==
  SumOver([s \in Slaves |-> Pending(s) + SumOver(setting[s], DOMAIN setting[s])],
          Slaves)

SInit ==
  /\ scenario \in {"echo", "broadcast"}
  /\ step = 1
  /\ phase = [s \in Slaves |-> "idle"]
  /\ callbacks = [s \in Slaves |-> 0]
  /\ sent = [s \in Slaves |-> 0] /\ notSent = [s \in Slaves |-> 0]
  /\ lower = [s \in Slaves |-> 0] /\ upper = [s \in Slaves |-> 0]
  /\ server = [s \in Slaves |-> 0]
  /\ toHub = [s \in Slaves |-> 0] /\ atHub = [s \in Slaves |-> 0]
  /\ total = 0
  /\ answers = [s \in Slaves |-> EmptyBag]
  /\ calls = [s \in Slaves |-> EmptyBag]
  /\ setting = [s \in Slaves |-> EmptyBag]
  /\ meanwhile = [s \in Slaves |-> 0] /\ arrived = [s \in Slaves |-> 0]

Goto(s, from, to) == phase[s] = from /\ phase' = [phase EXCEPT ![s] = to]

-----------------------------------------------------------------------------
(* The slave                                                                *)

\* One more handler, beside those of earlier steps.
SetCallbacks(s) ==
  /\ Goto(s, "idle", "set")
  /\ callbacks' = [callbacks EXCEPT ![s] = @ + 1]
  /\ UNCHANGED <<scenario, step, sending, received, server, hub, answers,
                 handlers, history>>

\* Mutant of ResetLatencies: the buckets go on from step to step.
KeepLatencies(s) ==
  /\ Goto(s, "set", "clearing")
  /\ meanwhile' = [meanwhile EXCEPT ![s] = Pending(s)]
  /\ UNCHANGED <<scenario, step, callbacks, sending, received, server, hub,
                 answers, handlers, arrived>>

\* ResetCounters clears key by key: the buckets below 1000 ms come first...
ResetLatencies(s) ==
  /\ Goto(s, "set", "clearing")
  /\ lower' = [lower EXCEPT ![s] = 0]
  /\ meanwhile' = [meanwhile EXCEPT ![s] = Pending(s)]
  /\ UNCHANGED <<scenario, step, callbacks, sending, upper, server, hub,
                 answers, handlers, arrived>>

\* ...then server:received and the counters of sending...
ResetServer(s) ==
  /\ Goto(s, "clearing", "last")
  /\ server' = [server EXCEPT ![s] = 0]
  /\ sent' = [sent EXCEPT ![s] = 0] /\ notSent' = [notSent EXCEPT ![s] = 0]
  /\ UNCHANGED <<scenario, step, callbacks, received, hub, answers,
                 handlers, history>>

\* ...and the bucket for all above at the end.
ResetUpper(s) ==
  /\ Goto(s, "last", "running")
  /\ upper' = [upper EXCEPT ![s] = 0]
  /\ arrived' = [arrived EXCEPT ![s] = 0]
  /\ UNCHANGED <<scenario, step, callbacks, sending, lower, server, hub,
                 answers, handlers, meanwhile>>

\* A round of the loop of StartSendingMessageAsync.
Send(s) ==
  /\ phase[s] = "running"
  /\ sent[s] + notSent[s] < MaxMsgs
  /\ \/ /\ sent' = [sent EXCEPT ![s] = @ + 1] /\ UNCHANGED notSent
        /\ toHub' = [toHub EXCEPT ![s] = @ + 1]
     \/ /\ notSent' = [notSent EXCEPT ![s] = @ + 1]
        /\ UNCHANGED <<sent, toHub>>
  /\ UNCHANGED <<scenario, step, phase, callbacks, received, server, atHub,
                 total, answers, handlers, history>>

\* The duration is over; StartSendMsg returns.
SendingEnds(s) ==
  /\ Goto(s, "running", "done")
  /\ UNCHANGED <<scenario, step, callbacks, sending, received, server, hub,
                 answers, handlers, history>>

Copies(n, k) == [m \in {n} |-> k]

\* An answer arrives: every handler the connection has by now is called.  An
\* answer that is lost stays under way.
Arrive(s, n) ==
  /\ BagIn(n, answers[s])
  /\ HandlersOut + callbacks[s] <= MaxCalls
  /\ answers' = [answers EXCEPT ![s] = @ (-) SetToBag({n})]
  /\ calls' = IF callbacks[s] = 0 THEN calls
              ELSE [calls EXCEPT ![s] = @ (+) Copies(n, callbacks[s])]
  /\ meanwhile' = IF phase[s] \in {"clearing", "last"}
                    THEN [meanwhile EXCEPT ![s] = @ + callbacks[s]]
                    ELSE meanwhile
  /\ arrived' = IF phase[s] \in {"running", "done"}
                  THEN [arrived EXCEPT ![s] = @ + 1] ELSE arrived
  /\ UNCHANGED <<scenario, step, phase, callbacks, sending, received, server,
                 hub, setting>>

\* Mutant of CountLatency: without the return in its loop, a message below
\* 1000 ms is counted in the last bucket as well.
CountLatencyOn(s) ==
  /\ \/ lower' = [lower EXCEPT ![s] = @ + 1]
     \/ UNCHANGED lower
  /\ upper' = [upper EXCEPT ![s] = @ + 1]

\* The time this handler has taken decides which bucket gets one more.
CountLatency(s) ==
  \/ lower' = [lower EXCEPT ![s] = @ + 1] /\ UNCHANGED upper
  \/ upper' = [upper EXCEPT ![s] = @ + 1] /\ UNCHANGED lower

\* One handler counts its message...
HandlerCounts(s, n) ==
  /\ BagIn(n, calls[s])
  /\ calls' = [calls EXCEPT ![s] = @ (-) SetToBag({n})]
  /\ CountLatency(s)
  /\ setting' = [setting EXCEPT ![s] = @ (+) SetToBag({n})]
  /\ UNCHANGED <<scenario, step, phase, callbacks, sending, server, hub,
                 answers, history>>

\* Mutant of SetServerCounter: the answer that comes last is kept.
SetServerCounterLast(s, n) == server' = [server EXCEPT ![s] = n]

SetServerCounter(s, n) ==
  server' = [server EXCEPT ![s] = IF n > @ THEN n ELSE @]

\* ...and then offers the total it brought, by then perhaps an old one.
HandlerSets(s, n) ==
  /\ BagIn(n, setting[s])
  /\ setting' = [setting EXCEPT ![s] = @ (-) SetToBag({n})]
  /\ SetServerCounter(s, n)
  /\ UNCHANGED <<scenario, step, phase, callbacks, sending, received, hub,
                 answers, calls, history>>

-----------------------------------------------------------------------------
(* The hub                                                                  *)

\* Interlocked.Increment ...
HubCounts(s) ==
  /\ toHub[s] > 0
  /\ toHub' = [toHub EXCEPT ![s] = @ - 1]
  /\ atHub' = [atHub EXCEPT ![s] = @ + 1]
  /\ total' = total + 1
  /\ UNCHANGED <<scenario, step, phase, callbacks, sending, received, server,
                 answers, handlers, history>>

\* ... and the second reading of the total, by then that of other calls too.
HubAnswers(s) ==
  /\ atHub[s] > 0
  /\ atHub' = [atHub EXCEPT ![s] = @ - 1]
  /\ answers' = [r \in Slaves |->
                   IF r \in Receivers(s) THEN answers[r] (+) SetToBag({total})
                   ELSE answers[r]]
  /\ UNCHANGED <<scenario, step, phase, callbacks, sending, received, server,
                 toHub, total, handlers, history>>

-----------------------------------------------------------------------------
\* The master goes on to the next sending step when all slaves are through.
NextStep ==
  /\ step < Steps
  /\ \A s \in Slaves : phase[s] = "done"
  /\ HandlersOut + SumOver([s \in Slaves |-> UnderWay(s)], Slaves) <= MaxLate
  /\ step' = step + 1
  /\ phase' = [s \in Slaves |-> "idle"]
  /\ meanwhile' = [s \in Slaves |-> 0] /\ arrived' = [s \in Slaves |-> 0]
  /\ UNCHANGED <<scenario, callbacks, sending, received, server, hub, answers,
                 handlers>>

Settled ==
  /\ step = Steps
  /\ \A s \in Slaves : /\ phase[s] = "done" /\ UnderWay(s) = 0
                       /\ calls[s] = EmptyBag /\ setting[s] = EmptyBag

SNext ==
  \/ \E s \in Slaves :
       \/ SetCallbacks(s) \/ ResetLatencies(s) \/ ResetServer(s)
       \/ ResetUpper(s) \/ Send(s) \/ SendingEnds(s)
       \/ HubCounts(s) \/ HubAnswers(s)
       \/ \E n \in DOMAIN answers[s] : Arrive(s, n)
       \/ \E n \in DOMAIN calls[s] : HandlerCounts(s, n)
       \/ \E n \in DOMAIN setting[s] : HandlerSets(s, n)
  \/ NextStep
  \/ Settled /\ UNCHANGED svars

SSpec == SInit /\ [][SNext]_svars

-----------------------------------------------------------------------------
(***************************************************************************)
(* No slave ever reports a total the hub has not reached, and when every   *)
(* slave has sent in the last step, nothing is lost and all has arrived,   *)
(* one of them, and so the master, reports the total itself: although the  *)
(* answers carry the totals of other calls, arrive in any order and may be *)
(* those of the step before, and although the counter has been cleared.    *)
(***************************************************************************)
ServerTotalFound ==
  /\ \A s \in Slaves : server[s] <= total
  /\ Settled /\ (\A s \in Slaves : sent[s] > 0)
       => \E s \in Slaves : server[s] = total

Received(s) == lower[s] + upper[s]

(***************************************************************************)
(* Once its counters are cleared a slave counts every message that reaches *)
(* it as often as there have been sending steps, as soon as the handlers   *)
(* it calls are through: stragglers of the step before too, in whatever    *)
(* order the hub, the answers, the handlers of several messages and the    *)
(* clearing come.  Only a call of a handler that was out when the clearing *)
(* began, or was made before it ended, may be counted beside that or lost: *)
(* of two handlers of one straggler the first may count before and the     *)
(* second after it.                                                        *)
(***************************************************************************)
CountedPerStep ==
  \A s \in Slaves :
    phase[s] \in {"running", "done"} =>
      Received(s) + Pending(s)
        \in step * arrived[s]..step * arrived[s] + meanwhile[s]

Expected ==
  SumOver([s \in Slaves |-> sent[s] + notSent[s]], Slaves)
    * IF scenario = "broadcast" THEN Cardinality(Slaves) ELSE 1

(***************************************************************************)
(* So a verdict of SUCCESS after the k-th sending step only means that     *)
(* more than 70/k percent of the expected messages arrived, and less if    *)
(* handlers were at work while the counters were cleared.                  *)
(***************************************************************************)
VerdictByStep ==
  (\A s \in Slaves : phase[s] = "done") =>
    (Exceeds(SumOver([s \in Slaves |-> Received(s)], Slaves), Expected) =>
       10 * SumOver([s \in Slaves |-> step * arrived[s] + meanwhile[s]],
                    Slaves)
         > 7 * Expected)
=============================================================================
