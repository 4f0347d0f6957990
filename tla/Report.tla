------------------------------- MODULE Report --------------------------------
(***************************************************************************)
(* From the timer of the master to the page of the report: the handlers    *)
(* publish a snapshot each and append it as a line to counters.txt, which  *)
(* one of them at a time can hold open; the main thread draws the verdict  *)
(* from the snapshot published last; the page reads the file and shows the *)
(* table of the last line and the rates between the lines.  A snapshot is  *)
(* collected in one step and is never without keys (BenchRpc has the       *)
(* steps, and VerdictRecorded there), and there is one sending step.  The  *)
(* file is that of one scenario.                                           *)
(***************************************************************************)
EXTENDS JobVerdict, Sequences

CONSTANT MaxTicks   (* bound: handlers that collect                         *)

ASSUME TicksAssumption == MaxTicks \in Nat

VARIABLES
  snaps,    (* what the handlers have collected, in that order              *)
  stage,    (* per handler: "none", "collected", "published", "writing" or  *)
            (* "over"                                                       *)
  exists,   (* counters.txt is there                                        *)
  lines,    (* its lines                                                    *)
  page,     (* "closed", "error", "broken", "drawing" or "shown"            *)
  data,     (* the lines the page has read                                  *)
  rates,    (* messageRateLines, worked on in place                         *)
  i         (* the loop variable of createMessageRateLineChart              *)

file == <<exists, lines>>
view == <<page, data, rates, i>>
masterVars == <<kind, counters, connection, scenario, at, line, thrown>>
rvars == <<masterVars, snaps, stage, file, view>>

Ticks == 1..MaxTicks

\* The counters of the snapshot before the first.
Nothing == [sent |-> 0, notSent |-> 0, lower |-> 0, upper |-> 0, received |-> 0]
Latest == IF snaps = <<>> THEN Nothing ELSE snaps[Len(snaps)]

RInit ==
  /\ kind = "null" /\ counters = Nothing
  /\ connection \in 1..MaxConnection
  /\ scenario \in {"echo", "broadcast", "group"}
  /\ at = "start" /\ line = "none" /\ thrown = FALSE
  /\ snaps = <<>> /\ stage = [h \in Ticks |-> "none"]
  /\ exists = FALSE /\ lines = <<>>
  /\ page = "closed" /\ data = <<>> /\ rates = <<>> /\ i = 0

-----------------------------------------------------------------------------
(* The handlers of the timer                                                *)

\* message:received is the sum of the buckets.
Received(lower, upper) == lower + upper

\* Bound: what was counted since the snapshot before, nothing, a send with or
\* without its message, a failed send, or a late message.
Growth ==
  {<<0, 0, 0, 0>>, <<1, 0, 0, 0>>, <<1, 0, 1, 0>>, <<0, 1, 0, 0>>, <<0, 0, 0, 1>>}

Grown ==
  {LET lower == Latest.lower + g[3]
       upper == Latest.upper + g[4]
   IN  [sent |-> Latest.sent + g[1], notSent |-> Latest.notSent + g[2],
        lower |-> lower, upper |-> upper, received |-> Received(lower, upper)] :
   g \in Growth}

Collect ==
  /\ Len(snaps) < MaxTicks
  /\ \E snap \in Grown : snaps' = Append(snaps, snap)
  /\ stage' = [stage EXCEPT ![Len(snaps) + 1] = "collected"]
  /\ UNCHANGED <<masterVars, file, view>>

\* _counters is read once, by SaveJobResult.
Publish(h) ==
  /\ stage[h] = "collected"
  /\ stage' = [stage EXCEPT ![h] = "published"]
  /\ IF at = "start" THEN kind' = "full" /\ counters' = snaps[h]
                     ELSE UNCHANGED <<kind, counters>>
  /\ UNCHANGED <<connection, scenario, at, line, thrown, snaps, file, view>>

Locked == \E g \in Ticks : stage[g] = "writing"

\* SaveContentToFile opens the file, or throws while another has it open.
Open(h) ==
  /\ stage[h] = "published"
  /\ \/ Locked /\ stage' = [stage EXCEPT ![h] = "over"] /\ UNCHANGED exists
     \/ ~Locked /\ stage' = [stage EXCEPT ![h] = "writing"] /\ exists' = TRUE
  /\ UNCHANGED <<masterVars, snaps, lines, view>>

\* Mutant of Close: the writer is not disposed of, and its buffer is lost.
CloseUnflushed(h) ==
  /\ stage[h] = "writing"
  /\ stage' = [stage EXCEPT ![h] = "over"]
  /\ UNCHANGED <<masterVars, snaps, file, view>>

Close(h) ==
  /\ stage[h] = "writing"
  /\ lines' = Append(lines, snaps[h])
  /\ stage' = [stage EXCEPT ![h] = "over"]
  /\ UNCHANGED <<masterVars, snaps, exists, view>>

-----------------------------------------------------------------------------
(* The page                                                                 *)

\* A file that is missing fails the request, one without a line the page.
Read ==
  /\ page = "closed"
  /\ \/ ~exists /\ page' = "error" /\ UNCHANGED <<data, rates, i>>
     \/ exists /\ lines = <<>> /\ page' = "broken" /\ UNCHANGED <<data, rates, i>>
     \/ /\ exists /\ lines # <<>> /\ page' = "drawing"
        /\ data' = lines
        /\ rates' = [k \in DOMAIN lines |->
                       [sent |-> lines[k].sent, received |-> lines[k].received]]
        /\ i' = 1
  /\ UNCHANGED <<masterVars, snaps, stage, file>>

Minus(a, b) == [sent |-> a.sent - b.sent, received |-> a.received - b.received]

\* Mutant of Rate: the difference to the entry before.
RateBackwards(k) == IF k = 1 THEN rates[1] ELSE Minus(rates[k], rates[k - 1])

Rate(k) ==
  IF k = Len(rates) THEN Minus(rates[k], rates[k])
  ELSE Minus(rates[k + 1], rates[k])

\* One round of the loop over the lines; the last entry is cut off at the end.
Draw ==
  /\ page = "drawing"
  /\ \/ /\ i <= Len(rates)
        /\ rates' = [rates EXCEPT ![i] = Rate(i)]
        /\ i' = i + 1 /\ UNCHANGED page
     \/ /\ i > Len(rates)
        /\ rates' = SubSeq(rates, 1, Len(rates) - 1)
        /\ page' = "shown" /\ UNCHANGED i
  /\ UNCHANGED <<masterVars, snaps, stage, file, data>>

\* The cells of createLatencyDistributionTable, before the division by sent.
Table ==
  LET last == data[Len(data)]
  IN  <<last.lower, last.upper, last.sent - last.received>>

-----------------------------------------------------------------------------
Verdict == SaveJobResult /\ UNCHANGED <<snaps, stage, file, view>>

RNext ==
  \/ Collect
  \/ \E h \in Ticks : Publish(h) \/ Open(h) \/ Close(h)
  \/ Verdict
  \/ Read \/ Draw
  \/ page \in {"error", "broken", "shown"} /\ UNCHANGED rvars

RSpec == RInit /\ [][RNext]_rvars

-----------------------------------------------------------------------------
(***************************************************************************)
(* Handlers that meet at the file lose lines, but never all: once the      *)
(* handlers are through there is a line if there was a snapshot for the    *)
(* verdict, and only then, so no page of a run that had a SUCCESS breaks.  *)
(***************************************************************************)
LineLeft ==
  (\A h \in Ticks : stage[h] \in {"none", "over"}) =>
    /\ kind = "full" => lines # <<>>
    /\ exists <=> lines # <<>>

\* The sum of integers: SumOver passes over those below zero.
Net(f, S) == SumOver(f, S) - SumOver([k \in S |-> 0 - f[k]], S)

(***************************************************************************)
(* The cells of the table add up to what was sent, and the rates, computed *)
(* in place, to the difference of the last line and the first; a rate is   *)
(* negative only where a handler that collected earlier wrote later.       *)
(***************************************************************************)
PageAddsUp ==
  page = "shown" =>
    /\ Table[1] + Table[2] + Table[3] = data[Len(data)].sent
    /\ Net([k \in DOMAIN rates |-> rates[k].received], DOMAIN rates)
         = data[Len(data)].received - data[1].received
    /\ Net([k \in DOMAIN rates |-> rates[k].sent], DOMAIN rates)
         = data[Len(data)].sent - data[1].sent
    /\ \A k \in DOMAIN rates : rates[k].sent < 0 =>
         \E g, h \in DOMAIN snaps : g < h /\ snaps[h] = data[k] /\ snaps[g] = data[k + 1]
=============================================================================
