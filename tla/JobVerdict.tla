----------------------------- MODULE JobVerdict ------------------------------
(***************************************************************************)
(* SaveJobResult and GetSuccessPercentage of the master, with the integers *)
(* and the floating point division of the machine: sums and products wrap  *)
(* around beyond Half, n/0 is an infinity and 0/0 compares false.  The     *)
(* numbers come from the snapshot published last, which may be missing     *)
(* altogether (null) or lack the keys.                                     *)
(***************************************************************************)
EXTENDS BenchStat

CONSTANTS
  Half,           (* ints are in -Half..Half-1: 2^31 in the code            *)
  MaxCount,       (* bound: the largest counter of a snapshot               *)
  MaxConnection   (* bound: the largest --connections                       *)

ASSUME HalfAssumption == Half \in Nat \ {0}
ASSUME BoundsAssumption == MaxCount \in Nat /\ MaxConnection \in Nat

VARIABLES
  kind,        (* the snapshot: "null", "empty" of keys, or "full"          *)
  counters,    (* its three numbers                                         *)
  connection,  (* --connections                                             *)
  scenario,    (* --scenario                                                *)
  at,          (* "start" or "done"                                         *)
  line,        (* the result appended to the file, "none" before            *)
  thrown       (* an exception leaves SaveJobResult                         *)

vars == <<kind, counters, connection, scenario, at, line, thrown>>

\* An unchecked result of + or * of the language.
Int32(x) == ((x + Half) % (2 * Half)) - Half

Triples == [sent : 0..MaxCount, notSent : 0..MaxCount, received : 0..MaxCount]

Init ==
  /\ kind \in {"null", "empty", "full"}
  /\ counters \in Triples
  /\ connection \in 1..MaxConnection
  /\ scenario \in {"echo", "broadcast", "group", "mix"}
  /\ at = "start" /\ line = "none" /\ thrown = FALSE

\* Mutant of Denominator: messages that could not be sent are not counted.
DenominatorSent(c) ==
  IF scenario = "broadcast" THEN Int32(c.sent * connection) ELSE c.sent

\* What the percentage divides by.
Denominator(c) ==
  LET total == Int32(c.sent + c.notSent)
  IN  IF scenario = "broadcast" THEN Int32(total * connection) ELSE total

\* Group and mix runs are taken to receive everything ("todo" in the code).
MeetsThreshold(c) ==
  \/ scenario \in {"group", "mix"}
  \/ Exceeds(c.received, Denominator(c))

\* The line appended to the file of results.
SaveToFile(result) == line' = result

SaveJobResult ==
  /\ at = "start"
  /\ at' = "done"
  /\ \/ /\ kind = "null"
        /\ SaveToFile("FAIL")
        /\ thrown' = FALSE
     \/ /\ kind = "empty"
        /\ thrown' = TRUE
        /\ UNCHANGED line
     \/ /\ kind = "full"
        /\ MeetsThreshold(counters)
        /\ SaveToFile("SUCCESS")
        /\ thrown' = FALSE
     \/ /\ kind = "full"
        /\ ~MeetsThreshold(counters)
        /\ SaveToFile("FAIL")
        /\ thrown' = TRUE
  /\ UNCHANGED <<kind, counters, connection, scenario>>

Next ==
  \/ SaveJobResult
  \/ at = "done" /\ UNCHANGED vars

Spec == Init /\ [][Next]_vars

-----------------------------------------------------------------------------
TypeOK ==
  /\ kind \in {"null", "empty", "full"}
  /\ counters \in Triples
  /\ connection \in 1..MaxConnection
  /\ scenario \in {"echo", "broadcast", "group", "mix"}
  /\ at \in {"start", "done"}
  /\ line \in {"none", "SUCCESS", "FAIL"}
  /\ thrown \in BOOLEAN

\* What was to be received, in the integers of mathematics.
Expected(c) ==
  (c.sent + c.notSent) * IF scenario = "broadcast" THEN connection ELSE 1

(***************************************************************************)
(* As long as the deliveries expected fit an int, the line of an echo or a *)
(* broadcast run says SUCCESS exactly if more than 70 percent of them were *)
(* received.  Past that the product wraps and the line means nothing.      *)
(***************************************************************************)
ExactInRange ==
  at = "done" /\ kind = "full" /\ scenario \in {"echo", "broadcast"} =>
    (Expected(counters) < Half =>
       (line = "SUCCESS" <=> 10 * counters.received > 7 * Expected(counters)))

(***************************************************************************)
(* An echo or broadcast run that received nothing never succeeds, not even *)
(* after the expected number has wrapped around to zero or below.          *)
(***************************************************************************)
NothingReceivedFails ==
  kind = "full" /\ counters.received = 0 /\ scenario \in {"echo", "broadcast"}
    => line # "SUCCESS"
=============================================================================
