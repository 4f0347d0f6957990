------------------------------ MODULE BenchStat ------------------------------
(***************************************************************************)
(* The state a slave reports to the master (enum Stat.State of             *)
(* bench.proto), kept as the numbers of the wire format because both sides *)
(* compare it with < and >, the two gates that decide whether the counters *)
(* of a slave are collected; the comparison that decides the verdict;      *)
(* Util.SplitNumber, which deals a total out to the slaves; and the sum    *)
(* that the properties speak of.                                           *)
(***************************************************************************)
EXTENDS Integers, FiniteSets

HubconnUnconnected   == 1
HubconnConnecting    == 2
HubconnConnected     == 3
ConfigLoaded         == 10
SendReady            == 11
SendRunning          == 12
SendComplete         == 13
WorkerUnexist        == 14
WorkerCreated        == 16
WorkerExisted        == 17
HubconnCreating      == 19
HubconnCreated       == 20
HubconnDisconnecting == 24
HubconnDisconnected  == 25
HubconnDisposing     == 26
HubconnDisposed      == 27

\* The values the code assigns; the other members of the enum are never used.
StatValues ==
  {HubconnUnconnected, HubconnConnecting, HubconnConnected, ConfigLoaded,
   SendReady, SendRunning, SendComplete, WorkerUnexist, WorkerCreated,
   WorkerExisted, HubconnCreating, HubconnCreated, HubconnDisconnecting,
   HubconnDisconnected, HubconnDisposing, HubconnDisposed}

\* Mutant of MasterCollects: nothing is collected once sending is complete.
CollectsUntilComplete(st) == st >= SendRunning /\ st <= SendComplete

(***************************************************************************)
(* The master skips a slave below SendRunning and one between SendComplete *)
(* and HubconnDisconnecting (the numbers of the worker and creation        *)
(* states): MasterCollects is the negation of its early return.            *)
(***************************************************************************)
MasterCollects(st) ==
  /\ st >= SendRunning
  /\ st > SendComplete => st >= HubconnDisconnecting

\* The master's isComplete flag is raised by every number from SendComplete on.
CountsAsComplete(st) == st >= SendComplete

\* Mutant of SlaveReports: with an upper end.
ReportsWhileSending(st) == st >= SendRunning /\ st <= SendComplete

\* The slave's own gate: an unforced request below SendRunning gets no pairs.
SlaveReports(st) == st >= SendRunning

(***************************************************************************)
(* received / d > 0.7 in floating point, without the division: n/0 is an   *)
(* infinity of n's sign, 0/0 compares false, and an int quotient above 7/10 *)
(* is above it by more than the rounding.                                  *)
(***************************************************************************)
Exceeds(received, d) ==
  IF d > 0 THEN 10 * received > 7 * d
  ELSE IF d = 0 THEN received > 0
  ELSE 10 * received < 7 * d

\* Mutant of SplitNumber: off by one.
SplitOneMore(total, index, agents) ==
  total \div agents + IF index <= total % agents THEN 1 ELSE 0

\* Util.SplitNumber: the share of the index-th of `agents` agents.
SplitNumber(total, index, agents) ==
  total \div agents + IF index < total % agents THEN 1 ELSE 0

(***************************************************************************)
(* The sum of the numbers f[x] over the elements of a finite set, as the   *)
(* size of the set that has f[x] elements for every x: proofs can reason   *)
(* about a cardinality without an induction.                               *)
(***************************************************************************)
Units(f, S) == UNION {{x} \X (0..f[x] - 1) : x \in S}
SumOver(f, S) == Cardinality(Units(f, S))
=============================================================================
