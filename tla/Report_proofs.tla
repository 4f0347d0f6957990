---------------------------- MODULE Report_proofs -----------------------------
(***************************************************************************)
(* The verdict is exact below the overflow, whatever the width of an int   *)
(* and the size of the counters, of any snapshot (Spec) and of those the   *)
(* handlers publish (RSpec); handlers that meet at the file leave a line;  *)
(* and what the page shows adds up.                                        *)
(***************************************************************************)
EXTENDS Report, FiniteSetTheorems, SequenceTheorems, TLAPS

\* Below Half nothing wraps.
LEMMA NoWrap ==
  ASSUME NEW x \in Nat, x < Half
  PROVE  Int32(x) = x
<1>1. x + Half \in 0..2 * Half - 1 /\ 2 * Half \in Nat \ {0}
  BY HalfAssumption
<1>2. (x + Half) % (2 * Half) = x + Half
  BY <1>1, Z3
<1> QED
  BY <1>2, HalfAssumption DEF Int32

\* A product with a positive factor is no smaller.
LEMMA Factor ==
  ASSUME NEW x \in Nat, NEW k \in Nat \ {0}
  PROVE  x * k \in Nat /\ x <= x * k
<1>1. PICK j \in Nat : k = j + 1
  <2>1. k - 1 \in Nat /\ k = (k - 1) + 1
    OBVIOUS
  <2> QED
    BY <2>1
<1>2. x * k = x * j + x /\ x * j >= 0 /\ x * j \in Nat
  BY <1>1
<1> QED
  BY <1>2

\* Where nothing overflows, the denominator is the number expected.
LEMMA DenominatorExact ==
  ASSUME NEW c, c.sent \in Nat, c.notSent \in Nat,
         connection \in 1..MaxConnection, Expected(c) < Half
  PROVE  Denominator(c) = Expected(c) /\ Expected(c) \in Nat
<1> DEFINE sum == c.sent + c.notSent
<1>1. sum \in Nat
  OBVIOUS
<1>2. connection \in Nat \ {0}
  BY BoundsAssumption
<1>3. CASE scenario = "broadcast"
  <2>1. Expected(c) = sum * connection
    BY <1>3 DEF Expected
  <2>2. sum * connection \in Nat /\ sum <= sum * connection
    BY <1>1, <1>2, Factor
  <2>3. sum < Half /\ sum * connection < Half
    BY <1>1, <2>1, <2>2, HalfAssumption
  <2>4. Int32(sum) = sum /\ Int32(sum * connection) = sum * connection
    BY <1>1, <2>2, <2>3, NoWrap
  <2> QED
    BY <1>3, <2>1, <2>2, <2>4 DEF Denominator
<1>4. CASE scenario # "broadcast"
  <2>1. Expected(c) = sum
    BY <1>1, <1>4 DEF Expected
  <2>2. Int32(sum) = sum
    BY <1>1, <2>1, NoWrap
  <2> QED
    BY <1>1, <1>4, <2>1, <2>2 DEF Denominator
<1> QED
  BY <1>3, <1>4

\* What SaveJobResult has written once it is done, and nothing before.
IInv ==
  /\ TypeOK
  /\ at = "start" => line = "none"
  /\ at = "done" /\ kind = "full" =>
       line = IF MeetsThreshold(counters) THEN "SUCCESS" ELSE "FAIL"

\* SaveJobResult decides by MeetsThreshold and by nothing else.
LEMMA Invariance == Spec => []IInv
<1>1. Init => IInv
  BY DEF Init, IInv, TypeOK
<1>2. IInv /\ [Next]_vars => IInv'
  <2> SUFFICES ASSUME IInv, [Next]_vars PROVE IInv'
    OBVIOUS
  <2>1. CASE SaveJobResult
    <3>1. UNCHANGED <<kind, counters, connection, scenario>>
      BY <2>1 DEF SaveJobResult
    <3>2. TypeOK'
      BY <2>1 DEF SaveJobResult, IInv, TypeOK, SaveToFile
    <3>3. MeetsThreshold(counters)' = MeetsThreshold(counters)
      BY <3>1 DEF MeetsThreshold, Denominator
    <3>4. at' = "done" /\ (kind = "full" =>
            line' = IF MeetsThreshold(counters) THEN "SUCCESS" ELSE "FAIL")
      BY <2>1 DEF SaveJobResult, SaveToFile
    <3> QED
      BY <3>1, <3>2, <3>3, <3>4 DEF IInv
  <2>2. CASE UNCHANGED vars
    <3>1. MeetsThreshold(counters)' = MeetsThreshold(counters)
      BY <2>2 DEF vars, MeetsThreshold, Denominator
    <3> QED
      BY <2>2, <3>1 DEF IInv, TypeOK, vars
  <2> QED
    BY <2>1, <2>2 DEF Next
<1> QED
  BY <1>1, <1>2, PTL DEF Spec

\* The line written for a snapshot is the right one below the overflow.
LEMMA LineExact ==
  ASSUME counters.sent \in Nat, counters.notSent \in Nat,
         counters.received \in Nat, connection \in 1..MaxConnection,
         at = "done" /\ kind = "full" =>
           line = IF MeetsThreshold(counters) THEN "SUCCESS" ELSE "FAIL"
  PROVE  ExactInRange
<1> SUFFICES ASSUME at = "done", kind = "full",
                    scenario \in {"echo", "broadcast"},
                    Expected(counters) < Half
             PROVE  line = "SUCCESS" <=>
                      10 * counters.received > 7 * Expected(counters)
  BY DEF ExactInRange
<1>1. Denominator(counters) = Expected(counters) /\ Expected(counters) \in Nat
  BY DenominatorExact
<1>2. line = "SUCCESS" <=> Exceeds(counters.received, Expected(counters))
  BY <1>1 DEF MeetsThreshold
<1> QED
  BY <1>1, <1>2 DEF Exceeds

\* Below the overflow, SUCCESS means that more than 70 percent were received.
THEOREM VerdictExact == Spec => []ExactInRange
<1>1. ASSUME IInv PROVE ExactInRange
  <2>1. /\ counters.sent \in Nat /\ counters.notSent \in Nat
        /\ counters.received \in Nat /\ connection \in 1..MaxConnection
    BY <1>1, BoundsAssumption DEF IInv, TypeOK, Triples
  <2> QED
    BY <1>1, <2>1, LineExact DEF IInv
<1> QED
  BY <1>1, Invariance, PTL

\* Overflow or not, a run that received nothing does not succeed.
THEOREM NothingReceivedNoSuccess == Spec => []NothingReceivedFails
<1>1. ASSUME IInv PROVE NothingReceivedFails
  <2> SUFFICES ASSUME kind = "full", counters.received = 0,
                      scenario \in {"echo", "broadcast"}
               PROVE  line # "SUCCESS"
    BY DEF NothingReceivedFails
  <2>1. Denominator(counters) \in Int
    <3>1. /\ counters.sent \in Nat /\ counters.notSent \in Nat
          /\ connection \in Nat
      BY <1>1, BoundsAssumption DEF IInv, TypeOK, Triples
    <3>2. \A x \in Int : Int32(x) \in Int
      BY HalfAssumption DEF Int32
    <3> QED
      BY <3>1, <3>2 DEF Denominator
  <2>2. ~Exceeds(0, Denominator(counters))
    BY <2>1 DEF Exceeds
  <2>3. ~MeetsThreshold(counters)
    BY <2>2 DEF MeetsThreshold
  <2> QED
    BY <1>1, <2>3 DEF IInv, TypeOK
<1> QED
  BY <1>1, Invariance, PTL

-----------------------------------------------------------------------------
(* The verdict and the file as the handlers make them                       *)

Snapshots == [sent : Nat, notSent : Nat, lower : Nat, upper : Nat, received : Nat]

RTypeOK ==
  /\ kind \in {"null", "full"}
  /\ counters \in Snapshots
  /\ connection \in 1..MaxConnection
  /\ scenario \in {"echo", "broadcast", "group"}
  /\ at \in {"start", "done"}
  /\ snaps \in Seq(Snapshots)
  /\ stage \in [Ticks -> {"none", "collected", "published", "writing", "over"}]
  /\ lines \in Seq(Snapshots)

(***************************************************************************)
(* The verdict is that of counters, which stands still from then on; a     *)
(* snapshot that is published has a handler on its way to the file, unless *)
(* there is a line; and one that has the file open will leave one.         *)
(***************************************************************************)
RInv ==
  /\ RTypeOK
  /\ \A h \in Ticks : stage[h] # "none" => h <= Len(snaps)
  /\ at = "start" => line = "none"
  /\ at = "done" /\ kind = "full" =>
       line = IF MeetsThreshold(counters) THEN "SUCCESS" ELSE "FAIL"
  /\ kind = "full" /\ lines = <<>> =>
       \E h \in Ticks : stage[h] \in {"published", "writing"}
  /\ exists <=> lines # <<>> \/ Locked

LEMMA RInvInit == RInit => RInv
  BY DEF RInit, RInv, RTypeOK, Nothing, Snapshots, Locked

\* What a handler collects is a snapshot.
LEMMA GrownIsSnapshot == snaps \in Seq(Snapshots) => Grown \subseteq Snapshots
<1> SUFFICES ASSUME snaps \in Seq(Snapshots), NEW x \in Grown PROVE x \in Snapshots
  OBVIOUS
<1>1. Latest \in Snapshots
  <2>1. CASE snaps = <<>>
    BY <2>1 DEF Latest, Nothing, Snapshots
  <2>2. CASE snaps # <<>>
    BY <2>2 DEF Latest
  <2> QED
    BY <2>1, <2>2
<1>2. PICK g \in Growth :
        x = [sent |-> Latest.sent + g[1], notSent |-> Latest.notSent + g[2],
             lower |-> Latest.lower + g[3], upper |-> Latest.upper + g[4],
             received |-> Received(Latest.lower + g[3], Latest.upper + g[4])]
  BY DEF Grown
<1>3. g[1] \in Nat /\ g[2] \in Nat /\ g[3] \in Nat /\ g[4] \in Nat
  BY DEF Growth
<1>4. /\ Latest.sent \in Nat /\ Latest.notSent \in Nat
      /\ Latest.lower \in Nat /\ Latest.upper \in Nat
  BY <1>1 DEF Snapshots
<1>5. \A a, b \in Nat : a + b \in Nat
  OBVIOUS
<1>6. /\ Latest.sent + g[1] \in Nat /\ Latest.notSent + g[2] \in Nat
      /\ Latest.lower + g[3] \in Nat /\ Latest.upper + g[4] \in Nat
      /\ (Latest.lower + g[3]) + (Latest.upper + g[4]) \in Nat
  BY <1>3, <1>4, <1>5, Zenon
<1>7. \A a, b, c, d, e \in Nat :
        [sent |-> a, notSent |-> b, lower |-> c, upper |-> d, received |-> e]
          \in Snapshots
  BY DEF Snapshots
<1> QED
  BY <1>2, <1>6, <1>7, Zenon DEF Received

\* The verdict only looks at the snapshot, --connections and --scenario.
LEMMA SameThreshold ==
  ASSUME UNCHANGED <<counters, connection, scenario>>
  PROVE  MeetsThreshold(counters)' = MeetsThreshold(counters)
  BY DEF MeetsThreshold, Denominator

LEMMA RInvNext == RInv /\ [RNext]_rvars => RInv'
<1> SUFFICES ASSUME RInv, [RNext]_rvars PROVE RInv'
  OBVIOUS
<1> USE DEF RInv, masterVars
<1>1. CASE Collect
  <2>1. PICK snap \in Grown : snaps' = Append(snaps, snap)
    BY <1>1 DEF Collect
  <2>2. snap \in Snapshots
    BY GrownIsSnapshot DEF RTypeOK
  <2>3. /\ snaps' \in Seq(Snapshots) /\ Len(snaps) \in Nat
        /\ Len(snaps') = Len(snaps) + 1
    BY <2>1, <2>2 DEF RTypeOK
  <2>4. Len(snaps) + 1 \in Ticks
    BY <1>1, <2>3, TicksAssumption DEF Collect, Ticks
  <2>5. stage[Len(snaps) + 1] = "none"
    BY <2>3, <2>4
  <2>6. /\ stage' \in [Ticks -> {"none", "collected", "published", "writing", "over"}]
        /\ \A h \in Ticks : stage'[h] # stage[h] =>
             h = Len(snaps) + 1 /\ stage'[h] = "collected"
    BY <1>1, <2>4 DEF Collect, RTypeOK
  <2>7. UNCHANGED <<kind, counters, connection, scenario, at, line, exists, lines>>
    BY <1>1 DEF Collect, file
  <2>8. RTypeOK'
    BY <2>3, <2>6, <2>7 DEF RTypeOK
  <2>9. \A h \in Ticks : stage'[h] # "none" => h <= Len(snaps')
    <3> TAKE h \in Ticks
    <3>1. h \in Nat
      BY DEF Ticks
    <3> QED
      BY <2>3, <2>6, <3>1
  <2>10. Locked' <=> Locked
    BY <2>5, <2>6 DEF Locked
  <2>11. \A h \in Ticks : stage[h] \in {"published", "writing"} => stage'[h] = stage[h]
    BY <2>5, <2>6
  <2> QED
    BY <2>7, <2>8, <2>9, <2>10, <2>11, SameThreshold
<1>2. ASSUME NEW h \in Ticks, Publish(h) PROVE RInv'
  <2>1. /\ stage' \in [Ticks -> {"none", "collected", "published", "writing", "over"}]
        /\ stage[h] = "collected" /\ stage'[h] = "published"
        /\ \A g \in Ticks : g # h => stage'[g] = stage[g]
    BY <1>2 DEF Publish, RTypeOK
  <2>2. UNCHANGED <<connection, scenario, at, line, snaps, exists, lines>>
    BY <1>2 DEF Publish, file
  <2>3. snaps[h] \in Snapshots
    BY <2>1 DEF RTypeOK, Ticks
  <2>4. \/ at = "start" /\ kind' = "full" /\ counters' = snaps[h]
        \/ at # "start" /\ UNCHANGED <<kind, counters>>
    BY <1>2 DEF Publish
  <2>5. RTypeOK'
    BY <2>1, <2>2, <2>3, <2>4 DEF RTypeOK
  <2>6. Locked' <=> Locked
    BY <2>1 DEF Locked
  <2>7. at' = "done" /\ kind' = "full" =>
          line' = IF MeetsThreshold(counters)' THEN "SUCCESS" ELSE "FAIL"
    BY <2>2, <2>4, SameThreshold
  <2> QED
    BY <2>1, <2>2, <2>5, <2>6, <2>7
<1>3. ASSUME NEW h \in Ticks, Open(h) PROVE RInv'
  <2>1. /\ stage' \in [Ticks -> {"none", "collected", "published", "writing", "over"}]
        /\ stage[h] = "published"
        /\ \A g \in Ticks : g # h => stage'[g] = stage[g]
    BY <1>3 DEF Open, RTypeOK
  <2>2. UNCHANGED <<kind, counters, connection, scenario, at, line, snaps, lines>>
    BY <1>3 DEF Open
  <2>3. RTypeOK'
    BY <2>1, <2>2 DEF RTypeOK
  <2>4. CASE Locked /\ stage'[h] = "over" /\ UNCHANGED exists
    <3>1. PICK g \in Ticks : stage[g] = "writing"
      BY <2>4 DEF Locked
    <3>2. stage'[g] = "writing" /\ Locked'
      BY <2>1, <3>1 DEF Locked
    <3> QED
      BY <2>1, <2>2, <2>3, <2>4, <3>2, SameThreshold
  <2>5. CASE ~Locked /\ stage'[h] = "writing" /\ exists' = TRUE
    <3>1. Locked'
      BY <2>5 DEF Locked
    <3> QED
      BY <2>1, <2>2, <2>3, <2>5, <3>1, SameThreshold
  <2> QED
    BY <1>3, <2>4, <2>5 DEF Open, RTypeOK
<1>4. ASSUME NEW h \in Ticks, Close(h) PROVE RInv'
  <2>1. /\ stage' \in [Ticks -> {"none", "collected", "published", "writing", "over"}]
        /\ stage[h] = "writing" /\ stage'[h] = "over"
        /\ \A g \in Ticks : g # h => stage'[g] = stage[g]
    BY <1>4 DEF Close, RTypeOK
  <2>2. UNCHANGED <<kind, counters, connection, scenario, at, line, snaps, exists>>
    BY <1>4 DEF Close
  <2>3. snaps[h] \in Snapshots
    BY <2>1 DEF RTypeOK, Ticks
  <2>4. lines' \in Seq(Snapshots) /\ lines' # <<>>
    BY <1>4, <2>3 DEF Close, RTypeOK
  <2>5. RTypeOK'
    BY <2>1, <2>2, <2>4 DEF RTypeOK
  <2>6. exists
    BY <2>1 DEF Locked
  <2> QED
    BY <2>1, <2>2, <2>4, <2>5, <2>6, SameThreshold
<1>5. CASE Verdict
  <2>1. UNCHANGED <<kind, counters, connection, scenario, snaps, stage, exists, lines>>
    BY <1>5 DEF Verdict, SaveJobResult, file
  <2>2. Locked' <=> Locked
    BY <2>1 DEF Locked
  <2>3. at' = "done" /\ (kind = "full" =>
          line' = IF MeetsThreshold(counters) THEN "SUCCESS" ELSE "FAIL")
    BY <1>5 DEF Verdict, SaveJobResult, SaveToFile
  <2> QED
    BY <2>1, <2>2, <2>3, SameThreshold DEF RTypeOK
<1>6. CASE Read \/ Draw
  <2>1. UNCHANGED <<kind, counters, connection, scenario, at, line, snaps, stage,
                    exists, lines>>
    BY <1>6 DEF Read, Draw, file
  <2> QED
    BY <2>1, SameThreshold DEF RTypeOK, Locked
<1>7. CASE UNCHANGED rvars
  <2>1. UNCHANGED <<kind, counters, connection, scenario, at, line, snaps, stage,
                    exists, lines>>
    BY <1>7 DEF rvars, file
  <2> QED
    BY <2>1, SameThreshold DEF RTypeOK, Locked
<1> QED
  BY <1>1, <1>2, <1>3, <1>4, <1>5, <1>6, <1>7 DEF RNext

LEMMA RInvariance == RSpec => []RInv
  BY RInvInit, RInvNext, PTL DEF RSpec

\* The verdict is exact for the snapshots the handlers publish, too.
THEOREM PublishedVerdictExact == RSpec => []ExactInRange
<1>1. RInv => ExactInRange
  BY LineExact DEF RInv, RTypeOK, Snapshots
<1> QED
  BY <1>1, RInvariance, PTL

\* However many handlers meet at the file, some line is left.
THEOREM ALineOfTheFileIsLeft == RSpec => []LineLeft
<1>1. RInv => LineLeft
  <2> SUFFICES ASSUME RInv, \A h \in Ticks : stage[h] \in {"none", "over"}
               PROVE  /\ kind = "full" => lines # <<>>
                      /\ exists <=> lines # <<>>
    BY DEF LineLeft
  <2>1. ~Locked
    BY DEF Locked
  <2> QED
    BY <2>1 DEF RInv
<1> QED
  BY <1>1, RInvariance, PTL

-----------------------------------------------------------------------------
(* The page                                                                 *)

Sent == [k \in DOMAIN data |-> data[k].sent]
Recv == [k \in DOMAIN data |-> data[k].received]

\* The first n numbers of d change by d[n] - d[1] in all.
Telescopes(d, n) == Net([k \in 1..n - 1 |-> d[k + 1] - d[k]], 1..n - 1) = d[n] - d[1]

\* Every line of s is what some handler has collected.
Among(s) == \A k \in DOMAIN s : \E h \in DOMAIN snaps : s[k] = snaps[h]

\* What the loop over the lines has made of line k.
Drawn(k) ==
  IF k >= i THEN [sent |-> data[k].sent, received |-> data[k].received]
  ELSE IF k = Len(data) THEN [sent |-> 0, received |-> 0]
  ELSE Minus(data[k + 1], data[k])

(***************************************************************************)
(* What is counted only grows from a handler to the next, the lines are    *)
(* what handlers have collected, and the loop of the page has replaced the *)
(* entries below i by the changes, which add up that far.                  *)
(***************************************************************************)
CollectedInv ==
  /\ \A h \in DOMAIN snaps : snaps[h].received = snaps[h].lower + snaps[h].upper
  /\ \A g, h \in DOMAIN snaps : g <= h => snaps[g].sent <= snaps[h].sent
  /\ Among(lines)

ReadInv ==
  page \in {"drawing", "shown"} =>
    data \in Seq(Snapshots) /\ data # <<>> /\ Among(data)

DrawInv ==
  /\ page = "drawing" =>
       /\ i \in 1..Len(data) + 1
       /\ rates = [k \in 1..Len(data) |-> Drawn(k)]
       /\ \A n \in 1..Len(data) : n <= i => Telescopes(Sent, n) /\ Telescopes(Recv, n)
  /\ page = "shown" =>
       /\ rates = [k \in 1..Len(data) - 1 |-> Minus(data[k + 1], data[k])]
       /\ Telescopes(Sent, Len(data)) /\ Telescopes(Recv, Len(data))

PInv == CollectedInv /\ ReadInv /\ DrawInv

-----------------------------------------------------------------------------
(* Sums of integers                                                         *)

\* The elements of a set of units.
LEMMA UnitsAre ==
  ASSUME NEW S, NEW f
  PROVE  \A u : u \in Units(f, S) <=>
           \E x \in S : \E n \in 0..f[x] - 1 : u = <<x, n>>
  BY DEF Units

\* The units of one place.
LEMMA UnitsOfOne ==
  ASSUME NEW x, NEW f, f[x] \in Int
  PROVE  /\ IsFiniteSet(Units(f, {x}))
         /\ Cardinality(Units(f, {x})) = IF f[x] > 0 THEN f[x] ELSE 0
<1>1. Units(f, {x}) = {x} \X (0..f[x] - 1)
  <2>1. \A u : u \in Units(f, {x}) <=> \E n \in 0..f[x] - 1 : u = <<x, n>>
    BY UnitsAre
  <2>2. \A u : u \in {x} \X (0..f[x] - 1) <=>
               \E n \in 0..f[x] - 1 : u = <<x, n>>
    OBVIOUS
  <2> HIDE DEF Units
  <2> QED
    BY <2>1, <2>2
<1>2. /\ IsFiniteSet({x}) /\ Cardinality({x}) = 1
      /\ IsFiniteSet(0..f[x] - 1)
      /\ Cardinality(0..f[x] - 1) = IF f[x] > 0 THEN f[x] ELSE 0
  <2>1. f[x] - 1 \in Int /\ 0 \in Int
    OBVIOUS
  <2>2. /\ IsFiniteSet(0..f[x] - 1)
        /\ Cardinality(0..f[x] - 1) =
             IF 0 > f[x] - 1 THEN 0 ELSE (f[x] - 1) - 0 + 1
    BY <2>1, FS_Interval
  <2>3. Cardinality(0..f[x] - 1) = IF f[x] > 0 THEN f[x] ELSE 0
    BY <2>2
  <2>4. IsFiniteSet({x}) /\ Cardinality({x}) = 1
    BY FS_Singleton
  <2> QED
    BY <2>2, <2>3, <2>4
<1>3. /\ IsFiniteSet({x} \X (0..f[x] - 1))
      /\ Cardinality({x} \X (0..f[x] - 1)) = Cardinality({x}) * Cardinality(0..f[x] - 1)
  BY <1>2, FS_Product
<1>4. Cardinality(0..f[x] - 1) \in Nat
  BY <1>2
<1>5. 1 * Cardinality(0..f[x] - 1) = Cardinality(0..f[x] - 1)
  BY <1>4
<1>6. Cardinality({x} \X (0..f[x] - 1)) = Cardinality(0..f[x] - 1)
  BY <1>2, <1>3, <1>5
<1> QED
  BY <1>1, <1>2, <1>3, <1>6

\* A sum over finitely many places is a number.
LEMMA SumType ==
  ASSUME NEW S, IsFiniteSet(S), NEW f, \A x \in S : f[x] \in Int
  PROVE  IsFiniteSet(Units(f, S)) /\ SumOver(f, S) \in Nat
<1>1. IsFiniteSet(Units(f, S))
  <2> DEFINE U(x) == {x} \X (0..f[x] - 1)
             T == {U(x) : x \in S}
             g == [x \in S |-> U(x)]
  <2>1. g \in Surjection(S, T)
    BY DEF Surjection
  <2>2. IsFiniteSet(T)
    <3> HIDE DEF g, T
    <3> QED
      BY <2>1, FS_Surjection
  <2>3. ASSUME NEW x \in S PROVE IsFiniteSet(U(x))
    <3>1. IsFiniteSet({x}) /\ IsFiniteSet(0..f[x] - 1)
      <4>1. f[x] - 1 \in Int /\ 0 \in Int
        OBVIOUS
      <4>2. IsFiniteSet(0..f[x] - 1)
        BY <4>1, FS_Interval
      <4> QED
        BY <4>2, FS_Singleton
    <3> QED
      BY <3>1, FS_Product
  <2> QED
    BY <2>2, <2>3, FS_UNION DEF Units
<1> QED
  BY <1>1, FS_CardinalityType DEF SumOver

\* One place more adds its number, if that is above zero.
LEMMA SumOneMore ==
  ASSUME NEW S, IsFiniteSet(S), NEW f, NEW x, x \notin S,
         \A y \in S \cup {x} : f[y] \in Int
  PROVE  SumOver(f, S \cup {x}) = SumOver(f, S) + IF f[x] > 0 THEN f[x] ELSE 0
<1>1. Units(f, S \cup {x}) = Units(f, S) \cup Units(f, {x})
  BY DEF Units
<1>2. Units(f, S) \cap Units(f, {x}) = {}
  <2>1. \A u : ~(u \in Units(f, S) /\ u \in Units(f, {x}))
    BY UnitsAre
  <2> QED
    BY <2>1
<1>3. IsFiniteSet(Units(f, S)) /\ IsFiniteSet(Units(f, {x}))
  BY SumType, UnitsOfOne
<1>4. Cardinality(Units(f, {x})) = IF f[x] > 0 THEN f[x] ELSE 0
  BY UnitsOfOne
<1>5. Cardinality(Units(f, S) \cup Units(f, {x})) =
        Cardinality(Units(f, S)) + Cardinality(Units(f, {x}))
          - Cardinality(Units(f, S) \cap Units(f, {x}))
  <2> HIDE DEF Units
  <2> QED
    BY <1>3, FS_Union
<1>6. Cardinality({}) = 0 /\ Cardinality(Units(f, S)) \in Nat
  BY <1>3, FS_EmptySet, FS_CardinalityType
<1>7. Cardinality(Units(f, {x})) \in Nat
  BY <1>3, FS_CardinalityType
<1>8. \A a, b \in Nat : a + b - 0 = a + b
  OBVIOUS
<1>9. Cardinality(Units(f, S \cup {x})) = Cardinality(Units(f, S)) + Cardinality(Units(f, {x}))
  BY <1>1, <1>2, <1>5, <1>6, <1>7, <1>8, Zenon
<1> QED
  BY <1>4, <1>9 DEF SumOver

\* A sum only sees the places it goes over.
LEMMA NetSame ==
  ASSUME NEW S, NEW f, NEW g, \A x \in S : f[x] = g[x]
  PROVE  Net(f, S) = Net(g, S)
<1>1. Units(f, S) = Units(g, S)
  BY DEF Units
<1>2. [k \in S |-> 0 - f[k]] = [k \in S |-> 0 - g[k]]
  OBVIOUS
<1> QED
  BY <1>1, <1>2 DEF Net, SumOver

\* Nothing adds up to zero.
LEMMA NetOfNone == \A f : Net(f, {}) = 0
<1> TAKE f
<1>1. \A g : SumOver(g, {}) = 0
  BY FS_EmptySet DEF SumOver, Units
<1> QED
  BY <1>1 DEF Net

\* One place more adds its number, whatever its sign.
LEMMA NetOneMore ==
  ASSUME NEW S, IsFiniteSet(S), NEW f, NEW x, x \notin S,
         \A y \in S \cup {x} : f[y] \in Int
  PROVE  Net(f, S \cup {x}) = Net(f, S) + f[x] /\ Net(f, S) \in Int
<1> DEFINE T == S \cup {x}
           g == [k \in T |-> 0 - f[k]]
           h == [k \in S |-> 0 - f[k]]
<1>1. \A y \in T : g[y] \in Int /\ g[y] = 0 - f[y]
  OBVIOUS
<1>2. SumOver(f, T) = SumOver(f, S) + IF f[x] > 0 THEN f[x] ELSE 0
  BY SumOneMore
<1>3. SumOver(g, T) = SumOver(g, S) + IF 0 - f[x] > 0 THEN 0 - f[x] ELSE 0
  <2>1. g[x] = 0 - f[x] /\ \A y \in S \cup {x} : g[y] \in Int
    BY <1>1
  <2> HIDE DEF g
  <2>2. SumOver(g, S \cup {x}) = SumOver(g, S) + IF g[x] > 0 THEN g[x] ELSE 0
    BY <2>1, SumOneMore
  <2> QED
    BY <2>1, <2>2
<1>4. SumOver(g, S) = SumOver(h, S)
  <2>1. \A y \in S : g[y] = h[y]
    OBVIOUS
  <2>2. Units(g, S) = Units(h, S)
    <3> HIDE DEF g, h
    <3> QED
      BY <2>1 DEF Units
  <2> QED
    BY <2>2 DEF SumOver
<1>5. SumOver(f, S) \in Nat /\ SumOver(h, S) \in Nat
  <2>1. \A y \in S : h[y] \in Int
    OBVIOUS
  <2> HIDE DEF h
  <2> QED
    BY <2>1, SumType
<1>6. Net(f, T) = SumOver(f, T) - SumOver(g, T) /\ Net(f, S) = SumOver(f, S) - SumOver(h, S)
  BY DEF Net
<1> HIDE DEF g, h
<1> QED
  BY <1>2, <1>3, <1>4, <1>5, <1>6

\* The loop's round for one more line.
LEMMA OneMoreTelescopes ==
  ASSUME NEW n \in Nat \ {0}, NEW d, \A k \in 1..n + 1 : d[k] \in Int,
         Telescopes(d, n)
  PROVE  Telescopes(d, n + 1)
<1> DEFINE f == [k \in 1..n |-> d[k + 1] - d[k]]
           g == [k \in 1..n - 1 |-> d[k + 1] - d[k]]
<1>1. 1..n = (1..n - 1) \cup {n} /\ n \notin 1..n - 1 /\ (n + 1) - 1 = n
  OBVIOUS
<1>2. IsFiniteSet(1..n - 1)
  <2>1. 1 \in Int /\ n - 1 \in Int
    OBVIOUS
  <2> QED
    BY <2>1, FS_Interval
<1>3. \A k \in 1..n : f[k] \in Int /\ f[k] = d[k + 1] - d[k]
  OBVIOUS
<1>4. \A k \in 1..n - 1 : f[k] = g[k]
  OBVIOUS
<1>5. Net(g, 1..n - 1) = d[n] - d[1]
  BY DEF Telescopes
<1>6. Telescopes(d, n + 1) <=> Net(f, 1..n) = d[n + 1] - d[1]
  BY <1>1 DEF Telescopes
<1> HIDE DEF f, g
<1>7. Net(f, 1..n - 1) = Net(g, 1..n - 1)
  BY <1>4, NetSame
<1>8. Net(f, 1..n) = Net(f, 1..n - 1) + f[n]
  <2>1. \A y \in (1..n - 1) \cup {n} : f[y] \in Int
    BY <1>1, <1>3
  <2>2. Net(f, (1..n - 1) \cup {n}) = Net(f, 1..n - 1) + f[n]
    <3> DEFINE P == 1..n - 1
    <3>1. IsFiniteSet(P) /\ n \notin P /\ \A y \in P \cup {n} : f[y] \in Int
      BY <1>1, <1>2, <2>1
    <3>2. Net(f, P \cup {n}) = Net(f, P) + f[n]
      <4> HIDE DEF P
      <4> QED
        BY <3>1, NetOneMore
    <3> QED
      BY <3>2, Zenon
  <2> QED
    BY <1>1, <2>2, Zenon
<1>9. f[n] = d[n + 1] - d[n] /\ d[n] \in Int /\ d[1] \in Int /\ d[n + 1] \in Int
  BY <1>3
<1> QED
  BY <1>5, <1>6, <1>7, <1>8, <1>9

\* One line does not change.
LEMMA FirstTelescopes ==
  ASSUME NEW d, d[1] \in Int
  PROVE  Telescopes(d, 1)
<1>1. 1..1 - 1 = {}
  OBVIOUS
<1> QED
  BY <1>1, NetOfNone DEF Telescopes

-----------------------------------------------------------------------------
(* The page adds up                                                         *)

LEMMA PInvInit == RInit => PInv
  BY DEF RInit, PInv, CollectedInv, ReadInv, DrawInv, Among

\* What is collected has all that was sent before, and its own numbers agree.
LEMMA GrownGrows ==
  ASSUME snaps \in Seq(Snapshots), NEW x \in Grown
  PROVE  /\ x.received = x.lower + x.upper
         /\ snaps # <<>> => snaps[Len(snaps)].sent <= x.sent
<1>1. PICK g \in Growth :
        x = [sent |-> Latest.sent + g[1], notSent |-> Latest.notSent + g[2],
             lower |-> Latest.lower + g[3], upper |-> Latest.upper + g[4],
             received |-> Received(Latest.lower + g[3], Latest.upper + g[4])]
  BY DEF Grown
<1>2. x.received = x.lower + x.upper
  BY <1>1 DEF Received
<1>3. g[1] \in Nat
  BY DEF Growth
<1>4. snaps # <<>> => Latest.sent \in Nat /\ Latest = snaps[Len(snaps)]
  <2>1. snaps # <<>> => snaps[Len(snaps)] \in Snapshots /\ Latest = snaps[Len(snaps)]
    BY DEF Latest
  <2> QED
    BY <2>1 DEF Snapshots
<1>5. x.sent = Latest.sent + g[1]
  BY <1>1
<1> QED
  BY <1>2, <1>3, <1>4, <1>5

\* The handlers only put down what they collected, and only collect more.
LEMMA CollectedNext == RInv /\ CollectedInv /\ [RNext]_rvars => CollectedInv'
<1> SUFFICES ASSUME RInv, CollectedInv, [RNext]_rvars PROVE CollectedInv'
  OBVIOUS
<1> USE DEF RInv, RTypeOK
<1>1. CASE Collect
  <2>1. PICK snap \in Grown : snaps' = Append(snaps, snap)
    BY <1>1 DEF Collect
  <2>2. snap \in Snapshots
    BY GrownIsSnapshot
  <2> DEFINE n == Len(snaps)
  <2>3. /\ n \in Nat /\ DOMAIN snaps = 1..n /\ DOMAIN snaps' = 1..n + 1
        /\ snaps'[n + 1] = snap
        /\ \A h \in 1..n : snaps'[h] = snaps[h] /\ snaps[h] \in Snapshots
    BY <2>1, <2>2
  <2>4. /\ snap.received = snap.lower + snap.upper
        /\ n > 0 => snaps[n].sent <= snap.sent
    BY <2>3, GrownGrows
  <2>5. lines' = lines
    BY <1>1 DEF Collect, file
  <2>6. snap.sent \in Nat /\ \A h \in 1..n : snaps[h].sent \in Nat
    BY <2>2, <2>3 DEF Snapshots
  <2> HIDE DEF n
  <2>7. \A g, h \in 1..n + 1 : g <= h => snaps'[g].sent <= snaps'[h].sent
    <3> TAKE g, h \in 1..n + 1
    <3>1. CASE h = n + 1 /\ g # n + 1
      <4>1. g \in 1..n /\ n \in 1..n /\ n > 0 /\ g <= n
        BY <2>3, <3>1
      <4>2. snaps[g].sent <= snaps[n].sent
        BY <2>3, <4>1 DEF CollectedInv
      <4> QED
        BY <2>3, <2>4, <2>6, <3>1, <4>1, <4>2
    <3>2. CASE h = n + 1 /\ g = n + 1
      BY <2>3, <2>6, <3>2
    <3>3. CASE h # n + 1
      <4>1. h \in 1..n /\ (g <= h => g \in 1..n)
        BY <2>3, <3>3
      <4> QED
        BY <2>3, <4>1 DEF CollectedInv
    <3> QED
      BY <3>1, <3>2, <3>3
  <2>8. \A h \in 1..n + 1 : snaps'[h].received = snaps'[h].lower + snaps'[h].upper
    <3> TAKE h \in 1..n + 1
    <3>1. h \in 1..n \/ h = n + 1
      BY <2>3
    <3> QED
      BY <2>3, <2>4, <3>1 DEF CollectedInv
  <2>9. Among(lines)'
    <3>1. \A h \in DOMAIN snaps : h \in DOMAIN snaps' /\ snaps'[h] = snaps[h]
      BY <2>3
    <3> QED
      BY <2>5, <3>1 DEF CollectedInv, Among
  <2> QED
    BY <2>3, <2>7, <2>8, <2>9 DEF CollectedInv
<1>2. ASSUME NEW h \in Ticks, Close(h) PROVE CollectedInv'
  <2>1. snaps' = snaps /\ lines' = Append(lines, snaps[h]) /\ stage[h] = "writing"
    BY <1>2 DEF Close
  <2>2. h \in DOMAIN snaps /\ snaps[h] \in Snapshots
    BY <2>1 DEF Ticks
  <2>3. /\ DOMAIN lines' = 1..Len(lines) + 1 /\ DOMAIN lines = 1..Len(lines)
        /\ lines'[Len(lines) + 1] = snaps[h]
        /\ \A k \in 1..Len(lines) : lines'[k] = lines[k]
    BY <2>1, <2>2
  <2>4. \A k \in DOMAIN lines' : k \in DOMAIN lines \/ k = Len(lines) + 1
    BY <2>3
  <2>5. Among(lines)'
    BY <2>1, <2>2, <2>3, <2>4 DEF Among, CollectedInv
  <2> QED
    BY <2>1, <2>5 DEF CollectedInv
<1>3. CASE UNCHANGED <<snaps, lines>>
  BY <1>3 DEF CollectedInv, Among
<1>4. \/ Collect
      \/ \E h \in Ticks : Close(h)
      \/ UNCHANGED <<snaps, lines>>
  BY DEF RNext, Publish, Open, Verdict, SaveJobResult, Read, Draw, rvars, file
<1> QED
  BY <1>1, <1>2, <1>3, <1>4

\* The page reads the lines once and keeps them.
LEMMA ReadNext == RInv /\ CollectedInv /\ ReadInv /\ [RNext]_rvars => ReadInv'
<1> SUFFICES ASSUME RInv, CollectedInv, ReadInv, [RNext]_rvars PROVE ReadInv'
  OBVIOUS
<1>1. CASE Collect
  <2>1. PICK snap \in Grown : snaps' = Append(snaps, snap)
    BY <1>1 DEF Collect
  <2>2. snaps \in Seq(Snapshots) /\ snap \in Snapshots
    BY GrownIsSnapshot DEF RInv, RTypeOK
  <2>3. \A h \in DOMAIN snaps : h \in DOMAIN snaps' /\ snaps'[h] = snaps[h]
    BY <2>1, <2>2
  <2>4. UNCHANGED <<page, data>>
    BY <1>1 DEF Collect, view
  <2> QED
    BY <2>3, <2>4 DEF ReadInv, Among
<1>2. CASE Read
  <2>1. UNCHANGED <<snaps, lines>>
    BY <1>2 DEF Read, file
  <2>2. page' = "drawing" => data' = lines /\ lines # <<>>
    BY <1>2 DEF Read
  <2>3. page' # "shown"
    BY <1>2 DEF Read
  <2> QED
    BY <2>1, <2>2, <2>3 DEF ReadInv, RInv, RTypeOK, CollectedInv, Among
<1>3. CASE Draw
  BY <1>3 DEF Draw, ReadInv, Among
<1>4. CASE UNCHANGED <<snaps, page, data>>
  BY <1>4 DEF ReadInv, Among
<1>5. Collect \/ Read \/ Draw \/ UNCHANGED <<snaps, page, data>>
  BY DEF RNext, Publish, Open, Close, Verdict, SaveJobResult, rvars, view
<1> QED
  BY <1>1, <1>2, <1>3, <1>4, <1>5

\* A round of the loop replaces an entry whose successor is still untouched.
LEMMA DrawNext == RInv /\ ReadInv /\ DrawInv /\ [RNext]_rvars => DrawInv'
<1> SUFFICES ASSUME RInv, ReadInv, DrawInv, [RNext]_rvars PROVE DrawInv'
  OBVIOUS
<1>1. CASE Read
  <2>1. page' # "shown"
    BY <1>1 DEF Read
  <2>2. SUFFICES ASSUME page' = "drawing" PROVE DrawInv'
    BY <2>1 DEF DrawInv
  <2>3. /\ lines # <<>> /\ data' = lines /\ i' = 1
        /\ rates' = [k \in DOMAIN lines |->
                       [sent |-> lines[k].sent, received |-> lines[k].received]]
    BY <1>1, <2>2 DEF Read
  <2>4. lines \in Seq(Snapshots)
    BY DEF RInv, RTypeOK
  <2>5. /\ DOMAIN lines = 1..Len(lines) /\ Len(lines) \in Nat /\ Len(lines) >= 1
        /\ 1 \in DOMAIN lines
    BY <2>3, <2>4
  <2>6. lines[1].sent \in Int /\ lines[1].received \in Int
    <3>1. lines[1] \in Snapshots
      BY <2>4, <2>5
    <3> QED
      BY <3>1 DEF Snapshots
  <2>7. rates' = [k \in 1..Len(data) |-> Drawn(k)]'
    BY <2>3, <2>5 DEF Drawn
  <2>8. Sent'[1] \in Int /\ Recv'[1] \in Int
    BY <2>3, <2>5, <2>6 DEF Sent, Recv
  <2>9. Telescopes(Sent, 1)' /\ Telescopes(Recv, 1)'
    BY <2>8, FirstTelescopes
  <2>10. \A n \in 1..Len(data') : n <= i' => n = 1
    BY <2>3, <2>5
  <2>11. i' \in 1..Len(data') + 1
    BY <2>3, <2>5
  <2> QED
    BY <2>1, <2>7, <2>9, <2>10, <2>11 DEF DrawInv
<1>2. CASE Draw
  <2> DEFINE n == Len(data)
  <2>1. /\ data \in Seq(Snapshots) /\ data # <<>> /\ page = "drawing"
        /\ i \in 1..n + 1
        /\ rates = [k \in 1..n |-> Drawn(k)]
        /\ \A m \in 1..n : m <= i => Telescopes(Sent, m) /\ Telescopes(Recv, m)
    BY <1>2 DEF Draw, ReadInv, DrawInv
  <2>2. /\ n \in Nat /\ n >= 1 /\ DOMAIN data = 1..n
        /\ \A k \in 1..n : data[k] \in Snapshots
    BY <2>1
  <2>3. \A k \in 1..n : data[k].sent \in Int /\ data[k].received \in Int
    BY <2>2 DEF Snapshots
  <2>4. Len(rates) = n
    BY <2>1, <2>2
  <2>5. data' = data
    BY <1>2 DEF Draw
  <2>n. n = Len(data) /\ n' = n
    BY <2>5
  <2> HIDE DEF n
  <2>6. CASE /\ i <= Len(rates)
             /\ rates' = [rates EXCEPT ![i] = Rate(i)]
             /\ i' = i + 1 /\ UNCHANGED page
    <3>1. rates' = [rates EXCEPT ![i] = Rate(i)] /\ i' = i + 1 /\ page' = "drawing"
      BY <2>1, <2>6
    <3>2. i \in 1..n
      BY <2>1, <2>2, <2>4, <2>6
    <3>3. Rate(i) = IF i = n THEN [sent |-> 0, received |-> 0]
                    ELSE Minus(data[i + 1], data[i])
      <4>1. CASE i = n
        <5>1. rates[i] = [sent |-> data[i].sent, received |-> data[i].received]
          BY <2>1, <3>2 DEF Drawn
        <5>2. Minus(rates[i], rates[i]) = [sent |-> 0, received |-> 0]
          BY <2>3, <3>2, <5>1 DEF Minus
        <5> QED
          BY <2>4, <4>1, <5>2 DEF Rate
      <4>2. CASE i # n
        <5>1. i + 1 \in 1..n
          BY <2>2, <3>2, <4>2
        <5>2. /\ rates[i] = [sent |-> data[i].sent, received |-> data[i].received]
              /\ rates[i + 1] = [sent |-> data[i + 1].sent,
                                 received |-> data[i + 1].received]
          BY <2>1, <3>2, <5>1 DEF Drawn
        <5> QED
          BY <2>4, <4>2, <5>2 DEF Rate, Minus
      <4> QED
        BY <4>1, <4>2
    <3>4. rates' = [k \in 1..n |-> Drawn(k)]'
      <4>1. rates' = [k \in 1..n |-> IF k = i THEN Rate(i) ELSE Drawn(k)]
        BY <2>1, <3>1
      <4>2. \A k \in 1..n :
              Drawn(k)' = IF k >= i + 1
                          THEN [sent |-> data[k].sent, received |-> data[k].received]
                          ELSE IF k = n THEN [sent |-> 0, received |-> 0]
                          ELSE Minus(data[k + 1], data[k])
        BY <2>5, <2>n, <3>1 DEF Drawn, Minus
      <4>3. \A k \in 1..n : k # i => Drawn(k)' = Drawn(k)
        <5> TAKE k \in 1..n
        <5>1. k # i => (k >= i + 1 <=> k >= i)
          BY <3>2
        <5> QED
          BY <2>n, <4>2, <5>1 DEF Drawn
      <4>4. \A k \in 1..n : k = i => Drawn(k)' = Rate(i)
        <5>1. ~(i >= i + 1)
          BY <3>2
        <5> QED
          BY <3>3, <5>1, <4>2
      <4> QED
        BY <4>1, <4>3, <4>4, <2>n
    <3>5. \A m \in 1..n : m <= i + 1 => Telescopes(Sent, m) /\ Telescopes(Recv, m)
      <4>1. SUFFICES ASSUME i + 1 \in 1..n
                     PROVE  Telescopes(Sent, i + 1) /\ Telescopes(Recv, i + 1)
        <5>1. \A m \in 1..n : m <= i + 1 => m <= i \/ m = i + 1
          BY <3>2
        <5> QED
          BY <2>1, <5>1
      <4>2. Telescopes(Sent, i) /\ Telescopes(Recv, i) /\ i \in Nat \ {0}
        BY <2>1, <3>2
      <4>3. \A k \in 1..i + 1 : k \in 1..n
        BY <4>1, <2>2
      <4>4. \A k \in 1..i + 1 : Sent[k] \in Int /\ Recv[k] \in Int
        BY <2>2, <2>3, <4>3 DEF Sent, Recv
      <4> QED
        BY <4>2, <4>4, OneMoreTelescopes
    <3>6. Sent' = Sent /\ Recv' = Recv
      BY <2>5 DEF Sent, Recv
    <3>7. \A m \in 1..n : m <= i' => Telescopes(Sent, m)' /\ Telescopes(Recv, m)'
      BY <3>1, <3>5, <3>6
    <3>8. i' \in 1..n + 1
      BY <2>2, <3>1, <3>2
    <3> QED
      BY <2>n, <3>1, <3>4, <3>7, <3>8 DEF DrawInv, n
  <2>7. CASE /\ i > Len(rates)
             /\ rates' = SubSeq(rates, 1, Len(rates) - 1)
             /\ page' = "shown"
    <3>1. rates' = SubSeq(rates, 1, n - 1) /\ page' = "shown"
      BY <2>4, <2>7
    <3>2. i = n + 1
      BY <2>1, <2>2, <2>4, <2>7
    <3>3. \A k \in 1..n - 1 : Drawn(k) = Minus(data[k + 1], data[k])
      BY <2>2, <2>n, <3>2 DEF Drawn
    <3>4. rates' = [k \in 1..n - 1 |-> Minus(data[k + 1], data[k])]
      <4>1. rates' = [k \in 1..n - 1 |-> rates[k]]
        <5>1. \A s : SubSeq(s, 1, n - 1) = [k \in 1..n - 1 |-> s[k]]
          BY <2>2
        <5> QED
          BY <3>1, <5>1
      <4>2. \A k \in 1..n - 1 : rates[k] = Minus(data[k + 1], data[k])
        BY <2>1, <2>2, <3>3
      <4> QED
        BY <4>1, <4>2
    <3>5. Telescopes(Sent, n) /\ Telescopes(Recv, n)
      BY <2>1, <2>2, <3>2
    <3>6. /\ Sent' = Sent /\ Recv' = Recv
          /\ [k \in 1..n - 1 |-> Minus(data[k + 1], data[k])]' =
               [k \in 1..n - 1 |-> Minus(data[k + 1], data[k])]
      BY <2>5, <2>n DEF Sent, Recv, Minus
    <3>7. rates' = [k \in 1..Len(data) - 1 |-> Minus(data[k + 1], data[k])]'
      BY <3>4, <3>6 DEF n
    <3>8. Telescopes(Sent, Len(data))' /\ Telescopes(Recv, Len(data))'
      BY <2>5, <3>5, <3>6 DEF n
    <3> QED
      BY <3>1, <3>7, <3>8 DEF DrawInv
  <2> QED
    BY <1>2, <2>6, <2>7, Zenon DEF Draw
<1>3. CASE UNCHANGED view
  <2>1. UNCHANGED <<page, data, rates, i>>
    BY <1>3 DEF view
  <2>2. UNCHANGED <<Sent, Recv, Len(data)>>
    BY <2>1 DEF Sent, Recv
  <2>3. /\ [k \in 1..Len(data) |-> Drawn(k)]' = [k \in 1..Len(data) |-> Drawn(k)]
        /\ [k \in 1..Len(data) - 1 |-> Minus(data[k + 1], data[k])]' =
             [k \in 1..Len(data) - 1 |-> Minus(data[k + 1], data[k])]
    BY <2>1 DEF Drawn, Minus
  <2> QED
    BY <2>1, <2>2, <2>3 DEF DrawInv
<1>4. Read \/ Draw \/ UNCHANGED view
  BY DEF RNext, Collect, Publish, Open, Close, Verdict, rvars
<1> QED
  BY <1>1, <1>2, <1>3, <1>4

LEMMA PInvariance == RSpec => [](RInv /\ PInv)
<1>1. RInv /\ PInv /\ [RNext]_rvars => RInv' /\ PInv'
  BY RInvNext, CollectedNext, ReadNext, DrawNext DEF PInv
<1> QED
  BY RInvInit, PInvInit, <1>1, PTL DEF RSpec

\* A line that lost against its successor was collected after it.
LEMMA LaterHasMore ==
  ASSUME RInv, CollectedInv, NEW g \in DOMAIN snaps, NEW h \in DOMAIN snaps,
         snaps[g].sent < snaps[h].sent
  PROVE  g < h
<1>1. DOMAIN snaps = 1..Len(snaps) /\ snaps[g] \in Snapshots /\ snaps[h] \in Snapshots
  BY DEF RInv, RTypeOK
<1>2. snaps[g].sent \in Int /\ snaps[h].sent \in Int
  BY <1>1 DEF Snapshots
<1>3. g \in Int /\ h \in Int
  BY <1>1
<1>4. h <= g => snaps[h].sent <= snaps[g].sent
  BY DEF CollectedInv
<1> QED
  BY <1>2, <1>3, <1>4

\* Whatever number of lines the page has read, and in whatever order they were
\* written, its table and its rates add up to what the last line says.
THEOREM ThePageAddsUp == RSpec => []PageAddsUp
<1>1. RInv /\ PInv => PageAddsUp
  <2> SUFFICES ASSUME RInv, CollectedInv, ReadInv, DrawInv, page = "shown"
               PROVE  PageAddsUp
    BY DEF PInv, PageAddsUp
  <2> DEFINE n == Len(data)
  <2>1. /\ data \in Seq(Snapshots) /\ data # <<>> /\ Among(data)
        /\ rates = [k \in 1..n - 1 |-> Minus(data[k + 1], data[k])]
        /\ Telescopes(Sent, n) /\ Telescopes(Recv, n)
    BY DEF ReadInv, DrawInv
  <2>2. n \in Nat /\ n >= 1 /\ DOMAIN data = 1..n /\ 1 \in 1..n /\ n \in 1..n
    BY <2>1
  <2>3. \A k \in 1..n : data[k] \in Snapshots
    BY <2>1, <2>2
  <2>4. \A k \in 1..n : /\ data[k].sent \in Nat /\ data[k].received \in Nat
                        /\ data[k].lower \in Nat /\ data[k].upper \in Nat
    BY <2>3 DEF Snapshots
  <2>5. n = Len(data)
    OBVIOUS
  <2> HIDE DEF n
  <2>6. \A k \in 1..n : Sent[k] = data[k].sent /\ Recv[k] = data[k].received
    BY <2>2 DEF Sent, Recv
  <2>7. /\ DOMAIN rates = 1..n - 1
        /\ \A k \in 1..n - 1 :
             /\ k \in 1..n /\ k + 1 \in 1..n
             /\ rates[k].sent = data[k + 1].sent - data[k].sent
             /\ rates[k].received = data[k + 1].received - data[k].received
    BY <2>1, <2>2 DEF Minus
  <2>8. Table[1] + Table[2] + Table[3] = data[Len(data)].sent
    <3>1. PICK h \in DOMAIN snaps : data[n] = snaps[h]
      BY <2>1, <2>2 DEF Among
    <3>2. data[n].received = data[n].lower + data[n].upper
      BY <3>1 DEF CollectedInv
    <3>3. /\ Table[1] = data[n].lower /\ Table[2] = data[n].upper
          /\ Table[3] = data[n].sent - data[n].received
      BY <2>5 DEF Table
    <3> QED
      BY <2>2, <2>4, <2>5, <3>2, <3>3
  <2>9. Net([k \in DOMAIN rates |-> rates[k].received], DOMAIN rates)
          = data[Len(data)].received - data[1].received
    <3> DEFINE f == [k \in DOMAIN rates |-> rates[k].received]
               g == [k \in 1..n - 1 |-> Recv[k + 1] - Recv[k]]
    <3>1. \A k \in 1..n - 1 : f[k] = g[k]
      BY <2>6, <2>7
    <3>2. Net(g, 1..n - 1) = Recv[n] - Recv[1]
      BY <2>1 DEF Telescopes
    <3>3. Net(f, 1..n - 1) = Net(g, 1..n - 1)
      <4> HIDE DEF f, g
      <4> QED
        BY <3>1, NetSame
    <3>4. Recv[n] = data[Len(data)].received /\ Recv[1] = data[1].received
      BY <2>2, <2>5, <2>6
    <3> HIDE DEF g
    <3> QED
      BY <2>7, <3>2, <3>3, <3>4
  <2>10. Net([k \in DOMAIN rates |-> rates[k].sent], DOMAIN rates)
           = data[Len(data)].sent - data[1].sent
    <3> DEFINE f == [k \in DOMAIN rates |-> rates[k].sent]
               g == [k \in 1..n - 1 |-> Sent[k + 1] - Sent[k]]
    <3>1. \A k \in 1..n - 1 : f[k] = g[k]
      BY <2>6, <2>7
    <3>2. Net(g, 1..n - 1) = Sent[n] - Sent[1]
      BY <2>1 DEF Telescopes
    <3>3. Net(f, 1..n - 1) = Net(g, 1..n - 1)
      <4> HIDE DEF f, g
      <4> QED
        BY <3>1, NetSame
    <3>4. Sent[n] = data[Len(data)].sent /\ Sent[1] = data[1].sent
      BY <2>2, <2>5, <2>6
    <3> HIDE DEF g
    <3> QED
      BY <2>7, <3>2, <3>3, <3>4
  <2>11. ASSUME NEW k \in DOMAIN rates, rates[k].sent < 0
         PROVE  \E g, h \in DOMAIN snaps :
                  g < h /\ snaps[h] = data[k] /\ snaps[g] = data[k + 1]
    <3>1. k \in 1..n /\ k + 1 \in 1..n /\ data[k + 1].sent < data[k].sent
      BY <2>4, <2>7, <2>11
    <3>2. PICK g \in DOMAIN snaps : snaps[g] = data[k + 1]
      BY <2>1, <2>2, <3>1 DEF Among
    <3>3. PICK h \in DOMAIN snaps : snaps[h] = data[k]
      BY <2>1, <2>2, <3>1 DEF Among
    <3>4. g < h
      BY <3>1, <3>2, <3>3, LaterHasMore
    <3> QED
      BY <3>2, <3>3, <3>4
  <2> QED
    BY <2>8, <2>9, <2>10, <2>11 DEF PageAddsUp
<1> QED
  BY <1>1, PInvariance, PTL
=============================================================================
