-------------------------- MODULE SlaveOps_proofs ----------------------------
(***************************************************************************)
(* Two operations of a slave on its connections.  StartConn: the batches   *)
(* cover the connections exactly once and connection:success is right, for *)
(* any number of slaves, connections, concurrent connections and masters   *)
(* served.  SendMsg: whatever the number of slaves, of sending steps and   *)
(* of messages, every message that arrives is counted once for each step,  *)
(* up to the handlers that overlap the clearing of the counters, and the   *)
(* total of the hub comes to a slave that keeps it.                        *)
(***************************************************************************)
EXTENDS StartConn, SendMsg, FiniteSetTheorems, TLAPS

-----------------------------------------------------------------------------
(* StartConn                                                                *)

\* Quotient and remainder of a division by the number of slaves.
LEMMA Division ==
  ASSUME NEW a \in Nat
  PROVE  /\ a \div N \in Nat /\ a % N \in Nat /\ a % N < N
         /\ a = N * (a \div N) + (a % N)
BY NAssumption, Z3

\* The share of a slave does not shrink when the total grows.
LEMMA ShareMonotone ==
  ASSUME NEW a \in Nat, NEW b \in Nat, a <= b, NEW k \in Nat
  PROVE  SplitNumber(a, k, N) <= SplitNumber(b, k, N)
<1> DEFINE qa == a \div N
           ra == a % N
           qb == b \div N
           rb == b % N
<1>1. /\ qa \in Nat /\ ra \in Nat /\ ra < N /\ a = N * qa + ra
      /\ qb \in Nat /\ rb \in Nat /\ rb < N /\ b = N * qb + rb
      /\ N \in Nat
  BY Division, NAssumption
<1>2. SplitNumber(a, k, N) = qa + (IF k < ra THEN 1 ELSE 0)
      /\ SplitNumber(b, k, N) = qb + (IF k < rb THEN 1 ELSE 0)
  BY DEF SplitNumber
<1> HIDE DEF qa, ra, qb, rb
<1>3. qa <= qb
  <2> SUFFICES ASSUME qb + 1 <= qa PROVE FALSE
    BY <1>1
  <2>1. PICK d \in Nat : qa = qb + 1 + d
    <3>1. qa - (qb + 1) \in Nat /\ qa = qb + 1 + (qa - (qb + 1))
      BY <1>1
    <3> QED
      BY <3>1
  <2>2. N * qa = N * qb + N + N * d /\ N * d >= 0
    BY <1>1, <2>1
  <2>3. N * qb \in Nat /\ N * qa \in Nat /\ N * d \in Nat
    BY <1>1
  <2> QED
    BY <1>1, <2>2, <2>3
<1>4. CASE qa = qb
  BY <1>1, <1>2, <1>4
<1>5. CASE qa < qb
  BY <1>1, <1>2, <1>5
<1> QED
  BY <1>1, <1>3, <1>4, <1>5

\* Shares are natural numbers, and those of the concurrent connections fit
\* into those of the connections if the totals do.
LEMMA ShareFacts ==
  ASSUME me \in Nat, connections \in Nat, concurrent \in Nat
  PROVE  /\ Share \in Nat /\ ConcurrentShare \in Nat
         /\ concurrent <= connections => ConcurrentShare <= Share
<1>1. \A a \in Nat : SplitNumber(a, me, N) \in Nat
  BY Division DEF SplitNumber
<1>2. concurrent <= connections =>
        SplitNumber(concurrent, me, N) <= SplitNumber(connections, me, N)
  BY ShareMonotone
<1> QED
  BY <1>1, <1>2 DEF Share, ConcurrentShare

(***************************************************************************)
(* The inductive invariant.  Cover: what has been tried is the beginning   *)
(* of the list, each connection in one state.  Errors: the errors of this  *)
(* master and of the earlier ones.  Loop: where the loop is.               *)
(***************************************************************************)
Cover ==
  /\ Tried = 0..i - 1
  /\ tasks = i /\ i <= count
  /\ started \cap failed = {}
  /\ pending \cap (started \cup failed) = {}
  /\ IsFiniteSet(failed)

Errors ==
  /\ pc = "load" => errors = inherited
  /\ pc # "load" => errors = inherited + Cardinality(failed)
  /\ run = 1 => inherited = 0

Loop ==
  /\ pc \in {"load", "start", "connected"} => pending = {}
  /\ pc = "start" =>
       count = Share /\ left = Share /\ batch = ConcurrentShare /\ i = 0
  /\ pc \in {"batch", "wait"} => i + left = count /\ batch <= left
  /\ pc = "wait" => left = 0
  /\ pc = "connected" =>
       /\ i \in {0, count}
       /\ concurrent <= connections => i = count
       /\ success = count - errors

IInv == TypeOK /\ Cover /\ Errors /\ Loop

LEMMA InitInv == Init => IInv
<1> SUFFICES ASSUME Init PROVE IInv
  OBVIOUS
<1>1. TypeOK
  BY NAssumption, BoundsAssumption DEF Init, TypeOK, Points
<1>2. Cover
  BY FS_EmptySet DEF Init, Cover, Tried
<1>3. Errors
  BY DEF Init, Errors
<1>4. Loop
  BY DEF Init, Loop
<1> QED
  BY <1>1, <1>2, <1>3, <1>4 DEF IInv

LEMMA NextInv == IInv /\ [Next]_vars => IInv'
<1> SUFFICES ASSUME IInv, [Next]_vars PROVE IInv'
  OBVIOUS
<1> USE DEF IInv
<1>0. /\ Share \in Nat /\ ConcurrentShare \in Nat
      /\ concurrent <= connections => ConcurrentShare <= Share
  BY ShareFacts, NAssumption, BoundsAssumption DEF TypeOK
<1>1. CASE CreateConn
  <2> USE <1>1 DEF CreateConn, args
  <2>1. TypeOK'
    BY <1>0 DEF TypeOK, Points
  <2>2. Cover'
    BY <1>0, FS_EmptySet DEF Cover, Tried, Loop
  <2>3. Errors'
    BY FS_EmptySet DEF Errors, TypeOK
  <2>4. Share' = Share /\ ConcurrentShare' = ConcurrentShare
    BY DEF Share, ConcurrentShare
  <2>5. Loop'
    BY <2>4 DEF Loop
  <2> QED
    BY <2>1, <2>2, <2>3, <2>5
<1>2. CASE EnterLoop
  <2> USE <1>2 DEF EnterLoop, args, loop, UpdateConnectionSuccess
  <2>1. TypeOK'
    BY DEF TypeOK, Points
  <2>2. Cover'
    BY DEF Cover, Tried
  <2>3. Errors'
    BY DEF Errors
  <2>4. Loop'
    BY <1>0 DEF Loop, TypeOK, Cover
  <2> QED
    BY <2>1, <2>2, <2>3, <2>4
<1>3. CASE StartBatch
  <2> USE <1>3 DEF StartBatch, args
  <2>1. /\ i \in Nat /\ batch \in Nat /\ left \in Nat /\ count \in Nat
        /\ i + left = count /\ batch <= left
    BY DEF TypeOK, Loop
  <2>2. batch' \in Nat /\ batch' <= left' /\ left' = left - batch
    BY <2>1 DEF NextSize
  <2>3. Batch(i) \subseteq Nat /\ Batch(i) \cap (0..i - 1) = {}
    BY <2>1 DEF Batch
  <2>4. TypeOK'
    <3>1. pc' \in Points /\ i' \in Nat /\ tasks' \in Nat /\ left' \in Nat
      BY <2>1, <2>2 DEF TypeOK, Points
    <3>2. pending' \subseteq Nat
      BY <2>3 DEF TypeOK
    <3> QED
      BY <2>2, <3>1, <3>2 DEF TypeOK
  <2>5. Cover'
    <3>1. (0..i - 1) \cup Batch(i) = 0..i' - 1
      BY <2>1 DEF Batch
    <3>2. Tried' = Tried \cup Batch(i)
      BY DEF Tried
    <3>3. pending' \cap (started \cup failed)' = {}
      BY <2>3 DEF Cover, Tried
    <3> QED
      BY <2>1, <3>1, <3>2, <3>3 DEF Cover
  <2>6. Errors'
    BY DEF Errors
  <2>7. Loop'
    BY <2>1, <2>2 DEF Loop, Goes
  <2> QED
    BY <2>4, <2>5, <2>6, <2>7
<1>4. CASE WhenAll
  <2> USE <1>4 DEF WhenAll, args, loop, UpdateConnectionSuccess
  <2>1. TypeOK'
    BY DEF TypeOK, Points
  <2>2. Cover'
    BY DEF Cover, Tried
  <2>3. Errors'
    BY DEF Errors
  <2>4. Loop'
    BY DEF Loop, TypeOK
  <2> QED
    BY <2>1, <2>2, <2>3, <2>4
<1>5. ASSUME NEW index \in pending, Starts(index) PROVE IInv'
  <2> USE <1>5 DEF Starts, args, loop
  <2>1. TypeOK'
    BY DEF TypeOK, Points
  <2>2. Cover'
    BY DEF Cover, Tried
  <2>3. Errors'
    BY DEF Errors
  <2>4. Share' = Share /\ ConcurrentShare' = ConcurrentShare
    BY DEF Share, ConcurrentShare
  <2>5. Loop'
    BY <2>4 DEF Loop
  <2> QED
    BY <2>1, <2>2, <2>3, <2>5
<1>6. ASSUME NEW index \in pending, FailsToStart(index) PROVE IInv'
  <2> USE <1>6 DEF FailsToStart, args, loop
  <2>1. TypeOK'
    BY DEF TypeOK, Points
  <2>2. Cover'
    <3>1. IsFiniteSet(failed')
      BY FS_AddElement DEF Cover
    <3> QED
      BY <3>1 DEF Cover, Tried
  <2>3. Errors'
    <3>1. Cardinality(failed') = Cardinality(failed) + 1
      BY FS_AddElement DEF Cover
    <3>2. Cardinality(failed) \in Nat
      BY FS_CardinalityType DEF Cover
    <3> QED
      BY <3>1, <3>2 DEF Errors, TypeOK, Loop
  <2>4. Share' = Share /\ ConcurrentShare' = ConcurrentShare
    BY DEF Share, ConcurrentShare
  <2>5. Loop'
    BY <2>4 DEF Loop
  <2> QED
    BY <2>1, <2>2, <2>3, <2>5
<1>7. CASE NextMaster
  <2> USE <1>7 DEF NextMaster, loop
  <2>1. TypeOK'
    BY BoundsAssumption DEF TypeOK, Points
  <2>2. Cover'
    BY DEF Cover, Tried
  <2>3. Errors'
    BY DEF Errors, TypeOK
  <2>4. Loop'
    BY DEF Loop
  <2> QED
    BY <2>1, <2>2, <2>3, <2>4
<1>8. CASE UNCHANGED vars
  <2> USE <1>8 DEF vars, args, loop
  <2>1. TypeOK' /\ Cover' /\ Errors'
    BY DEF TypeOK, Cover, Tried, Errors
  <2>2. Loop'
    BY DEF Loop, Share, ConcurrentShare
  <2> QED
    BY <2>1, <2>2
<1> QED
  BY <1>1, <1>2, <1>3, <1>4, <1>5, <1>6, <1>7, <1>8 DEF Next, Slave

LEMMA Invariance == Spec => []IInv
BY InitInv, NextInv, PTL DEF Spec

\* Every variable of the slave keeps its type.
THEOREM TypeCorrect == Spec => []TypeOK
<1>1. IInv => TypeOK
  BY DEF IInv
<1> QED
  BY <1>1, Invariance, PTL

\* No connection is started twice, and none that does not exist.
THEOREM StartedOnce == Spec => []EachOnce
<1>1. IInv => EachOnce
  <2> SUFFICES ASSUME IInv PROVE EachOnce
    OBVIOUS
  <2>1. i \in Nat /\ tasks = i /\ Tried = 0..i - 1 /\ i <= count /\ count \in Nat
    BY DEF IInv, TypeOK, Cover
  <2>2. Cardinality(0..i - 1) = i
    BY <2>1, FS_Interval
  <2> QED
    BY <2>1, <2>2 DEF EachOnce
<1> QED
  BY <1>1, Invariance, PTL

\* All connections are tried or none, and all if the totals fit.
THEOREM TriedAllOrNone == Spec => []AllOrNone
<1>1. IInv => AllOrNone
  <2> SUFFICES ASSUME IInv, pc = "connected"
               PROVE  /\ started \cup failed \in {{}, 0..count - 1}
                      /\ concurrent <= connections =>
                           started \cup failed = 0..count - 1
    BY DEF AllOrNone
  <2>1. started \cup failed = 0..i - 1
    BY DEF IInv, Cover, Tried, Loop
  <2>2. 0..0 - 1 = {}
    OBVIOUS
  <2> QED
    BY <2>1, <2>2 DEF IInv, Loop
<1> QED
  BY <1>1, Invariance, PTL

\* The success counter of a fresh worker is the number of open connections.
THEOREM SuccessIsCounted == Spec => []SuccessCounted
<1>1. IInv => SuccessCounted
  <2> SUFFICES ASSUME IInv, pc = "connected", concurrent <= connections
               PROVE  /\ success <= Cardinality(started)
                      /\ run = 1 => success = Cardinality(started)
    BY DEF SuccessCounted
  <2>1. started \cup failed = 0..count - 1 /\ started \cap failed = {}
    BY DEF IInv, Cover, Tried, Loop
  <2>2. count \in Nat /\ IsFiniteSet(0..count - 1) /\ Cardinality(0..count - 1) = count
    BY FS_Interval DEF IInv, TypeOK
  <2>3. IsFiniteSet(started) /\ IsFiniteSet(failed)
    BY <2>1, <2>2, FS_Subset
  <2>4. Cardinality(started \cup failed) =
          Cardinality(started) + Cardinality(failed) - Cardinality(started \cap failed)
    BY <2>3, FS_Union
  <2>5. Cardinality(started) \in Nat /\ Cardinality(failed) \in Nat
    BY <2>3, FS_CardinalityType
  <2> DEFINE open == Cardinality(started)
             lost == Cardinality(failed)
  <2>6. count = open + lost
    <3>1. Cardinality({}) = 0
      BY FS_EmptySet
    <3>2. count = open + lost - 0
      BY <2>1, <2>2, <2>4, <3>1
    <3> HIDE DEF open, lost
    <3> QED
      BY <2>5, <3>2 DEF open, lost
  <2>7. /\ success = count - errors
        /\ errors = inherited + Cardinality(failed)
        /\ inherited \in Nat
        /\ run = 1 => inherited = 0
    BY DEF IInv, TypeOK, Errors, Loop
  <2>8. count \in Nat /\ open \in Nat /\ lost \in Nat /\ errors = inherited + lost
    BY <2>2, <2>5, <2>7
  <2> HIDE DEF open, lost
  <2>9. success <= open /\ (run = 1 => success = open)
    BY <2>6, <2>7, <2>8
  <2> QED
    BY <2>9 DEF open
<1> QED
  BY <1>1, Invariance, PTL

-----------------------------------------------------------------------------
(* SendMsg: sums as cardinalities                                           *)

-----------------------------------------------------------------------------
(***************************************************************************)
(* Sums over finite sets.                                                  *)
(***************************************************************************)
\* What the units are.
LEMMA UnitsAre ==
  ASSUME NEW S, NEW f
  PROVE  \A u : u \in Units(f, S) <=>
           \E x \in S : \E n \in 0..f[x] - 1 : u = <<x, n>>
  BY DEF Units

\* A sum of finitely many numbers is a number, 0 if they all are.
LEMMA SumType ==
  ASSUME NEW S, IsFiniteSet(S), NEW f, \A x \in S : f[x] \in Nat
  PROVE  /\ IsFiniteSet(Units(f, S)) /\ SumOver(f, S) \in Nat
         /\ (\A x \in S : f[x] = 0) => SumOver(f, S) = 0
<1>1. IsFiniteSet(Units(f, S))
  <2> DEFINE U(x) == {x} \X (0..f[x] - 1)
             T == {U(x) : x \in S}
             g == [x \in S |-> U(x)]
  <2>1. g \in Surjection(S, T)
    BY DEF Surjection
  <2>2. IsFiniteSet(T)
    <3> HIDE DEF g, T
    <3> QED
      BY <2>1, FS_Surjection
  <2>3. ASSUME NEW x \in S PROVE IsFiniteSet(U(x))
    <3>1. IsFiniteSet({x}) /\ IsFiniteSet(0..f[x] - 1)
      <4>1. f[x] - 1 \in Int /\ 0 \in Int
        OBVIOUS
      <4>2. IsFiniteSet(0..f[x] - 1)
        BY <4>1, FS_Interval
      <4> QED
        BY <4>2, FS_Singleton
    <3> QED
      BY <3>1, FS_Product
  <2> QED
    BY <2>2, <2>3, FS_UNION DEF Units
<1>2. SumOver(f, S) \in Nat
  BY <1>1, FS_CardinalityType DEF SumOver
<1>3. (\A x \in S : f[x] = 0) => Units(f, S) = {}
  BY UnitsAre
<1> QED
  BY <1>1, <1>2, <1>3, FS_EmptySet DEF SumOver

\* A sum of larger numbers is larger.
LEMMA SumMonotone ==
  ASSUME NEW S, IsFiniteSet(S), NEW f, NEW g,
         \A x \in S : f[x] \in Nat /\ g[x] \in Nat /\ f[x] <= g[x]
  PROVE  SumOver(f, S) <= SumOver(g, S)
<1>1. Units(f, S) \subseteq Units(g, S)
  <2> SUFFICES ASSUME NEW u \in Units(f, S) PROVE u \in Units(g, S)
    OBVIOUS
  <2>1. PICK x \in S : \E m \in 0..f[x] - 1 : u = <<x, m>>
    BY UnitsAre
  <2>2. PICK m \in 0..f[x] - 1 : u = <<x, m>>
    BY <2>1
  <2>3. m \in 0..g[x] - 1
    OBVIOUS
  <2> QED
    BY <2>2, <2>3, UnitsAre
<1>2. IsFiniteSet(Units(g, S))
  BY SumType
<1> QED
  BY <1>1, <1>2, FS_Subset DEF SumOver

\* A place of a sum over zero is zero.
LEMMA SumZero ==
  ASSUME NEW S, IsFiniteSet(S), NEW f, \A x \in S : f[x] \in Nat,
         SumOver(f, S) = 0
  PROVE  \A x \in S : f[x] = 0
<1>1. Units(f, S) = {}
  BY SumType, FS_EmptySet DEF SumOver
<1> SUFFICES ASSUME NEW x \in S, f[x] # 0 PROVE FALSE
  OBVIOUS
<1>2. 0 \in 0..f[x] - 1
  OBVIOUS
<1>3. <<x, 0>> \in Units(f, S)
  BY <1>2, UnitsAre
<1> QED
  BY <1>1, <1>3

-----------------------------------------------------------------------------
(* Bags of totals                                                           *)

Load(b) == SumOver(b, DOMAIN b)

\* k more of n.
LEMMA MoreInBag ==
  ASSUME NEW b, NEW n, NEW k \in Nat \ {0}, IsFiniteSet(DOMAIN b),
         \A e \in DOMAIN b : b[e] \in Nat \ {0}
  PROVE  LET c == b (+) Copies(n, k)
         IN  /\ DOMAIN c = DOMAIN b \cup {n}
             /\ \A e \in DOMAIN c : c[e] \in Nat \ {0}
             /\ Load(c) = Load(b) + k
<1> DEFINE c == b (+) Copies(n, k)
           old == IF n \in DOMAIN b THEN b[n] ELSE 0
<1>1. DOMAIN c = DOMAIN b \cup {n}
  BY DEF (+), Copies
<1>2. \A e \in DOMAIN b : e # n => c[e] = b[e]
  BY DEF (+), Copies
<1>3. c[n] = old + k /\ old \in Nat
  BY DEF (+), Copies
<1> HIDE DEF c
<1>4. \A e \in DOMAIN c : c[e] \in Nat \ {0}
  BY <1>1, <1>2, <1>3
<1> DEFINE I == old..old + k - 1
           new == {n} \X I
<1>5. Units(c, DOMAIN c) = Units(b, DOMAIN b) \cup new
  <2>1. ASSUME NEW u \in Units(c, DOMAIN c)
        PROVE  u \in Units(b, DOMAIN b) \/ u \in new
    <3>1. PICK e, m : e \in DOMAIN c /\ m \in 0..c[e] - 1 /\ u = <<e, m>>
      BY UnitsAre
    <3>2. CASE e # n
      <4>1. e \in DOMAIN b /\ m \in 0..b[e] - 1
        BY <1>1, <1>2, <3>1, <3>2
      <4> QED
        BY <3>1, <4>1, UnitsAre
    <3>3. CASE e = n /\ m < old
      <4>1. n \in DOMAIN b /\ m \in 0..b[n] - 1
        BY <1>3, <3>1, <3>3
      <4> QED
        BY <3>1, <3>3, <4>1, UnitsAre
    <3>4. CASE e = n /\ ~(m < old)
      <4>1. m \in I
        BY <1>3, <3>1, <3>4
      <4> QED
        BY <3>1, <3>4, <4>1
    <3> QED
      BY <3>2, <3>3, <3>4
  <2>2. ASSUME NEW u \in Units(b, DOMAIN b) PROVE u \in Units(c, DOMAIN c)
    <3>1. PICK e, m : e \in DOMAIN b /\ m \in 0..b[e] - 1 /\ u = <<e, m>>
      BY UnitsAre
    <3>2. e \in DOMAIN c /\ m \in 0..c[e] - 1
      BY <1>1, <1>2, <1>3, <3>1
    <3> QED
      BY <3>1, <3>2, UnitsAre
  <2>3. ASSUME NEW u \in new PROVE u \in Units(c, DOMAIN c)
    <3>1. PICK m \in I : u = <<n, m>>
      OBVIOUS
    <3>2. n \in DOMAIN c /\ m \in 0..c[n] - 1
      BY <1>1, <1>3
    <3> QED
      BY <3>1, <3>2, UnitsAre
  <2> HIDE DEF new
  <2> QED
    BY <2>1, <2>2, <2>3
<1>6. Units(b, DOMAIN b) \cap new = {}
  <2> SUFFICES ASSUME NEW u \in Units(b, DOMAIN b), u \in new PROVE FALSE
    OBVIOUS
  <2>1. PICK e, m : e \in DOMAIN b /\ m \in 0..b[e] - 1 /\ u = <<e, m>>
    BY UnitsAre
  <2>2. e = n /\ m \in I
    BY <2>1
  <2>3. old = b[n] /\ m < b[n]
    BY <2>1, <2>2
  <2> QED
    BY <2>2, <2>3
<1>7. IsFiniteSet(new) /\ Cardinality(new) = k
  <2>1. old \in Int /\ old + k - 1 \in Int /\ ~(old > old + k - 1)
        /\ (old + k - 1) - old + 1 = k
    BY <1>3
  <2>2. IsFiniteSet(I) /\ Cardinality(I) = k
    <3>1. Cardinality(I) = IF old > old + k - 1 THEN 0 ELSE (old + k - 1) - old + 1
      BY <2>1, FS_Interval
    <3>2. IsFiniteSet(I)
      BY <2>1, FS_Interval
    <3> QED
      BY <2>1, <3>1, <3>2
  <2>3. IsFiniteSet({n}) /\ Cardinality({n}) = 1
    BY FS_Singleton
  <2> HIDE DEF I
  <2>4. IsFiniteSet(new) /\ Cardinality(new) = 1 * k
    BY <2>2, <2>3, FS_Product
  <2> QED
    BY <2>4
<1>8. Load(c) = Load(b) + k
  <2>1. IsFiniteSet(Units(b, DOMAIN b)) /\ Cardinality(Units(b, DOMAIN b)) \in Nat
    BY SumType, FS_CardinalityType
  <2> HIDE DEF new
  <2>2. Cardinality(Units(c, DOMAIN c)) =
          Cardinality(Units(b, DOMAIN b)) + Cardinality(new) - Cardinality({})
    BY <1>5, <1>6, <1>7, <2>1, FS_Union
  <2>3. Cardinality({}) = 0
    BY FS_EmptySet
  <2> QED
    BY <1>7, <2>1, <2>2, <2>3 DEF Load, SumOver
<1> QED
  BY <1>1, <1>4, <1>8 DEF c

\* One less of n.
LEMMA OneLessInBag ==
  ASSUME NEW b, NEW n \in DOMAIN b, IsFiniteSet(DOMAIN b),
         \A e \in DOMAIN b : b[e] \in Nat \ {0}
  PROVE  LET c == b (-) SetToBag({n})
         IN  /\ DOMAIN c \subseteq DOMAIN b
             /\ DOMAIN b \ {n} \subseteq DOMAIN c
             /\ \A e \in DOMAIN c : c[e] \in Nat \ {0}
             /\ Load(b) = Load(c) + 1
<1> DEFINE c == b (-) SetToBag({n})
<1>1. /\ \A e \in DOMAIN c : /\ e \in DOMAIN b
                             /\ c[e] = IF e = n THEN b[e] - 1 ELSE b[e]
                             /\ c[e] > 0
      /\ \A e \in DOMAIN b : e # n \/ b[e] - 1 > 0 => e \in DOMAIN c
  BY DEF (-), SetToBag
<1> HIDE DEF c
<1>2. \A e \in DOMAIN c : c[e] \in Nat \ {0}
  BY <1>1
<1> DEFINE old == <<n, b[n] - 1>>
<1>3. Units(b, DOMAIN b) = Units(c, DOMAIN c) \cup {old}
  <2>1. ASSUME NEW u \in Units(b, DOMAIN b)
        PROVE  u \in Units(c, DOMAIN c) \/ u = old
    <3>1. PICK e, m : e \in DOMAIN b /\ m \in 0..b[e] - 1 /\ u = <<e, m>>
      BY UnitsAre
    <3>2. CASE e # n
      <4>1. e \in DOMAIN c /\ m \in 0..c[e] - 1
        BY <1>1, <3>1, <3>2
      <4> QED
        BY <3>1, <4>1, UnitsAre
    <3>3. CASE e = n /\ m # b[n] - 1
      <4>1. n \in DOMAIN c /\ c[n] = b[n] - 1
        BY <1>1, <3>1, <3>3
      <4>2. m \in 0..c[n] - 1
        BY <3>1, <3>3, <4>1
      <4> QED
        BY <3>1, <3>3, <4>1, <4>2, UnitsAre
    <3> QED
      BY <3>1, <3>2, <3>3
  <2>2. ASSUME NEW u \in Units(c, DOMAIN c) PROVE u \in Units(b, DOMAIN b)
    <3>1. PICK e, m : e \in DOMAIN c /\ m \in 0..c[e] - 1 /\ u = <<e, m>>
      BY UnitsAre
    <3>2. e \in DOMAIN b /\ m \in 0..b[e] - 1
      BY <1>1, <3>1
    <3> QED
      BY <3>1, <3>2, UnitsAre
  <2>3. old \in Units(b, DOMAIN b)
    <3>1. b[n] - 1 \in 0..b[n] - 1
      OBVIOUS
    <3> QED
      BY <3>1, UnitsAre
  <2> QED
    BY <2>1, <2>2, <2>3
<1>4. old \notin Units(c, DOMAIN c)
  <2> SUFFICES ASSUME old \in Units(c, DOMAIN c) PROVE FALSE
    OBVIOUS
  <2>1. PICK e, m : e \in DOMAIN c /\ m \in 0..c[e] - 1 /\ old = <<e, m>>
    BY UnitsAre
  <2>2. e = n /\ m = b[n] - 1
    BY <2>1
  <2> QED
    BY <1>1, <2>1, <2>2
<1>5. IsFiniteSet(DOMAIN c) /\ IsFiniteSet(Units(c, DOMAIN c))
  <2>1. DOMAIN c \subseteq DOMAIN b
    BY <1>1
  <2>2. IsFiniteSet(DOMAIN c)
    BY <2>1, FS_Subset
  <2> QED
    BY <1>2, <2>2, SumType
<1>6. Load(b) = Load(c) + 1
  <2> HIDE DEF old
  <2> QED
    BY <1>3, <1>4, <1>5, FS_AddElement DEF Load, SumOver
<1> QED
  BY <1>1, <1>2, <1>6 DEF c

-----------------------------------------------------------------------------
Phases == {"idle", "set", "clearing", "last", "running", "done"}

\* Totals that the hub has reached, each at least once.
IsLoad(b) == DOMAIN b \subseteq 0..total /\ \A n \in DOMAIN b : b[n] \in Nat \ {0}
AreLoads(f) == DOMAIN f = Slaves /\ \A s \in Slaves : IsLoad(f[s])

STypeOK ==
  /\ scenario \in {"echo", "broadcast"}
  /\ step \in 1..Steps
  /\ phase \in [Slaves -> Phases]
  /\ callbacks \in [Slaves -> Nat]
  /\ sent \in [Slaves -> Nat] /\ notSent \in [Slaves -> Nat]
  /\ server \in [Slaves -> Nat]
  /\ lower \in [Slaves -> Nat] /\ upper \in [Slaves -> Nat]
  /\ toHub \in [Slaves -> Nat] /\ atHub \in [Slaves -> Nat]
  /\ total \in Nat
  /\ meanwhile \in [Slaves -> Nat] /\ arrived \in [Slaves -> Nat]
  /\ AreLoads(answers) /\ AreLoads(calls) /\ AreLoads(setting)

\* A slave that has sent since its counters were cleared.
Active(s) == phase[s] \in {"running", "done"} /\ sent[s] > 0

\* The total is on its way to slave s, in one of its handlers, kept by it, or
\* will be passed by another.
Holds(s) ==
  \/ toHub[s] + atHub[s] > 0
  \/ total \in DOMAIN answers[s] \cup DOMAIN calls[s] \cup DOMAIN setting[s]
  \/ server[s] = total

\* Once all slaves have sent, some slave holds the total.
TotalInv ==
  /\ \A s \in Slaves : server[s] <= total
  /\ \A s \in Slaves : phase[s] = "last" => sent[s] = 0
  /\ (\A s \in Slaves : Active(s)) => \E s \in Slaves : Holds(s)

(***************************************************************************)
(* A slave has a callback for every step it has begun, and each counts     *)
(* what arrives.  What the clearing does not take away, or takes away of a *)
(* message it leaves otherwise, is of the calls that overlap it.           *)
(***************************************************************************)
Counted(s) ==
  /\ callbacks[s] = IF phase[s] = "idle" THEN step - 1 ELSE step
  /\ phase[s] \in {"clearing", "last"} => lower[s] + Pending(s) <= meanwhile[s]
  /\ phase[s] \in {"running", "done"} =>
       /\ step * arrived[s] <= Received(s) + Pending(s)
       /\ Received(s) + Pending(s) <= step * arrived[s] + meanwhile[s]

CountInv == \A s \in Slaves : Counted(s)

-----------------------------------------------------------------------------
(* Bags that hold totals                                                    *)

LEMMA LoadFacts ==
  ASSUME total \in Nat, NEW b, IsLoad(b)
  PROVE  /\ IsFiniteSet(DOMAIN b) /\ Load(b) \in Nat
         /\ \A e \in DOMAIN b : b[e] \in Nat \ {0}
         /\ Load(b) = 0 => DOMAIN b = {}
<1>1. IsFiniteSet(0..total)
  <2>1. 0 \in Int /\ total \in Int
    OBVIOUS
  <2> QED
    BY <2>1, FS_Interval
<1>2. IsFiniteSet(DOMAIN b) /\ \A e \in DOMAIN b : b[e] \in Nat \ {0}
  BY <1>1, FS_Subset DEF IsLoad
<1>3. Load(b) \in Nat
  BY <1>2, SumType DEF Load
<1>4. ASSUME Load(b) = 0, NEW n \in DOMAIN b PROVE FALSE
  <2>1. b[n] = 0
    BY <1>2, <1>4, SumZero DEF Load
  <2> QED
    BY <1>2, <2>1
<1> QED
  BY <1>2, <1>3, <1>4

LEMMA EmptyLoad ==
  /\ AreLoads([t \in Slaves |-> EmptyBag])
  /\ DOMAIN EmptyBag = {} /\ Load(EmptyBag) = 0
<1>1. DOMAIN EmptyBag = {}
  BY DEF EmptyBag, SetToBag
<1>2. Units(EmptyBag, {}) = {}
  BY DEF Units
<1> QED
  BY <1>1, <1>2, FS_EmptySet DEF Load, SumOver, IsLoad, AreLoads

\* What a bag of totals is after k more of a total that has been reached.
LEMMA PutTotal ==
  ASSUME total \in Nat, NEW b, IsLoad(b), NEW n \in 0..total, NEW k \in Nat \ {0}
  PROVE  LET c == b (+) Copies(n, k)
         IN  IsLoad(c) /\ DOMAIN c = DOMAIN b \cup {n} /\ Load(c) = Load(b) + k
<1> DEFINE c == b (+) Copies(n, k)
<1>1. IsFiniteSet(DOMAIN b) /\ \A e \in DOMAIN b : b[e] \in Nat \ {0}
  BY LoadFacts
<1>2. /\ DOMAIN c = DOMAIN b \cup {n} /\ \A e \in DOMAIN c : c[e] \in Nat \ {0}
      /\ Load(c) = Load(b) + k
  BY <1>1, MoreInBag
<1> HIDE DEF c
<1>3. IsLoad(c)
  BY <1>2 DEF IsLoad
<1> QED
  BY <1>2, <1>3 DEF c

\* And after one less.
LEMMA TakeTotal ==
  ASSUME total \in Nat, NEW b, IsLoad(b), NEW n \in DOMAIN b
  PROVE  LET c == b (-) SetToBag({n})
         IN  /\ IsLoad(c) /\ Load(b) = Load(c) + 1
             /\ \A e \in DOMAIN b : e # n => e \in DOMAIN c
<1> DEFINE c == b (-) SetToBag({n})
<1>1. IsFiniteSet(DOMAIN b) /\ \A e \in DOMAIN b : b[e] \in Nat \ {0}
  BY LoadFacts
<1>2. /\ DOMAIN c \subseteq DOMAIN b /\ DOMAIN b \ {n} \subseteq DOMAIN c
      /\ \A e \in DOMAIN c : c[e] \in Nat \ {0}
      /\ Load(b) = Load(c) + 1
  BY <1>1, OneLessInBag
<1> HIDE DEF c
<1>3. IsLoad(c)
  BY <1>2 DEF IsLoad
<1> QED
  BY <1>2, <1>3 DEF c

\* One more of n is a bag of one copy of it.
LEMMA OneCopy == \A n : SetToBag({n}) = Copies(n, 1)
  BY DEF SetToBag, Copies

\* Bags nobody touches stay what they are while the total does not fall.
LEMMA SameLoads ==
  ASSUME NEW f, AreLoads(f), total \in Nat, total' \in Nat, total <= total'
  PROVE  DOMAIN f = Slaves
         /\ \A s \in Slaves : /\ DOMAIN f[s] \subseteq 0..total'
                              /\ \A n \in DOMAIN f[s] : f[s][n] \in Nat \ {0}
<1>1. 0..total \subseteq 0..total'
  OBVIOUS
<1> QED
  BY <1>1 DEF AreLoads, IsLoad

LEMMA LoadsUnchanged ==
  ASSUME STypeOK, total' \in Nat, total <= total'
  PROVE  /\ UNCHANGED answers => AreLoads(answers)'
         /\ UNCHANGED calls => AreLoads(calls)'
         /\ UNCHANGED setting => AreLoads(setting)'
<1>1. total \in Nat /\ AreLoads(answers) /\ AreLoads(calls) /\ AreLoads(setting)
  BY DEF STypeOK
<1>2. UNCHANGED answers => AreLoads(answers)'
  BY <1>1, SameLoads DEF AreLoads, IsLoad
<1>3. UNCHANGED calls => AreLoads(calls)'
  BY <1>1, SameLoads DEF AreLoads, IsLoad
<1>4. UNCHANGED setting => AreLoads(setting)'
  BY <1>1, SameLoads DEF AreLoads, IsLoad
<1> QED
  BY <1>2, <1>3, <1>4

\* The calls of handlers that are pending are a number.
LEMMA PendingType ==
  ASSUME STypeOK, NEW s \in Slaves
  PROVE  Pending(s) = Load(calls[s]) /\ Pending(s) \in Nat
<1>1. total \in Nat /\ IsLoad(calls[s])
  BY DEF STypeOK, AreLoads
<1> QED
  BY <1>1, LoadFacts DEF Pending, Load

\* If nothing is under way to a slave, no call or answer is.
LEMMA NothingUnderWay ==
  ASSUME STypeOK, NEW s \in Slaves, UnderWay(s) = 0
  PROVE  toHub[s] + atHub[s] = 0 /\ DOMAIN answers[s] = {}
<1> DEFINE f == [c \in Slaves |-> toHub[c] + atHub[c]]
<1>1. \A c \in Slaves : f[c] \in Nat
  BY DEF STypeOK
<1>2. Callers(s) \subseteq Slaves /\ IsFiniteSet(Callers(s)) /\ s \in Callers(s)
  BY SlavesAssumption, FS_Singleton DEF Callers
<1>3. f[s] = toHub[s] + atHub[s]
  OBVIOUS
<1>4. UnderWay(s) = SumOver(f, Callers(s)) + Load(answers[s])
  BY DEF UnderWay, Load
<1> HIDE DEF f
<1>5. SumOver(f, Callers(s)) \in Nat
  BY <1>1, <1>2, SumType
<1>6. total \in Nat /\ IsLoad(answers[s])
  BY DEF STypeOK, AreLoads
<1>7. Load(answers[s]) \in Nat /\ (Load(answers[s]) = 0 => DOMAIN answers[s] = {})
  BY <1>6, LoadFacts
<1>8. SumOver(f, Callers(s)) = 0 /\ Load(answers[s]) = 0
  BY <1>4, <1>5, <1>7
<1>9. \A c \in Callers(s) : f[c] = 0
  BY <1>1, <1>2, <1>8, SumZero
<1> QED
  BY <1>2, <1>3, <1>7, <1>8, <1>9

-----------------------------------------------------------------------------
(* What answers and handlers do to the bags                                 *)

\* Every receiver of an answer has the total under way to it.
LEMMA AnswersBags ==
  ASSUME STypeOK, NEW s \in Slaves, HubAnswers(s)
  PROVE  AreLoads(answers)' /\ total \in DOMAIN answers'[s]
<1>1. /\ total \in Nat /\ total' = total /\ s \in Receivers(s)
      /\ answers' = [r \in Slaves |->
                       IF r \in Receivers(s) THEN answers[r] (+) SetToBag({total})
                       ELSE answers[r]]
      /\ \A r \in Slaves : IsLoad(answers[r])
  BY DEF HubAnswers, STypeOK, AreLoads, Receivers
<1>2. ASSUME NEW r \in Slaves, r \in Receivers(s)
      PROVE  IsLoad(answers'[r]) /\ total \in DOMAIN answers'[r]
  <2> DEFINE b == answers[r]
             c == b (+) Copies(total, 1)
  <2>1. answers'[r] = c /\ IsLoad(b) /\ total \in 0..total
    BY <1>1, <1>2, OneCopy
  <2>2. IsLoad(c) /\ DOMAIN c = DOMAIN b \cup {total}
    <3> HIDE DEF b
    <3>1. 1 \in Nat \ {0}
      OBVIOUS
    <3> QED
      BY <1>1, <2>1, <3>1, PutTotal
  <2> HIDE DEF c
  <2> QED
    BY <2>1, <2>2
<1>3. \A r \in Slaves : IsLoad(answers'[r])
  BY <1>1, <1>2
<1> QED
  BY <1>1, <1>2, <1>3 DEF AreLoads, IsLoad

\* An answer that arrives is in the hands of all handlers there are.
LEMMA ArriveBags ==
  ASSUME STypeOK, NEW s \in Slaves, NEW n \in DOMAIN answers[s], Arrive(s, n)
  PROVE  /\ AreLoads(answers)' /\ AreLoads(calls)'
         /\ \A r \in Slaves : r # s => answers'[r] = answers[r] /\ calls'[r] = calls[r]
         /\ \A e \in DOMAIN answers[s] : e # n => e \in DOMAIN answers'[s]
         /\ DOMAIN calls[s] \subseteq DOMAIN calls'[s]
         /\ callbacks[s] > 0 => n \in DOMAIN calls'[s]
         /\ Load(calls'[s]) = Load(calls[s]) + callbacks[s]
<1>1. /\ total \in Nat /\ total' = total /\ callbacks[s] \in Nat
      /\ DOMAIN answers = Slaves /\ DOMAIN calls = Slaves
      /\ \A r \in Slaves : IsLoad(answers[r]) /\ IsLoad(calls[r])
      /\ answers' = [answers EXCEPT ![s] = answers[s] (-) SetToBag({n})]
      /\ calls' = IF callbacks[s] = 0 THEN calls
                  ELSE [calls EXCEPT ![s] = calls[s] (+) Copies(n, callbacks[s])]
  BY DEF Arrive, hub, STypeOK, AreLoads
<1>2. /\ \A r \in Slaves : r # s => answers'[r] = answers[r] /\ calls'[r] = calls[r]
      /\ DOMAIN answers' = Slaves /\ DOMAIN calls' = Slaves
      /\ answers'[s] = answers[s] (-) SetToBag({n})
      /\ callbacks[s] # 0 => calls'[s] = calls[s] (+) Copies(n, callbacks[s])
      /\ callbacks[s] = 0 => calls'[s] = calls[s]
  BY <1>1
<1>3. /\ IsLoad(answers'[s])
      /\ \A e \in DOMAIN answers[s] : e # n => e \in DOMAIN answers'[s]
  <2> DEFINE b == answers[s]
             c == b (-) SetToBag({n})
  <2>1. IsLoad(b) /\ n \in DOMAIN b /\ answers'[s] = c
    BY <1>1, <1>2
  <2>2. IsLoad(c) /\ \A e \in DOMAIN b : e # n => e \in DOMAIN c
    <3> HIDE DEF b
    <3> QED
      BY <1>1, <2>1, TakeTotal
  <2> HIDE DEF c
  <2> QED
    BY <2>1, <2>2
<1>4. n \in 0..total
  BY <1>1 DEF IsLoad
<1>5. Load(calls[s]) \in Nat
  BY <1>1, LoadFacts
<1>6. /\ IsLoad(calls'[s]) /\ DOMAIN calls[s] \subseteq DOMAIN calls'[s]
      /\ callbacks[s] > 0 => n \in DOMAIN calls'[s]
      /\ Load(calls'[s]) = Load(calls[s]) + callbacks[s]
  <2>1. CASE callbacks[s] = 0
    BY <1>1, <1>2, <1>5, <2>1
  <2>2. CASE callbacks[s] # 0
    <3> DEFINE b == calls[s]
               k == callbacks[s]
               c == b (+) Copies(n, k)
    <3>1. IsLoad(b) /\ k \in Nat \ {0} /\ calls'[s] = c
      BY <1>1, <1>2, <2>2
    <3>2. IsLoad(c) /\ DOMAIN c = DOMAIN b \cup {n} /\ Load(c) = Load(b) + k
      <4> HIDE DEF b, k
      <4> QED
        BY <1>1, <1>4, <3>1, PutTotal
    <3> HIDE DEF c
    <3> QED
      BY <3>1, <3>2
  <2> QED
    BY <2>1, <2>2
<1>7. \A r \in Slaves : IsLoad(answers'[r]) /\ IsLoad(calls'[r])
  BY <1>1, <1>2, <1>3, <1>6
<1> QED
  BY <1>1, <1>2, <1>3, <1>6, <1>7 DEF AreLoads, IsLoad

\* A handler that counts has its total still to set.
LEMMA CountsBags ==
  ASSUME STypeOK, NEW s \in Slaves, NEW n \in DOMAIN calls[s], HandlerCounts(s, n)
  PROVE  /\ AreLoads(calls)' /\ AreLoads(setting)'
         /\ \A r \in Slaves : r # s => calls'[r] = calls[r] /\ setting'[r] = setting[r]
         /\ \A e \in DOMAIN calls[s] : e # n => e \in DOMAIN calls'[s]
         /\ DOMAIN setting[s] \cup {n} \subseteq DOMAIN setting'[s]
         /\ Load(calls[s]) = Load(calls'[s]) + 1
<1>1. /\ total \in Nat /\ total' = total
      /\ DOMAIN calls = Slaves /\ DOMAIN setting = Slaves
      /\ \A r \in Slaves : IsLoad(calls[r]) /\ IsLoad(setting[r])
      /\ calls' = [calls EXCEPT ![s] = calls[s] (-) SetToBag({n})]
      /\ setting' = [setting EXCEPT ![s] = setting[s] (+) SetToBag({n})]
  BY DEF HandlerCounts, hub, STypeOK, AreLoads
<1>2. /\ \A r \in Slaves : r # s => calls'[r] = calls[r] /\ setting'[r] = setting[r]
      /\ DOMAIN calls' = Slaves /\ DOMAIN setting' = Slaves
      /\ calls'[s] = calls[s] (-) SetToBag({n})
      /\ setting'[s] = setting[s] (+) Copies(n, 1)
  BY <1>1, OneCopy
<1>3. /\ IsLoad(calls'[s]) /\ Load(calls[s]) = Load(calls'[s]) + 1
      /\ \A e \in DOMAIN calls[s] : e # n => e \in DOMAIN calls'[s]
  <2> DEFINE b == calls[s]
             c == b (-) SetToBag({n})
  <2>1. IsLoad(b) /\ n \in DOMAIN b /\ calls'[s] = c
    BY <1>1, <1>2
  <2>2. /\ IsLoad(c) /\ Load(b) = Load(c) + 1
        /\ \A e \in DOMAIN b : e # n => e \in DOMAIN c
    <3> HIDE DEF b
    <3> QED
      BY <1>1, <2>1, TakeTotal
  <2> HIDE DEF c
  <2> QED
    BY <2>1, <2>2
<1>4. n \in 0..total
  BY <1>1 DEF IsLoad
<1>5. IsLoad(setting'[s]) /\ DOMAIN setting'[s] = DOMAIN setting[s] \cup {n}
  <2> DEFINE b == setting[s]
             c == b (+) Copies(n, 1)
  <2>1. IsLoad(b) /\ setting'[s] = c
    BY <1>1, <1>2
  <2>2. IsLoad(c) /\ DOMAIN c = DOMAIN b \cup {n}
    <3> HIDE DEF b
    <3>1. 1 \in Nat \ {0}
      OBVIOUS
    <3> QED
      BY <1>1, <1>4, <2>1, <3>1, PutTotal
  <2> HIDE DEF c
  <2> QED
    BY <2>1, <2>2
<1>6. \A r \in Slaves : IsLoad(calls'[r]) /\ IsLoad(setting'[r])
  BY <1>1, <1>2, <1>3, <1>5
<1> QED
  BY <1>1, <1>2, <1>3, <1>5, <1>6 DEF AreLoads, IsLoad

\* A handler that sets its total is through.
LEMMA SetsBags ==
  ASSUME STypeOK, NEW s \in Slaves, NEW n \in DOMAIN setting[s], HandlerSets(s, n)
  PROVE  /\ AreLoads(setting)'
         /\ \A r \in Slaves : r # s => setting'[r] = setting[r]
         /\ \A e \in DOMAIN setting[s] : e # n => e \in DOMAIN setting'[s]
<1>1. /\ total \in Nat /\ total' = total /\ DOMAIN setting = Slaves
      /\ \A r \in Slaves : IsLoad(setting[r])
      /\ setting' = [setting EXCEPT ![s] = setting[s] (-) SetToBag({n})]
  BY DEF HandlerSets, hub, STypeOK, AreLoads
<1> DEFINE b == setting[s]
           c == b (-) SetToBag({n})
<1>2. /\ \A r \in Slaves : r # s => setting'[r] = setting[r]
      /\ DOMAIN setting' = Slaves /\ setting'[s] = c
  BY <1>1
<1>3. IsLoad(c) /\ \A e \in DOMAIN b : e # n => e \in DOMAIN c
  <2>1. IsLoad(b) /\ n \in DOMAIN b
    BY <1>1
  <2> HIDE DEF b
  <2> QED
    BY <1>1, <2>1, TakeTotal
<1> HIDE DEF c
<1>4. \A r \in Slaves : IsLoad(setting'[r])
  BY <1>1, <1>2, <1>3
<1> QED
  BY <1>1, <1>2, <1>3, <1>4 DEF AreLoads, IsLoad

-----------------------------------------------------------------------------
LEMMA STypeInit == SInit => STypeOK
<1> SUFFICES ASSUME SInit PROVE STypeOK
  OBVIOUS
<1>1. 1 \in 1..Steps
  BY StepsAssumption
<1>2. AreLoads(answers) /\ AreLoads(calls) /\ AreLoads(setting)
  BY EmptyLoad DEF SInit
<1> QED
  BY <1>1, <1>2 DEF SInit, STypeOK, Phases

LEMMA STypeNext == STypeOK /\ [SNext]_svars => STypeOK'
<1> SUFFICES ASSUME STypeOK, [SNext]_svars PROVE STypeOK'
  OBVIOUS
<1> USE DEF sending, received, hub, handlers, history, Phases
<1>t. total \in Nat
  BY DEF STypeOK
<1>1. ASSUME UNCHANGED <<answers, calls, setting, total>>
      PROVE  AreLoads(answers)' /\ AreLoads(calls)' /\ AreLoads(setting)'
  BY <1>t, <1>1, LoadsUnchanged
<1>2. ASSUME NEW s \in Slaves, SetCallbacks(s) PROVE STypeOK'
  BY <1>1, <1>2 DEF STypeOK, SetCallbacks, Goto
<1>3. ASSUME NEW s \in Slaves, ResetLatencies(s) PROVE STypeOK'
  <2>1. Pending(s) \in Nat
    BY PendingType
  <2> QED
    BY <1>1, <1>3, <2>1 DEF STypeOK, ResetLatencies, Goto
<1>4. ASSUME NEW s \in Slaves, ResetServer(s) PROVE STypeOK'
  BY <1>1, <1>4 DEF STypeOK, ResetServer, Goto
<1>5. ASSUME NEW s \in Slaves, ResetUpper(s) PROVE STypeOK'
  BY <1>1, <1>5 DEF STypeOK, ResetUpper, Goto
<1>6. ASSUME NEW s \in Slaves, Send(s) PROVE STypeOK'
  <2>1. /\ sent' \in [Slaves -> Nat] /\ notSent' \in [Slaves -> Nat]
        /\ toHub' \in [Slaves -> Nat]
    BY <1>6 DEF STypeOK, Send
  <2> QED
    BY <1>1, <1>6, <2>1 DEF STypeOK, Send
<1>7. ASSUME NEW s \in Slaves, SendingEnds(s) PROVE STypeOK'
  BY <1>1, <1>7 DEF STypeOK, SendingEnds, Goto
<1>8. ASSUME NEW s \in Slaves, HubCounts(s) PROVE STypeOK'
  <2>1. AreLoads(answers)' /\ AreLoads(calls)' /\ AreLoads(setting)'
    BY <1>t, <1>8, LoadsUnchanged DEF HubCounts
  <2> QED
    BY <1>8, <2>1 DEF STypeOK, HubCounts
<1>9. ASSUME NEW s \in Slaves, HubAnswers(s) PROVE STypeOK'
  <2>1. AreLoads(answers)' /\ AreLoads(calls)' /\ AreLoads(setting)'
    <3>1. total' = total /\ UNCHANGED <<calls, setting>>
      BY <1>9 DEF HubAnswers
    <3>2. AreLoads(answers)'
      BY <1>9, AnswersBags
    <3>3. AreLoads(calls)' /\ AreLoads(setting)'
      BY <1>t, <3>1, LoadsUnchanged
    <3> QED
      BY <3>2, <3>3
  <2> QED
    BY <1>9, <2>1 DEF STypeOK, HubAnswers
<1>10. ASSUME NEW s \in Slaves, NEW n \in DOMAIN answers[s], Arrive(s, n)
       PROVE  STypeOK'
  <2>1. AreLoads(answers)' /\ AreLoads(calls)' /\ AreLoads(setting)'
    <3>1. total' = total /\ UNCHANGED <<setting>>
      BY <1>10 DEF Arrive
    <3>2. AreLoads(answers)' /\ AreLoads(calls)'
      BY <1>10, ArriveBags
    <3>3. AreLoads(setting)'
      BY <1>t, <3>1, LoadsUnchanged
    <3> QED
      BY <3>2, <3>3
  <2>2. meanwhile' \in [Slaves -> Nat] /\ arrived' \in [Slaves -> Nat]
    BY <1>10 DEF STypeOK, Arrive
  <2> QED
    BY <1>10, <2>1, <2>2 DEF STypeOK, Arrive
<1>11. ASSUME NEW s \in Slaves, NEW n \in DOMAIN calls[s], HandlerCounts(s, n)
       PROVE  STypeOK'
  <2>1. AreLoads(answers)' /\ AreLoads(calls)' /\ AreLoads(setting)'
    <3>1. total' = total /\ UNCHANGED <<answers>>
      BY <1>11 DEF HandlerCounts
    <3>2. AreLoads(calls)' /\ AreLoads(setting)'
      BY <1>11, CountsBags
    <3>3. AreLoads(answers)'
      BY <1>t, <3>1, LoadsUnchanged
    <3> QED
      BY <3>2, <3>3
  <2>2. lower' \in [Slaves -> Nat] /\ upper' \in [Slaves -> Nat]
    BY <1>11 DEF STypeOK, HandlerCounts, CountLatency
  <2> QED
    BY <1>11, <2>1, <2>2 DEF STypeOK, HandlerCounts
<1>12. ASSUME NEW s \in Slaves, NEW n \in DOMAIN setting[s], HandlerSets(s, n)
       PROVE  STypeOK'
  <2>1. AreLoads(answers)' /\ AreLoads(calls)' /\ AreLoads(setting)'
    <3>1. total' = total /\ UNCHANGED <<answers, calls>>
      BY <1>12 DEF HandlerSets
    <3>2. AreLoads(setting)'
      BY <1>12, SetsBags
    <3>3. AreLoads(answers)' /\ AreLoads(calls)'
      BY <1>t, <3>1, LoadsUnchanged
    <3> QED
      BY <3>2, <3>3
  <2>2. n \in Nat
    BY DEF STypeOK, AreLoads, IsLoad
  <2>3. server' \in [Slaves -> Nat]
    BY <1>12, <2>2 DEF STypeOK, HandlerSets, SetServerCounter
  <2> QED
    BY <1>12, <2>1, <2>3 DEF STypeOK, HandlerSets
<1>13. CASE NextStep
  <2>1. step + 1 \in 1..Steps
    BY <1>13, StepsAssumption DEF NextStep, STypeOK
  <2> QED
    BY <1>1, <1>13, <2>1 DEF STypeOK, NextStep
<1>14. CASE UNCHANGED svars
  BY <1>1, <1>14 DEF STypeOK, svars
<1> QED
  BY <1>2, <1>3, <1>4, <1>5, <1>6, <1>7, <1>8, <1>9, <1>10, <1>11, <1>12, <1>13,
     <1>14 DEF SNext

-----------------------------------------------------------------------------
(* The total of the hub                                                     *)

LEMMA TotalInit == SInit => TotalInv
<1> SUFFICES ASSUME SInit PROVE TotalInv
  OBVIOUS
<1>1. PICK s : s \in Slaves
  BY SlavesAssumption
<1>2. ~Active(s)
  BY <1>1 DEF SInit, Active
<1> QED
  BY <1>1, <1>2 DEF SInit, TotalInv

\* The total stays with those who have it while nobody counts or answers.
LEMMA TotalStays ==
  ASSUME TotalInv, UNCHANGED <<answers, calls, setting, atHub, total>>,
         \A r \in Slaves : Active(r)' => Active(r),
         \A r \in Slaves : toHub[r] \in Nat /\ atHub[r] \in Nat,
         \A r \in Slaves : toHub'[r] \in Nat /\ toHub'[r] >= toHub[r],
         \A r \in Slaves : server'[r] # server[r] => server'[r] <= total /\ ~Active(r)',
         \A r \in Slaves : phase'[r] = "last" => sent'[r] = 0
  PROVE  TotalInv'
<1>1. \A r \in Slaves : server'[r] <= total'
  BY DEF TotalInv
<1>2. ASSUME \A r \in Slaves : Active(r)'
      PROVE  \E r \in Slaves : Holds(r)'
  <2>1. \A r \in Slaves : Active(r) /\ server'[r] = server[r]
    BY <1>2
  <2>2. PICK r \in Slaves : Holds(r)
    BY <2>1 DEF TotalInv
  <2>3. toHub[r] + atHub[r] > 0 => toHub'[r] + atHub'[r] > 0
    OBVIOUS
  <2> QED
    BY <2>1, <2>2, <2>3 DEF Holds
<1> QED
  BY <1>1, <1>2 DEF TotalInv

\* So it does while it is handed on.
LEMMA TotalHandedOn ==
  ASSUME TotalInv, UNCHANGED <<phase, sent, total>>,
         \A r \in Slaves : server'[r] <= total,
         (\A r \in Slaves : Active(r)) => \A r \in Slaves : Holds(r) => Holds(r)'
  PROVE  TotalInv'
<1>1. \A r \in Slaves : Active(r)' <=> Active(r)
  BY DEF Active
<1> QED
  BY <1>1 DEF TotalInv

LEMMA TotalNext == STypeOK /\ CountInv /\ TotalInv /\ [SNext]_svars => TotalInv'
<1> SUFFICES ASSUME STypeOK, CountInv, TotalInv, [SNext]_svars PROVE TotalInv'
  OBVIOUS
<1> USE DEF sending, received, hub, handlers, history
<1>t. \A r \in Slaves : /\ toHub[r] \in Nat /\ atHub[r] \in Nat
                        /\ sent[r] \in Nat /\ server[r] \in Nat
                        /\ server[r] <= total
  BY DEF STypeOK, TotalInv
<1>l. \A r \in Slaves : phase[r] = "last" => sent[r] = 0
  BY DEF TotalInv
<1>1. ASSUME NEW s \in Slaves,
             SetCallbacks(s) \/ ResetLatencies(s) \/ ResetUpper(s) \/ SendingEnds(s)
      PROVE  TotalInv'
  <2>1. UNCHANGED <<answers, calls, setting, atHub, toHub, total, server, sent>>
    BY <1>1 DEF SetCallbacks, ResetLatencies, ResetUpper, SendingEnds
  <2>2. \/ phase[s] \in {"idle", "set"} /\ phase'[s] \in {"set", "clearing"}
        \/ phase[s] = "last" /\ phase'[s] = "running"
        \/ phase[s] = "running" /\ phase'[s] = "done"
    BY <1>1 DEF SetCallbacks, ResetLatencies, ResetUpper, SendingEnds, Goto, STypeOK
  <2>3. \A r \in Slaves : r # s => phase'[r] = phase[r]
    BY <1>1 DEF SetCallbacks, ResetLatencies, ResetUpper, SendingEnds, Goto, STypeOK
  <2>4. \A r \in Slaves : Active(r)' => Active(r)
    BY <1>l, <2>1, <2>2, <2>3 DEF Active
  <2>5. \A r \in Slaves : phase'[r] = "last" => sent'[r] = 0
    BY <1>l, <2>1, <2>2, <2>3
  <2> QED
    BY <1>t, <2>1, <2>4, <2>5, TotalStays
<1>2. ASSUME NEW s \in Slaves, ResetServer(s) PROVE TotalInv'
  <2>1. UNCHANGED <<answers, calls, setting, atHub, toHub, total>>
    BY <1>2 DEF ResetServer
  <2>2. /\ phase'[s] = "last" /\ sent'[s] = 0 /\ server'[s] = 0
        /\ \A r \in Slaves : r # s => /\ phase'[r] = phase[r] /\ sent'[r] = sent[r]
                                      /\ server'[r] = server[r]
    BY <1>2 DEF ResetServer, Goto, STypeOK
  <2>3. total \in Nat
    BY DEF STypeOK
  <2>4. ~Active(s)' /\ \A r \in Slaves : Active(r)' => Active(r)
    BY <2>2 DEF Active
  <2>5. \A r \in Slaves : phase'[r] = "last" => sent'[r] = 0
    BY <1>l, <2>2
  <2>6. \A r \in Slaves : server'[r] # server[r] => server'[r] <= total /\ ~Active(r)'
    BY <2>2, <2>3, <2>4
  <2> QED
    BY <1>t, <2>1, <2>4, <2>5, <2>6, TotalStays
<1>3. ASSUME NEW s \in Slaves, Send(s) PROVE TotalInv'
  <2>1. /\ UNCHANGED <<phase, answers, calls, setting, atHub, total, server>>
        /\ phase[s] = "running"
    BY <1>3 DEF Send
  <2>2. CASE UNCHANGED <<sent, toHub>>
    <3>1. \A r \in Slaves : Active(r)' => Active(r)
      BY <2>1, <2>2 DEF Active
    <3>2. \A r \in Slaves : phase'[r] = "last" => sent'[r] = 0
      BY <1>l, <2>1, <2>2
    <3> QED
      BY <1>t, <2>1, <2>2, <3>1, <3>2, TotalStays
  <2>3. CASE sent' = [sent EXCEPT ![s] = @ + 1] /\ toHub' = [toHub EXCEPT ![s] = @ + 1]
    <3>1. Holds(s)'
      BY <1>t, <2>1, <2>3 DEF STypeOK, Holds
    <3>2. \A r \in Slaves : phase'[r] = "last" => sent'[r] = 0
      BY <1>l, <2>1, <2>3 DEF STypeOK
    <3> QED
      BY <2>1, <3>1, <3>2 DEF TotalInv
  <2> QED
    BY <1>3, <2>2, <2>3 DEF Send
<1>4. ASSUME NEW s \in Slaves, HubCounts(s) PROVE TotalInv'
  <2>1. UNCHANGED <<phase, sent, server>> /\ total' = total + 1
    BY <1>4 DEF HubCounts
  <2>2. total \in Nat /\ Holds(s)'
    BY <1>4, <1>t DEF HubCounts, STypeOK, Holds
  <2>3. \A r \in Slaves : server'[r] <= total'
    BY <1>t, <2>1, <2>2
  <2> QED
    BY <2>1, <2>2, <2>3 DEF TotalInv
<1>5. ASSUME NEW s \in Slaves, HubAnswers(s) PROVE TotalInv'
  <2>1. UNCHANGED <<phase, sent, server, total>>
    BY <1>5 DEF HubAnswers
  <2>2. total' \in DOMAIN answers'[s]
    BY <1>5, <2>1, AnswersBags
  <2>3. Holds(s)'
    BY <2>2 DEF Holds
  <2> QED
    BY <2>1, <2>3 DEF TotalInv
<1>6. ASSUME NEW s \in Slaves, NEW n \in DOMAIN answers[s], Arrive(s, n)
      PROVE  TotalInv'
  <2>1. UNCHANGED <<phase, sent, total, toHub, atHub, server, setting>>
    BY <1>6 DEF Arrive
  <2>2. ASSUME \A r \in Slaves : Active(r), NEW r \in Slaves, Holds(r)
        PROVE  Holds(r)'
    <3>1. callbacks[s] > 0
      <4>1. callbacks[s] = step /\ step \in Nat \ {0}
        BY <2>2, StepsAssumption DEF Active, CountInv, Counted, STypeOK
      <4> QED
        BY <4>1
    <3>2. total \in DOMAIN answers[r] =>
            total \in DOMAIN answers'[r] \cup DOMAIN calls'[r]
      BY <1>6, <3>1, ArriveBags
    <3>3. DOMAIN calls[r] \subseteq DOMAIN calls'[r]
      BY <1>6, ArriveBags
    <3> QED
      BY <2>1, <2>2, <3>2, <3>3 DEF Holds
  <2> QED
    BY <1>t, <2>1, <2>2, TotalHandedOn
<1>7. ASSUME NEW s \in Slaves, NEW n \in DOMAIN calls[s], HandlerCounts(s, n)
      PROVE  TotalInv'
  <2>1. UNCHANGED <<phase, sent, total, toHub, atHub, server, answers>>
    BY <1>7 DEF HandlerCounts
  <2>2. ASSUME NEW r \in Slaves, Holds(r) PROVE Holds(r)'
    <3>1. total \in DOMAIN calls[r] =>
            total \in DOMAIN calls'[r] \cup DOMAIN setting'[r]
      BY <1>7, CountsBags
    <3>2. DOMAIN setting[r] \subseteq DOMAIN setting'[r]
      BY <1>7, CountsBags
    <3> QED
      BY <2>1, <2>2, <3>1, <3>2 DEF Holds
  <2> QED
    BY <1>t, <2>1, <2>2, TotalHandedOn
<1>8. ASSUME NEW s \in Slaves, NEW n \in DOMAIN setting[s], HandlerSets(s, n)
      PROVE  TotalInv'
  <2>1. UNCHANGED <<phase, sent, total, toHub, atHub, answers, calls>>
    BY <1>8 DEF HandlerSets
  <2>2. n \in Nat /\ n <= total /\ total \in Nat
    BY DEF STypeOK, AreLoads, IsLoad
  <2>3. /\ server'[s] = IF n > server[s] THEN n ELSE server[s]
        /\ \A r \in Slaves : r # s => server'[r] = server[r]
    BY <1>8 DEF HandlerSets, SetServerCounter, STypeOK
  <2>4. \A r \in Slaves : server'[r] <= total
    BY <1>t, <2>2, <2>3
  <2>5. ASSUME NEW r \in Slaves, Holds(r) PROVE Holds(r)'
    <3>1. server[r] = total => server'[r] = total
      BY <1>t, <2>2, <2>3
    <3>2. total \in DOMAIN setting[r] =>
            total \in DOMAIN setting'[r] \/ server'[r] = total
      <4>1. CASE r = s /\ total = n
        BY <1>t, <2>2, <2>3, <4>1
      <4>2. CASE r # s \/ total # n
        BY <1>8, <4>2, SetsBags
      <4> QED
        BY <4>1, <4>2
    <3> QED
      BY <2>1, <2>5, <3>1, <3>2 DEF Holds
  <2> QED
    BY <2>1, <2>4, <2>5, TotalHandedOn
<1>9. CASE NextStep
  <2>1. UNCHANGED <<server, total, sent>> /\ phase' = [r \in Slaves |-> "idle"]
    BY <1>9 DEF NextStep
  <2>2. PICK r : r \in Slaves
    BY SlavesAssumption
  <2>3. ~Active(r)'
    BY <2>1, <2>2 DEF Active
  <2> QED
    BY <2>1, <2>2, <2>3 DEF TotalInv
<1>10. CASE UNCHANGED svars
  BY <1>10 DEF svars, TotalInv, Active, Holds
<1> QED
  BY <1>1, <1>2, <1>3, <1>4, <1>5, <1>6, <1>7, <1>8, <1>9, <1>10 DEF SNext

-----------------------------------------------------------------------------
(* The counts of a slave                                                    *)

LEMMA CountInit == SInit => CountInv
  BY DEF SInit, CountInv, Counted

\* A slave nobody touches has counted what it had.
LEMMA StillCounted ==
  ASSUME NEW r \in Slaves, Counted(r), calls'[r] = calls[r],
         step' = step, phase'[r] = phase[r], callbacks'[r] = callbacks[r],
         lower'[r] = lower[r], upper'[r] = upper[r],
         meanwhile'[r] = meanwhile[r], arrived'[r] = arrived[r]
  PROVE  Counted(r)'
<1>1. Received(r)' = Received(r) /\ Pending(r)' = Pending(r)
  BY DEF Received, Pending
<1> QED
  BY <1>1 DEF Counted

\* An arrival is step more calls to come.
LEMMA ArriveCounted ==
  ASSUME STypeOK, CountInv, NEW s \in Slaves, NEW n \in DOMAIN answers[s],
         Arrive(s, n)
  PROVE  Counted(s)'
<1>1. UNCHANGED <<step, phase, callbacks, lower, upper>>
  BY DEF Arrive, received
<1>2. /\ step \in Nat /\ callbacks[s] \in Nat /\ lower[s] \in Nat /\ upper[s] \in Nat
      /\ arrived[s] \in Nat /\ meanwhile[s] \in Nat /\ Pending(s) \in Nat
      /\ phase[s] \in Phases
  BY PendingType DEF STypeOK
<1>3. Counted(s)
  BY DEF CountInv
<1>4. Pending(s)' = Pending(s) + callbacks[s]
  BY ArriveBags DEF Pending, Load
<1>5. /\ meanwhile'[s] = IF phase[s] \in {"clearing", "last"}
                           THEN meanwhile[s] + callbacks[s] ELSE meanwhile[s]
      /\ arrived'[s] = IF phase[s] \in {"running", "done"}
                         THEN arrived[s] + 1 ELSE arrived[s]
  BY DEF Arrive, STypeOK
<1>6. Received(s)' = Received(s) /\ Received(s) \in Nat
  BY <1>1, <1>2 DEF Received
<1>7. CASE phase[s] \in {"clearing", "last"}
  <2>1. lower'[s] + Pending(s)' <= meanwhile'[s]
    BY <1>1, <1>2, <1>3, <1>4, <1>5, <1>7 DEF Counted
  <2> QED
    BY <1>1, <1>3, <1>7, <2>1 DEF Counted
<1>8. CASE phase[s] \in {"running", "done"}
  <2> DEFINE a == step * arrived[s]
  <2>1. /\ callbacks[s] = step /\ a <= Received(s) + Pending(s)
        /\ Received(s) + Pending(s) <= a + meanwhile[s]
    BY <1>3, <1>8 DEF Counted
  <2>2. a \in Nat /\ step' * arrived'[s] = a + step
    <3>1. step * (arrived[s] + 1) = step * arrived[s] + step
      BY <1>2
    <3> QED
      BY <1>1, <1>2, <1>5, <1>8, <3>1
  <2> HIDE DEF a
  <2>3. /\ step' * arrived'[s] <= Received(s)' + Pending(s)'
        /\ Received(s)' + Pending(s)' <= step' * arrived'[s] + meanwhile'[s]
    <3>1. /\ a + step <= Received(s) + (Pending(s) + step)
          /\ Received(s) + (Pending(s) + step) <= (a + step) + meanwhile[s]
      BY <1>2, <1>6, <2>1, <2>2
    <3>2. meanwhile'[s] = meanwhile[s]
      BY <1>5, <1>8
    <3> QED
      BY <1>4, <1>6, <2>1, <2>2, <3>1, <3>2, Zenon
  <2> QED
    BY <1>1, <1>3, <1>8, <2>3 DEF Counted
<1>9. CASE phase[s] \in {"idle", "set"}
  BY <1>1, <1>3, <1>9 DEF Counted
<1> QED
  BY <1>2, <1>7, <1>8, <1>9 DEF Phases

\* A handler that counts is pending no longer.
LEMMA HandlerCounted ==
  ASSUME STypeOK, CountInv, NEW s \in Slaves, NEW n \in DOMAIN calls[s],
         HandlerCounts(s, n)
  PROVE  Counted(s)'
<1>1. UNCHANGED <<step, phase, callbacks, meanwhile, arrived>>
  BY DEF HandlerCounts, history
<1>2. /\ lower[s] \in Nat /\ upper[s] \in Nat /\ Pending(s) \in Nat
      /\ phase[s] \in Phases /\ Counted(s)
  BY PendingType DEF STypeOK, CountInv
<1>3. Pending(s) = Pending(s)' + 1
  BY CountsBags DEF Pending, Load
<1>4. Pending(s)' \in Nat
  <2>1. total \in Nat /\ total' = total
    BY DEF HandlerCounts, hub, STypeOK
  <2>2. IsLoad(calls'[s])
    BY <2>1, CountsBags DEF AreLoads, IsLoad
  <2>3. Load(calls'[s]) \in Nat
    BY <2>1, <2>2, LoadFacts
  <2> QED
    BY <2>3 DEF Pending, Load
<1>5. \/ lower'[s] = lower[s] + 1 /\ upper'[s] = upper[s]
      \/ lower'[s] = lower[s] /\ upper'[s] = upper[s] + 1
  BY DEF HandlerCounts, CountLatency, STypeOK
<1>6. /\ lower'[s] + Pending(s)' <= lower[s] + Pending(s)
      /\ lower'[s] \in Nat
      /\ Received(s)' + Pending(s)' = Received(s) + Pending(s)
  BY <1>2, <1>3, <1>4, <1>5 DEF Received
<1>7. phase[s] \in {"clearing", "last"} => lower'[s] + Pending(s)' <= meanwhile[s]
  <2>1. meanwhile[s] \in Nat
    BY DEF STypeOK
  <2> QED
    BY <1>2, <1>4, <1>6, <2>1 DEF Counted
<1> QED
  BY <1>1, <1>2, <1>6, <1>7 DEF Counted

LEMMA CountNext == STypeOK /\ CountInv /\ [SNext]_svars => CountInv'
<1> SUFFICES ASSUME STypeOK, CountInv, [SNext]_svars, NEW r \in Slaves
             PROVE  Counted(r)'
  BY DEF CountInv
<1> USE DEF sending, received, hub, handlers, history
<1>t. /\ Counted(r) /\ step \in Nat /\ Pending(r) \in Nat
      /\ lower[r] \in Nat /\ meanwhile[r] \in Nat
  BY PendingType, StepsAssumption DEF CountInv, STypeOK
<1>1. ASSUME NEW s \in Slaves,
             \/ SetCallbacks(s) \/ ResetLatencies(s) \/ ResetServer(s)
             \/ ResetUpper(s) \/ SendingEnds(s)
      PROVE  Counted(r)'
  <2>1. UNCHANGED <<calls, step>>
    BY <1>1 DEF SetCallbacks, ResetLatencies, ResetServer, ResetUpper, SendingEnds
  <2>2. Pending(r)' = Pending(r)
    BY <2>1 DEF Pending
  <2>3. CASE r # s
    <3>1. /\ arrived'[r] = arrived[r] /\ phase'[r] = phase[r]
          /\ callbacks'[r] = callbacks[r]
          /\ lower'[r] = lower[r] /\ upper'[r] = upper[r]
          /\ meanwhile'[r] = meanwhile[r]
      BY <1>1, <2>3 DEF SetCallbacks, ResetLatencies, ResetServer, ResetUpper,
                        SendingEnds, Goto, STypeOK
    <3> QED
      BY <1>t, <2>1, <3>1, StillCounted
  <2>4. CASE r = s /\ SetCallbacks(s)
    <3>1. /\ phase[s] = "idle" /\ phase'[s] = "set"
          /\ callbacks'[s] = callbacks[s] + 1
      BY <2>4 DEF SetCallbacks, Goto, STypeOK
    <3>2. callbacks'[s] = step'
      BY <1>t, <2>1, <2>4, <3>1 DEF Counted
    <3> QED
      BY <2>4, <3>1, <3>2 DEF Counted
  <2>5. CASE r = s /\ ResetLatencies(s)
    <3>1. /\ phase[s] = "set" /\ phase'[s] = "clearing" /\ callbacks' = callbacks
          /\ lower'[s] = 0 /\ meanwhile'[s] = Pending(s)
      BY <2>5 DEF ResetLatencies, Goto, STypeOK
    <3>2. lower'[s] + Pending(s)' <= meanwhile'[s]
      BY <1>t, <2>2, <2>5, <3>1
    <3> QED
      BY <1>t, <2>1, <2>5, <3>1, <3>2 DEF Counted
  <2>6. CASE r = s /\ ResetServer(s)
    <3>1. /\ phase[s] = "clearing" /\ phase'[s] = "last"
          /\ UNCHANGED <<callbacks, lower, meanwhile>>
      BY <2>6 DEF ResetServer, Goto, STypeOK
    <3> QED
      BY <1>t, <2>1, <2>2, <2>6, <3>1 DEF Counted
  <2>7. CASE r = s /\ ResetUpper(s)
    <3>1. /\ phase[s] = "last" /\ phase'[s] = "running"
          /\ UNCHANGED <<callbacks, lower, meanwhile>>
          /\ upper'[s] = 0 /\ arrived'[s] = 0
      BY <2>7 DEF ResetUpper, Goto, STypeOK
    <3>2. callbacks[s] = step /\ lower[s] + Pending(s) <= meanwhile[s]
      BY <1>t, <2>7, <3>1 DEF Counted
    <3>3. Received(s)' = lower[s]
      BY <1>t, <2>7, <3>1 DEF Received
    <3>4. step' * arrived'[s] = 0
      BY <1>t, <2>1, <3>1
    <3>5. /\ step' * arrived'[s] <= Received(s)' + Pending(s)'
          /\ Received(s)' + Pending(s)' <= step' * arrived'[s] + meanwhile'[s]
      BY <1>t, <2>2, <2>7, <3>1, <3>2, <3>3, <3>4
    <3> QED
      BY <2>1, <2>7, <3>1, <3>2, <3>5 DEF Counted
  <2>8. CASE r = s /\ SendingEnds(s)
    <3>1. /\ phase[s] = "running" /\ phase'[s] = "done"
          /\ UNCHANGED <<callbacks, lower, upper, arrived, meanwhile>>
      BY <2>8 DEF SendingEnds, Goto, STypeOK
    <3>2. Received(s)' = Received(s)
      BY <3>1 DEF Received
    <3> QED
      BY <1>t, <2>1, <2>2, <2>8, <3>1, <3>2 DEF Counted
  <2> QED
    BY <1>1, <2>3, <2>4, <2>5, <2>6, <2>7, <2>8
<1>2. ASSUME NEW s \in Slaves, Send(s) \/ HubCounts(s) \/ HubAnswers(s)
      PROVE  Counted(r)'
  <2>1. UNCHANGED <<step, phase, callbacks, lower, upper, meanwhile, arrived, calls>>
    BY <1>2 DEF Send, HubCounts, HubAnswers
  <2> QED
    BY <1>t, <2>1, StillCounted
<1>3. ASSUME NEW s \in Slaves, NEW n \in DOMAIN answers[s], Arrive(s, n)
      PROVE  Counted(r)'
  <2>1. CASE r = s
    BY <1>3, <2>1, ArriveCounted
  <2>2. CASE r # s
    <3>1. calls'[r] = calls[r]
      BY <1>3, <2>2, ArriveBags
    <3>2. /\ UNCHANGED <<step, phase, callbacks, lower, upper>>
          /\ meanwhile'[r] = meanwhile[r] /\ arrived'[r] = arrived[r]
      BY <1>3, <2>2 DEF Arrive, STypeOK
    <3> QED
      BY <1>t, <3>1, <3>2, StillCounted
  <2> QED
    BY <2>1, <2>2
<1>4. ASSUME NEW s \in Slaves, NEW n \in DOMAIN calls[s], HandlerCounts(s, n)
      PROVE  Counted(r)'
  <2>1. CASE r = s
    BY <1>4, <2>1, HandlerCounted
  <2>2. CASE r # s
    <3>1. calls'[r] = calls[r]
      BY <1>4, <2>2, CountsBags
    <3>2. /\ UNCHANGED <<step, phase, callbacks, meanwhile, arrived>>
          /\ lower'[r] = lower[r] /\ upper'[r] = upper[r]
      BY <1>4, <2>2 DEF HandlerCounts, CountLatency, STypeOK
    <3> QED
      BY <1>t, <3>1, <3>2, StillCounted
  <2> QED
    BY <2>1, <2>2
<1>5. ASSUME NEW s \in Slaves, NEW n \in DOMAIN setting[s], HandlerSets(s, n)
      PROVE  Counted(r)'
  <2>1. UNCHANGED <<step, phase, callbacks, lower, upper, meanwhile, arrived, calls>>
    BY <1>5 DEF HandlerSets
  <2> QED
    BY <1>t, <2>1, StillCounted
<1>6. CASE NextStep
  <2>1. /\ phase[r] = "done" /\ phase'[r] = "idle" /\ step' = step + 1
        /\ callbacks' = callbacks
    BY <1>6 DEF NextStep
  <2>2. callbacks[r] = step
    BY <1>t, <2>1 DEF Counted
  <2> QED
    BY <1>t, <2>1, <2>2 DEF Counted
<1>7. CASE UNCHANGED svars
  <2>1. UNCHANGED <<step, phase, callbacks, lower, upper, meanwhile, arrived, calls>>
    BY <1>7 DEF svars
  <2> QED
    BY <1>t, <2>1, StillCounted
<1> QED
  BY <1>1, <1>2, <1>3, <1>4, <1>5, <1>6, <1>7 DEF SNext

LEMMA SInvariance == SSpec => [](STypeOK /\ TotalInv /\ CountInv)
<1>1. SInit => STypeOK /\ TotalInv /\ CountInv
  BY STypeInit, TotalInit, CountInit
<1>2. STypeOK /\ TotalInv /\ CountInv /\ [SNext]_svars
        => (STypeOK /\ TotalInv /\ CountInv)'
  BY STypeNext, TotalNext, CountNext
<1> QED
  BY <1>1, <1>2, PTL DEF SSpec

\* However many slaves and steps, one slave reports the total of the hub.
THEOREM TotalIsFound == SSpec => []ServerTotalFound
<1>1. STypeOK /\ TotalInv => ServerTotalFound
  <2> SUFFICES ASSUME STypeOK, TotalInv, Settled, \A s \in Slaves : sent[s] > 0
               PROVE  \E s \in Slaves : server[s] = total
    BY DEF ServerTotalFound, TotalInv
  <2>1. \A s \in Slaves : Active(s)
    BY DEF Settled, Active
  <2>2. PICK s \in Slaves : Holds(s)
    BY <2>1 DEF TotalInv
  <2>3. toHub[s] + atHub[s] = 0 /\ DOMAIN answers[s] = {}
    BY NothingUnderWay DEF Settled
  <2>4. DOMAIN calls[s] = {} /\ DOMAIN setting[s] = {}
    BY EmptyLoad DEF Settled
  <2> QED
    BY <2>2, <2>3, <2>4 DEF Holds
<1> QED
  BY <1>1, SInvariance, PTL

\* However many slaves, steps and messages, every message that arrives counts
\* once a step, up to the calls of handlers that overlap the clearing.
THEOREM EachCountsPerStep == SSpec => []CountedPerStep
<1>1. STypeOK /\ CountInv => CountedPerStep
  <2> SUFFICES ASSUME STypeOK, CountInv, NEW s \in Slaves,
                      phase[s] \in {"running", "done"}
               PROVE  Received(s) + Pending(s) \in
                        step * arrived[s]..step * arrived[s] + meanwhile[s]
    BY DEF CountedPerStep
  <2>1. /\ step * arrived[s] <= Received(s) + Pending(s)
        /\ Received(s) + Pending(s) <= step * arrived[s] + meanwhile[s]
    BY DEF CountInv, Counted
  <2>2. /\ step * arrived[s] \in Int /\ meanwhile[s] \in Int
        /\ Received(s) + Pending(s) \in Int
    BY PendingType, StepsAssumption DEF STypeOK, Received
  <2> QED
    BY <2>1, <2>2
<1> QED
  BY <1>1, SInvariance, PTL

\* So SUCCESS after step k stands for more than 70/k percent, up to the same
\* calls, in every run.
THEOREM SuccessPerStep == SSpec => []VerdictByStep
<1>1. STypeOK /\ CountInv => VerdictByStep
  <2> DEFINE f == [s \in Slaves |-> step * arrived[s] + meanwhile[s]]
             g == [s \in Slaves |-> Received(s)]
             R == SumOver(g, Slaves)
             A == SumOver(f, Slaves)
  <2> SUFFICES ASSUME STypeOK, CountInv, \A s \in Slaves : phase[s] = "done",
                      Exceeds(R, Expected)
               PROVE  10 * A > 7 * Expected
    BY DEF VerdictByStep
  <2>1. IsFiniteSet(Slaves)
    BY SlavesAssumption
  <2>2. ASSUME NEW s \in Slaves
        PROVE  f[s] \in Nat /\ g[s] \in Nat /\ g[s] <= f[s]
    <3>1. Received(s) + Pending(s) <= step * arrived[s] + meanwhile[s]
      BY DEF CountInv, Counted
    <3>2. /\ step * arrived[s] \in Nat /\ meanwhile[s] \in Nat
          /\ Received(s) \in Nat /\ Pending(s) \in Nat
      BY PendingType, StepsAssumption DEF STypeOK, Received
    <3> QED
      BY <3>1, <3>2
  <2>3. Expected \in Nat
    <3> DEFINE e == [s \in Slaves |-> sent[s] + notSent[s]]
    <3>1. \A s \in Slaves : e[s] \in Nat
      BY DEF STypeOK
    <3>2. SumOver(e, Slaves) \in Nat
      <4> HIDE DEF e
      <4> QED
        BY <2>1, <3>1, SumType
    <3>3. Cardinality(Slaves) \in Nat
      BY <2>1, FS_CardinalityType
    <3>4. Expected = SumOver(e, Slaves)
                       * IF scenario = "broadcast" THEN Cardinality(Slaves) ELSE 1
      BY DEF Expected
    <3> HIDE DEF e
    <3> QED
      BY <3>2, <3>3, <3>4
  <2> HIDE DEF f, g
  <2>4. R <= A /\ R \in Nat /\ A \in Nat
    BY <2>1, <2>2, SumMonotone, SumType
  <2> HIDE DEF R, A
  <2> DEFINE x == Expected
  <2>5. x \in Nat /\ Exceeds(R, x)
    BY <2>3
  <2> HIDE DEF x
  <2>6. 10 * A > 7 * x
    BY <2>4, <2>5 DEF Exceeds
  <2> QED
    BY <2>6 DEF x
<1> QED
  BY <1>1, SInvariance, PTL
=============================================================================
