---------------------------- MODULE MixOp_proofs -----------------------------
(***************************************************************************)
(* The mixed scenario for any number of slaves and any numbers: how well   *)
(* the numbers of the kinds fit the connections, what a connection counts, *)
(* and what the counters of a slave say of the messages sent.              *)
(***************************************************************************)
EXTENDS MixOp, FiniteSetTheorems, TLAPS

\* Quotient and remainder of a division by the number of slaves.
LEMMA Division ==
  ASSUME NEW a \in Nat
  PROVE  /\ a \div N \in Nat /\ a % N \in Nat /\ a % N < N
         /\ a = N * (a \div N) + (a % N)
BY NAssumption, Z3

\* A multiple of N between two multiples of N, the bounds excluded.
LEMMA Between ==
  ASSUME NEW d \in Int, -N < N * d, N * d < 3 * N
  PROVE  d \in 0..2
<1>1. N \in Nat /\ N >= 1
  BY NAssumption
<1>2. CASE d < 0
  <2>1. -d - 1 \in Nat
    BY <1>2
  <2>2. N * (-d - 1) \in Nat
    BY <1>1, <2>1
  <2>3. N * (-d - 1) = -(N * d) - N
    BY <1>1
  <2> QED
    BY <1>1, <2>2, <2>3
<1>3. CASE d > 2
  <2>1. d - 3 \in Nat
    BY <1>3
  <2>2. N * (d - 3) \in Nat
    BY <1>1, <2>1
  <2>3. N * (d - 3) = N * d - 3 * N
    BY <1>1
  <2> QED
    BY <1>1, <2>2, <2>3
<1> QED
  BY <1>2, <1>3

\* The shares of three numbers and the share of their sum.
LEMMA SharesOfSum ==
  ASSUME NEW a \in Nat, NEW b \in Nat, NEW c \in Nat, NEW k \in Nat
  PROVE  LET sum == SplitNumber(a + b + c, k, N)
             x == SplitNumber(a, k, N)
             y == SplitNumber(b, k, N)
             z == SplitNumber(c, k, N)
         IN  sum - (x + y + z) \in -2..2 /\ x <= sum
<1> DEFINE t  == a + b + c
           qa == a \div N
           ra == a % N
           qb == b \div N
           rb == b % N
           qc == c \div N
           rc == c % N
           qt == t \div N
           rt == t % N
           d  == qt - qa - qb - qc
<1>1. /\ qa \in Nat /\ ra \in Nat /\ ra < N /\ a = N * qa + ra
      /\ qb \in Nat /\ rb \in Nat /\ rb < N /\ b = N * qb + rb
      /\ qc \in Nat /\ rc \in Nat /\ rc < N /\ c = N * qc + rc
      /\ qt \in Nat /\ rt \in Nat /\ rt < N /\ t = N * qt + rt
      /\ N \in Nat
  <2>1. t \in Nat
    OBVIOUS
  <2> QED
    BY <2>1, Division, NAssumption
<1>2. /\ SplitNumber(a, k, N) = qa + (IF k < ra THEN 1 ELSE 0)
      /\ SplitNumber(b, k, N) = qb + (IF k < rb THEN 1 ELSE 0)
      /\ SplitNumber(c, k, N) = qc + (IF k < rc THEN 1 ELSE 0)
      /\ SplitNumber(t, k, N) = qt + (IF k < rt THEN 1 ELSE 0)
  BY DEF SplitNumber
<1>3. t = a + b + c
  OBVIOUS
<1> HIDE DEF t, qa, ra, qb, rb, qc, rc, qt, rt
<1>4. d \in Int /\ qt = qa + qb + qc + d
  BY <1>1
<1> HIDE DEF d
<1>5. N * d = ra + rb + rc - rt
  <2>1. N * qt = N * qa + N * qb + N * qc + N * d
    BY <1>1, <1>4
  <2>2. /\ N * qa \in Int /\ N * qb \in Int /\ N * qc \in Int
        /\ N * qt \in Int /\ N * d \in Int
    BY <1>1, <1>4
  <2> QED
    BY <1>1, <1>3, <2>1, <2>2
<1>6. d \in 0..2
  BY <1>1, <1>4, <1>5, Between
<1>7. CASE d = 0
  BY <1>1, <1>2, <1>3, <1>4, <1>5, <1>7
<1>8. CASE d = 1
  BY <1>1, <1>2, <1>3, <1>4, <1>5, <1>8
<1>9. CASE d = 2
  BY <1>1, <1>2, <1>3, <1>4, <1>5, <1>9
<1> QED
  BY <1>6, <1>7, <1>8, <1>9

\* What FewMisfits needs of the numbers, which no step changes.
IInv == echo \in Nat /\ broadcast \in Nat /\ group \in Nat

LEMMA InitInv == Init => IInv
BY SizesAssumption DEF Init, IInv

\* All of this depends on the inputs alone, which no step changes.
LEMMA InputsFixed == [Next]_vars => UNCHANGED inputs
<1> SUFFICES ASSUME [Next]_vars PROVE UNCHANGED inputs
  OBVIOUS
<1>1. ASSUME NEW s \in Slaves, DoStep(s) PROVE UNCHANGED inputs
  BY <1>1 DEF DoStep, SetCallbacks, ResetCounters, Run, JoinGroup, LeaveGroup,
              Complete
<1>2. ASSUME NEW s \in Slaves, NEW k \in senders[s],
             SendAsync(s, k) \/ CountSent(s, k) \/ SendFails(s, k) \/ SenderEnds(s, k)
      PROVE  UNCHANGED inputs
  BY <1>2 DEF SendAsync, CountSent, SendFails, SenderEnds
<1>3. ASSUME NEW m \in transit, Arrive(m) PROVE UNCHANGED inputs
  BY <1>3 DEF Arrive
<1>4. CASE UNCHANGED vars
  BY <1>4 DEF vars
<1> QED
  BY <1>1, <1>2, <1>3, <1>4 DEF Next

LEMMA NextInv == IInv /\ [Next]_vars => IInv'
  BY InputsFixed DEF IInv, inputs

(***************************************************************************)
(* MixOp: whatever is dealt, the numbers of the kinds and the number of    *)
(* connections of a slave differ by two at most, and its echoes fit.       *)
(***************************************************************************)
THEOREM MisfitsBounded == Spec => []FewMisfits
<1>1. IInv => FewMisfits
  <2> SUFFICES ASSUME IInv, connections = echo + broadcast + group,
                      NEW s \in Slaves
               PROVE  /\ Share(s) - (Quota(s, "echo") + Quota(s, "broadcast")
                                       + Quota(s, "group")) \in -2..2
                      /\ Quota(s, "echo") <= Share(s)
    BY DEF FewMisfits
  <2>1. s \in Nat
    BY NAssumption DEF Slaves
  <2>2. /\ Quota(s, "echo") = SplitNumber(echo, s, N)
        /\ Quota(s, "broadcast") = SplitNumber(broadcast, s, N)
        /\ Quota(s, "group") = SplitNumber(group, s, N)
        /\ Share(s) = SplitNumber(echo + broadcast + group, s, N)
    BY DEF Quota, Asked, Share
  <2> QED
    BY <2>1, <2>2, SharesOfSum DEF IInv
<1> QED
  BY InitInv, NextInv, <1>1, PTL DEF Spec

-----------------------------------------------------------------------------
(***************************************************************************)
(* Sums over finite sets.                                                  *)
(***************************************************************************)
\* What the units are.
LEMMA UnitsAre ==
  ASSUME NEW S, NEW f
  PROVE  \A u : u \in Units(f, S) <=>
           \E x \in S : \E n \in 0..f[x] - 1 : u = <<x, n>>
  BY DEF Units

\* A sum of finitely many numbers is a number, 0 if they all are.
LEMMA SumType ==
  ASSUME NEW S, IsFiniteSet(S), NEW f, \A x \in S : f[x] \in Nat
  PROVE  /\ IsFiniteSet(Units(f, S)) /\ SumOver(f, S) \in Nat
         /\ (\A x \in S : f[x] = 0) => SumOver(f, S) = 0
<1>1. IsFiniteSet(Units(f, S))
  <2> DEFINE U(x) == {x} \X (0..f[x] - 1)
             T == {U(x) : x \in S}
             g == [x \in S |-> U(x)]
  <2>1. g \in Surjection(S, T)
    BY DEF Surjection
  <2>2. IsFiniteSet(T)
    <3> HIDE DEF g, T
    <3> QED
      BY <2>1, FS_Surjection
  <2>3. ASSUME NEW x \in S PROVE IsFiniteSet(U(x))
    <3>1. IsFiniteSet({x}) /\ IsFiniteSet(0..f[x] - 1)
      <4>1. f[x] - 1 \in Int /\ 0 \in Int
        OBVIOUS
      <4>2. IsFiniteSet(0..f[x] - 1)
        BY <4>1, FS_Interval
      <4> QED
        BY <4>2, FS_Singleton
    <3> QED
      BY <3>1, FS_Product
  <2> QED
    BY <2>2, <2>3, FS_UNION DEF Units
<1>2. SumOver(f, S) \in Nat
  BY <1>1, FS_CardinalityType DEF SumOver
<1>3. (\A x \in S : f[x] = 0) => Units(f, S) = {}
  BY UnitsAre
<1> QED
  BY <1>1, <1>2, <1>3, FS_EmptySet DEF SumOver

\* One more unit at one place.
LEMMA SumPlusOne ==
  ASSUME NEW S, IsFiniteSet(S), NEW f, NEW g, NEW x \in S,
         \A y \in S : f[y] \in Nat,
         \A y \in S : g[y] = IF y = x THEN f[y] + 1 ELSE f[y]
  PROVE  SumOver(g, S) = SumOver(f, S) + 1
<1>1. Units(g, S) = Units(f, S) \cup {<<x, f[x]>>}
  <2>1. \A u : u \in Units(g, S) => u \in Units(f, S) \/ u = <<x, f[x]>>
    BY UnitsAre
  <2>2. \A u : u \in Units(f, S) \/ u = <<x, f[x]>> => u \in Units(g, S)
    BY UnitsAre
  <2> QED
    BY <2>1, <2>2
<1>2. <<x, f[x]>> \notin Units(f, S)
  BY UnitsAre
<1> QED
  BY <1>1, <1>2, SumType, FS_AddElement DEF SumOver

\* A sum only sees the places it goes over.
LEMMA SumSame ==
  ASSUME NEW S, NEW f, NEW g, \A x \in S : f[x] = g[x]
  PROVE  SumOver(f, S) = SumOver(g, S)
<1>1. Units(f, S) = Units(g, S)
  BY DEF Units
<1> QED
  BY <1>1 DEF SumOver

\* The sum over one place.
LEMMA SumOfOne ==
  ASSUME NEW x, NEW f, f[x] \in Nat
  PROVE  SumOver(f, {x}) = f[x]
<1>1. Units(f, {x}) = {x} \X (0..f[x] - 1)
  <2>1. \A u : u \in Units(f, {x}) <=> \E n \in 0..f[x] - 1 : u = <<x, n>>
    BY UnitsAre
  <2>2. \A u : u \in {x} \X (0..f[x] - 1) <=>
               \E n \in 0..f[x] - 1 : u = <<x, n>>
    OBVIOUS
  <2> HIDE DEF Units
  <2> QED
    BY <2>1, <2>2
<1>2. /\ IsFiniteSet({x}) /\ Cardinality({x}) = 1
      /\ IsFiniteSet(0..f[x] - 1) /\ Cardinality(0..f[x] - 1) = f[x]
  <2>1. f[x] - 1 \in Int /\ 0 \in Int
    OBVIOUS
  <2>2. /\ IsFiniteSet(0..f[x] - 1)
        /\ Cardinality(0..f[x] - 1) =
             IF 0 > f[x] - 1 THEN 0 ELSE (f[x] - 1) - 0 + 1
    BY <2>1, FS_Interval
  <2>3. Cardinality(0..f[x] - 1) = f[x]
    BY <2>2
  <2>4. IsFiniteSet({x}) /\ Cardinality({x}) = 1
    BY FS_Singleton
  <2> QED
    BY <2>2, <2>3, <2>4
<1>3. Cardinality({x} \X (0..f[x] - 1)) = f[x]
  <2>1. ASSUME NEW A, NEW B, IsFiniteSet(A), IsFiniteSet(B), Cardinality(A) = 1,
               Cardinality(B) \in Nat
        PROVE  Cardinality(A \X B) = Cardinality(B)
    <3>1. Cardinality(A \X B) = 1 * Cardinality(B)
      BY <2>1, FS_Product
    <3>2. 1 * Cardinality(B) = Cardinality(B)
      BY <2>1
    <3> QED
      BY <3>1, <3>2
  <2> QED
    BY <1>2, <2>1
<1> QED
  BY <1>1, <1>3 DEF SumOver

-----------------------------------------------------------------------------
(***************************************************************************)
(* The connections of the slaves, their kinds and their places in the      *)
(* lists.                                                                  *)
(***************************************************************************)
Numbers == IInv /\ connections \in Nat

LEMMA Shares ==
  ASSUME Numbers, NEW s \in Slaves
  PROVE  /\ s \in Nat /\ Share(s) \in Nat
         /\ \A kind \in Kinds : Quota(s, kind) \in Nat
<1>1. s \in Nat
  BY NAssumption DEF Slaves
<1>2. \A a \in Nat : SplitNumber(a, s, N) \in Nat
  BY <1>1, Division DEF SplitNumber
<1>3. \A kind \in Kinds : Asked(kind) \in Nat
  BY DEF Numbers, IInv, Kinds, Asked
<1> QED
  BY <1>1, <1>2, <1>3 DEF Share, Quota, Numbers

LEMMA Connections ==
  ASSUME Numbers
  PROVE  /\ IsFiniteSet(All)
         /\ \A c \in All : /\ c[1] \in Slaves /\ c[2] \in Own(c[1])
                           /\ c = <<c[1], c[2]>>
         /\ \A s \in Slaves : \A k \in Own(s) : <<s, k>> \in All
         /\ \A s \in Slaves : {s} \X Own(s) \subseteq All
<1> DEFINE f == [s \in Slaves |-> Share(s)]
<1>1. \A s \in Slaves : f[s] \in Nat /\ Own(s) = 0..f[s] - 1
  BY Shares DEF Own
<1>2. IsFiniteSet(Slaves)
  BY NAssumption, FS_Interval DEF Slaves
<1>3. IsFiniteSet(Units(f, Slaves))
  <2> HIDE DEF f
  <2> QED
    BY <1>1, <1>2, SumType
<1>4. All = Units(f, Slaves)
  BY <1>1 DEF All, Units
<1> QED
  BY <1>3, <1>4 DEF All

\* A connection with a kind has a place in the list of its kind.
LEMMA EntryInList ==
  ASSUME Numbers, NEW s \in Slaves, NEW k \in Own(s)
  PROVE  /\ KindOf(s, k) \in Kinds \cup {""}
         /\ KindOf(s, k) \in Kinds =>
              Entry(s, k) \in 0..Quota(s, KindOf(s, k)) - 1
<1> DEFINE e == Quota(s, "echo")
           b == Quota(s, "broadcast")
           g == Quota(s, "group")
<1>1. e \in Nat /\ b \in Nat /\ g \in Nat /\ k \in Nat
  BY Shares DEF Own, Kinds
<1>2. /\ GetRange(s, "echo") = <<0, e>>
      /\ GetRange(s, "broadcast") = <<e, e + b>>
      /\ GetRange(s, "group") = <<e + b, e + b + g>>
  BY DEF GetRange
<1> HIDE DEF e, b, g
<1>3. /\ IsInRangeOf(s, "echo", k) <=> 0 <= k /\ k < e
      /\ IsInRangeOf(s, "broadcast", k) <=> e <= k /\ k < e + b
      /\ IsInRangeOf(s, "group", k) <=> e + b <= k /\ k < e + b + g
  BY <1>2 DEF IsInRangeOf
<1>4. CASE IsInRangeOf(s, "group", k)
  <2>1. KindOf(s, k) = "group"
    BY <1>4 DEF KindOf
  <2>2. Entry(s, k) = k - (e + b) /\ Quota(s, "group") = g
    BY <1>2, <2>1 DEF Entry, g
  <2> QED
    BY <1>1, <1>3, <1>4, <2>1, <2>2 DEF Kinds
<1>5. CASE ~IsInRangeOf(s, "group", k) /\ IsInRangeOf(s, "broadcast", k)
  <2>1. KindOf(s, k) = "broadcast"
    BY <1>5 DEF KindOf
  <2>2. Entry(s, k) = k - e /\ Quota(s, "broadcast") = b
    BY <1>2, <2>1 DEF Entry, b
  <2> QED
    BY <1>1, <1>3, <1>5, <2>1, <2>2 DEF Kinds
<1>6. CASE /\ ~IsInRangeOf(s, "group", k) /\ ~IsInRangeOf(s, "broadcast", k)
           /\ IsInRangeOf(s, "echo", k)
  <2>1. KindOf(s, k) = "echo"
    BY <1>6 DEF KindOf
  <2>2. Entry(s, k) = k - 0 /\ Quota(s, "echo") = e
    BY <1>2, <2>1 DEF Entry, e
  <2> QED
    BY <1>1, <1>3, <1>6, <2>1, <2>2 DEF Kinds
<1>7. CASE /\ ~IsInRangeOf(s, "group", k) /\ ~IsInRangeOf(s, "broadcast", k)
           /\ ~IsInRangeOf(s, "echo", k)
  BY <1>7 DEF KindOf, Kinds
<1> QED
  BY <1>4, <1>5, <1>6, <1>7

\* Nobody is of the kind "mix", so nobody joins.
LEMMA NobodyJoins ==
  ASSUME Numbers, NEW s \in Slaves
  PROVE  Grouped(s) = {}
<1>1. GetRange(s, "mix") = <<-1, -1>>
  BY DEF GetRange
<1>2. \A k \in Own(s) : ~IsInRangeOf(s, "mix", k)
  <2>1. \A k \in Own(s) : k \in Nat
    BY DEF Own
  <2> QED
    BY <1>1, <2>1 DEF IsInRangeOf
<1> QED
  BY <1>2 DEF Grouped

LEMMA KindsFixed ==
  ASSUME UNCHANGED inputs
  PROVE  /\ All' = All
         /\ \A s : Own(s)' = Own(s) /\ Share(s)' = Share(s)
         /\ \A s, kind : Quota(s, kind)' = Quota(s, kind)
         /\ \A s, k : KindOf(s, k)' = KindOf(s, k)
         /\ \A c : Kind(c)' = Kind(c)
         /\ \A kind : OfKind(kind)' = OfKind(kind)
<1>1. \A kind : Asked(kind)' = Asked(kind)
  BY DEF Asked, inputs
<1>2. \A s, kind : Quota(s, kind)' = Quota(s, kind)
  BY <1>1 DEF Quota
<1>3. \A s : Own(s)' = Own(s) /\ Share(s)' = Share(s)
  BY DEF Own, Share, inputs
<1>4. All' = All
  BY <1>3 DEF All
<1>5. \A s, name : GetRange(s, name)' = GetRange(s, name)
  BY <1>2 DEF GetRange
<1>6. \A s, k : KindOf(s, k)' = KindOf(s, k)
  BY <1>5 DEF KindOf, IsInRangeOf
<1>7. \A c : Kind(c)' = Kind(c)
  BY <1>6 DEF Kind
<1> QED
  BY <1>2, <1>3, <1>4, <1>6, <1>7 DEF OfKind

-----------------------------------------------------------------------------
(***************************************************************************)
(* Types, and the order of a slave's points: its loops run only while it   *)
(* sends, and a call that is out belongs to a loop that runs.              *)
(***************************************************************************)
MixInv ==
  /\ TypeOK /\ Numbers
  /\ DOMAIN lists = Slaves
  /\ \A s \in Slaves : DOMAIN lists[s] = Kinds
  /\ member = {}
  /\ \A c \in calling : c[2] \in senders[c[1]]
  /\ \A s \in Slaves : pc[s] # "send" => senders[s] = {}
  /\ \A s \in Slaves : pc[s] \in {"begin", "reset", "ready", "join"} =>
       \A k \in Own(s) : sends[<<s, k>>] = 0

LEMMA MixInit == Init => MixInv
<1> SUFFICES ASSUME Init PROVE MixInv
  OBVIOUS
<1>1. Numbers
  <2>1. PICK more \in Surplus : connections = echo + broadcast + group + more
    BY DEF Init
  <2>2. IInv /\ more \in Nat
    BY SizesAssumption DEF Init, IInv
  <2> QED
    BY <2>1, <2>2 DEF Numbers, IInv
<1>2. connections - echo - broadcast - group \in Surplus
  <2>1. PICK more \in Surplus : connections = echo + broadcast + group + more
    BY DEF Init
  <2>2. echo \in Nat /\ broadcast \in Nat /\ group \in Nat /\ more \in Nat
    BY <1>1, SizesAssumption DEF Numbers, IInv
  <2>3. connections - echo - broadcast - group = more
    BY <2>1, <2>2
  <2> QED
    BY <2>3
<1>3. \A s \in Slaves : \A kind \in Kinds :
        lists[s][kind] = [x \in 0..Quota(s, kind) - 1 |-> 0]
  BY DEF Init
<1>4. TypeOK
  BY <1>2, <1>3, SizesAssumption, FailsAssumption DEF Init, TypeOK, Points
<1>5. \A s \in Slaves : \A k \in Own(s) : sends[<<s, k>>] = 0
  BY <1>1, Connections DEF Init
<1>6. DOMAIN lists = Slaves /\ \A s \in Slaves : DOMAIN lists[s] = Kinds
  BY DEF Init
<1> QED
  BY <1>1, <1>4, <1>5, <1>6 DEF Init, MixInv

\* What the parts of the invariant say of the state after a step that leaves
\* the inputs alone.
LEMMA MixInvNext ==
  ASSUME MixInv, UNCHANGED inputs,
         pc' \in [Slaves -> Points], listening' \subseteq Slaves,
         member' = {},
         senders' \in [Slaves -> SUBSET Nat],
         \A s \in Slaves : senders'[s] \subseteq Own(s),
         calling' \subseteq All, sends' \in [All -> 0..MaxSends],
         transit' \subseteq All \X Nat \X All, got' \in [All -> Nat],
         DOMAIN lists' = Slaves,
         \A s \in Slaves : DOMAIN lists'[s] = Kinds,
         \A s \in Slaves : \A kind \in Kinds :
           lists'[s][kind] \in [0..Quota(s, kind) - 1 -> Nat],
         sent' \in [Slaves -> Nat], notSent' \in [Slaves -> 0..MaxFails],
         received' \in [Slaves -> Nat],
         \A c \in calling' : c[2] \in senders'[c[1]],
         \A s \in Slaves : pc'[s] # "send" => senders'[s] = {},
         \A s \in Slaves : pc'[s] \in {"begin", "reset", "ready", "join"} =>
           \A k \in Own(s) : sends'[<<s, k>>] = 0
  PROVE  MixInv'
<1>1. /\ All' = All
      /\ \A s : Own(s)' = Own(s)
      /\ \A s, kind : Quota(s, kind)' = Quota(s, kind)
  BY KindsFixed
<1>2. Numbers'
  BY DEF MixInv, Numbers, IInv, inputs
<1>3. TypeOK'
  BY <1>1 DEF MixInv, TypeOK, inputs
<1> QED
  BY <1>1, <1>2, <1>3 DEF MixInv

\* A slave passes to a point before it sends, and to none it is behind.
LEMMA PointNext ==
  ASSUME MixInv, UNCHANGED inputs, NEW s \in Slaves, NEW to \in Points,
         pc' = [pc EXCEPT ![s] = to],
         pc[s] \in {"begin", "reset", "ready", "join"},
         listening' \subseteq Slaves,
         sent' \in [Slaves -> Nat], notSent' \in [Slaves -> 0..MaxFails],
         received' \in [Slaves -> Nat],
         UNCHANGED <<member, senders, calling, sends, transit, got, lists>>
  PROVE  MixInv'
<1>1. \A t \in Slaves : pc'[t] = IF t = s THEN to ELSE pc[t]
  BY DEF MixInv, TypeOK
<1>2. pc' \in [Slaves -> Points]
  BY DEF MixInv, TypeOK
<1>3. \A t \in Slaves : pc'[t] # "send" => senders'[t] = {}
  BY <1>1 DEF MixInv
<1>4. \A t \in Slaves : pc'[t] \in {"begin", "reset", "ready", "join"} =>
        \A k \in Own(t) : sends'[<<t, k>>] = 0
  BY <1>1 DEF MixInv
<1>5. /\ member' = {} /\ senders' \in [Slaves -> SUBSET Nat]
      /\ \A t \in Slaves : senders'[t] \subseteq Own(t)
      /\ calling' \subseteq All /\ sends' \in [All -> 0..MaxSends]
      /\ transit' \subseteq All \X Nat \X All /\ got' \in [All -> Nat]
      /\ DOMAIN lists' = Slaves
      /\ \A t \in Slaves : DOMAIN lists'[t] = Kinds
      /\ \A t \in Slaves : \A kind \in Kinds :
           lists'[t][kind] \in [0..Quota(t, kind) - 1 -> Nat]
      /\ \A c \in calling' : c[2] \in senders'[c[1]]
  BY DEF MixInv, TypeOK
<1> QED
  BY <1>2, <1>3, <1>4, <1>5, MixInvNext

USE DEF Goto

LEMMA MixNext == MixInv /\ [Next]_vars => MixInv'
<1> SUFFICES ASSUME MixInv, [Next]_vars PROVE MixInv'
  OBVIOUS
<1>a. UNCHANGED inputs
  BY InputsFixed
<1>b. TypeOK /\ Numbers
  BY DEF MixInv
<1>c. \A s \in Slaves : \A k \in Own(s) : <<s, k>> \in All
  BY <1>b, Connections
<1>d. \A t \in Slaves : pc[t] \in {"begin", "reset", "ready", "join"} =>
        \A j \in Own(t) : sends[<<t, j>>] = 0
  BY DEF MixInv
<1> USE <1>a, <1>b DEF MixInv, TypeOK
<1>1. ASSUME NEW s \in Slaves, SetCallbacks(s) PROVE MixInv'
  <2>1. /\ pc' = [pc EXCEPT ![s] = "reset"] /\ pc[s] = "begin"
        /\ listening' \subseteq Slaves
        /\ UNCHANGED <<member, senders, calling, sends, transit, got, lists,
                       sent, notSent, received>>
    BY <1>1 DEF SetCallbacks, counters
  <2>2. /\ sent' \in [Slaves -> Nat] /\ notSent' \in [Slaves -> 0..MaxFails]
        /\ received' \in [Slaves -> Nat]
    BY <2>1
  <2> HIDE DEF MixInv, TypeOK
  <2> QED
    BY <2>1, <2>2, PointNext DEF Points
<1>2. ASSUME NEW s \in Slaves, ResetCounters(s) PROVE MixInv'
  <2>1. /\ sent' \in [Slaves -> Nat] /\ notSent' \in [Slaves -> 0..MaxFails]
        /\ received' \in [Slaves -> Nat]
    BY <1>2, FailsAssumption DEF ResetCounters
  <2>2. /\ pc' = [pc EXCEPT ![s] = "ready"] /\ pc[s] = "reset"
        /\ listening' \subseteq Slaves
        /\ UNCHANGED <<member, senders, calling, sends, transit, got, lists>>
    BY <1>2 DEF ResetCounters
  <2> HIDE DEF MixInv, TypeOK
  <2> QED
    BY <2>1, <2>2, PointNext DEF Points
<1>3. ASSUME NEW s \in Slaves, Run(s) PROVE MixInv'
  BY <1>3, MixInvNext DEF Run, Points, counters
<1>4. ASSUME NEW s \in Slaves, JoinGroup(s) PROVE MixInv'
  <2>1. Own(s) \subseteq Nat
    BY DEF Own
  <2>2. member' = {}
    BY <1>4, NobodyJoins DEF JoinGroup
  <2>3. \A c \in calling : c[2] \in senders'[c[1]]
    <3>1. \A c \in calling : c \in All /\ c[1] \in Slaves
      BY Connections
    <3> QED
      BY <1>4, <3>1 DEF JoinGroup
  <2> QED
    BY <1>4, <2>1, <2>2, <2>3, MixInvNext DEF JoinGroup, Loops, Points, counters
<1>5. ASSUME NEW s \in Slaves, LeaveGroup(s) PROVE MixInv'
  BY <1>5, MixInvNext DEF LeaveGroup, Points, counters
<1>6. ASSUME NEW s \in Slaves, Complete(s) PROVE MixInv'
  BY <1>6, MixInvNext DEF Complete, Points, counters
<1>7. ASSUME NEW s \in Slaves, NEW k \in senders[s], SendAsync(s, k)
      PROVE  MixInv'
  <2> DEFINE c == <<s, k>>
  <2>1. c \in All /\ c[1] = s /\ c[2] = k
    BY <1>c
  <2>2. /\ pc[s] = "send"
        /\ calling' = calling \cup {c}
        /\ sends[c] < MaxSends
        /\ sends' = [sends EXCEPT ![c] = @ + 1]
        /\ transit' = transit \cup {<<c, sends[c], d>> : d \in Targets(c)}
        /\ UNCHANGED <<pc, listening, member, senders, got, lists, counters>>
    BY <1>7 DEF SendAsync
  <2>3. Targets(c) \subseteq All
    <3>1. Kind(c) \in Kinds \cup {""}
      BY <2>1, EntryInList DEF Kind
    <3> QED
      BY <2>1, <3>1 DEF Targets, Kinds
  <2>4. sends' \in [All -> 0..MaxSends] /\ sends[c] \in Nat
    BY <2>1, <2>2, SizesAssumption
  <2>5. transit' \subseteq All \X Nat \X All
    <3>1. \A d \in Targets(c) : <<c, sends[c], d>> \in All \X Nat \X All
      BY <2>1, <2>3, <2>4
    <3>2. {<<c, sends[c], d>> : d \in Targets(c)} \subseteq All \X Nat \X All
      <4> HIDE DEF MixInv, TypeOK
      <4> QED
        BY <3>1
    <3>3. transit \subseteq All \X Nat \X All
      BY DEF TypeOK
    <3> QED
      BY <2>2, <3>2, <3>3
  <2>6. \A t \in Slaves : t # s => \A j \in Own(t) : sends'[<<t, j>>] = sends[<<t, j>>]
    BY <1>c, <2>2
  <2>7. calling' \subseteq All /\ \A d \in calling' : d[2] \in senders'[d[1]]
    <3>1. calling \subseteq All /\ \A d \in calling : d[2] \in senders[d[1]]
      OBVIOUS
    <3>2. senders' = senders /\ calling' = calling \cup {c}
      BY <2>2
    <3> HIDE DEF MixInv, TypeOK, c
    <3> QED
      BY <2>1, <3>1, <3>2
  <2> HIDE DEF c
  <2>8. \A t \in Slaves : pc'[t] \in {"begin", "reset", "ready", "join"} =>
          \A j \in Own(t) : sends'[<<t, j>>] = 0
    <3>1. CASE pc[s] = "send" /\ \A t \in Slaves : t # s =>
                 \A j \in Own(t) : sends'[<<t, j>>] = sends[<<t, j>>]
      <4>1. pc' = pc
        BY <2>2
      <4> HIDE DEF MixInv, TypeOK
      <4> QED
        BY <1>d, <3>1, <4>1
    <3> QED
      BY <2>2, <2>6, <3>1
  <2> QED
    BY <2>2, <2>4, <2>5, <2>7, <2>8, MixInvNext DEF counters
<1>8. ASSUME NEW s \in Slaves, NEW k \in senders[s], CountSent(s, k)
      PROVE  MixInv'
  <2> DEFINE kind == KindOf(s, k)
             e == Entry(s, k)
  <2>1. /\ UNCHANGED <<pc, listening, member, senders, sends, transit, got,
                       received>>
        /\ calling' \subseteq calling
    BY <1>8 DEF CountSent
  <2>2. kind \in Kinds => e \in 0..Quota(s, kind) - 1
    BY <1>b, EntryInList
  <2>3. kind \in Kinds => DOMAIN lists[s][kind] = 0..Quota(s, kind) - 1
    OBVIOUS
  <2>4. /\ sent' = [sent EXCEPT ![s] = @ + 1] /\ notSent' = notSent
        /\ lists' = IF kind \in Kinds
                      THEN [lists EXCEPT ![s][kind][e] = @ + 1] ELSE lists
    BY <1>8, <2>2, <2>3 DEF CountSent
  <2>5. /\ DOMAIN lists' = Slaves
        /\ \A t \in Slaves : DOMAIN lists'[t] = Kinds
    <3> HIDE DEF kind, e
    <3> QED
      BY <2>4
  <2>6. ASSUME NEW t \in Slaves, NEW q \in Kinds
        PROVE  lists'[t][q] \in [0..Quota(t, q) - 1 -> Nat]
    <3>1. lists[t][q] \in [0..Quota(t, q) - 1 -> Nat]
      OBVIOUS
    <3>2. CASE t = s /\ q = kind
      <4>1. lists'[t][q] = [lists[t][q] EXCEPT ![e] = @ + 1]
        BY <2>4, <3>2
      <4>2. e \in 0..Quota(t, q) - 1
        BY <2>2, <3>2
      <4> HIDE DEF kind, e, MixInv, TypeOK
      <4>3. [lists[t][q] EXCEPT ![e] = @ + 1] \in [0..Quota(t, q) - 1 -> Nat]
        <5>1. \A D : \A f \in [D -> Nat] : \A x \in D :
                [f EXCEPT ![x] = f[x] + 1] \in [D -> Nat]
          OBVIOUS
        <5> QED
          BY <3>1, <4>2, <5>1
      <4> QED
        BY <4>1, <4>3
    <3>3. CASE ~(t = s /\ q = kind)
      <4>1. lists'[t][q] = lists[t][q]
        BY <2>4, <3>3
      <4> QED
        BY <3>1, <4>1
    <3> QED
      BY <3>2, <3>3
  <2>7. sent' \in [Slaves -> Nat]
    BY <2>4
  <2> QED
    BY <2>1, <2>4, <2>5, <2>6, <2>7, MixInvNext
<1>9. ASSUME NEW s \in Slaves, NEW k \in senders[s], SendFails(s, k)
      PROVE  MixInv'
  <2>1. notSent' \in [Slaves -> 0..MaxFails]
    BY <1>9, FailsAssumption DEF SendFails
  <2> QED
    BY <1>9, <2>1, MixInvNext DEF SendFails
<1>10. ASSUME NEW s \in Slaves, NEW k \in senders[s], SenderEnds(s, k)
       PROVE  MixInv'
  <2>1. \A c \in calling : c[2] \in senders'[c[1]]
    <3>1. \A c \in calling : c[1] \in Slaves /\ c = <<c[1], c[2]>>
      BY Connections
    <3>2. <<s, k>> \notin calling
      BY <1>10 DEF SenderEnds
    <3>3. ASSUME NEW c \in calling, c[1] = s PROVE c[2] # k
      <4>1. c = <<s, c[2]>>
        BY <3>1, <3>3
      <4> QED
        BY <3>2, <4>1
    <3>4. senders' = [senders EXCEPT ![s] = @ \ {k}]
      BY <1>10 DEF SenderEnds
    <3> QED
      BY <3>1, <3>3, <3>4
  <2> QED
    BY <1>10, <2>1, MixInvNext DEF SenderEnds, counters
<1>11. ASSUME NEW m \in transit, Arrive(m) PROVE MixInv'
  <2>1. m[3] \in All /\ m[3][1] \in Slaves
    BY Connections
  <2>2. got' \in [All -> Nat] /\ received' \in [Slaves -> Nat]
    <3>1. CASE UNCHANGED <<got, received>>
      BY <3>1
    <3>2. CASE /\ got' = [got EXCEPT ![m[3]] = @ + 1]
               /\ received' = [received EXCEPT ![m[3][1]] = @ + 1]
      <4>1. got \in [All -> Nat] /\ received \in [Slaves -> Nat]
        OBVIOUS
      <4> HIDE DEF MixInv, TypeOK
      <4> QED
        BY <2>1, <3>2, <4>1
    <3>3. \/ UNCHANGED <<got, received>>
          \/ /\ got' = [got EXCEPT ![m[3]] = @ + 1]
             /\ received' = [received EXCEPT ![m[3][1]] = @ + 1]
      <4> HIDE DEF MixInv, TypeOK
      <4> QED
        BY <1>11 DEF Arrive
    <3> HIDE DEF MixInv, TypeOK
    <3> QED
      BY <3>1, <3>2, <3>3
  <2>3. /\ transit' \subseteq All \X Nat \X All
        /\ UNCHANGED <<pc, listening, member, senders, calling, sends, lists,
                       sent, notSent>>
    BY <1>11 DEF Arrive
  <2> QED
    BY <2>2, <2>3, MixInvNext
<1>12. CASE UNCHANGED vars
  BY <1>12, MixInvNext DEF vars, counters
<1> QED
  BY <1>1, <1>2, <1>3, <1>4, <1>5, <1>6, <1>7, <1>8, <1>9, <1>10, <1>11,
     <1>12 DEF Next, DoStep

\* MixOp: the types hold.
THEOREM MixTypes == Spec => []TypeOK
<1>1. MixInv => TypeOK
  BY DEF MixInv
<1> QED
  BY <1>1, MixInit, MixNext, PTL DEF Spec

-----------------------------------------------------------------------------
(***************************************************************************)
(* What a connection counts.  The messages of its own kind that were sent  *)
(* to it are numbered; those that are under way it has not counted yet.    *)
(***************************************************************************)
Peers(d) == CASE Kind(d) = "echo" -> {d}
              [] Kind(d) = "broadcast" -> OfKind("broadcast")
              [] OTHER -> {}
SentTo(d) == Units(sends, Peers(d))
Pending(d) ==
  {u \in SentTo(d) : <<u[1], u[2], d>> \in transit}

HeardInv ==
  /\ \A m \in transit :
       /\ Kind(m[1]) \in {"echo", "broadcast"} /\ m[2] \in 0..sends[m[1]] - 1
       /\ Kind(m[1]) = "echo" => m[3] = m[1]
  /\ \A d \in All : got[d] <= Cardinality(SentTo(d) \ Pending(d))

LEMMA PeersFinite ==
  ASSUME Numbers, NEW d \in All
  PROVE  Peers(d) \subseteq All /\ IsFiniteSet(Peers(d))
<1>1. Peers(d) \subseteq All
  BY DEF Peers, OfKind
<1> QED
  BY <1>1, Connections, FS_Subset

LEMMA SentToFinite ==
  ASSUME MixInv, NEW d \in All
  PROVE  /\ IsFiniteSet(SentTo(d)) /\ IsFiniteSet(SentTo(d) \ Pending(d))
         /\ Cardinality(SentTo(d) \ Pending(d)) <= SumOver(sends, Peers(d))
<1>1. Numbers /\ \A c \in All : sends[c] \in Nat
  BY SizesAssumption DEF MixInv, TypeOK
<1>2. IsFiniteSet(SentTo(d))
  BY <1>1, PeersFinite, SumType DEF SentTo
<1> QED
  BY <1>2, FS_Subset DEF SentTo, SumOver

LEMMA HeardInit == Init /\ MixInv => HeardInv
<1> SUFFICES ASSUME Init, MixInv PROVE HeardInv
  OBVIOUS
<1>1. ASSUME NEW d \in All PROVE got[d] <= Cardinality(SentTo(d) \ Pending(d))
  <2>1. Cardinality(SentTo(d) \ Pending(d)) \in Nat /\ got[d] = 0
    BY SentToFinite, FS_CardinalityType DEF Init
  <2> QED
    BY <2>1
<1> QED
  BY <1>1 DEF Init, HeardInv

\* Nothing is sent, nothing arrives.
LEMMA HeardStutter ==
  ASSUME HeardInv, UNCHANGED <<inputs, sends, transit, got>>
  PROVE  HeardInv'
<1>1. /\ All' = All /\ \A c : Kind(c)' = Kind(c)
      /\ \A d : SentTo(d)' = SentTo(d)
  BY KindsFixed DEF SentTo, Peers
<1>2. \A d : Pending(d)' = Pending(d)
  BY <1>1 DEF Pending
<1> QED
  BY <1>1, <1>2 DEF HeardInv

LEMMA HeardNext == MixInv /\ MixInv' /\ HeardInv /\ [Next]_vars => HeardInv'
<1> SUFFICES ASSUME MixInv, MixInv', HeardInv, [Next]_vars PROVE HeardInv'
  OBVIOUS
<1>a. Numbers /\ UNCHANGED inputs
  BY InputsFixed DEF MixInv
<1>b. /\ All' = All /\ \A c : Kind(c)' = Kind(c)
      /\ \A kind : OfKind(kind)' = OfKind(kind)
  BY <1>a, KindsFixed
<1>c. \A d : Peers(d)' = Peers(d)
  BY <1>b DEF Peers
<1>d. /\ \A c \in All : sends[c] \in Nat /\ got[c] \in Nat
      /\ sends \in [All -> 0..MaxSends] /\ got \in [All -> Nat]
      /\ transit \subseteq All \X Nat \X All
  BY SizesAssumption DEF MixInv, TypeOK
<1>1. ASSUME NEW s \in Slaves, DoStep(s) PROVE HeardInv'
  BY <1>1, <1>a, HeardStutter
     DEF DoStep, SetCallbacks, ResetCounters, Run, JoinGroup, LeaveGroup, Complete
<1>2. ASSUME NEW s \in Slaves, NEW k \in senders[s], SendAsync(s, k)
      PROVE  HeardInv'
  <2> DEFINE c == <<s, k>>
             new == {<<c, sends[c], d>> : d \in Targets(c)}
  <2>1. c \in All
    BY <1>a, Connections DEF MixInv, TypeOK
  <2>2. /\ sends' = [sends EXCEPT ![c] = @ + 1]
        /\ transit' = transit \cup new
        /\ got' = got
    BY <1>2 DEF SendAsync
  <2> HIDE DEF c
  <2>3. /\ sends'[c] = sends[c] + 1 /\ sends[c] \in Nat
        /\ \A d \in All : sends[d] \in Nat /\ sends'[d] \in Nat
        /\ \A d \in All : d # c => sends'[d] = sends[d]
    BY <1>d, <2>1, <2>2
  <2>4. /\ Targets(c) # {} => Kind(c) \in {"echo", "broadcast"}
        /\ Kind(c) = "echo" => Targets(c) = {c}
        /\ Kind(c) = "broadcast" => Targets(c) = All
    <3>1. Kind(c) \in Kinds \cup {""}
      BY <1>a, <2>1, EntryInList, Connections DEF Kind
    <3> QED
      BY <3>1 DEF Targets, Kinds, MixInv
  <2>5. ASSUME NEW m \in transit'
        PROVE  /\ Kind(m[1])' \in {"echo", "broadcast"}
               /\ m[2] \in 0..sends'[m[1]] - 1
               /\ Kind(m[1])' = "echo" => m[3] = m[1]
    <3>1. CASE m \in transit
      <4>1. m[1] \in All /\ m[2] \in 0..sends[m[1]] - 1
        BY <1>d, <3>1 DEF HeardInv
      <4>2. m[2] \in 0..sends'[m[1]] - 1
        BY <2>3, <4>1
      <4> QED
        BY <1>b, <3>1, <4>2 DEF HeardInv
    <3>2. CASE m \in new
      <4>1. PICK d \in Targets(c) : m = <<c, sends[c], d>>
        BY <3>2
      <4>2. m[1] = c /\ m[2] = sends[c] /\ m[3] = d
        BY <4>1
      <4> QED
        BY <1>b, <2>3, <2>4, <4>1, <4>2
    <3> QED
      BY <2>2, <3>1, <3>2
  <2>6. ASSUME NEW d \in All
        PROVE  got'[d] <= Cardinality(SentTo(d) \ Pending(d))'
    <3>1. SentTo(d) \subseteq SentTo(d)'
      <4>1. \A u \in SentTo(d) : u \in SentTo(d)'
        <5>1. Peers(d) \subseteq All
          BY <1>a, PeersFinite
        <5>2. ASSUME NEW x \in Peers(d), NEW n \in 0..sends[x] - 1
              PROVE  <<x, n>> \in SentTo(d)'
          <6>1. n \in 0..sends'[x] - 1
            BY <2>3, <5>1
          <6> QED
            BY <1>c, <6>1, UnitsAre DEF SentTo
        <5> QED
          BY <5>2, UnitsAre DEF SentTo
      <4> QED
        BY <4>1
    <3>2. ASSUME NEW u \in SentTo(d), u \in Pending(d)' PROVE u \in Pending(d)
      <4>1. PICK x \in Peers(d) : \E n \in 0..sends[x] - 1 : u = <<x, n>>
        BY UnitsAre DEF SentTo
      <4>2. PICK n \in 0..sends[x] - 1 : u = <<x, n>>
        BY <4>1
      <4>3. u[1] = x /\ u[2] = n /\ x \in All
        BY <1>a, <4>2, PeersFinite
      <4>4. <<x, n, d>> \in transit'
        BY <3>2, <4>3 DEF Pending
      <4>5. <<x, n, d>> \notin new
        <5>1. SUFFICES ASSUME <<x, n, d>> \in new PROVE FALSE
          OBVIOUS
        <5>2. x = c /\ n = sends[c]
          BY <5>1
        <5> QED
          BY <2>3, <4>2, <5>2
      <4> QED
        BY <2>2, <4>3, <4>4, <4>5 DEF Pending
    <3>3. SentTo(d) \ Pending(d) \subseteq (SentTo(d) \ Pending(d))'
      BY <3>1, <3>2
    <3>4. IsFiniteSet((SentTo(d) \ Pending(d))')
      <4>1. IsFiniteSet(Units(sends', Peers(d)))
        <5>1. IsFiniteSet(Peers(d)) /\ \A x \in Peers(d) : sends'[x] \in Nat
          BY <1>a, <2>3, PeersFinite
        <5> QED
          BY <5>1, SumType
      <4>2. SentTo(d)' = Units(sends', Peers(d))
        BY <1>c DEF SentTo, Units
      <4> QED
        BY <4>1, <4>2, FS_Subset
    <3>5. Cardinality(SentTo(d) \ Pending(d)) <= Cardinality((SentTo(d) \ Pending(d))')
          /\ Cardinality(SentTo(d) \ Pending(d)) \in Nat
          /\ Cardinality((SentTo(d) \ Pending(d))') \in Nat
      BY <3>3, <3>4, FS_Subset, FS_CardinalityType
    <3> QED
      BY <1>d, <2>2, <3>5 DEF HeardInv
  <2> QED
    BY <1>b, <2>5, <2>6 DEF HeardInv
<1>3. ASSUME NEW s \in Slaves, NEW k \in senders[s],
             CountSent(s, k) \/ SendFails(s, k) \/ SenderEnds(s, k)
      PROVE  HeardInv'
  BY <1>3, <1>a, HeardStutter DEF CountSent, SendFails, SenderEnds
<1>4. ASSUME NEW m \in transit, Arrive(m) PROVE HeardInv'
  <2>1. /\ transit' = transit \ {m} /\ sends' = sends
        /\ m \in All \X Nat \X All
    BY <1>4, <1>d DEF Arrive
  <2>2. \A d : SentTo(d)' = SentTo(d)
    BY <1>c, <2>1 DEF SentTo
  <2>3. \A d : Pending(d)' \subseteq Pending(d)
    BY <2>1, <2>2 DEF Pending
  <2>4. ASSUME NEW d \in All
        PROVE  got'[d] <= Cardinality(SentTo(d) \ Pending(d))'
    <3> DEFINE A == SentTo(d) \ Pending(d)
               B == SentTo(d)' \ Pending(d)'
    <3>1. A \subseteq B /\ IsFiniteSet(SentTo(d))
      BY <2>2, <2>3, SentToFinite
    <3>2. /\ IsFiniteSet(A) /\ IsFiniteSet(B)
          /\ Cardinality(A) \in Nat /\ Cardinality(B) \in Nat
          /\ Cardinality(A) <= Cardinality(B)
      <4>1. IsFiniteSet(B)
        BY <2>2, <3>1, FS_Difference
      <4> HIDE DEF A, B
      <4> QED
        BY <3>1, <4>1, FS_Subset, FS_CardinalityType
    <3>3. got[d] <= Cardinality(A) /\ got[d] \in Nat
      BY <1>d DEF HeardInv
    <3>4. CASE got'[d] = got[d]
      BY <3>2, <3>3, <3>4
    <3>5. CASE got'[d] # got[d]
      <4>1. /\ d = m[3] /\ Kind(d) = Kind(m[1])
            /\ got' = [got EXCEPT ![m[3]] = @ + 1]
        BY <1>4, <1>d, <3>5 DEF Arrive, Listens
      <4>2. got'[d] = got[d] + 1
        BY <1>d, <4>1
      <4> DEFINE u == <<m[1], m[2]>>
      <4>3. /\ m[1] \in All /\ m[2] \in 0..sends[m[1]] - 1
            /\ m = <<m[1], m[2], d>> /\ u[1] = m[1] /\ u[2] = m[2]
        BY <2>1, <4>1 DEF HeardInv
      <4>4. m[1] \in Peers(d)
        BY <4>1, <4>3 DEF HeardInv, Peers, OfKind
      <4>5. u \in SentTo(d)
        BY <4>3, <4>4, UnitsAre DEF SentTo
      <4>6. u \in Pending(d) /\ u \notin Pending(d)'
        BY <2>1, <4>3, <4>5 DEF Pending
      <4>7. u \in B /\ u \notin A
        BY <2>2, <4>5, <4>6
      <4> HIDE DEF A, B, u
      <4>8. /\ A \cup {u} \subseteq B /\ IsFiniteSet(A \cup {u})
            /\ Cardinality(A \cup {u}) = Cardinality(A) + 1
        BY <3>1, <3>2, <4>7, FS_AddElement
      <4>9. Cardinality(A) + 1 <= Cardinality(B)
        BY <3>2, <4>8, FS_Subset
      <4> QED
        BY <3>2, <3>3, <4>2, <4>9 DEF B
    <3> QED
      BY <3>4, <3>5
  <2>5. ASSUME NEW q \in transit'
        PROVE  /\ Kind(q[1])' \in {"echo", "broadcast"}
               /\ q[2] \in 0..sends'[q[1]] - 1
               /\ Kind(q[1])' = "echo" => q[3] = q[1]
    BY <1>b, <2>1 DEF HeardInv
  <2> QED
    BY <1>b, <2>4, <2>5 DEF HeardInv
<1>5. CASE UNCHANGED vars
  BY <1>5, HeardStutter DEF vars
<1> QED
  BY <1>1, <1>2, <1>3, <1>4, <1>5 DEF Next

LEMMA MixInvariance == Spec => [](MixInv /\ HeardInv)
<1>1. Init => MixInv /\ HeardInv
  BY MixInit, HeardInit
<1>2. MixInv /\ HeardInv /\ [Next]_vars => (MixInv /\ HeardInv)'
  BY MixNext, HeardNext
<1> QED
  BY <1>1, <1>2, PTL DEF Spec

(***************************************************************************)
(* MixOp: an echo connection counts no more than it has sent, a broadcast  *)
(* one no more than all broadcast connections have, and one of the group   *)
(* nothing, however the messages come in.                                  *)
(***************************************************************************)
THEOREM KindsKeptApart == Spec => []OwnKindOnly
<1>1. ASSUME MixInv, HeardInv PROVE OwnKindOnly
  <2>1. ASSUME NEW c \in All
        PROVE  /\ got[c] <= SumOver(sends, Peers(c)) /\ got[c] \in Nat
               /\ IsFiniteSet(Peers(c)) /\ \A x \in Peers(c) : sends[x] \in Nat
    <3>1. /\ IsFiniteSet(Peers(c)) /\ Peers(c) \subseteq All
          /\ \A x \in Peers(c) : sends[x] \in Nat
          /\ got[c] \in Nat
      BY <1>1, PeersFinite, SizesAssumption DEF MixInv, TypeOK
    <3>2. /\ Cardinality(SentTo(c) \ Pending(c)) \in Nat
          /\ Cardinality(SentTo(c) \ Pending(c)) <= SumOver(sends, Peers(c))
          /\ SumOver(sends, Peers(c)) \in Nat
      BY <1>1, <3>1, SentToFinite, FS_CardinalityType, SumType
    <3>3. got[c] <= Cardinality(SentTo(c) \ Pending(c))
      BY <1>1 DEF HeardInv
    <3> QED
      BY <3>1, <3>2, <3>3
  <2>2. ASSUME NEW c \in OfKind("echo") PROVE got[c] <= sends[c]
    <3>1. c \in All /\ Peers(c) = {c}
      BY DEF OfKind, Peers
    <3> QED
      BY <2>1, <3>1, SumOfOne
  <2>3. ASSUME NEW c \in OfKind("broadcast")
        PROVE  got[c] <= SumOver(sends, OfKind("broadcast"))
    <3>1. c \in All /\ Peers(c) = OfKind("broadcast")
      BY DEF OfKind, Peers
    <3> QED
      BY <2>1, <3>1
  <2>4. ASSUME NEW c \in All, Peers(c) = {} PROVE got[c] = 0
    <3>1. SumOver(sends, Peers(c)) = 0
      <4>1. Units(sends, Peers(c)) = {}
        BY <2>4, UnitsAre
      <4> QED
        BY <4>1, FS_EmptySet DEF SumOver
    <3>2. got[c] <= SumOver(sends, Peers(c)) /\ got[c] \in Nat
      BY <2>1
    <3> QED
      BY <3>1, <3>2
  <2>5. \A c \in OfKind("group") \cup OfKind("") : c \in All /\ Peers(c) = {}
    BY DEF OfKind, Peers
  <2> QED
    BY <2>2, <2>3, <2>4, <2>5 DEF OwnKindOnly
<1> QED
  BY <1>1, MixInvariance, PTL

-----------------------------------------------------------------------------
(***************************************************************************)
(* The counters of a slave against what its connections have sent.         *)
(***************************************************************************)
Mine(s) == {s} \X Own(s)
Counted(S) == SumOver(sends, S) - Cardinality(S \cap calling)

CountInv ==
  \A s \in Slaves :
    /\ sent[s] = Counted(Mine(s))
    /\ \A kind \in Kinds :
         SumOver(lists[s][kind], DOMAIN lists[s][kind]) =
           Counted(Mine(s) \cap OfKind(kind))

\* The sums are numbers.
LEMMA CountedType ==
  ASSUME MixInv, NEW S \in SUBSET All
  PROVE  /\ IsFiniteSet(S) /\ IsFiniteSet(S \cap calling)
         /\ SumOver(sends, S) \in Nat /\ Cardinality(S \cap calling) \in Nat
         /\ \A c \in S : sends[c] \in Nat
<1>1. IsFiniteSet(S) /\ \A c \in S : sends[c] \in Nat
  BY Connections, FS_Subset, SizesAssumption DEF MixInv, TypeOK
<1> QED
  BY <1>1, SumType, FS_Intersection, FS_CardinalityType

LEMMA MineOfKind ==
  ASSUME Numbers, NEW s \in Slaves
  PROVE  /\ Mine(s) \subseteq All
         /\ \A kind : Mine(s) \cap OfKind(kind) \subseteq All
         /\ \A k \in Own(s) : <<s, k>> \in Mine(s)
         /\ \A kind : \A k \in Own(s) :
              <<s, k>> \in OfKind(kind) <=> KindOf(s, k) = kind
  BY Connections DEF Mine, OfKind, Kind

\* A call goes out: one more message, and one more that is not counted.
LEMMA CountedOut ==
  ASSUME MixInv, NEW S \in SUBSET All, NEW c \in All, c \notin calling,
         calling' = calling \cup {c}, sends' = [sends EXCEPT ![c] = @ + 1]
  PROVE  SumOver(sends', S) - Cardinality(S \cap calling') = Counted(S)
<1>1. /\ IsFiniteSet(S) /\ IsFiniteSet(S \cap calling)
      /\ SumOver(sends, S) \in Nat /\ Cardinality(S \cap calling) \in Nat
      /\ \A x \in S : sends[x] \in Nat
  BY CountedType
<1>2. \A x \in S : sends'[x] = IF x = c THEN sends[x] + 1 ELSE sends[x]
  BY DEF MixInv, TypeOK
<1>3. CASE c \in S
  <2>1. SumOver(sends', S) = SumOver(sends, S) + 1
    BY <1>1, <1>2, <1>3, SumPlusOne
  <2>2. S \cap calling' = (S \cap calling) \cup {c} /\ c \notin S \cap calling
    BY <1>3
  <2>3. Cardinality(S \cap calling') = Cardinality(S \cap calling) + 1
    BY <1>1, <2>2, FS_AddElement
  <2> QED
    BY <1>1, <2>1, <2>3 DEF Counted
<1>4. CASE c \notin S
  <2>1. SumOver(sends', S) = SumOver(sends, S)
    BY <1>2, <1>4, SumSame
  <2>2. S \cap calling' = S \cap calling
    BY <1>4
  <2> QED
    BY <2>1, <2>2 DEF Counted
<1> QED
  BY <1>3, <1>4

\* A call returns.
LEMMA CountedBack ==
  ASSUME MixInv, NEW S \in SUBSET All, NEW c \in calling,
         calling' = calling \ {c}, sends' = sends
  PROVE  SumOver(sends', S) - Cardinality(S \cap calling') =
           IF c \in S THEN Counted(S) + 1 ELSE Counted(S)
<1>1. /\ IsFiniteSet(S \cap calling)
      /\ SumOver(sends, S) \in Nat /\ Cardinality(S \cap calling) \in Nat
  BY CountedType
<1>2. S \cap calling' = (S \cap calling) \ {c}
  OBVIOUS
<1>3. Cardinality(S \cap calling') =
        IF c \in S THEN Cardinality(S \cap calling) - 1
                   ELSE Cardinality(S \cap calling)
  BY <1>1, <1>2, FS_RemoveElement
<1> QED
  BY <1>1, <1>3 DEF Counted

\* What the counts after a step are, in terms of the sets before it.
LEMMA CountedNext ==
  ASSUME UNCHANGED inputs
  PROVE  \A s : /\ Counted(Mine(s))' =
                     SumOver(sends', Mine(s)) - Cardinality(Mine(s) \cap calling')
                /\ \A kind : Counted(Mine(s) \cap OfKind(kind))' =
                     SumOver(sends', Mine(s) \cap OfKind(kind))
                       - Cardinality(Mine(s) \cap OfKind(kind) \cap calling')
<1>1. \A s : Mine(s)' = Mine(s)
  BY KindsFixed DEF Mine
<1>2. \A kind : OfKind(kind)' = OfKind(kind)
  BY KindsFixed
<1> QED
  BY <1>1, <1>2 DEF Counted

LEMMA CountInit == Init /\ MixInv => CountInv
<1> SUFFICES ASSUME Init, MixInv, NEW s \in Slaves
             PROVE  /\ sent[s] = Counted(Mine(s))
                    /\ \A kind \in Kinds :
                         SumOver(lists[s][kind], DOMAIN lists[s][kind]) =
                           Counted(Mine(s) \cap OfKind(kind))
  BY DEF CountInv
<1>1. ASSUME NEW S \in SUBSET All PROVE Counted(S) = 0
  <2>1. S \cap calling = {} /\ \A c \in S : sends[c] = 0
    BY DEF Init
  <2>2. SumOver(sends, S) = 0 /\ Cardinality(S \cap calling) = 0
    BY <2>1, CountedType, SumType, FS_EmptySet
  <2> QED
    BY <2>2 DEF Counted
<1>2. ASSUME NEW kind \in Kinds
      PROVE  SumOver(lists[s][kind], DOMAIN lists[s][kind]) = 0
  <2>1. /\ DOMAIN lists[s][kind] = 0..Quota(s, kind) - 1
        /\ \A x \in 0..Quota(s, kind) - 1 : lists[s][kind][x] = 0
    BY DEF Init
  <2>2. Quota(s, kind) \in Nat
    BY Shares DEF MixInv
  <2>3. IsFiniteSet(0..Quota(s, kind) - 1)
    BY <2>2, FS_Interval
  <2>4. \A D, f : IsFiniteSet(D) /\ (\A x \in D : f[x] = 0) => SumOver(f, D) = 0
    BY SumType
  <2> QED
    BY <2>1, <2>3, <2>4
<1>3. sent[s] = 0 /\ Mine(s) \subseteq All
      /\ \A kind : Mine(s) \cap OfKind(kind) \subseteq All
  BY MineOfKind DEF Init, MixInv
<1> QED
  BY <1>1, <1>2, <1>3

LEMMA CountStutter ==
  ASSUME CountInv, UNCHANGED <<inputs, sends, calling, lists, sent>>
  PROVE  CountInv'
<1>1. \A s : Counted(Mine(s))' = Counted(Mine(s)) /\ \A kind :
        Counted(Mine(s) \cap OfKind(kind))' = Counted(Mine(s) \cap OfKind(kind))
  BY CountedNext DEF Counted
<1> QED
  BY <1>1 DEF CountInv

LEMMA CountNext == MixInv /\ CountInv /\ [Next]_vars => CountInv'
<1> SUFFICES ASSUME MixInv, CountInv, [Next]_vars PROVE CountInv'
  OBVIOUS
<1>a. Numbers /\ UNCHANGED inputs
  BY InputsFixed DEF MixInv
<1>b. \A s \in Slaves : \A k \in senders[s] :
        /\ k \in Own(s) /\ <<s, k>> \in All
        /\ \A t \in Slaves : t # s => <<s, k>> \notin Mine(t)
        /\ <<s, k>> \in Mine(s)
  BY <1>a, Connections DEF MixInv, TypeOK, Mine
<1>c. \A s \in Slaves : /\ Mine(s) \in SUBSET All
                        /\ \A kind : Mine(s) \cap OfKind(kind) \in SUBSET All
  BY <1>a, MineOfKind
<1>1. ASSUME NEW s \in Slaves, ResetCounters(s) PROVE CountInv'
  <2>1. UNCHANGED <<sends, calling, lists>> /\ sent' = [sent EXCEPT ![s] = 0]
        /\ pc[s] = "reset"
    BY <1>1 DEF ResetCounters
  <2>2. \A k \in Own(s) : sends[<<s, k>>] = 0 /\ senders[s] = {}
    BY <2>1 DEF MixInv
  <2>3. \A c \in Mine(s) : sends[c] = 0 /\ c \notin calling
    BY <2>1, <2>2 DEF Mine, MixInv
  <2>4. Counted(Mine(s)) = 0
    <3>1. SumOver(sends, Mine(s)) = 0 /\ Mine(s) \cap calling = {}
      BY <1>c, <2>3, CountedType, SumType
    <3> QED
      BY <3>1, FS_EmptySet DEF Counted
  <2>5. sent' = sent
    BY <2>1, <2>4 DEF CountInv, MixInv, TypeOK
  <2> QED
    BY <1>a, <2>1, <2>5, CountStutter
<1>2. ASSUME NEW s \in Slaves,
             SetCallbacks(s) \/ Run(s) \/ JoinGroup(s) \/ LeaveGroup(s) \/ Complete(s)
      PROVE  CountInv'
  BY <1>2, <1>a, CountStutter
     DEF SetCallbacks, Run, JoinGroup, LeaveGroup, Complete, counters
<1>3. ASSUME NEW s \in Slaves, NEW k \in senders[s], SendAsync(s, k)
      PROVE  CountInv'
  <2>1. /\ <<s, k>> \in All /\ <<s, k>> \notin calling
        /\ calling' = calling \cup {<<s, k>>}
        /\ sends' = [sends EXCEPT ![<<s, k>>] = @ + 1]
        /\ UNCHANGED <<lists, sent>>
    BY <1>3, <1>b DEF SendAsync, counters
  <2>2. \A S \in SUBSET All :
          SumOver(sends', S) - Cardinality(S \cap calling') = Counted(S)
    BY <2>1, CountedOut
  <2>3. \A t \in Slaves : /\ Counted(Mine(t))' = Counted(Mine(t))
                          /\ \A kind : Counted(Mine(t) \cap OfKind(kind))' =
                                         Counted(Mine(t) \cap OfKind(kind))
    BY <1>a, <1>c, <2>2, CountedNext
  <2> QED
    BY <2>1, <2>3 DEF CountInv
<1>4. ASSUME NEW s \in Slaves, NEW k \in senders[s], CountSent(s, k)
      PROVE  CountInv'
  <2> DEFINE c == <<s, k>>
             kind == KindOf(s, k)
             e == Entry(s, k)
  <2>1. /\ c \in calling /\ calling' = calling \ {c} /\ sends' = sends
    BY <1>4 DEF CountSent
  <2>2. kind \in Kinds => e \in DOMAIN lists[s][kind]
    <3>1. kind \in Kinds => e \in 0..Quota(s, kind) - 1
      BY <1>a, <1>b, EntryInList
    <3>2. kind \in Kinds => DOMAIN lists[s][kind] = 0..Quota(s, kind) - 1
      BY DEF MixInv, TypeOK
    <3> QED
      BY <3>1, <3>2
  <2>3. /\ sent' = [sent EXCEPT ![s] = @ + 1]
        /\ lists' = IF kind \in Kinds
                      THEN [lists EXCEPT ![s][kind][e] = @ + 1] ELSE lists
    BY <1>4, <2>2 DEF CountSent
  <2>4. ASSUME NEW t \in Slaves
        PROVE  /\ Counted(Mine(t))' =
                    IF t = s THEN Counted(Mine(t)) + 1 ELSE Counted(Mine(t))
               /\ \A q \in Kinds : Counted(Mine(t) \cap OfKind(q))' =
                    IF t = s /\ q = kind THEN Counted(Mine(t) \cap OfKind(q)) + 1
                                         ELSE Counted(Mine(t) \cap OfKind(q))
    <3>1. \A S \in SUBSET All :
            SumOver(sends', S) - Cardinality(S \cap calling') =
              IF c \in S THEN Counted(S) + 1 ELSE Counted(S)
      BY <2>1, CountedBack
    <3>2. /\ c \in Mine(t) <=> t = s
          /\ \A q : c \in Mine(t) \cap OfKind(q) <=> t = s /\ q = kind
      BY <1>a, <1>b, MineOfKind
    <3> HIDE DEF c, kind
    <3> QED
      BY <1>a, <1>c, <3>1, <3>2, CountedNext
  <2>5. ASSUME NEW t \in Slaves
        PROVE  sent'[t] = IF t = s THEN sent[t] + 1 ELSE sent[t]
    BY <2>3 DEF MixInv, TypeOK
  <2>6. ASSUME NEW t \in Slaves, NEW q \in Kinds
        PROVE  SumOver(lists'[t][q], DOMAIN lists'[t][q]) =
                 IF t = s /\ q = kind
                   THEN SumOver(lists[t][q], DOMAIN lists[t][q]) + 1
                   ELSE SumOver(lists[t][q], DOMAIN lists[t][q])
    <3>1. CASE t = s /\ q = kind
      <4>1. /\ lists[t][q] \in [0..Quota(t, q) - 1 -> Nat]
            /\ e \in 0..Quota(t, q) - 1
        BY <2>2, <3>1 DEF MixInv, TypeOK
      <4>2. lists'[t][q] = [lists[t][q] EXCEPT ![e] = @ + 1]
        BY <2>3, <3>1 DEF MixInv
      <4>3. Quota(t, q) \in Nat /\ IsFiniteSet(0..Quota(t, q) - 1)
        BY <1>a, Shares, FS_Interval
      <4> HIDE DEF kind, e
      <4>4. /\ DOMAIN lists'[t][q] = DOMAIN lists[t][q]
            /\ DOMAIN lists[t][q] = 0..Quota(t, q) - 1
        BY <4>1, <4>2
      <4>5. \A x \in 0..Quota(t, q) - 1 : lists'[t][q][x] =
              IF x = e THEN lists[t][q][x] + 1 ELSE lists[t][q][x]
        BY <4>1, <4>2
      <4>6. \A x \in 0..Quota(t, q) - 1 : lists[t][q][x] \in Nat
        BY <4>1
      <4>7. SumOver(lists'[t][q], 0..Quota(t, q) - 1) =
              SumOver(lists[t][q], 0..Quota(t, q) - 1) + 1
        <5> DEFINE f == lists[t][q]
                   g == lists'[t][q]
                   D == 0..Quota(t, q) - 1
        <5>1. /\ IsFiniteSet(D) /\ e \in D
              /\ \A x \in D : f[x] \in Nat
              /\ \A x \in D : g[x] = IF x = e THEN f[x] + 1 ELSE f[x]
          BY <4>1, <4>3, <4>5, <4>6
        <5> HIDE DEF f, g, D
        <5>2. SumOver(g, D) = SumOver(f, D) + 1
          BY <5>1, SumPlusOne
        <5> QED
          BY <5>2 DEF f, g, D
      <4> QED
        BY <3>1, <4>4, <4>7
    <3>2. CASE ~(t = s /\ q = kind)
      <4>1. lists'[t][q] = lists[t][q]
        BY <2>3, <3>2 DEF MixInv
      <4> QED
        BY <3>2, <4>1
    <3> QED
      BY <3>1, <3>2
  <2> HIDE DEF c, kind, e
  <2> SUFFICES ASSUME NEW t \in Slaves
               PROVE  /\ sent'[t] = Counted(Mine(t))'
                      /\ \A q \in Kinds :
                           SumOver(lists'[t][q], DOMAIN lists'[t][q]) =
                             Counted(Mine(t) \cap OfKind(q))'
    BY DEF CountInv
  <2>7. sent'[t] = Counted(Mine(t))'
    <3>1. sent[t] = Counted(Mine(t))
      BY DEF CountInv
    <3> QED
      BY <2>4, <2>5, <3>1
  <2>8. ASSUME NEW q \in Kinds
        PROVE  SumOver(lists'[t][q], DOMAIN lists'[t][q]) =
                 Counted(Mine(t) \cap OfKind(q))'
    <3>1. SumOver(lists[t][q], DOMAIN lists[t][q]) = Counted(Mine(t) \cap OfKind(q))
      BY DEF CountInv
    <3> QED
      BY <2>4, <2>6, <3>1
  <2> QED
    BY <2>7, <2>8
<1>5. ASSUME NEW s \in Slaves, NEW k \in senders[s],
             SendFails(s, k) \/ SenderEnds(s, k)
      PROVE  CountInv'
  BY <1>5, <1>a, CountStutter DEF SendFails, SenderEnds, counters
<1>6. ASSUME NEW m \in transit, Arrive(m) PROVE CountInv'
  BY <1>6, <1>a, CountStutter DEF Arrive
<1>7. CASE UNCHANGED vars
  BY <1>7, CountStutter DEF vars, counters
<1> QED
  BY <1>1, <1>2, <1>3, <1>4, <1>5, <1>6, <1>7 DEF Next, DoStep

(***************************************************************************)
(* MixOp: the lists of a slave and its counter of sent messages agree with *)
(* what its connections have sent, and no index is beyond its list.        *)
(***************************************************************************)
THEOREM ListsMatch == Spec => []ListsAgree
<1>1. ASSUME MixInv, CountInv PROVE ListsAgree
  <2>1. ASSUME NEW s \in Slaves, pc[s] \in {"save", "complete"}
        PROVE  sent[s] = SumOver(sends, Mine(s))
    <3>1. senders[s] = {}
      BY <1>1, <2>1 DEF MixInv
    <3>2. Mine(s) \cap calling = {}
      BY <1>1, <3>1 DEF MixInv, Mine
    <3>3. SumOver(sends, Mine(s)) \in Nat
      BY <1>1, MineOfKind, CountedType DEF MixInv
    <3>4. sent[s] = SumOver(sends, Mine(s)) - 0
      BY <1>1, <3>2, FS_EmptySet DEF CountInv, Counted
    <3> QED
      BY <3>3, <3>4
  <2> QED
    BY <1>1, <2>1 DEF ListsAgree, CountInv, Counted, Mine
<1>2. Init => MixInv /\ CountInv
  BY MixInit, CountInit
<1>3. MixInv /\ CountInv /\ [Next]_vars => (MixInv /\ CountInv)'
  BY MixNext, CountNext
<1> QED
  BY <1>1, <1>2, <1>3, PTL DEF Spec
=============================================================================
