----------------------- MODULE ConnectionRanges_proofs ------------------------
(***************************************************************************)
(* The ranges dealt out by the tasks of ConnectionRanges partition the     *)
(* list, for any number of slaves and any total: each task computes on its *)
(* own the closed form Offset of the sum over the clients before its own.  *)
(***************************************************************************)
EXTENDS ConnectionRanges, TLAPS

Base == total \div N
Rest == total % N

\* The entries dealt to the first i clients.
Offset(i) == i * Base + IF i < Rest THEN i ELSE Rest

\* The quotient and the remainder the shares are made of.
LEMMA Division ==
  ASSUME total \in Nat
  PROVE  /\ Base \in Nat /\ Rest \in Nat /\ Rest < N
         /\ total = N * Base + Rest
BY NAssumption, Z3 DEF Base, Rest

\* Multiplication by a natural number is monotone.
LEMMA Monotone ==
  ASSUME NEW a \in Nat, NEW b \in Nat, NEW k \in Nat, a <= b
  PROVE  a * k <= b * k
<1>1. PICK d \in Nat : b = a + d
  <2>1. b - a \in Nat /\ b = a + (b - a)
    OBVIOUS
  <2> QED
    BY <2>1
<1>2. b * k = a * k + d * k /\ d * k >= 0
  BY <1>1
<1> QED
  BY <1>2

\* The closed form starts at 0, grows by a share per client and ends at total.
LEMMA OffsetFacts ==
  ASSUME total \in Nat
  PROVE  /\ Offset(0) = 0
         /\ Offset(N) = total
         /\ \A i \in Nat : Offset(i) \in Nat /\ Offset(i + 1) \in Nat
         /\ \A i \in Nat : Offset(i + 1) = Offset(i) + Share(i)
         /\ \A i, j \in Nat : i <= j => Offset(i) <= Offset(j)
<1>1. /\ Base \in Nat /\ Rest \in Nat /\ Rest < N
      /\ total = N * Base + Rest
  BY Division
<1>2. Offset(0) = 0
  <2>1. 0 * Base = 0
    BY <1>1
  <2> QED
    BY <1>1, <2>1 DEF Offset
<1>3. Offset(N) = total
  BY <1>1, NAssumption DEF Offset
<1>4. ASSUME NEW i \in Nat
      PROVE  /\ Offset(i) \in Nat /\ Offset(i + 1) \in Nat
             /\ Offset(i + 1) = Offset(i) + Share(i)
  <2>1. i * Base \in Nat /\ (i + 1) * Base = i * Base + Base
    BY <1>1
  <2>2. Share(i) = Base + IF i < Rest THEN 1 ELSE 0
    BY DEF Share, SplitNumber, Base, Rest
  <2> QED
    BY <1>1, <2>1, <2>2 DEF Offset
<1>5. ASSUME NEW i \in Nat, NEW j \in Nat, i <= j
      PROVE  Offset(i) <= Offset(j)
  <2>1. i * Base <= j * Base /\ i * Base \in Nat /\ j * Base \in Nat
    BY <1>1, <1>5, Monotone
  <2> QED
    BY <1>1, <1>5, <2>1 DEF Offset
<1> QED
  BY <1>2, <1>3, <1>4, <1>5

\* What every task has computed and sent, in closed form.
IInv ==
  /\ TypeOK
  /\ \A c \in Clients :
       /\ indStart[c] <= c
       /\ beg[c] = Offset(indStart[c])
       /\ sent[c] # <<>> => sent[c] = <<Offset(c), Offset(c + 1)>>

\* No task ever leaves the closed form.
LEMMA Invariance == Spec => []IInv
<1> USE NAssumption, TotalAssumption
<1>1. Init => IInv
  <2> SUFFICES ASSUME Init PROVE IInv
    OBVIOUS
  <2>1. total \in Nat /\ 0 \in Clients
    BY DEF Init, Clients
  <2> QED
    BY <2>1, OffsetFacts DEF Init, IInv, TypeOK, Clients
<1>2. IInv /\ [Next]_vars => IInv'
  <2> SUFFICES ASSUME IInv, [Next]_vars PROVE IInv'
    OBVIOUS
  <2>0. total \in Nat
    BY DEF IInv, TypeOK
  <2>a. ASSUME total' = total
        PROVE  \A i : Offset(i)' = Offset(i)
    BY <2>a DEF Offset, Base, Rest
  <2>1. ASSUME NEW c \in Clients, AddShare(c) PROVE IInv'
    <3>1. indStart[c] \in Nat /\ indStart[c] + 1 \in Clients
      <4>1. indStart[c] \in Clients /\ indStart[c] < c
        BY <2>1 DEF AddShare, IInv, TypeOK
      <4> QED
        BY <4>1 DEF Clients
    <3>2. beg[c] + Share(indStart[c]) = Offset(indStart[c] + 1)
      BY <2>0, <3>1, OffsetFacts DEF IInv
    <3>3. Offset(indStart[c] + 1) \in Nat
      BY <2>0, <3>1, OffsetFacts
    <3>4. total' = total /\ sent' = sent
      BY <2>1 DEF AddShare
    <3>5. /\ indStart' = [indStart EXCEPT ![c] = indStart[c] + 1]
          /\ beg' = [beg EXCEPT ![c] = Offset(indStart[c] + 1)]
          /\ indStart[c] < c
      BY <2>1, <3>2 DEF AddShare
    <3>6. TypeOK'
      BY <3>1, <3>3, <3>4, <3>5 DEF IInv, TypeOK
    <3>7. ASSUME NEW d \in Clients
          PROVE  /\ indStart'[d] <= d
                 /\ beg'[d] = Offset(indStart'[d])
                 /\ sent'[d] # <<>> => sent'[d] = <<Offset(d), Offset(d + 1)>>
      <4>1. sent[d] # <<>> => sent[d] = <<Offset(d), Offset(d + 1)>>
        BY DEF IInv
      <4>2. CASE d = c
        <5>1. indStart'[d] = indStart[c] + 1
          BY <3>5, <4>2 DEF IInv, TypeOK
        <5>2. beg'[d] = Offset(indStart[c] + 1)
          BY <3>5, <4>2 DEF IInv, TypeOK
        <5>3. indStart[c] + 1 <= c
          BY <3>1, <3>5 DEF Clients
        <5> QED
          BY <3>4, <4>1, <4>2, <5>1, <5>2, <5>3
      <4>3. CASE d # c
        BY <3>4, <3>5, <4>1, <4>3 DEF IInv, TypeOK
      <4> QED
        BY <4>2, <4>3
    <3> QED
      BY <2>a, <3>4, <3>6, <3>7 DEF IInv, Clients
  <2>2. ASSUME NEW c \in Clients, SendRange(c) PROVE IInv'
    <3>1. c \in Nat
      BY DEF Clients
    <3>2. beg[c] = Offset(c) /\ beg[c] + Share(c) = Offset(c + 1)
      BY <2>0, <2>2, <3>1, OffsetFacts DEF SendRange, IInv
    <3>3. Offset(c) \in Nat /\ Offset(c + 1) \in Nat
      BY <2>0, <3>1, OffsetFacts
    <3>4. /\ sent' = [sent EXCEPT ![c] = <<Offset(c), Offset(c + 1)>>]
          /\ UNCHANGED <<total, indStart, beg>>
      BY <2>2, <3>2 DEF SendRange
    <3>5. TypeOK'
      BY <3>3, <3>4 DEF IInv, TypeOK
    <3> QED
      BY <2>a, <3>4, <3>5 DEF IInv, TypeOK, Clients
  <2>3. CASE UNCHANGED vars
    BY <2>a, <2>3 DEF IInv, TypeOK, vars, Clients
  <2> QED
    BY <2>1, <2>2, <2>3 DEF Next
<1> QED
  BY <1>1, <1>2, PTL DEF Spec

\* The variables keep their types.
THEOREM TypeCorrect == Spec => []TypeOK
<1>1. IInv => TypeOK
  BY DEF IInv
<1> QED
  BY <1>1, Invariance, PTL

\* No entry of the list is dealt to two slaves.
THEOREM NoOverlap == Spec => []Disjoint
<1>1. ASSUME IInv PROVE Disjoint
  <2>1. SUFFICES ASSUME NEW c \in Clients, NEW d \in Clients, c < d,
                        sent[c] # <<>>, sent[d] # <<>>
                 PROVE  sent[c][2] <= sent[d][1]
    BY DEF Disjoint
  <2>2. total \in Nat /\ c \in Nat /\ d \in Nat /\ c + 1 \in Nat /\ c + 1 <= d
    BY <1>1, <2>1, NAssumption, TotalAssumption DEF IInv, TypeOK, Clients
  <2>3. Offset(c + 1) <= Offset(d)
    BY <2>2, OffsetFacts
  <2>4. sent[c][2] = Offset(c + 1) /\ sent[d][1] = Offset(d)
    BY <1>1, <2>1 DEF IInv
  <2> QED
    BY <2>3, <2>4
<1> QED
  BY <1>1, Invariance, PTL

\* No entry of the list is left out.
THEOREM NoGap == Spec => []Gapless
<1>1. ASSUME IInv PROVE Gapless
  <2>1. SUFFICES ASSUME NEW c \in Clients, sent[c] # <<>>
                 PROVE  /\ c = 0 => sent[c][1] = 0
                        /\ c = N - 1 => sent[c][2] = total
                        /\ c + 1 \in Clients /\ sent[c + 1] # <<>> =>
                             sent[c][2] = sent[c + 1][1]
    BY DEF Gapless
  <2>2. total \in Nat
    BY <1>1, TotalAssumption DEF IInv, TypeOK
  <2>3. Offset(0) = 0 /\ Offset(N) = total
    BY <2>2, OffsetFacts
  <2>4. sent[c][1] = Offset(c) /\ sent[c][2] = Offset(c + 1)
    BY <1>1, <2>1 DEF IInv
  <2>5. ASSUME c = N - 1 PROVE c + 1 = N
    BY <2>5, NAssumption
  <2>6. c + 1 \in Clients /\ sent[c + 1] # <<>> =>
          sent[c + 1][1] = Offset(c + 1)
    BY <1>1 DEF IInv
  <2> QED
    BY <2>3, <2>4, <2>5, <2>6
<1> QED
  BY <1>1, Invariance, PTL

\* The shares of two slaves differ by one at most, the first ones are larger.
THEOREM EvenShares == Spec => []Balanced
<1>1. ASSUME IInv PROVE Balanced
  <2>1. SUFFICES ASSUME NEW c \in Clients, NEW d \in Clients, c < d,
                        sent[c] # <<>>, sent[d] # <<>>
                 PROVE  (sent[c][2] - sent[c][1]) - (sent[d][2] - sent[d][1])
                          \in {0, 1}
    BY DEF Balanced
  <2>2. total \in Nat /\ c \in Nat /\ d \in Nat
    BY <1>1, NAssumption, TotalAssumption DEF IInv, TypeOK, Clients
  <2>3. /\ Offset(c + 1) = Offset(c) + Share(c) /\ Offset(c) \in Nat
        /\ Offset(d + 1) = Offset(d) + Share(d) /\ Offset(d) \in Nat
    BY <2>2, OffsetFacts
  <2>4. /\ Share(c) = Base + IF c < Rest THEN 1 ELSE 0
        /\ Share(d) = Base + IF d < Rest THEN 1 ELSE 0
        /\ Base \in Nat /\ Rest \in Nat
    BY <2>2, Division DEF Share, SplitNumber, Base, Rest
  <2>5. /\ sent[c][2] - sent[c][1] = Share(c)
        /\ sent[d][2] - sent[d][1] = Share(d)
    BY <1>1, <2>1, <2>3, <2>4 DEF IInv
  <2> QED
    BY <2>1, <2>2, <2>4, <2>5
<1> QED
  BY <1>1, Invariance, PTL
=============================================================================
