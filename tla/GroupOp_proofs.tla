--------------------------- MODULE GroupOp_proofs ----------------------------
(***************************************************************************)
(* What GroupOp promises whatever the numbers of slaves, connections,      *)
(* groups, messages and drops: a connection is only in its own group, the  *)
(* slaves that are short of connections, and no others, throw, the calls   *)
(* of a connection keep their order, and the failures are counted.         *)
(***************************************************************************)
EXTENDS GroupOp, FiniteSetTheorems, TLAPS

\* Shares and the beginnings of ranges are natural numbers.
LEMMA RangeFacts ==
  ASSUME connections \in Nat, groupConnection \in Nat, NEW s \in Slaves
  PROVE  /\ Share(s) \in Nat
         /\ Begin(s) \in Nat /\ End(s) \in Nat /\ Begin(s) <= End(s)
<1>1. \A a \in Nat : a \div N \in Nat /\ a % N \in Nat
  BY NAssumption, Z3
<1>2. \A a \in Nat : SplitNumber(a, s, N) \in Nat
  BY <1>1 DEF SplitNumber
<1>3. s * (groupConnection \div N) \in Nat
  <2>1. s \in Nat /\ groupConnection \div N \in Nat
    BY <1>1, NAssumption DEF Slaves
  <2> QED
    BY <2>1
<1>4. Begin(s) \in Nat
  BY <1>1, <1>3, NAssumption DEF Begin, Slaves
<1> QED
  BY <1>2, <1>4 DEF Share, End

\* A step leaves the inputs, and what is computed from them, alone.
LEMMA InputsStay ==
  ASSUME [Next]_vars
  PROVE  /\ connections' = connections /\ groupConnection' = groupConnection
         /\ list' = list
         /\ All' = All /\ Entries' = Entries
         /\ \A s \in Slaves : /\ Share(s)' = Share(s) /\ Own(s)' = Own(s)
                              /\ Begin(s)' = Begin(s) /\ End(s)' = End(s)
         /\ \A c \in All : EntryOfConnection(c)' = EntryOfConnection(c)
<1>1. inputs' = inputs
  <2>1. ASSUME NEW s \in Slaves, DoStep(s) PROVE inputs' = inputs
    BY <2>1 DEF DoStep, Enter, Queue, LoopEnds, Wait, StartSendMsg, SendingEnds
  <2>2. ASSUME NEW s \in Slaves, TaskRuns(s) PROVE inputs' = inputs
    BY <2>2 DEF TaskRuns, TaskCalls, TaskThrows
  <2>3. ASSUME NEW s \in Slaves, NEW k \in senders[s], SendGroup(s, k)
        PROVE  inputs' = inputs
    BY <2>3 DEF SendGroup
  <2>4. ASSUME NEW s \in Slaves, Ends(s) PROVE inputs' = inputs
    BY <2>4 DEF Ends, SenderEnds
  <2>5. ASSUME NEW c \in All, Handle(c) \/ Drop(c) PROVE inputs' = inputs
    BY <2>5 DEF Handle, Drop
  <2>6. CASE UNCHANGED vars
    BY <2>6 DEF vars
  <2> QED
    BY <2>1, <2>2, <2>3, <2>4, <2>5, <2>6 DEF Next
<1>2. connections' = connections /\ groupConnection' = groupConnection /\ list' = list
  BY <1>1 DEF inputs
<1> QED
  BY <1>2 DEF All, Entries, Share, Own, Begin, End, EntryOfConnection

(***************************************************************************)
(* The inductive invariant.  OwnCalls: what is on the wire to change the   *)
(* membership of a connection names its own group.  Sizes: how far the     *)
(* loop over the range has come, against the connections there are.        *)
(***************************************************************************)
OwnCalls ==
  \A c \in All : \A n \in 1..Len(wire[c]) :
    wire[c][n].op \in Ops =>
      /\ EntryOfConnection(c) \in Entries
      /\ wire[c][n].group = list[EntryOfConnection(c)]

Sizes ==
  \A s \in Slaves :
    /\ pc[s] \in {"join", "joined", "send"} => 0 < Share(s)
    /\ pc[s] = "joined" => i[s] = Begin(s)
    /\ pc[s] = "send" => Begin(s) <= i[s]
    /\ pc[s] = "send" => i[s] - Begin(s) <= Share(s)

IInv == TypeOK /\ OwnCalls /\ MembersByList /\ Sizes /\ ShortOnesThrow

LEMMA InitInv == Init => IInv
<1> SUFFICES ASSUME Init PROVE IInv
  OBVIOUS
<1>1. TypeOK
  <2>1. list \in [Entries -> Groups]
    BY DEF Init, Lists, Entries
  <2>2. \A c \in All : <<>> \in Seq(Calls)
    OBVIOUS
  <2> QED
    BY <2>1, <2>2, BoundsAssumption DEF Init, TypeOK, Points
<1>2. OwnCalls
  BY DEF Init, OwnCalls
<1>3. MembersByList
  BY DEF Init, MembersByList
<1>4. Sizes /\ ShortOnesThrow
  BY DEF Init, Sizes, ShortOnesThrow
<1> QED
  BY <1>1, <1>2, <1>3, <1>4 DEF IInv

\* The call a task puts on the wire is about the group of the connection.
LEMMA TaskOwn ==
  ASSUME TypeOK, NEW s \in Slaves, NEW t \in pool[s], Has(s, t)
  PROVE  LET c == <<s, Captured(s, t) - Begin(s)>>
         IN  /\ c \in All
             /\ t.op \in Ops
             /\ EntryOfConnection(c) = EntryOf(s, t)
             /\ EntryOf(s, t) \in Entries
             /\ list[EntryOf(s, t)] \in Groups
<1>1. connections \in Nat /\ groupConnection \in Nat
  BY TotalsAssumption DEF TypeOK
<1>2. Begin(s) \in Nat /\ Share(s) \in Nat
  BY <1>1, RangeFacts
<1>3. t.ind \in Nat /\ t.op \in Ops
  BY DEF TypeOK
<1>4. t.ind - Begin(s) \in Own(s) /\ t.ind \in Entries
  BY DEF Has, Captured, EntryOf
<1>5. <<s, t.ind - Begin(s)>> \in All
  BY <1>4 DEF All
<1> QED
  BY <1>2, <1>3, <1>4, <1>5 DEF Captured, EntryOf, EntryOfConnection, TypeOK

LEMMA TypeInv == TypeOK /\ [Next]_vars => TypeOK'
<1> SUFFICES ASSUME TypeOK, [Next]_vars PROVE TypeOK'
  OBVIOUS
<1>0. connections \in Nat /\ groupConnection \in Nat
  BY TotalsAssumption DEF TypeOK
<1>s. \A s \in Slaves : Begin(s) \in Nat /\ End(s) \in Nat /\ Share(s) \in Nat
  BY <1>0, RangeFacts
<1>i. /\ connections' = connections /\ groupConnection' = groupConnection
      /\ list' = list /\ All' = All /\ Entries' = Entries
      /\ \A s \in Slaves : Own(s)' = Own(s)
  BY InputsStay
<1>1. ASSUME NEW s \in Slaves, Enter(s) PROVE TypeOK'
  BY <1>i, <1>s, <1>1 DEF TypeOK, Enter, Goto, Points, counters
<1>2. ASSUME NEW s \in Slaves, NEW op \in Ops, NEW from \in Points,
             Queue(s, from, op)
      PROVE  TypeOK'
  <2>1. i' \in [Slaves -> Nat]
    BY <1>2 DEF Queue, TypeOK
  <2>2. [op |-> op, ind |-> i[s]] \in [op : Ops, ind : Nat]
    BY DEF TypeOK
  <2>3. pool' \in [Slaves -> SUBSET [op : Ops, ind : Nat]]
    BY <1>2, <2>2 DEF Queue, TypeOK
  <2> QED
    BY <1>i, <1>2, <2>1, <2>3 DEF TypeOK, Queue, counters
<1>3. ASSUME NEW s \in Slaves, NEW from \in Points, NEW to \in Points,
             LoopEnds(s, from, to)
      PROVE  TypeOK'
  BY <1>i, <1>s, <1>3 DEF TypeOK, LoopEnds, Goto, counters
<1>4. ASSUME NEW s \in Slaves, NEW from \in Points, NEW to \in Points,
             Wait(s, from, to)
      PROVE  TypeOK'
  BY <1>i, <1>4 DEF TypeOK, Wait, Goto, counters
<1>5. ASSUME NEW s \in Slaves, StartSendMsg(s) PROVE TypeOK'
  <2>1. CASE i[s] - Begin(s) \in Own(s)
    <3>1. i[s] - Begin(s) \in Nat
      BY <1>s, <2>1 DEF Own, TypeOK
    <3>2. /\ senders' = [senders EXCEPT ![s] = @ \cup {i[s] - Begin(s)}]
          /\ i' = [i EXCEPT ![s] = @ + 1]
          /\ UNCHANGED <<inputs, pc, pool, sends, open, wire, member, counters>>
      BY <1>5, <2>1 DEF StartSendMsg
    <3>3. /\ senders' \in [Slaves -> SUBSET Nat]
          /\ \A r \in Slaves : senders'[r] \subseteq Own(r)
          /\ i' \in [Slaves -> Nat]
      BY <2>1, <3>1, <3>2 DEF TypeOK
    <3> QED
      BY <1>i, <3>2, <3>3 DEF TypeOK, counters
  <2>2. CASE i[s] - Begin(s) \notin Own(s)
    <3>1. /\ pc' = [pc EXCEPT ![s] = "threw"]
          /\ UNCHANGED <<inputs, senders, i, pool, sends, open, wire, member, counters>>
      BY <1>5, <2>2 DEF StartSendMsg, Goto
    <3> QED
      BY <1>i, <3>1 DEF TypeOK, Points, counters
  <2> QED
    BY <2>1, <2>2
<1>6. ASSUME NEW s \in Slaves, SendingEnds(s) PROVE TypeOK'
  BY <1>i, <1>6 DEF TypeOK, SendingEnds, Goto, Points, counters
<1>7. ASSUME NEW s \in Slaves, NEW t \in pool[s], TaskCalls(s, t) PROVE TypeOK'
  <2>1. pool' \in [Slaves -> SUBSET [op : Ops, ind : Nat]]
    BY <1>7 DEF TaskCalls, TypeOK
  <2>2. Call(t.op, list[EntryOf(s, t)]) \in Calls
    BY <1>7, TaskOwn DEF TaskCalls, Call, Calls
  <2>3. wire' \in [All -> Seq(Calls)]
    <3> DEFINE c == <<s, Captured(s, t) - Begin(s)>>
               call == Call(t.op, list[EntryOf(s, t)])
    <3>1. \/ wire' = wire
          \/ wire' = [wire EXCEPT ![c] = Append(@, call)]
      BY <1>7 DEF TaskCalls
    <3>2. wire \in [All -> Seq(Calls)] /\ call \in Calls
      BY <2>2 DEF TypeOK
    <3> HIDE DEF c, call
    <3>3. \A d \in All : Append(wire[d], call) \in Seq(Calls)
      BY <3>2
    <3> QED
      BY <3>1, <3>2, <3>3
  <2>4. UNCHANGED <<inputs, pc, i, senders, sends, open, member, counters>>
    BY <1>7 DEF TaskCalls
  <2> QED
    BY <1>i, <2>1, <2>3, <2>4 DEF TypeOK, counters
<1>8. ASSUME NEW s \in Slaves, NEW t \in pool[s], TaskThrows(s, t) PROVE TypeOK'
  <2>1. pool' \in [Slaves -> SUBSET [op : Ops, ind : Nat]]
    BY <1>8 DEF TaskThrows, TypeOK
  <2>2. joinFail' \in [Slaves -> Nat] /\ leaveFail' \in [Slaves -> Nat]
    <3>1. CASE t.op = "JoinGroup"
      <4>1. joinFail' = [joinFail EXCEPT ![s] = @ + 1] /\ leaveFail' = leaveFail
        BY <1>8, <3>1 DEF TaskThrows
      <4> QED
        BY <4>1 DEF TypeOK
    <3>2. CASE t.op # "JoinGroup"
      <4>1. leaveFail' = [leaveFail EXCEPT ![s] = @ + 1] /\ joinFail' = joinFail
        BY <1>8, <3>2 DEF TaskThrows
      <4> QED
        BY <4>1 DEF TypeOK
    <3> QED
      BY <3>1, <3>2
  <2>3. UNCHANGED <<inputs, pc, i, senders, sends, open, wire, member, notSent>>
    BY <1>8 DEF TaskThrows
  <2> QED
    BY <1>i, <2>1, <2>2, <2>3 DEF TypeOK
<1>9. ASSUME NEW s \in Slaves, NEW k \in senders[s], SendGroup(s, k) PROVE TypeOK'
  <2>1. <<s, k>> \in All
    BY DEF All, TypeOK
  <2>2. sends' \in [All -> 0..MaxSends]
    <3>1. sends \in [All -> 0..MaxSends] /\ sends[<<s, k>>] < MaxSends
      BY <1>9 DEF SendGroup, TypeOK
    <3>2. sends' = [sends EXCEPT ![<<s, k>>] = @ + 1]
      BY <1>9 DEF SendGroup
    <3>3. sends[<<s, k>>] + 1 \in 0..MaxSends
      BY <2>1, <3>1, BoundsAssumption
    <3> QED
      BY <2>1, <3>1, <3>2, <3>3
  <2>3. k \in Entries => Call("SendGroup", list[k]) \in Calls
    BY DEF Call, Calls, TypeOK
  <2>4. ASSUME k \in Entries, open[<<s, k>>]
        PROVE  wire' \in [All -> Seq(Calls)] /\ notSent' \in [Slaves -> Nat]
    <3>1. wire' = [wire EXCEPT ![<<s, k>>] = Append(@, Call("SendGroup", list[k]))]
          /\ notSent' = notSent
      BY <1>9, <2>4 DEF SendGroup
    <3>2. wire' \in [All -> Seq(Calls)]
      BY <2>1, <2>3, <2>4, <3>1 DEF TypeOK
    <3> QED
      BY <3>1, <3>2 DEF TypeOK
  <2>5. ASSUME ~(k \in Entries /\ open[<<s, k>>])
        PROVE  wire' \in [All -> Seq(Calls)] /\ notSent' \in [Slaves -> Nat]
    <3>1. notSent' = [notSent EXCEPT ![s] = @ + 1] /\ wire' = wire
      BY <1>9, <2>5 DEF SendGroup
    <3> QED
      BY <3>1 DEF TypeOK
  <2>6. UNCHANGED <<inputs, pc, i, pool, senders, open, member, joinFail, leaveFail>>
    BY <1>9 DEF SendGroup
  <2> QED
    BY <1>i, <2>2, <2>4, <2>5, <2>6 DEF TypeOK
<1>10. ASSUME NEW s \in Slaves, NEW k \in senders[s], SenderEnds(s, k) PROVE TypeOK'
  BY <1>i, <1>10 DEF TypeOK, SenderEnds, counters
<1>11. ASSUME NEW c \in All, Handle(c) PROVE TypeOK'
  <2>1. wire' \in [All -> Seq(Calls)]
    BY <1>11 DEF Handle, TypeOK
  <2>2. Head(wire[c]) \in Calls
    BY <1>11 DEF Handle, TypeOK
  <2>3. member' \in [All -> SUBSET Groups]
    BY <1>11, <2>2 DEF Handle, TypeOK, Calls, Ops
  <2>4. UNCHANGED <<inputs, pc, i, pool, senders, sends, open, counters>>
    BY <1>11 DEF Handle
  <2> QED
    BY <1>i, <2>1, <2>3, <2>4 DEF TypeOK, counters
<1>12. ASSUME NEW c \in All, Drop(c) PROVE TypeOK'
  BY <1>i, <1>12 DEF TypeOK, Drop, counters
<1>13. CASE UNCHANGED vars
  BY <1>i, <1>13 DEF TypeOK, vars, inputs, counters
<1> QED
  <2>1. {"begin", "join", "joined", "send", "sending", "leave", "left", "done",
         "threw"} = Points /\ {"JoinGroup", "LeaveGroup"} = Ops
    BY DEF Points, Ops
  <2> QED
    BY <1>1, <1>2, <1>3, <1>4, <1>5, <1>6, <1>7, <1>8, <1>9, <1>10, <1>11,
       <1>12, <1>13, <2>1
    DEF Next, DoStep, TaskRuns, Ends

\* The positions of a sequence after the first has been taken off.
LEMMA TailFacts ==
  ASSUME NEW S, NEW q \in Seq(S), q # <<>>
  PROVE  /\ Len(q) \in Nat /\ 1 \in 1..Len(q)
         /\ Head(q) = q[1] /\ Head(q) \in S
         /\ \A n \in 1..Len(Tail(q)) :
              n + 1 \in 1..Len(q) /\ Tail(q)[n] = q[n + 1]
         /\ \A n \in 2..Len(q) :
              n - 1 \in 1..Len(Tail(q)) /\ q[n] = Tail(q)[n - 1]
<1>1. Len(q) \in Nat /\ Len(q) > 0 /\ Len(Tail(q)) = Len(q) - 1
  OBVIOUS
<1>2. \A n \in 1..Len(q) - 1 : Tail(q)[n] = q[n + 1]
  OBVIOUS
<1> QED
  BY <1>1, <1>2

\* These actions do not touch the wire, the members or the connections.
LEMMA WireStays ==
  ASSUME NEW s \in Slaves,
         DoStep(s) \/ (\E t \in pool[s] : TaskThrows(s, t)) \/ Ends(s)
  PROVE  UNCHANGED <<wire, member, open>>
BY DEF DoStep, Enter, Queue, LoopEnds, Wait, StartSendMsg, SendingEnds,
       TaskThrows, Ends, SenderEnds

LEMMA OwnInv ==
  TypeOK /\ OwnCalls /\ MembersByList /\ [Next]_vars => OwnCalls' /\ MembersByList'
<1> SUFFICES ASSUME TypeOK, OwnCalls, MembersByList, [Next]_vars
             PROVE  OwnCalls' /\ MembersByList'
  OBVIOUS
<1>i. /\ list' = list /\ All' = All /\ Entries' = Entries
      /\ \A c \in All : EntryOfConnection(c)' = EntryOfConnection(c)
  BY InputsStay
<1>1. CASE UNCHANGED <<wire, member>>
  BY <1>i, <1>1 DEF OwnCalls, MembersByList
<1>2. ASSUME NEW s \in Slaves, NEW t \in pool[s], TaskCalls(s, t)
      PROVE  OwnCalls' /\ MembersByList'
  <2> DEFINE d == <<s, Captured(s, t) - Begin(s)>>
             x == Call(t.op, list[EntryOf(s, t)])
  <2>1. /\ d \in All /\ EntryOfConnection(d) \in Entries
        /\ x.group = list[EntryOfConnection(d)] /\ x \in Calls
    BY <1>2, TaskOwn DEF TaskCalls, Call, Calls
  <2>2. wire' = wire \/ wire' = [wire EXCEPT ![d] = Append(@, x)]
    BY <1>2 DEF TaskCalls
  <2> HIDE DEF d, x
  <2>3. CASE wire' = wire
    BY <1>i, <1>2, <2>3 DEF OwnCalls, MembersByList, TaskCalls
  <2>4. CASE wire' = [wire EXCEPT ![d] = Append(@, x)]
    <3>1. ASSUME NEW c \in All, NEW n \in 1..Len(wire'[c]), wire'[c][n].op \in Ops
          PROVE  /\ EntryOfConnection(c) \in Entries
                 /\ wire'[c][n].group = list[EntryOfConnection(c)]
      <4>1. CASE c # d
        BY <2>4, <3>1, <4>1 DEF OwnCalls, TypeOK
      <4>2. CASE c = d
        <5>1. wire'[c] = Append(wire[c], x) /\ wire[c] \in Seq(Calls)
          BY <2>1, <2>4, <4>2 DEF TypeOK
        <5>2. CASE n \in 1..Len(wire[c])
          BY <2>1, <3>1, <5>1, <5>2 DEF OwnCalls
        <5>3. CASE n = Len(wire[c]) + 1
          BY <2>1, <4>2, <5>1, <5>3
        <5> QED
          BY <3>1, <5>1, <5>2, <5>3
      <4> QED
        BY <4>1, <4>2
    <3> QED
      BY <1>i, <1>2, <3>1 DEF OwnCalls, MembersByList, TaskCalls
  <2> QED
    BY <2>2, <2>3, <2>4
<1>3. ASSUME NEW s \in Slaves, NEW k \in senders[s], SendGroup(s, k)
      PROVE  OwnCalls' /\ MembersByList'
  <2> DEFINE d == <<s, k>>
             x == Call("SendGroup", list[k])
  <2>1. d \in All /\ x.op \notin Ops
    BY DEF All, TypeOK, Call, Ops
  <2>2. /\ wire' = wire \/ wire' = [wire EXCEPT ![d] = Append(@, x)]
        /\ member' = member
    BY <1>3 DEF SendGroup
  <2> HIDE DEF d, x
  <2>3. CASE wire' = wire
    BY <1>i, <2>2, <2>3 DEF OwnCalls, MembersByList
  <2>4. CASE wire' = [wire EXCEPT ![d] = Append(@, x)]
    <3>1. ASSUME NEW c \in All, NEW n \in 1..Len(wire'[c]), wire'[c][n].op \in Ops
          PROVE  /\ EntryOfConnection(c) \in Entries
                 /\ wire'[c][n].group = list[EntryOfConnection(c)]
      <4>1. CASE c # d
        BY <2>4, <3>1, <4>1 DEF OwnCalls, TypeOK
      <4>2. CASE c = d
        <5>1. wire'[c] = Append(wire[c], x) /\ wire[c] \in Seq(Calls)
          BY <2>1, <2>4, <4>2 DEF TypeOK
        <5>2. n \in 1..Len(wire[c])
          BY <2>1, <3>1, <5>1
        <5> QED
          BY <2>1, <3>1, <5>1, <5>2 DEF OwnCalls
      <4> QED
        BY <4>1, <4>2
    <3> QED
      BY <1>i, <2>2, <3>1 DEF OwnCalls, MembersByList
  <2> QED
    BY <2>2, <2>3, <2>4
<1>4. ASSUME NEW d \in All, Handle(d) PROVE OwnCalls' /\ MembersByList'
  <2>1. /\ wire[d] \in Seq(Calls) /\ wire[d] # <<>>
        /\ wire' = [wire EXCEPT ![d] = Tail(@)]
    BY <1>4 DEF Handle, TypeOK
  <2>t. /\ 1 \in 1..Len(wire[d]) /\ Head(wire[d]) = wire[d][1]
        /\ Head(wire[d]) \in Calls
        /\ \A n \in 1..Len(Tail(wire[d])) :
             n + 1 \in 1..Len(wire[d]) /\ Tail(wire[d])[n] = wire[d][n + 1]
    BY <2>1, TailFacts
  <2>2. OwnCalls'
    <3>1. ASSUME NEW c \in All, NEW n \in 1..Len(wire'[c]), wire'[c][n].op \in Ops
          PROVE  /\ EntryOfConnection(c) \in Entries
                 /\ wire'[c][n].group = list[EntryOfConnection(c)]
      <4>1. CASE c # d
        BY <2>1, <3>1, <4>1 DEF OwnCalls, TypeOK
      <4>2. CASE c = d
        <5>1. wire'[c] = Tail(wire[c])
          BY <2>1, <4>2 DEF TypeOK
        <5>2. n + 1 \in 1..Len(wire[c]) /\ wire'[c][n] = wire[c][n + 1]
          BY <2>t, <3>1, <4>2, <5>1
        <5> QED
          BY <3>1, <5>2 DEF OwnCalls
      <4> QED
        BY <4>1, <4>2
    <3> QED
      BY <1>i, <3>1 DEF OwnCalls
  <2>3. MembersByList'
    <3>1. 1 \in 1..Len(wire[d]) /\ Head(wire[d]) = wire[d][1]
      BY <2>t
    <3>2. Head(wire[d]).op \in Ops =>
            /\ EntryOfConnection(d) \in Entries
            /\ Head(wire[d]).group = list[EntryOfConnection(d)]
      BY <3>1 DEF OwnCalls
    <3>3. \A c \in All : c # d => member'[c] = member[c]
      BY <1>4 DEF Handle, TypeOK
    <3>4. \/ member'[d] \subseteq member[d]
          \/ /\ Head(wire[d]).op = "JoinGroup"
             /\ member'[d] = member[d] \cup {Head(wire[d]).group}
      <4>1. Head(wire[d]).op \in Ops \cup {"SendGroup"}
        BY <2>t DEF Calls
      <4> QED
        BY <1>4, <4>1 DEF Handle, TypeOK, Ops
    <3> QED
      BY <1>i, <3>2, <3>3, <3>4 DEF MembersByList, Ops
  <2> QED
    BY <2>2, <2>3
<1>5. ASSUME NEW d \in All, Drop(d) PROVE OwnCalls' /\ MembersByList'
  <2>1. \A c \in All : /\ wire'[c] = IF c = d THEN <<>> ELSE wire[c]
                       /\ member'[c] = IF c = d THEN {} ELSE member[c]
    BY <1>5 DEF Drop, TypeOK
  <2> QED
    BY <1>i, <2>1 DEF OwnCalls, MembersByList
<1> QED
  BY <1>1, <1>2, <1>3, <1>4, <1>5, WireStays DEF Next, TaskRuns, vars

\* These actions leave the program points and the loop variables alone.
LEMMA PointsStay ==
  ASSUME [Next]_vars
  PROVE  \/ UNCHANGED <<pc, i>>
         \/ \E s \in Slaves : DoStep(s)
BY DEF Next, TaskRuns, TaskCalls, TaskThrows, SendGroup, Ends, SenderEnds,
       Handle, Drop, vars

LEMMA SizeInv ==
  TypeOK /\ Sizes /\ ShortOnesThrow /\ [Next]_vars => Sizes' /\ ShortOnesThrow'
<1> SUFFICES ASSUME TypeOK, Sizes, ShortOnesThrow, [Next]_vars
             PROVE  Sizes' /\ ShortOnesThrow'
  OBVIOUS
<1>i. \A s \in Slaves : /\ Share(s)' = Share(s)
                        /\ Begin(s)' = Begin(s) /\ End(s)' = End(s)
  BY InputsStay
<1>n. \A s \in Slaves : /\ Share(s) \in Nat /\ Begin(s) \in Nat /\ End(s) \in Nat
                        /\ Begin(s) <= End(s) /\ i[s] \in Nat
  BY RangeFacts, TotalsAssumption DEF TypeOK
<1>1. CASE UNCHANGED <<pc, i>>
  BY <1>i, <1>1 DEF Sizes, ShortOnesThrow
<1>2. ASSUME NEW s \in Slaves, DoStep(s) PROVE Sizes' /\ ShortOnesThrow'
  <2> USE <1>2
  <2>1. \A r \in Slaves : r # s => pc'[r] = pc[r] /\ i'[r] = i[r]
    BY DEF DoStep, Enter, Queue, LoopEnds, Wait, StartSendMsg, SendingEnds,
           Goto, TypeOK
  <2> DEFINE Here(p, j) ==
         /\ p \in {"join", "joined", "send"} => 0 < Share(s)
         /\ p = "joined" => j = Begin(s)
         /\ p = "send" => Begin(s) <= j
         /\ p = "send" => j - Begin(s) <= Share(s)
         /\ p = "threw" => 0 < Share(s) /\ Share(s) < End(s) - Begin(s)
         /\ p \in {"sending", "leave", "left", "done"} =>
              Share(s) = 0 \/ End(s) - Begin(s) <= Share(s)
  <2>2. Here(pc[s], i[s])
    BY DEF Sizes, ShortOnesThrow
  <2>3. Here(pc'[s], i'[s])
    <3>1. CASE Enter(s)
      BY <1>n, <3>1 DEF Enter, Goto, TypeOK
    <3>2. CASE Queue(s, "join", "JoinGroup") \/ Queue(s, "leave", "LeaveGroup")
      BY <1>n, <2>2, <3>2 DEF Queue, TypeOK
    <3>3. CASE LoopEnds(s, "join", "joined")
      BY <1>n, <2>2, <3>3 DEF LoopEnds, Goto, TypeOK
    <3>4. CASE Wait(s, "joined", "send")
      <4>1. pc[s] = "joined" /\ pc'[s] = "send" /\ i'[s] = i[s]
        BY <3>4 DEF Wait, Goto, TypeOK
      <4>2. i[s] = Begin(s)
        BY <4>1 DEF Sizes
      <4> QED
        BY <1>n, <2>2, <4>1, <4>2
    <3>5. CASE StartSendMsg(s)
      <4>1. CASE i[s] - Begin(s) \in Own(s)
        <5>1. pc[s] = "send" /\ pc'[s] = "send" /\ i'[s] = i[s] + 1
          BY <3>5, <4>1 DEF StartSendMsg, TypeOK
        <5> QED
          BY <1>n, <2>2, <4>1, <5>1 DEF Own
      <4>2. CASE i[s] - Begin(s) \notin Own(s)
        <5>1. pc[s] = "send" /\ pc'[s] = "threw" /\ i[s] < End(s)
          BY <3>5, <4>2 DEF StartSendMsg, Goto, TypeOK
        <5> QED
          BY <1>n, <2>2, <4>2, <5>1 DEF Own
      <4> QED
        BY <4>1, <4>2
    <3>6. CASE LoopEnds(s, "send", "sending")
      <4>1. pc[s] = "send" /\ pc'[s] = "sending" /\ i[s] = End(s)
        BY <3>6 DEF LoopEnds, Goto, TypeOK
      <4> QED
        BY <1>n, <2>2, <4>1
    <3>7. CASE SendingEnds(s)
      BY <2>2, <3>7 DEF SendingEnds, Goto, TypeOK
    <3>8. CASE LoopEnds(s, "leave", "left")
      BY <2>2, <3>8 DEF LoopEnds, Goto, TypeOK
    <3>9. CASE Wait(s, "left", "done")
      BY <2>2, <3>9 DEF Wait, Goto, TypeOK
    <3> QED
      BY <3>1, <3>2, <3>3, <3>4, <3>5, <3>6, <3>7, <3>8, <3>9 DEF DoStep
  <2> QED
    BY <1>i, <2>1, <2>3 DEF Sizes, ShortOnesThrow
<1> QED
  BY <1>1, <1>2, PointsStay

-----------------------------------------------------------------------------
(***************************************************************************)
(* The order of the calls of a connection.  Phase: what a slave may have   *)
(* in its pool and which loops may send, by its program point.  Calling:   *)
(* joins come first and leaves last.  Joining: a connection with an entry  *)
(* has joined, or is about to, until its slave leaves.  Leaving: one that  *)
(* is a member is about to leave once its slave does.                      *)
(***************************************************************************)
On(q, op) == \E n \in 1..Len(q) : q[n].op = op

Ordered(q) ==
  \A n, m \in 1..Len(q) : n < m =>
    /\ q[m].op = "JoinGroup" => q[n].op = "JoinGroup"
    /\ q[n].op = "LeaveGroup" => q[m].op = "LeaveGroup"

InRange(c) == c[2] < End(c[1]) - Begin(c[1])

Phase(s) ==
  /\ pc[s] \in {"begin", "send", "sending", "threw", "done"} => pool[s] = {}
  /\ pc[s] \in {"join", "joined"} => \A t \in pool[s] : t.op = "JoinGroup"
  /\ pc[s] \in {"leave", "left"} => \A t \in pool[s] : t.op = "LeaveGroup"
  /\ pc[s] \notin {"send", "sending", "threw"} => senders[s] = {}
  /\ \A k \in senders[s] : k < End(s) - Begin(s)
  /\ \A t \in pool[s] : Begin(s) <= t.ind /\ t.ind < End(s)
  /\ pc[s] \in {"join", "send", "leave"} => Begin(s) <= i[s]
  /\ pc[s] \in {"joined", "sending"} => i[s] = Begin(s)

Calling(c) ==
  /\ Ordered(wire[c])
  /\ pc[c[1]] \in {"begin", "join", "joined"} => ~On(wire[c], "SendGroup")
  /\ pc[c[1]] \notin {"leave", "left", "done"} => ~On(wire[c], "LeaveGroup")
  /\ ~open[c] => wire[c] = <<>> /\ member[c] = {}
  /\ On(wire[c], "JoinGroup") \/ member[c] # {} => InRange(c)
  /\ \A n \in 1..Len(wire[c]) : wire[c][n].op = "SendGroup" =>
       /\ InRange(c)
       /\ c[2] \in Entries
       /\ wire[c][n].group = list[c[2]]

JoinTask(c)  == [op |-> "JoinGroup", ind |-> EntryOfConnection(c)]
LeaveTask(c) == [op |-> "LeaveGroup", ind |-> EntryOfConnection(c)]

Joins(c) ==
  \/ JoinTask(c) \in pool[c[1]]
  \/ On(wire[c], "JoinGroup")
  \/ list[EntryOfConnection(c)] \in member[c]

Joining(c) ==
  open[c] /\ InRange(c) /\ EntryOfConnection(c) \in Entries =>
    /\ pc[c[1]] = "join" /\ EntryOfConnection(c) < i[c[1]] => Joins(c)
    /\ pc[c[1]] \in {"joined", "send", "sending", "threw"} => Joins(c)
    /\ pc[c[1]] \in {"leave", "left", "done"} =>
         Joins(c) \/ ~On(wire[c], "SendGroup")

Leaving(c) ==
  /\ pc[c[1]] \in {"leave", "left", "done"}
  /\ On(wire[c], "JoinGroup") \/ member[c] # {}
  =>
  \/ On(wire[c], "LeaveGroup")
  \/ LeaveTask(c) \in pool[c[1]]
  \/ pc[c[1]] = "leave" /\ i[c[1]] <= EntryOfConnection(c)

Order ==
  /\ \A s \in Slaves : Phase(s)
  /\ \A c \in All : Calling(c) /\ Joining(c) /\ Leaving(c)

\* What is on a wire to which a call is added.
LEMMA OnAppend ==
  ASSUME NEW q \in Seq(Calls), NEW x \in Calls
  PROVE  /\ Append(q, x) \in Seq(Calls)
         /\ \A op : On(Append(q, x), op) <=> On(q, op) \/ x.op = op
         /\ \A n \in 1..Len(Append(q, x)) :
              \/ n \in 1..Len(q) /\ Append(q, x)[n] = q[n]
              \/ n = Len(q) + 1 /\ Append(q, x)[n] = x
<1>1. /\ Len(q) \in Nat /\ Len(Append(q, x)) = Len(q) + 1
      /\ Append(q, x) \in Seq(Calls)
  OBVIOUS
<1>2. \A n \in 1..Len(q) : Append(q, x)[n] = q[n]
  OBVIOUS
<1>3. Append(q, x)[Len(q) + 1] = x
  OBVIOUS
<1>4. \A n \in 1..Len(Append(q, x)) : n \in 1..Len(q) \/ n = Len(q) + 1
  BY <1>1
<1>5. /\ \A n \in 1..Len(q) : n \in 1..Len(Append(q, x))
      /\ Len(q) + 1 \in 1..Len(Append(q, x))
  BY <1>1
<1>6. ASSUME NEW op PROVE On(Append(q, x), op) <=> On(q, op) \/ x.op = op
  BY <1>2, <1>3, <1>4, <1>5 DEF On
<1> QED
  BY <1>1, <1>2, <1>3, <1>4, <1>6

\* What is on a wire from which the first call is taken.
LEMMA OnTail ==
  ASSUME NEW q \in Seq(Calls), q # <<>>
  PROVE  /\ Tail(q) \in Seq(Calls)
         /\ \A op : On(q, op) <=> Head(q).op = op \/ On(Tail(q), op)
<1>1. Tail(q) \in Seq(Calls)
  OBVIOUS
<1>2. /\ Len(q) \in Nat /\ 1 \in 1..Len(q) /\ Head(q) = q[1]
      /\ \A n \in 1..Len(Tail(q)) :
           n + 1 \in 1..Len(q) /\ Tail(q)[n] = q[n + 1]
      /\ \A n \in 2..Len(q) :
           n - 1 \in 1..Len(Tail(q)) /\ q[n] = Tail(q)[n - 1]
  BY TailFacts
<1>3. \A n \in 1..Len(q) : n = 1 \/ n \in 2..Len(q)
  BY <1>2
<1>4. ASSUME NEW op PROVE On(q, op) <=> Head(q).op = op \/ On(Tail(q), op)
  BY <1>2, <1>3 DEF On
<1> QED
  BY <1>1, <1>4

\* The order is kept when the first call is handled.
LEMMA OrderedTail ==
  ASSUME NEW q \in Seq(Calls), q # <<>>, Ordered(q)
  PROVE  /\ Ordered(Tail(q))
         /\ Head(q).op = "LeaveGroup" =>
              ~On(q, "JoinGroup") /\ ~On(q, "SendGroup")
         /\ Head(q).op = "SendGroup" => ~On(q, "JoinGroup")
<1>1. /\ Len(q) \in Nat /\ 1 \in 1..Len(q) /\ Head(q) = q[1]
      /\ \A n \in 1..Len(Tail(q)) :
           n + 1 \in 1..Len(q) /\ Tail(q)[n] = q[n + 1]
  BY TailFacts
<1>2. Ordered(Tail(q))
  <2> SUFFICES ASSUME NEW n \in 1..Len(Tail(q)), NEW m \in 1..Len(Tail(q)), n < m
               PROVE  /\ Tail(q)[m].op = "JoinGroup" => Tail(q)[n].op = "JoinGroup"
                      /\ Tail(q)[n].op = "LeaveGroup" => Tail(q)[m].op = "LeaveGroup"
    BY DEF Ordered
  <2>1. n + 1 < m + 1
    OBVIOUS
  <2> QED
    BY <1>1, <2>1 DEF Ordered
<1>3. \A n \in 1..Len(q) : n = 1 \/ 1 < n
  OBVIOUS
<1>4. \A n \in 1..Len(q) :
        /\ q[1].op = "LeaveGroup" => q[n].op = "LeaveGroup"
        /\ q[n].op = "JoinGroup" => q[1].op = "JoinGroup"
  BY <1>1, <1>3 DEF Ordered
<1> QED
  BY <1>1, <1>2, <1>4 DEF On

\* The order is kept when a call is added after what may precede it.
LEMMA OrderedAppend ==
  ASSUME NEW q \in Seq(Calls), Ordered(q), NEW x \in Calls,
         x.op = "JoinGroup" => ~On(q, "SendGroup"),
         x.op # "LeaveGroup" => ~On(q, "LeaveGroup")
  PROVE  Ordered(Append(q, x))
<1> SUFFICES ASSUME NEW n \in 1..Len(Append(q, x)), NEW m \in 1..Len(Append(q, x)),
                    n < m
             PROVE  /\ Append(q, x)[m].op = "JoinGroup" =>
                         Append(q, x)[n].op = "JoinGroup"
                    /\ Append(q, x)[n].op = "LeaveGroup" =>
                         Append(q, x)[m].op = "LeaveGroup"
  BY DEF Ordered
<1>1. Len(q) \in Nat /\ Len(Append(q, x)) = Len(q) + 1
  OBVIOUS
<1>2. n \in 1..Len(q) /\ Append(q, x)[n] = q[n]
  BY <1>1
<1>3. CASE m \in 1..Len(q)
  <2>1. Append(q, x)[m] = q[m]
    BY <1>3
  <2> QED
    BY <1>2, <1>3, <2>1 DEF Ordered
<1>4. CASE m = Len(q) + 1
  <2>1. Append(q, x)[m] = x
    BY <1>4
  <2>2. q[n] \in Calls
    BY <1>2
  <2>3. q[n].op \in {"JoinGroup", "LeaveGroup", "SendGroup"}
    BY <2>2 DEF Calls, Ops
  <2>4. On(q, q[n].op)
    BY <1>2 DEF On
  <2> QED
    BY <1>2, <2>1, <2>3, <2>4
<1> QED
  BY <1>1, <1>3, <1>4

LEMMA OrderInit == Init => Order
<1> SUFFICES ASSUME Init PROVE Order
  OBVIOUS
<1>1. \A s \in Slaves : Phase(s)
  BY DEF Init, Phase
<1>2. ASSUME NEW c \in All PROVE Calling(c) /\ Joining(c) /\ Leaving(c)
  <2>1. c[1] \in Slaves
    BY DEF All
  <2>2. /\ pc[c[1]] = "begin" /\ wire[c] = <<>> /\ member[c] = {}
        /\ \A op : ~On(wire[c], op)
    BY <2>1 DEF Init, On
  <2>3. Ordered(wire[c])
    BY <2>2 DEF Ordered
  <2>4. Calling(c)
    BY <2>2, <2>3 DEF Calling
  <2> QED
    BY <2>2, <2>4 DEF Joining, Leaving
<1> QED
  BY <1>1, <1>2 DEF Order

\* Facts about the pair of a connection and about its slave.
LEMMA ConnectionFacts ==
  ASSUME TypeOK, NEW c \in All
  PROVE  /\ c[1] \in Slaves /\ c[2] \in Own(c[1]) /\ c[2] \in Nat
         /\ c = <<c[1], c[2]>>
         /\ Begin(c[1]) \in Nat /\ End(c[1]) \in Nat /\ i[c[1]] \in Nat
         /\ EntryOfConnection(c) \in Nat /\ Begin(c[1]) <= EntryOfConnection(c)
         /\ InRange(c) => EntryOfConnection(c) < End(c[1])
         /\ Share(c[1]) > 0
<1>1. c[1] \in Slaves /\ c[2] \in Own(c[1]) /\ c = <<c[1], c[2]>>
  BY DEF All
<1>2. /\ Share(c[1]) \in Nat /\ Begin(c[1]) \in Nat /\ End(c[1]) \in Nat
  BY <1>1, RangeFacts, TotalsAssumption DEF TypeOK
<1>3. c[2] \in Nat /\ Share(c[1]) > 0
  BY <1>1, <1>2 DEF Own
<1> QED
  BY <1>1, <1>2, <1>3 DEF TypeOK, EntryOfConnection, InRange

\* What the order says of a connection depends only on its slave and on itself.
LEMMA OrderFrame ==
  ASSUME TypeOK, [Next]_vars, NEW c \in All, Calling(c), Joining(c), Leaving(c),
         pc'[c[1]] = pc[c[1]], i'[c[1]] = i[c[1]], pool'[c[1]] = pool[c[1]],
         wire'[c] = wire[c], member'[c] = member[c], open'[c] = open[c]
  PROVE  Calling(c)' /\ Joining(c)' /\ Leaving(c)'
<1>1. /\ list' = list /\ Entries' = Entries
      /\ EntryOfConnection(c)' = EntryOfConnection(c)
      /\ InRange(c)' = InRange(c)
  BY InputsStay, ConnectionFacts DEF InRange
<1> QED
  BY <1>1 DEF Calling, Joining, Joins, Leaving, JoinTask, LeaveTask

\* The steps of the operation itself.
LEMMA OrderDo ==
  ASSUME TypeOK, Order, [Next]_vars, NEW s \in Slaves, DoStep(s)
  PROVE  Order'
<1>i. /\ list' = list /\ All' = All /\ Entries' = Entries
      /\ \A r \in Slaves : /\ Begin(r)' = Begin(r) /\ End(r)' = End(r)
                           /\ Share(r)' = Share(r)
      /\ \A c \in All : EntryOfConnection(c)' = EntryOfConnection(c)
  BY InputsStay
<1>n. /\ Begin(s) \in Nat /\ End(s) \in Nat /\ Begin(s) <= End(s) /\ i[s] \in Nat
      /\ Share(s) \in Nat
  BY RangeFacts, TotalsAssumption DEF TypeOK
<1>c. \A c \in All : /\ c[1] \in Slaves /\ InRange(c)' = InRange(c)
  BY <1>i, ConnectionFacts DEF InRange
<1>w. UNCHANGED <<wire, member, open>>
  BY WireStays
<1>o. /\ \A r \in Slaves : Phase(r)
      /\ \A c \in All : Calling(c) /\ Joining(c) /\ Leaving(c)
  BY DEF Order
<1>r. \A r \in Slaves : r # s => /\ pc'[r] = pc[r] /\ i'[r] = i[r]
                                /\ pool'[r] = pool[r] /\ senders'[r] = senders[r]
  BY DEF DoStep, Enter, Queue, LoopEnds, Wait, StartSendMsg, SendingEnds,
         Goto, TypeOK
<1>1. \A r \in Slaves : r # s => Phase(r)'
  BY <1>i, <1>o, <1>r DEF Phase
<1>2. \A c \in All : c[1] # s => Calling(c)' /\ Joining(c)' /\ Leaving(c)'
  BY <1>c, <1>o, <1>r, <1>w, OrderFrame
<1> SUFFICES /\ Phase(s)'
             /\ \A c \in All : c[1] = s => Calling(c)' /\ Joining(c)' /\ Leaving(c)'
  BY <1>i, <1>1, <1>2 DEF Order
<1>f. \A c \in All : c[1] = s =>
        /\ EntryOfConnection(c) \in Nat /\ Begin(s) <= EntryOfConnection(c)
        /\ InRange(c) => EntryOfConnection(c) < End(s)
        /\ Share(s) > 0
  BY ConnectionFacts
<1>3. CASE Enter(s)
  <2>1. /\ pc[s] = "begin" /\ pool' = pool /\ senders' = senders
        /\ pc'[s] = IF Share(s) = 0 THEN "done" ELSE "join"
        /\ i'[s] = Begin(s)
    BY <1>3 DEF Enter, Goto, TypeOK
  <2>2. Phase(s)'
    BY <1>i, <1>n, <1>o, <2>1 DEF Phase
  <2>3. ASSUME NEW c \in All, c[1] = s PROVE Calling(c)' /\ Joining(c)' /\ Leaving(c)'
    <3>1. pc'[s] = "join"
      BY <1>f, <2>1, <2>3
    <3>2. Calling(c)'
      BY <1>i, <1>c, <1>w, <1>o, <2>1, <2>3, <3>1 DEF Calling
    <3>3. Joining(c)' /\ Leaving(c)'
      BY <1>i, <1>f, <1>n, <2>1, <2>3, <3>1 DEF Joining, Leaving
    <3> QED
      BY <3>2, <3>3
  <2> QED
    BY <2>2, <2>3
<1>4. CASE Queue(s, "join", "JoinGroup")
  <2>1. /\ pc[s] = "join" /\ pc' = pc /\ senders' = senders
        /\ i[s] < End(s) /\ i'[s] = i[s] + 1
        /\ pool'[s] = pool[s] \cup {[op |-> "JoinGroup", ind |-> i[s]]}
    BY <1>4 DEF Queue, TypeOK
  <2>2. Phase(s)'
    BY <1>i, <1>n, <1>o, <2>1 DEF Phase
  <2>3. ASSUME NEW c \in All, c[1] = s PROVE Calling(c)' /\ Joining(c)' /\ Leaving(c)'
    <3>1. Calling(c)' /\ Leaving(c)'
      BY <1>i, <1>c, <1>w, <1>o, <2>1, <2>3 DEF Calling, Leaving
    <3>2. EntryOfConnection(c) < i'[s] =>
            EntryOfConnection(c) < i[s] \/ JoinTask(c) \in pool'[s]
      BY <1>f, <1>n, <2>1, <2>3 DEF JoinTask
    <3>3. JoinTask(c)' = JoinTask(c)
      BY <1>i DEF JoinTask
    <3>4. Joining(c)'
      BY <1>i, <1>c, <1>w, <1>o, <2>1, <2>3, <3>2, <3>3 DEF Joining, Joins
    <3> QED
      BY <3>1, <3>4
  <2> QED
    BY <2>2, <2>3
<1>5. CASE LoopEnds(s, "join", "joined")
  <2>1. /\ pc[s] = "join" /\ pc'[s] = "joined" /\ i[s] = End(s) /\ i'[s] = Begin(s)
        /\ pool' = pool /\ senders' = senders
    BY <1>5 DEF LoopEnds, Goto, TypeOK
  <2>2. Phase(s)'
    BY <1>i, <1>n, <1>o, <2>1 DEF Phase
  <2>3. ASSUME NEW c \in All, c[1] = s PROVE Calling(c)' /\ Joining(c)' /\ Leaving(c)'
    <3>1. Calling(c)' /\ Leaving(c)'
      BY <1>i, <1>c, <1>w, <1>o, <2>1, <2>3 DEF Calling, Leaving
    <3>2. Joining(c)'
      BY <1>i, <1>c, <1>w, <1>o, <1>f, <2>1, <2>3 DEF Joining, Joins, JoinTask
    <3> QED
      BY <3>1, <3>2
  <2> QED
    BY <2>2, <2>3
<1>6. CASE Wait(s, "joined", "send")
  <2>1. /\ pc[s] = "joined" /\ pc'[s] = "send" /\ i' = i
        /\ pool[s] = {} /\ pool' = pool /\ senders' = senders
    BY <1>6 DEF Wait, Waited, Goto, TypeOK
  <2>2. Phase(s)'
    BY <1>i, <1>n, <1>o, <2>1 DEF Phase
  <2>3. ASSUME NEW c \in All, c[1] = s PROVE Calling(c)' /\ Joining(c)' /\ Leaving(c)'
    <3>1. Calling(c)' /\ Leaving(c)'
      BY <1>i, <1>c, <1>w, <1>o, <2>1, <2>3 DEF Calling, Leaving
    <3>2. Joining(c)'
      BY <1>i, <1>c, <1>w, <1>o, <2>1, <2>3 DEF Joining, Joins, JoinTask
    <3> QED
      BY <3>1, <3>2
  <2> QED
    BY <2>2, <2>3
<1>7. CASE StartSendMsg(s) \/ LoopEnds(s, "send", "sending")
  <2>1. /\ pc[s] = "send" /\ pc'[s] \in {"send", "sending", "threw"}
        /\ pool' = pool
    BY <1>7 DEF StartSendMsg, LoopEnds, Goto, TypeOK
  <2>2. Phase(s)'
    <3>1. CASE LoopEnds(s, "send", "sending")
      BY <1>i, <1>n, <1>o, <2>1, <3>1 DEF Phase, LoopEnds, Goto, TypeOK
    <3>2. CASE StartSendMsg(s)
      <4>1. \/ /\ senders'[s] = senders[s] \cup {i[s] - Begin(s)}
               /\ pc'[s] = "send" /\ i'[s] = i[s] + 1 /\ i[s] < End(s)
            \/ senders'[s] = senders[s] /\ pc'[s] = "threw"
        BY <3>2 DEF StartSendMsg, Goto, TypeOK
      <4>2. i[s] < End(s) => i[s] - Begin(s) < End(s) - Begin(s)
        BY <1>n
      <4> QED
        BY <1>i, <1>n, <1>o, <2>1, <4>1, <4>2 DEF Phase
    <3> QED
      BY <1>7, <3>1, <3>2
  <2>3. ASSUME NEW c \in All, c[1] = s PROVE Calling(c)' /\ Joining(c)' /\ Leaving(c)'
    <3>1. Calling(c)' /\ Leaving(c)'
      BY <1>i, <1>c, <1>w, <1>o, <2>1, <2>3 DEF Calling, Leaving
    <3>2. Joining(c)'
      BY <1>i, <1>c, <1>w, <1>o, <2>1, <2>3 DEF Joining, Joins, JoinTask
    <3> QED
      BY <3>1, <3>2
  <2> QED
    BY <2>2, <2>3
<1>8. CASE SendingEnds(s)
  <2>1. /\ pc[s] = "sending" /\ pc'[s] = "leave" /\ i' = i /\ i[s] = Begin(s)
        /\ pool' = pool /\ senders' = senders /\ senders[s] = {}
    BY <1>8, <1>o DEF SendingEnds, Goto, TypeOK, Phase
  <2>2. Phase(s)'
    BY <1>i, <1>n, <1>o, <2>1 DEF Phase
  <2>3. ASSUME NEW c \in All, c[1] = s PROVE Calling(c)' /\ Joining(c)' /\ Leaving(c)'
    <3>1. Calling(c)'
      BY <1>i, <1>c, <1>w, <1>o, <2>1, <2>3 DEF Calling
    <3>2. Joining(c)'
      BY <1>i, <1>c, <1>w, <1>o, <2>1, <2>3 DEF Joining, Joins, JoinTask
    <3>3. Leaving(c)'
      BY <1>i, <1>f, <2>1, <2>3 DEF Leaving
    <3> QED
      BY <3>1, <3>2, <3>3
  <2> QED
    BY <2>2, <2>3
<1>9. CASE Queue(s, "leave", "LeaveGroup")
  <2>1. /\ pc[s] = "leave" /\ pc' = pc /\ senders' = senders
        /\ i[s] < End(s) /\ i'[s] = i[s] + 1
        /\ pool'[s] = pool[s] \cup {[op |-> "LeaveGroup", ind |-> i[s]]}
    BY <1>9 DEF Queue, TypeOK
  <2>2. Phase(s)'
    BY <1>i, <1>n, <1>o, <2>1 DEF Phase
  <2>3. ASSUME NEW c \in All, c[1] = s PROVE Calling(c)' /\ Joining(c)' /\ Leaving(c)'
    <3>1. Calling(c)'
      BY <1>i, <1>c, <1>w, <1>o, <2>1, <2>3 DEF Calling
    <3>2. Joining(c)'
      BY <1>i, <1>c, <1>w, <1>o, <2>1, <2>3 DEF Joining, Joins, JoinTask
    <3>3. i[s] <= EntryOfConnection(c) =>
            i'[s] <= EntryOfConnection(c) \/ LeaveTask(c) \in pool'[s]
      BY <1>f, <1>n, <2>1, <2>3 DEF LeaveTask
    <3>4. LeaveTask(c)' = LeaveTask(c)
      BY <1>i DEF LeaveTask
    <3>5. Leaving(c)'
      BY <1>i, <1>w, <1>o, <2>1, <2>3, <3>3, <3>4 DEF Leaving
    <3> QED
      BY <3>1, <3>2, <3>5
  <2> QED
    BY <2>2, <2>3
<1>10. CASE LoopEnds(s, "leave", "left")
  <2>1. /\ pc[s] = "leave" /\ pc'[s] = "left" /\ i[s] = End(s) /\ i'[s] = Begin(s)
        /\ pool' = pool /\ senders' = senders
    BY <1>10 DEF LoopEnds, Goto, TypeOK
  <2>2. Phase(s)'
    BY <1>i, <1>n, <1>o, <2>1 DEF Phase
  <2>3. ASSUME NEW c \in All, c[1] = s PROVE Calling(c)' /\ Joining(c)' /\ Leaving(c)'
    <3>1. Calling(c)'
      BY <1>i, <1>c, <1>w, <1>o, <2>1, <2>3 DEF Calling
    <3>2. Joining(c)'
      BY <1>i, <1>c, <1>w, <1>o, <2>1, <2>3 DEF Joining, Joins, JoinTask
    <3>3. On(wire[c], "JoinGroup") \/ member[c] # {} => EntryOfConnection(c) < End(s)
      BY <1>o, <1>f, <2>3 DEF Calling
    <3>4. Leaving(c)'
      BY <1>i, <1>w, <1>o, <1>f, <1>n, <2>1, <2>3, <3>3 DEF Leaving, LeaveTask
    <3> QED
      BY <3>1, <3>2, <3>4
  <2> QED
    BY <2>2, <2>3
<1>11. CASE Wait(s, "left", "done")
  <2>1. /\ pc[s] = "left" /\ pc'[s] = "done" /\ i' = i
        /\ pool[s] = {} /\ pool' = pool /\ senders' = senders
    BY <1>11 DEF Wait, Waited, Goto, TypeOK
  <2>2. Phase(s)'
    BY <1>i, <1>n, <1>o, <2>1 DEF Phase
  <2>3. ASSUME NEW c \in All, c[1] = s PROVE Calling(c)' /\ Joining(c)' /\ Leaving(c)'
    <3>1. Calling(c)'
      BY <1>i, <1>c, <1>w, <1>o, <2>1, <2>3 DEF Calling
    <3>2. Joining(c)'
      BY <1>i, <1>c, <1>w, <1>o, <2>1, <2>3 DEF Joining, Joins, JoinTask
    <3>3. Leaving(c)'
      BY <1>i, <1>w, <1>o, <2>1, <2>3 DEF Leaving, LeaveTask
    <3> QED
      BY <3>1, <3>2, <3>3
  <2> QED
    BY <2>2, <2>3
<1> QED
  BY <1>3, <1>4, <1>5, <1>6, <1>7, <1>8, <1>9, <1>10, <1>11 DEF DoStep

\* A task less in the pool, or a loop less that sends, leaves Phase as it was.
LEMMA PhaseFewer ==
  ASSUME [Next]_vars, NEW r \in Slaves, Phase(r), pc' = pc, i' = i,
         pool'[r] \subseteq pool[r], senders'[r] \subseteq senders[r]
  PROVE  Phase(r)'
<1>1. Begin(r)' = Begin(r) /\ End(r)' = End(r)
  BY InputsStay
<1> QED
  BY <1>1 DEF Phase

\* The tasks that are about one connection are not about another.
LEMMA OtherTasks ==
  ASSUME TypeOK, NEW s \in Slaves, NEW t \in pool[s], NEW c \in All, c[1] = s,
         t = JoinTask(c) \/ t = LeaveTask(c)
  PROVE  t.ind = EntryOfConnection(c) /\ Captured(s, t) - Begin(s) = c[2]
<1>1. t.ind = EntryOfConnection(c)
  BY DEF JoinTask, LeaveTask
<1>2. c[2] \in Nat /\ Begin(s) \in Nat
  BY ConnectionFacts
<1> QED
  BY <1>1, <1>2 DEF EntryOfConnection, Captured

\* What the order says of a connection stays true while its tasks are kept.
LEMMA OrderKeeps ==
  ASSUME TypeOK, [Next]_vars, NEW c \in All, Calling(c), Joining(c), Leaving(c),
         pc' = pc, i' = i,
         JoinTask(c) \in pool[c[1]] => JoinTask(c) \in pool'[c[1]],
         LeaveTask(c) \in pool[c[1]] => LeaveTask(c) \in pool'[c[1]],
         wire'[c] = wire[c], member'[c] = member[c], open'[c] = open[c]
  PROVE  Calling(c)' /\ Joining(c)' /\ Leaving(c)'
<1>1. /\ list' = list /\ Entries' = Entries
      /\ EntryOfConnection(c)' = EntryOfConnection(c)
      /\ InRange(c)' = InRange(c)
  BY InputsStay, ConnectionFacts DEF InRange
<1>2. JoinTask(c)' = JoinTask(c) /\ LeaveTask(c)' = LeaveTask(c)
  BY <1>1 DEF JoinTask, LeaveTask
<1>3. Calling(c)'
  BY <1>1 DEF Calling
<1>4. Joins(c) => Joins(c)'
  BY <1>1, <1>2 DEF Joins
<1>5. Joining(c)'
  BY <1>1, <1>4 DEF Joining
<1>6. Leaving(c)'
  BY <1>1, <1>2 DEF Leaving
<1> QED
  BY <1>3, <1>5, <1>6

\* A task that calls.
LEMMA OrderCalls ==
  ASSUME TypeOK, Order, [Next]_vars, NEW s \in Slaves, NEW t \in pool[s],
         TaskCalls(s, t)
  PROVE  Order'
<1>0. Has(s, t)
  BY DEF TaskCalls
<1>d. PICK d \in All : d = <<s, Captured(s, t) - Begin(s)>>
  BY <1>0, TaskOwn
<1>x. PICK x \in Calls : x = Call(t.op, list[EntryOf(s, t)])
  BY <1>0, TaskOwn DEF Call, Calls
<1>1. /\ Has(s, t) /\ pool' = [pool EXCEPT ![s] = @ \ {t}]
      /\ wire' = IF open[d] THEN [wire EXCEPT ![d] = Append(@, x)] ELSE wire
      /\ UNCHANGED <<inputs, pc, i, senders, sends, open, member, counters>>
  BY <1>d, <1>x DEF TaskCalls
<1>2. /\ d \in All /\ d[1] = s /\ d[2] = t.ind - Begin(s) /\ t.op \in Ops
      /\ EntryOfConnection(d) = t.ind
      /\ x \in Calls /\ x.op = t.op
  BY <1>1, <1>d, <1>x, TaskOwn DEF Call, EntryOf, Captured
<1>o. /\ \A r \in Slaves : Phase(r)
      /\ \A c \in All : Calling(c) /\ Joining(c) /\ Leaving(c)
  BY DEF Order
<1>n. /\ t.ind \in Nat /\ Begin(s) \in Nat /\ End(s) \in Nat
      /\ Begin(s) <= t.ind /\ t.ind < End(s)
  BY <1>o, RangeFacts, TotalsAssumption DEF TypeOK, Phase
<1>i. /\ list' = list /\ All' = All /\ Entries' = Entries
      /\ \A c \in All : EntryOfConnection(c)' = EntryOfConnection(c)
      /\ InRange(d)' = InRange(d)
  BY <1>2, InputsStay, ConnectionFacts DEF InRange
<1>3. \A r \in Slaves : Phase(r)'
  BY <1>1, <1>o, PhaseFewer DEF TypeOK
<1>4. \/ t.op = "JoinGroup" /\ pc[s] \in {"join", "joined"}
      \/ t.op = "LeaveGroup" /\ pc[s] \in {"leave", "left"}
  BY <1>o, <1>2 DEF Phase, TypeOK, Points, Ops
<1>5. ASSUME NEW c \in All, c # d PROVE Calling(c)' /\ Joining(c)' /\ Leaving(c)'
  <2>1. wire'[c] = wire[c] /\ member'[c] = member[c] /\ open'[c] = open[c]
    BY <1>1, <1>5 DEF TypeOK
  <2>2. c[1] = s => t # JoinTask(c) /\ t # LeaveTask(c)
    <3> SUFFICES ASSUME c[1] = s, t = JoinTask(c) \/ t = LeaveTask(c) PROVE FALSE
      OBVIOUS
    <3>1. c = <<s, Captured(s, t) - Begin(s)>>
      BY OtherTasks, ConnectionFacts
    <3> QED
      BY <1>d, <1>5, <3>1
  <2>3. \A u \in pool[c[1]] : u \notin pool'[c[1]] => c[1] = s /\ u = t
    BY <1>1, ConnectionFacts DEF TypeOK
  <2> QED
    BY <1>1, <1>o, <2>1, <2>2, <2>3, OrderKeeps
<1>6. Calling(d)' /\ Joining(d)' /\ Leaving(d)'
  <2>1. CASE ~open[d]
    <3>1. wire'[d] = <<>> /\ member'[d] = {} /\ ~open'[d]
      BY <1>1, <1>2, <1>o, <2>1 DEF Calling
    <3>2. /\ \A op : ~On(wire'[d], op)
          /\ Ordered(wire'[d])
      BY <3>1 DEF On, Ordered
    <3> QED
      BY <3>1, <3>2 DEF Calling, Joining, Leaving
  <2>2. CASE open[d]
    <3>1. wire'[d] = Append(wire[d], x) /\ wire[d] \in Seq(Calls)
      BY <1>1, <1>2, <2>2 DEF TypeOK
    <3>2. /\ \A op : On(wire'[d], op) <=> On(wire[d], op) \/ x.op = op
          /\ \A n \in 1..Len(wire'[d]) :
               \/ n \in 1..Len(wire[d]) /\ wire'[d][n] = wire[d][n]
               \/ wire'[d][n] = x
      BY <1>2, <3>1, OnAppend
    <3>3. Ordered(wire[d]) /\ Calling(d) /\ Joining(d)
      BY <1>2, <1>o DEF Calling
    <3>4. InRange(d)
      BY <1>2, <1>n DEF InRange
    <3>5. Ordered(wire'[d])
      <4>1. x.op = "JoinGroup" => ~On(wire[d], "SendGroup")
        BY <1>2, <1>4, <3>3 DEF Calling
      <4>2. x.op # "LeaveGroup" => ~On(wire[d], "LeaveGroup")
        BY <1>2, <1>4, <3>3 DEF Calling
      <4> QED
        BY <1>2, <3>1, <3>3, <4>1, <4>2, OrderedAppend
    <3>6. Calling(d)'
      <4>1. pc'[d[1]] \in {"begin", "join", "joined"} => ~On(wire'[d], "SendGroup")
        BY <1>1, <1>2, <1>4, <3>2, <3>3 DEF Calling
      <4>2. pc'[d[1]] \notin {"leave", "left", "done"} => ~On(wire'[d], "LeaveGroup")
        BY <1>1, <1>2, <1>4, <3>2, <3>3 DEF Calling
      <4>3. \A n \in 1..Len(wire'[d]) : wire'[d][n].op = "SendGroup" =>
              /\ InRange(d) /\ d[2] \in Entries /\ wire'[d][n].group = list[d[2]]
        BY <1>2, <1>4, <3>2, <3>3 DEF Calling
      <4> QED
        BY <1>1, <1>i, <2>2, <3>4, <3>5, <4>1, <4>2, <4>3 DEF Calling
    <3>7. CASE t.op = "JoinGroup"
      <4>1. On(wire'[d], "JoinGroup") /\ pc'[d[1]] \in {"join", "joined"}
        BY <1>1, <1>2, <1>4, <3>2, <3>7
      <4> QED
        BY <3>6, <4>1 DEF Joining, Joins, Leaving
    <3>8. CASE t.op = "LeaveGroup"
      <4>1. On(wire'[d], "LeaveGroup") /\ pc[d[1]] \in {"leave", "left"}
        BY <1>2, <1>4, <3>2, <3>8
      <4>2. JoinTask(d) \notin pool[s]
        BY <1>2, <1>o, <4>1 DEF Phase, JoinTask
      <4>3. Joins(d) => Joins(d)'
        BY <1>1, <1>2, <1>i, <3>2, <4>2 DEF Joins
      <4>4. On(wire'[d], "SendGroup") => On(wire[d], "SendGroup")
        BY <1>2, <3>2, <3>8
      <4>5. Joining(d)'
        BY <1>1, <1>2, <1>i, <3>3, <4>1, <4>3, <4>4 DEF Joining
      <4> QED
        BY <3>6, <4>1, <4>5 DEF Leaving
    <3> QED
      BY <1>4, <3>7, <3>8
  <2> QED
    BY <2>1, <2>2
<1> QED
  BY <1>i, <1>3, <1>5, <1>6 DEF Order

\* A task that throws was of no use to a connection that has an entry.
LEMMA OrderThrows ==
  ASSUME TypeOK, OwnCalls, MembersByList, Order, [Next]_vars,
         NEW s \in Slaves, NEW t \in pool[s], TaskThrows(s, t)
  PROVE  Order'
<1>1. /\ ~Has(s, t) /\ pool' = [pool EXCEPT ![s] = @ \ {t}]
      /\ UNCHANGED <<inputs, pc, i, senders, sends, open, wire, member, notSent>>
  BY DEF TaskThrows
<1>o. /\ \A r \in Slaves : Phase(r)
      /\ \A c \in All : Calling(c) /\ Joining(c) /\ Leaving(c)
  BY DEF Order
<1>2. \A r \in Slaves : Phase(r)'
  BY <1>1, <1>o, PhaseFewer DEF TypeOK
<1>3. ASSUME NEW c \in All PROVE Calling(c)' /\ Joining(c)' /\ Leaving(c)'
  <2>0. \A u \in pool[c[1]] : u \notin pool'[c[1]] => c[1] = s /\ u = t
    BY <1>1, ConnectionFacts DEF TypeOK
  <2>1. CASE c[1] = s /\ (t = JoinTask(c) \/ t = LeaveTask(c))
    <3>1. t.ind = EntryOfConnection(c) /\ Captured(s, t) - Begin(s) \in Own(s)
      BY <2>1, OtherTasks, ConnectionFacts
    <3>2. EntryOfConnection(c) \notin Entries
      BY <1>1, <3>1 DEF Has, EntryOf, Captured
    <3>3. member[c] = {} /\ ~On(wire[c], "JoinGroup")
      BY <3>2 DEF MembersByList, OwnCalls, On, Ops
    <3>4. /\ list' = list /\ Entries' = Entries
          /\ EntryOfConnection(c)' = EntryOfConnection(c)
          /\ InRange(c)' = InRange(c)
      BY InputsStay, ConnectionFacts DEF InRange
    <3> QED
      BY <1>1, <1>o, <3>2, <3>3, <3>4 DEF Calling, Joining, Leaving
  <2>2. CASE ~(c[1] = s /\ (t = JoinTask(c) \/ t = LeaveTask(c)))
    BY <1>1, <1>o, <2>0, <2>2, OrderKeeps
  <2> QED
    BY <2>1, <2>2
<1> QED
  BY <1>2, <1>3, InputsStay DEF Order

\* A loop that sends.
LEMMA OrderSend ==
  ASSUME TypeOK, Order, [Next]_vars, NEW s \in Slaves, NEW k \in senders[s],
         SendGroup(s, k)
  PROVE  Order'
<1>0. <<s, k>> \in All
  BY DEF All, TypeOK
<1>1. PICK d \in All : d = <<s, k>>
  BY <1>0
<1>o. /\ \A r \in Slaves : Phase(r)
      /\ \A c \in All : Calling(c) /\ Joining(c) /\ Leaving(c)
  BY DEF Order
<1>2. /\ \/ wire' = wire
         \/ /\ k \in Entries /\ open[d]
            /\ wire' = [wire EXCEPT ![d] = Append(@, Call("SendGroup", list[k]))]
      /\ UNCHANGED <<inputs, pc, i, pool, senders, open, member>>
  BY <1>1 DEF SendGroup
<1>3. pc[s] \in {"send", "sending", "threw"} /\ InRange(d)
  BY <1>1, <1>o DEF Phase, InRange
<1>i. /\ list' = list /\ All' = All /\ Entries' = Entries
      /\ \A c \in All : EntryOfConnection(c)' = EntryOfConnection(c)
      /\ InRange(d)' = InRange(d)
  BY InputsStay, ConnectionFacts DEF InRange
<1>4. \A r \in Slaves : Phase(r)'
  BY <1>2, <1>o, PhaseFewer DEF TypeOK
<1>5. ASSUME NEW c \in All, wire'[c] = wire[c]
      PROVE  Calling(c)' /\ Joining(c)' /\ Leaving(c)'
  BY <1>2, <1>5, <1>o, OrderKeeps
<1>6. ASSUME k \in Entries, open[d],
             wire' = [wire EXCEPT ![d] = Append(@, Call("SendGroup", list[k]))]
      PROVE  Calling(d)' /\ Joining(d)' /\ Leaving(d)'
  <2>1. PICK x \in Calls : x = Call("SendGroup", list[k])
    BY <1>6 DEF Call, Calls, TypeOK
  <2>2. x.op = "SendGroup" /\ x.group = list[d[2]] /\ d[2] \in Entries /\ d[1] = s
    BY <1>1, <1>6, <2>1 DEF Call
  <2>3. wire'[d] = Append(wire[d], x) /\ wire[d] \in Seq(Calls)
    BY <1>6, <2>1 DEF TypeOK
  <2>4. /\ \A op : On(wire'[d], op) <=> On(wire[d], op) \/ x.op = op
        /\ \A n \in 1..Len(wire'[d]) :
             \/ n \in 1..Len(wire[d]) /\ wire'[d][n] = wire[d][n]
             \/ wire'[d][n] = x
    BY <2>3, OnAppend
  <2>5. Ordered(wire[d]) /\ Calling(d) /\ Joining(d)
    BY <1>o DEF Calling
  <2>6. ~On(wire[d], "LeaveGroup")
    BY <1>3, <2>2, <2>5 DEF Calling
  <2>7. Ordered(wire'[d])
    BY <2>2, <2>3, <2>5, <2>6, OrderedAppend
  <2>8. Calling(d)'
    <3>1. \A n \in 1..Len(wire'[d]) : wire'[d][n].op = "SendGroup" =>
            /\ InRange(d) /\ d[2] \in Entries /\ wire'[d][n].group = list[d[2]]
      BY <1>3, <2>2, <2>4, <2>5 DEF Calling
    <3> QED
      BY <1>2, <1>3, <1>6, <1>i, <2>2, <2>4, <2>6, <2>7, <3>1 DEF Calling
  <2>9. Joins(d) => Joins(d)'
    BY <1>2, <1>i, <2>4 DEF Joins, JoinTask
  <2>10. Joining(d)'
    BY <1>2, <1>3, <1>i, <2>2, <2>5, <2>9 DEF Joining
  <2>11. Leaving(d)'
    BY <1>2, <1>3, <2>2 DEF Leaving
  <2> QED
    BY <2>8, <2>10, <2>11
<1>7. \A c \in All : Calling(c)' /\ Joining(c)' /\ Leaving(c)'
  <2> TAKE c \in All
  <2>1. CASE wire'[c] = wire[c]
    BY <1>5, <2>1
  <2>2. CASE wire'[c] # wire[c]
    <3>1. c = d
      BY <1>2, <2>2 DEF TypeOK
    <3> QED
      BY <1>2, <1>6, <2>2, <3>1
  <2> QED
    BY <2>1, <2>2
<1> QED
  BY <1>i, <1>4, <1>7 DEF Order

\* The hub handles a call.
LEMMA OrderHandle ==
  ASSUME TypeOK, OwnCalls, MembersByList, Order, [Next]_vars,
         NEW d \in All, Handle(d)
  PROVE  Order'
<1>1. /\ wire[d] # <<>> /\ wire' = [wire EXCEPT ![d] = Tail(@)]
      /\ UNCHANGED <<inputs, pc, i, pool, senders, sends, open, counters>>
      /\ \A c \in All : c # d => member'[c] = member[c]
  BY DEF Handle, TypeOK
<1>o. /\ \A r \in Slaves : Phase(r)
      /\ \A c \in All : Calling(c) /\ Joining(c) /\ Leaving(c)
  BY DEF Order
<1>i. /\ list' = list /\ All' = All /\ Entries' = Entries
      /\ \A c \in All : EntryOfConnection(c)' = EntryOfConnection(c)
      /\ InRange(d)' = InRange(d)
  BY InputsStay, ConnectionFacts DEF InRange
<1>2. \A r \in Slaves : Phase(r)'
  BY <1>1, <1>o, PhaseFewer
<1>3. ASSUME NEW c \in All, c # d PROVE Calling(c)' /\ Joining(c)' /\ Leaving(c)'
  <2>1. wire'[c] = wire[c]
    BY <1>1, <1>3 DEF TypeOK
  <2> QED
    BY <1>1, <1>3, <1>o, <2>1, OrderKeeps
<1>4. Calling(d)' /\ Joining(d)' /\ Leaving(d)'
  <2>1. wire[d] \in Seq(Calls) /\ wire'[d] = Tail(wire[d])
    BY <1>1 DEF TypeOK
  <2>2. Ordered(wire[d]) /\ Calling(d) /\ Joining(d) /\ Leaving(d)
    BY <1>o DEF Calling
  <2>t. /\ 1 \in 1..Len(wire[d]) /\ Head(wire[d]) = wire[d][1]
        /\ Head(wire[d]) \in Calls
        /\ \A n \in 1..Len(Tail(wire[d])) :
             n + 1 \in 1..Len(wire[d]) /\ Tail(wire[d])[n] = wire[d][n + 1]
    BY <1>1, <2>1, TailFacts
  <2>3. /\ 1 \in 1..Len(wire[d]) /\ Head(wire[d]) = wire[d][1]
        /\ Head(wire[d]) \in Calls
        /\ \A n \in 1..Len(wire'[d]) :
             n + 1 \in 1..Len(wire[d]) /\ wire'[d][n] = wire[d][n + 1]
    BY <2>1, <2>t
  <2>4. /\ Ordered(wire'[d])
        /\ Head(wire[d]).op = "LeaveGroup" =>
             ~On(wire[d], "JoinGroup") /\ ~On(wire[d], "SendGroup")
    BY <1>1, <2>1, <2>2, OrderedTail
  <2>5. \A op : On(wire[d], op) <=> Head(wire[d]).op = op \/ On(wire'[d], op)
    BY <1>1, <2>1, OnTail
  <2>6. open[d] /\ open'[d]
    BY <1>1, <2>2 DEF Calling
  <2>7. Head(wire[d]).op \in Ops => Head(wire[d]).group = list[EntryOfConnection(d)]
    BY <2>3 DEF OwnCalls
  <2>8. member'[d] = CASE Head(wire[d]).op = "JoinGroup" ->
                            member[d] \cup {Head(wire[d]).group}
                       [] Head(wire[d]).op = "LeaveGroup" ->
                            member[d] \ {Head(wire[d]).group}
                       [] Head(wire[d]).op = "SendGroup" -> member[d]
    BY DEF Handle, TypeOK
  <2>9. \/ /\ Head(wire[d]).op = "JoinGroup"
           /\ member'[d] = member[d] \cup {list[EntryOfConnection(d)]}
        \/ Head(wire[d]).op = "LeaveGroup" /\ member'[d] = {}
        \/ Head(wire[d]).op = "SendGroup" /\ member'[d] = member[d]
    <3>1. CASE Head(wire[d]).op = "JoinGroup"
      BY <2>7, <2>8, <3>1 DEF Ops
    <3>2. CASE Head(wire[d]).op = "LeaveGroup"
      <4>1. member'[d] = member[d] \ {list[EntryOfConnection(d)]}
        BY <2>7, <2>8, <3>2 DEF Ops
      <4>2. \A g \in member[d] : g = list[EntryOfConnection(d)]
        BY DEF MembersByList
      <4> QED
        BY <3>2, <4>1, <4>2
    <3>3. CASE Head(wire[d]).op = "SendGroup"
      BY <2>8, <3>3
    <3> QED
      BY <2>3, <3>1, <3>2, <3>3 DEF Calls, Ops
  <2>10. /\ ~(Head(wire[d]).op = "JoinGroup" /\ Head(wire[d]).op = "LeaveGroup")
         /\ ~(Head(wire[d]).op = "SendGroup" /\ Head(wire[d]).op = "LeaveGroup")
    OBVIOUS
  <2>11. On(wire'[d], "JoinGroup") \/ member'[d] # {} =>
           /\ On(wire[d], "JoinGroup") \/ member[d] # {}
           /\ Head(wire[d]).op # "LeaveGroup"
    BY <2>4, <2>5, <2>9, <2>10
  <2>12. Calling(d)'
    <3>1. \A n \in 1..Len(wire'[d]) : wire'[d][n].op = "SendGroup" =>
            /\ InRange(d) /\ d[2] \in Entries /\ wire'[d][n].group = list[d[2]]
      BY <2>2, <2>3 DEF Calling
    <3>2. \A op : ~On(wire[d], op) => ~On(wire'[d], op)
      BY <2>5
    <3> QED
      BY <1>1, <1>i, <2>2, <2>4, <2>6, <2>11, <3>1, <3>2 DEF Calling
  <2>13. Joining(d)'
    <3>1. Joins(d) => Joins(d)' \/ Head(wire[d]).op = "LeaveGroup"
      <4>1. JoinTask(d)' = JoinTask(d) /\ list'[EntryOfConnection(d)'] =
                                          list[EntryOfConnection(d)]
        BY <1>i DEF JoinTask
      <4> QED
        BY <1>1, <2>5, <2>9, <4>1 DEF Joins
    <3>2. Head(wire[d]).op = "LeaveGroup" =>
            pc[d[1]] \in {"leave", "left", "done"} /\ ~On(wire'[d], "SendGroup")
      BY <2>2, <2>4, <2>5 DEF Calling
    <3>3. ~On(wire[d], "SendGroup") => ~On(wire'[d], "SendGroup")
      BY <2>5
    <3> QED
      BY <1>1, <1>i, <2>2, <2>6, <3>1, <3>2, <3>3 DEF Joining
  <2>14. Leaving(d)'
    <3>1. LeaveTask(d)' = LeaveTask(d)
      BY <1>i DEF LeaveTask
    <3> QED
      BY <1>1, <1>i, <2>2, <2>5, <2>11, <3>1 DEF Leaving
  <2> QED
    BY <2>12, <2>13, <2>14
<1> QED
  BY <1>i, <1>2, <1>3, <1>4 DEF Order

\* A connection that drops has nothing on the wire and is in no group.
LEMMA OrderDrop ==
  ASSUME TypeOK, Order, [Next]_vars, NEW d \in All, Drop(d)
  PROVE  Order'
<1>1. /\ UNCHANGED <<inputs, pc, i, pool, senders, sends, counters>>
      /\ \A c \in All : c # d => /\ wire'[c] = wire[c] /\ member'[c] = member[c]
                                 /\ open'[c] = open[c]
      /\ wire'[d] = <<>> /\ member'[d] = {} /\ ~open'[d]
  BY DEF Drop, TypeOK
<1>o. /\ \A r \in Slaves : Phase(r)
      /\ \A c \in All : Calling(c) /\ Joining(c) /\ Leaving(c)
  BY DEF Order
<1>2. \A r \in Slaves : Phase(r)'
  BY <1>1, <1>o, PhaseFewer
<1>3. \A c \in All : c # d => Calling(c)' /\ Joining(c)' /\ Leaving(c)'
  BY <1>1, <1>o, OrderKeeps
<1>4. Calling(d)' /\ Joining(d)' /\ Leaving(d)'
  <2>1. /\ \A op : ~On(wire'[d], op)
        /\ Ordered(wire'[d])
    BY <1>1 DEF On, Ordered
  <2> QED
    BY <1>1, <2>1 DEF Calling, Joining, Leaving
<1> QED
  BY <1>2, <1>3, <1>4, InputsStay DEF Order

LEMMA OrderInv ==
  TypeOK /\ OwnCalls /\ MembersByList /\ Order /\ [Next]_vars => Order'
<1> SUFFICES ASSUME TypeOK, OwnCalls, MembersByList, Order, [Next]_vars
             PROVE  Order'
  OBVIOUS
<1>o. /\ \A r \in Slaves : Phase(r)
      /\ \A c \in All : Calling(c) /\ Joining(c) /\ Leaving(c)
  BY DEF Order
<1>1. ASSUME NEW s \in Slaves, NEW k \in senders[s], SenderEnds(s, k) PROVE Order'
  <2>1. \A r \in Slaves : senders'[r] \subseteq senders[r]
    BY <1>1 DEF SenderEnds, TypeOK
  <2>2. UNCHANGED <<inputs, pc, i, pool, sends, open, wire, member, counters>>
    BY <1>1 DEF SenderEnds
  <2>3. \A r \in Slaves : Phase(r)'
    BY <1>o, <2>1, <2>2, PhaseFewer
  <2>4. \A c \in All : Calling(c)' /\ Joining(c)' /\ Leaving(c)'
    BY <1>o, <2>2, OrderKeeps
  <2> QED
    BY <2>3, <2>4, InputsStay DEF Order
<1>2. CASE UNCHANGED vars
  <2>1. \A r \in Slaves : Phase(r)'
    BY <1>o, <1>2, PhaseFewer DEF vars
  <2>2. \A c \in All : Calling(c)' /\ Joining(c)' /\ Leaving(c)'
    BY <1>o, <1>2, OrderKeeps DEF vars
  <2> QED
    BY <2>1, <2>2, InputsStay DEF Order
<1> QED
  BY <1>1, <1>2, OrderDo, OrderCalls, OrderThrows, OrderSend, OrderHandle, OrderDrop
  DEF Next, TaskRuns, Ends

-----------------------------------------------------------------------------
(***************************************************************************)
(* The counters of failures.  Of the indices without a connection or an    *)
(* entry, those are counted that the loop has passed and whose task is no  *)
(* longer in the pool.                                                     *)
(***************************************************************************)
Missing(s) ==
  {x \in Begin(s)..End(s) - 1 : x - Begin(s) \notin Own(s) \/ x \notin Entries}

Thrown(M, P, op, k) == {x \in M : x < k /\ [op |-> op, ind |-> x] \notin P}

\* How far the loop has come that queues the tasks for an operation.
Reached(s, op) ==
  IF op = "JoinGroup"
    THEN CASE pc[s] = "begin" -> Begin(s) [] pc[s] = "join" -> i[s]
           [] OTHER -> End(s)
    ELSE CASE pc[s] = "leave" -> i[s] [] pc[s] \in {"left", "done"} -> End(s)
           [] OTHER -> Begin(s)

Failed(s, op) == IF op = "JoinGroup" THEN joinFail[s] ELSE leaveFail[s]

Counting(s) ==
  /\ \A t \in pool[s] : t.ind < Reached(s, t.op)
  /\ Share(s) > 0 =>
       \A op \in Ops :
         Failed(s, op) = Cardinality(Thrown(Missing(s), pool[s], op, Reached(s, op)))

\* The indices of a range are finitely many numbers.
LEMMA MissingFacts ==
  ASSUME TypeOK, NEW s \in Slaves
  PROVE  /\ IsFiniteSet(Missing(s)) /\ Missing(s) \subseteq Nat
         /\ \A x \in Missing(s) : Begin(s) <= x /\ x < End(s)
<1>1. Begin(s) \in Nat /\ End(s) \in Nat /\ End(s) - 1 \in Int
  BY RangeFacts, TotalsAssumption DEF TypeOK
<1>2. IsFiniteSet(Begin(s)..End(s) - 1)
  BY <1>1, FS_Interval
<1>3. Missing(s) \subseteq Begin(s)..End(s) - 1
  BY DEF Missing
<1> QED
  BY <1>1, <1>2, <1>3, FS_Subset

\* A task queued at the index the loop has reached has not thrown.
LEMMA ThrownQueue ==
  ASSUME NEW M \in SUBSET Nat, NEW P, NEW op, NEW k \in Nat
  PROVE  Thrown(M, P \cup {[op |-> op, ind |-> k]}, op, k + 1) =
           Thrown(M, P, op, k)
<1> DEFINE t == [op |-> op, ind |-> k]
<1>1. ASSUME NEW x \in M
      PROVE  x < k + 1 /\ [op |-> op, ind |-> x] \notin P \cup {t} <=>
             x < k /\ [op |-> op, ind |-> x] \notin P
  <2>1. [op |-> op, ind |-> x] = t <=> x = k
    <3>1. [op |-> op, ind |-> x].ind = x /\ t.ind = k
      OBVIOUS
    <3> QED
      BY <3>1
  <2> QED
    BY <2>1
<1> QED
  BY <1>1 DEF Thrown

\* A task that leaves the pool adds its index when it is a missing one.
LEMMA ThrownRun ==
  ASSUME NEW M \in SUBSET Nat, IsFiniteSet(M),
         NEW P \in SUBSET [op : Ops, ind : Nat], NEW t \in P, NEW op \in Ops,
         NEW k \in Nat, t.op = op => t.ind < k
  PROVE  LET old == Thrown(M, P, op, k)
             new == Thrown(M, P \ {t}, op, k)
         IN  Cardinality(new) = IF t.op = op /\ t.ind \in M
                                  THEN Cardinality(old) + 1 ELSE Cardinality(old)
<1> DEFINE old == Thrown(M, P, op, k)
           new == Thrown(M, P \ {t}, op, k)
<1>1. t = [op |-> t.op, ind |-> t.ind] /\ t.ind \in Nat
  OBVIOUS
<1>2. \A x \in M : [op |-> op, ind |-> x] = t <=> t.op = op /\ x = t.ind
  <2> TAKE x \in M
  <2>1. [op |-> op, ind |-> x].ind = x /\ [op |-> op, ind |-> x].op = op
    OBVIOUS
  <2> QED
    BY <1>1, <2>1
<1>3. CASE t.op = op /\ t.ind \in M
  <2>1. new = old \cup {t.ind}
    BY <1>2, <1>3 DEF Thrown
  <2>2. t.ind \notin old
    BY <1>1, <1>3 DEF Thrown
  <2>3. IsFiniteSet(old)
    BY FS_Subset DEF Thrown
  <2> HIDE DEF new, old
  <2>4. Cardinality(new) = Cardinality(old) + 1
    BY <2>1, <2>2, <2>3, FS_AddElement
  <2> QED
    BY <1>3, <2>4 DEF new, old
<1>4. CASE ~(t.op = op /\ t.ind \in M)
  <2>1. new = old
    BY <1>2, <1>4 DEF Thrown
  <2> HIDE DEF new, old
  <2> QED
    BY <1>4, <2>1 DEF new, old
<1> QED
  BY <1>3, <1>4

LEMMA CountingInit == Init => \A s \in Slaves : Counting(s)
<1> SUFFICES ASSUME Init, NEW s \in Slaves PROVE Counting(s)
  OBVIOUS
<1>1. TypeOK
  BY InitInv DEF IInv
<1>2. \A op : Reached(s, op) = Begin(s)
  BY DEF Init, Reached
<1>3. \A op : Thrown(Missing(s), pool[s], op, Reached(s, op)) = {}
  <2>1. \A x \in Missing(s) : ~(x < Begin(s))
    <3>1. Begin(s) \in Nat /\ Missing(s) \subseteq Nat
      BY <1>1, MissingFacts, RangeFacts, TotalsAssumption DEF TypeOK
    <3> QED
      BY <1>1, <3>1, MissingFacts
  <2> QED
    BY <1>2, <2>1 DEF Thrown
<1> QED
  BY <1>3, FS_EmptySet DEF Init, Counting, Failed

\* A slave whose pool, progress and counters stay counts as before.
LEMMA CountingKeeps ==
  ASSUME [Next]_vars, NEW s \in Slaves, Counting(s), pool'[s] = pool[s],
         joinFail'[s] = joinFail[s], leaveFail'[s] = leaveFail[s],
         Share(s) > 0 \/ pool[s] # {} =>
           \A op \in Ops : Reached(s, op)' = Reached(s, op),
         TypeOK
  PROVE  Counting(s)'
<1>1. /\ Share(s)' = Share(s) /\ Own(s)' = Own(s) /\ Begin(s)' = Begin(s)
      /\ End(s)' = End(s) /\ Entries' = Entries
  BY InputsStay
<1>2. Missing(s)' = Missing(s)
  BY <1>1 DEF Missing
<1>3. \A op \in Ops : Failed(s, op)' = Failed(s, op)
  BY DEF Failed
<1>4. \A t \in pool[s] : t.op \in Ops
  BY DEF TypeOK
<1>5. \A t \in pool'[s] : t.ind < Reached(s, t.op)'
  BY <1>4 DEF Counting
<1>6. ASSUME Share(s) > 0, NEW op \in Ops
      PROVE  Failed(s, op)' =
               Cardinality(Thrown(Missing(s)', pool'[s], op, Reached(s, op)'))
  BY <1>2, <1>3, <1>6 DEF Counting
<1> QED
  BY <1>1, <1>5, <1>6 DEF Counting, Thrown

\* The program of a slave: only Queue changes its pool and its progress.
LEMMA CountingDo ==
  ASSUME TypeOK, Order, [Next]_vars, NEW s \in Slaves, Counting(s), DoStep(s)
  PROVE  Counting(s)'
<1>0. /\ Begin(s) \in Nat /\ End(s) \in Nat /\ Begin(s)' = Begin(s)
      /\ End(s)' = End(s) /\ Phase(s) /\ i[s] \in Nat
  BY InputsStay, RangeFacts, TotalsAssumption DEF TypeOK, Order
<1>1. ASSUME NEW from, NEW op \in Ops, Queue(s, from, op),
             from = IF op = "JoinGroup" THEN "join" ELSE "leave"
      PROVE  Counting(s)'
  <2> DEFINE t == [op |-> op, ind |-> i[s]]
  <2>1. /\ pc[s] = from /\ pc' = pc /\ i'[s] = i[s] + 1
        /\ pool'[s] = pool[s] \cup {t}
        /\ joinFail' = joinFail /\ leaveFail' = leaveFail
    BY <1>1 DEF Queue, TypeOK, counters
  <2>2. /\ Reached(s, op) = i[s] /\ Reached(s, op)' = i[s] + 1
        /\ \A o \in Ops : /\ Reached(s, o) \in Nat
                          /\ o # op => Reached(s, o)' = Reached(s, o)
    BY <1>0, <1>1, <2>1 DEF Reached, Ops
  <2>3. \A r \in pool'[s] : r.ind < Reached(s, r.op)'
    <3>1. \A r \in pool[s] : r.op \in Ops /\ r.ind \in Nat /\ r.ind < Reached(s, r.op)
      BY DEF Counting, TypeOK
    <3>2. t.op = op /\ t.ind = i[s]
      OBVIOUS
    <3> HIDE DEF t
    <3>3. \A r \in pool[s] : r.ind < Reached(s, r.op)'
      BY <1>0, <2>2, <3>1
    <3>4. \A r : r = t => r.ind < Reached(s, r.op)'
      BY <1>0, <2>2, <3>2
    <3> QED
      BY <2>1, <3>3, <3>4
  <2>4. Missing(s)' = Missing(s) /\ Share(s)' = Share(s)
    BY InputsStay DEF Missing
  <2>5. ASSUME Share(s) > 0, NEW o \in Ops
        PROVE  Failed(s, o)' =
                 Cardinality(Thrown(Missing(s)', pool'[s], o, Reached(s, o)'))
    <3>1. Failed(s, o)' = Failed(s, o)
      BY <2>1 DEF Failed
    <3>2. Missing(s) \in SUBSET Nat
      BY MissingFacts
    <3>3. CASE o = op
      <4>1. Thrown(Missing(s), pool[s] \cup {t}, o, i[s] + 1) =
              Thrown(Missing(s), pool[s], o, i[s])
        BY <1>0, <3>2, <3>3, ThrownQueue
      <4> QED
        BY <2>1, <2>2, <2>4, <2>5, <3>1, <3>3, <4>1 DEF Counting
    <3>4. CASE o # op
      <4>1. \A x : [op |-> o, ind |-> x] # t
        <5>1. \A x : [op |-> o, ind |-> x].op = o /\ t.op = op
          OBVIOUS
        <5> QED
          BY <3>4, <5>1
      <4>2. Thrown(Missing(s), pool[s] \cup {t}, o, Reached(s, o)) =
              Thrown(Missing(s), pool[s], o, Reached(s, o))
        BY <4>1 DEF Thrown
      <4> HIDE DEF t
      <4> QED
        BY <2>1, <2>2, <2>4, <2>5, <3>1, <3>4, <4>2 DEF Counting
    <3> QED
      BY <3>3, <3>4
  <2> QED
    BY <2>3, <2>4, <2>5 DEF Counting, Thrown
<1>2. ASSUME pool' = pool, joinFail' = joinFail, leaveFail' = leaveFail,
             Share(s) > 0 \/ pool[s] # {} =>
               \A op \in Ops : Reached(s, op)' = Reached(s, op)
      PROVE  Counting(s)'
  BY <1>2, CountingKeeps
<1>3. CASE Enter(s)
  <2>1. /\ pc[s] = "begin" /\ pool' = pool /\ joinFail' = joinFail
        /\ leaveFail' = leaveFail /\ i'[s] = Begin(s)
        /\ pc'[s] = IF Share(s) = 0 THEN "done" ELSE "join"
    BY <1>3 DEF Enter, Goto, TypeOK, counters
  <2>2. pool[s] = {} /\ (Share(s) > 0 => pc'[s] = "join")
    BY <1>0, <2>1 DEF Phase
  <2> QED
    BY <1>0, <1>2, <2>1, <2>2 DEF Reached, Ops
<1>4. ASSUME NEW from, NEW to, LoopEnds(s, from, to),
             <<from, to>> \in {<<"join", "joined">>, <<"send", "sending">>,
                               <<"leave", "left">>}
      PROVE  Counting(s)'
  <2>1. /\ pc[s] = from /\ pc'[s] = to /\ pool' = pool /\ joinFail' = joinFail
        /\ leaveFail' = leaveFail /\ i[s] = End(s)
    BY <1>4 DEF LoopEnds, Goto, TypeOK, counters
  <2> QED
    BY <1>0, <1>2, <1>4, <2>1 DEF Reached, Ops
<1>5. ASSUME NEW from, NEW to, Wait(s, from, to),
             <<from, to>> \in {<<"joined", "send">>, <<"left", "done">>}
      PROVE  Counting(s)'
  <2>1. /\ pc[s] = from /\ pc'[s] = to /\ pool' = pool /\ joinFail' = joinFail
        /\ leaveFail' = leaveFail
    BY <1>5 DEF Wait, Goto, TypeOK, counters
  <2> QED
    BY <1>0, <1>2, <1>5, <2>1 DEF Reached, Ops
<1>6. CASE StartSendMsg(s)
  <2>1. /\ pc[s] = "send" /\ pc'[s] \in {"send", "threw"} /\ pool' = pool
        /\ joinFail' = joinFail /\ leaveFail' = leaveFail
    BY <1>6 DEF StartSendMsg, Goto, TypeOK, counters
  <2> QED
    BY <1>0, <1>2, <2>1 DEF Reached, Ops
<1>7. CASE SendingEnds(s)
  <2>1. /\ pc[s] = "sending" /\ pc'[s] = "leave" /\ pool' = pool /\ i' = i
        /\ joinFail' = joinFail /\ leaveFail' = leaveFail
    BY <1>7 DEF SendingEnds, Goto, TypeOK, counters
  <2>2. i[s] = Begin(s)
    BY <1>0, <2>1 DEF Phase
  <2> QED
    BY <1>0, <1>2, <2>1, <2>2 DEF Reached, Ops
<1>8. "JoinGroup" \in Ops /\ "LeaveGroup" \in Ops
  BY DEF Ops
<1>9. CASE Queue(s, "join", "JoinGroup")
  BY <1>1, <1>8, <1>9
<1>10. CASE Queue(s, "leave", "LeaveGroup")
  BY <1>1, <1>8, <1>10
<1> QED
  BY <1>3, <1>4, <1>5, <1>6, <1>7, <1>9, <1>10 DEF DoStep

\* A task leaves the pool; those of missing indices, and no others, throw.
LEMMA CountingRun ==
  ASSUME TypeOK, Order, [Next]_vars, NEW s \in Slaves, Counting(s),
         NEW t \in pool[s], TaskCalls(s, t) \/ TaskThrows(s, t)
  PROVE  Counting(s)'
<1>0. /\ Begin(s) \in Nat /\ End(s) \in Nat /\ Begin(s)' = Begin(s)
      /\ End(s)' = End(s) /\ Phase(s) /\ i[s] \in Nat
      /\ joinFail[s] \in Nat /\ leaveFail[s] \in Nat
  BY InputsStay, RangeFacts, TotalsAssumption DEF TypeOK, Order
<1>1. /\ pool[s] \in SUBSET [op : Ops, ind : Nat]
      /\ t.op \in Ops /\ t.ind \in Nat /\ Begin(s) <= t.ind /\ t.ind < End(s)
  BY <1>0 DEF TypeOK, Phase
<1>2. pool'[s] = pool[s] \ {t} /\ pc' = pc /\ i' = i
  BY DEF TaskCalls, TaskThrows, TypeOK
<1>3. t.ind \in Missing(s) <=> ~Has(s, t)
  BY <1>0, <1>1 DEF Missing, Has, Captured, EntryOf
<1>4. \A o \in Ops :
        Failed(s, o)' = IF o = t.op /\ ~Has(s, t) THEN Failed(s, o) + 1 ELSE Failed(s, o)
  <2>1. CASE TaskCalls(s, t)
    BY <2>1 DEF TaskCalls, Failed, counters
  <2>2. CASE TaskThrows(s, t)
    <3>1. /\ ~Has(s, t)
          /\ joinFail'[s] = IF t.op = "JoinGroup" THEN joinFail[s] + 1 ELSE joinFail[s]
          /\ leaveFail'[s] = IF t.op = "JoinGroup" THEN leaveFail[s] ELSE leaveFail[s] + 1
      BY <2>2 DEF TaskThrows, TypeOK
    <3> QED
      BY <1>1, <3>1 DEF Failed, Ops
  <2> QED
    BY <2>1, <2>2
<1>5. \A o \in Ops : Reached(s, o)' = Reached(s, o) /\ Reached(s, o) \in Nat
  BY <1>0, <1>2 DEF Reached
<1>6. Missing(s)' = Missing(s) /\ Share(s)' = Share(s)
  BY InputsStay DEF Missing
<1>7. Missing(s) \in SUBSET Nat /\ IsFiniteSet(Missing(s))
  BY MissingFacts
<1>8. ASSUME Share(s) > 0, NEW o \in Ops
      PROVE  Failed(s, o)' =
               Cardinality(Thrown(Missing(s)', pool'[s], o, Reached(s, o)'))
  <2>1. Failed(s, o) = Cardinality(Thrown(Missing(s), pool[s], o, Reached(s, o)))
    BY <1>8 DEF Counting
  <2>2. t.op = o => t.ind < Reached(s, o)
    BY DEF Counting
  <2>3. Cardinality(Thrown(Missing(s), pool[s] \ {t}, o, Reached(s, o))) =
          IF t.op = o /\ t.ind \in Missing(s) THEN Failed(s, o) + 1 ELSE Failed(s, o)
    BY <1>1, <1>5, <1>7, <2>1, <2>2, ThrownRun
  <2> QED
    BY <1>2, <1>3, <1>4, <1>5, <1>6, <2>3
<1>9. \A r \in pool'[s] : r.ind < Reached(s, r.op)'
  BY <1>1, <1>2, <1>5 DEF Counting
<1> QED
  BY <1>6, <1>8, <1>9 DEF Counting, Thrown

LEMMA CountingNext ==
  ASSUME TypeOK, Order, \A s \in Slaves : Counting(s), [Next]_vars
  PROVE  \A s \in Slaves : Counting(s)'
<1> TAKE s \in Slaves
<1>1. CASE DoStep(s) \/ \E t \in pool[s] : TaskCalls(s, t) \/ TaskThrows(s, t)
  BY <1>1, CountingDo, CountingRun
<1>2. ASSUME NEW r \in Slaves, r # s, DoStep(r) \/ TaskRuns(r)
      PROVE  UNCHANGED <<pc[s], i[s], pool[s], joinFail[s], leaveFail[s]>>
  <2>1. CASE DoStep(r)
    BY <1>2, <2>1 DEF DoStep, Enter, Queue, LoopEnds, Wait, StartSendMsg, SendingEnds,
       Goto, TypeOK, counters
  <2>2. CASE TaskRuns(r)
    <3>1. PICK t \in pool[r] : TaskCalls(r, t) \/ TaskThrows(r, t)
      BY <2>2 DEF TaskRuns
    <3> QED
      BY <1>2, <3>1 DEF TaskCalls, TaskThrows, TypeOK, counters
  <2> QED
    BY <1>2, <2>1, <2>2
<1>3. CASE \/ UNCHANGED <<pc, i, pool, joinFail, leaveFail>>
           \/ UNCHANGED <<pc[s], i[s], pool[s], joinFail[s], leaveFail[s]>>
  <2>1. UNCHANGED <<pc[s], i[s], pool[s], joinFail[s], leaveFail[s]>>
    BY <1>3
  <2>2. \A op \in Ops : Reached(s, op)' = Reached(s, op)
    BY <2>1, InputsStay DEF Reached
  <2> QED
    BY <2>1, <2>2, CountingKeeps
<1>4. ASSUME NEW r \in Slaves,
             (\E k \in senders[r] : SendGroup(r, k)) \/ Ends(r)
      PROVE  UNCHANGED <<pc, i, pool, joinFail, leaveFail>>
  BY <1>4 DEF SendGroup, Ends, SenderEnds, counters
<1>5. ASSUME NEW c \in All, Handle(c) \/ Drop(c)
      PROVE  UNCHANGED <<pc, i, pool, joinFail, leaveFail>>
  BY <1>5 DEF Handle, Drop, counters
<1>6. CASE UNCHANGED vars
  BY <1>3, <1>6 DEF vars, counters
<1>7. ASSUME NEW r \in Slaves, TaskRuns(r), r = s PROVE Counting(s)'
  BY <1>1, <1>7 DEF TaskRuns
<1> QED
  BY <1>1, <1>2, <1>3, <1>4, <1>5, <1>6, <1>7 DEF Next

-----------------------------------------------------------------------------
LEMMA Invariance == Spec => [](IInv /\ Order)
<1>1. Init => IInv /\ Order
  BY InitInv, OrderInit
<1>2. IInv /\ Order /\ [Next]_vars => (IInv /\ Order)'
  BY TypeInv, OwnInv, SizeInv, OrderInv DEF IInv
<1> QED
  BY <1>1, <1>2, PTL DEF Spec

(***************************************************************************)
(* Every variable keeps its type; in particular no loop sends for a        *)
(* connection that the slave does not have.                                *)
(***************************************************************************)
THEOREM TypeCorrect == Spec => []TypeOK
<1>1. IInv => TypeOK
  BY DEF IInv
<1> QED
  BY <1>1, Invariance, PTL

(***************************************************************************)
(* A connection is only ever in the group of its own entry of the list:    *)
(* JoinGroup and LeaveGroup of GroupOp, run by the pool in any order.      *)
(***************************************************************************)
THEOREM OnlyOwnGroup == Spec => []MembersByList
<1>1. IInv => MembersByList
  BY DEF IInv
<1> QED
  BY <1>1, Invariance, PTL

(***************************************************************************)
(* StartSendMsg throws on the slaves that have connections, but fewer than *)
(* their range, and on no others.                                          *)
(***************************************************************************)
THEOREM ShortThrow == Spec => []ShortOnesThrow
<1>1. IInv => ShortOnesThrow
  BY DEF IInv
<1> QED
  BY <1>1, Invariance, PTL

(***************************************************************************)
(* GroupOp leaves no connection in a group on a slave it came to its end   *)
(* on, once the tasks have run and the hub has handled what they sent.     *)
(***************************************************************************)
THEOREM LeavesClean == Spec => []CleanLeave
<1>1. ASSUME IInv, Order PROVE CleanLeave
  <2> SUFFICES ASSUME Settled, NEW c \in All, pc[c[1]] = "done", member[c] # {}
               PROVE  FALSE
    BY DEF CleanLeave
  <2>1. c[1] \in Slaves
    BY <1>1, ConnectionFacts DEF IInv
  <2>2. pool[c[1]] = {} /\ wire[c] = <<>>
    BY <2>1 DEF Settled
  <2>3. ~On(wire[c], "LeaveGroup")
    BY <2>2 DEF On
  <2> QED
    BY <1>1, <2>2, <2>3 DEF Order, Leaving
<1> QED
  BY <1>1, Invariance, PTL

(***************************************************************************)
(* On the slave whose range begins at 0, SendGroup reaches its own sender: *)
(* the hub handles it after the JoinGroup and before the LeaveGroup.       *)
(***************************************************************************)
THEOREM ReachesItself == Spec => []SelfDelivery
<1>1. ASSUME IInv, Order PROVE SelfDelivery
  <2> SUFFICES ASSUME NEW c \in All, c[1] = 0, wire[c] # <<>>,
                      Head(wire[c]).op = "SendGroup"
               PROVE  Head(wire[c]).group \in member[c]
    BY DEF SelfDelivery
  <2>1. TypeOK /\ c[1] \in Slaves /\ c[2] \in Nat
    BY <1>1, ConnectionFacts DEF IInv
  <2>2. EntryOfConnection(c) = c[2]
    <3>1. connections \in Nat /\ groupConnection \in Nat
      BY <2>1, TotalsAssumption DEF TypeOK
    <3>2. groupConnection \div N \in Nat /\ groupConnection % N \in Nat
      BY <3>1, NAssumption, Z3
    <3>3. 0 * (groupConnection \div N) = 0
      BY <3>2
    <3>4. Begin(0) = 0
      BY <3>2, <3>3 DEF Begin
    <3> QED
      BY <2>1, <3>4 DEF EntryOfConnection
  <2>3. wire[c] \in Seq(Calls)
    BY <2>1 DEF TypeOK
  <2>4. 1 \in 1..Len(wire[c]) /\ Head(wire[c]) = wire[c][1]
    BY <2>3, TailFacts
  <2>5. Phase(c[1]) /\ Calling(c) /\ Joining(c)
    BY <1>1, <2>1 DEF Order
  <2>6. /\ InRange(c) /\ c[2] \in Entries
        /\ Head(wire[c]).group = list[c[2]]
        /\ open[c]
    BY <2>4, <2>5 DEF Calling
  <2>7. On(wire[c], "SendGroup")
    BY <2>4 DEF On
  <2>8. pc[c[1]] \in {"send", "sending", "threw", "leave", "left", "done"}
    BY <2>1, <2>5, <2>7 DEF Calling, TypeOK, Points
  <2>9. Joins(c)
    BY <2>2, <2>5, <2>6, <2>7, <2>8 DEF Joining
  <2>10. JoinTask(c) \notin pool[c[1]]
    BY <2>5, <2>8 DEF Phase, JoinTask
  <2>11. ~On(wire[c], "JoinGroup")
    BY <2>3, <2>5, OrderedTail DEF Calling
  <2> QED
    BY <2>2, <2>6, <2>9, <2>10, <2>11 DEF Joins
<1> QED
  BY <1>1, Invariance, PTL

(***************************************************************************)
(* When all is over, the counters of failed joins and leaves tell for how  *)
(* many indices of the range the slave had no connection or the list no    *)
(* group, in whichever order the tasks have run and whoever has dropped.   *)
(***************************************************************************)
THEOREM FailuresMatch == Spec => []FailuresCounted
<1>1. Init => \A s \in Slaves : Counting(s)
  BY CountingInit
<1>2. (IInv /\ Order) /\ (\A s \in Slaves : Counting(s)) /\ [Next]_vars =>
        (\A s \in Slaves : Counting(s))'
  BY CountingNext DEF IInv
<1>3. ASSUME IInv /\ Order, \A s \in Slaves : Counting(s) PROVE FailuresCounted
  <2> SUFFICES ASSUME Settled, NEW s \in Slaves, Share(s) > 0
               PROVE  /\ joinFail[s] = Cardinality(Missing(s))
                      /\ pc[s] = "done" => leaveFail[s] = Cardinality(Missing(s))
    BY DEF FailuresCounted, Missing
  <2>1. TypeOK /\ pool[s] = {} /\ pc[s] \in {"done", "threw"}
    BY <1>3 DEF Settled, Over, IInv
  <2>2. /\ Reached(s, "JoinGroup") = End(s)
        /\ pc[s] = "done" => Reached(s, "LeaveGroup") = End(s)
    BY <2>1 DEF Reached
  <2>3. \A op : Thrown(Missing(s), pool[s], op, End(s)) = Missing(s)
    BY <2>1, MissingFacts DEF Thrown
  <2>4. "JoinGroup" \in Ops /\ "LeaveGroup" \in Ops
    BY DEF Ops
  <2>5. \A op \in Ops :
          Failed(s, op) = Cardinality(Thrown(Missing(s), pool[s], op, Reached(s, op)))
    BY <1>3 DEF Counting
  <2> QED
    BY <2>2, <2>3, <2>4, <2>5 DEF Failed
<1> QED
  BY <1>1, <1>2, <1>3, Invariance, PTL DEF Spec
=============================================================================
