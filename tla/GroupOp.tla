------------------------------- MODULE GroupOp -------------------------------
(***************************************************************************)
(* The group scenario on all slaves: thread-pool tasks send JoinGroup, one *)
(* loop per connection sends to a group, tasks send LeaveGroup, and the    *)
(* hub keeps the members.  A slave finds the group of a connection in the  *)
(* shuffled list, at an index of its range [Begin, End).  The slaves are   *)
(* not synchronised inside the step.  The calls of one connection reach    *)
(* the hub in the order they were made; a connection may drop.             *)
(***************************************************************************)
EXTENDS BenchStat, Sequences, FiniteSets

CONSTANTS
  N,                 (* number of slaves                                    *)
  GroupNum,          (* --groupNum                                          *)
  ConnectionTotals,  (* the values of --connections considered              *)
  GroupTotals,       (* the values of --groupConnection considered          *)
  MaxSends,          (* bound: messages sent by a connection                *)
  MaxDrops           (* bound: connections that drop                        *)

ASSUME NAssumption == N \in Nat \ {0}
ASSUME GroupAssumption == GroupNum \in Nat
ASSUME TotalsAssumption == ConnectionTotals \subseteq Nat /\ GroupTotals \subseteq Nat
ASSUME BoundsAssumption == MaxSends \in Nat /\ MaxDrops \in Nat

VARIABLES
  connections,      (* --connections                                        *)
  groupConnection,  (* --groupConnection                                    *)
  list,             (* the groups of _tk.ConnectionConfigList, by index     *)
  pc,               (* program point of GroupOp.Do, per slave               *)
  i,                (* the loop variable of the present loop                *)
  pool,             (* per slave: the queued tasks, with what they capture  *)
  senders,          (* per slave: the connections with a loop that sends    *)
  sends,            (* messages sent so far, by connection                  *)
  open,             (* the connection works, by connection                  *)
  wire,             (* calls on their way to the hub, by connection         *)
  member,           (* the groups a connection is in, at the hub            *)
  joinFail, leaveFail, notSent   (* counters, per slave                     *)

inputs   == <<connections, groupConnection, list>>
counters == <<joinFail, leaveFail, notSent>>
vars == <<inputs, pc, i, pool, senders, sends, open, wire, member, counters>>

Slaves == 0..N - 1
Groups == 0..GroupNum - 1
Points == {"begin", "join", "joined", "send", "sending", "leave", "left",
           "done", "threw"}

-----------------------------------------------------------------------------
(* The range of a slave, the connections it has and the entries of the list *)

Share(s) == SplitNumber(connections, s, N)

\* The sum of the shares before s, as the tasks of the master compute it.
Begin(s) ==
  LET rest == groupConnection % N
  IN  s * (groupConnection \div N) + IF s < rest THEN s ELSE rest

End(s) == Begin(s) + SplitNumber(groupConnection, s, N)

\* No group, no entry.
Entries == IF GroupNum = 0 THEN {} ELSE 0..groupConnection - 1

\* The connections of a slave, numbered from 0, and all of them.
Own(s) == 0..Share(s) - 1
All == UNION {{s} \X Own(s) : s \in Slaves}

\* What Build may return: the members of the groups, in any order.
Lists(total) ==
  {l \in [IF GroupNum = 0 THEN {} ELSE 0..total - 1 -> Groups] :
     \A g \in Groups :
       Cardinality({x \in DOMAIN l : l[x] = g}) = SplitNumber(total, g, GroupNum)}

Init ==
  /\ connections \in ConnectionTotals
  /\ groupConnection \in GroupTotals
  /\ list \in Lists(groupConnection)
  /\ pc = [s \in Slaves |-> "begin"]
  /\ i = [s \in Slaves |-> 0]
  /\ pool = [s \in Slaves |-> {}]
  /\ senders = [s \in Slaves |-> {}]
  /\ sends = [c \in All |-> 0]
  /\ open = [c \in All |-> TRUE]
  /\ wire = [c \in All |-> <<>>]
  /\ member = [c \in All |-> {}]
  /\ joinFail = [s \in Slaves |-> 0]
  /\ leaveFail = [s \in Slaves |-> 0]
  /\ notSent = [s \in Slaves |-> 0]

Goto(s, from, to) ==
  /\ pc[s] = from
  /\ pc' = [pc EXCEPT ![s] = to]

Call(op, g) == [op |-> op, group |-> g]

-----------------------------------------------------------------------------
(* GroupOp.Do, after Setup                                                  *)

\* Without connections the operation only waits.
Enter(s) ==
  /\ Goto(s, "begin", IF Share(s) = 0 THEN "done" ELSE "join")
  /\ i' = [i EXCEPT ![s] = Begin(s)]
  /\ UNCHANGED <<inputs, pool, senders, sends, open, wire, member, counters>>

\* A round of the loops of JoinGroup and LeaveGroup: a task of its own for
\* every index, which has captured a copy of the loop variable.
Queue(s, from, op) ==
  /\ pc[s] = from
  /\ i[s] < End(s)
  /\ pool' = [pool EXCEPT ![s] = @ \cup {[op |-> op, ind |-> i[s]]}]
  /\ i' = [i EXCEPT ![s] = @ + 1]
  /\ UNCHANGED <<inputs, pc, senders, sends, open, wire, member, counters>>

LoopEnds(s, from, to) ==
  /\ i[s] = End(s)
  /\ Goto(s, from, to)
  /\ i' = [i EXCEPT ![s] = Begin(s)]
  /\ UNCHANGED <<inputs, pool, senders, sends, open, wire, member, counters>>

\* Mutant of Waited: nothing is waited for.
WaitedNot(s) == TRUE

\* The five seconds after a loop are taken to be enough for the thread pool to
\* run the tasks, but not for the hub to have handled the calls.
Waited(s) == pool[s] = {}

Wait(s, from, to) ==
  /\ Waited(s)
  /\ Goto(s, from, to)
  /\ UNCHANGED <<inputs, i, pool, senders, sends, open, wire, member, counters>>

\* Mutant of StartSendMsg: a loop for those indices that have a connection.
StartWhatThereIs(s) ==
  /\ i[s] < End(s)
  /\ pc[s] = "send"
  /\ senders' = [senders EXCEPT ![s] = @ \cup ({i[s] - Begin(s)} \cap Own(s))]
  /\ i' = [i EXCEPT ![s] = @ + 1]
  /\ UNCHANGED <<inputs, pc, pool, sends, open, wire, member, counters>>

\* StartSendMsg: an index without a connection throws, and leaves the loops
\* started before it to themselves.
StartSendMsg(s) ==
  /\ i[s] < End(s)
  /\ IF i[s] - Begin(s) \in Own(s)
       THEN /\ pc[s] = "send"
            /\ senders' = [senders EXCEPT ![s] = @ \cup {i[s] - Begin(s)}]
            /\ i' = [i EXCEPT ![s] = @ + 1]
            /\ UNCHANGED pc
       ELSE /\ Goto(s, "send", "threw")
            /\ UNCHANGED <<senders, i>>
  /\ UNCHANGED <<inputs, pool, sends, open, wire, member, counters>>

\* Task.WhenAll over the loops.
SendingEnds(s) ==
  /\ senders[s] = {}
  /\ Goto(s, "sending", "leave")
  /\ UNCHANGED <<inputs, i, pool, senders, sends, open, wire, member, counters>>

DoStep(s) ==
  \/ Enter(s)
  \/ Queue(s, "join", "JoinGroup")
  \/ LoopEnds(s, "join", "joined")
  \/ Wait(s, "joined", "send")
  \/ StartSendMsg(s)
  \/ LoopEnds(s, "send", "sending")
  \/ SendingEnds(s)
  \/ Queue(s, "leave", "LeaveGroup")
  \/ LoopEnds(s, "leave", "left")
  \/ Wait(s, "left", "done")

-----------------------------------------------------------------------------
(* The tasks in the thread pool                                             *)

\* Mutant of Captured: the task reads the loop variable when it runs.
LoopVariable(s, t) == i[s]

Captured(s, t) == t.ind

\* Mutants of EntryOf: the index that sending uses, in both and in the second.
EntryAsSent(s, t) == Captured(s, t) - Begin(s)
EntryLeftAsSent(s, t) ==
  IF t.op = "JoinGroup" THEN Captured(s, t) ELSE Captured(s, t) - Begin(s)

\* The entry of the list that names the group to join or leave.
EntryOf(s, t) == Captured(s, t)

Has(s, t) == Captured(s, t) - Begin(s) \in Own(s) /\ EntryOf(s, t) \in Entries

\* SendAsync is not awaited: on a connection that has dropped the call is lost
\* and nobody is told.
TaskCalls(s, t) ==
  LET c == <<s, Captured(s, t) - Begin(s)>>
  IN  /\ t \in pool[s]
      /\ Has(s, t)
      /\ pool' = [pool EXCEPT ![s] = @ \ {t}]
      /\ wire' = IF open[c]
                   THEN [wire EXCEPT ![c] = Append(@, Call(t.op, list[EntryOf(s, t)]))]
                   ELSE wire
      /\ UNCHANGED <<inputs, pc, i, senders, sends, open, member, counters>>

\* A missing connection or entry throws before there is a call.
TaskThrows(s, t) ==
  /\ t \in pool[s]
  /\ ~Has(s, t)
  /\ pool' = [pool EXCEPT ![s] = @ \ {t}]
  /\ IF t.op = "JoinGroup"
       THEN /\ joinFail' = [joinFail EXCEPT ![s] = @ + 1]
            /\ UNCHANGED leaveFail
       ELSE /\ leaveFail' = [leaveFail EXCEPT ![s] = @ + 1]
            /\ UNCHANGED joinFail
  /\ UNCHANGED <<inputs, pc, i, senders, sends, open, wire, member, notSent>>

-----------------------------------------------------------------------------
(* The loops that send                                                      *)

\* The group is that of the k-th entry of the list, not of the range.
SendGroup(s, k) ==
  LET c == <<s, k>>
  IN  /\ k \in senders[s]
      /\ sends[c] < MaxSends
      /\ sends' = [sends EXCEPT ![c] = @ + 1]
      /\ IF k \in Entries /\ open[c]
           THEN /\ wire' = [wire EXCEPT ![c] = Append(@, Call("SendGroup", list[k]))]
                /\ UNCHANGED notSent
           ELSE /\ notSent' = [notSent EXCEPT ![s] = @ + 1]
                /\ UNCHANGED wire
      /\ UNCHANGED <<inputs, pc, i, pool, senders, open, member, joinFail,
                     leaveFail>>

\* Mutant of SenderEnds: the time starts anew in every round.
SenderGoesOn(s, k) ==
  /\ k \in senders[s]
  /\ UNCHANGED vars

\* The duration is over.
SenderEnds(s, k) ==
  /\ k \in senders[s]
  /\ senders' = [senders EXCEPT ![s] = @ \ {k}]
  /\ UNCHANGED <<inputs, pc, i, pool, sends, open, wire, member, counters>>

-----------------------------------------------------------------------------
(* The hub and the network                                                  *)

Handle(c) ==
  /\ wire[c] # <<>>
  /\ wire' = [wire EXCEPT ![c] = Tail(@)]
  /\ LET call == Head(wire[c])
     IN  member' = [member EXCEPT ![c] =
                      CASE call.op = "JoinGroup"  -> @ \cup {call.group}
                        [] call.op = "LeaveGroup" -> @ \ {call.group}
                        [] call.op = "SendGroup"  -> @]
  /\ UNCHANGED <<inputs, pc, i, pool, senders, sends, open, counters>>

\* The hub forgets the groups of a connection that is gone.
Drop(c) ==
  /\ Cardinality({d \in All : ~open[d]}) < MaxDrops
  /\ open[c]
  /\ open' = [open EXCEPT ![c] = FALSE]
  /\ wire' = [wire EXCEPT ![c] = <<>>]
  /\ member' = [member EXCEPT ![c] = {}]
  /\ UNCHANGED <<inputs, pc, i, pool, senders, sends, counters>>

Over(s) == pc[s] \in {"done", "threw"}

\* The operation is over on every slave and nothing is left to happen.
Settled ==
  /\ \A s \in Slaves : Over(s) /\ pool[s] = {} /\ senders[s] = {}
  /\ \A c \in All : wire[c] = <<>>

TaskRuns(s) == \E t \in pool[s] : TaskCalls(s, t) \/ TaskThrows(s, t)
Ends(s) == \E k \in senders[s] : SenderEnds(s, k)

Next ==
  \/ \E s \in Slaves :
       \/ DoStep(s)
       \/ TaskRuns(s)
       \/ \E k \in senders[s] : SendGroup(s, k)
       \/ Ends(s)
  \/ \E c \in All : Handle(c) \/ Drop(c)
  \/ Settled /\ UNCHANGED vars

Spec == Init /\ [][Next]_vars

(***************************************************************************)
(* Something goes on while a thread can run, the duration of sending has   *)
(* not passed or the hub has a call; nothing makes anybody send or drop.   *)
(***************************************************************************)
Fairness ==
  WF_vars(\/ \E s \in Slaves : DoStep(s) \/ TaskRuns(s) \/ Ends(s)
          \/ \E c \in All : Handle(c))

FairSpec == Spec /\ Fairness

-----------------------------------------------------------------------------
(* Properties                                                               *)

Ops == {"JoinGroup", "LeaveGroup"}
Calls == [op : Ops \cup {"SendGroup"}, group : Groups]

TypeOK ==
  /\ connections \in ConnectionTotals /\ groupConnection \in GroupTotals
  /\ list \in [Entries -> Groups]
  /\ pc \in [Slaves -> Points]
  /\ i \in [Slaves -> Nat]
  /\ pool \in [Slaves -> SUBSET [op : Ops, ind : Nat]]
  /\ senders \in [Slaves -> SUBSET Nat]
  /\ \A s \in Slaves : senders[s] \subseteq Own(s)
  /\ sends \in [All -> 0..MaxSends]
  /\ open \in [All -> BOOLEAN]
  /\ wire \in [All -> Seq(Calls)]
  /\ member \in [All -> SUBSET Groups]
  /\ joinFail \in [Slaves -> Nat] /\ leaveFail \in [Slaves -> Nat]
  /\ notSent \in [Slaves -> Nat]

\* The entry of the list that belongs to a connection.
EntryOfConnection(c) == Begin(c[1]) + c[2]

(***************************************************************************)
(* A connection is only ever in the group of its own entry of the list,    *)
(* whichever tasks run in whichever order, so that every group has no more *)
(* members than the list gives it.                                         *)
(***************************************************************************)
MembersByList ==
  \A c \in All : \A g \in member[c] :
    EntryOfConnection(c) \in Entries /\ g = list[EntryOfConnection(c)]

(***************************************************************************)
(* When all is over on a slave that came to its end, none of its           *)
(* connections has been left in a group: what was joined was left, in      *)
(* that order.                                                             *)
(***************************************************************************)
CleanLeave ==
  Settled => \A c \in All : pc[c[1]] = "done" => member[c] = {}

(***************************************************************************)
(* On the slave whose range begins at 0 a connection is a member of the    *)
(* group it sends to, from the moment the hub handles its first message to *)
(* that of the last: joining never comes too late, nor leaving too early.  *)
(* (On the others the message goes to the group of another connection.)    *)
(***************************************************************************)
SelfDelivery ==
  \A c \in All :
    c[1] = 0 /\ wire[c] # <<>> /\ Head(wire[c]).op = "SendGroup" =>
      Head(wire[c]).group \in member[c]

(***************************************************************************)
(* A slave that has connections, but fewer than its range, does not send   *)
(* from fewer silently: the operation throws there, and only there.        *)
(***************************************************************************)
ShortOnesThrow ==
  \A s \in Slaves :
    /\ pc[s] = "threw" => 0 < Share(s) /\ Share(s) < End(s) - Begin(s)
    /\ pc[s] \in {"sending", "leave", "left", "done"} =>
         Share(s) = 0 \/ End(s) - Begin(s) <= Share(s)

(***************************************************************************)
(* The counters of failed joins and leaves tell exactly for which indices  *)
(* there was no connection or no group; drops do not show in them.         *)
(***************************************************************************)
FailuresCounted ==
  Settled =>
    \A s \in Slaves :
      LET missing == {x \in Begin(s)..End(s) - 1 :
                        x - Begin(s) \notin Own(s) \/ x \notin Entries}
      IN  /\ Share(s) > 0 => joinFail[s] = Cardinality(missing)
          /\ pc[s] = "done" /\ Share(s) > 0 => leaveFail[s] = Cardinality(missing)

(***************************************************************************)
(* The operation ends on every slave, with or without an exception, and    *)
(* all that it has started comes to rest.                                  *)
(***************************************************************************)
ComesToRest == <>[]Settled
=============================================================================
