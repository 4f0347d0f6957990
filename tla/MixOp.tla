-------------------------------- MODULE MixOp ---------------------------------
(***************************************************************************)
(* The mixed scenario on all slaves: the master deals the connections and  *)
(* the numbers of echo, broadcast and group connections to the slaves one  *)
(* by one; a slave gives its connections kinds by index, and every         *)
(* connection listens for and sends what belongs to its kind.  A slave is  *)
(* not synchronised with the others, and what is sent may arrive late, in  *)
(* any order, or never.                                                    *)
(***************************************************************************)
EXTENDS BenchStat

CONSTANTS
  N,          (* number of slaves                                           *)
  MaxKind,    (* bound: connections asked for of one kind                   *)
  Surplus,    (* --connections minus the sum of the kinds: the job files    *)
              (* have none in the first round                               *)
  MaxSends,   (* bound: messages sent by a connection                       *)
  MaxFails    (* bound: failures to send counted by a slave                 *)

ASSUME NAssumption == N \in Nat \ {0}
ASSUME SizesAssumption == MaxKind \in Nat /\ Surplus \subseteq Nat /\ MaxSends \in Nat
ASSUME FailsAssumption == MaxFails \in Nat

VARIABLES
  echo, broadcast, group,  (* --mixEchoConnection and so on                 *)
  connections,             (* --connections                                 *)
  pc,                      (* program point of MixOp.Do, per slave          *)
  listening,               (* slaves whose callbacks are registered         *)
  member,                  (* the connections in MixGroupName, at the hub   *)
  senders,                 (* per slave: the connections with a loop        *)
  calling,                 (* connections whose loop awaits SendAsync       *)
  sends,                   (* per connection: calls that left the slave     *)
  transit,                 (* messages on their way: sender, number, target *)
  got,                     (* per connection: messages its callback counted *)
  lists,                   (* per slave and kind: the _sentMessages lists   *)
  sent, notSent, received  (* counters, per slave                           *)

inputs   == <<echo, broadcast, group, connections>>
counters == <<sent, notSent, received>>
vars == <<inputs, pc, listening, member, senders, calling, sends, transit, got, lists,
          counters>>

Slaves == 0..N - 1
Kinds  == {"echo", "broadcast", "group"}
Points == {"begin", "reset", "ready", "join", "send", "save", "complete"}

-----------------------------------------------------------------------------
(* The shares of a slave and the kinds of its connections                   *)

Asked(kind) == CASE kind = "echo"      -> echo
                 [] kind = "broadcast" -> broadcast
                 [] kind = "group"     -> group

Share(s) == SplitNumber(connections, s, N)

\* Mutant of Quota: every slave is told the whole number.
QuotaUndealt(s, kind) == Asked(kind)

Quota(s, kind) == SplitNumber(Asked(kind), s, N)

Own(s) == 0..Share(s) - 1
All == UNION {{s} \X Own(s) : s \in Slaves}

GetRange(s, name) ==
  LET e == Quota(s, "echo")  b == Quota(s, "broadcast")  g == Quota(s, "group")
  IN  CASE name = "echo"      -> <<0, e>>
        [] name = "broadcast" -> <<e, e + b>>
        [] name = "group"     -> <<e + b, e + b + g>>
        [] OTHER              -> <<-1, -1>>

IsInRangeOf(s, name, k) == GetRange(s, name)[1] <= k /\ k < GetRange(s, name)[2]

\* The last of the three tests that holds decides.
KindOf(s, k) ==
  IF IsInRangeOf(s, "group", k) THEN "group"
  ELSE IF IsInRangeOf(s, "broadcast", k) THEN "broadcast"
  ELSE IF IsInRangeOf(s, "echo", k) THEN "echo"
  ELSE ""

Kind(c) == KindOf(c[1], c[2])

Init ==
  /\ echo \in 0..MaxKind /\ broadcast \in 0..MaxKind /\ group \in 0..MaxKind
  /\ \E more \in Surplus : connections = echo + broadcast + group + more
  /\ pc = [s \in Slaves |-> "begin"]
  /\ listening = {}
  /\ member = {}
  /\ senders = [s \in Slaves |-> {}]
  /\ calling = {}
  /\ sends = [c \in All |-> 0]
  /\ transit = {}
  /\ got = [c \in All |-> 0]
  /\ lists = [s \in Slaves |->
                [kind \in Kinds |-> [x \in 0..Quota(s, kind) - 1 |-> 0]]]
  /\ sent = [s \in Slaves |-> 0]
  /\ notSent = [s \in Slaves |-> 0]
  /\ received = [s \in Slaves |-> 0]

Goto(s, from, to) ==
  /\ pc[s] = from
  /\ pc' = [pc EXCEPT ![s] = to]

-----------------------------------------------------------------------------
(* MixOp.Do                                                                 *)

\* The callbacks of a slave in one step: nobody asks for a part of them.
SetCallbacks(s) ==
  /\ Goto(s, "begin", "reset")
  /\ listening' = listening \cup {s}
  /\ UNCHANGED <<inputs, member, senders, calling, sends, transit, got, lists,
                 counters>>

ResetCounters(s) ==
  /\ Goto(s, "reset", "ready")
  /\ sent' = [sent EXCEPT ![s] = 0]
  /\ notSent' = [notSent EXCEPT ![s] = 0]
  /\ received' = [received EXCEPT ![s] = 0]
  /\ UNCHANGED <<inputs, listening, member, senders, calling, sends, transit,
                 got, lists>>

\* Without connections the operation only waits.
Run(s) ==
  /\ Goto(s, "ready", IF Share(s) = 0 THEN "save" ELSE "join")
  /\ UNCHANGED <<inputs, listening, member, senders, calling, sends, transit,
                 got, lists, counters>>

\* The connections that join and leave are those of a kind "mix".
Grouped(s) == {<<s, k>> : k \in {x \in Own(s) : IsInRangeOf(s, "mix", x)}}

\* StartSendMsg: a loop for every connection, whatever its kind.
Loops(s) == Own(s)

JoinGroup(s) ==
  /\ Goto(s, "join", "send")
  /\ member' = member \cup Grouped(s)
  /\ senders' = [senders EXCEPT ![s] = Loops(s)]
  /\ UNCHANGED <<inputs, listening, calling, sends, transit, got, lists,
                 counters>>

\* Task.WhenAll over the loops, then LeaveGroup.
LeaveGroup(s) ==
  /\ senders[s] = {}
  /\ Goto(s, "send", "save")
  /\ member' = member \ Grouped(s)
  /\ UNCHANGED <<inputs, listening, senders, calling, sends, transit, got,
                 lists, counters>>

Complete(s) ==
  /\ Goto(s, "save", "complete")
  /\ UNCHANGED <<inputs, listening, member, senders, calling, sends, transit,
                 got, lists, counters>>

DoStep(s) ==
  \/ SetCallbacks(s)
  \/ ResetCounters(s)
  \/ Run(s)
  \/ JoinGroup(s)
  \/ LeaveGroup(s)
  \/ Complete(s)

-----------------------------------------------------------------------------
(* The loops that send, the hub and the callbacks                           *)

\* Whom the hub sends a message of connection c to; it has no method "".
Targets(c) == CASE Kind(c) = "echo"      -> {c}
                [] Kind(c) = "broadcast" -> All
                [] Kind(c) = "group"     -> member
                [] Kind(c) = ""          -> {}

\* Mutant of Entry: the list is indexed like the connections.
EntryOfAll(s, k) == k

\* The index of a connection in the list of its kind.
Entry(s, k) == k - GetRange(s, KindOf(s, k))[1]

\* A message may arrive before its sender has counted it.
SendAsync(s, k) ==
  LET c == <<s, k>>
  IN  /\ k \in senders[s]
      /\ c \notin calling
      /\ sends[c] < MaxSends
      /\ calling' = calling \cup {c}
      /\ sends' = [sends EXCEPT ![c] = @ + 1]
      /\ transit' = transit \cup {<<c, sends[c], d>> : d \in Targets(c)}
      /\ UNCHANGED <<inputs, pc, listening, member, senders, got, lists,
                     counters>>

\* An index beyond the list would count the message as not sent.
CountSent(s, k) ==
  LET c == <<s, k>>  kind == KindOf(s, k)  e == Entry(s, k)
  IN  /\ c \in calling
      /\ calling' = calling \ {c}
      /\ lists' = IF kind \in Kinds /\ e \in DOMAIN lists[s][kind]
                    THEN [lists EXCEPT ![s][kind][e] = @ + 1]
                    ELSE lists
      /\ IF kind \in Kinds => e \in DOMAIN lists[s][kind]
           THEN sent' = [sent EXCEPT ![s] = @ + 1] /\ UNCHANGED notSent
           ELSE notSent' = [notSent EXCEPT ![s] = @ + 1] /\ UNCHANGED sent
      /\ UNCHANGED <<inputs, pc, listening, member, senders, sends, transit,
                     got, received>>

\* The call throws.
SendFails(s, k) ==
  /\ k \in senders[s]
  /\ <<s, k>> \notin calling
  /\ notSent[s] < MaxFails
  /\ notSent' = [notSent EXCEPT ![s] = @ + 1]
  /\ UNCHANGED <<inputs, pc, listening, member, senders, calling, sends,
                 transit, got, lists, sent, received>>

\* The duration is over.
SenderEnds(s, k) ==
  /\ k \in senders[s]
  /\ <<s, k>> \notin calling
  /\ senders' = [senders EXCEPT ![s] = @ \ {k}]
  /\ UNCHANGED <<inputs, pc, listening, member, calling, sends, transit, got,
                 lists, counters>>

\* Mutant of Listens: one callback for whatever comes.
ListensToAll(d, kind) == d[1] \in listening

\* A message is counted by a callback of its name, if there is one yet.
Listens(d, kind) == d[1] \in listening /\ Kind(d) = kind

Arrive(m) ==
  LET d == m[3]
  IN  /\ transit' = transit \ {m}
      /\ IF Listens(d, Kind(m[1]))
           THEN /\ got' = [got EXCEPT ![d] = @ + 1]
                /\ received' = [received EXCEPT ![d[1]] = @ + 1]
           ELSE UNCHANGED <<got, received>>
      /\ UNCHANGED <<inputs, pc, listening, member, senders, calling, sends,
                     lists, sent, notSent>>

Done == \A s \in Slaves : pc[s] = "complete"

Next ==
  \/ \E s \in Slaves :
       \/ DoStep(s)
       \/ \E k \in senders[s] :
            \/ SendAsync(s, k)
            \/ CountSent(s, k)
            \/ SendFails(s, k)
            \/ SenderEnds(s, k)
  \/ \E m \in transit : Arrive(m)
  \/ Done /\ UNCHANGED vars

Spec == Init /\ [][Next]_vars

-----------------------------------------------------------------------------
(* Properties                                                               *)

TypeOK ==
  /\ echo \in 0..MaxKind /\ broadcast \in 0..MaxKind /\ group \in 0..MaxKind
  /\ connections - echo - broadcast - group \in Surplus
  /\ pc \in [Slaves -> Points]
  /\ listening \subseteq Slaves /\ member \subseteq All
  /\ senders \in [Slaves -> SUBSET Nat]
  /\ \A s \in Slaves : senders[s] \subseteq Own(s)
  /\ calling \subseteq All
  /\ sends \in [All -> 0..MaxSends]
  /\ transit \subseteq All \X Nat \X All
  /\ got \in [All -> Nat]
  /\ \A s \in Slaves : \A kind \in Kinds :
       lists[s][kind] \in [0..Quota(s, kind) - 1 -> Nat]
  /\ sent \in [Slaves -> Nat] /\ notSent \in [Slaves -> 0..MaxFails]
  /\ received \in [Slaves -> Nat]

OfKind(kind) == {c \in All : Kind(c) = kind}

(***************************************************************************)
(* A connection counts no more than was sent to its own kind: an echo its  *)
(* own messages, a broadcast one those of all broadcast connections.  What *)
(* is sent to the group is counted by nobody, because nobody joins it.     *)
(***************************************************************************)
OwnKindOnly ==
  /\ \A c \in OfKind("echo") : got[c] <= sends[c]
  /\ \A c \in OfKind("broadcast") : got[c] <= SumOver(sends, OfKind("broadcast"))
  /\ \A c \in OfKind("group") \cup OfKind("") : got[c] = 0

(***************************************************************************)
(* The lists of a slave hold as many messages as its connections with a    *)
(* kind have sent, and its counter those of all, but for the calls that    *)
(* are out; when the counters are saved none is missing.  No message that  *)
(* left is counted as not sent because of its index.                       *)
(***************************************************************************)
ListsAgree ==
  \A s \in Slaves :
    LET mine == {s} \X Own(s)
        Counted(S) == SumOver(sends, S) - Cardinality(S \cap calling)
    IN  /\ sent[s] = Counted(mine)
        /\ \A kind \in Kinds :
             SumOver(lists[s][kind], DOMAIN lists[s][kind]) =
               Counted(mine \cap OfKind(kind))
        /\ pc[s] \in {"save", "complete"} => sent[s] = SumOver(sends, mine)

(***************************************************************************)
(* If as many connections are opened as the kinds need, the numbers dealt  *)
(* to a slave still need not fit its connections, but they differ by at    *)
(* most two, and all echoes find a connection.                             *)
(***************************************************************************)
FewMisfits ==
  connections = echo + broadcast + group =>
    \A s \in Slaves :
      LET wanted == Quota(s, "echo") + Quota(s, "broadcast") + Quota(s, "group")
      IN  /\ Share(s) - wanted \in -2..2
          /\ Quota(s, "echo") <= Share(s)
=============================================================================
