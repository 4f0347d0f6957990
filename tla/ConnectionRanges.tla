-------------------------- MODULE ConnectionRanges ---------------------------
(***************************************************************************)
(* How the master deals the group connections out to its slaves in one     *)
(* pipeline step.  Every client gets a thread-pool task of its own; the    *)
(* task of client s adds up the shares of the clients before it (nobody    *)
(* tells it where they ended) and sends the half-open range [beg, end) of  *)
(* the shuffled list its slave is to use.                                  *)
(***************************************************************************)
EXTENDS BenchStat

CONSTANTS
  N,          (* number of slaves                                           *)
  MaxTotal    (* bound: the largest --groupConnection considered            *)

ASSUME NAssumption == N \in Nat \ {0}
ASSUME TotalAssumption == MaxTotal \in Nat

VARIABLES
  total,     (* --groupConnection                                           *)
  indStart,  (* per client: the loop variable of its task                   *)
  beg,       (* per client: the sum so far                                  *)
  sent       (* per client: the range sent to the slave, <<>> before        *)

vars == <<total, indStart, beg, sent>>

Clients == 0..N - 1
Share(c) == SplitNumber(total, c, N)

Init ==
  /\ total \in 0..MaxTotal
  /\ indStart = [c \in Clients |-> 0]
  /\ beg = [c \in Clients |-> 0]
  /\ sent = [c \in Clients |-> <<>>]

\* One round of the loop over the clients before c.
AddShare(c) ==
  /\ indStart[c] < c
  /\ beg' = [beg EXCEPT ![c] = @ + Share(indStart[c])]
  /\ indStart' = [indStart EXCEPT ![c] = @ + 1]
  /\ UNCHANGED <<total, sent>>

\* Mutant of SendRange: the end is taken to be part of the range.
SendClosedRange(c) ==
  /\ indStart[c] = c
  /\ sent[c] = <<>>
  /\ sent' = [sent EXCEPT ![c] = <<beg[c], beg[c] + Share(c) + 1>>]
  /\ UNCHANGED <<total, indStart, beg>>

\* LoadConnectionRange, the last call of the task.
SendRange(c) ==
  /\ indStart[c] = c
  /\ sent[c] = <<>>
  /\ sent' = [sent EXCEPT ![c] = <<beg[c], beg[c] + Share(c)>>]
  /\ UNCHANGED <<total, indStart, beg>>

AllSent == \A c \in Clients : sent[c] # <<>>

Next ==
  \/ \E c \in Clients : AddShare(c) \/ SendRange(c)
  \/ AllSent /\ UNCHANGED vars

Spec == Init /\ [][Next]_vars

-----------------------------------------------------------------------------
TypeOK ==
  /\ total \in 0..MaxTotal
  /\ indStart \in [Clients -> Clients]
  /\ beg \in [Clients -> Nat]
  /\ sent \in [Clients -> {<<>>} \cup (Nat \X Nat)]

(***************************************************************************)
(* The ranges of any two clients whose calls went out are disjoint and in  *)
(* the order of the clients: no connection of the list is used twice.      *)
(***************************************************************************)
Disjoint ==
  \A c, d \in Clients :
    c < d /\ sent[c] # <<>> /\ sent[d] # <<>> => sent[c][2] <= sent[d][1]

(***************************************************************************)
(* Neighbouring ranges meet, the first starts at 0 and the last ends at    *)
(* the total: together they leave out no entry of the list.                *)
(***************************************************************************)
Gapless ==
  \A c \in Clients :
    sent[c] # <<>> =>
      /\ c = 0 => sent[c][1] = 0
      /\ c = N - 1 => sent[c][2] = total
      /\ c + 1 \in Clients /\ sent[c + 1] # <<>> => sent[c][2] = sent[c + 1][1]

(***************************************************************************)
(* A range has as many entries as the slave has been told to open          *)
(* connections when --connections and --groupConnection agree, and no two  *)
(* slaves differ by more than one.                                         *)
(***************************************************************************)
Balanced ==
  \A c, d \in Clients :
    sent[c] # <<>> /\ sent[d] # <<>> /\ c < d =>
      (sent[c][2] - sent[c][1]) - (sent[d][2] - sent[d][1]) \in {0, 1}
=============================================================================
