------------------------------ MODULE BenchJob -------------------------------
(***************************************************************************)
(* What one run of the master promises, without saying how: the steps of   *)
(* the pipeline are done one after the other, each by every slave before   *)
(* the next one starts, and the run ends with one verdict, which is SUCCESS *)
(* only after the last step was done by everybody.                         *)
(***************************************************************************)
EXTENDS Naturals

CONSTANTS Slaves, Last

VARIABLES
  phase,     (* "starting", "running" or "ended"                            *)
  current,   (* the step being done                                         *)
  finished,  (* the slaves that have done it                                *)
  verdict    (* "none" until the run ends                                   *)

bvars == <<phase, current, finished, verdict>>

Init ==
  /\ phase = "starting"
  /\ current = 1
  /\ finished = {}
  /\ verdict = "none"

Begin ==
  /\ phase = "starting"
  /\ phase' = "running"
  /\ UNCHANGED <<current, finished, verdict>>

Finish(s) ==
  /\ phase = "running"
  /\ s \notin finished
  /\ finished' = finished \cup {s}
  /\ UNCHANGED <<phase, current, verdict>>

Advance ==
  /\ phase = "running"
  /\ finished = Slaves
  /\ current < Last
  /\ current' = current + 1
  /\ finished' = {}
  /\ UNCHANGED <<phase, verdict>>

\* The run can be given up at any time.
GiveUp ==
  /\ phase # "ended"
  /\ phase' = "ended"
  /\ verdict' = "FAIL"
  /\ UNCHANGED <<current, finished>>

\* The verdict proper; no line at all is possible too.
Judge ==
  /\ phase = "running"
  /\ finished = Slaves
  /\ current = Last
  /\ phase' = "ended"
  /\ verdict' \in {"SUCCESS", "FAIL", "none"}
  /\ UNCHANGED <<current, finished>>

Next ==
  \/ Begin
  \/ \E s \in Slaves : Finish(s)
  \/ Advance
  \/ GiveUp
  \/ Judge

Spec == Init /\ [][Next]_bvars
=============================================================================
