----------------------------- MODULE MCSendMsg -------------------------------
(* SendMsg for TLC: the slaves are interchangeable.                         *)
EXTENDS SendMsg, TLC

Symmetry == Permutations(Slaves)
=============================================================================
