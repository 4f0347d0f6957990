----------------------------- MODULE MCBenchRpc ------------------------------
(* Instances of BenchRpc for TLC.                                           *)
EXTENDS BenchRpc, TLC

StandardPipeline ==
  <<"createConn", "startConn", "scenario", "stopConn", "disposeConn">>

\* Without the last step, which changes no counter.
ShortPipeline == <<"createConn", "startConn", "scenario", "stopConn">>

\* The handlers of the timer are all alike.
HandlerSymmetry == Permutations(Handlers)
=============================================================================
