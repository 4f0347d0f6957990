---------------------------- MODULE MCJobControl -----------------------------
(* The pipelines JobControl and the modules that extend it are run with.    *)
EXTENDS JobControl

\* The pipeline of ConfigCandidate/*.yaml and Rpc/Configs/job.yaml, with the
\* group operations as steps of their own around the scenario.
GroupPipeline ==
  <<"createConn", "startConn", "joinGroup", "scenario", "leaveGroup",
    "stopConn", "disposeConn">>
=============================================================================
