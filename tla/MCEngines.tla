------------------------------ MODULE MCEngines ------------------------------
(* One job of each kind of engine, and two that no engine can do.          *)
EXTENDS Engines

CONSTANTS v1, v2

MCJobs ==
  {[type |-> "fuse", engine |-> "skillalchemy", sources |-> {v1, v2}],
   [type |-> "personalize", engine |-> "skillcreator", sources |-> {v1}],
   [type |-> "distill_repo", engine |-> "arex", sources |-> {}],
   [type |-> "distill_repo", engine |-> "skillalchemy", sources |-> {}],
   [type |-> "distill_repo", engine |-> "unsupported", sources |-> {}]}
=============================================================================
