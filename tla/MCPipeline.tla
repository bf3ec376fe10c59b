---------------------------- MODULE MCPipeline ----------------------------
(* A small instance of Pipeline for TLC.  The commits and the contents of   *)
(* the inputs have no order, so it starts from one of each.                 *)
EXTENDS Pipeline

CONSTANTS k1, c1

MCInit == Init /\ code = k1 /\ config = c1

MCSpec == MCInit /\ [][Next]_vars

MCFairSpec == MCSpec /\ WF_vars(Step) /\ SF_vars(Import)
=============================================================================
