----------------------------- MODULE MCPipeline -----------------------------
(***************************************************************************)
(* Instances of Pipeline for TLC.                                           *)
(***************************************************************************)
EXTENDS Pipeline, TLC

CONSTANTS p1, p2, w1

OneLoop == [p \in Path |-> w1]
=============================================================================
