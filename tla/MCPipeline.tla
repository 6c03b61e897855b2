---------------------------- MODULE MCPipeline ----------------------------
(***************************************************************************)
(* Instances of Pipeline: a good event, one that fails half way or at once,   *)
(* and a good one after it.                                                  *)
(***************************************************************************)
EXTENDS Pipeline

CONSTANT Second

MCKind == [e \in 1..NEvents |-> IF e = 2 THEN Second ELSE "good"]
=============================================================================
