---------------------------- MODULE MCPenPipeline ----------------------------
(***************************************************************************)
(* Instances of PenPipeline for TLC.  Pages are interchangeable; pointers  *)
(* are too, but the run with two of them checks a liveness property, for   *)
(* which symmetry is not used.                                             *)
(***************************************************************************)
EXTENDS PenPipelineProps, TLC

PageSymmetry == Permutations(Clients) \cup Permutations(Tests)

BothBackends == {Ink, Tab}

=============================================================================
