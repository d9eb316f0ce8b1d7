--------------------------- MODULE MCPenController ---------------------------
(***************************************************************************)
(* Instances of PenController for TLC.  Goroutines are interchangeable.    *)
(***************************************************************************)
EXTENDS PenControllerProps, TLC

ProcSymmetry == Permutations(Procs)

BothBackends == {Ink, Tab}

AllEvents == EventTypes
UpOnly == {"up"}

AllRequests == Requestable
TabOnly == {Tab}

=============================================================================
