---------------------------- MODULE MCWinTabBridge ----------------------------
(***************************************************************************)
(* Instances of WinTabBridge for TLC.  Applications are interchangeable.   *)
(***************************************************************************)
EXTENDS WinTabBridgeProps, TLC

AppSymmetry == Permutations(Apps)

=============================================================================
