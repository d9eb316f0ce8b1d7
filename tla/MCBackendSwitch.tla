--------------------------- MODULE MCBackendSwitch ---------------------------
(***************************************************************************)
(* An instance of BackendSwitch for TLC.                                   *)
(***************************************************************************)
EXTENDS BackendSwitchProps

BothInOrder == <<"windowsInk", "winTab">>
Three == 1 .. 3

=============================================================================
