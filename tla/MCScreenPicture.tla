---------------------------- MODULE MCScreenPicture ----------------------------
(***************************************************************************)
(* Instances of ScreenPicture for TLC.                                     *)
(***************************************************************************)
EXTENDS ScreenPictureProps

Three == 1 .. 3
Two == 1 .. 2

=============================================================================
