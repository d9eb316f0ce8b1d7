----------------------------- MODULE MCInkInjector -----------------------------
(***************************************************************************)
(* An instance of InkInjector for TLC.  A coordinate runs over all its     *)
(* values, one past each end included; the pressures reach the first step  *)
(* that is rounded to zero; the angles reach past both limits; a touch     *)
(* runs over the stage from outside of one corner to that of another.      *)
(***************************************************************************)
EXTENDS PenStageProps

Both == {Ink, Tab}

Grain == 5040

Event(type, x, y, pressure, twist, tiltX, tiltY) ==
  [type |-> type, x |-> x, y |-> y, pressure |-> pressure,
   twist |-> twist, tiltX |-> tiltX, tiltY |-> tiltY]

Places == {-1, 0, 1, 1259, 1260, 2520, 3360, 5039, 5040, 5041}

Touches ==
  {Event(type, x, 5040 - x, pressure, 0, 0, 0) :
     type \in EventTypes \cup {"other"}, x \in Places, pressure \in {0, 1, 3, 5040}}
Tilts ==
  {Event(type, 10, 10, 2520, twist, tiltX, tiltY) :
     type \in {"down", "move"}, twist \in {-1, 0, 719}, tiltX \in {-181, 0, 3}, tiltY \in {0, 200}}

\* Stages and pictures on whose pixels the grain falls exactly; the picture may
\* be that of the screen, of another one or not there yet.
Stages == {<<16, 12>>, <<20, 10>>, <<24, 10>>}
Pictures == {<<8, 5>>, <<12, 3>>, <<0, 0>>}

OnStage ==
  {sendPenEvent(type,
     [stageWidth |-> stage[1], stageHeight |-> stage[2],
      naturalWidth |-> natural[1], naturalHeight |-> natural[2],
      x |-> i, y |-> i - 2, pointer |-> pointer, pressure |-> 1, buttons |-> 1]) :
     type \in EventTypes, stage \in Stages, natural \in Pictures, i \in -1 .. 25,
     pointer \in {"pen", "touch"}}

\* One of the three normalized values is out of range.
Outside ==
  {Event("move", x, y, pressure, 0, 0, 0) :
     x \in {-1, 0, 5041}, y \in {-1, 0, 5041}, pressure \in {-1, 0, 5041}}

EventsSent == Touches \cup Tilts \cup Outside \cup OnStage

Screens ==
  {[left |-> 0, top |-> 0, width |-> 8, height |-> 5],
   [left |-> -7, top |-> -3, width |-> 12, height |-> 3],
   [left |-> 0, top |-> 0, width |-> 0, height |-> 0],
   [left |-> 0, top |-> 0, width |-> 1, height |-> 1]}

=============================================================================
