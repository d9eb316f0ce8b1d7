------------------------------ MODULE PenEvents ------------------------------
(***************************************************************************)
(* The vocabulary the server's modules share: the event types a client may *)
(* send, the two backends of the pen controller, and what one event does   *)
(* to the contact state of each of them.                                   *)
(***************************************************************************)

CONSTANT Available      \* the backends whose BackendInfo.Available is true

Ink == "windowsInk"
Tab == "winTab"
Backends == {Ink, Tab}

\* NewInjector returns no controller at all when Windows Ink is missing, and
\* registers WinTab whether or not its shared memory could be created.
ASSUME AvailableAssumption == Ink \in Available /\ Available \subseteq Backends

EventTypes == {"down", "move", "up"}

\* Mutant: an "up" does not reset isDown.
InkDownAfterSticky(down, event) == event = "down" \/ down

\* windowsInkInjector.isDown after the switch over event.Type.  The packet
\* built there carries pointerFlagInContact exactly when this is TRUE.
InkDownAfter(down, event) == event = "down" \/ (event = "move" /\ down)

\* InContact of the WinTab packet: a move is a contact packet even when no
\* down came before it.
TabContact(event) == event # "up"

=============================================================================
