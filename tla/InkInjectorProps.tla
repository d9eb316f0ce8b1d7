--------------------------- MODULE InkInjectorProps ---------------------------
(***************************************************************************)
(* What the packets of InkInjector are like, whatever the clients send.    *)
(***************************************************************************)
EXTENDS InkInjector

\* Type invariant.
TypeOK ==
  /\ isDown \in BOOLEAN
  /\ call = Idle \/ /\ call.type \in EventTypes
                     /\ call.x \in 0 .. Den /\ call.y \in 0 .. Den /\ call.pressure \in 0 .. Den
  /\ origin.left \in Int /\ origin.top \in Int
  /\ contact \in BOOLEAN /\ missed \in {"none", "down", "up"}

Accepted == packet # NoPacket

\* The location lies on the virtual screen it was computed for: rounding never
\* goes one pixel past the last one, and the left and top edges of a desktop
\* that extends to the left of or above the primary monitor are respected.
OnScreen ==
  Accepted =>
    /\ screen.left <= packet.x /\ packet.x < screen.left + screen.width
    /\ screen.top <= packet.y /\ packet.y < screen.top + screen.height

\* A packet has pressure exactly when it is a contact packet, and then a
\* pressure the device knows: the lightest touch still draws and a hovering pen
\* or a lifted one never does.
PressureMeansContact ==
  Accepted =>
    /\ packet.pressure \in 0 .. 1024
    /\ packet.pressure > 0 <=> "inContact" \in packet.flags

\* What the device is told makes whole strokes, as far as it was willing to take
\* them: a packet draws without a "down" of its own only if the one before it drew
\* already, or the device had refused the "down"; drawing ends without an "up"
\* only if the device had refused the "up".  (isDown is assigned before the device
\* is asked and not taken back: afterwards it may disagree with the device.)
StrokesWhole ==
  [][packet' # packet /\ packet' # NoPacket =>
       LET drawing == "inContact" \in packet'.flags
       IN  /\ drawing /\ "down" \notin packet'.flags => contact \/ missed = "down"
           /\ ~drawing /\ "up" \notin packet'.flags => ~contact \/ missed = "up"]_vars

\* WindowFromPoint is asked for the window under the pen.  An int32 is read back
\* from each word of the packed point, also where the desktop has negative
\* coordinates.
Int32(w) == IF 2 * w >= Word THEN w - Word ELSE w

InRange(v) == -Word <= 2 * v /\ 2 * v < Word

TargetUnderPen ==
  Accepted /\ InRange(packet.x) /\ InRange(packet.y) =>
    /\ Int32(packet.target % Word) = packet.x
    /\ Int32(packet.target \div Word) = packet.y

=============================================================================
