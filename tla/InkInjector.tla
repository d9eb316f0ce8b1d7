------------------------------ MODULE InkInjector ------------------------------
(***************************************************************************)
(* windowsInkInjector.Inject: how one pen event of a client becomes the    *)
(* packet for the synthetic pointer device.  The injector's mutex lets one *)
(* event in at a time (module PenController), so it is sequential; but the *)
(* desktop may be rearranged between the four calls that ask for its       *)
(* origin and its size, so each is answered by any screen it can have.     *)
(*                                                                         *)
(* A normalized coordinate or pressure is a multiple of 1/Den, an angle a  *)
(* multiple of half a degree; arithmetic is exact where the program uses   *)
(* float64.  A packet is the part of pointerTypeInfo that varies, the      *)
(* flags as a set.                                                         *)
(***************************************************************************)
EXTENDS PenEvents, Integers

CONSTANTS Den,          \* the grain of normalized values
          Word,         \* values of a 32-bit word (2^32 in the program)
          Inputs,       \* bound: the decoded events clients send
          Displays      \* bound: the virtual screens the desktop can have

VARIABLES isDown,       \* injector.isDown
          call,         \* the event being injected, or Idle
          origin,       \* what VirtualBounds has read of the screen's origin
          packet,       \* what the device accepted of this call, or NoPacket
          screen,       \* history: the screen that packet was computed for
          contact,      \* history: the last packet the device accepted is in contact
          missed        \* history: the "down" or "up" it refused last since then

vars == <<isDown, call, origin, packet, screen, contact, missed>>

ASSUME DenAssumption == Den \in Nat \ {0}
ASSUME WordAssumption == Word \in Nat \ {0} /\ Word % 2 = 0
ASSUME InputsAssumption ==
  \A e \in Inputs : e.x \in Int /\ e.y \in Int /\ e.pressure \in Int /\ e.twist \in Int
                    /\ e.tiltX \in Int /\ e.tiltY \in Int
ASSUME DisplaysAssumption ==
  \A d \in Displays : d.left \in Int /\ d.top \in Int /\ d.width \in Int /\ d.height \in Int

Idle == [type |-> "idle"]
NoPacket == [flags |-> {}]
NoOrigin == [left |-> 0, top |-> 0]
NoScreen == [left |-> 0, top |-> 0, width |-> 0, height |-> 0]

Init ==
  /\ isDown = FALSE
  /\ call = Idle
  /\ origin = NoOrigin
  /\ packet = NoPacket
  /\ screen = NoScreen
  /\ contact = FALSE
  /\ missed = "none"

-----------------------------------------------------------------------------
(* Numbers.                                                                *)

\* math.Round(a / d): to the nearest integer, halves away from zero.
Round(a, d) ==
  IF a >= 0 THEN (2 * a + d) \div (2 * d) ELSE -((d - 2 * a) \div (2 * d))

\* Mutant: only negative values are refused.
NotNegative(v) == 0 <= v

\* PenEvent.Validate.
Normalized(v) == 0 <= v /\ v <= Den

Valid(e) ==
  /\ e.type \in EventTypes
  /\ Normalized(e.x) /\ Normalized(e.y) /\ Normalized(e.pressure)

\* Mutant: the last pixel is taken to be at the extent.
PixelPast(first, extent, v) == first + Round(v * extent, Den)

\* The pixel for a normalized coordinate on an axis of the virtual screen.
Pixel(first, extent, v) == first + Round(v * (extent - 1), Den)

clampInt(v, min, max) == IF v < min THEN min ELSE IF v > max THEN max ELSE v

Degrees(halves, min, max) == clampInt(Round(halves, 2), min, max)

ensureContactPressure(pressure) ==
  IF pressure = 0 THEN 1 ELSE IF pressure > 1024 THEN 1024 ELSE pressure

\* Mutant: the point is packed without turning x into an unsigned word.
pointToUintptrSigned(x, y) == (x + Word * (y % Word)) % (Word * Word)

\* The two int32 of a POINT in one register, for WindowFromPoint.
pointToUintptr(x, y) == (x % Word) + Word * (y % Word)

-----------------------------------------------------------------------------
(* The packet.                                                             *)

Flags(type, down) ==
  {"inRange", "primary", "confidence"} \cup
    (IF type = "down" THEN {"new", "down", "inContact", "firstButton"}
     ELSE IF type = "up" THEN {"up"}
     ELSE {"update"} \cup (IF down THEN {"inContact", "firstButton"} ELSE {}))

\* Mutant: a light touch is sent with the pressure it rounds to.
PressureRounded(e, down) ==
  IF InkDownAfter(down, e.type) THEN Round(e.pressure * 1024, Den) ELSE 0

Pressure(e, down) ==
  IF InkDownAfter(down, e.type) THEN ensureContactPressure(Round(e.pressure * 1024, Den)) ELSE 0

Change(type) == CASE type = "down" -> 1 [] type = "up" -> 2 [] type = "move" -> 0

Packet(e, down, width, height) ==
  LET x == Pixel(origin.left, width, e.x)
      y == Pixel(origin.top, height, e.y)
      rotation == Degrees(e.twist, 0, 359)
      tiltX == Degrees(e.tiltX, -90, 90)
      tiltY == Degrees(e.tiltY, -90, 90)
  IN  [flags |-> Flags(e.type, down), change |-> Change(e.type),
       x |-> x, y |-> y, target |-> pointToUintptr(x, y),
       pressure |-> Pressure(e, down),
       rotation |-> rotation, tiltX |-> tiltX, tiltY |-> tiltY,
       mask |-> {"pressure"} \cup (IF rotation # 0 THEN {"rotation"} ELSE {})
                 \cup (IF tiltX # 0 THEN {"tiltX"} ELSE {})
                 \cup (IF tiltY # 0 THEN {"tiltY"} ELSE {})]

-----------------------------------------------------------------------------

\* Validate refuses the event, or VirtualBounds starts with left and top.
Begin(e) ==
  /\ call = Idle /\ packet = NoPacket
  /\ Valid(e)
  /\ call' = e
  /\ \E left \in {d.left : d \in Displays}, top \in {d.top : d \in Displays} :
       origin' = [left |-> left, top |-> top]
  /\ UNCHANGED <<isDown, packet, screen, contact, missed>>

\* VirtualBounds ends with width and height; without one the event is refused.
Refuse ==
  /\ call # Idle
  /\ \E d \in Displays : d.width <= 0 \/ d.height <= 0
  /\ call' = Idle
  /\ origin' = NoOrigin
  /\ UNCHANGED <<isDown, packet, screen, contact, missed>>

\* InjectSyntheticPointerInput takes the packet ...
DeviceAccepts(width, height) ==
  /\ packet' = Packet(call, isDown, width, height)
  /\ screen' = [left |-> origin.left, top |-> origin.top, width |-> width, height |-> height]
  /\ contact' = ("inContact" \in packet'.flags)
  /\ missed' = "none"

\* ... or fails.
DeviceRefuses ==
  /\ missed' = IF call.type = "move" THEN missed ELSE call.type
  /\ UNCHANGED <<packet, screen, contact>>

\* isDown is assigned while the packet is built, whatever the device does then.
Finish ==
  /\ call # Idle
  /\ \E width \in {d.width : d \in Displays}, height \in {d.height : d \in Displays} :
       /\ width > 0 /\ height > 0
       /\ DeviceAccepts(width, height) \/ DeviceRefuses
  /\ isDown' = InkDownAfter(isDown, call.type)
  /\ call' = Idle
  /\ origin' = NoOrigin

\* Inject returns, its variables go; what the device was told remains.
Return ==
  /\ packet # NoPacket
  /\ packet' = NoPacket
  /\ screen' = NoScreen
  /\ UNCHANGED <<isDown, call, origin, contact, missed>>

Next == (\E e \in Inputs : Begin(e)) \/ Refuse \/ Finish \/ Return

Spec == Init /\ [][Next]_vars

=============================================================================
