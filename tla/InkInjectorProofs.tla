--------------------------- MODULE InkInjectorProofs ---------------------------
(***************************************************************************)
(* Proofs about InkInjector, for every grain of the coordinates, every     *)
(* width of a word, every desktop and every event: arithmetic that TLC     *)
(* only samples.                                                           *)
(***************************************************************************)
EXTENDS InkInjectorProps, TLAPS

-----------------------------------------------------------------------------
(* Rounding.                                                               *)

LEMMA Division ==
  ASSUME NEW a \in Int, NEW b \in Nat \ {0}
  PROVE  /\ a \div b \in Int
         /\ b * (a \div b) <= a /\ a < b * (a \div b) + b
  OBVIOUS

LEMMA FactorAtMost ==
  ASSUME NEW b \in Nat \ {0}, NEW q \in Int, NEW m \in Int, b * q < b * m + b
  PROVE  q <= m
  OBVIOUS

LEMMA ScaledAtMost ==
  ASSUME NEW m \in Nat, NEW n \in Nat, NEW d \in Nat, n <= d
  PROVE  n * m \in Nat /\ n * m <= d * m
  OBVIOUS

\* A fraction n/d of m rounds to something between 0 and m.
LEMMA RoundBounds ==
  ASSUME NEW d \in Nat \ {0}, NEW n \in Nat, NEW m \in Nat, n <= d
  PROVE  Round(n * m, d) \in 0 .. m
<1> DEFINE q == (2 * (n * m) + d) \div (2 * d)
<1>1. n * m \in Nat /\ n * m <= d * m
  BY ScaledAtMost
<1>2. Round(n * m, d) = q
  BY <1>1 DEF Round
<1>3. q \in Int /\ (2 * d) * q <= 2 * (n * m) + d /\ 2 * (n * m) + d < (2 * d) * q + 2 * d
  <2>1. 2 * (n * m) + d \in Int /\ 2 * d \in Nat \ {0}
    BY <1>1
  <2> QED
    BY <2>1, Division, Zenon
<1>4. q <= m
  <2>1. (2 * d) * q < (2 * d) * m + 2 * d
    BY <1>1, <1>3
  <2> QED
    BY <1>3, <2>1, FactorAtMost
<1>5. 0 <= q
  <2>1. (2 * d) * 0 < (2 * d) * q + 2 * d
    BY <1>1, <1>3
  <2> QED
    BY <1>3, <2>1, FactorAtMost
<1> QED
  BY <1>2, <1>3, <1>4, <1>5

\* The centre of the k-th of w pixels of the picture of the screen is mapped
\* back to pixel k: what the user touches on the picture is what is hit.
THEOREM PixelUnderTouch ==
  ASSUME NEW w \in Nat \ {0}, NEW k \in 0 .. w - 1
  PROVE  Round((2 * k + 1) * (w - 1), 2 * w) = k
<1> DEFINE a == (2 * k + 1) * (w - 1)
           q == (2 * a + 2 * w) \div (4 * w)
<1>1. a \in Nat /\ 2 * a + 2 * w = 4 * w * k + (4 * w - 4 * k - 2)
  OBVIOUS
<1>2. Round(a, 2 * w) = q
  <2>1. 2 * (2 * w) = 4 * w
    OBVIOUS
  <2> QED
    BY <1>1, <2>1 DEF Round
<1>3. q \in Int /\ (4 * w) * q <= 2 * a + 2 * w /\ 2 * a + 2 * w < (4 * w) * q + 4 * w
  <2>1. 2 * a + 2 * w \in Int /\ 4 * w \in Nat \ {0}
    BY <1>1
  <2> QED
    BY <2>1, Division, Zenon
<1>4. q <= k
  <2>1. (4 * w) * q < (4 * w) * k + 4 * w
    BY <1>1, <1>3
  <2> QED
    BY <1>3, <2>1, FactorAtMost
<1>5. k <= q
  <2>1. (4 * w) * k < (4 * w) * q + 4 * w
    BY <1>1, <1>3
  <2> QED
    BY <1>3, <2>1, FactorAtMost
<1> QED
  BY <1>2, <1>3, <1>4, <1>5

\* A normalized coordinate is mapped to a pixel of its axis.
LEMMA PixelBounds ==
  ASSUME NEW first \in Int, NEW extent \in Nat \ {0}, NEW v \in Int, Normalized(v)
  PROVE  /\ Pixel(first, extent, v) \in Int
         /\ first <= Pixel(first, extent, v) /\ Pixel(first, extent, v) < first + extent
<1>1. Round(v * (extent - 1), Den) \in 0 .. (extent - 1)
  <2>1. v \in Nat /\ v <= Den /\ extent - 1 \in Nat /\ Den \in Nat \ {0}
    BY DenAssumption DEF Normalized
  <2> QED
    BY <2>1, RoundBounds, Zenon
<1> QED
  BY <1>1 DEF Pixel

\* What RoundBounds does not say of a rounded fraction of m: it is at most half
\* away from it.
LEMMA RoundDistance ==
  ASSUME NEW d \in Nat \ {0}, NEW a \in Nat
  PROVE  /\ Round(a, d) \in Int
         /\ 2 * (d * Round(a, d)) <= 2 * a + d /\ 2 * a < 2 * (d * Round(a, d)) + d
<1> DEFINE q == (2 * a + d) \div (2 * d)
<1>1. Round(a, d) = q
  BY DEF Round
<1>2. q \in Int /\ (2 * d) * q <= 2 * a + d /\ 2 * a + d < (2 * d) * q + 2 * d
  <2>1. 2 * a + d \in Int /\ 2 * d \in Nat \ {0}
    OBVIOUS
  <2> QED
    BY <2>1, Division, Zenon
<1> HIDE DEF q
<1>3. (2 * d) * q = 2 * (d * q)
  BY <1>2
<1> QED
  BY <1>1, <1>2, <1>3

\* A place on an axis of the picture hits the pixel that shows it, or one that is
\* at most half a pixel away, whatever the sizes of the axis and of the grain.
THEOREM HalfAPixelAway ==
  ASSUME NEW first \in Int, NEW extent \in Nat \ {0}, NEW v \in Int, Normalized(v)
  PROVE  LET k == Pixel(first, extent, v) - first
         IN  /\ (2 * k - 1) * Den <= 2 * (v * extent)
             /\ 2 * (v * extent) < (2 * k + 3) * Den
<1> DEFINE a == v * (extent - 1)
           k == Round(a, Den)
<1>1. v \in Nat /\ v <= Den /\ Den \in Nat \ {0}
  BY DenAssumption DEF Normalized
<1>2. a \in Nat /\ v * extent = a + v
  BY <1>1
<1>3. k \in Int /\ 2 * (Den * k) <= 2 * a + Den /\ 2 * a < 2 * (Den * k) + Den
  BY <1>1, <1>2, RoundDistance, Zenon
<1> HIDE DEF a, k
<1>4. (2 * k - 1) * Den = 2 * (Den * k) - Den /\ (2 * k + 3) * Den = 2 * (Den * k) + 3 * Den
  BY <1>1, <1>3
<1>5. (2 * k - 1) * Den <= 2 * (v * extent) /\ 2 * (v * extent) < (2 * k + 3) * Den
  BY <1>1, <1>2, <1>3, <1>4
<1>6. Pixel(first, extent, v) - first = k
  BY <1>3 DEF Pixel, k, a
<1> QED
  BY <1>5, <1>6

-----------------------------------------------------------------------------
(* The packed point.                                                       *)

LEMMA Unpack ==
  ASSUME NEW b \in Nat \ {0}, NEW low \in 0 .. b - 1, NEW high \in Nat
  PROVE  (low + b * high) % b = low /\ (low + b * high) \div b = high
<1> DEFINE t == low + b * high
<1>1. t \in Nat /\ t \div b \in Int /\ b * (t \div b) <= t /\ t < b * (t \div b) + b
  BY Division
<1>2. t \div b <= high
  BY <1>1, FactorAtMost
<1>3. high <= t \div b
  BY <1>1, FactorAtMost
<1>4. t \div b = high
  BY <1>1, <1>2, <1>3
<1>5. t % b = t - b * (t \div b)
  BY <1>1
<1> QED
  BY <1>4, <1>5

LEMMA WordRoundTrip ==
  ASSUME NEW v \in Int, InRange(v)
  PROVE  v % Word \in 0 .. Word - 1 /\ Int32(v % Word) = v
  BY WordAssumption DEF InRange, Int32

LEMMA PointRoundTrip ==
  ASSUME NEW x \in Int, NEW y \in Int, InRange(x), InRange(y)
  PROVE  /\ Int32(pointToUintptr(x, y) % Word) = x
         /\ Int32(pointToUintptr(x, y) \div Word) = y
<1>1. x % Word \in 0 .. Word - 1 /\ y % Word \in 0 .. Word - 1
  BY WordRoundTrip
<1>2. /\ pointToUintptr(x, y) % Word = x % Word
      /\ pointToUintptr(x, y) \div Word = y % Word
  <2>1. Word \in Nat \ {0} /\ y % Word \in Nat
    BY <1>1, WordAssumption
  <2> QED
    BY <1>1, <2>1, Unpack, Zenon DEF pointToUintptr
<1> QED
  BY <1>2, WordRoundTrip

-----------------------------------------------------------------------------
(* The packet that is built for a valid event.                             *)

LEMMA PacketFields ==
  ASSUME NEW e, NEW down, NEW width, NEW height
  PROVE  LET made == Packet(e, down, width, height)
         IN  /\ made.flags = Flags(e.type, down)
             /\ made.x = Pixel(origin.left, width, e.x)
             /\ made.y = Pixel(origin.top, height, e.y)
             /\ made.target = pointToUintptr(made.x, made.y)
             /\ made.pressure = Pressure(e, down)
  BY DEF Packet

LEMMA Membership ==
  ASSUME NEW S, NEW x
  PROVE  (x \in S) \in BOOLEAN
  OBVIOUS

LEMMA DrawingFlags ==
  ASSUME NEW type \in EventTypes, NEW down \in BOOLEAN
  PROVE  /\ "inContact" \in Flags(type, down) <=> InkDownAfter(down, type)
         /\ "down" \in Flags(type, down) <=> type = "down"
         /\ "up" \in Flags(type, down) <=> type = "up"
  BY DEF EventTypes, Flags, InkDownAfter

LEMMA PressureBounds ==
  ASSUME NEW e, Valid(e), e.pressure \in Int, NEW down \in BOOLEAN
  PROVE  /\ Pressure(e, down) \in 0 .. 1024
         /\ Pressure(e, down) > 0 <=> "inContact" \in Flags(e.type, down)
<1>1. Round(e.pressure * 1024, Den) \in 0 .. 1024
  <2>1. e.pressure \in Nat /\ e.pressure <= Den /\ Den \in Nat \ {0}
    BY DenAssumption DEF Valid, Normalized
  <2> DEFINE most == 1024
  <2>2. most \in Nat
    OBVIOUS
  <2> HIDE DEF most
  <2>3. Round(e.pressure * most, Den) \in 0 .. most
    BY <2>1, <2>2, RoundBounds, Zenon
  <2> QED
    BY <2>3 DEF most
<1>2. "inContact" \in Flags(e.type, down) <=> InkDownAfter(down, e.type)
  BY DrawingFlags DEF Valid
<1> QED
  BY <1>1, <1>2 DEF Pressure, ensureContactPressure

-----------------------------------------------------------------------------
(* The invariant: what the packet of this call is like, and what isDown    *)
(* says of the calls before it.                                            *)

\* The packet's point is what was packed for WindowFromPoint.
Packed ==
  Accepted => /\ packet.x \in Int /\ packet.y \in Int
              /\ packet.target = pointToUintptr(packet.x, packet.y)

IsInput(e) == e.x \in Int /\ e.y \in Int /\ e.pressure \in Int

\* isDown is what the device would hold if it had taken the "down" or "up" that
\* it refused last.
IsDownExplained == isDown = IF missed = "none" THEN contact ELSE missed = "down"

\* While an event is being injected there is no packet yet.
OneAtATime == call # Idle => packet = NoPacket

IInv ==
  /\ TypeOK
  /\ OneAtATime
  /\ IsDownExplained
  /\ call = Idle \/ (Valid(call) /\ IsInput(call))
  /\ OnScreen
  /\ PressureMeansContact
  /\ Packed

LEMMA InitIInv == Init => IInv
<1> SUFFICES ASSUME Init PROVE IInv
  OBVIOUS
<1>1. TypeOK
  <2>1. origin.left \in Int /\ origin.top \in Int
    <3>1. origin.left = 0 /\ origin.top = 0
      BY DEF Init, NoOrigin
    <3> QED
      BY <3>1
  <2>2. isDown \in BOOLEAN /\ call = Idle /\ contact \in BOOLEAN /\ missed \in {"none", "down", "up"}
    BY DEF Init
  <2> QED
    BY <2>1, <2>2, Zenon DEF TypeOK
<1>2. ~Accepted
  BY DEF Init, Accepted
<1>3. call = Idle /\ IsDownExplained
  BY DEF Init, IsDownExplained
<1> QED
  BY <1>1, <1>2, <1>3 DEF IInv, OneAtATime, OnScreen, PressureMeansContact, Packed

\* The device takes the packet: it has the fields of the call and of the numbers
\* that VirtualBounds returned.
LEMMA Accepting ==
  ASSUME IInv, Finish, packet' # NoPacket
  PROVE  \E width, height \in Nat \ {0} :
           /\ \E d \in Displays : width = d.width
           /\ \E d \in Displays : height = d.height
           /\ DeviceAccepts(width, height)
<1>1. packet = NoPacket
  BY DEF IInv, OneAtATime, Finish
<1>2. PICK width \in {d.width : d \in Displays}, height \in {d.height : d \in Displays} :
        width > 0 /\ height > 0 /\ DeviceAccepts(width, height)
  BY <1>1 DEF Finish, DeviceRefuses
<1>3. width \in Nat \ {0} /\ height \in Nat \ {0}
  BY <1>2, DisplaysAssumption
<1> QED
  BY <1>2, <1>3

LEMMA FinishKeepsIInv ==
  ASSUME IInv, Finish
  PROVE  IInv'
<1>1. /\ Valid(call) /\ IsInput(call) /\ isDown \in BOOLEAN
      /\ origin.left \in Int /\ origin.top \in Int
      /\ isDown' = InkDownAfter(isDown, call.type) /\ call.type \in EventTypes
  BY DEF IInv, TypeOK, Finish, Valid
<1>2. /\ isDown' \in BOOLEAN /\ (call = Idle)' /\ OneAtATime'
      /\ origin'.left \in Int /\ origin'.top \in Int
  <2>1. origin'.left = 0 /\ origin'.top = 0
    BY DEF Finish, NoOrigin
  <2> QED
    BY <1>1, <2>1 DEF Finish, InkDownAfter, OneAtATime
<1>3. CASE packet' = NoPacket
  <2>1. packet = NoPacket
    BY DEF IInv, OneAtATime, Finish
  <2>2. DeviceRefuses
    <3>1. ASSUME NEW width, NEW height, DeviceAccepts(width, height)
          PROVE  FALSE
      BY <1>3, <3>1, PacketFields DEF DeviceAccepts, NoPacket, Flags
    <3> QED
      BY <3>1 DEF Finish
  <2>3. ~Accepted'
    BY <1>3 DEF Accepted
  <2>4. IsDownExplained' /\ contact' \in BOOLEAN /\ missed' \in {"none", "down", "up"}
    BY <1>1, <2>2 DEF DeviceRefuses, IInv, IsDownExplained, TypeOK, EventTypes, InkDownAfter
  <2> QED
    BY <1>2, <2>3, <2>4 DEF IInv, TypeOK, OnScreen, PressureMeansContact, Packed
<1>4. CASE packet' # NoPacket
  <2>1. PICK width \in Nat \ {0}, height \in Nat \ {0} : DeviceAccepts(width, height)
    BY <1>4, Accepting
  <2>2. /\ packet'.flags = Flags(call.type, isDown) /\ packet'.pressure = Pressure(call, isDown)
        /\ packet'.x = Pixel(origin.left, width, call.x)
        /\ packet'.y = Pixel(origin.top, height, call.y)
        /\ packet'.target = pointToUintptr(packet'.x, packet'.y)
    BY <2>1, PacketFields DEF DeviceAccepts
  <2>3. Normalized(call.x) /\ Normalized(call.y) /\ call.x \in Int /\ call.y \in Int
    BY <1>1 DEF Valid, IsInput
  <2>4. /\ packet'.x \in Int
        /\ origin.left <= packet'.x /\ packet'.x < origin.left + width
    BY <1>1, <2>2, <2>3, PixelBounds, Zenon
  <2>5. /\ packet'.y \in Int
        /\ origin.top <= packet'.y /\ packet'.y < origin.top + height
    BY <1>1, <2>2, <2>3, PixelBounds, Zenon
  <2>6. /\ screen'.left = origin.left /\ screen'.top = origin.top
        /\ screen'.width = width /\ screen'.height = height
    BY <2>1 DEF DeviceAccepts
  <2>7. OnScreen' /\ Packed'
    BY <2>2, <2>4, <2>5, <2>6 DEF OnScreen, Packed
  <2>8. PressureMeansContact'
    <3>1. /\ Pressure(call, isDown) \in 0 .. 1024
          /\ Pressure(call, isDown) > 0 <=> "inContact" \in Flags(call.type, isDown)
      <4>1. Valid(call) /\ call.pressure \in Int /\ isDown \in BOOLEAN
        BY <1>1 DEF IsInput
      <4> QED
        BY <4>1, PressureBounds
    <3> QED
      BY <2>2, <3>1 DEF PressureMeansContact
  <2>9. IsDownExplained' /\ contact' \in BOOLEAN /\ missed' = "none"
    <3>1. (contact' <=> "inContact" \in packet'.flags) /\ contact' \in BOOLEAN /\ missed' = "none"
      <4>1. contact' = ("inContact" \in packet'.flags)
        BY <2>1, Zenon DEF DeviceAccepts
      <4>2. contact' <=> "inContact" \in packet'.flags
        BY <4>1, Zenon
      <4>3. contact' \in BOOLEAN
        BY <4>1, Membership, Zenon
      <4>4. missed' = "none"
        BY <2>1, Zenon DEF DeviceAccepts
      <4> QED
        BY <4>2, <4>3, <4>4
    <3>2. "inContact" \in packet'.flags <=> InkDownAfter(isDown, call.type)
      BY <1>1, <2>2, DrawingFlags
    <3>3. isDown' <=> contact'
      BY <1>1, <3>1, <3>2
    <3>4. isDown' = contact'
      BY <1>2, <3>1, <3>3, Zenon
    <3> QED
      BY <3>1, <3>4 DEF IsDownExplained
  <2> QED
    BY <1>2, <2>7, <2>8, <2>9 DEF IInv, TypeOK
<1> QED
  BY <1>3, <1>4

LEMMA NextIInv == IInv /\ [Next]_vars => IInv'
<1> SUFFICES ASSUME IInv, [Next]_vars PROVE IInv'
  OBVIOUS
<1> USE DEF IInv, TypeOK, IsDownExplained, OneAtATime, OnScreen, PressureMeansContact, Packed, Accepted
<1>1. ASSUME NEW e \in Inputs, Begin(e)
      PROVE IInv'
  <2>1. Valid(e) /\ IsInput(e) /\ e.type \in EventTypes
        /\ e.x \in 0 .. Den /\ e.y \in 0 .. Den /\ e.pressure \in 0 .. Den
    BY <1>1, InputsAssumption, DenAssumption DEF Begin, IsInput, Valid, Normalized
  <2>2. origin'.left \in Int /\ origin'.top \in Int
    BY <1>1, DisplaysAssumption DEF Begin
  <2> QED
    BY <1>1, <2>1, <2>2 DEF Begin
<1>2. CASE Refuse
  <2>1. origin'.left = 0 /\ origin'.top = 0
    BY <1>2 DEF Refuse, NoOrigin
  <2> QED
    BY <1>2, <2>1 DEF Refuse
<1>3. CASE Finish
  BY <1>3, FinishKeepsIInv
<1>4. CASE Return
  BY <1>4 DEF Return
<1>5. CASE UNCHANGED vars
  BY <1>5 DEF vars
<1> QED
  BY <1>1, <1>2, <1>3, <1>4, <1>5 DEF Next

\* IInv holds in every reachable state.
THEOREM Invariance == Spec => []IInv
  BY InitIInv, NextIInv, PTL DEF Spec

\* Every packet lies on the virtual screen it was computed for.
THEOREM PacketsOnScreen == Spec => []OnScreen
<1>1. IInv => OnScreen
  BY DEF IInv
<1> QED
  BY <1>1, Invariance, PTL

\* Contact packets, and only they, have a pressure, and it is within 1 .. 1024.
THEOREM PressureIsContact == Spec => []PressureMeansContact
<1>1. IInv => PressureMeansContact
  BY DEF IInv
<1> QED
  BY <1>1, Invariance, PTL

\* WindowFromPoint is asked for the packet's own location.
THEOREM TargetIsLocation == Spec => []TargetUnderPen
<1>1. IInv => TargetUnderPen
  BY PointRoundTrip DEF IInv, Packed, TargetUnderPen
<1> QED
  BY <1>1, Invariance, PTL

\* Type correctness.
THEOREM TypeCorrect == Spec => []TypeOK
<1>1. IInv => TypeOK
  BY DEF IInv
<1> QED
  BY <1>1, Invariance, PTL

\* The device is told of whole strokes, but for the "down" and "up" it refuses.
THEOREM DeviceToldWholeStrokes == Spec => StrokesWhole
<1> DEFINE Whole ==
      packet' # packet /\ packet' # NoPacket =>
        LET drawing == "inContact" \in packet'.flags
        IN  /\ drawing /\ "down" \notin packet'.flags => contact \/ missed = "down"
            /\ ~drawing /\ "up" \notin packet'.flags => ~contact \/ missed = "up"
<1>1. ASSUME IInv, Next, packet' # packet, packet' # NoPacket
      PROVE  Whole
  <2>1. Finish
    BY <1>1 DEF Next, Begin, Refuse, Return
  <2>2. PICK width, height : packet' = Packet(call, isDown, width, height)
    BY <1>1, <2>1, Accepting DEF DeviceAccepts
  <2>3. packet'.flags = Flags(call.type, isDown)
    BY <2>2, PacketFields
  <2>4. call.type \in EventTypes /\ isDown \in BOOLEAN
    BY <1>1, <2>1 DEF Finish, IInv, TypeOK, Valid
  <2>5. "inContact" \in packet'.flags /\ "down" \notin packet'.flags => isDown
    BY <2>3, <2>4, DrawingFlags DEF InkDownAfter
  <2>6. "inContact" \notin packet'.flags /\ "up" \notin packet'.flags => ~isDown
    BY <2>3, <2>4, DrawingFlags DEF InkDownAfter, EventTypes
  <2>7. /\ isDown => contact \/ missed = "down"
        /\ ~isDown => ~contact \/ missed = "up"
    BY <1>1 DEF IInv, IsDownExplained, TypeOK
  <2> QED
    BY <2>5, <2>6, <2>7
<1>2. IInv /\ [Next]_vars => [Whole]_vars
  <2>1. UNCHANGED vars \/ packet' = packet \/ packet' = NoPacket => [Whole]_vars
    BY DEF vars
  <2> HIDE DEF Whole
  <2> QED
    BY <1>1, <2>1
<1> QED
  BY <1>2, Invariance, PTL DEF Spec, StrokesWhole

=============================================================================
