------------------------------- MODULE PenStage -------------------------------
(***************************************************************************)
(* From a pointer event on the stage to the pen event of client/src/       *)
(* main.ts.  The picture of the desktop keeps its shape on the stage       *)
(* (object-fit: contain in style.css), with bars on two sides.             *)
(*                                                                         *)
(* A touch has the size of the stage, the natural size of the picture (0   *)
(* before there is one) and the place of the pointer relative to the       *)
(* stage, in CSS pixels.                                                   *)
(***************************************************************************)
EXTENDS InkInjector

OrElse(size, other) == IF size = 0 THEN other ELSE size
AtLeastOne(size) == IF size < 1 THEN 1 ELSE size

\* Mutant: the picture is taken to fill the stage.
SpanStretched(side, across, width, height) == [offset |-> 0, extent |-> side, unit |-> 1]

\* The part of a side of the stage that the picture takes, in units of a
\* fraction of a pixel, where the picture is width along that side and height
\* across it: all of it unless the stage is longer than the picture's shape.
Span(side, across, width, height) ==
  IF side * height > across * width
  THEN [offset |-> side * height - across * width, extent |-> 2 * across * width,
        unit |-> 2 * height]
  ELSE [offset |-> 0, extent |-> side, unit |-> 1]

visibleScreenRect(touch) ==
  LET stageWidth == AtLeastOne(touch.stageWidth)
      stageHeight == AtLeastOne(touch.stageHeight)
      width == OrElse(touch.naturalWidth, stageWidth)
      height == OrElse(touch.naturalHeight, stageHeight)
  IN  [x |-> Span(stageWidth, stageHeight, width, height),
       y |-> Span(stageHeight, stageWidth, height, width)]

\* Where a pointer is in the picture, in multiples of 1/Den.
normalizedScreenPoint(place, span) ==
  clampInt(Round(Den * (place * span.unit - span.offset), span.extent), 0, Den)

pointFromPointerEvent(touch) ==
  [x |-> clampInt(touch.x, 0, touch.stageWidth), y |-> clampInt(touch.y, 0, touch.stageHeight)]

\* In multiples of 1/Den; only a pen has a pressure of its own.
pressureFromPointerEvent(touch) ==
  IF touch.pointer = "pen" THEN clampInt(touch.pressure, 0, Den)
  ELSE IF touch.buttons = 0 THEN 0 ELSE Den \div 2

sendPenEvent(type, touch) ==
  LET point == pointFromPointerEvent(touch)
      rect == visibleScreenRect(touch)
  IN  [type |-> type,
       x |-> normalizedScreenPoint(point.x, rect.x),
       y |-> normalizedScreenPoint(point.y, rect.y),
       pressure |-> IF type = "up" THEN 0 ELSE pressureFromPointerEvent(touch),
       twist |-> 0, tiltX |-> 0, tiltY |-> 0,
       touch |-> touch]     \* history: what the event was made of

=============================================================================
