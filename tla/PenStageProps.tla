----------------------------- MODULE PenStageProps -----------------------------
(***************************************************************************)
(* The way from a touch on the page to the packet for the device: what     *)
(* visibleScreenRect computes from the picture and the Ink injector from   *)
(* the desktop have to agree with what the browser draws.                  *)
(***************************************************************************)
EXTENDS PenStage, InkInjectorProps

\* The picture as the browser draws it, along a side of the stage: in the
\* middle, as large as fits, without a change of shape.
Drawn(span, side, across, width, height) ==
  /\ 2 * span.offset + span.extent = side * span.unit
  /\ span.offset >= 0
  /\ span.extent * height <= across * width * span.unit
  /\ span.offset = 0 \/ span.extent * height = across * width * span.unit

\* A pointer in a bar means the edge next to it.  On the picture it hits a pixel
\* that is at most half a pixel away from the place it points at, and exactly
\* the pixel in whose middle it is.
Hits(place, span, pixel, size) ==
  LET at == place * span.unit - span.offset     \* in units of the span
  IN  IF at < 0 THEN pixel = 0
      ELSE IF at > span.extent THEN pixel = size - 1
      ELSE /\ (2 * pixel - 1) * span.extent <= 2 * at * size
           /\ 2 * at * size <= (2 * pixel + 3) * span.extent
           /\ \A k \in 0 .. size - 1 : 2 * at * size = (2 * k + 1) * span.extent => pixel = k

\* What the user touches on the picture is what is hit on the screen, on every
\* shape of stage and picture: a packet made of a touch has the place on the
\* screen that the touch has on the drawn picture (visibleScreenRect,
\* normalizedScreenPoint and the rounding in windowsInkInjector.Inject).
TouchesHit ==
  [][packet' # packet /\ "touch" \in DOMAIN call =>
       LET touch == call.touch
           rect == visibleScreenRect(touch)
           width == OrElse(touch.naturalWidth, touch.stageWidth)
           height == OrElse(touch.naturalHeight, touch.stageHeight)
       IN  /\ Drawn(rect.x, touch.stageWidth, touch.stageHeight, width, height)
           /\ Drawn(rect.y, touch.stageHeight, touch.stageWidth, height, width)
           /\ Hits(touch.x, rect.x, packet'.x - screen'.left, screen'.width)
           /\ Hits(touch.y, rect.y, packet'.y - screen'.top, screen'.height)]_vars

=============================================================================
