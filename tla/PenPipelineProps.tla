--------------------------- MODULE PenPipelineProps ---------------------------
(***************************************************************************)
(* What becomes of a stroke between the page and the backends.             *)
(***************************************************************************)
EXTENDS PenPipeline

\* Type invariant.
TypeOK ==
  /\ touching \in [Clients -> SUBSET Pointers]
  /\ activePointer \in [Clients -> Pointers \cup {NoPointer}]
  /\ handled \in [Clients -> 0 .. MaxHandled]
  /\ socket \in [Clients -> {"connecting", "open", "closed"}]
  /\ wire \in [Clients -> Seq(Message)]
  /\ served \in [Clients -> [type : EventTypes \cup {"none", "missed"},
                             pointer : Pointers \cup {NoPointer}]]
  /\ test \in [Tests -> EventTypes \cup {"none"}]
  /\ testMoves \in [Tests -> 0 .. TestMoves]
  /\ stranded \in [Backends -> BOOLEAN]
  /\ active \in Available /\ isDown \in BOOLEAN /\ pen \in [Backends -> BOOLEAN]

\* Every message of a page, as it is read by the server: the one read last and
\* those on the wire.
Stream(c) == <<served[c]>> \o wire[c]

Over(m) == m.type \in {"none", "up"}

Follows(next, this) ==
  IF Over(this) THEN next.type = "down"
  ELSE next.type # "down" /\ next.pointer = this.pointer

\* A palm or a second finger never gets into a stroke, and no stroke begins
\* without its "down": a "down" is the first message or follows an "up", and all
\* messages from one "down" to its "up" are of one pointer (activePointerId in
\* main.ts and the order of the WebSocket).  The exception is a stroke that was
\* under way when the socket opened: its rest comes first.
OneStrokeAtATime ==
  \A c \in Clients : \A i \in 1 .. Len(wire[c]) :
    Follows(Stream(c)[i + 1], Stream(c)[i])

\* The page and the stream agree on whether a stroke is open and on its pointer,
\* as long as the socket stays open: no "down" and no "up" of a stroke is
\* forgotten, and no stroke goes on after its "up".
StrokeKnown ==
  \A c \in Clients :
    socket[c] = "open" =>
      LET last == Stream(c)[Len(wire[c]) + 1]
      IN  IF activePointer[c] = NoPointer THEN Over(last)
          ELSE ~Over(last) /\ last.pointer = activePointer[c]

\* When nothing is under way, a backend sees the pen in contact only if the "up"
\* that was to lift it is lost: refused by the device, gone to another backend
\* after a switch, given up by a test stroke that failed after its "down", or
\* never sent by a page that disconnected in mid-stroke; and one accepted "up"
\* repairs it.  Concurrent strokes of several pages and of pressure tests, and
\* refusals of anything else, never leave the pen down by themselves.
NoTests == \A t \in Tests : test[t] = "none"

Quiet ==
  /\ NoTests
  /\ \A c \in Clients : wire[c] = <<>> /\ (socket[c] = "open" => activePointer[c] = NoPointer)

PenRests == Quiet => \A b \in Backends : pen[b] => stranded[b]

\* Once every page's strokes have ended, the server catches up with them and
\* the pen is lifted, with the same exceptions: an injection that fails does
\* not end the connection that its stroke's "up" will come by.
Lifted == \A c \in Clients : activePointer[c] = NoPointer \/ socket[c] # "open"

PenLifts ==
  <>[](Lifted /\ NoTests) => <>[]\A b \in Backends : pen[b] => stranded[b]

=============================================================================
