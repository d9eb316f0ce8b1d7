----------------------------- MODULE PenPipeline -----------------------------
(***************************************************************************)
(* A stroke on its way from the stage of a browser page to the pen         *)
(* backends: the pointer handlers of client/src/main.ts, PenTransport, the *)
(* WebSocket as a FIFO channel, handlePenSocket and the pressure-test      *)
(* request of internal/web, and the pen controller.  The controller is the *)
(* abstract one (AtomicPen, which PenController implements): every         *)
(* injection is one step, so the interleavings here are those of messages. *)
(*                                                                         *)
(* A page connects once and never again; a reloaded page is another        *)
(* client.  Several clients may be connected, and nothing keeps them       *)
(* apart: they share the one active backend and its contact state.         *)
(***************************************************************************)
EXTENDS PenEvents, Integers, Sequences

CONSTANTS Clients,      \* pages that load the program
          Pointers,     \* pointer ids a page sees: the pencil, a palm, a finger
          NoPointer,    \* activePointerId === null
          MaxHandled,   \* bound: pointer events a page handles
          Tests,        \* bound: pressure tests under way at once
          TestMoves     \* moves of a pressure-test stroke (60 in the program)

VARIABLES
  touching,     \* the pointers down on each page's stage
  activePointer,\* activePointerId of each page
  handled,      \* bound counter
  socket,       \* each page's connection: "connecting", "open" or "closed"
  wire,         \* messages sent and not yet read by the server
  served,       \* history: the last message the server read from each page
  test,         \* each pressure test: "none" or the next thing it injects
  testMoves,    \* its loop counter
  stranded,     \* history: the "up" that was to lift this backend's pen is lost
  active, isDown, pen   \* the controller, see AtomicPen

page   == <<touching, activePointer, handled>>
net    == <<socket, wire>>
request == <<test, testMoves>>
backend == <<active, isDown, pen>>
vars   == <<page, net, served, request, stranded, backend>>

Pen == INSTANCE AtomicPen

ASSUME PointerAssumption == NoPointer \notin Pointers
ASSUME CountAssumption == MaxHandled \in Nat /\ TestMoves \in Nat

Message == [type : EventTypes, pointer : Pointers]

\* What served has before the first message: nothing, or the beginning of a
\* stroke that was dropped because the socket opened in the middle of it.
NoMessage == [type |-> "none", pointer |-> NoPointer]
Missed(p) == [type |-> "missed", pointer |-> p]

Init ==
  /\ touching = [c \in Clients |-> {}]
  /\ activePointer = [c \in Clients |-> NoPointer]
  /\ handled = [c \in Clients |-> 0]
  /\ socket = [c \in Clients |-> "connecting"]
  /\ wire = [c \in Clients |-> <<>>]
  /\ served = [c \in Clients |-> NoMessage]
  /\ test = [t \in Tests |-> "none"]
  /\ testMoves = [t \in Tests |-> 0]
  /\ stranded = [b \in Backends |-> FALSE]
  /\ Pen!Init

-----------------------------------------------------------------------------
(* The page.                                                               *)

\* PenTransport.send drops the message silently unless the socket is open.
Send(c, type, p) ==
  wire' = IF socket[c] = "open"
          THEN [wire EXCEPT ![c] = Append(@, [type |-> type, pointer |-> p])]
          ELSE wire

Handle(c) == handled[c] < MaxHandled /\ handled' = [handled EXCEPT ![c] = @ + 1]

\* Mutant: every pointer starts a stroke.
StartsAnyway(c) == TRUE

StartsStroke(c) == activePointer[c] = NoPointer

\* Only the first pointer to touch an unused stage starts a stroke.
PointerDown(c, p) ==
  /\ p \notin touching[c]
  /\ Handle(c)
  /\ touching' = [touching EXCEPT ![c] = @ \cup {p}]
  /\ IF StartsStroke(c)
       THEN activePointer' = [activePointer EXCEPT ![c] = p] /\ Send(c, "down", p)
       ELSE UNCHANGED <<activePointer, wire>>
  /\ UNCHANGED <<socket, served, request, stranded, backend>>

\* One of the coalesced points of a pointermove.
PointerMove(c, p) ==
  /\ p \in touching[c]
  /\ p = activePointer[c]
  /\ Handle(c)
  /\ Send(c, "move", p)
  /\ UNCHANGED <<touching, activePointer, socket, served, request, stranded, backend>>

\* Mutant: a cancelled pointer is forgotten without an "up".
SendNothing(c, p) == UNCHANGED wire

SendUp(c, p) == Send(c, "up", p)

\* handlePointerEnd, for pointerup and pointercancel.  Not bounded: whatever
\* touched the stage can leave it.
PointerEnd(c, p) ==
  /\ p \in touching[c]
  /\ touching' = [touching EXCEPT ![c] = @ \ {p}]
  /\ IF activePointer[c] = p
       THEN SendUp(c, p) /\ activePointer' = [activePointer EXCEPT ![c] = NoPointer]
       ELSE UNCHANGED <<activePointer, wire>>
  /\ UNCHANGED <<handled, socket, served, request, stranded, backend>>

-----------------------------------------------------------------------------
(* Injections.                                                             *)

\* An injection ends well, or fails in the Windows Ink injector: in the system
\* call, with isDown assigned, or before it, with nothing assigned.
Done(event) == Pen!InkAccepted(event) \/ Pen!TabPublished(event)

Fails(event) ==
  \/ Pen!InkRefused(event)
  \/ active = Ink /\ UNCHANGED backend

\* The active backend, if it is left in contact, now lacks an "up" that is
\* lost, or lacked one before.
Account(lost) ==
  stranded' = [stranded EXCEPT ![active] = pen'[active] /\ (@ \/ lost)]

-----------------------------------------------------------------------------
(* The connection.                                                         *)

SocketOpens(c) ==
  /\ socket[c] = "connecting"
  /\ socket' = [socket EXCEPT ![c] = "open"]
  /\ served' = [served EXCEPT ![c] = IF activePointer[c] = NoPointer THEN NoMessage
                                     ELSE Missed(activePointer[c])]
  /\ UNCHANGED <<page, wire, request, stranded, backend>>

\* The page is closed or the network fails: what the server has not read may be
\* lost from some message on, and nothing tells it that a stroke was open.
SocketCloses(c) ==
  /\ socket[c] # "closed"
  /\ socket' = [socket EXCEPT ![c] = "closed"]
  /\ \E k \in 0 .. Len(wire[c]) : wire' = [wire EXCEPT ![c] = SubSeq(@, 1, k)]
  /\ UNCHANGED <<page, served, request, backend>>
  /\ Account(wire'[c] = <<>> /\ served[c].type \in {"down", "move"})

-----------------------------------------------------------------------------
(* The server.                                                             *)

\* A stroke ends with this message though it is no "up".
BreaksOff(c, event) == socket[c] = "closed" /\ Len(wire[c]) = 1 /\ event # "up"

\* Mutant: handlePenSocket returns at the first failure.
ServeUntilError(c) ==
  /\ wire[c] # <<>>
  /\ served' = [served EXCEPT ![c] = Head(wire[c])]
  /\ LET event == Head(wire[c]).type IN
       \/ /\ Done(event)
          /\ Account(BreaksOff(c, event))
          /\ wire' = [wire EXCEPT ![c] = Tail(@)]
          /\ UNCHANGED socket
       \/ /\ Fails(event)
          /\ Account(BreaksOff(c, event) \/ event = "up")
          /\ wire' = [wire EXCEPT ![c] = <<>>]
          /\ socket' = [socket EXCEPT ![c] = "closed"]
  /\ UNCHANGED <<page, request>>

\* handlePenSocket reads one message and injects it; after a failure it reports
\* the error to the page and reads on.
Serve(c) ==
  /\ wire[c] # <<>>
  /\ wire' = [wire EXCEPT ![c] = Tail(@)]
  /\ served' = [served EXCEPT ![c] = Head(wire[c])]
  /\ LET event == Head(wire[c]).type IN
       \/ Done(event) /\ Account(BreaksOff(c, event))
       \/ Fails(event) /\ Account(BreaksOff(c, event) \/ event = "up")
  /\ UNCHANGED <<page, socket, request>>

\* POST /api/pen/backend.
SwitchBackend(b) ==
  /\ b # active
  /\ Pen!SetBackend(b)
  /\ Account(TRUE)
  /\ UNCHANGED <<page, net, served, request>>

\* POST /api/pen/test-stroke: a down, the moves and an up, with the page's own
\* events and those of other tests between them.  A page's button is disabled
\* while its test runs, but nothing keeps the tests of two pages apart.
TestBegins(t) ==
  /\ test[t] = "none"
  /\ test' = [test EXCEPT ![t] = "down"]
  /\ UNCHANGED <<page, net, served, testMoves, stranded, backend>>

\* Mutant: the loop runs once more than it should.
NextTestLonger(moves) == IF moves <= TestMoves THEN "move" ELSE "up"

\* Mutant: the stroke ends with its last move.
NextTestOpen(moves) == IF moves < TestMoves THEN "move" ELSE "none"

NextTest(moves) == IF moves < TestMoves THEN "move" ELSE "up"

Counted(event, moves) ==
  IF event = "up" THEN 0 ELSE IF event = "move" THEN moves + 1 ELSE moves

TestStep(t) ==
  /\ test[t] # "none"
  /\ \/ /\ Done(test[t])
        /\ Account(FALSE)
        /\ testMoves' = [testMoves EXCEPT ![t] = Counted(test[t], @)]
        /\ test' = [test EXCEPT ![t] = IF @ = "up" THEN "none" ELSE NextTest(testMoves'[t])]
     \/ /\ Fails(test[t])      \* the request ends there
        /\ Account(test[t] # "down")
        /\ test' = [test EXCEPT ![t] = "none"]
        /\ testMoves' = [testMoves EXCEPT ![t] = 0]
  /\ UNCHANGED <<page, net, served>>

-----------------------------------------------------------------------------

Next ==
  \/ \E c \in Clients :
       \/ \E p \in Pointers : PointerDown(c, p) \/ PointerMove(c, p) \/ PointerEnd(c, p)
       \/ SocketOpens(c)
       \/ SocketCloses(c)
       \/ Serve(c)
  \/ \E b \in Backends : SwitchBackend(b)
  \/ \E t \in Tests : TestBegins(t) \/ TestStep(t)

Spec == Init /\ [][Next]_vars

\* A connection's goroutine reads what has arrived and a test request runs to
\* its end.
Fairness == (\A t \in Tests : WF_vars(TestStep(t))) /\ \A c \in Clients : WF_vars(Serve(c))

FairSpec == Spec /\ Fairness

=============================================================================
