------------------------------ MODULE AtomicPen ------------------------------
(***************************************************************************)
(* What the pen controller of the server promises to its callers: every    *)
(* pen event is applied in one step to the backend that is active at that  *)
(* step, and a backend switch is one step.  No lock and no goroutine is    *)
(* visible here.  PenController implements this module; PenPipeline uses   *)
(* its operators as the server behind the network.                         *)
(*                                                                         *)
(* Two backends exist.  Windows Ink drives a synthetic pointer device of   *)
(* the operating system and keeps a flag isDown of its own; the WinTab     *)
(* bridge publishes the latest packet in shared memory (module             *)
(* WinTabBridge has that memory store by store).  pen[b] is the contact    *)
(* state that backend b last handed over: the contact flag of the last     *)
(* packet the device accepted for Ink, InContact of the last published     *)
(* packet for WinTab.                                                      *)
(***************************************************************************)

EXTENDS PenEvents

VARIABLES active,       \* controller.active
          isDown,       \* windowsInkInjector.isDown
          pen           \* contact state last handed over, per backend

-----------------------------------------------------------------------------

Init ==
  /\ active = Ink
  /\ isDown = FALSE
  /\ pen = [b \in Backends |-> FALSE]

\* The device accepts the packet.
InkAccepted(event) ==
  /\ active = Ink
  /\ isDown' = InkDownAfter(isDown, event)
  /\ pen' = [pen EXCEPT ![Ink] = InkDownAfter(isDown, event)]
  /\ UNCHANGED active

\* InjectSyntheticPointerInput fails after isDown was already assigned.
InkRefused(event) ==
  /\ active = Ink
  /\ isDown' = InkDownAfter(isDown, event)
  /\ UNCHANGED <<active, pen>>

TabPublished(event) ==
  /\ active = Tab
  /\ pen' = [pen EXCEPT ![Tab] = TabContact(event)]
  /\ UNCHANGED <<active, isDown>>

Inject(event) == InkAccepted(event) \/ InkRefused(event) \/ TabPublished(event)

SetBackend(backend) ==
  /\ backend \in Available
  /\ active' = backend
  /\ UNCHANGED <<isDown, pen>>

Next ==
  \/ \E event \in EventTypes : Inject(event)
  \/ \E backend \in Backends : SetBackend(backend)

vars == <<active, isDown, pen>>

Spec == Init /\ [][Next]_vars

=============================================================================
