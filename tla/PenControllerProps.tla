-------------------------- MODULE PenControllerProps --------------------------
(***************************************************************************)
(* What the locking of PenController is for.                               *)
(***************************************************************************)
EXTENDS PenController

Labels == {"idle", "rlock", "rwait", "held", "lock", "build", "send",
           "wlock", "drain", "set"}

Ops == [kind : {"none", "inject", "switch", "active", "health", "infos"},
        event : EventTypes, backend : Requestable,
        contact : BOOLEAN, before : BOOLEAN]

\* Type invariant.  The active backend is an available one, whatever was
\* requested, so controller.Inject never reaches its error "backend unavailable".
TypeOK ==
  /\ active \in Available
  /\ isDown \in BOOLEAN
  /\ pen \in [Backends -> BOOLEAN]
  /\ readers \subseteq Procs
  /\ writer \in Procs \cup {NoProc}
  /\ mutex \in [Backends -> Procs \cup {NoProc}]
  /\ pc \in [Procs -> Labels]
  /\ op \in [Procs -> Ops]
  /\ accepted \in BOOLEAN

\* The goroutines between RLock and RUnlock, and those inside an injector.
Reading(p)   == pc[p] \in {"held", "lock", "build", "send"}
Injecting(p) == pc[p] \in {"lock", "build", "send"}
Inside(p)    == pc[p] \in {"build", "send"}

\* A goroutine that has picked its backend finishes on it while that backend is
\* still the active one: once SetBackend has returned, no event that was under
\* way reaches the backend it left (controller.Inject keeps the read lock over
\* entry.injector.Inject).
InjectsIntoActive ==
  \A p \in Procs : Injecting(p) => op[p].backend = active

\* When no goroutine is inside the Ink injector and the device took the last
\* packet, isDown and the contact state the device was left in agree: the
\* packets reach the device in the order in which isDown was updated.
InkAgrees ==
  mutex[Ink] = NoProc /\ accepted => pen[Ink] = isDown

\* Every call returns: no order of the three locks blocks a goroutine for good,
\* a switch is not starved by a stream of events, nor an event by switches.
CallsReturn == \A p \in Procs : pc[p] # "idle" ~> pc[p] = "idle"

\* PenController implements AtomicPen.  An event takes effect when its packet is
\* handed over; until then isDown is seen as it was before the packet was built.
InkSender == mutex[Ink] # NoProc /\ pc[mutex[Ink]] = "send"

isDownBar == IF InkSender THEN op[mutex[Ink]].before ELSE isDown

Atomic == INSTANCE AtomicPen WITH isDown <- isDownBar

AppliesAtomically == Atomic!Spec

=============================================================================
