---------------------------- MODULE PenController ----------------------------
(***************************************************************************)
(* The pen controller of the server (internal/pen) under concurrent        *)
(* callers.  Every WebSocket connection, pressure-test request and backend *)
(* request of internal/web runs on a goroutine of its own and calls the    *)
(* same controller.  Three locks order them: controller.mutex, a           *)
(* sync.RWMutex that Inject, ActiveBackend and Backends take for reading   *)
(* and SetBackend for writing, and one sync.Mutex in each injector.        *)
(*                                                                         *)
(* A goroutine is at pc[p]:                                                *)
(*   "idle"   between two calls                                            *)
(*   "rlock"  calls RLock;  "rwait" sleeps in it behind a writer           *)
(*   "held"   holds the read lock and has read nothing yet                 *)
(*   "lock"   has picked the active entry and calls the injector's Lock    *)
(*   "build"  holds the injector's lock, the packet is not built yet       *)
(*   "send"   packet built, not yet handed over                            *)
(*   "wlock"  calls Lock of the RWMutex;  "drain" has announced itself as  *)
(*            the writer and waits for the readers that were inside        *)
(*   "set"    holds the write lock                                         *)
(***************************************************************************)
EXTENDS PenEvents

CONSTANTS Procs,        \* goroutines of net/http that call the controller
          NoProc,       \* nobody
          Events,       \* bound: the event types callers send
          Requests      \* bound: the backends a POST /api/pen/backend names

VARIABLES active,       \* controller.active
          isDown,       \* windowsInkInjector.isDown
          pen,          \* contact state last handed over, per backend
          readers,      \* goroutines holding controller.mutex for reading
          writer,       \* the goroutine that announced or holds the write lock
          mutex,        \* holder of each injector's mutex
          pc,           \* where each goroutine is
          op,           \* its arguments and local variables
          accepted      \* history: the device took the last Ink packet

vars == <<active, isDown, pen, readers, writer, mutex, pc, op, accepted>>

\* The bodies a POST /api/pen/backend can carry: a known id or any other string.
Requestable == Backends \cup {"unknown"}

ASSUME NoProcAssumption == NoProc \notin Procs
ASSUME InputAssumption == Events \subseteq EventTypes /\ Requests \subseteq Requestable

\* op[p].kind is what the goroutine wants the read lock for; .before is the
\* value isDown had when p built its packet (a history value, used only by the
\* refinement mapping).
NoOp == [kind |-> "none", event |-> "up", backend |-> Ink,
         contact |-> FALSE, before |-> FALSE]

InjectOp(event)    == [NoOp EXCEPT !.kind = "inject", !.event = event]
SwitchOp(backend)  == [NoOp EXCEPT !.kind = "switch", !.backend = backend]
ReadOp(kind)       == [NoOp EXCEPT !.kind = kind]

Picked(call, backend)        == [call EXCEPT !.backend = backend]
Built(call, contact, before) == [call EXCEPT !.contact = contact, !.before = before]

Init ==
  /\ active = Ink
  /\ isDown = FALSE
  /\ pen = [b \in Backends |-> FALSE]
  /\ readers = {}
  /\ writer = NoProc
  /\ mutex = [b \in Backends |-> NoProc]
  /\ pc = [p \in Procs |-> "idle"]
  /\ op = [p \in Procs |-> NoOp]
  /\ accepted = TRUE

Goto(p, label) == pc' = [pc EXCEPT ![p] = label]

Return(p) ==
  /\ pc' = [pc EXCEPT ![p] = "idle"]
  /\ op' = [op EXCEPT ![p] = NoOp]

-----------------------------------------------------------------------------
(* Calls made by the handlers of internal/web.                             *)

\* handlePenSocket and injectPressureTestStroke hand over one event.
CallInject(p, event) ==
  /\ pc[p] = "idle"
  /\ Goto(p, "rlock")
  /\ op' = [op EXCEPT ![p] = InjectOp(event)]
  /\ UNCHANGED <<active, isDown, pen, readers, writer, mutex, accepted>>

\* POST /api/pen/backend.
CallSetBackend(p, backend) ==
  /\ pc[p] = "idle"
  /\ Goto(p, "wlock")
  /\ op' = [op EXCEPT ![p] = SwitchOp(backend)]
  /\ UNCHANGED <<active, isDown, pen, readers, writer, mutex, accepted>>

\* GET /api/pen/backend and GET /api/diagnostics ("active") read the active
\* backend and then the list of backends; GET /api/health reads only the first.
CallState(p, kind) ==
  /\ pc[p] = "idle"
  /\ Goto(p, "rlock")
  /\ op' = [op EXCEPT ![p] = ReadOp(kind)]
  /\ UNCHANGED <<active, isDown, pen, readers, writer, mutex, accepted>>

-----------------------------------------------------------------------------
(* sync.RWMutex.                                                           *)

\* A reader passes unless a writer is announced; then it sleeps.
RLock(p) ==
  /\ pc[p] = "rlock"
  /\ IF writer = NoProc
       THEN readers' = readers \cup {p} /\ Goto(p, "held")
       ELSE Goto(p, "rwait") /\ UNCHANGED readers
  /\ UNCHANGED <<active, isDown, pen, writer, mutex, op, accepted>>

\* Lock: one writer at a time announces itself, which stops new readers.
AnnounceWriter(p) ==
  /\ pc[p] = "wlock"
  /\ writer = NoProc
  /\ writer' = p
  /\ Goto(p, "drain")
  /\ UNCHANGED <<active, isDown, pen, readers, mutex, op, accepted>>

\* It holds the lock when the last reader that was inside has left.
AcquireWriter(p) ==
  /\ pc[p] = "drain"
  /\ readers = {}
  /\ Goto(p, "set")
  /\ UNCHANGED <<active, isDown, pen, readers, writer, mutex, op, accepted>>

\* Unlock lets every reader asleep in RLock in before another writer can
\* announce itself.
Sleeping == {q \in Procs : pc[q] = "rwait"}

UnlockWriter(p, label) ==
  /\ writer' = NoProc
  /\ readers' = readers \cup Sleeping
  /\ pc' = [q \in Procs |-> IF q = p THEN label
                            ELSE IF q \in Sleeping THEN "held" ELSE pc[q]]

-----------------------------------------------------------------------------
(* controller.SetBackend, ActiveBackend and Backends.                      *)

\* Mutant: the request is not checked against the registered backends.
SettableAny(backend) == TRUE

Settable(backend) == backend \in Available

\* An unknown or unavailable backend is refused and the handler answers 400;
\* otherwise the handler goes on to report the state.
SetBackend(p) ==
  /\ pc[p] = "set"
  /\ IF Settable(op[p].backend)
       THEN /\ active' = op[p].backend
            /\ UnlockWriter(p, "rlock")
            /\ op' = [op EXCEPT ![p] = ReadOp("active")]
       ELSE /\ UnlockWriter(p, "idle")
            /\ op' = [op EXCEPT ![p] = NoOp]
            /\ UNCHANGED active
  /\ UNCHANGED <<isDown, pen, mutex, accepted>>

\* ActiveBackend returns and the handler calls Backends, which takes
\* the read lock again; the health handler does not.
ActiveBackend(p) ==
  /\ pc[p] = "held"
  /\ op[p].kind \in {"active", "health"}
  /\ readers' = readers \ {p}
  /\ IF op[p].kind = "active"
       THEN Goto(p, "rlock") /\ op' = [op EXCEPT ![p] = ReadOp("infos")]
       ELSE Return(p)
  /\ UNCHANGED <<active, isDown, pen, writer, mutex, accepted>>

BackendInfos(p) ==
  /\ pc[p] = "held"
  /\ op[p].kind = "infos"
  /\ readers' = readers \ {p}
  /\ Return(p)
  /\ UNCHANGED <<active, isDown, pen, writer, mutex, accepted>>

-----------------------------------------------------------------------------
(* controller.Inject, still holding the read lock.                         *)

\* Mutant: RUnlock right after the entry was looked up, not deferred.
UnlocksEarly(p) == readers' = readers \ {p}

StaysLocked(p) == UNCHANGED readers

ActiveEntry(p) ==
  /\ pc[p] = "held"
  /\ op[p].kind = "inject"
  /\ IF active \in Available
       THEN /\ Goto(p, "lock")
            /\ op' = [op EXCEPT ![p] = Picked(@, active)]
            /\ StaysLocked(p)
       ELSE Return(p) /\ readers' = readers \ {p}
  /\ UNCHANGED <<active, isDown, pen, writer, mutex, accepted>>

\* Mutant: the injector has no mutex of its own.
Unguarded(backend) == TRUE

Unlocked(backend) == mutex[backend] = NoProc

LockInjector(p) ==
  /\ pc[p] = "lock"
  /\ Unlocked(op[p].backend)
  /\ mutex' = [mutex EXCEPT ![op[p].backend] = p]
  /\ Goto(p, "build")
  /\ UNCHANGED <<active, isDown, pen, readers, writer, op, accepted>>

\* The deferred unlocks: the injector's mutex, then the read lock.
ReturnInject(p) ==
  /\ mutex' = [mutex EXCEPT ![op[p].backend] = NoProc]
  /\ readers' = readers \ {p}
  /\ Return(p)

\* Mutant: the early return forgets the injector's mutex.
NoBoundsLocked(p) ==
  /\ pc[p] = "build"
  /\ op[p].backend = Ink
  /\ readers' = readers \ {p}
  /\ Return(p)
  /\ UNCHANGED <<active, isDown, pen, writer, mutex, accepted>>

\* display.VirtualBounds gave no usable size: nothing was assigned yet.
NoBounds(p) ==
  /\ pc[p] = "build"
  /\ op[p].backend = Ink
  /\ ReturnInject(p)
  /\ UNCHANGED <<active, isDown, pen, writer, accepted>>

\* The switch over event.Type assigns isDown and the contact flag.
BuildInk(p) ==
  /\ pc[p] = "build"
  /\ op[p].backend = Ink
  /\ isDown' = InkDownAfter(isDown, op[p].event)
  /\ op' = [op EXCEPT ![p] = Built(@, InkDownAfter(isDown, op[p].event), isDown)]
  /\ Goto(p, "send")
  /\ UNCHANGED <<active, pen, readers, writer, mutex, accepted>>

\* InjectSyntheticPointerInput: the device takes the packet or refuses it.
SendInk(p) ==
  /\ pc[p] = "send"
  /\ op[p].backend = Ink
  /\ \/ pen' = [pen EXCEPT ![Ink] = op[p].contact] /\ accepted' = TRUE
     \/ accepted' = FALSE /\ UNCHANGED pen
  /\ ReturnInject(p)
  /\ UNCHANGED <<active, isDown, writer>>

\* The stores into the shared packet before Serial ...
BuildTab(p) ==
  /\ pc[p] = "build"
  /\ op[p].backend = Tab
  /\ op' = [op EXCEPT ![p] = Built(@, TabContact(op[p].event), @.before)]
  /\ Goto(p, "send")
  /\ UNCHANGED <<active, isDown, pen, readers, writer, mutex, accepted>>

\* ... and the store of Serial that publishes it.
SendTab(p) ==
  /\ pc[p] = "send"
  /\ op[p].backend = Tab
  /\ pen' = [pen EXCEPT ![Tab] = op[p].contact]
  /\ ReturnInject(p)
  /\ UNCHANGED <<active, isDown, writer, accepted>>

-----------------------------------------------------------------------------

\* The steps a goroutine takes once it is inside a call.
Step(p) ==
  \/ RLock(p)
  \/ AnnounceWriter(p)
  \/ AcquireWriter(p)
  \/ SetBackend(p)
  \/ ActiveBackend(p)
  \/ BackendInfos(p)
  \/ ActiveEntry(p)
  \/ LockInjector(p)
  \/ NoBounds(p)
  \/ BuildInk(p)
  \/ SendInk(p)
  \/ BuildTab(p)
  \/ SendTab(p)

Call(p) ==
  \/ \E event \in Events : CallInject(p, event)
  \/ \E backend \in Requests : CallSetBackend(p, backend)
  \/ \E kind \in {"active", "health"} : CallState(p, kind)

Next == \E p \in Procs : Call(p) \/ Step(p)

Spec == Init /\ [][Next]_vars

\* Callers may stop calling, but the Go scheduler keeps running a goroutine
\* that can run, and a sync.Mutex (the one in each injector and the one inside
\* sync.RWMutex.Lock) hands itself over in FIFO order once a waiter has slept
\* for a millisecond, so a goroutine that waits for it is not passed over
\* forever.
Fairness ==
  \A p \in Procs :
    /\ WF_vars(Step(p))
    /\ SF_vars(AnnounceWriter(p))
    /\ SF_vars(LockInjector(p))

FairSpec == Spec /\ Fairness

=============================================================================
