----------------------------- MODULE BackendSwitch -----------------------------
(***************************************************************************)
(* The backend button of the pages and /api/pen/backend: loadPenBackends,  *)
(* switchPenBackend and renderBackendButton of client/src/main.ts, and     *)
(* handlePenBackend of internal/web with the controller's methods it calls *)
(* one after the other, each in a lock section of its own.                 *)
(*                                                                         *)
(* A page remembers the answer it got last and offers the backend after    *)
(* the one it remembers.  A connection can break at any moment; the server *)
(* goes on with a request it has, though nobody waits for the answer.      *)
(***************************************************************************)
EXTENDS Integers, Sequences

CONSTANTS Pages,        \* pages that show the button
          Requests,     \* bound: numbers of requests under way at once
          List,         \* the registered backends, as Backends lists them
          None          \* null, for backends and requests

VARIABLES
  known,        \* backendState.active of each page, or None
  disabled,     \* the page's button is disabled
  waits,        \* the request whose answer the page awaits, or None
  stage,        \* the step a request is at, "free" if there is none
  target,       \* the backend it asks for
  seen,         \* the active backend it answers with
  active,       \* the controller's active backend
  usable,       \* the backends that are available, settled at start-up
  last,         \* history: the request that switched last, or None
  passed,       \* history: active has changed since a request read it
  outdated      \* history: active has changed since what a page knows was read

page == <<known, disabled, waits>>
request == <<stage, target, seen>>
history == <<last, passed, outdated>>
vars == <<page, request, active, usable, history>>

Backends == {List[i] : i \in 1 .. Len(List)}

ASSUME ListAssumption == List \in Seq(Backends) /\ List # <<>> /\ None \notin Backends
ASSUME RequestsAssumption == Requests \subseteq Nat /\ None \notin Requests

Init ==
  /\ known = [p \in Pages |-> None]
  /\ disabled = [p \in Pages |-> TRUE]      \* no page is loaded yet
  /\ waits = [p \in Pages |-> None]
  /\ stage = [r \in Requests |-> "free"]
  /\ target = [r \in Requests |-> None]
  /\ seen = [r \in Requests |-> None]
  /\ active = List[1]
  /\ usable \in {S \in SUBSET Backends : List[1] \in S}
  /\ last = None
  /\ passed = [r \in Requests |-> FALSE]
  /\ outdated = [p \in Pages |-> FALSE]

-----------------------------------------------------------------------------
(* The page.                                                               *)

\* A request takes the least number that is free.
Send(p, r, first, backend) ==
  /\ stage[r] = "free"
  /\ \A q \in Requests : q < r => stage[q] # "free"
  /\ waits' = [waits EXCEPT ![p] = r]
  /\ stage' = [stage EXCEPT ![r] = first]
  /\ target' = [target EXCEPT ![r] = backend]
  /\ UNCHANGED <<seen, active, usable, last, passed>>

\* A request is over.
End(r) ==
  /\ stage' = [stage EXCEPT ![r] = "free"]
  /\ target' = [target EXCEPT ![r] = None]
  /\ seen' = [seen EXCEPT ![r] = None]
  /\ passed' = [passed EXCEPT ![r] = FALSE]
  /\ last' = IF last = r THEN None ELSE last
  /\ UNCHANGED <<active, usable>>

\* The page is loaded, or loaded again: the button is enabled and shows nothing.
Load(p, r) ==
  /\ Send(p, r, "read", None)
  /\ known' = [known EXCEPT ![p] = None]
  /\ disabled' = [disabled EXCEPT ![p] = FALSE]
  /\ outdated' = [outdated EXCEPT ![p] = FALSE]

\* nextPenBackend: the one after the first with the remembered name.
nextPenBackend(b) ==
  LET i == CHOOSE k \in 1 .. Len(List) : List[k] = b /\ \A j \in 1 .. k - 1 : List[j] # b
  IN  List[(i % Len(List)) + 1]

\* A click before the load was answered returns at once.
Click(p, r) ==
  /\ ~disabled[p]
  /\ known[p] # None
  /\ Send(p, r, "set", nextPenBackend(known[p]))
  /\ disabled' = [disabled EXCEPT ![p] = TRUE]
  /\ UNCHANGED <<known, outdated>>

\* Mutant: the button is rendered again only after a success.
renderOnSuccess(p, shown) ==
  disabled' = [disabled EXCEPT ![p] = shown = known[p] \/ Len(List) < 2]

renderBackendButton(p, shown) ==
  disabled' = [disabled EXCEPT ![p] = shown = None \/ Len(List) < 2]

\* Mutant: the page shows what it asked for.
Adopted(r) == IF target[r] # None THEN target[r] ELSE seen[r]

Shown(r) == seen[r]

\* The answer with status 200.
Succeeds(p) ==
  LET r == waits[p] IN
  /\ r # None
  /\ stage[r] = "answer"
  /\ known' = [known EXCEPT ![p] = Shown(r)]
  /\ renderBackendButton(p, Shown(r))
  /\ waits' = [waits EXCEPT ![p] = None]
  /\ outdated' = [outdated EXCEPT ![p] = passed[r]]
  /\ End(r)

NotTold(p) ==
  /\ waits[p] # None
  /\ renderBackendButton(p, known[p])
  /\ waits' = [waits EXCEPT ![p] = None]
  /\ UNCHANGED <<known, outdated>>

\* The answer with status 400.
Refused(p) ==
  waits[p] # None /\ stage[waits[p]] = "refused" /\ NotTold(p) /\ End(waits[p])

\* No answer: what the request still does, or whether it ever reaches the
\* server, the page does not learn.
Breaks(p) ==
  /\ NotTold(p)
  /\ UNCHANGED <<request, active, usable, last, passed>>

-----------------------------------------------------------------------------
(* The server.                                                             *)

\* Mutant: SetBackend does not look at Available.
Accepts(b) == b \in Backends

Settable(b) == b \in usable

\* Mutant: the assignment is lost.
Kept(r) == UNCHANGED active

Assigned(r) == active' = target[r]

\* SetBackend, or its error.
Switch(r) ==
  /\ stage[r] = "set"
  /\ IF Settable(target[r])
       THEN /\ Assigned(r)
            /\ stage' = [stage EXCEPT ![r] = "read"]
            /\ last' = r
            /\ passed' = [q \in Requests |->
                             passed[q] \/ (stage[q] = "answer" /\ active # active')]
            /\ outdated' = [p \in Pages |->
                               outdated[p] \/ (known[p] # None /\ active # active')]
       ELSE /\ stage' = [stage EXCEPT ![r] = "refused"]
            /\ UNCHANGED <<active, history>>
  /\ UNCHANGED <<page, target, seen, usable>>

\* ActiveBackend, for the answer.  (Backends, read after it, never changes.)
Read(r) ==
  /\ stage[r] = "read"
  /\ seen' = [seen EXCEPT ![r] = active]
  /\ stage' = [stage EXCEPT ![r] = "answer"]
  /\ UNCHANGED <<page, target, active, usable, history>>

\* A request that nobody waits for ends, or is lost on its way.
Drops(r) ==
  /\ stage[r] # "free"
  /\ \A p \in Pages : waits[p] # r
  /\ End(r)
  /\ UNCHANGED <<page, outdated>>

-----------------------------------------------------------------------------

Next ==
  \/ \E p \in Pages :
       \/ \E r \in Requests : Load(p, r) \/ Click(p, r)
       \/ Succeeds(p) \/ Refused(p) \/ Breaks(p)
  \/ \E r \in Requests : Switch(r) \/ Read(r) \/ Drops(r)

Spec == Init /\ [][Next]_vars

\* A request's goroutine runs to its end, and the page is told or loses the
\* connection.
Fairness ==
  /\ \A r \in Requests : WF_vars(Switch(r) \/ Read(r))
  /\ \A p \in Pages : WF_vars(Succeeds(p) \/ Refused(p) \/ Breaks(p))

FairSpec == Spec /\ Fairness

=============================================================================
