-------------------------- MODULE BackendSwitchProps --------------------------
(***************************************************************************)
(* What a page may believe of the button it shows.                         *)
(***************************************************************************)
EXTENDS BackendSwitch

Stages == {"free", "set", "refused", "read", "answer"}

\* Type invariant.
TypeOK ==
  /\ known \in [Pages -> Backends \cup {None}]
  /\ disabled \in [Pages -> BOOLEAN]
  /\ waits \in [Pages -> Requests \cup {None}]
  /\ stage \in [Requests -> Stages]
  /\ target \in [Requests -> Backends \cup {None}]
  /\ seen \in [Requests -> Backends \cup {None}]
  /\ active \in usable /\ usable \subseteq Backends
  /\ last \in Requests \cup {None}
  /\ passed \in [Requests -> BOOLEAN]
  /\ outdated \in [Pages -> BOOLEAN]

\* A page never shows a backend that events cannot be injected into, though the
\* button offers the next one in the list whether that is available or not.
ShowsUsable == \A p \in Pages : known[p] # None => known[p] \in usable

\* The button tells the truth unless active has changed after it was read for
\* the page's last answer: by another page, or by a switch this page had given
\* up as failed.
Truthful == \A p \in Pages : known[p] # None /\ ~outdated[p] => known[p] = active

\* The answer to a switch is read in a lock section of its own, yet it never
\* tells of an earlier state: unless another request has switched since, it is
\* the backend that was asked for.
AnswersOwnSwitch ==
  \A r \in Requests : stage[r] = "answer" /\ last = r => seen[r] = target[r]

\* A click is not the last one: whatever becomes of its request, the button is
\* enabled again (or the page loaded anew), as long as the page knows a backend.
ButtonComesBack ==
  Len(List) > 1 => \A p \in Pages : known[p] # None /\ disabled[p] ~> ~disabled[p]

=============================================================================
