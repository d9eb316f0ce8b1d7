-------------------------- MODULE BackendSwitchProofs --------------------------
(***************************************************************************)
(* Proofs about BackendSwitch, for any number of pages and requests and    *)
(* any list of backends.                                                   *)
(*                                                                         *)
(* The argument: an answer is the active backend as it was read (Answers), *)
(* so unless active has changed since, it is still active; the request     *)
(* that switched last reads its own target (Latest), because whoever would *)
(* disturb it is then the last one itself.                                 *)
(***************************************************************************)
EXTENDS BackendSwitchProps, TLAPS, WellFoundedInduction

Answers ==
  \A r \in Requests : stage[r] = "answer" =>
    seen[r] \in usable /\ (passed[r] \/ seen[r] = active)

Latest ==
  \A r \in Requests : last = r =>
    \/ stage[r] = "read" /\ active = target[r]
    \/ stage[r] = "answer" /\ seen[r] = target[r]

IInv == TypeOK /\ Answers /\ Latest /\ ShowsUsable /\ Truthful

-----------------------------------------------------------------------------
(* The list.                                                               *)

LEMMA ListFacts ==
  /\ Len(List) \in Nat \ {0}
  /\ \A i \in 1 .. Len(List) : List[i] \in Backends
  BY ListAssumption DEF Backends

\* The backend a page offers is one of the list.
LEMMA NextBackend ==
  ASSUME NEW b \in Backends
  PROVE  nextPenBackend(b) \in Backends
<1> DEFINE at == {k \in 1 .. Len(List) : List[k] = b}
           first(k) == List[k] = b /\ \A j \in 1 .. k - 1 : List[j] # b
<1>1. at # {} /\ at \subseteq Nat
  BY ListFacts DEF Backends
<1>2. PICK k \in at : \A j \in at : ~(<<j, k>> \in OpToRel(<, Nat))
  BY <1>1, NatLessThanWellFounded, WFMin
<1>3. \A j \in at : ~(j < k)
  BY <1>1, <1>2 DEF OpToRel
<1>4. \E i \in 1 .. Len(List) : first(i)
  <2>1. ASSUME NEW j \in 1 .. k - 1
        PROVE  List[j] # b
    <3>1. j < k /\ j \in 1 .. Len(List)
      BY ListFacts, <1>1
    <3> QED
      BY <1>3, <3>1
  <2> QED
    BY <2>1
<1> DEFINE i == CHOOSE i \in 1 .. Len(List) : first(i)
<1>5. i \in 1 .. Len(List)
  BY <1>4
<1>6. (i % Len(List)) + 1 \in 1 .. Len(List)
  <2> HIDE DEF i
  <2> QED
    BY ListFacts, <1>5
<1>7. nextPenBackend(b) = List[(i % Len(List)) + 1]
  BY DEF nextPenBackend
<1> HIDE DEF i
<1> QED
  BY ListFacts, <1>6, <1>7

-----------------------------------------------------------------------------
(* One lemma per part of the invariant, one step per action.               *)

LEMMA KeepsTypes ==
  ASSUME IInv, [Next]_vars
  PROVE  TypeOK'
<1> USE RequestsAssumption DEF IInv, TypeOK, Answers, Stages
<1>1. ASSUME NEW p \in Pages, NEW r \in Requests, Load(p, r)
      PROVE  TypeOK'
  BY <1>1 DEF Load, Send, page, request, history
<1>2. ASSUME NEW p \in Pages, NEW r \in Requests, Click(p, r)
      PROVE  TypeOK'
  BY <1>2, NextBackend DEF Click, Send, page, request, history
<1>3. ASSUME NEW p \in Pages, Succeeds(p)
      PROVE  TypeOK'
  BY <1>3 DEF Succeeds, Shown, renderBackendButton, End, page, request, history
<1>4. ASSUME NEW p \in Pages, Refused(p)
      PROVE  TypeOK'
  BY <1>4 DEF Refused, NotTold, renderBackendButton, End, page, request, history
<1>5. ASSUME NEW p \in Pages, Breaks(p)
      PROVE  TypeOK'
  BY <1>5 DEF Breaks, NotTold, renderBackendButton, page, request, history
<1>6. ASSUME NEW r \in Requests, Switch(r)
      PROVE  TypeOK'
  <2>1. passed' \in [Requests -> BOOLEAN]
    BY <1>6 DEF Switch, Settable, Assigned, history
  <2>2. outdated' \in [Pages -> BOOLEAN]
    BY <1>6 DEF Switch, Settable, Assigned, history
  <2>3. stage' \in [Requests -> Stages] /\ last' \in Requests \cup {None} /\ active' \in usable
    BY <1>6 DEF Switch, Settable, Assigned, history
  <2> QED
    BY <1>6, <2>1, <2>2, <2>3 DEF Switch, page
<1>7. ASSUME NEW r \in Requests, Read(r)
      PROVE  TypeOK'
  BY <1>7 DEF Read, page, request, history
<1>8. ASSUME NEW r \in Requests, Drops(r)
      PROVE  TypeOK'
  BY <1>8 DEF Drops, End, page, request, history
<1>9. CASE UNCHANGED vars
  BY <1>9 DEF vars, page, request, history
<1> QED
  BY <1>1, <1>2, <1>3, <1>4, <1>5, <1>6, <1>7, <1>8, <1>9 DEF Next

LEMMA KeepsAnswers ==
  ASSUME IInv, [Next]_vars
  PROVE  Answers'
<1> USE RequestsAssumption DEF IInv, TypeOK, Answers
<1>1. ASSUME NEW p \in Pages, NEW r \in Requests, Load(p, r)
      PROVE  Answers'
  BY <1>1 DEF Load, Send, page, request, history
<1>2. ASSUME NEW p \in Pages, NEW r \in Requests, Click(p, r)
      PROVE  Answers'
  BY <1>2 DEF Click, Send, page, request, history
<1>3. ASSUME NEW p \in Pages, Succeeds(p)
      PROVE  Answers'
  BY <1>3 DEF Succeeds, Shown, renderBackendButton, End, page, request, history
<1>4. ASSUME NEW p \in Pages, Refused(p)
      PROVE  Answers'
  BY <1>4 DEF Refused, NotTold, renderBackendButton, End, page, request, history
<1>5. ASSUME NEW p \in Pages, Breaks(p)
      PROVE  Answers'
  BY <1>5 DEF Breaks, NotTold, renderBackendButton, page, request, history
<1>6. ASSUME NEW r \in Requests, Switch(r)
      PROVE  Answers'
  BY <1>6 DEF Switch, Settable, Assigned, page, request, history
<1>7. ASSUME NEW r \in Requests, Read(r)
      PROVE  Answers'
  BY <1>7 DEF Read, page, request, history
<1>8. ASSUME NEW r \in Requests, Drops(r)
      PROVE  Answers'
  BY <1>8 DEF Drops, End, page, request, history
<1>9. CASE UNCHANGED vars
  BY <1>9 DEF vars, page, request, history
<1> QED
  BY <1>1, <1>2, <1>3, <1>4, <1>5, <1>6, <1>7, <1>8, <1>9 DEF Next

LEMMA KeepsLatest ==
  ASSUME IInv, [Next]_vars
  PROVE  Latest'
<1> USE RequestsAssumption DEF IInv, TypeOK, Latest
<1>1. ASSUME NEW p \in Pages, NEW r \in Requests, Load(p, r)
      PROVE  Latest'
  BY <1>1 DEF Load, Send, page, request, history
<1>2. ASSUME NEW p \in Pages, NEW r \in Requests, Click(p, r)
      PROVE  Latest'
  BY <1>2 DEF Click, Send, page, request, history
<1>3. ASSUME NEW p \in Pages, Succeeds(p)
      PROVE  Latest'
  BY <1>3 DEF Succeeds, Shown, renderBackendButton, End, page, request, history
<1>4. ASSUME NEW p \in Pages, Refused(p)
      PROVE  Latest'
  BY <1>4 DEF Refused, NotTold, renderBackendButton, End, page, request, history
<1>5. ASSUME NEW p \in Pages, Breaks(p)
      PROVE  Latest'
  BY <1>5 DEF Breaks, NotTold, renderBackendButton, page, request, history
<1>6. ASSUME NEW r \in Requests, Switch(r)
      PROVE  Latest'
  BY <1>6 DEF Switch, Settable, Assigned, page, request, history
<1>7. ASSUME NEW r \in Requests, Read(r)
      PROVE  Latest'
  BY <1>7 DEF Read, page, request, history
<1>8. ASSUME NEW r \in Requests, Drops(r)
      PROVE  Latest'
  BY <1>8 DEF Drops, End, page, request, history
<1>9. CASE UNCHANGED vars
  BY <1>9 DEF vars, page, request, history
<1> QED
  BY <1>1, <1>2, <1>3, <1>4, <1>5, <1>6, <1>7, <1>8, <1>9 DEF Next

LEMMA KeepsShown ==
  ASSUME IInv, [Next]_vars
  PROVE  ShowsUsable'
<1> USE RequestsAssumption DEF IInv, TypeOK, Answers, ShowsUsable
<1>1. ASSUME NEW p \in Pages, NEW r \in Requests, Load(p, r)
      PROVE  ShowsUsable'
  BY <1>1 DEF Load, Send, page, request, history
<1>2. ASSUME NEW p \in Pages, NEW r \in Requests, Click(p, r)
      PROVE  ShowsUsable'
  BY <1>2 DEF Click, Send, page, request, history
<1>3. ASSUME NEW p \in Pages, Succeeds(p)
      PROVE  ShowsUsable'
  BY <1>3 DEF Succeeds, Shown, renderBackendButton, End, page, request, history
<1>4. ASSUME NEW p \in Pages, Refused(p)
      PROVE  ShowsUsable'
  BY <1>4 DEF Refused, NotTold, renderBackendButton, End, page, request, history
<1>5. ASSUME NEW p \in Pages, Breaks(p)
      PROVE  ShowsUsable'
  BY <1>5 DEF Breaks, NotTold, renderBackendButton, page, request, history
<1>6. ASSUME NEW r \in Requests, Switch(r)
      PROVE  ShowsUsable'
  BY <1>6 DEF Switch, Settable, Assigned, page, request, history
<1>7. ASSUME NEW r \in Requests, Read(r)
      PROVE  ShowsUsable'
  BY <1>7 DEF Read, page, request, history
<1>8. ASSUME NEW r \in Requests, Drops(r)
      PROVE  ShowsUsable'
  BY <1>8 DEF Drops, End, page, request, history
<1>9. CASE UNCHANGED vars
  BY <1>9 DEF vars, page, request, history
<1> QED
  BY <1>1, <1>2, <1>3, <1>4, <1>5, <1>6, <1>7, <1>8, <1>9 DEF Next

LEMMA KeepsTruth ==
  ASSUME IInv, [Next]_vars
  PROVE  Truthful'
<1> USE RequestsAssumption DEF IInv, TypeOK, Answers, Truthful
<1>1. ASSUME NEW p \in Pages, NEW r \in Requests, Load(p, r)
      PROVE  Truthful'
  BY <1>1 DEF Load, Send, page, request, history
<1>2. ASSUME NEW p \in Pages, NEW r \in Requests, Click(p, r)
      PROVE  Truthful'
  BY <1>2 DEF Click, Send, page, request, history
<1>3. ASSUME NEW p \in Pages, Succeeds(p)
      PROVE  Truthful'
  BY <1>3 DEF Succeeds, Shown, renderBackendButton, End, page, request, history
<1>4. ASSUME NEW p \in Pages, Refused(p)
      PROVE  Truthful'
  BY <1>4 DEF Refused, NotTold, renderBackendButton, End, page, request, history
<1>5. ASSUME NEW p \in Pages, Breaks(p)
      PROVE  Truthful'
  BY <1>5 DEF Breaks, NotTold, renderBackendButton, page, request, history
<1>6. ASSUME NEW r \in Requests, Switch(r)
      PROVE  Truthful'
  <2> SUFFICES ASSUME NEW p \in Pages, known'[p] # None, ~outdated'[p]
               PROVE  known'[p] = active'
    BY DEF Truthful
  <2>1. known' = known
    BY <1>6 DEF Switch, page
  <2>2. CASE Settable(target[r])
    <3>1. outdated'[p] = (outdated[p] \/ (known[p] # None /\ active # active'))
      BY <1>6, <2>2 DEF Switch
    <3>2. ~outdated[p] /\ active = active'
      BY <2>1, <3>1
    <3> QED
      BY <2>1, <3>2
  <2>3. CASE ~Settable(target[r])
    BY <1>6, <2>1, <2>3 DEF Switch, history
  <2> QED
    BY <2>2, <2>3
<1>7. ASSUME NEW r \in Requests, Read(r)
      PROVE  Truthful'
  BY <1>7 DEF Read, page, request, history
<1>8. ASSUME NEW r \in Requests, Drops(r)
      PROVE  Truthful'
  BY <1>8 DEF Drops, End, page, request, history
<1>9. CASE UNCHANGED vars
  BY <1>9 DEF vars, page, request, history
<1> QED
  BY <1>1, <1>2, <1>3, <1>4, <1>5, <1>6, <1>7, <1>8, <1>9 DEF Next

-----------------------------------------------------------------------------
(* The inductive invariant and what follows from it.                       *)

LEMMA InitIInv == Init => IInv
  BY ListFacts, RequestsAssumption
  DEF Init, IInv, TypeOK, Stages, Answers, Latest, ShowsUsable, Truthful

LEMMA NextIInv == IInv /\ [Next]_vars => IInv'
  BY KeepsTypes, KeepsAnswers, KeepsLatest, KeepsShown, KeepsTruth DEF IInv

\* IInv holds in every reachable state.
THEOREM Invariance == Spec => []IInv
  BY InitIInv, NextIInv, PTL DEF Spec

\* Every variable stays within its type, and the active backend usable.
THEOREM TypeCorrect == Spec => []TypeOK
<1>1. IInv => TypeOK
  BY DEF IInv
<1> QED
  BY <1>1, Invariance, PTL

\* No page shows a backend that cannot be used.
THEOREM ShownIsUsable == Spec => []ShowsUsable
<1>1. IInv => ShowsUsable
  BY DEF IInv
<1> QED
  BY <1>1, Invariance, PTL

\* A page shows the active backend unless active has changed since the page's
\* answer was read.
THEOREM ShownIsActive == Spec => []Truthful
<1>1. IInv => Truthful
  BY DEF IInv
<1> QED
  BY <1>1, Invariance, PTL

\* The request that switched last answers with the backend it asked for.
THEOREM SwitchSeesItself == Spec => []AnswersOwnSwitch
<1>1. IInv => AnswersOwnSwitch
  BY DEF IInv, Latest, AnswersOwnSwitch
<1> QED
  BY <1>1, Invariance, PTL

=============================================================================
