----------------------------- MODULE ScreenPicture -----------------------------
(***************************************************************************)
(* The picture of the desktop on its way to the page: the refreshes of     *)
(* ScreenPreview are answered by the requests of ScreenCapture.  The       *)
(* connection can break at any moment; the server notices a page that has  *)
(* left only when it writes the answer, and captures until then.           *)
(***************************************************************************)
EXTENDS Integers, Sequences

CONSTANTS Ids, None, MaxStarts,         \* see ScreenPreview
          Slots, MaxChanges             \* see ScreenCapture

VARIABLES stopped, timers, timeoutId, refresh, abortController,
          urls, objectUrl, image, starts,
          desktop, step, gdi, selected, deferred, picture,
          asker,        \* the refresh that waits for a request, or None
          shown         \* what the image on the page shows

ASSUME IdsAssumption == Ids \subseteq Nat /\ None \notin Ids
ASSUME SlotsAssumption == Slots \subseteq Nat
ASSUME BoundsAssumption == MaxStarts \in Nat /\ MaxChanges \in Nat

Page == INSTANCE ScreenPreview
Server == INSTANCE ScreenCapture

page == <<stopped, timers, timeoutId, refresh, abortController,
          urls, objectUrl, image, starts>>
server == <<desktop, step, gdi, selected, deferred, picture>>
vars == <<page, server, asker, shown>>

Init ==
  /\ Page!Init
  /\ Server!Init
  /\ asker = [s \in Slots |-> None]
  /\ shown = Server!Nothing

-----------------------------------------------------------------------------

AskedBy(s, r) == asker' = [asker EXCEPT ![s] = r]

\* Nobody waits any more for an answer to refresh r.
Forsake(r) == asker' = [s \in Slots |-> IF asker[s] = r THEN None ELSE asker[s]]

\* GET /api/screen.jpg.
Fetch(t, s) ==
  /\ Page!Fire(t)
  /\ Server!Request(s)
  /\ AskedBy(s, Page!Unused(Page!InFlight))
  /\ UNCHANGED shown

Captured(s) == step[s] = "return" /\ picture[s] # Server!Nothing

\* Mutant: the browser answers from its cache.
FromCache(s) == IF shown # Server!Nothing THEN shown ELSE picture[s]

\* What the page gets: the URL is a new one each time, and "no-store".
Received(s) == picture[s]

\* The whole image.
AnswerImage(s) ==
  /\ asker[s] # None
  /\ Captured(s)
  /\ Page!Swap(asker[s])
  /\ shown' = Received(s)
  /\ Server!Answer(s)
  /\ AskedBy(s, None)

\* Status 500.
AnswerError(s) ==
  /\ asker[s] # None
  /\ step[s] = "return" /\ ~Captured(s)
  /\ Page!Fail(asker[s])
  /\ Server!Answer(s)
  /\ AskedBy(s, None)
  /\ UNCHANGED shown

\* isClientDisconnect: nobody is there to read the answer.
AnswerNobody(s) ==
  /\ asker[s] = None
  /\ Server!Answer(s)
  /\ UNCHANGED <<page, asker, shown>>

Breaks(r) ==
  /\ Page!Fail(r)
  /\ Forsake(r)
  /\ UNCHANGED <<server, shown>>

Rejected(r) == Page!Rejected(r) /\ UNCHANGED <<server, asker, shown>>

Capture(s) == Server!Work(s) /\ UNCHANGED <<page, asker, shown>>

Start == Page!start /\ Forsake(abortController) /\ UNCHANGED <<server, shown>>

Stop == Page!stop /\ Forsake(abortController) /\ UNCHANGED <<server, shown>>

DesktopChanges == Server!DesktopChanges /\ UNCHANGED <<page, asker, shown>>

-----------------------------------------------------------------------------

Answer(s) == AnswerImage(s) \/ AnswerError(s) \/ AnswerNobody(s)

\* A request is taken up by one of the requests the server can work on.
Idle == {s \in Slots : step[s] = "free"}
Fires(t) == Idle # {} /\ Fetch(t, Page!Least(Idle))

Next ==
  \/ Start \/ Stop \/ DesktopChanges
  \/ \E t \in timers : Fires(t)
  \/ \E s \in Slots : Capture(s) \/ Answer(s)
  \/ \E r \in Ids : Breaks(r) \/ Rejected(r)

Spec == Init /\ [][Next]_vars

\* Timers fire, captures go on and are answered, and promises are settled.
\* Nothing is assumed of start and stop, nor of the connection.
Fairness ==
  /\ \A t \in Ids : WF_vars(Fires(t))
  /\ \A s \in Slots : WF_vars(Capture(s)) /\ WF_vars(Answer(s))
  /\ \A r \in Ids : WF_vars(Rejected(r))

FairSpec == Spec /\ Fairness

=============================================================================
