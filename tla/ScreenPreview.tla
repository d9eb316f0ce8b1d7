----------------------------- MODULE ScreenPreview -----------------------------
(***************************************************************************)
(* ScreenPreview of client/src/screen.ts: a loop of timer, fetch and       *)
(* timer, and the object URL of the last picture.  Script runs to its end  *)
(* between two events, so a step is one callback; it may find the object   *)
(* stopped, or started again, since the fetch it belongs to began.         *)
(*                                                                         *)
(* Timers, refreshes and object URLs are numbered by the least number that *)
(* is not in use.                                                          *)
(***************************************************************************)
EXTENDS Integers

CONSTANTS Ids,          \* bound: numbers of timers, refreshes and URLs
          None,         \* null
          MaxStarts     \* bound: calls of start (main.ts makes one)

VARIABLES stopped,
          timers,           \* timers that have been set and are due
          timeoutId,
          refresh,          \* each refresh: "none", "fetching" (until the body
                            \* is read) or "aborted" (and not yet told so)
          abortController,  \* the refresh whose controller is remembered
          urls,             \* object URLs created and not revoked
          objectUrl,
          image,            \* image.src
          starts            \* bound counter

loop == <<timers, timeoutId, refresh, abortController>>
shows == <<urls, objectUrl, image>>
vars == <<stopped, loop, shows, starts>>

Least(S) == CHOOSE i \in S : \A j \in S : i <= j
Unused(S) == Least(Ids \ S)
InFlight == {r \in Ids : refresh[r] # "none"}

Init ==
  /\ stopped = TRUE
  /\ timers = {} /\ timeoutId = None
  /\ refresh = [r \in Ids |-> "none"] /\ abortController = None
  /\ urls = {} /\ objectUrl = None /\ image = None
  /\ starts = 0

-----------------------------------------------------------------------------

\* window.setTimeout, with the timers that are due without the new one.
SetTimeout(due) ==
  /\ due # Ids
  /\ timers' = due \cup {Unused(due)}
  /\ timeoutId' = Unused(due)

\* Mutant: the next refresh is scheduled also when the preview is stopped.
scheduleAlways(due) == SetTimeout(due)

scheduleNextRefresh(due) ==
  IF stopped THEN UNCHANGED <<timers, timeoutId>> ELSE SetTimeout(due)

\* Mutant: stop aborts nothing.
StillFetching == UNCHANGED refresh

\* AbortController.abort: the fetch, or reading its body, will reject.
Abort ==
  refresh' = IF abortController = None THEN refresh
             ELSE [refresh EXCEPT ![abortController] = "aborted"]

\* What stop does, apart from the timer.
Quit ==
  /\ Abort
  /\ abortController' = None
  /\ urls' = urls \ {objectUrl}
  /\ objectUrl' = None
  /\ UNCHANGED image

stop ==
  /\ Quit
  /\ stopped' = TRUE
  /\ timers' = timers \ {timeoutId}
  /\ timeoutId' = None
  /\ UNCHANGED starts

start ==
  /\ starts < MaxStarts
  /\ starts' = starts + 1
  /\ Quit
  /\ stopped' = FALSE
  /\ SetTimeout(timers \ {timeoutId})

\* Mutant: the timer stays remembered after it fired.
FiresRemembered(t) == timers' = timers \ {t} /\ timeoutId' = timeoutId

\* Mutant: the timer repeats, whatever becomes of the refresh.
FiresAgain(t) == timers' = timers /\ timeoutId' = t

FiresOnce(t) == timers' = timers \ {t} /\ timeoutId' = None

\* The timer's callback, up to the fetch of refresh.
Fire(t) ==
  /\ t \in timers
  /\ InFlight # Ids
  /\ FiresOnce(t)
  /\ refresh' = [refresh EXCEPT ![Unused(InFlight)] = "fetching"]
  /\ abortController' = Unused(InFlight)
  /\ UNCHANGED <<stopped, shows, starts>>

\* The end of refresh: both finally blocks.
Settle(r) ==
  /\ refresh' = [refresh EXCEPT ![r] = "none"]
  /\ abortController' = IF abortController = r THEN None ELSE abortController
  /\ scheduleNextRefresh(timers)
  /\ UNCHANGED <<stopped, starts>>

\* Mutant: the previous URL is kept.
RevokeNone(created) == urls' = urls \cup {created}

RevokePrevious(created) == urls' = (urls \cup {created}) \ {objectUrl}

\* The answer has status 200 and its body is there: the new picture replaces the old one.
Swap(r) ==
  /\ refresh[r] = "fetching"
  /\ Ids # urls \cup {image}
  /\ LET nextUrl == Unused(urls \cup {image}) IN
       /\ RevokePrevious(nextUrl)
       /\ objectUrl' = nextUrl
       /\ image' = nextUrl
  /\ Settle(r)

\* Mutant: an error ends the loop.
FailForGood(r) ==
  /\ refresh[r] = "fetching"
  /\ refresh' = [refresh EXCEPT ![r] = "none"]
  /\ abortController' = IF abortController = r THEN None ELSE abortController
  /\ UNCHANGED <<stopped, starts, timers, timeoutId, shows>>

\* Another status, or no more connection: onError shows a message.
Fail(r) ==
  /\ refresh[r] = "fetching"
  /\ Settle(r)
  /\ UNCHANGED shows

\* The AbortError arrives: nothing is shown.
Rejected(r) ==
  /\ refresh[r] = "aborted"
  /\ Settle(r)
  /\ UNCHANGED shows

-----------------------------------------------------------------------------

Next ==
  \/ start
  \/ stop
  \/ \E t \in timers : Fire(t)
  \/ \E r \in Ids : Swap(r) \/ Fail(r) \/ Rejected(r)

Spec == Init /\ [][Next]_vars

=============================================================================
