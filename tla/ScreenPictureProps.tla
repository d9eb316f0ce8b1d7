--------------------------- MODULE ScreenPictureProps ---------------------------
(***************************************************************************)
(* What the page shows of the desktop, and what asking for it leaves       *)
(* behind on the page and on the server.                                   *)
(***************************************************************************)
EXTENDS ScreenPicture, FiniteSets

\* Type invariant.
TypeOK ==
  /\ stopped \in BOOLEAN
  /\ timers \subseteq Ids /\ timeoutId \in timers \cup {None}
  /\ refresh \in [Ids -> {"none", "fetching", "aborted"}]
  /\ abortController \in Page!InFlight \cup {None}
  /\ urls \subseteq Ids /\ objectUrl \in Ids \cup {None} /\ image \in Ids \cup {None}
  /\ starts \in 0 .. MaxStarts
  /\ desktop \in 0 .. MaxChanges
  /\ step \in [Slots -> Server!Calls \cup {"free", "return"}]
  /\ gdi \in [Slots -> SUBSET {"desktopDC", "memoryDC", "bitmap"}]
  /\ selected \in [Slots -> BOOLEAN]
  /\ picture \in [Slots -> {Server!Nothing, Server!Blank} \cup 0 .. MaxChanges]
  /\ asker \in [Slots -> Page!InFlight \cup {None}]
  /\ \A s \in Slots : asker[s] # None => step[s] # "free"
  /\ shown \in {Server!Nothing, Server!Blank} \cup 0 .. MaxChanges

\* However a capture ends, also one nobody waits for, no GDI object of it is
\* left when its request is answered: the deferred calls of Capture come in the
\* order in which GDI accepts them, on every error path and when SelectObject
\* fails.
ObjectsReturned ==
  \A s \in Slots : step[s] \in {"return", "free"} => gdi[s] = {} /\ ~selected[s]

\* The page holds the URL of one picture at most, the last one it was given (an
\* object URL keeps its picture in memory until it is revoked).  With the one
\* call of start that main.ts makes, the URL that is shown is not revoked before
\* the next picture is there; stop, also the one inside a later start, revokes
\* it while image.src still has it.
OnePicture ==
  /\ urls = {objectUrl} \ {None}
  /\ objectUrl # None => image = objectUrl
  /\ starts <= 1 /\ ~stopped /\ image # None => image \in urls

\* Each call of start starts at most one loop, whatever is pending at that
\* moment, and none runs out: while the preview is not stopped, a refresh is
\* under way or a timer will start one.
Loops == Cardinality(timers) + Cardinality(Page!InFlight)

OneLoopPerStart ==
  /\ Loops <= starts
  /\ ~stopped => Loops > 0

\* A preview that was started once and stopped has given back everything: no
\* timer, no picture, and no request but one that is being aborted.  (Started
\* again while a refresh is under way it has two loops, and stop ends one.)
StopStops ==
  stopped /\ starts <= 1 =>
    /\ timers = {} /\ urls = {}
    /\ \A r \in Ids : refresh[r] \in {"none", "aborted"}

\* With one loop the desktop is never shown as it was before what is shown
\* already, though captures and answers take their time.
PicturesMoveForward ==
  [][starts <= 1 /\ shown >= 0 /\ shown' >= 0 => shown' >= shown]_vars

\* While the preview runs, refreshes begin again and again: an answer that is
\* an error or does not come does not end the loop.
KeepsRefreshing ==
  <>[]~stopped => []<><<\E t \in timers : Fires(t)>>_vars

\* If answers keep arriving, the page ends up with the desktop as it is, or
\* with the blank picture of a capture that did not select its bitmap.
PictureCatchesUp ==
  []<><<\E s \in Slots : AnswerImage(s)>>_vars => <>[](shown \in {desktop, Server!Blank})

\* After the last stop the page does not ask any more, however many loops there
\* are, and the server comes to rest.
StopEnds ==
  <>[]stopped => <>[](Loops = 0 /\ \A s \in Slots : step[s] = "free")

=============================================================================
