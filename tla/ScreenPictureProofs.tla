-------------------------- MODULE ScreenPictureProofs --------------------------
(***************************************************************************)
(* Proofs about ScreenPicture, for any numbers of timers, refreshes, URLs, *)
(* starts and requests.                                                    *)
(*                                                                         *)
(* The argument: a loop is a timer or a refresh; a step turns one into the *)
(* other or ends it, and only start adds one (Loops).  Up to the second    *)
(* start there is therefore one loop at most, and it is the one that stop  *)
(* knows (Alone): no two refreshes overlap, so the answers come in the     *)
(* order of their captures.  On the server, the deferred calls of a        *)
(* capture always are the ones that give back what it has (Holding).       *)
(***************************************************************************)
EXTENDS ScreenPictureProps, FiniteSetTheorems, SequenceTheorems,
        WellFoundedInduction, TLAPS

\* Timers and refreshes can be counted.
Countable == IsFiniteSet(timers) /\ IsFiniteSet(Page!InFlight)

\* Up to the second start, stop knows the timer and the fetch there are; up to
\* the first there are none.
Alone ==
  /\ starts <= 1 =>
       /\ ~stopped => /\ timers \subseteq {timeoutId}
                      /\ \A r \in Ids : refresh[r] = "fetching" => r = abortController
       /\ stopped => /\ timers = {} /\ objectUrl = None
                     /\ \A r \in Ids : refresh[r] # "fetching"
  /\ starts = 0 => stopped /\ image = None

\* What each request holds at each step, and how it would give it back.
HoldingAt(s) ==
  \/ /\ step[s] \in {"free", "return", "GetDC"}
     /\ gdi[s] = {} /\ ~selected[s] /\ deferred[s] = <<>>
  \/ /\ step[s] = "CreateCompatibleDC"
     /\ gdi[s] = {"desktopDC"} /\ ~selected[s] /\ deferred[s] = <<"ReleaseDC">>
  \/ /\ step[s] = "CreateCompatibleBitmap"
     /\ gdi[s] = {"desktopDC", "memoryDC"} /\ ~selected[s]
     /\ deferred[s] = <<"DeleteDC", "ReleaseDC">>
  \/ /\ step[s] \in {"SelectObject", "BitBlt", "GetDIBits"}
     /\ gdi[s] = {"desktopDC", "memoryDC", "bitmap"} /\ ~selected[s]
     /\ deferred[s] = <<"DeleteObject", "DeleteDC", "ReleaseDC">>
  \/ /\ step[s] \in {"BitBlt", "GetDIBits"}
     /\ gdi[s] = {"desktopDC", "memoryDC", "bitmap"} /\ selected[s]
     /\ deferred[s] = <<"SelectObject", "DeleteObject", "DeleteDC", "ReleaseDC">>

\* The calls that Capture defers.
Undoing == {"ReleaseDC", "DeleteDC", "DeleteObject", "SelectObject"}

Holding == deferred \in [Slots -> Seq(Undoing)] /\ \A s \in Slots : HoldingAt(s)

\* Every request is asked for by another refresh that still waits for it.
Asking ==
  \A s \in Slots : asker[s] # None =>
    /\ refresh[asker[s]] = "fetching"
    /\ \A q \in Slots : asker[q] = asker[s] => q = s

\* Nothing is newer than the desktop, and what is on its way to the page is not
\* older than what it shows.
Forward ==
  /\ shown <= desktop
  /\ \A s \in Slots : picture[s] <= desktop /\ (step[s] = "free" => picture[s] < 0)
  /\ starts <= 1 => \A s \in Slots : asker[s] # None /\ picture[s] >= 0 => picture[s] >= shown

IInv ==
  /\ TypeOK
  /\ Countable
  /\ OnePicture
  /\ OneLoopPerStart
  /\ Alone
  /\ Holding
  /\ Asking
  /\ Forward

-----------------------------------------------------------------------------
(* The page.                                                               *)

LEMMA LeastIn ==
  ASSUME NEW S, S \subseteq Nat, S # {}
  PROVE  Page!Least(S) \in S
<1>1. PICK k \in S : \A j \in S : ~(<<j, k>> \in OpToRel(<, Nat))
  BY NatLessThanWellFounded, WFMin
<1>2. \A j \in S : k <= j
  <2>1. ASSUME NEW j \in S
        PROVE  k <= j
    <3>1. ~(j < k)
      BY <1>1 DEF OpToRel
    <3> QED
      BY <3>1
  <2> QED
    BY <2>1
<1> QED
  BY <1>2 DEF Page!Least

LEMMA UnusedIn ==
  ASSUME NEW S, Ids \ S # {}
  PROVE  Page!Unused(S) \in Ids \ S
  BY IdsAssumption, LeastIn DEF Page!Unused

LEMMA InFlightIds == Page!InFlight \subseteq Ids
  BY DEF Page!InFlight

\* A refresh changes from one state into another.
LEMMA RefreshMoves ==
  ASSUME TypeOK, NEW r \in Ids, NEW state \in {"none", "fetching", "aborted"},
         refresh' = [refresh EXCEPT ![r] = state]
  PROVE  /\ refresh' \in [Ids -> {"none", "fetching", "aborted"}]
         /\ Page!InFlight' = IF state = "none" THEN Page!InFlight \ {r} ELSE Page!InFlight \cup {r}
         /\ refresh'[r] = state /\ \A q \in Ids : q # r => refresh'[q] = refresh[q]
<1>1. /\ refresh' \in [Ids -> {"none", "fetching", "aborted"}]
      /\ refresh'[r] = state /\ \A q \in Ids : q # r => refresh'[q] = refresh[q]
  BY DEF TypeOK
<1> QED
  BY <1>1 DEF Page!InFlight

\* window.setTimeout.
LEMMA TimerSet ==
  ASSUME NEW due, due \subseteq Ids, Page!SetTimeout(due)
  PROVE  \E t \in Ids \ due : timers' = due \cup {t} /\ timeoutId' = t
  BY UnusedIn DEF Page!SetTimeout

\* What start and stop have in common.
LEMMA QuitSteps ==
  ASSUME TypeOK, Page!Quit
  PROVE  /\ refresh' \in [Ids -> {"none", "fetching", "aborted"}]
         /\ Page!InFlight' = Page!InFlight
         /\ abortController' = None
         /\ \A r \in Ids : refresh'[r] = "fetching" <=> refresh[r] = "fetching" /\ r # abortController
         /\ urls' = urls \ {objectUrl} /\ objectUrl' = None /\ image' = image
<1>1. abortController' = None /\ urls' = urls \ {objectUrl} /\ objectUrl' = None /\ image' = image
  BY DEF Page!Quit
<1>2. CASE abortController = None
  <2>1. refresh' = refresh
    BY <1>2 DEF Page!Quit, Page!Abort
  <2> QED
    BY <1>1, <1>2, <2>1, IdsAssumption DEF TypeOK, Page!InFlight
<1>3. CASE abortController # None
  <2>1. abortController \in Page!InFlight /\ abortController \in Ids
    BY <1>3, InFlightIds DEF TypeOK
  <2>2. refresh' = [refresh EXCEPT ![abortController] = "aborted"]
    BY <1>3 DEF Page!Quit, Page!Abort
  <2>3. /\ refresh' \in [Ids -> {"none", "fetching", "aborted"}]
        /\ Page!InFlight' = Page!InFlight \cup {abortController}
        /\ refresh'[abortController] = "aborted"
        /\ \A q \in Ids : q # abortController => refresh'[q] = refresh[q]
    <3> HIDE DEF Page!InFlight
    <3> QED
      BY <2>1, <2>2, RefreshMoves
  <2>4. Page!InFlight' = Page!InFlight
    BY <2>1, <2>3
  <2>5. \A r \in Ids : refresh'[r] = "fetching" <=> refresh[r] = "fetching" /\ r # abortController
    BY <2>3
  <2> QED
    BY <1>1, <2>3, <2>4, <2>5
<1> QED
  BY <1>2, <1>3

\* A refresh is over.
LEMMA SettleSteps ==
  ASSUME TypeOK, NEW r \in Ids, refresh[r] # "none", Page!Settle(r)
  PROVE  /\ refresh' \in [Ids -> {"none", "fetching", "aborted"}]
         /\ r \in Page!InFlight /\ Page!InFlight' = Page!InFlight \ {r}
         /\ refresh'[r] = "none" /\ \A q \in Ids : q # r => refresh'[q] = refresh[q]
         /\ abortController' = IF abortController = r THEN None ELSE abortController
         /\ UNCHANGED <<stopped, starts>>
         /\ stopped => UNCHANGED <<timers, timeoutId>>
         /\ ~stopped => \E t \in Ids \ timers : timers' = timers \cup {t} /\ timeoutId' = t
<1>1. refresh' = [refresh EXCEPT ![r] = "none"]
  BY DEF Page!Settle
<1>2. /\ refresh' \in [Ids -> {"none", "fetching", "aborted"}]
      /\ Page!InFlight' = Page!InFlight \ {r}
      /\ refresh'[r] = "none" /\ \A q \in Ids : q # r => refresh'[q] = refresh[q]
  BY <1>1, RefreshMoves
<1>3. r \in Page!InFlight
  BY DEF Page!InFlight
<1>4. /\ abortController' = IF abortController = r THEN None ELSE abortController
      /\ UNCHANGED <<stopped, starts>>
      /\ stopped => UNCHANGED <<timers, timeoutId>>
  BY DEF Page!Settle, Page!scheduleNextRefresh
<1>5. ~stopped => \E t \in Ids \ timers : timers' = timers \cup {t} /\ timeoutId' = t
  BY TimerSet DEF Page!Settle, Page!scheduleNextRefresh, TypeOK
<1> QED
  BY <1>2, <1>3, <1>4, <1>5

\* A timer fires.
LEMMA FireSteps ==
  ASSUME TypeOK, NEW t \in timers, Page!Fire(t)
  PROVE  LET r == Page!Unused(Page!InFlight)
         IN  /\ r \in Ids /\ r \notin Page!InFlight
             /\ refresh' \in [Ids -> {"none", "fetching", "aborted"}]
             /\ Page!InFlight' = Page!InFlight \cup {r}
             /\ refresh'[r] = "fetching" /\ \A q \in Ids : q # r => refresh'[q] = refresh[q]
             /\ abortController' = r
             /\ timers' = timers \ {t} /\ timeoutId' = None
             /\ UNCHANGED <<stopped, urls, objectUrl, image, starts>>
<1> DEFINE r == Page!Unused(Page!InFlight)
<1>1. r \in Ids /\ r \notin Page!InFlight
  BY InFlightIds, UnusedIn DEF Page!Fire
<1>2. /\ refresh' = [refresh EXCEPT ![r] = "fetching"] /\ abortController' = r
      /\ timers' = timers \ {t} /\ timeoutId' = None
      /\ UNCHANGED <<stopped, urls, objectUrl, image, starts>>
  BY DEF Page!Fire, Page!FiresOnce, Page!shows
<1> HIDE DEF r
<1>3. /\ refresh' \in [Ids -> {"none", "fetching", "aborted"}]
      /\ Page!InFlight' = Page!InFlight \cup {r}
      /\ refresh'[r] = "fetching" /\ \A q \in Ids : q # r => refresh'[q] = refresh[q]
  BY <1>1, <1>2, RefreshMoves
<1> QED
  BY <1>1, <1>2, <1>3 DEF r

\* The new picture replaces the old one.
LEMMA SwapSteps ==
  ASSUME OnePicture, NEW r \in Ids, Page!Swap(r)
  PROVE  \E u \in Ids : u # image /\ urls' = {u} /\ objectUrl' = u /\ image' = u
<1>1. urls \subseteq {image}
  BY DEF OnePicture
<1>2. Ids \ (urls \cup {image}) # {}
  BY <1>1 DEF Page!Swap
<1> DEFINE u == Page!Unused(urls \cup {image})
<1>3. u \in Ids \ (urls \cup {image})
  BY <1>2, UnusedIn
<1>4. urls' = (urls \cup {u}) \ {objectUrl} /\ objectUrl' = u /\ image' = u
  BY DEF Page!Swap, Page!RevokePrevious
<1> HIDE DEF u
<1>5. urls' = {u}
  BY <1>3, <1>4, IdsAssumption DEF OnePicture
<1> QED
  BY <1>3, <1>4, <1>5

PageTypes ==
  /\ stopped \in BOOLEAN
  /\ timers \subseteq Ids /\ timeoutId \in timers \cup {None}
  /\ refresh \in [Ids -> {"none", "fetching", "aborted"}]
  /\ abortController \in Page!InFlight \cup {None}
  /\ urls \subseteq Ids /\ objectUrl \in Ids \cup {None} /\ image \in Ids \cup {None}
  /\ starts \in 0 .. MaxStarts

PageInv == PageTypes /\ Countable /\ OnePicture /\ OneLoopPerStart /\ Alone

LEMMA Counts ==
  ASSUME Countable
  PROVE  /\ Cardinality(timers) \in Nat /\ Cardinality(Page!InFlight) \in Nat
         /\ Cardinality(timers) = 0 <=> timers = {}
         /\ Cardinality(Page!InFlight) = 0 <=> Page!InFlight = {}
  BY FS_CardinalityType, FS_EmptySet DEF Countable

LEMMA StartPage ==
  ASSUME IInv, Page!start
  PROVE  PageInv'
<1> USE DEF IInv, TypeOK
<1>1. starts < MaxStarts /\ starts' = starts + 1 /\ stopped' = FALSE /\ Page!Quit
  BY DEF Page!start
<1>2. PICK t \in Ids \ (timers \ {timeoutId}) :
        timers' = (timers \ {timeoutId}) \cup {t} /\ timeoutId' = t
  <2>1. timers \ {timeoutId} \subseteq Ids
    OBVIOUS
  <2>2. Page!SetTimeout(timers \ {timeoutId})
    BY DEF Page!start
  <2> QED
    BY <2>1, <2>2, TimerSet
<1>3. /\ refresh' \in [Ids -> {"none", "fetching", "aborted"}]
      /\ Page!InFlight' = Page!InFlight
      /\ abortController' = None
      /\ \A r \in Ids : refresh'[r] = "fetching" => refresh[r] = "fetching"
      /\ urls' = urls \ {objectUrl} /\ objectUrl' = None /\ image' = image
  BY <1>1, QuitSteps
<1>4. starts \in Nat /\ starts' \in 0 .. MaxStarts
  BY <1>1, BoundsAssumption
<1>5. PageTypes'
  BY <1>1, <1>2, <1>3, <1>4 DEF PageTypes
<1>6. OnePicture'
  BY <1>1, <1>3, <1>4 DEF OnePicture, Alone
<1>7. /\ IsFiniteSet(timers') /\ Cardinality(timers') \in Nat \ {0}
      /\ Cardinality(timers') <= Cardinality(timers) + 1
  <2>1. /\ IsFiniteSet(timers \ {timeoutId})
        /\ Cardinality(timers \ {timeoutId}) <= Cardinality(timers)
    <3>1. IsFiniteSet(timers) /\ timers \ {timeoutId} \in SUBSET timers
      BY DEF Countable
    <3> HIDE DEF IInv, TypeOK
    <3> QED
      BY <3>1, FS_Subset
  <2>2. Cardinality(timers \ {timeoutId}) \in Nat
    BY <2>1, FS_CardinalityType
  <2>3. /\ IsFiniteSet(timers')
        /\ Cardinality(timers') = Cardinality(timers \ {timeoutId}) + 1
    BY <1>2, <2>1, FS_AddElement
  <2> QED
    BY <2>1, <2>2, <2>3, Counts
<1>8. Countable'
  BY <1>3, <1>7 DEF Countable
<1>9. OneLoopPerStart'
  BY <1>1, <1>3, <1>4, <1>7, Counts DEF OneLoopPerStart, Loops
<1>10. Alone'
  <2> SUFFICES ASSUME starts' <= 1
               PROVE  timers' \subseteq {timeoutId'} /\ \A r \in Ids : refresh'[r] # "fetching"
    BY <1>1, <1>4 DEF Alone
  <2>1. Cardinality(timers) = 0 /\ Cardinality(Page!InFlight) = 0
    BY <1>1, <1>4, Counts DEF OneLoopPerStart, Loops
  <2>2. timers = {} /\ Page!InFlight = {}
    BY <2>1, Counts
  <2> QED
    BY <1>2, <1>3, <2>2 DEF Page!InFlight
<1> QED
  BY <1>5, <1>6, <1>8, <1>9, <1>10 DEF PageInv

LEMMA StopPage ==
  ASSUME IInv, Page!stop
  PROVE  PageInv'
<1> USE DEF IInv, TypeOK
<1>1. /\ starts' = starts /\ stopped' = TRUE /\ timers' = timers \ {timeoutId} /\ timeoutId' = None
      /\ Page!Quit
  BY DEF Page!stop
<1>2. /\ refresh' \in [Ids -> {"none", "fetching", "aborted"}]
      /\ Page!InFlight' = Page!InFlight
      /\ abortController' = None
      /\ \A r \in Ids : refresh'[r] = "fetching" => refresh[r] = "fetching" /\ r # abortController
      /\ urls' = urls \ {objectUrl} /\ objectUrl' = None /\ image' = image
  BY <1>1, QuitSteps
<1>3. PageTypes'
  BY <1>1, <1>2 DEF PageTypes
<1>4. OnePicture'
  BY <1>1, <1>2 DEF OnePicture
<1>5. /\ IsFiniteSet(timers') /\ Cardinality(timers') \in Nat
      /\ Cardinality(timers') <= Cardinality(timers)
  <2>1. /\ IsFiniteSet(timers \ {timeoutId})
        /\ Cardinality(timers \ {timeoutId}) <= Cardinality(timers)
    <3>1. IsFiniteSet(timers) /\ timers \ {timeoutId} \in SUBSET timers
      BY DEF Countable
    <3> HIDE DEF IInv, TypeOK
    <3> QED
      BY <3>1, FS_Subset
  <2> QED
    BY <1>1, <2>1, FS_CardinalityType
<1>6. Countable'
  BY <1>2, <1>5 DEF Countable
<1>7. OneLoopPerStart'
  BY <1>1, <1>2, <1>5, Counts, BoundsAssumption DEF OneLoopPerStart, Loops
<1>8. Alone'
  BY <1>1, <1>2 DEF Alone
<1> QED
  BY <1>3, <1>4, <1>6, <1>7, <1>8 DEF PageInv

LEMMA FirePage ==
  ASSUME IInv, NEW t \in timers, Page!Fire(t)
  PROVE  PageInv'
<1> USE DEF IInv, TypeOK
<1> DEFINE r == Page!Unused(Page!InFlight)
<1>1. /\ r \in Ids /\ r \notin Page!InFlight
      /\ refresh' \in [Ids -> {"none", "fetching", "aborted"}]
      /\ Page!InFlight' = Page!InFlight \cup {r}
      /\ \A q \in Ids : q # r => refresh'[q] = refresh[q]
      /\ abortController' = r
      /\ timers' = timers \ {t} /\ timeoutId' = None
      /\ UNCHANGED <<stopped, urls, objectUrl, image, starts>>
  BY FireSteps
<1> HIDE DEF r
<1>2. PageTypes'
  BY <1>1 DEF PageTypes
<1>3. OnePicture'
  BY <1>1 DEF OnePicture
<1>4. IsFiniteSet(timers') /\ Cardinality(timers') = Cardinality(timers) - 1
  BY <1>1, FS_RemoveElement DEF Countable
<1>5. IsFiniteSet(Page!InFlight') /\ Cardinality(Page!InFlight') = Cardinality(Page!InFlight) + 1
  BY <1>1, FS_AddElement DEF Countable
<1>6. Countable'
  BY <1>4, <1>5 DEF Countable
<1>7. OneLoopPerStart'
  BY <1>1, <1>4, <1>5, Counts DEF OneLoopPerStart, Loops
<1>8. Alone'
  <2> SUFFICES ASSUME starts <= 1
               PROVE  /\ ~stopped => /\ timers' \subseteq {timeoutId'}
                                     /\ \A q \in Ids : refresh'[q] = "fetching" => q = abortController'
                      /\ stopped => FALSE
    BY <1>1 DEF Alone
  <2>1. ~stopped /\ timers = {t}
    BY DEF Alone
  <2>2. Page!InFlight = {}
    <3>1. Cardinality(timers) # 0
      BY <2>1, Counts
    <3>2. starts \in Nat
      OBVIOUS
    <3>3. Cardinality(Page!InFlight) = 0
      BY <3>1, <3>2, Counts DEF OneLoopPerStart, Loops
    <3> QED
      BY <3>3, Counts
  <2>3. \A q \in Ids : refresh'[q] = "fetching" => q = r
    BY <1>1, <2>2 DEF Page!InFlight
  <2> QED
    BY <1>1, <2>1, <2>3
<1> QED
  BY <1>2, <1>3, <1>6, <1>7, <1>8 DEF PageInv

\* Swap, Fail and Rejected end in Settle.
LEMMA SettlePage ==
  ASSUME IInv, NEW r \in Ids, refresh[r] # "none", Page!Settle(r), OnePicture',
         refresh[r] = "fetching" \/ objectUrl' = objectUrl,
         refresh[r] = "fetching" \/ image' = image,
         urls' \subseteq Ids /\ objectUrl' \in Ids \cup {None} /\ image' \in Ids \cup {None}
  PROVE  PageInv'
<1> USE DEF IInv
<1>1. /\ refresh' \in [Ids -> {"none", "fetching", "aborted"}]
      /\ r \in Page!InFlight /\ Page!InFlight' = Page!InFlight \ {r}
      /\ refresh'[r] = "none" /\ \A q \in Ids : q # r => refresh'[q] = refresh[q]
      /\ abortController' = IF abortController = r THEN None ELSE abortController
      /\ UNCHANGED <<stopped, starts>>
      /\ stopped => UNCHANGED <<timers, timeoutId>>
      /\ ~stopped => \E t \in Ids \ timers : timers' = timers \cup {t} /\ timeoutId' = t
  BY SettleSteps
<1>2. IsFiniteSet(Page!InFlight') /\ Cardinality(Page!InFlight') = Cardinality(Page!InFlight) - 1
  BY <1>1, FS_RemoveElement DEF Countable
<1>3. starts \in Nat
  BY DEF TypeOK
<1>4. CASE stopped
  <2>1. PageTypes'
    BY <1>1, <1>4 DEF PageTypes, TypeOK
  <2>2. Countable'
    BY <1>1, <1>2, <1>4 DEF Countable
  <2>3. OneLoopPerStart'
    BY <1>1, <1>2, <1>3, <1>4, Counts DEF OneLoopPerStart, Loops
  <2>4. Alone'
    BY <1>1, <1>4 DEF Alone
  <2> QED
    BY <2>1, <2>2, <2>3, <2>4 DEF PageInv
<1>5. CASE ~stopped
  <2>1. PICK t \in Ids \ timers : timers' = timers \cup {t} /\ timeoutId' = t
    BY <1>1, <1>5
  <2>2. IsFiniteSet(timers') /\ Cardinality(timers') = Cardinality(timers) + 1
    BY <2>1, FS_AddElement DEF Countable
  <2>3. PageTypes'
    BY <1>1, <2>1 DEF PageTypes, TypeOK
  <2>4. Countable'
    BY <1>2, <2>2 DEF Countable
  <2>5. OneLoopPerStart'
    BY <1>1, <1>2, <1>3, <2>2, Counts DEF OneLoopPerStart, Loops
  <2>6. Alone'
    <3> SUFFICES ASSUME starts <= 1
                 PROVE  /\ timers' \subseteq {timeoutId'}
                        /\ \A q \in Ids : refresh'[q] = "fetching" => q = abortController'
      BY <1>1, <1>5 DEF Alone
    <3>1. Cardinality(Page!InFlight) # 0
      BY <1>1, Counts
    <3>2. Cardinality(timers) = 0
      BY <1>3, <3>1, Counts DEF OneLoopPerStart, Loops
    <3>3. timers = {}
      BY <3>2, Counts
    <3>4. \A q \in Ids : refresh'[q] = "fetching" => q = abortController'
      BY <1>1, <1>5 DEF Alone
    <3> QED
      BY <2>1, <3>3, <3>4
  <2> QED
    BY <2>3, <2>4, <2>5, <2>6 DEF PageInv
<1> QED
  BY <1>4, <1>5

LEMMA SwapPage ==
  ASSUME IInv, NEW r \in Ids, Page!Swap(r)
  PROVE  PageInv' /\ refresh[r] = "fetching" /\ Page!Settle(r)
<1>1. refresh[r] = "fetching" /\ Page!Settle(r)
  BY DEF Page!Swap
<1>2. PICK u \in Ids : urls' = {u} /\ objectUrl' = u /\ image' = u
  BY SwapSteps DEF IInv
<1>3. OnePicture'
  BY <1>2, IdsAssumption DEF OnePicture
<1> QED
  BY <1>1, <1>2, <1>3, SettlePage

LEMMA FailPage ==
  ASSUME IInv, NEW r \in Ids, Page!Fail(r) \/ Page!Rejected(r)
  PROVE  PageInv' /\ refresh[r] # "none" /\ Page!Settle(r)
<1>1. refresh[r] # "none" /\ Page!Settle(r) /\ UNCHANGED <<urls, objectUrl, image>>
  BY DEF Page!Fail, Page!Rejected, Page!shows
<1>2. OnePicture'
  BY <1>1 DEF IInv, OnePicture, Page!Settle
<1> QED
  BY <1>1, <1>2, SettlePage DEF IInv, TypeOK

LEMMA SamePage ==
  ASSUME IInv, UNCHANGED page
  PROVE  PageInv'
  BY DEF IInv, TypeOK, page, PageInv, PageTypes, Countable, OnePicture, OneLoopPerStart, Loops, Alone,
         Page!InFlight

-----------------------------------------------------------------------------
(* The server.                                                             *)

LEMMA Calls ==
  /\ DOMAIN Server!Objects = {"GetDC", "CreateCompatibleDC", "CreateCompatibleBitmap"}
  /\ Server!Calls = {"GetDC", "CreateCompatibleDC", "CreateCompatibleBitmap", "SelectObject",
                     "BitBlt", "GetDIBits"}
  /\ Server!Nothing = -2 /\ Server!Blank = -1
  BY DEF Server!Objects, Server!Calls, Server!Following, Server!Nothing, Server!Blank

LEMMA CallTable ==
  /\ Server!Objects["GetDC"] = "desktopDC" /\ Server!Cleanup["GetDC"] = "ReleaseDC"
  /\ Server!Objects["CreateCompatibleDC"] = "memoryDC" /\ Server!Cleanup["CreateCompatibleDC"] = "DeleteDC"
  /\ Server!Objects["CreateCompatibleBitmap"] = "bitmap"
  /\ Server!Cleanup["CreateCompatibleBitmap"] = "DeleteObject"
  /\ Server!Following["GetDC"] = "CreateCompatibleDC"
  /\ Server!Following["CreateCompatibleDC"] = "CreateCompatibleBitmap"
  /\ Server!Following["CreateCompatibleBitmap"] = "SelectObject"
  /\ Server!Following["SelectObject"] = "BitBlt"
  /\ Server!Following["BitBlt"] = "GetDIBits"
  BY DEF Server!Objects, Server!Cleanup, Server!Following

ServerTypes ==
  /\ desktop \in 0 .. MaxChanges
  /\ step \in [Slots -> Server!Calls \cup {"free", "return"}]
  /\ gdi \in [Slots -> SUBSET {"desktopDC", "memoryDC", "bitmap"}]
  /\ selected \in [Slots -> BOOLEAN]
  /\ picture \in [Slots -> {Server!Nothing, Server!Blank} \cup 0 .. MaxChanges]

\* A request changes from one step to another and keeps to itself.
Moves(s, next) ==
  /\ step' = [step EXCEPT ![s] = next]
  /\ next \in Server!Calls \cup {"free", "return"}
  /\ \E objects \in SUBSET {"desktopDC", "memoryDC", "bitmap"} : gdi' = [gdi EXCEPT ![s] = objects]
  /\ \E b \in BOOLEAN : selected' = [selected EXCEPT ![s] = b]
  /\ \E calls \in Seq(Undoing) : deferred' = [deferred EXCEPT ![s] = calls]

LEMMA MovesKeep ==
  ASSUME TypeOK, Holding, NEW s \in Slots, NEW next, Moves(s, next), HoldingAt(s)'
  PROVE  /\ Holding'
         /\ step' \in [Slots -> Server!Calls \cup {"free", "return"}]
         /\ gdi' \in [Slots -> SUBSET {"desktopDC", "memoryDC", "bitmap"}]
         /\ selected' \in [Slots -> BOOLEAN]
         /\ step'[s] = next /\ \A q \in Slots : q # s => step'[q] = step[q]
<1>1. step' \in [Slots -> Server!Calls \cup {"free", "return"}]
  BY DEF Moves, TypeOK
<1>2. gdi' \in [Slots -> SUBSET {"desktopDC", "memoryDC", "bitmap"}]
  BY DEF Moves, TypeOK
<1>3. selected' \in [Slots -> BOOLEAN]
  BY DEF Moves, TypeOK
<1>4. deferred' \in [Slots -> Seq(Undoing)]
  BY DEF Moves, Holding
<1>5. step'[s] = next /\ \A q \in Slots : q # s => step'[q] = step[q]
  BY DEF Moves, TypeOK
<1>6. ASSUME NEW q \in Slots, q # s
      PROVE  HoldingAt(q)'
  <2>1. step'[q] = step[q] /\ gdi'[q] = gdi[q] /\ selected'[q] = selected[q] /\ deferred'[q] = deferred[q]
    BY <1>6 DEF Moves, TypeOK, Holding
  <2>2. HoldingAt(q)
    BY DEF Holding
  <2> QED
    BY <2>1, <2>2 DEF HoldingAt
<1> QED
  BY <1>1, <1>2, <1>3, <1>4, <1>5, <1>6 DEF Holding

\* The deferred calls give everything back.
LEMMA ReturnSteps ==
  ASSUME TypeOK, Holding, NEW s \in Slots, Server!Return(s)
  PROVE  Moves(s, "return") /\ HoldingAt(s)'
<1> DEFINE calls == deferred[s]
           freed == UNION {Server!Freed(s, i) : i \in DOMAIN calls}
           left == gdi[s] \ freed
           still == selected[s] /\ ~\E i \in DOMAIN calls : Server!LetsGo(calls[i])
<1>1. /\ step' = [step EXCEPT ![s] = "return"]
      /\ gdi' = [gdi EXCEPT ![s] = left]
      /\ selected' = [selected EXCEPT ![s] = still]
      /\ deferred' = [deferred EXCEPT ![s] = <<>>]
  BY DEF Server!Return, Server!Goes
<1>2. left = {} /\ ~still
  <2>1. CASE gdi[s] = {} /\ ~selected[s]
    BY <2>1
  <2>2. CASE calls = <<"ReleaseDC">> /\ gdi[s] = {"desktopDC"} /\ ~selected[s]
    <3>1. 1 \in DOMAIN calls /\ calls[1] = "ReleaseDC"
      BY <2>2
    <3>2. "desktopDC" \in Server!Freed(s, 1)
      BY <2>2, <3>1 DEF Server!Freed
    <3> QED
      BY <2>2, <3>1, <3>2
  <2>3. CASE calls = <<"DeleteDC", "ReleaseDC">> /\ gdi[s] = {"desktopDC", "memoryDC"} /\ ~selected[s]
    <3>1. {1, 2} \subseteq DOMAIN calls /\ calls[1] = "DeleteDC" /\ calls[2] = "ReleaseDC"
      BY <2>3
    <3>2. "memoryDC" \in Server!Freed(s, 1) /\ "desktopDC" \in Server!Freed(s, 2)
      BY <2>3, <3>1 DEF Server!Freed
    <3> QED
      BY <2>3, <3>1, <3>2
  <2>4. CASE /\ calls = <<"DeleteObject", "DeleteDC", "ReleaseDC">>
             /\ gdi[s] = {"desktopDC", "memoryDC", "bitmap"} /\ ~selected[s]
    <3>1. /\ {1, 2, 3} \subseteq DOMAIN calls
          /\ calls[1] = "DeleteObject" /\ calls[2] = "DeleteDC" /\ calls[3] = "ReleaseDC"
      BY <2>4
    <3>2. /\ "bitmap" \in Server!Freed(s, 1) /\ "memoryDC" \in Server!Freed(s, 2)
          /\ "desktopDC" \in Server!Freed(s, 3)
      BY <2>4, <3>1 DEF Server!Freed
    <3> QED
      BY <2>4, <3>1, <3>2
  <2>5. CASE /\ calls = <<"SelectObject", "DeleteObject", "DeleteDC", "ReleaseDC">>
             /\ gdi[s] = {"desktopDC", "memoryDC", "bitmap"}
    <3>1. /\ {1, 2, 3, 4} \subseteq DOMAIN calls
          /\ calls[1] = "SelectObject" /\ calls[2] = "DeleteObject" /\ calls[3] = "DeleteDC"
          /\ calls[4] = "ReleaseDC"
      BY <2>5
    <3>2. Server!LetsGo(calls[1])
      BY <3>1 DEF Server!LetsGo
    <3>3. "bitmap" \in Server!Freed(s, 2)
      BY <2>5, <3>1, <3>2 DEF Server!Freed
    <3>4. "memoryDC" \in Server!Freed(s, 3) /\ "desktopDC" \in Server!Freed(s, 4)
      BY <2>5, <3>1 DEF Server!Freed
    <3> QED
      BY <2>5, <3>1, <3>2, <3>3, <3>4
  <2> QED
    BY <2>1, <2>2, <2>3, <2>4, <2>5 DEF Holding, HoldingAt
<1>3. /\ step' = [step EXCEPT ![s] = "return"]
      /\ gdi' = [gdi EXCEPT ![s] = {}]
      /\ deferred' = [deferred EXCEPT ![s] = <<>>]
  BY <1>1, <1>2
<1>4. selected' = [selected EXCEPT ![s] = FALSE]
  <2>1. still = FALSE
    BY <1>2
  <2> QED
    BY <1>1, <2>1
<1>5. "return" \in Server!Calls \cup {"free", "return"}
  OBVIOUS
<1>6. <<>> \in Seq(Undoing) /\ {} \in SUBSET {"desktopDC", "memoryDC", "bitmap"} /\ FALSE \in BOOLEAN
  OBVIOUS
<1>7. Moves(s, "return")
  BY <1>3, <1>4, <1>5, <1>6 DEF Moves
<1>8. step'[s] = "return" /\ gdi'[s] = {} /\ ~selected'[s] /\ deferred'[s] = <<>>
  BY <1>3, <1>4 DEF TypeOK, Holding
<1> QED
  BY <1>7, <1>8 DEF HoldingAt

LEMMA RequestSteps ==
  ASSUME TypeOK, Holding, NEW s \in Slots, Server!Request(s)
  PROVE  /\ Moves(s, "GetDC") /\ HoldingAt(s)'
         /\ step[s] = "free" /\ UNCHANGED <<desktop, picture>>
<1>1. /\ step[s] = "free" /\ step' = [step EXCEPT ![s] = "GetDC"]
      /\ gdi' = gdi /\ selected' = selected /\ deferred' = deferred
      /\ UNCHANGED <<desktop, picture>>
  BY DEF Server!Request, Server!Goes
<1>2. "GetDC" \in Server!Calls \cup {"free", "return"}
  BY Calls
<1>3. gdi' = [gdi EXCEPT ![s] = gdi[s]] /\ gdi[s] \in SUBSET {"desktopDC", "memoryDC", "bitmap"}
  BY <1>1 DEF TypeOK
<1>4. selected' = [selected EXCEPT ![s] = selected[s]]
  BY <1>1 DEF TypeOK
<1>5. selected[s] \in BOOLEAN
  BY DEF TypeOK
<1>6. deferred' = [deferred EXCEPT ![s] = deferred[s]] /\ deferred[s] \in Seq(Undoing)
  BY <1>1 DEF Holding
<1>7. Moves(s, "GetDC")
  BY <1>1, <1>2, <1>3, <1>4, <1>5, <1>6 DEF Moves
<1>8. HoldingAt(s)'
  <2>1. HoldingAt(s)
    BY DEF Holding
  <2>2. step'[s] = "GetDC"
    BY <1>1 DEF TypeOK
  <2> QED
    BY <1>1, <2>1, <2>2 DEF HoldingAt
<1> QED
  BY <1>1, <1>7, <1>8

LEMMA AnswerSteps ==
  ASSUME TypeOK, Holding, NEW s \in Slots, Server!Answer(s)
  PROVE  /\ Moves(s, "free") /\ HoldingAt(s)'
         /\ step[s] = "return" /\ desktop' = desktop
         /\ picture' = [picture EXCEPT ![s] = Server!Nothing]
<1>1. /\ step[s] = "return" /\ step' = [step EXCEPT ![s] = "free"]
      /\ gdi' = gdi /\ selected' = selected /\ deferred' = deferred /\ desktop' = desktop
      /\ picture' = [picture EXCEPT ![s] = Server!Nothing]
  BY DEF Server!Answer, Server!Goes
<1>3. gdi' = [gdi EXCEPT ![s] = gdi[s]] /\ gdi[s] \in SUBSET {"desktopDC", "memoryDC", "bitmap"}
  BY <1>1 DEF TypeOK
<1>4. selected' = [selected EXCEPT ![s] = selected[s]]
  BY <1>1 DEF TypeOK
<1>5. selected[s] \in BOOLEAN
  BY DEF TypeOK
<1>6. deferred' = [deferred EXCEPT ![s] = deferred[s]] /\ deferred[s] \in Seq(Undoing)
  BY <1>1 DEF Holding
<1>7. Moves(s, "free")
  BY <1>1, <1>3, <1>4, <1>5, <1>6 DEF Moves
<1>8. HoldingAt(s)'
  <2>1. HoldingAt(s)
    BY DEF Holding
  <2>2. step'[s] = "free"
    BY <1>1 DEF TypeOK
  <2> QED
    BY <1>1, <2>1, <2>2 DEF HoldingAt
<1> QED
  BY <1>1, <1>7, <1>8

\* One more deferred call in front of the others.
LEMMA Pushed ==
  ASSUME NEW S, NEW one \in Seq(S), Len(one) = 1, NEW rest \in Seq(S)
  PROVE  /\ one \o rest \in Seq(S) /\ Len(one \o rest) = Len(rest) + 1
         /\ (one \o rest)[1] = one[1]
         /\ \A i \in 1 .. Len(rest) : (one \o rest)[i + 1] = rest[i]
<1> DEFINE all == one \o rest
<1>1. /\ all \in Seq(S) /\ Len(all) = Len(one) + Len(rest)
      /\ \A i \in 1 .. Len(one) + Len(rest) :
           all[i] = IF i <= Len(one) THEN one[i] ELSE rest[i - Len(one)]
  BY ConcatProperties
<1> HIDE DEF all
<1>2. Len(all) = 1 + Len(rest) /\ Len(rest) \in Nat
  BY <1>1
<1>3. \A i \in 1 .. 1 + Len(rest) : all[i] = IF i <= 1 THEN one[i] ELSE rest[i - 1]
  BY <1>1
<1>4. all[1] = one[1]
  BY <1>2, <1>3
<1>5. ASSUME NEW i \in 1 .. Len(rest)
      PROVE  all[i + 1] = rest[i]
  <2>1. i + 1 \in 1 .. 1 + Len(rest) /\ ~(i + 1 <= 1) /\ (i + 1) - 1 = i
    BY <1>2
  <2> QED
    BY <1>3, <2>1
<1> QED
  BY <1>1, <1>2, <1>4, <1>5 DEF all

LEMMA PushedOnOne ==
  ASSUME NEW S, NEW a \in S, NEW b \in S
  PROVE  <<a>> \o <<b>> = <<a, b>>
<1> DEFINE one == <<a>>
           rest == <<b>>
           all == one \o rest
<1>1. one \in Seq(S) /\ Len(one) = 1 /\ one[1] = a
  OBVIOUS
<1>2. rest \in Seq(S) /\ Len(rest) = 1 /\ rest[1] = b
  OBVIOUS
<1> HIDE DEF one, rest
<1>3. /\ all \in Seq(S) /\ Len(all) = Len(rest) + 1 /\ all[1] = one[1]
      /\ \A i \in 1 .. Len(rest) : all[i + 1] = rest[i]
  <2>1. one \in Seq(S) /\ Len(one) = 1 /\ rest \in Seq(S)
    BY <1>1, <1>2
  <2> QED
    BY <2>1, Pushed
<1> HIDE DEF all
<1>4. all[1 + 1] = rest[1]
  BY <1>2, <1>3
<1>5. all = <<a, b>>
  BY <1>1, <1>2, <1>3, <1>4
<1> QED
  BY <1>5 DEF all, one, rest

LEMMA PushedOnTwo ==
  ASSUME NEW S, NEW a \in S, NEW b \in S, NEW c \in S
  PROVE  <<a>> \o <<b, c>> = <<a, b, c>>
<1> DEFINE one == <<a>>
           rest == <<b, c>>
           all == one \o rest
<1>1. one \in Seq(S) /\ Len(one) = 1 /\ one[1] = a
  OBVIOUS
<1>2. rest \in Seq(S) /\ Len(rest) = 2 /\ rest[1] = b /\ rest[2] = c
  OBVIOUS
<1> HIDE DEF one, rest
<1>3. /\ all \in Seq(S) /\ Len(all) = Len(rest) + 1 /\ all[1] = one[1]
      /\ \A i \in 1 .. Len(rest) : all[i + 1] = rest[i]
  <2>1. one \in Seq(S) /\ Len(one) = 1 /\ rest \in Seq(S)
    BY <1>1, <1>2
  <2> QED
    BY <2>1, Pushed
<1> HIDE DEF all
<1>4. all[1 + 1] = rest[1] /\ all[2 + 1] = rest[2]
  BY <1>2, <1>3
<1>5. all = <<a, b, c>>
  BY <1>1, <1>2, <1>3, <1>4
<1> QED
  BY <1>5 DEF all, one, rest

LEMMA PushedOnThree ==
  ASSUME NEW S, NEW a \in S, NEW b \in S, NEW c \in S, NEW d \in S
  PROVE  <<a>> \o <<b, c, d>> = <<a, b, c, d>>
<1> DEFINE one == <<a>>
           rest == <<b, c, d>>
           all == one \o rest
<1>1. one \in Seq(S) /\ Len(one) = 1 /\ one[1] = a
  OBVIOUS
<1>2. rest \in Seq(S) /\ Len(rest) = 3 /\ rest[1] = b /\ rest[2] = c /\ rest[3] = d
  OBVIOUS
<1> HIDE DEF one, rest
<1>3. /\ all \in Seq(S) /\ Len(all) = Len(rest) + 1 /\ all[1] = one[1]
      /\ \A i \in 1 .. Len(rest) : all[i + 1] = rest[i]
  <2>1. one \in Seq(S) /\ Len(one) = 1 /\ rest \in Seq(S)
    BY <1>1, <1>2
  <2> QED
    BY <2>1, Pushed
<1> HIDE DEF all
<1>4. all[1 + 1] = rest[1] /\ all[2 + 1] = rest[2] /\ all[3 + 1] = rest[3]
  BY <1>2, <1>3
<1>5. all = <<a, b, c, d>>
  BY <1>1, <1>2, <1>3, <1>4
<1> QED
  BY <1>5 DEF all, one, rest

\* A call that gives an object, before and after.
LEMMA ObtainSteps ==
  ASSUME TypeOK, Holding, NEW s \in Slots, Server!Obtain(s)
  PROVE  /\ Moves(s, Server!Following[step[s]]) /\ HoldingAt(s)'
         /\ step[s] \notin {"free", "return"} /\ Server!Following[step[s]] \notin {"free", "return"}
         /\ UNCHANGED <<desktop, picture>>
<1>1. step[s] \in {"GetDC", "CreateCompatibleDC", "CreateCompatibleBitmap"}
  BY Calls DEF Server!Obtain
<1> DEFINE next == Server!Following[step[s]]
           object == Server!Objects[step[s]]
           undo == Server!Cleanup[step[s]]
           objects == gdi[s] \cup {object}
           calls == <<undo>> \o deferred[s]
<1>2. /\ step' = [step EXCEPT ![s] = next]
      /\ gdi' = [gdi EXCEPT ![s] = objects]
      /\ deferred' = [deferred EXCEPT ![s] = calls]
      /\ selected' = selected /\ UNCHANGED <<desktop, picture>>
  BY DEF Server!Obtain, Server!Goes, Server!Defer
<1>3. /\ step[s] = "GetDC" => next = "CreateCompatibleDC" /\ object = "desktopDC" /\ undo = "ReleaseDC"
      /\ step[s] = "CreateCompatibleDC" =>
           next = "CreateCompatibleBitmap" /\ object = "memoryDC" /\ undo = "DeleteDC"
      /\ step[s] = "CreateCompatibleBitmap" =>
           next = "SelectObject" /\ object = "bitmap" /\ undo = "DeleteObject"
  BY CallTable
<1> HIDE DEF next, object, undo
<1>4. gdi[s] \in SUBSET {"desktopDC", "memoryDC", "bitmap"} /\ deferred[s] \in Seq(Undoing)
  BY DEF TypeOK, Holding
<1>5. /\ object = "desktopDC" \/ object = "memoryDC" \/ object = "bitmap"
      /\ undo = "ReleaseDC" \/ undo = "DeleteDC" \/ undo = "DeleteObject"
  BY <1>1, <1>3
<1>6. next \in Server!Calls \cup {"free", "return"} /\ next \notin {"free", "return"}
  BY <1>1, <1>3, Calls
<1>7. objects \in SUBSET {"desktopDC", "memoryDC", "bitmap"} /\ calls \in Seq(Undoing)
  <2>1. objects \in SUBSET {"desktopDC", "memoryDC", "bitmap"}
    BY <1>4, <1>5
  <2>2. undo \in Undoing
    BY <1>5 DEF Undoing
  <2>3. calls \in Seq(Undoing)
    BY <1>4, <2>2, Pushed
  <2> QED
    BY <2>1, <2>3
<1>8. selected' = [selected EXCEPT ![s] = selected[s]]
  BY <1>2 DEF TypeOK
<1>9. selected[s] \in BOOLEAN
  BY DEF TypeOK
<1>10. step'[s] = next /\ gdi'[s] = objects /\ deferred'[s] = calls /\ selected'[s] = selected[s]
  BY <1>2 DEF TypeOK, Holding
<1>11. HoldingAt(s)
  BY DEF Holding
<1>12. "ReleaseDC" \in Undoing /\ "DeleteDC" \in Undoing /\ "DeleteObject" \in Undoing
  BY DEF Undoing
<1>13. HoldingAt(s)'
  <2>1. CASE step[s] = "GetDC"
    <3>1. gdi[s] = {} /\ ~selected[s] /\ deferred[s] = <<>>
      BY <1>11, <2>1 DEF HoldingAt
    <3>2. objects = {"desktopDC"} /\ calls = <<"ReleaseDC">>
      BY <1>3, <2>1, <3>1
    <3> QED
      BY <1>3, <1>10, <2>1, <3>1, <3>2 DEF HoldingAt
  <2>2. CASE step[s] = "CreateCompatibleDC"
    <3>1. gdi[s] = {"desktopDC"} /\ ~selected[s] /\ deferred[s] = <<"ReleaseDC">>
      BY <1>11, <2>2 DEF HoldingAt
    <3>2. objects = {"desktopDC", "memoryDC"}
      BY <1>3, <2>2, <3>1
    <3>3. calls = <<"DeleteDC", "ReleaseDC">>
      <4>1. <<"DeleteDC">> \o <<"ReleaseDC">> = <<"DeleteDC", "ReleaseDC">>
        BY <1>12, PushedOnOne, Zenon
      <4> QED
        BY <1>3, <2>2, <3>1, <4>1
    <3> QED
      BY <1>3, <1>10, <2>2, <3>1, <3>2, <3>3 DEF HoldingAt
  <2>3. CASE step[s] = "CreateCompatibleBitmap"
    <3>1. gdi[s] = {"desktopDC", "memoryDC"} /\ ~selected[s] /\ deferred[s] = <<"DeleteDC", "ReleaseDC">>
      BY <1>11, <2>3 DEF HoldingAt
    <3>2. objects = {"desktopDC", "memoryDC", "bitmap"}
      BY <1>3, <2>3, <3>1
    <3>3. calls = <<"DeleteObject", "DeleteDC", "ReleaseDC">>
      <4>1. <<"DeleteObject">> \o <<"DeleteDC", "ReleaseDC">> = <<"DeleteObject", "DeleteDC", "ReleaseDC">>
        BY <1>12, PushedOnTwo, Zenon
      <4> QED
        BY <1>3, <2>3, <3>1, <4>1
    <3> QED
      BY <1>3, <1>10, <2>3, <3>1, <3>2, <3>3 DEF HoldingAt
  <2> QED
    BY <1>1, <2>1, <2>2, <2>3
<1> HIDE DEF objects, calls
<1>14. Moves(s, next)
  BY <1>2, <1>6, <1>7, <1>8, <1>9 DEF Moves
<1> QED
  BY <1>1, <1>2, <1>6, <1>13, <1>14 DEF next

LEMMA SelectSteps ==
  ASSUME TypeOK, Holding, NEW s \in Slots, Server!SelectObject(s)
  PROVE  /\ Moves(s, "BitBlt") /\ HoldingAt(s)'
         /\ step[s] = "SelectObject" /\ UNCHANGED <<desktop, picture>>
<1>1. /\ step[s] = "SelectObject" /\ step' = [step EXCEPT ![s] = "BitBlt"]
      /\ gdi' = gdi /\ UNCHANGED <<desktop, picture>>
  BY CallTable DEF Server!SelectObject, Server!Goes
<1>2. "BitBlt" \in Server!Calls \cup {"free", "return"}
  BY Calls
<1>3. gdi' = [gdi EXCEPT ![s] = gdi[s]] /\ gdi[s] \in SUBSET {"desktopDC", "memoryDC", "bitmap"}
  BY <1>1 DEF TypeOK
<1>4. /\ gdi[s] = {"desktopDC", "memoryDC", "bitmap"} /\ ~selected[s]
      /\ deferred[s] = <<"DeleteObject", "DeleteDC", "ReleaseDC">>
  BY <1>1 DEF Holding, HoldingAt
<1>5. step'[s] = "BitBlt"
  BY <1>1 DEF TypeOK
<1>6. CASE selected' = [selected EXCEPT ![s] = TRUE] /\ Server!SelectOldLater(s)
  <2> DEFINE calls == <<"SelectObject">> \o deferred[s]
  <2>1. deferred' = [deferred EXCEPT ![s] = calls]
    BY <1>6 DEF Server!SelectOldLater, Server!Defer
  <2>2. calls = <<"SelectObject", "DeleteObject", "DeleteDC", "ReleaseDC">> /\ calls \in Seq(Undoing)
    <3>1. <<"SelectObject">> \o <<"DeleteObject", "DeleteDC", "ReleaseDC">>
            = <<"SelectObject", "DeleteObject", "DeleteDC", "ReleaseDC">>
      <4>1. /\ "SelectObject" \in Undoing /\ "DeleteObject" \in Undoing
            /\ "DeleteDC" \in Undoing /\ "ReleaseDC" \in Undoing
        BY DEF Undoing
      <4> QED
        BY <4>1, PushedOnThree, Zenon
    <3>2. "SelectObject" \in Undoing /\ deferred[s] \in Seq(Undoing)
      BY DEF Holding, Undoing
    <3>3. calls \in Seq(Undoing)
      BY <3>2, Pushed
    <3> QED
      BY <1>4, <3>1, <3>3
  <2> HIDE DEF calls
  <2>3. selected' = [selected EXCEPT ![s] = TRUE] /\ TRUE \in BOOLEAN
    BY <1>6
  <2>4. Moves(s, "BitBlt")
    BY <1>1, <1>2, <1>3, <2>1, <2>2, <2>3 DEF Moves
  <2>5. deferred'[s] = calls /\ gdi'[s] = gdi[s]
    BY <1>1, <2>1 DEF Holding
  <2>6. selected'[s]
    BY <2>3 DEF TypeOK
  <2>7. HoldingAt(s)'
    BY <1>4, <1>5, <2>2, <2>5, <2>6 DEF HoldingAt
  <2> QED
    BY <1>1, <2>4, <2>7
<1>7. CASE UNCHANGED <<selected, deferred>>
  <2>1. selected' = [selected EXCEPT ![s] = selected[s]]
    BY <1>7 DEF TypeOK
  <2>2. selected[s] \in BOOLEAN
    BY DEF TypeOK
  <2>3. deferred' = [deferred EXCEPT ![s] = deferred[s]] /\ deferred[s] \in Seq(Undoing)
    BY <1>7 DEF Holding
  <2>4. Moves(s, "BitBlt")
    BY <1>1, <1>2, <1>3, <2>1, <2>2, <2>3 DEF Moves
  <2>5. HoldingAt(s)'
    BY <1>1, <1>4, <1>5, <1>7 DEF HoldingAt
  <2> QED
    BY <1>1, <2>4, <2>5
<1> QED
  BY <1>6, <1>7 DEF Server!SelectObject

LEMMA BitBltSteps ==
  ASSUME TypeOK, Holding, NEW s \in Slots, Server!BitBlt(s)
  PROVE  /\ Moves(s, "GetDIBits") /\ HoldingAt(s)'
         /\ step[s] = "BitBlt" /\ desktop' = desktop
         /\ \E p \in {Server!Blank, desktop} : picture' = [picture EXCEPT ![s] = p]
<1>1. /\ step[s] = "BitBlt" /\ step' = [step EXCEPT ![s] = "GetDIBits"]
      /\ gdi' = gdi /\ selected' = selected /\ deferred' = deferred /\ desktop' = desktop
  BY CallTable DEF Server!BitBlt, Server!Goes
<1>2. \E p \in {Server!Blank, desktop} : picture' = [picture EXCEPT ![s] = p]
  BY DEF Server!BitBlt
<1>3. "GetDIBits" \in Server!Calls \cup {"free", "return"}
  BY Calls
<1>4. gdi' = [gdi EXCEPT ![s] = gdi[s]] /\ gdi[s] \in SUBSET {"desktopDC", "memoryDC", "bitmap"}
  BY <1>1 DEF TypeOK
<1>5. selected' = [selected EXCEPT ![s] = selected[s]]
  BY <1>1 DEF TypeOK
<1>6. selected[s] \in BOOLEAN
  BY DEF TypeOK
<1>7. deferred' = [deferred EXCEPT ![s] = deferred[s]] /\ deferred[s] \in Seq(Undoing)
  BY <1>1 DEF Holding
<1>8. Moves(s, "GetDIBits")
  BY <1>1, <1>3, <1>4, <1>5, <1>6, <1>7 DEF Moves
<1>9. HoldingAt(s)'
  <2>1. HoldingAt(s)
    BY DEF Holding
  <2>2. step'[s] = "GetDIBits"
    BY <1>1 DEF TypeOK
  <2> QED
    BY <1>1, <2>1, <2>2 DEF HoldingAt
<1> QED
  BY <1>1, <1>2, <1>8, <1>9

LEMMA PictureSet ==
  ASSUME TypeOK, NEW s \in Slots, NEW p \in {Server!Nothing, Server!Blank} \cup 0 .. MaxChanges,
         picture' = [picture EXCEPT ![s] = p]
  PROVE  /\ picture' \in [Slots -> {Server!Nothing, Server!Blank} \cup 0 .. MaxChanges]
         /\ picture'[s] = p /\ \A q \in Slots : q # s => picture'[q] = picture[q]
  BY DEF TypeOK

\* A call of Capture, whether it succeeds or not.
LEMMA WorkMoves ==
  ASSUME TypeOK, Holding, NEW s \in Slots, Server!Work(s)
  PROVE  /\ step[s] # "free" /\ desktop' = desktop
         /\ \E next : next # "free" /\ Moves(s, next) /\ HoldingAt(s)'
         /\ \E p \in {picture[s], Server!Nothing, Server!Blank, desktop} :
              picture' = [picture EXCEPT ![s] = p]
<1>1. picture = [picture EXCEPT ![s] = picture[s]]
  BY DEF TypeOK
<1>2. CASE Server!Fails(s)
  <2>1. step[s] \in Server!Calls /\ Server!Return(s) /\ desktop' = desktop
    BY <1>2 DEF Server!Fails
  <2>2. step[s] # "free"
    BY <2>1, Calls
  <2>3. picture' = [picture EXCEPT ![s] = Server!Nothing]
    BY <1>2 DEF Server!Fails
  <2>4. Moves(s, "return") /\ HoldingAt(s)'
    BY <2>1, ReturnSteps
  <2> QED
    BY <2>1, <2>2, <2>3, <2>4
<1>3. CASE Server!Obtain(s)
  BY <1>1, <1>3, ObtainSteps
<1>4. CASE Server!SelectObject(s)
  BY <1>1, <1>4, SelectSteps
<1>5. CASE Server!BitBlt(s)
  BY <1>5, BitBltSteps
<1>6. CASE Server!GetDIBits(s)
  <2>1. step[s] = "GetDIBits" /\ Server!Return(s) /\ desktop' = desktop /\ picture' = picture
    BY <1>6 DEF Server!GetDIBits
  <2>2. Moves(s, "return") /\ HoldingAt(s)'
    BY <2>1, ReturnSteps
  <2> QED
    BY <1>1, <2>1, <2>2
<1> QED
  BY <1>2, <1>3, <1>4, <1>5, <1>6 DEF Server!Work

LEMMA WorkSteps ==
  ASSUME TypeOK, Holding, NEW s \in Slots, Server!Work(s)
  PROVE  /\ ServerTypes' /\ Holding' /\ desktop' = desktop
         /\ \A q \in Slots :
              /\ step'[q] = "free" <=> step[q] = "free"
              /\ step[q] = "free" => picture'[q] = picture[q]
              /\ picture'[q] \in {picture[q], Server!Nothing, Server!Blank, desktop}
<1>1. step[s] # "free" /\ desktop' = desktop
  BY WorkMoves
<1>2. PICK next : next # "free" /\ Moves(s, next) /\ HoldingAt(s)'
  BY WorkMoves
<1>3. PICK p \in {picture[s], Server!Nothing, Server!Blank, desktop} :
        picture' = [picture EXCEPT ![s] = p]
  BY WorkMoves
<1>4. /\ Holding'
      /\ step' \in [Slots -> Server!Calls \cup {"free", "return"}]
      /\ gdi' \in [Slots -> SUBSET {"desktopDC", "memoryDC", "bitmap"}]
      /\ selected' \in [Slots -> BOOLEAN]
      /\ step'[s] = next /\ \A q \in Slots : q # s => step'[q] = step[q]
  BY <1>2, MovesKeep
<1>5. p \in {Server!Nothing, Server!Blank} \cup 0 .. MaxChanges
  BY <1>3 DEF TypeOK
<1>6. /\ picture' \in [Slots -> {Server!Nothing, Server!Blank} \cup 0 .. MaxChanges]
      /\ picture'[s] = p /\ \A q \in Slots : q # s => picture'[q] = picture[q]
  BY <1>3, <1>5, PictureSet
<1>7. ServerTypes'
  BY <1>1, <1>4, <1>6 DEF ServerTypes, TypeOK
<1> QED
  BY <1>1, <1>2, <1>3, <1>4, <1>6, <1>7

LEMMA SameServer ==
  ASSUME TypeOK, Holding, UNCHANGED server
  PROVE  ServerTypes' /\ Holding' /\ UNCHANGED <<desktop, step, picture>>
  BY DEF TypeOK, server, ServerTypes, Holding, HoldingAt

-----------------------------------------------------------------------------
(* The page and the server together.                                       *)

LEMMA Together ==
  ASSUME PageInv', ServerTypes', Holding', Asking', Forward',
         asker' \in [Slots -> Ids \cup {None}],
         \A s \in Slots : asker'[s] # None => step'[s] # "free",
         shown' \in {Server!Nothing, Server!Blank} \cup 0 .. MaxChanges
  PROVE  IInv'
<1>1. asker' \in [Slots -> Page!InFlight' \cup {None}]
  <2> SUFFICES ASSUME NEW s \in Slots, asker'[s] # None
               PROVE  asker'[s] \in Page!InFlight'
    OBVIOUS
  <2>1. asker'[s] \in Ids /\ refresh'[asker'[s]] = "fetching"
    BY DEF Asking
  <2> QED
    BY <2>1 DEF Page!InFlight
<1>2. TypeOK'
  BY <1>1 DEF TypeOK, PageInv, PageTypes, ServerTypes
<1> QED
  BY <1>2 DEF IInv, PageInv

LEMMA Waiting ==
  ASSUME TypeOK, Asking, NEW s \in Slots, asker[s] # None
  PROVE  asker[s] \in Ids /\ refresh[asker[s]] = "fetching" /\ asker[s] \in Page!InFlight
  BY InFlightIds DEF TypeOK, Asking

LEMMA AskerTypes ==
  ASSUME TypeOK
  PROVE  asker \in [Slots -> Ids \cup {None}]
  BY InFlightIds DEF TypeOK

LEMMA ForsakeSteps ==
  ASSUME TypeOK, NEW r, Forsake(r)
  PROVE  /\ asker' \in [Slots -> Ids \cup {None}]
         /\ \A s \in Slots : asker'[s] # None => asker'[s] = asker[s] /\ asker[s] # r
  BY AskerTypes DEF Forsake

LEMMA AskedBySteps ==
  ASSUME TypeOK, NEW s \in Slots, NEW r \in Ids \cup {None}, AskedBy(s, r)
  PROVE  /\ asker' \in [Slots -> Ids \cup {None}]
         /\ asker'[s] = r /\ \A q \in Slots : q # s => asker'[q] = asker[q]
  BY AskerTypes DEF AskedBy

\* Until the second start, one refresh at most waits for an answer.
LEMMA OneAsker ==
  ASSUME IInv, starts <= 1, NEW s \in Slots, NEW q \in Slots, asker[s] # None, asker[q] # None
  PROVE  q = s
<1>1. /\ asker[s] \in Ids /\ refresh[asker[s]] = "fetching"
      /\ asker[q] \in Ids /\ refresh[asker[q]] = "fetching"
  BY Waiting DEF IInv
<1>2. asker[q] = asker[s]
  BY <1>1 DEF IInv, Alone
<1> QED
  BY <1>2 DEF IInv, Asking

\* When nothing is captured and nothing new asked for.
LEMMA FewerAskers ==
  ASSUME IInv, UNCHANGED <<starts, desktop, picture, step, shown>>,
         \A s \in Slots : asker'[s] # None => asker'[s] = asker[s]
  PROVE  Forward' /\ \A s \in Slots : asker'[s] # None => step'[s] # "free"
  BY DEF IInv, TypeOK, Forward

LEMMA StartKeeps ==
  ASSUME IInv, Start
  PROVE  IInv'
<1> USE DEF IInv
<1>1. /\ Page!start /\ Page!Quit /\ Forsake(abortController) /\ UNCHANGED <<server, shown>>
      /\ starts' = starts + 1
  BY DEF Start, Page!start
<1>2. PageInv'
  BY <1>1, StartPage
<1>3. ServerTypes' /\ Holding' /\ UNCHANGED <<desktop, step, picture>>
  BY <1>1, SameServer
<1>4. /\ asker' \in [Slots -> Ids \cup {None}]
      /\ \A s \in Slots : asker'[s] # None => asker'[s] = asker[s] /\ asker[s] # abortController
  BY <1>1, ForsakeSteps
<1>5. Asking'
  <2>1. \A r \in Ids : refresh'[r] = "fetching" <=> refresh[r] = "fetching" /\ r # abortController
    BY <1>1, QuitSteps
  <2> QED
    BY <1>4, <2>1, Waiting DEF Asking
<1>6. Forward' /\ \A s \in Slots : asker'[s] # None => step'[s] # "free"
  <2>1. \A s \in Slots : asker'[s] # None => step'[s] # "free"
    BY <1>3, <1>4 DEF TypeOK
  <2>2. ASSUME starts' <= 1, NEW s \in Slots
        PROVE  asker'[s] = None
    <3>1. Cardinality(timers) + Cardinality(Page!InFlight) <= 0
      <4>1. starts \in Nat
        BY BoundsAssumption DEF TypeOK
      <4> QED
        BY <1>1, <2>2, <4>1, Counts DEF OneLoopPerStart, Loops
    <3>2. Cardinality(Page!InFlight) = 0
      BY <3>1, Counts
    <3>3. Page!InFlight = {}
      BY <3>2, Counts
    <3> QED
      BY <1>4, <3>3, Waiting
  <2>3. Forward'
    BY <1>1, <1>3, <2>2 DEF Forward
  <2> QED
    BY <2>1, <2>3
<1>7. shown' \in {Server!Nothing, Server!Blank} \cup 0 .. MaxChanges
  BY <1>1 DEF TypeOK
<1> QED
  BY <1>2, <1>3, <1>4, <1>5, <1>6, <1>7, Together

LEMMA StopKeeps ==
  ASSUME IInv, Stop
  PROVE  IInv'
<1> USE DEF IInv
<1>1. /\ Page!stop /\ Page!Quit /\ Forsake(abortController) /\ UNCHANGED <<server, shown>>
      /\ starts' = starts
  BY DEF Stop, Page!stop
<1>2. PageInv'
  BY <1>1, StopPage
<1>3. ServerTypes' /\ Holding' /\ UNCHANGED <<desktop, step, picture>>
  BY <1>1, SameServer
<1>4. /\ asker' \in [Slots -> Ids \cup {None}]
      /\ \A s \in Slots : asker'[s] # None => asker'[s] = asker[s] /\ asker[s] # abortController
  BY <1>1, ForsakeSteps
<1>5. Asking'
  <2>1. \A r \in Ids : refresh'[r] = "fetching" <=> refresh[r] = "fetching" /\ r # abortController
    BY <1>1, QuitSteps
  <2> QED
    BY <1>4, <2>1, Waiting DEF Asking
<1>6. Forward' /\ \A s \in Slots : asker'[s] # None => step'[s] # "free"
  BY <1>1, <1>3, <1>4, FewerAskers
<1>7. shown' \in {Server!Nothing, Server!Blank} \cup 0 .. MaxChanges
  BY <1>1 DEF TypeOK
<1> QED
  BY <1>2, <1>3, <1>4, <1>5, <1>6, <1>7, Together

LEMMA FetchKeeps ==
  ASSUME IInv, NEW t \in timers, NEW s \in Slots, Fetch(t, s)
  PROVE  IInv'
<1> USE DEF IInv
<1> DEFINE r == Page!Unused(Page!InFlight)
<1>1. Page!Fire(t) /\ Server!Request(s) /\ AskedBy(s, r) /\ UNCHANGED shown
  BY DEF Fetch
<1>2. PageInv'
  BY <1>1, FirePage
<1>3. /\ r \in Ids /\ r \notin Page!InFlight
      /\ refresh'[r] = "fetching" /\ \A q \in Ids : q # r => refresh'[q] = refresh[q]
      /\ starts' = starts
  BY <1>1, FireSteps
<1> HIDE DEF r
<1>4. /\ Moves(s, "GetDC") /\ HoldingAt(s)'
      /\ step[s] = "free" /\ UNCHANGED <<desktop, picture>>
  BY <1>1, RequestSteps
<1>5. /\ Holding'
      /\ step' \in [Slots -> Server!Calls \cup {"free", "return"}]
      /\ gdi' \in [Slots -> SUBSET {"desktopDC", "memoryDC", "bitmap"}]
      /\ selected' \in [Slots -> BOOLEAN]
      /\ step'[s] = "GetDC" /\ \A q \in Slots : q # s => step'[q] = step[q]
  BY <1>4, MovesKeep
<1>6. ServerTypes'
  BY <1>4, <1>5 DEF ServerTypes, TypeOK
<1>7. /\ asker' \in [Slots -> Ids \cup {None}]
      /\ asker'[s] = r /\ \A q \in Slots : q # s => asker'[q] = asker[q]
  BY <1>1, <1>3, AskedBySteps
<1>8. Asking'
  <2>1. \A q \in Slots : asker[q] # None => asker[q] # r
    BY <1>3, Waiting
  <2>2. ASSUME NEW q \in Slots, asker'[q] # None
        PROVE  refresh'[asker'[q]] = "fetching"
    BY <1>3, <1>7, <2>1, <2>2, Waiting
  <2>3. ASSUME NEW p \in Slots, NEW q \in Slots, asker'[q] # None, asker'[p] = asker'[q]
        PROVE  p = q
    BY <1>7, <2>1, <2>3 DEF Asking
  <2> QED
    BY <2>2, <2>3 DEF Asking
<1>9. \A q \in Slots : asker'[q] # None => step'[q] # "free"
  BY <1>5, <1>7 DEF TypeOK
<1>10. Forward'
  <2>1. shown' <= desktop' /\ \A q \in Slots : picture'[q] <= desktop'
    BY <1>1, <1>4 DEF Forward
  <2>2. \A q \in Slots : step'[q] = "free" => picture'[q] < 0
    BY <1>4, <1>5 DEF Forward
  <2>3. picture[s] < 0
    BY <1>4 DEF Forward
  <2>4. picture[s] \in Int
    BY Calls, BoundsAssumption DEF TypeOK
  <2>5. ASSUME starts' <= 1, NEW q \in Slots, asker'[q] # None, picture'[q] >= 0
        PROVE  picture'[q] >= shown'
    <3>1. q # s
      BY <1>4, <2>3, <2>4, <2>5
    <3> QED
      BY <1>1, <1>3, <1>4, <1>7, <2>5, <3>1 DEF Forward
  <2> QED
    BY <2>1, <2>2, <2>5 DEF Forward
<1>11. shown' \in {Server!Nothing, Server!Blank} \cup 0 .. MaxChanges
  BY <1>1 DEF TypeOK
<1> QED
  BY <1>2, <1>5, <1>6, <1>7, <1>8, <1>9, <1>10, <1>11, Together

\* What an answer leaves on the server.
LEMMA AnswerFrees ==
  ASSUME IInv, NEW s \in Slots, Server!Answer(s)
  PROVE  /\ ServerTypes' /\ Holding' /\ step[s] = "return" /\ desktop' = desktop
         /\ picture'[s] = Server!Nothing /\ \A q \in Slots : q # s => picture'[q] = picture[q]
         /\ step'[s] = "free" /\ \A q \in Slots : q # s => step'[q] = step[q]
<1> USE DEF IInv
<1>1. /\ Moves(s, "free") /\ HoldingAt(s)'
      /\ step[s] = "return" /\ desktop' = desktop
      /\ picture' = [picture EXCEPT ![s] = Server!Nothing]
  BY AnswerSteps
<1>2. /\ Holding'
      /\ step' \in [Slots -> Server!Calls \cup {"free", "return"}]
      /\ gdi' \in [Slots -> SUBSET {"desktopDC", "memoryDC", "bitmap"}]
      /\ selected' \in [Slots -> BOOLEAN]
      /\ step'[s] = "free" /\ \A q \in Slots : q # s => step'[q] = step[q]
  BY <1>1, MovesKeep
<1>3. /\ picture' \in [Slots -> {Server!Nothing, Server!Blank} \cup 0 .. MaxChanges]
      /\ picture'[s] = Server!Nothing /\ \A q \in Slots : q # s => picture'[q] = picture[q]
  BY <1>1, PictureSet
<1>4. ServerTypes'
  BY <1>1, <1>2, <1>3 DEF ServerTypes, TypeOK
<1> QED
  BY <1>1, <1>2, <1>3, <1>4

\* The refresh that asked for it is over, with what the page shows then.
LEMMA Answered ==
  ASSUME IInv, NEW s \in Slots, asker[s] # None, PageInv', Page!Settle(asker[s]),
         Server!Answer(s), AskedBy(s, None),
         shown' \in {Server!Nothing, Server!Blank} \cup 0 .. MaxChanges, shown' <= desktop,
         shown' = shown \/ shown' = picture[s]
  PROVE  IInv'
<1> USE DEF IInv
<1>1. asker[s] \in Ids /\ refresh[asker[s]] = "fetching"
  BY Waiting
<1>2. starts' = starts /\ \A q \in Ids : q # asker[s] => refresh'[q] = refresh[q]
  BY <1>1, SettleSteps
<1>3. /\ ServerTypes' /\ Holding' /\ step[s] = "return" /\ desktop' = desktop
      /\ picture'[s] = Server!Nothing /\ \A q \in Slots : q # s => picture'[q] = picture[q]
      /\ step'[s] = "free" /\ \A q \in Slots : q # s => step'[q] = step[q]
  BY AnswerFrees
<1>4. /\ asker' \in [Slots -> Ids \cup {None}]
      /\ asker'[s] = None /\ \A q \in Slots : q # s => asker'[q] = asker[q]
  BY AskedBySteps
<1>5. Asking'
  <2>1. \A q \in Slots : q # s => asker[q] # asker[s]
    BY DEF Asking
  <2>2. ASSUME NEW q \in Slots, asker'[q] # None
        PROVE  refresh'[asker'[q]] = "fetching"
    BY <1>2, <1>4, <2>1, <2>2, Waiting
  <2>3. ASSUME NEW p \in Slots, NEW q \in Slots, asker'[q] # None, asker'[p] = asker'[q]
        PROVE  p = q
    BY <1>4, <2>3 DEF Asking
  <2> QED
    BY <2>2, <2>3 DEF Asking
<1>6. \A q \in Slots : asker'[q] # None => step'[q] # "free"
  BY <1>3, <1>4 DEF TypeOK
<1>7. Forward'
  <2>1. desktop' \in Nat
    BY <1>3, BoundsAssumption DEF TypeOK
  <2>2. ASSUME NEW q \in Slots
        PROVE  picture'[q] <= desktop' /\ (step'[q] = "free" => picture'[q] < 0)
    <3>1. CASE q = s
      BY <1>3, <2>1, <3>1, Calls
    <3>2. CASE q # s
      BY <1>3, <3>2 DEF Forward
    <3> QED
      BY <3>1, <3>2
  <2>3. starts' <= 1 => \A q \in Slots : asker'[q] = None
    BY <1>2, <1>4, OneAsker
  <2> QED
    BY <1>3, <2>2, <2>3 DEF Forward
<1> QED
  BY <1>3, <1>4, <1>5, <1>6, <1>7, Together

LEMMA AnswerKeeps ==
  ASSUME IInv, NEW s \in Slots, Answer(s)
  PROVE  IInv'
<1> USE DEF IInv
<1>1. CASE AnswerImage(s)
  <2>1. asker[s] # None /\ Page!Swap(asker[s]) /\ shown' = picture[s] /\ Server!Answer(s) /\ AskedBy(s, None)
    BY <1>1 DEF AnswerImage, Received
  <2>2. asker[s] \in Ids
    BY <2>1, Waiting
  <2>3. PageInv' /\ Page!Settle(asker[s])
    BY <2>1, <2>2, SwapPage
  <2>4. shown' \in {Server!Nothing, Server!Blank} \cup 0 .. MaxChanges /\ shown' <= desktop
    BY <2>1 DEF TypeOK, Forward
  <2> QED
    BY <2>1, <2>3, <2>4, Answered
<1>2. CASE AnswerError(s)
  <2>1. asker[s] # None /\ Page!Fail(asker[s]) /\ shown' = shown /\ Server!Answer(s) /\ AskedBy(s, None)
    BY <1>2 DEF AnswerError
  <2>2. asker[s] \in Ids
    BY <2>1, Waiting
  <2>3. PageInv' /\ Page!Settle(asker[s])
    BY <2>1, <2>2, FailPage
  <2>4. shown' \in {Server!Nothing, Server!Blank} \cup 0 .. MaxChanges /\ shown' <= desktop
    BY <2>1 DEF TypeOK, Forward
  <2> QED
    BY <2>1, <2>3, <2>4, Answered
<1>3. CASE AnswerNobody(s)
  <2>1. asker[s] = None /\ Server!Answer(s) /\ UNCHANGED <<page, asker, shown>>
    BY <1>3 DEF AnswerNobody
  <2>2. PageInv' /\ UNCHANGED <<starts, refresh>>
    BY <2>1, SamePage DEF page
  <2>3. /\ ServerTypes' /\ Holding' /\ step[s] = "return" /\ desktop' = desktop
        /\ picture'[s] = Server!Nothing /\ \A q \in Slots : q # s => picture'[q] = picture[q]
        /\ step'[s] = "free" /\ \A q \in Slots : q # s => step'[q] = step[q]
    BY <2>1, AnswerFrees
  <2>4. Asking'
    BY <2>1, <2>2 DEF Asking
  <2>5. asker' \in [Slots -> Ids \cup {None}]
    BY <2>1, AskerTypes
  <2>6. \A q \in Slots : asker'[q] # None => step'[q] # "free"
    BY <2>1, <2>3 DEF TypeOK
  <2>7. Forward'
    <3>1. desktop \in Nat
      BY BoundsAssumption DEF TypeOK
    <3>2. ASSUME NEW q \in Slots
          PROVE  picture'[q] <= desktop' /\ (step'[q] = "free" => picture'[q] < 0)
      <4>1. CASE q = s
        BY <2>3, <3>1, <4>1, Calls
      <4>2. CASE q # s
        BY <2>3, <4>2 DEF Forward
      <4> QED
        BY <4>1, <4>2
    <3>3. ASSUME starts' <= 1, NEW q \in Slots, asker'[q] # None, picture'[q] >= 0
          PROVE  picture'[q] >= shown'
      BY <2>1, <2>2, <2>3, <3>3 DEF Forward
    <3> QED
      BY <2>1, <2>3, <3>2, <3>3 DEF Forward
  <2>8. shown' \in {Server!Nothing, Server!Blank} \cup 0 .. MaxChanges
    BY <2>1 DEF TypeOK
  <2> QED
    BY <2>2, <2>3, <2>4, <2>5, <2>6, <2>7, <2>8, Together
<1> QED
  BY <1>1, <1>2, <1>3 DEF Answer

LEMMA BreaksKeeps ==
  ASSUME IInv, NEW r \in Ids, Breaks(r)
  PROVE  IInv'
<1> USE DEF IInv
<1>1. Page!Fail(r) /\ Forsake(r) /\ UNCHANGED <<server, shown>>
  BY DEF Breaks
<1>2. PageInv' /\ refresh[r] # "none" /\ Page!Settle(r)
  BY <1>1, FailPage
<1>3. starts' = starts /\ \A q \in Ids : q # r => refresh'[q] = refresh[q]
  BY <1>2, SettleSteps
<1>4. ServerTypes' /\ Holding' /\ UNCHANGED <<desktop, step, picture>>
  BY <1>1, SameServer
<1>5. /\ asker' \in [Slots -> Ids \cup {None}]
      /\ \A s \in Slots : asker'[s] # None => asker'[s] = asker[s] /\ asker[s] # r
  BY <1>1, ForsakeSteps
<1>6. Asking'
  BY <1>3, <1>5, Waiting DEF Asking
<1>7. Forward' /\ \A s \in Slots : asker'[s] # None => step'[s] # "free"
  BY <1>1, <1>3, <1>4, <1>5, FewerAskers
<1>8. shown' \in {Server!Nothing, Server!Blank} \cup 0 .. MaxChanges
  BY <1>1 DEF TypeOK
<1> QED
  BY <1>2, <1>4, <1>5, <1>6, <1>7, <1>8, Together

LEMMA RejectedKeeps ==
  ASSUME IInv, NEW r \in Ids, Rejected(r)
  PROVE  IInv'
<1> USE DEF IInv
<1>1. Page!Rejected(r) /\ refresh[r] = "aborted" /\ UNCHANGED <<server, asker, shown>>
  BY DEF Rejected, Page!Rejected
<1>2. PageInv' /\ refresh[r] # "none" /\ Page!Settle(r)
  BY <1>1, FailPage
<1>3. starts' = starts /\ \A q \in Ids : q # r => refresh'[q] = refresh[q]
  BY <1>2, SettleSteps
<1>4. ServerTypes' /\ Holding' /\ UNCHANGED <<desktop, step, picture>>
  BY <1>1, SameServer
<1>5. asker' \in [Slots -> Ids \cup {None}]
  BY <1>1, AskerTypes
<1>6. Asking'
  <2>1. \A s \in Slots : asker[s] # None => asker[s] # r
    BY <1>1, Waiting
  <2> QED
    BY <1>1, <1>3, <2>1, Waiting DEF Asking
<1>7. Forward' /\ \A s \in Slots : asker'[s] # None => step'[s] # "free"
  BY <1>1, <1>3, <1>4, FewerAskers
<1>8. shown' \in {Server!Nothing, Server!Blank} \cup 0 .. MaxChanges
  BY <1>1 DEF TypeOK
<1> QED
  BY <1>2, <1>4, <1>5, <1>6, <1>7, <1>8, Together

LEMMA CaptureKeeps ==
  ASSUME IInv, NEW s \in Slots, Capture(s)
  PROVE  IInv'
<1> USE DEF IInv
<1>1. Server!Work(s) /\ UNCHANGED <<page, asker, shown>>
  BY DEF Capture
<1>2. PageInv' /\ UNCHANGED <<starts, refresh>>
  BY <1>1, SamePage DEF page
<1>3. /\ ServerTypes' /\ Holding' /\ desktop' = desktop
      /\ \A q \in Slots :
           /\ step'[q] = "free" <=> step[q] = "free"
           /\ step[q] = "free" => picture'[q] = picture[q]
           /\ picture'[q] \in {picture[q], Server!Nothing, Server!Blank, desktop}
  BY <1>1, WorkSteps
<1>4. Asking'
  BY <1>1, <1>2 DEF Asking
<1>5. asker' \in [Slots -> Ids \cup {None}]
  BY <1>1, AskerTypes
<1>6. \A q \in Slots : asker'[q] # None => step'[q] # "free"
  BY <1>1, <1>3 DEF TypeOK
<1>7. Forward'
  <2>1. desktop \in Nat /\ shown <= desktop
    BY BoundsAssumption DEF TypeOK, Forward
  <2>2. ASSUME NEW q \in Slots
        PROVE  picture'[q] <= desktop' /\ (step'[q] = "free" => picture'[q] < 0)
    BY <1>3, <2>1, Calls DEF Forward
  <2>3. ASSUME starts' <= 1, NEW q \in Slots, asker'[q] # None, picture'[q] >= 0
        PROVE  picture'[q] >= shown'
    <3>1. picture'[q] = picture[q] \/ picture'[q] = desktop
      BY <1>3, <2>3, Calls
    <3> QED
      BY <1>1, <1>2, <2>1, <2>3, <3>1 DEF Forward
  <2> QED
    BY <1>1, <1>3, <2>1, <2>2, <2>3 DEF Forward
<1>8. shown' \in {Server!Nothing, Server!Blank} \cup 0 .. MaxChanges
  BY <1>1 DEF TypeOK
<1> QED
  BY <1>2, <1>3, <1>4, <1>5, <1>6, <1>7, <1>8, Together

LEMMA ChangeKeeps ==
  ASSUME IInv, DesktopChanges
  PROVE  IInv'
<1> USE DEF IInv
<1>1. /\ desktop < MaxChanges /\ desktop' = desktop + 1
      /\ UNCHANGED <<page, step, gdi, selected, deferred, picture, asker, shown>>
  BY DEF DesktopChanges, Server!DesktopChanges, Server!capture
<1>2. PageInv' /\ UNCHANGED <<starts, refresh>>
  BY <1>1, SamePage DEF page
<1>3. desktop \in Nat /\ desktop' \in 0 .. MaxChanges
  BY <1>1, BoundsAssumption DEF TypeOK
<1>4. ServerTypes'
  BY <1>1, <1>3 DEF TypeOK, ServerTypes
<1>5. Holding'
  BY <1>1 DEF Holding, HoldingAt
<1>6. Asking'
  BY <1>1, <1>2 DEF Asking
<1>7. asker' \in [Slots -> Ids \cup {None}]
  BY <1>1, AskerTypes
<1>8. \A q \in Slots : asker'[q] # None => step'[q] # "free"
  BY <1>1 DEF TypeOK
<1>9. shown \in Int /\ \A q \in Slots : picture[q] \in Int
  BY BoundsAssumption, Calls DEF TypeOK
<1>10. Forward'
  BY <1>1, <1>2, <1>3, <1>9 DEF Forward
<1>11. shown' \in {Server!Nothing, Server!Blank} \cup 0 .. MaxChanges
  BY <1>1 DEF TypeOK
<1> QED
  BY <1>2, <1>4, <1>5, <1>6, <1>7, <1>8, <1>10, <1>11, Together

-----------------------------------------------------------------------------
(* The theorems.                                                           *)

LEMMA InitIInv == Init => IInv
<1> SUFFICES ASSUME Init
             PROVE  IInv
  OBVIOUS
<1>1. /\ stopped = TRUE /\ timers = {} /\ timeoutId = None
      /\ refresh = [r \in Ids |-> "none"] /\ abortController = None
      /\ urls = {} /\ objectUrl = None /\ image = None /\ starts = 0
  BY DEF Init, Page!Init
<1>2. /\ desktop = 0 /\ step = [s \in Slots |-> "free"] /\ gdi = [s \in Slots |-> {}]
      /\ selected = [s \in Slots |-> FALSE] /\ deferred = [s \in Slots |-> <<>>]
      /\ picture = [s \in Slots |-> Server!Nothing]
  BY DEF Init, Server!Init
<1>3. asker = [s \in Slots |-> None] /\ shown = Server!Nothing
  BY DEF Init
<1>4. Page!InFlight = {}
  BY <1>1 DEF Page!InFlight
<1>5. TypeOK
  <2>1. starts \in 0 .. MaxStarts /\ desktop \in 0 .. MaxChanges
    BY <1>1, <1>2, BoundsAssumption
  <2>2. selected \in [Slots -> BOOLEAN]
    BY <1>2
  <2>3. gdi \in [Slots -> SUBSET {"desktopDC", "memoryDC", "bitmap"}]
    BY <1>2
  <2>4. step \in [Slots -> Server!Calls \cup {"free", "return"}]
    BY <1>2
  <2>5. picture \in [Slots -> {Server!Nothing, Server!Blank} \cup 0 .. MaxChanges]
    BY <1>2
  <2>6. /\ asker \in [Slots -> Page!InFlight \cup {None}]
        /\ \A s \in Slots : asker[s] # None => step[s] # "free"
        /\ shown \in {Server!Nothing, Server!Blank} \cup 0 .. MaxChanges
    BY <1>3
  <2>7. refresh \in [Ids -> {"none", "fetching", "aborted"}]
    BY <1>1
  <2> QED
    BY <1>1, <2>1, <2>2, <2>3, <2>4, <2>5, <2>6, <2>7 DEF TypeOK
<1>6. Countable
  BY <1>1, <1>4, FS_EmptySet DEF Countable
<1>7. OnePicture
  BY <1>1 DEF OnePicture
<1>8. OneLoopPerStart
  BY <1>1, <1>4, <1>6, Counts DEF OneLoopPerStart, Loops
<1>9. Alone
  BY <1>1 DEF Alone
<1>10. Holding
  <2>1. deferred \in [Slots -> Seq(Undoing)]
    BY <1>2
  <2> QED
    BY <1>2, <2>1 DEF Holding, HoldingAt
<1>11. Asking
  BY <1>3 DEF Asking
<1>12. Forward
  BY <1>2, <1>3, Calls DEF Forward
<1> QED
  BY <1>5, <1>6, <1>7, <1>8, <1>9, <1>10, <1>11, <1>12 DEF IInv

LEMMA NextIInv == IInv /\ [Next]_vars => IInv'
<1> SUFFICES ASSUME IInv, [Next]_vars
             PROVE  IInv'
  OBVIOUS
<1>1. CASE Start
  BY <1>1, StartKeeps
<1>2. CASE Stop
  BY <1>2, StopKeeps
<1>3. CASE DesktopChanges
  BY <1>3, ChangeKeeps
<1>4. ASSUME NEW t \in timers, Fires(t)
      PROVE  IInv'
  <2>1. Idle \subseteq Slots /\ Idle # {} /\ Fetch(t, Page!Least(Idle))
    BY <1>4 DEF Fires, Idle
  <2>2. Page!Least(Idle) \in Slots
    BY <2>1, LeastIn, SlotsAssumption
  <2> QED
    BY <2>1, <2>2, FetchKeeps
<1>5. ASSUME NEW s \in Slots, Capture(s) \/ Answer(s)
      PROVE  IInv'
  BY <1>5, CaptureKeeps, AnswerKeeps
<1>6. ASSUME NEW r \in Ids, Breaks(r) \/ Rejected(r)
      PROVE  IInv'
  BY <1>6, BreaksKeeps, RejectedKeeps
<1>7. CASE UNCHANGED vars
  <2>1. UNCHANGED <<page, server, asker, shown>>
    BY <1>7 DEF vars
  <2>2. PageInv' /\ UNCHANGED <<starts, refresh>>
    BY <2>1, SamePage DEF page
  <2>3. ServerTypes' /\ Holding' /\ UNCHANGED <<desktop, step, picture>>
    BY <2>1, SameServer DEF IInv
  <2>4. Asking'
    BY <2>1, <2>2 DEF IInv, Asking
  <2>5. Forward' /\ \A s \in Slots : asker'[s] # None => step'[s] # "free"
    BY <2>1, <2>2, <2>3, FewerAskers
  <2>6. asker' \in [Slots -> Ids \cup {None}]
    BY <2>1, AskerTypes DEF IInv
  <2>7. shown' \in {Server!Nothing, Server!Blank} \cup 0 .. MaxChanges
    BY <2>1 DEF IInv, TypeOK
  <2> QED
    BY <2>2, <2>3, <2>4, <2>5, <2>6, <2>7, Together
<1> QED
  BY <1>1, <1>2, <1>3, <1>4, <1>5, <1>6, <1>7 DEF Next

\* The argument holds in every state a page and its server can reach, for any
\* numbers of refreshes, starts and requests.
THEOREM Invariance == Spec => []IInv
  BY InitIInv, NextIInv, PTL DEF Spec

\* Every variable keeps its type.
THEOREM TypeCorrect == Spec => []TypeOK
<1>1. IInv => TypeOK
  BY DEF IInv
<1> QED
  BY <1>1, Invariance, PTL

\* Whatever call of Capture fails, and whether anyone waits for the picture,
\* its deferred calls give every GDI object back.
THEOREM NothingLeaks == Spec => []ObjectsReturned
<1>1. IInv => ObjectsReturned
  BY DEF IInv, Holding, HoldingAt, ObjectsReturned
<1> QED
  BY <1>1, Invariance, PTL

\* The page keeps one object URL at most, and with one start it is that of the
\* picture it shows, from the first picture until it is stopped.
THEOREM UrlsRevoked == Spec => []OnePicture
<1>1. IInv => OnePicture
  BY DEF IInv
<1> QED
  BY <1>1, Invariance, PTL

\* No callback adds a loop of refreshes, and none ends one while the preview runs.
THEOREM LoopsCounted == Spec => []OneLoopPerStart
<1>1. IInv => OneLoopPerStart
  BY DEF IInv
<1> QED
  BY <1>1, Invariance, PTL

\* A preview that was started once and stopped has nothing left on the page.
THEOREM StopIsClean == Spec => []StopStops
<1>1. IInv => StopStops
  <2> SUFFICES ASSUME IInv, stopped, starts <= 1
               PROVE  /\ timers = {} /\ urls = {}
                      /\ \A r \in Ids : refresh[r] \in {"none", "aborted"}
    BY DEF StopStops
  <2>1. timers = {} /\ objectUrl = None /\ \A r \in Ids : refresh[r] # "fetching"
    BY DEF IInv, Alone
  <2>2. urls = {}
    BY <2>1 DEF IInv, OnePicture
  <2>3. \A r \in Ids : refresh[r] \in {"none", "fetching", "aborted"}
    BY DEF IInv, TypeOK
  <2> QED
    BY <2>1, <2>2, <2>3
<1> QED
  BY <1>1, Invariance, PTL

\* Only a whole image changes what the page shows.
LEMMA ShownChanges ==
  ASSUME IInv, [Next]_vars, shown' # shown
  PROVE  \E s \in Slots : AnswerImage(s)
  BY DEF Next, vars, Start, Stop, DesktopChanges, Fires, Fetch, Capture, Answer, AnswerError,
     AnswerNobody,
         Breaks, Rejected

\* Up to the second start the page never goes back to an older picture of the
\* desktop: with one loop, the answers come in the order of their captures.
THEOREM NeverBackwards == Spec => PicturesMoveForward
<1>1. IInv /\ [Next]_vars => [starts <= 1 /\ shown >= 0 /\ shown' >= 0 => shown' >= shown]_vars
  <2> SUFFICES ASSUME IInv, [Next]_vars, starts <= 1, shown >= 0, shown' >= 0
               PROVE  shown' >= shown
    OBVIOUS
  <2>1. CASE shown' = shown
    <3>1. shown \in Int
      BY Calls, BoundsAssumption DEF IInv, TypeOK
    <3> QED
      BY <2>1, <3>1
  <2>2. CASE shown' # shown
    <3>1. PICK s \in Slots : AnswerImage(s)
      BY <2>2, ShownChanges
    <3>2. asker[s] # None /\ shown' = picture[s]
      BY <3>1 DEF AnswerImage, Received
    <3> QED
      BY <3>2 DEF IInv, Forward
  <2> QED
    BY <2>1, <2>2
<1> QED
  BY <1>1, Invariance, PTL DEF Spec, PicturesMoveForward

=============================================================================
