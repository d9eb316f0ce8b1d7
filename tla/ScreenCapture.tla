----------------------------- MODULE ScreenCapture -----------------------------
(***************************************************************************)
(* windowsCapturer.Capture, as handleScreenJPEG of internal/web calls it:  *)
(* one goroutine per request, any number of them at once, each going       *)
(* through the same GDI calls.  Every call can fail; what was obtained     *)
(* before is given back by the deferred calls, last one first.             *)
(*                                                                         *)
(* A picture is the number of changes the desktop had seen when it was     *)
(* copied.  Sizes, the order of colour bytes and the JPEG are left out.    *)
(***************************************************************************)
EXTENDS Integers, Sequences

CONSTANTS Slots,        \* bound: requests the server works on at once
          MaxChanges    \* bound: changes of what the desktop shows

VARIABLES desktop,      \* what the desktop shows
          step,         \* the call a request makes next, or "free" or "return"
          gdi,          \* the GDI objects that exist for a request
          selected,     \* its bitmap is selected into its memory DC
          deferred,     \* its deferred calls, the last one first
          picture       \* what its bitmap, then its image, shows

capture == <<step, gdi, selected, deferred, picture>>
vars == <<desktop, capture>>

Blank == -1     \* a bitmap nothing was copied into
Nothing == -2   \* no image: not yet, or an error

\* The calls that give the request an object, and what is deferred with it.
Objects == [GetDC                  |-> "desktopDC",
            CreateCompatibleDC     |-> "memoryDC",
            CreateCompatibleBitmap |-> "bitmap"]
Cleanup == [GetDC                  |-> "ReleaseDC",
            CreateCompatibleDC     |-> "DeleteDC",
            CreateCompatibleBitmap |-> "DeleteObject"]

Following == [GetDC                  |-> "CreateCompatibleDC",
              CreateCompatibleDC     |-> "CreateCompatibleBitmap",
              CreateCompatibleBitmap |-> "SelectObject",
              SelectObject           |-> "BitBlt",
              BitBlt                 |-> "GetDIBits"]

Calls == DOMAIN Following \cup {"GetDIBits"}

Init ==
  /\ desktop = 0
  /\ step = [s \in Slots |-> "free"]
  /\ gdi = [s \in Slots |-> {}]
  /\ selected = [s \in Slots |-> FALSE]
  /\ deferred = [s \in Slots |-> <<>>]
  /\ picture = [s \in Slots |-> Nothing]

-----------------------------------------------------------------------------

Goes(s, next) == step' = [step EXCEPT ![s] = next]

Defer(s, call) == deferred' = [deferred EXCEPT ![s] = <<call>> \o @]

Request(s) ==
  /\ step[s] = "free"
  /\ Goes(s, "GetDC")
  /\ UNCHANGED <<desktop, gdi, selected, deferred, picture>>

\* The default bitmap is selected again, or the memory DC is deleted.
LetsGo(call) == call \in {"SelectObject", "DeleteDC"}

\* The objects that the i-th deferred call of a request gives back.  GDI
\* (external) does not delete a bitmap while it is selected.
Freed(s, i) ==
  LET call == deferred[s][i]
  IN  {object \in gdi[s] :
         \/ object = "desktopDC" /\ call = "ReleaseDC"
         \/ object = "memoryDC" /\ call = "DeleteDC"
         \/ /\ object = "bitmap" /\ call = "DeleteObject"
            /\ selected[s] => \E j \in 1 .. i - 1 : LetsGo(deferred[s][j])}

\* Capture returns: its deferred calls run, one after the other.
Return(s) ==
  /\ Goes(s, "return")
  /\ gdi' = [gdi EXCEPT ![s] = @ \ UNION {Freed(s, i) : i \in DOMAIN deferred[s]}]
  /\ selected' = [selected EXCEPT ![s] = @ /\ ~\E i \in DOMAIN deferred[s] : LetsGo(deferred[s][i])]
  /\ deferred' = [deferred EXCEPT ![s] = <<>>]

\* Every call but SelectObject is checked, and VirtualBounds before the first
\* one: the request returns an error.
Fails(s) ==
  /\ step[s] \in Calls \ {"SelectObject"}
  /\ Return(s)
  /\ picture' = [picture EXCEPT ![s] = Nothing]
  /\ UNCHANGED desktop

Obtain(s) ==
  /\ step[s] \in DOMAIN Objects
  /\ gdi' = [gdi EXCEPT ![s] = @ \cup {Objects[step[s]]}]
  /\ Defer(s, Cleanup[step[s]])
  /\ Goes(s, Following[step[s]])
  /\ UNCHANGED <<desktop, selected, picture>>

\* Mutant: the bitmap stays selected.
SelectOldNever(s) == UNCHANGED deferred

SelectOldLater(s) == Defer(s, "SelectObject")

\* The default bitmap is selected again at the end only if there was one; a
\* failure is not noticed, and the desktop is then copied to that bitmap.
SelectObject(s) ==
  /\ step[s] = "SelectObject"
  /\ \/ selected' = [selected EXCEPT ![s] = TRUE] /\ SelectOldLater(s)
     \/ UNCHANGED <<selected, deferred>>
  /\ Goes(s, Following[step[s]])
  /\ UNCHANGED <<desktop, gdi, picture>>

BitBlt(s) ==
  /\ step[s] = "BitBlt"
  /\ picture' = [picture EXCEPT ![s] = IF selected[s] THEN desktop ELSE Blank]
  /\ Goes(s, Following[step[s]])
  /\ UNCHANGED <<desktop, gdi, selected, deferred>>

GetDIBits(s) ==
  /\ step[s] = "GetDIBits"
  /\ Return(s)
  /\ UNCHANGED <<desktop, picture>>

\* handleScreenJPEG writes the image, an error, or to nobody, and is done.
Answer(s) ==
  /\ step[s] = "return"
  /\ Goes(s, "free")
  /\ picture' = [picture EXCEPT ![s] = Nothing]
  /\ UNCHANGED <<desktop, gdi, selected, deferred>>

DesktopChanges ==
  /\ desktop < MaxChanges
  /\ desktop' = desktop + 1
  /\ UNCHANGED capture

-----------------------------------------------------------------------------

Work(s) ==
  \/ Fails(s) \/ Obtain(s) \/ SelectObject(s)
  \/ BitBlt(s) \/ GetDIBits(s)

Next == DesktopChanges \/ \E s \in Slots : Request(s) \/ Work(s) \/ Answer(s)

Spec == Init /\ [][Next]_vars

=============================================================================
