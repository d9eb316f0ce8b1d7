--------------------------- MODULE WinTabBridgeProps ---------------------------
(***************************************************************************)
(* What an application gets out of the bridge, and what it does not.       *)
(***************************************************************************)
EXTENDS WinTabBridge

Serials == 0 .. SerialMod - 1
Numbers == 0 .. MaxEvents

Stages == {"off", "magic", "version", "idle", "serial"} \cup Fields
Steps  == {"idle", "header", "compare", "commit"} \cup Fields

\* Type invariant.
TypeOK ==
  /\ at \in Stages
  /\ serial \in Serials
  /\ injected \in Numbers
  /\ header \in {"none", "magic", "both"}
  /\ packet \in [Fields -> Numbers]
  /\ shared \in Serials
  /\ published \in Numbers
  /\ deaths \in 0 .. MaxRestarts
  /\ mapped \in [Apps -> BOOLEAN]
  /\ lastSerial \in [Apps -> Serials]
  /\ step \in [Apps -> Steps]
  /\ consume \in [Apps -> BOOLEAN]
  /\ out \in [Apps -> [Fields -> Numbers]]
  /\ since \in [Apps -> Numbers]
  /\ clean \in [Apps -> BOOLEAN]
  /\ remembered \in [Apps -> Numbers]

\* A returned packet is never staler than the memory was when its loads began:
\* each field is of the event published then or of a later one, whatever the
\* writer did meanwhile and whoever died (Serial is stored after the fields it
\* announces).
FreshFields ==
  \A a \in Apps : step[a] = "idle" => \A f \in Fields : out[a][f] >= since[a]

\* WTPacketsGet never hands out the zero-filled memory, nor a field of it, as a
\* packet: each field was stored for an event that was injected.  (A peek does.)
NothingInvented ==
  \A a \in Apps : step[a] = "commit" /\ consume[a] => \A f \in Fields : out[a][f] > 0

\* Nothing an application has seen is taken back while it lives: a field it
\* loads never shows an older event than the same field of its previous packet,
\* also when the server was restarted in between and counts from 0 again.
NeverBackward ==
  [][\A a \in Apps : mapped'[a] => \A f \in Fields : out'[a][f] >= out[a][f]]_vars

\* What an application has is not older than the event published last.
UpToDate(a) == \A f \in Fields : out[a][f] >= published

\* It asks for new packets and is told that there are none.
NothingNew(a) ==
  step[a] = "idle" /\ mapped[a] /\ at = "idle" /\ shared = lastSerial[a]

\* Serial can tell what was published since the application last read it from
\* what it read then: at most SerialMod - 1 events.
NotLapped(a) == published - remembered[a] < SerialMod

\* An application that is told there is nothing new has the latest packet, also
\* after Serial has wrapped: unless the server stored a Serial during its last
\* consuming read, or SerialMod events and more since then.  (Only without
\* restarts, see the runs bridge_lost and bridge_restart_lost.)
LatestAfterCleanRead ==
  \A a \in Apps : NothingNew(a) /\ clean[a] /\ NotLapped(a) => UpToDate(a)

\* Once the pen rests, an application that keeps asking gets the last packet,
\* whether it started before the server or after it, with the same exceptions.
CatchesUp ==
  \A a \in Apps :
    <>[](at = "off" \/ (mapped[a] /\ (clean[a] /\ NotLapped(a) => UpToDate(a))))

-----------------------------------------------------------------------------
(* What the comments and the documents say.                                *)

\* "Serial is written last so proxy readers see a complete packet per serial"
\* (server/internal/pen/wintab_windows.go): the fields that WTPacketsGet is
\* about to hand out belong to one event.
CompletePacket ==
  \A a \in Apps :
    step[a] = "commit" /\ consume[a] => \A f, g \in Fields : out[a][f] = out[a][g]

\* The proxy "reads the latest PPAP packet" (wintab-proxy/README.md): when a
\* consuming read finds nothing new, the application has the latest one.
LatestUnlessNew ==
  \A a \in Apps : NothingNew(a) => UpToDate(a)

=============================================================================
