----------------------------- MODULE WinTabBridge -----------------------------
(***************************************************************************)
(* The WinTab bridge, one store and one load at a time.  The server's      *)
(* winTabBridgeInjector writes the latest packet into a named file mapping *)
(* (winTabSharedPacket); every drawing application has a copy of the proxy *)
(* Wintab32.dll loaded, which maps the same memory and reads the packet    *)
(* when the application asks for it.  No lock is shared between them: the  *)
(* Serial field is all there is.                                           *)
(*                                                                         *)
(* A data field holds the number of the event that wrote it, 0 when it is  *)
(* still zero-filled: that is what tells a complete packet from a torn one *)
(* and a late one from the latest.  Two fields are left out because nobody *)
(* reads anything else from them: Buttons repeats InContact and the proxy  *)
(* never loads it; and the second store of Pressure for an "up" belongs to *)
(* the same event as the first.  Magic and Version, once stored, are only  *)
(* ever overwritten with themselves.                                       *)
(*                                                                         *)
(* The server is one writer because the injector's mutex is held from the  *)
(* first store to the last (module PenController).  Both sides run on x86, *)
(* where stores become visible in program order and loads happen in        *)
(* program order; cl.exe (release.yml) assumes that the caller's buffer    *)
(* may alias the mapping, so every load stays between the stores to it.    *)
(***************************************************************************)
EXTENDS Integers

CONSTANTS Apps,         \* processes with the proxy DLL loaded, one thread each
          SerialMod,    \* values of the uint32 Serial (2^32 in the program)
          MaxEvents,    \* bound: pen events injected
          MaxRestarts   \* bound: deaths of the server or of an application

VARIABLES
  at,           \* the server: "off", or the next thing it does
  serial,       \* winTabBridgeInjector.serial
  injected,     \* the number of the event being or last injected
  header,       \* Magic and Version stored: "none", "magic" or "both"
  packet,       \* X, Y, Pressure and InContact in the mapping
  shared,       \* Serial in the mapping
  published,    \* history: the event whose Serial was stored last
  deaths,       \* bound counter
  mapped,       \* g_packet # NULL, per application
  lastSerial,   \* g_last_serial
  step,         \* where read_latest_packet is, per application
  consume,      \* its second argument
  out,          \* the caller's buffer
  since,        \* history: published when the loads of the last read began
  clean,        \* history: no Serial was stored during the last consuming read
  remembered    \* history: the event whose Serial is remembered in lastSerial

server == <<at, serial, injected>>
memory == <<header, packet, shared, published>>
proxy  == <<mapped, lastSerial, step, consume, out, since, clean, remembered>>
vars   == <<server, memory, deaths, proxy>>

ASSUME BoundsAssumption ==
  SerialMod \in Nat \ {0} /\ MaxEvents \in Nat /\ MaxRestarts \in Nat

Fields == {"x", "y", "pressure", "contact"}
Zero   == [f \in Fields |-> 0]

\* Mutant: Serial is stored before the fields it announces.
SerialFirst == [idle |-> "serial", serial |-> "x", x |-> "y", y |-> "pressure",
                pressure |-> "contact", contact |-> "idle"]

\* The order in which Inject stores and read_latest_packet loads the fields.
NextStore == [idle |-> "x", x |-> "y", y |-> "pressure", pressure |-> "contact",
              contact |-> "serial", serial |-> "idle"]
NextLoad  == [x |-> "y", y |-> "contact", contact |-> "pressure", pressure |-> "commit"]

Init ==
  /\ at = "off" /\ serial = 0 /\ injected = 0
  /\ header = "none" /\ packet = Zero /\ shared = 0 /\ published = 0
  /\ deaths = 0
  /\ mapped = [a \in Apps |-> FALSE]
  /\ lastSerial = [a \in Apps |-> 0]
  /\ step = [a \in Apps |-> "idle"]
  /\ consume = [a \in Apps |-> FALSE]
  /\ out = [a \in Apps |-> Zero]
  /\ since = [a \in Apps |-> 0]
  /\ clean = [a \in Apps |-> TRUE]
  /\ remembered = [a \in Apps |-> 0]

-----------------------------------------------------------------------------
(* The server.                                                             *)

ZeroFilled == header' = "none" /\ packet' = Zero /\ shared' = 0 /\ published' = 0

\* Mutant: a new server clears the packet that it finds in the section.
CreateCleared ==
  /\ at = "off"
  /\ at' = "magic"
  /\ serial' = 0
  /\ ZeroFilled
  /\ UNCHANGED <<injected, deaths, proxy>>

\* CreateFileMappingW opens the section that an application still holds, or
\* makes a zero-filled one; the injector itself is new and counts from 0.
CreateMapping ==
  /\ at = "off"
  /\ at' = "magic"
  /\ serial' = 0
  /\ UNCHANGED <<injected, memory, deaths, proxy>>

StoreMagic ==
  /\ at = "magic"
  /\ at' = "version"
  /\ header' = IF header = "none" THEN "magic" ELSE header
  /\ UNCHANGED <<serial, injected, packet, shared, published, deaths, proxy>>

StoreVersion ==
  /\ at = "version"
  /\ at' = "idle"
  /\ header' = "both"
  /\ UNCHANGED <<serial, injected, packet, shared, published, deaths, proxy>>

\* Mutant: Serial is wider than the 32 bits of the mapping.
Wider(n) == n + 1

NextSerial(n) == (n + 1) % SerialMod

\* Inject counts the event first ...
BeginInject ==
  /\ at = "idle"
  /\ injected < MaxEvents
  /\ at' = NextStore[at]
  /\ serial' = NextSerial(serial)
  /\ injected' = injected + 1
  /\ UNCHANGED <<memory, deaths, proxy>>

\* ... then stores the fields one after the other ...
StoreField ==
  /\ at \in Fields
  /\ at' = NextStore[at]
  /\ packet' = [packet EXCEPT ![at] = injected]
  /\ UNCHANGED <<serial, injected, header, shared, published, deaths, proxy>>

Loading(a) == step[a] \in Fields \cup {"commit"}

\* ... and Serial last.
StoreSerial ==
  /\ at = "serial"
  /\ at' = NextStore[at]
  /\ shared' = serial
  /\ published' = injected
  /\ clean' = [a \in Apps |-> clean[a] /\ ~(consume[a] /\ Loading(a))]
  /\ UNCHANGED <<serial, injected, header, packet, deaths,
                 mapped, lastSerial, step, consume, out, since, remembered>>

\* The section lives as long as somebody has it mapped.
Release(alive) == IF alive THEN UNCHANGED memory ELSE ZeroFilled

\* The process ends between two stores; nothing runs Close (main exits through
\* log.Fatalf or is killed), the system drops its view.
ServerDies ==
  /\ at # "off"
  /\ deaths < MaxRestarts
  /\ deaths' = deaths + 1
  /\ at' = "off"
  /\ Release(\E a \in Apps : mapped[a])
  /\ UNCHANGED <<serial, injected, proxy>>

-----------------------------------------------------------------------------
(* The proxy in application a.                                             *)

Exists == at # "off" \/ \E a \in Apps : mapped[a]

\* ppap_open_mapping: nothing when already mapped or when there is no section.
OpenMapping(a) == mapped' = [mapped EXCEPT ![a] = Exists]

\* WTOpenA, WTOpenW and WTQueuePacketsEx.
Open(a) ==
  /\ step[a] = "idle"
  /\ OpenMapping(a)
  /\ UNCHANGED <<server, memory, deaths, lastSerial, step, consume, out, since, clean, remembered>>

\* WTPacketsGet consumes; WTPacketsPeek and WTPacket do not.
BeginRead(a, consuming) ==
  /\ step[a] = "idle"
  /\ OpenMapping(a)
  /\ IF Exists
       THEN /\ step' = [step EXCEPT ![a] = "header"]
            /\ consume' = [consume EXCEPT ![a] = consuming]
       ELSE UNCHANGED <<step, consume>>
  /\ UNCHANGED <<server, memory, deaths, lastSerial, out, since, clean, remembered>>

Return(a) ==
  /\ step' = [step EXCEPT ![a] = "idle"]
  /\ consume' = [consume EXCEPT ![a] = FALSE]

BeginLoads(a) ==
  /\ step' = [step EXCEPT ![a] = "x"]
  /\ since' = [since EXCEPT ![a] = published]
  /\ clean' = [clean EXCEPT ![a] = consume[a] \/ @]
  /\ UNCHANGED consume

\* Magic is loaded and then Version; both only ever turn right, so the outcome
\* is that of the later load.
CheckHeader(a) ==
  /\ step[a] = "header"
  /\ \/ header # "both" /\ Return(a) /\ UNCHANGED <<since, clean>>
     \/ header = "both" /\ ~consume[a] /\ BeginLoads(a)
     \/ /\ header = "both" /\ consume[a]
        /\ step' = [step EXCEPT ![a] = "compare"]
        /\ UNCHANGED <<consume, since, clean>>
  /\ UNCHANGED <<server, memory, deaths, mapped, lastSerial, out, remembered>>

\* A consuming read returns FALSE when the serial is the one it saw last.
CompareSerial(a) ==
  /\ step[a] = "compare"
  /\ IF shared = lastSerial[a] THEN Return(a) /\ UNCHANGED <<since, clean>>
                               ELSE BeginLoads(a)
  /\ UNCHANGED <<server, memory, deaths, mapped, lastSerial, out, remembered>>

LoadField(a) ==
  /\ step[a] \in Fields
  /\ out' = [out EXCEPT ![a][step[a]] = packet[step[a]]]
  /\ step' = [step EXCEPT ![a] = NextLoad[step[a]]]
  /\ UNCHANGED <<server, memory, deaths, mapped, lastSerial, consume, since, clean, remembered>>

\* Mutant: a peek remembers it too.
SeenAlways(a) == shared

\* What an application remembers as seen: a consuming read, Serial as it is now.
Seen(a) == IF consume[a] THEN shared ELSE lastSerial[a]

\* Serial is loaded a second time to remember it.
Commit(a) ==
  /\ step[a] = "commit"
  /\ lastSerial' = [lastSerial EXCEPT ![a] = Seen(a)]
  /\ remembered' = [remembered EXCEPT ![a] = IF consume[a] THEN published ELSE @]
  /\ Return(a)
  /\ UNCHANGED <<server, memory, deaths, mapped, out, since, clean>>

\* The application ends (DLL_PROCESS_DETACH) and a new one takes its place.
AppDies(a) ==
  /\ mapped[a]
  /\ deaths < MaxRestarts
  /\ deaths' = deaths + 1
  /\ mapped' = [mapped EXCEPT ![a] = FALSE]
  /\ lastSerial' = [lastSerial EXCEPT ![a] = 0]
  /\ Return(a)
  /\ out' = [out EXCEPT ![a] = Zero]
  /\ since' = [since EXCEPT ![a] = 0]
  /\ clean' = [clean EXCEPT ![a] = TRUE]
  /\ remembered' = [remembered EXCEPT ![a] = 0]
  /\ Release(at # "off" \/ \E b \in Apps \ {a} : mapped[b])
  /\ UNCHANGED server

-----------------------------------------------------------------------------

Start  == CreateMapping \/ StoreMagic \/ StoreVersion
Inject == BeginInject \/ StoreField \/ StoreSerial
Read(a) == CheckHeader(a) \/ CompareSerial(a) \/ LoadField(a) \/ Commit(a)

Next ==
  \/ Start
  \/ Inject
  \/ ServerDies
  \/ \E a \in Apps :
       \/ Open(a)
       \/ \E consuming \in BOOLEAN : BeginRead(a, consuming)
       \/ Read(a)
       \/ AppDies(a)

Spec == Init /\ [][Next]_vars

\* The server starts and finishes an injection it began.  A drawing application
\* calls WTPacketsGet from its message loop again and again, and its calls
\* return.
Fairness ==
  /\ WF_vars(Start \/ StoreField \/ StoreSerial)
  /\ \A a \in Apps : SF_vars(BeginRead(a, TRUE)) /\ WF_vars(Read(a))

FairSpec == Spec /\ Fairness

=============================================================================
