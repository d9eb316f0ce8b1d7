-------------------------- MODULE WinTabBridgeProofs --------------------------
(***************************************************************************)
(* Proofs about WinTabBridge, for any number of applications, events and   *)
(* deaths and any width of Serial.                                         *)
(*                                                                         *)
(* The argument: each field only ever moves forward while the section      *)
(* lives, no field is behind the event whose Serial was stored last        *)
(* (PacketAhead, which needs to know how far the writer has come:          *)
(* StoredSoFar), and what an application holds is a copy of an earlier     *)
(* value of that field (SeenBehind).                                       *)
(***************************************************************************)
EXTENDS WinTabBridgeProps, TLAPS

\* The fields of the event under way that are stored already.
StoredSoFar ==
  /\ at \in {"y", "pressure", "contact", "serial"} => packet["x"] = injected
  /\ at \in {"pressure", "contact", "serial"} => packet["y"] = injected
  /\ at \in {"contact", "serial"} => packet["pressure"] = injected
  /\ at = "serial" => packet["contact"] = injected

PacketAhead ==
  \A f \in Fields : published <= packet[f] /\ packet[f] <= injected

\* The fields a read has still to load.
Pending(s) ==
  {f \in Fields : \/ s = "x"
                  \/ s = "y" /\ f # "x"
                  \/ s = "contact" /\ f \in {"contact", "pressure"}
                  \/ s = "pressure" /\ f = "pressure"}

LoadedFresh ==
  \A a \in Apps : \A f \in Fields \ Pending(step[a]) : out[a][f] >= since[a]

SeenBehind ==
  \A a \in Apps : since[a] <= published /\ \A f \in Fields : out[a][f] <= packet[f]

\* A process without the mapping has seen nothing and reads nothing.
Unmapped ==
  \A a \in Apps : ~mapped[a] =>
    step[a] = "idle" /\ since[a] = 0 /\ \A f \in Fields : out[a][f] = 0

\* Memory that was never published in has Serial 0, which everybody whose
\* process has read nothing else remembers: it is not taken for news.
Announced ==
  /\ at \in Fields \cup {"serial"} => injected > 0
  /\ published = 0 => shared = 0
  /\ \A a \in Apps : published = 0 \/ ~mapped[a] => lastSerial[a] = 0
  /\ \A a \in Apps : consume[a] /\ Loading(a) => since[a] > 0

IInv ==
  /\ TypeOK
  /\ StoredSoFar
  /\ PacketAhead
  /\ LoadedFresh
  /\ SeenBehind
  /\ Unmapped
  /\ Announced

-----------------------------------------------------------------------------
(* Types.                                                                  *)

USE DEF Fields

LEMMA StoreOrder ==
  /\ NextStore["x"] = "y" /\ NextStore["y"] = "pressure"
  /\ NextStore["pressure"] = "contact" /\ NextStore["contact"] = "serial"
  /\ NextStore["serial"] = "idle" /\ NextStore["idle"] = "x"
  BY DEF NextStore

LEMMA LoadOrder ==
  /\ NextLoad["x"] = "y" /\ NextLoad["y"] = "contact"
  /\ NextLoad["contact"] = "pressure" /\ NextLoad["pressure"] = "commit"
  BY DEF NextLoad

LEMMA ZeroPacket == \A f \in Fields : Zero[f] = 0
  BY DEF Zero

LEMMA KeepsTypes ==
  ASSUME TypeOK, [Next]_vars
  PROVE  TypeOK'
<1> USE BoundsAssumption DEF TypeOK, Serials, Numbers, Stages, Steps
<1>1. ASSUME CreateMapping
      PROVE TypeOK'
  BY <1>1 DEF CreateMapping, vars, server, memory, proxy
<1>2. ASSUME StoreMagic
      PROVE TypeOK'
  BY <1>2 DEF StoreMagic, vars, server, memory, proxy
<1>3. ASSUME StoreVersion
      PROVE TypeOK'
  BY <1>3 DEF StoreVersion, vars, server, memory, proxy
<1>4. ASSUME BeginInject
      PROVE TypeOK'
  BY <1>4, StoreOrder DEF BeginInject, NextSerial, vars, server, memory, proxy
<1>5. ASSUME StoreField
      PROVE TypeOK'
  BY <1>5, StoreOrder DEF StoreField, vars, server, memory, proxy
<1>6. ASSUME StoreSerial
      PROVE TypeOK'
  BY <1>6, StoreOrder DEF StoreSerial, vars, server, memory, proxy
<1>7. ASSUME ServerDies
      PROVE TypeOK'
  BY <1>7 DEF ServerDies, Release, ZeroFilled, Zero, vars, server, memory, proxy
<1>8. ASSUME NEW a \in Apps, Open(a)
      PROVE TypeOK'
  BY <1>8 DEF Open, OpenMapping, Exists, vars, server, memory, proxy
<1>9. ASSUME NEW a \in Apps, NEW consuming \in BOOLEAN, BeginRead(a, consuming)
      PROVE TypeOK'
  BY <1>9 DEF BeginRead, OpenMapping, Exists, vars, server, memory, proxy
<1>10. ASSUME NEW a \in Apps, CheckHeader(a)
      PROVE TypeOK'
  <2>1. CASE header # "both"
    BY <1>10, <2>1 DEF CheckHeader, Return, vars, server, memory, proxy
  <2>2. CASE header = "both" /\ ~consume[a]
    <3>1. clean' \in [Apps -> BOOLEAN]
      BY <1>10, <2>2 DEF CheckHeader, BeginLoads
    <3>2. step' \in [Apps -> Steps] /\ since' \in [Apps -> Numbers] /\ consume' = consume
      BY <1>10, <2>2 DEF CheckHeader, BeginLoads
    <3> QED
      BY <1>10, <3>1, <3>2 DEF CheckHeader, server, memory
  <2>3. CASE header = "both" /\ consume[a]
    BY <1>10, <2>3 DEF CheckHeader, vars, server, memory, proxy
  <2> QED
    BY <2>1, <2>2, <2>3
<1>11. ASSUME NEW a \in Apps, CompareSerial(a)
      PROVE TypeOK'
  BY <1>11 DEF CompareSerial, Return, BeginLoads, vars, server, memory, proxy
<1>12. ASSUME NEW a \in Apps, LoadField(a)
      PROVE TypeOK'
  BY <1>12, LoadOrder DEF LoadField, vars, server, memory, proxy
<1>13. ASSUME NEW a \in Apps, Commit(a)
      PROVE TypeOK'
  BY <1>13 DEF Commit, Seen, Return, vars, server, memory, proxy
<1>14. ASSUME NEW a \in Apps, AppDies(a)
      PROVE TypeOK'
  BY <1>14 DEF AppDies, Release, ZeroFilled, Return, Zero, vars, server, memory, proxy
<1>15. CASE UNCHANGED vars
  BY <1>15 DEF vars, server, memory, proxy
<1> QED
  BY <1>1, <1>2, <1>3, <1>4, <1>5, <1>6, <1>7, <1>8, <1>9, <1>10, <1>11, <1>12, <1>13, <1>14, <1>15
     DEF Next, Start, Inject, Read

-----------------------------------------------------------------------------
(* The memory.                                                             *)

LEMMA KeepsMemory ==
  ASSUME TypeOK, TypeOK', Unmapped, StoredSoFar, PacketAhead, [Next]_vars
  PROVE  StoredSoFar' /\ PacketAhead'
<1> USE BoundsAssumption DEF TypeOK, Serials, Numbers, Stages, Steps, StoredSoFar, PacketAhead, Unmapped, Zero
<1>1. ASSUME CreateMapping
      PROVE StoredSoFar' /\ PacketAhead'
  BY <1>1 DEF CreateMapping, vars, server, memory, proxy
<1>2. ASSUME StoreMagic
      PROVE StoredSoFar' /\ PacketAhead'
  BY <1>2 DEF StoreMagic, vars, server, memory, proxy
<1>3. ASSUME StoreVersion
      PROVE StoredSoFar' /\ PacketAhead'
  BY <1>3 DEF StoreVersion, vars, server, memory, proxy
<1>4. ASSUME BeginInject
      PROVE StoredSoFar' /\ PacketAhead'
  BY <1>4, StoreOrder DEF BeginInject, NextSerial, vars, server, memory, proxy
<1>5. ASSUME StoreField
      PROVE StoredSoFar' /\ PacketAhead'
  BY <1>5, StoreOrder DEF StoreField, vars, server, memory, proxy
<1>6. ASSUME StoreSerial
      PROVE StoredSoFar' /\ PacketAhead'
  BY <1>6, StoreOrder DEF StoreSerial, vars, server, memory, proxy
<1>7. ASSUME ServerDies
      PROVE StoredSoFar' /\ PacketAhead'
  BY <1>7 DEF ServerDies, Release, ZeroFilled, vars, server, memory, proxy
<1>8. ASSUME NEW a \in Apps, Open(a)
      PROVE StoredSoFar' /\ PacketAhead'
  BY <1>8 DEF Open, OpenMapping, Exists, vars, server, memory, proxy
<1>9. ASSUME NEW a \in Apps, NEW consuming \in BOOLEAN, BeginRead(a, consuming)
      PROVE StoredSoFar' /\ PacketAhead'
  BY <1>9 DEF BeginRead, OpenMapping, Exists, vars, server, memory, proxy
<1>10. ASSUME NEW a \in Apps, CheckHeader(a)
      PROVE StoredSoFar' /\ PacketAhead'
  BY <1>10 DEF CheckHeader, Return, BeginLoads, vars, server, memory, proxy
<1>11. ASSUME NEW a \in Apps, CompareSerial(a)
      PROVE StoredSoFar' /\ PacketAhead'
  BY <1>11 DEF CompareSerial, Return, BeginLoads, vars, server, memory, proxy
<1>12. ASSUME NEW a \in Apps, LoadField(a)
      PROVE StoredSoFar' /\ PacketAhead'
  BY <1>12 DEF LoadField, vars, server, memory, proxy
<1>13. ASSUME NEW a \in Apps, Commit(a)
      PROVE StoredSoFar' /\ PacketAhead'
  BY <1>13 DEF Commit, Seen, Return, vars, server, memory, proxy
<1>14. ASSUME NEW a \in Apps, AppDies(a)
      PROVE StoredSoFar' /\ PacketAhead'
  BY <1>14 DEF AppDies, Release, ZeroFilled, Return, vars, server, memory, proxy
<1>15. CASE UNCHANGED vars
  BY <1>15 DEF vars, server, memory, proxy
<1> QED
  BY <1>1, <1>2, <1>3, <1>4, <1>5, <1>6, <1>7, <1>8, <1>9, <1>10, <1>11, <1>12, <1>13, <1>14, <1>15
     DEF Next, Start, Inject, Read

-----------------------------------------------------------------------------
(* The readers.                                                            *)

LEMMA KeepsReaders ==
  ASSUME IInv, TypeOK', [Next]_vars
  PROVE  Unmapped' /\ SeenBehind'
<1> USE BoundsAssumption DEF TypeOK, Serials, Numbers, Stages, Steps, IInv, StoredSoFar, PacketAhead, Unmapped, SeenBehind, Zero
<1>1. ASSUME CreateMapping
      PROVE Unmapped' /\ SeenBehind'
  BY <1>1 DEF CreateMapping, vars, server, memory, proxy
<1>2. ASSUME StoreMagic
      PROVE Unmapped' /\ SeenBehind'
  BY <1>2 DEF StoreMagic, vars, server, memory, proxy
<1>3. ASSUME StoreVersion
      PROVE Unmapped' /\ SeenBehind'
  BY <1>3 DEF StoreVersion, vars, server, memory, proxy
<1>4. ASSUME BeginInject
      PROVE Unmapped' /\ SeenBehind'
  BY <1>4, StoreOrder DEF BeginInject, NextSerial, vars, server, memory, proxy
<1>5. ASSUME StoreField
      PROVE Unmapped' /\ SeenBehind'
  BY <1>5 DEF StoreField, vars, server, memory, proxy
<1>6. ASSUME StoreSerial
      PROVE Unmapped' /\ SeenBehind'
  BY <1>6, StoreOrder DEF StoreSerial, vars, server, memory, proxy
<1>7. ASSUME ServerDies
      PROVE Unmapped' /\ SeenBehind'
  BY <1>7 DEF ServerDies, Release, ZeroFilled, vars, server, memory, proxy
<1>8. ASSUME NEW a \in Apps, Open(a)
      PROVE Unmapped' /\ SeenBehind'
  BY <1>8 DEF Open, OpenMapping, Exists, vars, server, memory, proxy
<1>9. ASSUME NEW a \in Apps, NEW consuming \in BOOLEAN, BeginRead(a, consuming)
      PROVE Unmapped' /\ SeenBehind'
  <2>1. CASE Exists
    BY <1>9, <2>1 DEF BeginRead, OpenMapping, vars, server, memory, proxy
  <2>2. CASE ~Exists
    BY <1>9, <2>2 DEF BeginRead, OpenMapping, Exists, vars, server, memory, proxy
  <2> QED
    BY <2>1, <2>2
<1>10. ASSUME NEW a \in Apps, CheckHeader(a)
      PROVE Unmapped' /\ SeenBehind'
  BY <1>10 DEF CheckHeader, Return, BeginLoads, vars, server, memory, proxy
<1>11. ASSUME NEW a \in Apps, CompareSerial(a)
      PROVE Unmapped' /\ SeenBehind'
  BY <1>11 DEF CompareSerial, Return, BeginLoads, vars, server, memory, proxy
<1>12. ASSUME NEW a \in Apps, LoadField(a)
      PROVE Unmapped' /\ SeenBehind'
  BY <1>12, LoadOrder DEF LoadField, vars, server, memory, proxy
<1>13. ASSUME NEW a \in Apps, Commit(a)
      PROVE Unmapped' /\ SeenBehind'
  BY <1>13 DEF Commit, Seen, Return, vars, server, memory, proxy
<1>14. ASSUME NEW a \in Apps, AppDies(a)
      PROVE Unmapped' /\ SeenBehind'
  BY <1>14 DEF AppDies, Release, ZeroFilled, Return, vars, server, memory, proxy
<1>15. CASE UNCHANGED vars
  BY <1>15 DEF vars, server, memory, proxy
<1> QED
  BY <1>1, <1>2, <1>3, <1>4, <1>5, <1>6, <1>7, <1>8, <1>9, <1>10, <1>11, <1>12, <1>13, <1>14, <1>15
     DEF Next, Start, Inject, Read

LEMMA KeepsFresh ==
  ASSUME IInv, TypeOK', [Next]_vars
  PROVE  LoadedFresh'
<1> USE BoundsAssumption DEF TypeOK, Serials, Numbers, Stages, Steps, IInv, PacketAhead, SeenBehind, LoadedFresh, Pending, Zero
<1>1. ASSUME CreateMapping
      PROVE LoadedFresh'
  BY <1>1 DEF CreateMapping, vars, server, memory, proxy
<1>2. ASSUME StoreMagic
      PROVE LoadedFresh'
  BY <1>2 DEF StoreMagic, vars, server, memory, proxy
<1>3. ASSUME StoreVersion
      PROVE LoadedFresh'
  BY <1>3 DEF StoreVersion, vars, server, memory, proxy
<1>4. ASSUME BeginInject
      PROVE LoadedFresh'
  BY <1>4, StoreOrder DEF BeginInject, NextSerial, vars, server, memory, proxy
<1>5. ASSUME StoreField
      PROVE LoadedFresh'
  BY <1>5 DEF StoreField, vars, server, memory, proxy
<1>6. ASSUME StoreSerial
      PROVE LoadedFresh'
  BY <1>6, StoreOrder DEF StoreSerial, vars, server, memory, proxy
<1>7. ASSUME ServerDies
      PROVE LoadedFresh'
  BY <1>7 DEF ServerDies, Release, ZeroFilled, vars, server, memory, proxy
<1>8. ASSUME NEW a \in Apps, Open(a)
      PROVE LoadedFresh'
  BY <1>8 DEF Open, OpenMapping, Exists, vars, server, memory, proxy
<1>9. ASSUME NEW a \in Apps, NEW consuming \in BOOLEAN, BeginRead(a, consuming)
      PROVE LoadedFresh'
  BY <1>9 DEF BeginRead, OpenMapping, Exists, vars, server, memory, proxy
<1>10. ASSUME NEW a \in Apps, CheckHeader(a)
      PROVE LoadedFresh'
  BY <1>10 DEF CheckHeader, Return, BeginLoads, vars, server, memory, proxy
<1>11. ASSUME NEW a \in Apps, CompareSerial(a)
      PROVE LoadedFresh'
  BY <1>11 DEF CompareSerial, Return, BeginLoads, vars, server, memory, proxy
<1>12. ASSUME NEW a \in Apps, LoadField(a)
      PROVE LoadedFresh'
  <2>1. ASSUME NEW b \in Apps, b # a
        PROVE  \A f \in Fields \ Pending(step'[b]) : out'[b][f] >= since'[b]
    BY <1>12, <2>1 DEF LoadField
  <2>2. out'[a][step[a]] >= since'[a]
    BY <1>12 DEF LoadField
  <2>3. Pending(step'[a]) = Pending(step[a]) \ {step[a]}
    BY <1>12, LoadOrder DEF LoadField
  <2>4. \A f \in Fields \ {step[a]} : out'[a][f] = out[a][f]
    BY <1>12 DEF LoadField
  <2>5. since' = since
    BY <1>12 DEF LoadField, proxy
  <2> HIDE DEF Pending
  <2>6. ASSUME NEW f \in Fields \ Pending(step'[a])
        PROVE  out'[a][f] >= since'[a]
    <3>1. CASE f = step[a]
      BY <2>2, <3>1
    <3>2. CASE f # step[a]
      <4>1. f \in Fields \ Pending(step[a]) /\ out'[a][f] = out[a][f]
        BY <2>3, <2>4, <3>2
      <4>2. out[a][f] >= since[a]
        BY <4>1
      <4> QED
        BY <2>5, <4>1, <4>2
    <3> QED
      BY <3>1, <3>2
  <2> QED
    BY <2>1, <2>6
<1>13. ASSUME NEW a \in Apps, Commit(a)
      PROVE LoadedFresh'
  BY <1>13 DEF Commit, Seen, Return, vars, server, memory, proxy
<1>14. ASSUME NEW a \in Apps, AppDies(a)
      PROVE LoadedFresh'
  BY <1>14 DEF AppDies, Release, ZeroFilled, Return, vars, server, memory, proxy
<1>15. CASE UNCHANGED vars
  BY <1>15 DEF vars, server, memory, proxy
<1> QED
  BY <1>1, <1>2, <1>3, <1>4, <1>5, <1>6, <1>7, <1>8, <1>9, <1>10, <1>11, <1>12, <1>13, <1>14, <1>15
     DEF Next, Start, Inject, Read

LEMMA KeepsAnnounced ==
  ASSUME IInv, TypeOK', [Next]_vars
  PROVE  Announced'
<1> USE BoundsAssumption DEF TypeOK, Serials, Numbers, Stages, Steps, IInv, Unmapped, Announced, Loading
<1>1. ASSUME CreateMapping
      PROVE Announced'
  BY <1>1 DEF CreateMapping, vars, server, memory, proxy
<1>2. ASSUME StoreMagic
      PROVE Announced'
  BY <1>2 DEF StoreMagic, vars, server, memory, proxy
<1>3. ASSUME StoreVersion
      PROVE Announced'
  BY <1>3 DEF StoreVersion, vars, server, memory, proxy
<1>4. ASSUME BeginInject
      PROVE Announced'
  BY <1>4, StoreOrder DEF BeginInject, NextSerial, vars, server, memory, proxy
<1>5. ASSUME StoreField
      PROVE Announced'
  BY <1>5, StoreOrder DEF StoreField, vars, server, memory, proxy
<1>6. ASSUME StoreSerial
      PROVE Announced'
  BY <1>6, StoreOrder DEF StoreSerial, vars, server, memory, proxy
<1>7. ASSUME ServerDies
      PROVE Announced'
  BY <1>7 DEF ServerDies, Release, ZeroFilled, vars, server, memory, proxy
<1>8. ASSUME NEW a \in Apps, Open(a)
      PROVE Announced'
  BY <1>8 DEF Open, OpenMapping, Exists, vars, server, memory, proxy
<1>9. ASSUME NEW a \in Apps, NEW consuming \in BOOLEAN, BeginRead(a, consuming)
      PROVE Announced'
  <2>1. UNCHANGED <<server, memory, lastSerial, since>> /\ step[a] = "idle"
    BY <1>9 DEF BeginRead
  <2>2. ASSUME NEW b \in Apps
        PROVE  /\ mapped'[b] \/ ~mapped[b] \/ b = a
               /\ consume'[b] /\ Loading(b)' => consume[b] /\ Loading(b)
    BY <1>9 DEF BeginRead, OpenMapping
  <2>3. ~mapped'[a] => ~mapped[a]
    BY <1>9 DEF BeginRead, OpenMapping, Exists
  <2> HIDE DEF Loading
  <2> QED
    BY <2>1, <2>2, <2>3 DEF server, memory
<1>10. ASSUME NEW a \in Apps, CheckHeader(a)
      PROVE Announced'
  BY <1>10 DEF CheckHeader, Return, BeginLoads, vars, server, memory, proxy
<1>11. ASSUME NEW a \in Apps, CompareSerial(a)
      PROVE Announced'
  BY <1>11 DEF CompareSerial, Return, BeginLoads, vars, server, memory, proxy
<1>12. ASSUME NEW a \in Apps, LoadField(a)
      PROVE Announced'
  BY <1>12, LoadOrder DEF LoadField, vars, server, memory, proxy
<1>13. ASSUME NEW a \in Apps, Commit(a)
      PROVE Announced'
  BY <1>13 DEF Commit, Seen, Return, vars, server, memory, proxy
<1>14. ASSUME NEW a \in Apps, AppDies(a)
      PROVE Announced'
  BY <1>14 DEF AppDies, Release, ZeroFilled, Return, vars, server, memory, proxy
<1>15. CASE UNCHANGED vars
  BY <1>15 DEF vars, server, memory, proxy
<1> QED
  BY <1>1, <1>2, <1>3, <1>4, <1>5, <1>6, <1>7, <1>8, <1>9, <1>10, <1>11, <1>12, <1>13, <1>14, <1>15
     DEF Next, Start, Inject, Read

-----------------------------------------------------------------------------
(* The inductive invariant and what follows from it.                       *)

LEMMA InitIInv == Init => IInv
  BY BoundsAssumption, ZeroPacket
  DEF Init, IInv, TypeOK, Serials, Numbers, Stages, Steps, StoredSoFar, PacketAhead, LoadedFresh,
      SeenBehind, Unmapped, Announced, Loading, Pending, Zero

LEMMA NextIInv == IInv /\ [Next]_vars => IInv'
  BY KeepsTypes, KeepsMemory, KeepsReaders, KeepsFresh, KeepsAnnounced DEF IInv

\* IInv holds in every reachable state.
THEOREM Invariance == Spec => []IInv
  BY InitIInv, NextIInv, PTL DEF Spec

\* Every variable stays within its type.
THEOREM TypeCorrect == Spec => []TypeOK
<1>1. IInv => TypeOK
  BY DEF IInv
<1> QED
  BY <1>1, Invariance, PTL

\* No field of a returned packet is older than the packet that was published
\* when the read began, whatever the server does meanwhile and whoever dies.
THEOREM ReadsAreFresh == Spec => []FreshFields
<1>1. IInv => FreshFields
  BY DEF IInv, LoadedFresh, FreshFields, Pending
<1> QED
  BY <1>1, Invariance, PTL

\* A consuming read hands out only what was stored for an injected event.
THEOREM PacketsWereInjected == Spec => []NothingInvented
<1>1. IInv => NothingInvented
  <2> SUFFICES ASSUME IInv, NEW a \in Apps, step[a] = "commit", consume[a], NEW f \in Fields
               PROVE  out[a][f] > 0
    BY DEF NothingInvented
  <2>1. since[a] \in Nat /\ out[a][f] \in Nat
    BY BoundsAssumption DEF IInv, TypeOK, Numbers
  <2>2. since[a] > 0
    BY DEF IInv, Announced, Loading
  <2>3. out[a][f] >= since[a]
    BY DEF IInv, LoadedFresh, Pending
  <2> QED
    BY <2>1, <2>2, <2>3
<1> QED
  BY <1>1, Invariance, PTL

\* What an application has seen of a field is never taken back, across restarts
\* of the server and overlapping reads.
THEOREM FieldsMoveForward == Spec => NeverBackward
<1>1. IInv /\ [Next]_vars =>
        [\A a \in Apps : mapped'[a] => \A f \in Fields : out'[a][f] >= out[a][f]]_vars
  <2> SUFFICES ASSUME IInv, Next, NEW a \in Apps, mapped'[a], NEW f \in Fields
               PROVE  out'[a][f] >= out[a][f]
    BY DEF vars, server, memory, proxy
  <2> USE DEF IInv, TypeOK, Numbers
  <2>1. CASE out' = out
    BY <2>1, BoundsAssumption
  <2>2. ASSUME NEW b \in Apps, LoadField(b)
        PROVE  out'[a][f] >= out[a][f]
    BY <2>2, BoundsAssumption DEF LoadField, SeenBehind
  <2>3. ASSUME NEW b \in Apps, AppDies(b)
        PROVE  out'[a][f] >= out[a][f]
    BY <2>3, BoundsAssumption DEF AppDies
  <2>4. \/ out' = out
        \/ \E b \in Apps : LoadField(b) \/ AppDies(b)
    BY DEF Next, Start, Inject, Read, CreateMapping, StoreMagic, StoreVersion, BeginInject, StoreField,
           StoreSerial, ServerDies, Open, BeginRead, CheckHeader, CompareSerial, Commit, proxy
  <2> QED
    BY <2>1, <2>2, <2>3, <2>4
<1> QED
  BY <1>1, Invariance, PTL DEF Spec, NeverBackward

-----------------------------------------------------------------------------
(* Counting modulo the number of values of Serial.                         *)

LEMMA Remainder ==
  ASSUME NEW n \in Nat, NEW m \in Nat \ {0}
  PROVE  /\ n \div m \in Int /\ n % m \in 0 .. m - 1
         /\ n = m * (n \div m) + (n % m)
  OBVIOUS

LEMMA FactorAtMost ==
  ASSUME NEW m \in Nat \ {0}, NEW q \in Int, NEW r \in Int, m * q < m * r + m
  PROVE  q <= r
  OBVIOUS

\* Numbers less than m apart with the same remainder are the same.
LEMMA SameRemainder ==
  ASSUME NEW m \in Nat \ {0}, NEW a \in Nat, NEW b \in Nat,
         a % m = b % m, a <= b, b - a < m
  PROVE  a = b
<1> DEFINE p == a \div m
           q == b \div m
<1>1. p \in Int /\ q \in Int /\ a = m * p + (a % m) /\ b = m * q + (b % m)
      /\ a % m \in Int
  BY Remainder
<1>2. b - a = m * q - m * p
  <2> HIDE DEF p, q
  <2> QED
    BY <1>1
<1>3. q <= p
  <2> HIDE DEF p, q
  <2>1. m * q < m * p + m
    BY <1>1, <1>2
  <2> QED
    BY <1>1, <2>1, FactorAtMost
<1>4. p <= q
  <2> HIDE DEF p, q
  <2>1. m * p < m * q + m
    BY <1>1, <1>2
  <2> QED
    BY <1>1, <2>1, FactorAtMost
<1> QED
  <2> HIDE DEF p, q
  <2>1. p = q
    BY <1>1, <1>3, <1>4
  <2> QED
    BY <1>1, <2>1

\* A quotient and a remainder in range are the ones of the division.
LEMMA RemainderIs ==
  ASSUME NEW m \in Nat \ {0}, NEW n \in Nat, NEW q \in Int, NEW r \in 0 .. m - 1,
         n = m * q + r
  PROVE  n % m = r
<1> DEFINE p == n \div m
           s == n % m
<1>1. p \in Int /\ s \in 0 .. m - 1 /\ n = m * p + s
  BY Remainder
<1> HIDE DEF p, s
<1>2. m * p < m * q + m /\ m * q < m * p + m
  BY <1>1
<1>3. p = q
  BY <1>1, <1>2, FactorAtMost
<1>4. s = r
  BY <1>1, <1>3
<1> QED
  BY <1>4 DEF s

\* Counting modulo m and reducing at the end is the same.
LEMMA NextRemainder ==
  ASSUME NEW m \in Nat \ {0}, NEW n \in Nat
  PROVE  ((n % m) + 1) % m = (n + 1) % m
<1> DEFINE q == n \div m
           s == n % m
<1>1. q \in Int /\ s \in 0 .. m - 1 /\ n = m * q + s
  BY Remainder
<1> HIDE DEF q, s
<1>2. CASE s + 1 < m
  <2>1. (s + 1) % m = s + 1
    BY <1>1, <1>2, RemainderIs, m * 0 = 0
  <2>2. (n + 1) % m = s + 1
    BY <1>1, <1>2, RemainderIs
  <2> QED
    BY <2>1, <2>2 DEF s
<1>3. CASE s + 1 = m
  <2>1. (s + 1) % m = 0
    <3>1. s + 1 = m * 1 + 0
      BY <1>1, <1>3
    <3> QED
      BY <1>1, <3>1, RemainderIs
  <2>2. (n + 1) % m = 0
    <3>1. n + 1 = m * (q + 1) + 0
      BY <1>1, <1>3
    <3> QED
      BY <1>1, <3>1, RemainderIs
  <2> QED
    BY <2>1, <2>2 DEF s
<1> QED
  BY <1>1, <1>2, <1>3
-----------------------------------------------------------------------------
(* While nobody dies.                                                      *)

\* What Serial and its copies stand for: the number of an event, as far as
\* SerialMod values can tell.
Counted ==
  /\ shared = published % SerialMod /\ serial = injected % SerialMod
  /\ \A a \in Apps :
       remembered[a] <= published /\ lastSerial[a] = remembered[a] % SerialMod

\* The writer has stored a field of the event under way or not.
Undisturbed ==
  /\ IF at \in Fields \cup {"serial"} THEN injected = published + 1 ELSE injected = published
  /\ at \in {"off", "magic", "version"} => injected = 0

\* What an application remembers as seen it has, unless Serial was stored while
\* it read; during such a read nothing was published since the read began.
CleanCopy ==
  \A a \in Apps : clean[a] =>
    IF consume[a] /\ Loading(a) THEN since[a] = published
    ELSE \A f \in Fields : out[a][f] >= remembered[a]

LEMMA NobodyDies ==
  ASSUME MaxRestarts = 0, TypeOK
  PROVE  ~ServerDies /\ \A a \in Apps : ~AppDies(a)
  BY DEF TypeOK, ServerDies, AppDies

LEMMA KeepsUndisturbed ==
  ASSUME MaxRestarts = 0, IInv, TypeOK', Undisturbed, Counted, [Next]_vars
  PROVE  Undisturbed' /\ Counted'
<1> USE BoundsAssumption DEF TypeOK, Serials, Numbers, Stages, IInv, Undisturbed, Counted
<1>1. ASSUME CreateMapping
      PROVE Undisturbed' /\ Counted'
  BY <1>1 DEF CreateMapping, vars, server, memory, proxy
<1>2. ASSUME StoreMagic
      PROVE Undisturbed' /\ Counted'
  BY <1>2 DEF StoreMagic, vars, server, memory, proxy
<1>3. ASSUME StoreVersion
      PROVE Undisturbed' /\ Counted'
  BY <1>3 DEF StoreVersion, vars, server, memory, proxy
<1>4. ASSUME BeginInject
      PROVE Undisturbed' /\ Counted'
  <2>1. injected' = injected + 1 /\ at' = "x" /\ injected = published
        /\ UNCHANGED <<shared, published, lastSerial, remembered>>
    BY <1>4, StoreOrder DEF BeginInject, memory, proxy
  <2>2. serial' = injected' % SerialMod
    <3>1. injected \in Nat /\ SerialMod \in Nat \ {0}
      OBVIOUS
    <3>2. ((injected % SerialMod) + 1) % SerialMod = (injected + 1) % SerialMod
      BY <3>1, NextRemainder
    <3>3. serial' = (serial + 1) % SerialMod /\ serial = injected % SerialMod
      BY <1>4 DEF BeginInject, NextSerial
    <3> HIDE DEF Counted
    <3> QED
      BY <2>1, <3>2, <3>3
  <2>3. Undisturbed'
    BY <2>1
  <2> QED
    BY <2>1, <2>2, <2>3
<1>5. ASSUME StoreField
      PROVE Undisturbed' /\ Counted'
  BY <1>5, StoreOrder DEF StoreField, vars, server, memory, proxy
<1>6. ASSUME StoreSerial
      PROVE Undisturbed' /\ Counted'
  <2>1. /\ at' = "idle" /\ shared' = serial /\ published' = injected
        /\ UNCHANGED <<serial, injected, lastSerial, remembered>>
    BY <1>6, StoreOrder DEF StoreSerial
  <2>2. injected = published + 1 /\ published \in Nat
    BY <1>6 DEF StoreSerial
  <2>3. \A a \in Apps : remembered[a] \in Nat /\ remembered[a] <= published
    OBVIOUS
  <2>4. Counted'
    BY <2>1, <2>2, <2>3
  <2> QED
    BY <2>1, <2>4
<1>7. ASSUME NEW a \in Apps, Open(a)
      PROVE Undisturbed' /\ Counted'
  BY <1>7 DEF Open, OpenMapping, vars, server, memory, proxy
<1>8. ASSUME NEW a \in Apps, NEW consuming \in BOOLEAN, BeginRead(a, consuming)
      PROVE Undisturbed' /\ Counted'
  BY <1>8 DEF BeginRead, OpenMapping, vars, server, memory, proxy
<1>9. ASSUME NEW a \in Apps, CheckHeader(a)
      PROVE Undisturbed' /\ Counted'
  BY <1>9 DEF CheckHeader, Return, BeginLoads, vars, server, memory, proxy
<1>10. ASSUME NEW a \in Apps, CompareSerial(a)
      PROVE Undisturbed' /\ Counted'
  BY <1>10 DEF CompareSerial, Return, BeginLoads, vars, server, memory, proxy
<1>11. ASSUME NEW a \in Apps, LoadField(a)
      PROVE Undisturbed' /\ Counted'
  BY <1>11 DEF LoadField, vars, server, memory, proxy
<1>12. ASSUME NEW a \in Apps, Commit(a)
      PROVE Undisturbed' /\ Counted'
  <2>1. UNCHANGED <<at, serial, injected, shared, published>>
    BY <1>12 DEF Commit, server, memory
  <2>2. ASSUME NEW b \in Apps
        PROVE  remembered'[b] <= published /\ lastSerial'[b] = remembered'[b] % SerialMod
    <3>1. CASE b = a /\ consume[a]
      <4>1. remembered'[b] = published /\ lastSerial'[b] = shared
        BY <1>12, <3>1 DEF Commit, Seen
      <4> QED
        BY <4>1
    <3>2. CASE b # a \/ ~consume[a]
      <4>1. remembered'[b] = remembered[b] /\ lastSerial'[b] = lastSerial[b]
        BY <1>12, <3>2 DEF Commit, Seen
      <4> QED
        BY <4>1
    <3> QED
      BY <3>1, <3>2
  <2> QED
    BY <2>1, <2>2
<1>13. CASE UNCHANGED vars
  BY <1>13 DEF vars, server, memory, proxy
<1> QED
  BY NobodyDies, <1>1, <1>2, <1>3, <1>4, <1>5, <1>6, <1>7, <1>8, <1>9, <1>10, <1>11, <1>12, <1>13
     DEF Next, Start, Inject, Read

LEMMA KeepsCleanCopy ==
  ASSUME MaxRestarts = 0, IInv, TypeOK', Counted, CleanCopy, [Next]_vars
  PROVE  CleanCopy'
<1> USE BoundsAssumption DEF TypeOK, Serials, Numbers, Stages, Steps, IInv, LoadedFresh, SeenBehind,
        CleanCopy, Loading, Pending
<1>1. ASSUME CreateMapping
      PROVE CleanCopy'
  BY <1>1 DEF CreateMapping, vars, server, memory, proxy
<1>2. ASSUME StoreMagic
      PROVE CleanCopy'
  BY <1>2 DEF StoreMagic, vars, server, memory, proxy
<1>3. ASSUME StoreVersion
      PROVE CleanCopy'
  BY <1>3 DEF StoreVersion, vars, server, memory, proxy
<1>4. ASSUME BeginInject
      PROVE CleanCopy'
  BY <1>4, StoreOrder DEF BeginInject, NextSerial, vars, server, memory, proxy
<1>5. ASSUME StoreField
      PROVE CleanCopy'
  BY <1>5, StoreOrder DEF StoreField, vars, server, memory, proxy
<1>6. ASSUME StoreSerial
      PROVE CleanCopy'
  BY <1>6, StoreOrder DEF StoreSerial, vars, server, memory, proxy
<1>7. ASSUME NEW a \in Apps, Open(a)
      PROVE CleanCopy'
  BY <1>7 DEF Open, OpenMapping, Exists, vars, server, memory, proxy
<1>8. ASSUME NEW a \in Apps, NEW consuming \in BOOLEAN, BeginRead(a, consuming)
      PROVE CleanCopy'
  BY <1>8 DEF BeginRead, OpenMapping, Exists, vars, server, memory, proxy
<1>9. ASSUME NEW a \in Apps, CheckHeader(a)
      PROVE CleanCopy'
  BY <1>9 DEF CheckHeader, Return, BeginLoads, vars, server, memory, proxy
<1>10. ASSUME NEW a \in Apps, CompareSerial(a)
      PROVE CleanCopy'
  BY <1>10 DEF CompareSerial, Return, BeginLoads, vars, server, memory, proxy
<1>11. ASSUME NEW a \in Apps, LoadField(a)
      PROVE CleanCopy'
  BY <1>11, LoadOrder DEF LoadField, vars, server, memory, proxy
<1>12. ASSUME NEW a \in Apps, Commit(a)
      PROVE CleanCopy'
  BY <1>12 DEF Commit, Seen, Return, vars, server, memory, proxy
<1>13. CASE UNCHANGED vars
  BY <1>13 DEF vars, server, memory, proxy
<1> QED
  BY NobodyDies, <1>1, <1>2, <1>3, <1>4, <1>5, <1>6, <1>7, <1>8, <1>9, <1>10, <1>11, <1>12, <1>13
     DEF Next, Start, Inject, Read

\* As long as nobody dies, an application that is told there is nothing new has
\* the latest packet, if no Serial was stored during its last consuming read and
\* fewer events have been published since then than Serial has values.
THEOREM CleanReadIsLatest ==
  ASSUME MaxRestarts = 0
  PROVE  Spec => []LatestAfterCleanRead
<1>1. Init => Undisturbed /\ Counted /\ CleanCopy
  <2>1. 0 % SerialMod = 0
    <3>1. 0 = SerialMod * 0 + 0 /\ 0 \in 0 .. SerialMod - 1
      BY BoundsAssumption
    <3> QED
      BY <3>1, BoundsAssumption, RemainderIs
  <2> QED
    BY <2>1, ZeroPacket DEF Init, Undisturbed, Counted, CleanCopy, Loading
<1>2. IInv /\ Undisturbed /\ Counted /\ CleanCopy /\ [Next]_vars
        => Undisturbed' /\ Counted' /\ CleanCopy'
  BY NextIInv, KeepsUndisturbed, KeepsCleanCopy DEF IInv
<1>3. IInv /\ Counted /\ CleanCopy => LatestAfterCleanRead
  <2> SUFFICES ASSUME IInv, Counted, CleanCopy,
                      NEW a \in Apps, NothingNew(a), clean[a], NotLapped(a), NEW f \in Fields
               PROVE  out[a][f] >= published
    BY DEF LatestAfterCleanRead, UpToDate
  <2>1. remembered[a] \in Nat /\ published \in Nat /\ SerialMod \in Nat \ {0}
    BY BoundsAssumption DEF IInv, TypeOK, Numbers
  <2>2. remembered[a] % SerialMod = published % SerialMod /\ remembered[a] <= published
    BY DEF NothingNew, Counted
  <2>3. published - remembered[a] < SerialMod
    BY DEF NotLapped
  <2>4. remembered[a] = published
    BY <2>1, <2>2, <2>3, SameRemainder
  <2>5. out[a][f] >= remembered[a]
    BY DEF NothingNew, CleanCopy, Loading
  <2> QED
    BY <2>4, <2>5
<1> QED
  BY <1>1, <1>2, <1>3, Invariance, PTL DEF Spec

=============================================================================
