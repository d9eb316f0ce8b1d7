------------------------- MODULE PenControllerProofs -------------------------
(***************************************************************************)
(* Proofs about PenController, for every set of goroutines, every choice   *)
(* of the events and requests they send and every set of available         *)
(* backends.                                                               *)
(*                                                                         *)
(* The argument: pc says exactly who holds what (HoldsReadLock,            *)
(* HoldsWriteLock, HoldsMutex), a goroutine in "set" excludes every reader *)
(* (WriterAlone), so active is stable while somebody injects; and the      *)
(* holder of the Ink mutex is the only one between the update of isDown    *)
(* and the packet that carries it (InkWindow, SenderKnows).                *)
(***************************************************************************)
EXTENDS PenControllerProps, TLAPS

HoldsReadLock  == \A p \in Procs : p \in readers <=> Reading(p)
HoldsWriteLock == \A p \in Procs : writer = p <=> pc[p] \in {"drain", "set"}
WriterAlone    == \A p \in Procs : pc[p] = "set" => readers = {}
HoldsMutex     == \A p \in Procs, b \in Backends :
                    mutex[b] = p <=> Inside(p) /\ op[p].backend = b

\* Between BuildInk and SendInk the sender remembers isDown as it was, and the
\* packet it will send carries isDown as it is.
SenderKnows ==
  \A p \in Procs : pc[p] = "send" =>
    /\ op[p].backend = Ink => /\ op[p].contact = isDown
                              /\ isDown = InkDownAfter(op[p].before, op[p].event)
    /\ op[p].backend = Tab => op[p].contact = TabContact(op[p].event)

\* The device agrees with isDown as it was before the packet under way.
InkWindow == accepted => pen[Ink] = isDownBar

LockInv ==
  /\ HoldsReadLock
  /\ HoldsWriteLock
  /\ WriterAlone
  /\ HoldsMutex
  /\ InjectsIntoActive

PacketInv == SenderKnows /\ InkWindow

IInv == TypeOK /\ LockInv /\ PacketInv
-----------------------------------------------------------------------------
(* The arguments of a call, field by field.                                *)

USE DEF Ink, Tab, Backends, EventTypes, Requestable

LEMMA NewCall ==
  /\ NoOp \in Ops
  /\ \A event \in EventTypes : InjectOp(event) \in Ops
  /\ \A backend \in Requestable : SwitchOp(backend) \in Ops
  /\ \A kind \in {"active", "health", "infos"} : ReadOp(kind) \in Ops
  BY DEF Ops, NoOp, InjectOp, SwitchOp, ReadOp

LEMMA CallFields ==
  ASSUME NEW call \in Ops
  PROVE  call.event \in EventTypes /\ call.backend \in Requestable /\ call.contact \in BOOLEAN
         /\ call.before \in BOOLEAN
  BY DEF Ops

LEMMA PickedFields ==
  ASSUME NEW call \in Ops, NEW backend \in Backends
  PROVE  Picked(call, backend) \in Ops /\ Picked(call, backend).backend = backend
  BY DEF Ops, Picked

LEMMA BuiltFields ==
  ASSUME NEW call \in Ops, NEW contact \in BOOLEAN, NEW before \in BOOLEAN
  PROVE  LET built == Built(call, contact, before)
         IN  /\ built \in Ops
             /\ built.event = call.event /\ built.backend = call.backend
             /\ built.contact = contact /\ built.before = before
  BY DEF Ops, Built

-----------------------------------------------------------------------------

LEMMA BuildsInk ==
  ASSUME TypeOK, NEW p \in Procs, BuildInk(p)
  PROVE  /\ op' = [op EXCEPT ![p] = op'[p]] /\ op'[p] \in Ops /\ isDown' \in BOOLEAN
         /\ op'[p].event = op[p].event /\ op'[p].backend = op[p].backend
         /\ op'[p].contact = isDown' /\ op'[p].before = isDown
<1>1. isDown' \in BOOLEAN /\ isDown \in BOOLEAN /\ op[p] \in Ops
  BY DEF TypeOK, BuildInk, InkDownAfter
<1>2. op' = [op EXCEPT ![p] = Built(op[p], isDown', isDown)] /\ op'[p] = Built(op[p], isDown', isDown)
  BY DEF BuildInk, TypeOK
<1>3. LET built == Built(op[p], isDown', isDown)
      IN  /\ built \in Ops /\ built.event = op[p].event /\ built.backend = op[p].backend
          /\ built.contact = isDown' /\ built.before = isDown
  BY <1>1, BuiltFields, Zenon
<1> QED
  BY <1>1, <1>2, <1>3, Zenon

LEMMA BuildsTab ==
  ASSUME TypeOK, NEW p \in Procs, BuildTab(p)
  PROVE  /\ op' = [op EXCEPT ![p] = op'[p]] /\ op'[p] \in Ops
         /\ op'[p].event = op[p].event /\ op'[p].backend = op[p].backend
         /\ op'[p].contact = TabContact(op[p].event)
<1>1. TabContact(op[p].event) \in BOOLEAN /\ op[p] \in Ops /\ op[p].before \in BOOLEAN
  BY CallFields DEF TypeOK, TabContact
<1>2. op' = [op EXCEPT ![p] = Built(op[p], TabContact(op[p].event), op[p].before)]
      /\ op'[p] = Built(op[p], TabContact(op[p].event), op[p].before)
  BY DEF BuildTab, TypeOK
<1>3. LET built == Built(op[p], TabContact(op[p].event), op[p].before)
      IN  /\ built \in Ops /\ built.event = op[p].event /\ built.backend = op[p].backend
          /\ built.contact = TabContact(op[p].event)
  BY <1>1, BuiltFields, Zenon
<1> QED
  BY <1>2, <1>3, Zenon

LEMMA KeepsTypes ==
  ASSUME TypeOK, [Next]_vars
  PROVE  TypeOK'
<1> USE DEF TypeOK, Labels
<1>1. ASSUME NEW p \in Procs, NEW event \in Events, CallInject(p, event)
      PROVE TypeOK'
  BY <1>1, InputAssumption, NewCall DEF CallInject, Goto
<1>2. ASSUME NEW p \in Procs, NEW backend \in Requests, CallSetBackend(p, backend)
      PROVE TypeOK'
  BY <1>2, InputAssumption, NewCall DEF CallSetBackend, Goto
<1>3. ASSUME NEW p \in Procs, NEW kind \in {"active", "health"}, CallState(p, kind)
      PROVE TypeOK'
  BY <1>3, NewCall DEF CallState, Goto
<1>4. ASSUME NEW p \in Procs, RLock(p)
      PROVE TypeOK'
  BY <1>4 DEF RLock, Goto
<1>5. ASSUME NEW p \in Procs, AnnounceWriter(p)
      PROVE TypeOK'
  BY <1>5 DEF AnnounceWriter, Goto
<1>6. ASSUME NEW p \in Procs, AcquireWriter(p)
      PROVE TypeOK'
  BY <1>6 DEF AcquireWriter, Goto
<1>7. ASSUME NEW p \in Procs, SetBackend(p)
      PROVE TypeOK'
  BY <1>7, AvailableAssumption, NewCall, CallFields DEF SetBackend, Settable, UnlockWriter, Sleeping
<1>8. ASSUME NEW p \in Procs, ActiveBackend(p)
      PROVE TypeOK'
  BY <1>8, NewCall DEF ActiveBackend, Goto, Return
<1>9. ASSUME NEW p \in Procs, BackendInfos(p)
      PROVE TypeOK'
  BY <1>9, NewCall DEF BackendInfos, Return
<1>10. ASSUME NEW p \in Procs, ActiveEntry(p)
      PROVE TypeOK'
  BY <1>10, AvailableAssumption, NewCall, PickedFields DEF ActiveEntry, StaysLocked, Goto, Return
<1>11. ASSUME NEW p \in Procs, LockInjector(p)
      PROVE TypeOK'
  BY <1>11 DEF LockInjector, Unlocked, Goto
<1>12. ASSUME NEW p \in Procs, NoBounds(p)
      PROVE TypeOK'
  BY <1>12, NewCall DEF NoBounds, ReturnInject, Return
<1>13. ASSUME NEW p \in Procs, BuildInk(p)
      PROVE TypeOK'
  BY <1>13, BuildsInk DEF BuildInk, Goto, InkDownAfter
<1>14. ASSUME NEW p \in Procs, SendInk(p)
      PROVE TypeOK'
  <2>1. op[p].contact \in BOOLEAN /\ NoOp \in Ops
    BY NewCall, CallFields
  <2>2. pen' \in [Backends -> BOOLEAN] /\ accepted' \in BOOLEAN
    BY <1>14, <2>1 DEF SendInk
  <2>3. mutex' \in [Backends -> Procs \cup {NoProc}] /\ readers' \subseteq Procs
        /\ pc' \in [Procs -> Labels] /\ op' \in [Procs -> Ops]
    BY <1>14, <2>1 DEF SendInk, ReturnInject, Return
  <2> QED
    BY <1>14, <2>2, <2>3 DEF SendInk
<1>15. ASSUME NEW p \in Procs, BuildTab(p)
      PROVE TypeOK'
  BY <1>15, BuildsTab DEF BuildTab, Goto
<1>16. ASSUME NEW p \in Procs, SendTab(p)
      PROVE TypeOK'
  BY <1>16, NewCall, CallFields DEF SendTab, ReturnInject, Return
<1>17. CASE UNCHANGED vars
  BY <1>17 DEF vars
<1> QED
  BY <1>1, <1>2, <1>3, <1>4, <1>5, <1>6, <1>7, <1>8, <1>9, <1>10, <1>11, <1>12, <1>13, <1>14, <1>15,
     <1>16, <1>17 DEF Next, Call, Step

LEMMA KeepsLocks ==
  ASSUME TypeOK, TypeOK', LockInv, [Next]_vars
  PROVE  LockInv'
<1> USE NoProcAssumption
    DEF TypeOK, Labels, LockInv, HoldsReadLock, HoldsWriteLock, WriterAlone, HoldsMutex,
        InjectsIntoActive, Reading, Injecting, Inside
<1>1. ASSUME NEW p \in Procs, NEW event \in Events, CallInject(p, event)
      PROVE LockInv'
  <2>1. HoldsReadLock' /\ HoldsWriteLock' /\ WriterAlone'
    BY <1>1 DEF CallInject, Goto
  <2>2. HoldsMutex'
    BY <1>1 DEF CallInject, Goto
  <2>3. InjectsIntoActive'
    BY <1>1 DEF CallInject, Goto
  <2> QED
    BY <2>1, <2>2, <2>3
<1>2. ASSUME NEW p \in Procs, NEW backend \in Requests, CallSetBackend(p, backend)
      PROVE LockInv'
  <2>1. HoldsReadLock' /\ HoldsWriteLock' /\ WriterAlone'
    BY <1>2 DEF CallSetBackend, Goto
  <2>2. HoldsMutex'
    BY <1>2 DEF CallSetBackend, Goto
  <2>3. InjectsIntoActive'
    BY <1>2 DEF CallSetBackend, Goto
  <2> QED
    BY <2>1, <2>2, <2>3
<1>3. ASSUME NEW p \in Procs, NEW kind \in {"active", "health"}, CallState(p, kind)
      PROVE LockInv'
  <2>1. HoldsReadLock' /\ HoldsWriteLock' /\ WriterAlone'
    BY <1>3 DEF CallState, Goto
  <2>2. HoldsMutex'
    BY <1>3 DEF CallState, Goto
  <2>3. InjectsIntoActive'
    BY <1>3 DEF CallState, Goto
  <2> QED
    BY <2>1, <2>2, <2>3
<1>4. ASSUME NEW p \in Procs, RLock(p)
      PROVE LockInv'
  <2>1. HoldsReadLock' /\ HoldsWriteLock' /\ WriterAlone'
    BY <1>4 DEF RLock, Goto
  <2>2. HoldsMutex'
    BY <1>4 DEF RLock, Goto
  <2>3. InjectsIntoActive'
    BY <1>4 DEF RLock, Goto
  <2> QED
    BY <2>1, <2>2, <2>3
<1>5. ASSUME NEW p \in Procs, AnnounceWriter(p)
      PROVE LockInv'
  <2>1. HoldsReadLock' /\ HoldsWriteLock' /\ WriterAlone'
    BY <1>5 DEF AnnounceWriter, Goto
  <2>2. HoldsMutex'
    BY <1>5 DEF AnnounceWriter, Goto
  <2>3. InjectsIntoActive'
    BY <1>5 DEF AnnounceWriter, Goto
  <2> QED
    BY <2>1, <2>2, <2>3
<1>6. ASSUME NEW p \in Procs, AcquireWriter(p)
      PROVE LockInv'
  <2>1. HoldsReadLock' /\ HoldsWriteLock' /\ WriterAlone'
    BY <1>6 DEF AcquireWriter, Goto
  <2>2. HoldsMutex'
    BY <1>6 DEF AcquireWriter, Goto
  <2>3. InjectsIntoActive'
    BY <1>6 DEF AcquireWriter, Goto
  <2> QED
    BY <2>1, <2>2, <2>3
<1>7. ASSUME NEW p \in Procs, SetBackend(p)
      PROVE LockInv'
  <2>1. HoldsReadLock' /\ HoldsWriteLock' /\ WriterAlone'
    BY <1>7 DEF SetBackend, Settable, UnlockWriter, Sleeping
  <2>2. HoldsMutex'
    BY <1>7 DEF SetBackend, Settable, UnlockWriter, Sleeping
  <2>3. InjectsIntoActive'
    BY <1>7 DEF SetBackend, Settable, UnlockWriter, Sleeping
  <2> QED
    BY <2>1, <2>2, <2>3
<1>8. ASSUME NEW p \in Procs, ActiveBackend(p)
      PROVE LockInv'
  <2>1. HoldsReadLock' /\ HoldsWriteLock' /\ WriterAlone'
    BY <1>8 DEF ActiveBackend, Goto, Return
  <2>2. HoldsMutex'
    BY <1>8 DEF ActiveBackend, Goto, Return
  <2>3. InjectsIntoActive'
    BY <1>8 DEF ActiveBackend, Goto, Return
  <2> QED
    BY <2>1, <2>2, <2>3
<1>9. ASSUME NEW p \in Procs, BackendInfos(p)
      PROVE LockInv'
  <2>1. HoldsReadLock' /\ HoldsWriteLock' /\ WriterAlone'
    BY <1>9 DEF BackendInfos, Return
  <2>2. HoldsMutex'
    BY <1>9 DEF BackendInfos, Return
  <2>3. InjectsIntoActive'
    BY <1>9 DEF BackendInfos, Return
  <2> QED
    BY <2>1, <2>2, <2>3
<1>10. ASSUME NEW p \in Procs, ActiveEntry(p)
      PROVE LockInv'
  <2>0. op'[p].backend = active
    BY <1>10, AvailableAssumption, PickedFields DEF ActiveEntry, StaysLocked, Goto, Return
  <2>1. HoldsReadLock' /\ HoldsWriteLock' /\ WriterAlone'
    BY <1>10 DEF ActiveEntry, StaysLocked, Goto, Return
  <2>2. HoldsMutex'
    BY <2>0, <1>10 DEF ActiveEntry, StaysLocked, Goto, Return
  <2>3. InjectsIntoActive'
    BY <2>0, <1>10 DEF ActiveEntry, StaysLocked, Goto, Return
  <2> QED
    BY <2>1, <2>2, <2>3
<1>11. ASSUME NEW p \in Procs, LockInjector(p)
      PROVE LockInv'
  <2>1. HoldsReadLock' /\ HoldsWriteLock' /\ WriterAlone'
    BY <1>11 DEF LockInjector, Unlocked, Goto
  <2>2. HoldsMutex'
    BY <1>11 DEF LockInjector, Unlocked, Goto
  <2>3. InjectsIntoActive'
    BY <1>11 DEF LockInjector, Unlocked, Goto
  <2> QED
    BY <2>1, <2>2, <2>3
<1>12. ASSUME NEW p \in Procs, NoBounds(p)
      PROVE LockInv'
  <2>1. HoldsReadLock' /\ HoldsWriteLock' /\ WriterAlone'
    BY <1>12 DEF NoBounds, ReturnInject, Return
  <2>2. HoldsMutex'
    BY <1>12 DEF NoBounds, ReturnInject, Return
  <2>3. InjectsIntoActive'
    BY <1>12 DEF NoBounds, ReturnInject, Return
  <2> QED
    BY <2>1, <2>2, <2>3
<1>13. ASSUME NEW p \in Procs, BuildInk(p)
      PROVE LockInv'
  <2>0. op'[p].backend = op[p].backend
    BY <1>13, BuildsInk
  <2>1. HoldsReadLock' /\ HoldsWriteLock' /\ WriterAlone'
    BY <1>13 DEF BuildInk, Goto, InkDownAfter
  <2>2. HoldsMutex'
    BY <2>0, <1>13 DEF BuildInk, Goto, InkDownAfter
  <2>3. InjectsIntoActive'
    BY <2>0, <1>13 DEF BuildInk, Goto, InkDownAfter
  <2> QED
    BY <2>1, <2>2, <2>3
<1>14. ASSUME NEW p \in Procs, SendInk(p)
      PROVE LockInv'
  <2>1. HoldsReadLock' /\ HoldsWriteLock' /\ WriterAlone'
    BY <1>14 DEF SendInk, ReturnInject, Return
  <2>2. HoldsMutex'
    BY <1>14 DEF SendInk, ReturnInject, Return
  <2>3. InjectsIntoActive'
    BY <1>14 DEF SendInk, ReturnInject, Return
  <2> QED
    BY <2>1, <2>2, <2>3
<1>15. ASSUME NEW p \in Procs, BuildTab(p)
      PROVE LockInv'
  <2>0. op'[p].backend = op[p].backend
    BY <1>15, BuildsTab
  <2>1. HoldsReadLock' /\ HoldsWriteLock' /\ WriterAlone'
    BY <1>15 DEF BuildTab, Goto
  <2>2. HoldsMutex'
    BY <2>0, <1>15 DEF BuildTab, Goto
  <2>3. InjectsIntoActive'
    BY <2>0, <1>15 DEF BuildTab, Goto
  <2> QED
    BY <2>1, <2>2, <2>3
<1>16. ASSUME NEW p \in Procs, SendTab(p)
      PROVE LockInv'
  <2>1. HoldsReadLock' /\ HoldsWriteLock' /\ WriterAlone'
    BY <1>16 DEF SendTab, ReturnInject, Return
  <2>2. HoldsMutex'
    BY <1>16 DEF SendTab, ReturnInject, Return
  <2>3. InjectsIntoActive'
    BY <1>16 DEF SendTab, ReturnInject, Return
  <2> QED
    BY <2>1, <2>2, <2>3
<1>17. CASE UNCHANGED vars
  BY <1>17 DEF vars
<1> QED
  BY <1>1, <1>2, <1>3, <1>4, <1>5, <1>6, <1>7, <1>8, <1>9, <1>10, <1>11, <1>12, <1>13, <1>14, <1>15,
     <1>16, <1>17 DEF Next, Call, Step

-----------------------------------------------------------------------------
(* isDownBar, the contact state as the abstract controller sees it: only   *)
(* SendInk changes it.                                                     *)

LEMMA BarAtSendInk ==
  ASSUME TypeOK, LockInv, NEW p \in Procs, SendInk(p)
  PROVE  isDownBar = op[p].before /\ isDownBar' = isDown
<1>1. mutex[Ink] = p /\ p # NoProc
  BY NoProcAssumption DEF LockInv, HoldsMutex, Inside, SendInk
<1>2. mutex'[Ink] = NoProc
  BY <1>1 DEF SendInk, ReturnInject, TypeOK
<1> QED
  BY <1>1, <1>2 DEF isDownBar, InkSender, SendInk

LEMMA BarStays ==
  ASSUME TypeOK, LockInv, [Next]_vars, \A p \in Procs : ~SendInk(p)
  PROVE  isDownBar' = isDownBar
<1> USE NoProcAssumption DEF TypeOK, LockInv, HoldsMutex, Inside, isDownBar, InkSender
<1>1. ASSUME NEW p \in Procs, NEW event \in Events, CallInject(p, event)
      PROVE isDownBar' = isDownBar
  BY <1>1 DEF CallInject, Goto
<1>2. ASSUME NEW p \in Procs, NEW backend \in Requests, CallSetBackend(p, backend)
      PROVE isDownBar' = isDownBar
  BY <1>2 DEF CallSetBackend, Goto
<1>3. ASSUME NEW p \in Procs, NEW kind \in {"active", "health"}, CallState(p, kind)
      PROVE isDownBar' = isDownBar
  BY <1>3 DEF CallState, Goto
<1>4. ASSUME NEW p \in Procs, RLock(p)
      PROVE isDownBar' = isDownBar
  BY <1>4 DEF RLock, Goto
<1>5. ASSUME NEW p \in Procs, AnnounceWriter(p)
      PROVE isDownBar' = isDownBar
  BY <1>5 DEF AnnounceWriter, Goto
<1>6. ASSUME NEW p \in Procs, AcquireWriter(p)
      PROVE isDownBar' = isDownBar
  BY <1>6 DEF AcquireWriter, Goto
<1>7. ASSUME NEW p \in Procs, SetBackend(p)
      PROVE isDownBar' = isDownBar
  BY <1>7 DEF SetBackend, Settable, UnlockWriter, Sleeping
<1>8. ASSUME NEW p \in Procs, ActiveBackend(p)
      PROVE isDownBar' = isDownBar
  BY <1>8 DEF ActiveBackend, Goto, Return
<1>9. ASSUME NEW p \in Procs, BackendInfos(p)
      PROVE isDownBar' = isDownBar
  BY <1>9 DEF BackendInfos, Return
<1>10. ASSUME NEW p \in Procs, ActiveEntry(p)
      PROVE isDownBar' = isDownBar
  BY <1>10 DEF ActiveEntry, StaysLocked, Goto, Return
<1>11. ASSUME NEW p \in Procs, LockInjector(p)
      PROVE isDownBar' = isDownBar
  BY <1>11 DEF LockInjector, Unlocked, Goto
<1>12. ASSUME NEW p \in Procs, NoBounds(p)
      PROVE isDownBar' = isDownBar
  BY <1>12 DEF NoBounds, ReturnInject, Return
<1>13. ASSUME NEW p \in Procs, BuildInk(p)
      PROVE isDownBar' = isDownBar
  <2>1. mutex[Ink] = p /\ p # NoProc /\ isDownBar = isDown
    BY <1>13 DEF BuildInk
  <2>2. mutex' = mutex /\ pc'[p] = "send"
    BY <1>13 DEF BuildInk, Goto
  <2> QED
    BY <1>13, <2>1, <2>2, BuildsInk
<1>14. ASSUME NEW p \in Procs, SendInk(p)
      PROVE isDownBar' = isDownBar
  BY <1>14
<1>15. ASSUME NEW p \in Procs, BuildTab(p)
      PROVE isDownBar' = isDownBar
  BY <1>15, BuildsTab DEF BuildTab, Goto
<1>16. ASSUME NEW p \in Procs, SendTab(p)
      PROVE isDownBar' = isDownBar
  BY <1>16 DEF SendTab, ReturnInject, Return
<1>17. CASE UNCHANGED vars
  BY <1>17 DEF vars
<1> QED
  BY <1>1, <1>2, <1>3, <1>4, <1>5, <1>6, <1>7, <1>8, <1>9, <1>10, <1>11, <1>12, <1>13, <1>14, <1>15,
     <1>16, <1>17 DEF Next, Call, Step

-----------------------------------------------------------------------------
(* The packets: what a sender knows, and what the device was left with.    *)

\* A step that moves nobody into or out of "send" and changes no packet.
LEMMA SendersUndisturbed ==
  ASSUME SenderKnows, isDown' = isDown,
         \A q \in Procs : pc'[q] = "send" => pc[q] = "send" /\ op'[q] = op[q]
  PROVE  SenderKnows'
  BY DEF SenderKnows

LEMMA KeepsSenders ==
  ASSUME TypeOK, LockInv, SenderKnows, [Next]_vars
  PROVE  SenderKnows'
<1> USE DEF TypeOK, Labels
<1>1. ASSUME NEW p \in Procs, NEW event \in Events, CallInject(p, event)
      PROVE SenderKnows'
  BY <1>1, SendersUndisturbed DEF CallInject, Goto
<1>2. ASSUME NEW p \in Procs, NEW backend \in Requests, CallSetBackend(p, backend)
      PROVE SenderKnows'
  BY <1>2, SendersUndisturbed DEF CallSetBackend, Goto
<1>3. ASSUME NEW p \in Procs, NEW kind \in {"active", "health"}, CallState(p, kind)
      PROVE SenderKnows'
  BY <1>3, SendersUndisturbed DEF CallState, Goto
<1>4. ASSUME NEW p \in Procs, RLock(p)
      PROVE SenderKnows'
  BY <1>4, SendersUndisturbed DEF RLock, Goto
<1>5. ASSUME NEW p \in Procs, AnnounceWriter(p)
      PROVE SenderKnows'
  BY <1>5, SendersUndisturbed DEF AnnounceWriter, Goto
<1>6. ASSUME NEW p \in Procs, AcquireWriter(p)
      PROVE SenderKnows'
  BY <1>6, SendersUndisturbed DEF AcquireWriter, Goto
<1>7. ASSUME NEW p \in Procs, SetBackend(p)
      PROVE SenderKnows'
  BY <1>7, SendersUndisturbed DEF SetBackend, Settable, UnlockWriter, Sleeping
<1>8. ASSUME NEW p \in Procs, ActiveBackend(p)
      PROVE SenderKnows'
  BY <1>8, SendersUndisturbed DEF ActiveBackend, Goto, Return
<1>9. ASSUME NEW p \in Procs, BackendInfos(p)
      PROVE SenderKnows'
  BY <1>9, SendersUndisturbed DEF BackendInfos, Return
<1>10. ASSUME NEW p \in Procs, ActiveEntry(p)
      PROVE SenderKnows'
  BY <1>10, SendersUndisturbed DEF ActiveEntry, StaysLocked, Goto, Return
<1>11. ASSUME NEW p \in Procs, LockInjector(p)
      PROVE SenderKnows'
  BY <1>11, SendersUndisturbed DEF LockInjector, Unlocked, Goto
<1>12. ASSUME NEW p \in Procs, NoBounds(p)
      PROVE SenderKnows'
  BY <1>12, SendersUndisturbed DEF NoBounds, ReturnInject, Return
<1>13. ASSUME NEW p \in Procs, BuildInk(p)
      PROVE SenderKnows'
  <2>1. ASSUME NEW q \in Procs \ {p}
        PROVE  pc'[q] = pc[q] /\ op'[q] = op[q] /\ ~(pc[q] = "send" /\ op[q].backend = Ink)
    BY <1>13, NoProcAssumption DEF BuildInk, Goto, LockInv, HoldsMutex, Inside
  <2>2. isDown' = InkDownAfter(op'[p].before, op'[p].event)
    BY <1>13, BuildsInk DEF BuildInk
  <2>3. op'[p].contact = isDown' /\ op'[p].backend = Ink
    BY <1>13, BuildsInk DEF BuildInk
  <2> QED
    BY <2>1, <2>2, <2>3 DEF SenderKnows
<1>14. ASSUME NEW p \in Procs, SendInk(p)
      PROVE SenderKnows'
  BY <1>14, SendersUndisturbed DEF SendInk, ReturnInject, Return
<1>15. ASSUME NEW p \in Procs, BuildTab(p)
      PROVE SenderKnows'
  <2>1. \A q \in Procs \ {p} : pc'[q] = pc[q] /\ op'[q] = op[q]
    BY <1>15 DEF BuildTab, Goto
  <2>2. op'[p].backend = Tab /\ op'[p].contact = TabContact(op'[p].event) /\ isDown' = isDown
    BY <1>15, BuildsTab DEF BuildTab
  <2> QED
    BY <2>1, <2>2 DEF SenderKnows
<1>16. ASSUME NEW p \in Procs, SendTab(p)
      PROVE SenderKnows'
  BY <1>16, SendersUndisturbed DEF SendTab, ReturnInject, Return
<1>17. CASE UNCHANGED vars
  BY <1>17, SendersUndisturbed DEF vars
<1> QED
  BY <1>1, <1>2, <1>3, <1>4, <1>5, <1>6, <1>7, <1>8, <1>9, <1>10, <1>11, <1>12, <1>13, <1>14, <1>15,
     <1>16, <1>17 DEF Next, Call, Step

LEMMA KeepsInkWindow ==
  ASSUME TypeOK, LockInv, SenderKnows, InkWindow, [Next]_vars
  PROVE  InkWindow'
<1>1. CASE \E p \in Procs : SendInk(p)
  <2>1. PICK p \in Procs : SendInk(p)
    BY <1>1
  <2>2. isDownBar' = isDown
    BY <2>1, BarAtSendInk
  <2>3. op[p].contact = isDown
    BY <2>1 DEF SendInk, SenderKnows
  <2>4. accepted' => pen'[Ink] = op[p].contact
    BY <2>1 DEF SendInk, TypeOK
  <2> QED
    BY <2>2, <2>3, <2>4 DEF InkWindow
<1>2. CASE \A p \in Procs : ~SendInk(p)
  <2>1. isDownBar' = isDownBar
    BY <1>2, BarStays
  <2>2. accepted' = accepted /\ pen'[Ink] = pen[Ink]
    BY <1>2 DEF Next, Call, Step, vars, TypeOK, CallInject, CallSetBackend, CallState, RLock,
       AnnounceWriter,
                AcquireWriter, SetBackend, Settable, ActiveBackend, BackendInfos, ActiveEntry, StaysLocked, LockInjector, Unlocked,
                NoBounds, BuildInk, BuildTab, SendTab
  <2> QED
    BY <2>1, <2>2 DEF InkWindow
<1> QED
  BY <1>1, <1>2

-----------------------------------------------------------------------------
(* The inductive invariant and what follows from it.                       *)

LEMMA InitIInv == Init => IInv
<1> SUFFICES ASSUME Init PROVE IInv
  OBVIOUS
<1>1. TypeOK
  BY NewCall, AvailableAssumption DEF Init, TypeOK, Labels
<1>2. LockInv
  BY NoProcAssumption, AvailableAssumption
  DEF Init, LockInv, HoldsReadLock, HoldsWriteLock, WriterAlone, HoldsMutex, InjectsIntoActive,
      Reading, Injecting, Inside
<1>3. PacketInv
  BY DEF Init, PacketInv, SenderKnows, InkWindow, isDownBar, InkSender
<1> QED
  BY <1>1, <1>2, <1>3 DEF IInv

LEMMA NextIInv == IInv /\ [Next]_vars => IInv'
  BY KeepsTypes, KeepsLocks, KeepsSenders, KeepsInkWindow DEF IInv, PacketInv

\* IInv holds in every reachable state.
THEOREM Invariance == Spec => []IInv
  BY InitIInv, NextIInv, PTL DEF Spec

\* Every variable stays within its type, whatever the callers send and however
\* the goroutines interleave.
THEOREM TypeCorrect == Spec => []TypeOK
<1>1. IInv => TypeOK
  BY DEF IInv
<1> QED
  BY <1>1, Invariance, PTL

\* No event reaches a backend that a completed switch has left.
THEOREM InjectionsFollowTheSwitch == Spec => []InjectsIntoActive
<1>1. IInv => InjectsIntoActive
  BY DEF IInv, LockInv
<1> QED
  BY <1>1, Invariance, PTL

\* Between two injections the Ink device and isDown agree, unless the device
\* refused the last packet.
THEOREM DeviceAgreesWithIsDown == Spec => []InkAgrees
<1>1. IInv => InkAgrees
  BY NoProcAssumption DEF IInv, PacketInv, InkWindow, InkAgrees, isDownBar, InkSender
<1> QED
  BY <1>1, Invariance, PTL

-----------------------------------------------------------------------------
(* PenController implements AtomicPen.                                     *)

LEMMA InitRefines == Init => Atomic!Init
  BY NoProcAssumption
  DEF Init, Atomic!Init, Atomic!Ink, Atomic!Backends, Atomic!Tab, isDownBar, InkSender

LEMMA StepRefines == IInv /\ [Next]_vars => [Atomic!Next]_(Atomic!vars)
<1> SUFFICES ASSUME IInv, [Next]_vars
             PROVE  Atomic!Next \/ UNCHANGED Atomic!vars
  BY DEF Atomic!vars
<1> USE DEF Atomic!vars, Atomic!Ink, Atomic!Tab, Atomic!Backends, Atomic!EventTypes
<1>1. ASSUME NEW p \in Procs, SendInk(p)
      PROVE  Atomic!Next
  <2>1. op[p].event \in EventTypes
    BY CallFields DEF IInv, TypeOK
  <2>2. isDownBar = op[p].before /\ isDownBar' = isDown
    BY <1>1, BarAtSendInk DEF IInv
  <2>3. op[p].contact = isDown /\ isDown = InkDownAfter(op[p].before, op[p].event)
    BY <1>1 DEF SendInk, IInv, PacketInv, SenderKnows
  <2>4. active = Ink /\ active' = active
    BY <1>1 DEF SendInk, IInv, LockInv, InjectsIntoActive, Injecting
  <2>5. CASE pen' = [pen EXCEPT ![Ink] = op[p].contact]
    <3>1. Atomic!InkAccepted(op[p].event)
      BY <2>2, <2>3, <2>4, <2>5 DEF Atomic!InkAccepted, Atomic!InkDownAfter, InkDownAfter
    <3> QED
      BY <2>1, <3>1 DEF Atomic!Next, Atomic!Inject
  <2>6. CASE pen' = pen
    <3>1. Atomic!InkRefused(op[p].event)
      BY <2>2, <2>3, <2>4, <2>6 DEF Atomic!InkRefused, Atomic!InkDownAfter, InkDownAfter
    <3> QED
      BY <2>1, <3>1 DEF Atomic!Next, Atomic!Inject
  <2> QED
    BY <1>1, <2>5, <2>6 DEF SendInk
<1>2. ASSUME \A p \in Procs : ~SendInk(p)
      PROVE  isDownBar' = isDownBar
  BY <1>2, BarStays DEF IInv
<1>3. ASSUME NEW p \in Procs, SendTab(p)
      PROVE  Atomic!Next
  <2>1. isDownBar' = isDownBar
    <3>1. \A q \in Procs : ~SendInk(q)
      BY <1>3 DEF SendInk, SendTab, ReturnInject, Return, IInv, TypeOK
    <3> QED
      BY <3>1, <1>2
  <2>2. op[p].event \in EventTypes /\ op[p].contact = TabContact(op[p].event)
    BY <1>3, CallFields DEF SendTab, IInv, TypeOK, PacketInv, SenderKnows
  <2>3. active = Tab /\ active' = active
    BY <1>3 DEF SendTab, IInv, LockInv, InjectsIntoActive, Injecting
  <2>4. Atomic!TabPublished(op[p].event)
    BY <1>3, <2>1, <2>2, <2>3 DEF SendTab, Atomic!TabPublished, Atomic!TabContact, TabContact
  <2> QED
    BY <2>2, <2>4 DEF Atomic!Next, Atomic!Inject
<1>4. ASSUME NEW p \in Procs, SetBackend(p)
      PROVE  Atomic!Next \/ UNCHANGED Atomic!vars
  <2>1. isDownBar' = isDownBar
    <3>1. \A q \in Procs : ~SendInk(q)
      BY <1>4 DEF SendInk, SetBackend, Settable, IInv, LockInv, HoldsReadLock, WriterAlone, Reading
    <3> QED
      BY <3>1, <1>2
  <2>2. CASE op[p].backend \in Available
    <3>1. Atomic!SetBackend(op[p].backend)
      BY <1>4, <2>1, <2>2 DEF SetBackend, Settable, Atomic!SetBackend
    <3> QED
      BY <3>1, <2>2, AvailableAssumption DEF Atomic!Next
  <2>3. CASE op[p].backend \notin Available
    BY <1>4, <2>1, <2>3 DEF SetBackend, Settable
  <2> QED
    BY <2>2, <2>3
<1>5. ASSUME \A p \in Procs : ~SendInk(p) /\ ~SendTab(p) /\ ~SetBackend(p)
      PROVE  UNCHANGED Atomic!vars
  <2>1. active' = active /\ pen' = pen
    BY <1>5 DEF Next, Call, Step, vars, CallInject, CallSetBackend, CallState, RLock, AnnounceWriter,
                AcquireWriter, ActiveBackend, BackendInfos, ActiveEntry, StaysLocked, LockInjector, Unlocked, NoBounds,
                BuildInk, BuildTab
  <2> QED
    BY <1>2, <1>5, <2>1
<1> QED
  BY <1>1, <1>3, <1>4, <1>5

\* PenController implements AtomicPen: to its callers every event and every
\* switch is one atomic step.
THEOREM Refinement == Spec => AppliesAtomically
  BY InitRefines, StepRefines, Invariance, PTL DEF Spec, AppliesAtomically, Atomic!Spec

=============================================================================
