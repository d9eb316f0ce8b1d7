--------------------------- MODULE PenPipelineProofs ---------------------------
(***************************************************************************)
(* Proofs about PenPipeline, for any number of pages, pointers and tests.  *)
(*                                                                         *)
(* The argument: the messages of a page form one stream, which grows at    *)
(* the page's end and shrinks from the front when the server reads or from *)
(* the end when the connection breaks; each change keeps neighbours in     *)
(* order, and while the socket is open the last message tells what the     *)
(* page thinks (StrokeKnown).  A backend that sees the pen in contact has  *)
(* somebody who still owes it an "up" (Owed), unless that one is lost.     *)
(***************************************************************************)
EXTENDS PenPipelineProps, SequenceTheorems, TLAPS

\* Before its socket opens a page has sent nothing.
Silent ==
  \A c \in Clients : socket[c] = "connecting" => wire[c] = <<>> /\ served[c] = NoMessage

\* A test's loop stops in time.
Counting ==
  \A t \in Tests : test[t] = "move" => testMoves[t] < TestMoves

\* A page's stroke goes on after what the server has read of it.
Unfinished(c) ==
  served[c].type \in {"down", "move"} /\ (socket[c] = "open" \/ wire[c] # <<>>)

\* Somebody is in mid-stroke.
Stroking ==
  \/ \E t \in Tests : test[t] \in {"move", "up"}
  \/ \E c \in Clients : Unfinished(c)

\* Only the active backend can be owed an "up" that is not lost.
Owed ==
  \A b \in Backends : pen[b] /\ ~stranded[b] => b = active /\ Stroking

IInv ==
  /\ TypeOK
  /\ Silent
  /\ Counting
  /\ OneStrokeAtATime
  /\ StrokeKnown
  /\ Owed

-----------------------------------------------------------------------------
(* Types.                                                                  *)

LEMMA BackendsDiffer == Ink # Tab /\ Backends = {Ink, Tab}
  BY DEF Ink, Tab, Backends

\* What a stream consists of.
Entry == [type : EventTypes \cup {"none", "missed"}, pointer : Pointers \cup {NoPointer}]

LEMMA MessageFields ==
  ASSUME NEW m \in Message
  PROVE  m.type \in EventTypes /\ m.pointer \in Pointers /\ m \in Entry
  BY DEF Message, Entry

LEMMA MessageMade ==
  ASSUME NEW type \in EventTypes, NEW p \in Pointers
  PROVE  [type |-> type, pointer |-> p] \in Message
  BY DEF Message

LEMMA SendTypes ==
  ASSUME TypeOK, NEW c \in Clients, NEW type \in EventTypes, NEW p \in Pointers, Send(c, type, p)
  PROVE  wire' \in [Clients -> Seq(Message)]
<1>1. Append(wire[c], [type |-> type, pointer |-> p]) \in Seq(Message)
  BY MessageMade DEF TypeOK
<1> QED
  BY <1>1 DEF Send, TypeOK

\* The controller's steps, in the vocabulary of the pipeline.
LEMMA Injections ==
  ASSUME NEW event
  PROVE  /\ Pen!InkAccepted(event) <=>
              /\ active = Ink /\ active' = active
              /\ isDown' = InkDownAfter(isDown, event)
              /\ pen' = [pen EXCEPT ![Ink] = InkDownAfter(isDown, event)]
         /\ Pen!InkRefused(event) <=>
              /\ active = Ink /\ active' = active
              /\ isDown' = InkDownAfter(isDown, event)
              /\ pen' = pen
         /\ Pen!TabPublished(event) <=>
              /\ active = Tab /\ active' = active
              /\ isDown' = isDown
              /\ pen' = [pen EXCEPT ![Tab] = TabContact(event)]
<1> USE DEF Pen!Ink, Pen!Tab, Pen!InkDownAfter, Pen!TabContact, Ink, Tab
<1>1. Pen!InkAccepted(event) <=>
        /\ active = Ink /\ active' = active
        /\ isDown' = InkDownAfter(isDown, event)
        /\ pen' = [pen EXCEPT ![Ink] = InkDownAfter(isDown, event)]
  BY Zenon DEF Pen!InkAccepted, InkDownAfter
<1>2. Pen!InkRefused(event) <=>
        /\ active = Ink /\ active' = active
        /\ isDown' = InkDownAfter(isDown, event)
        /\ pen' = pen
  BY Zenon DEF Pen!InkRefused, InkDownAfter
<1>3. Pen!TabPublished(event) <=>
        /\ active = Tab /\ active' = active
        /\ isDown' = isDown
        /\ pen' = [pen EXCEPT ![Tab] = TabContact(event)]
  BY Zenon DEF Pen!TabPublished, TabContact
<1> QED
  BY <1>1, <1>2, <1>3

LEMMA ContactTypes ==
  ASSUME NEW event, NEW down \in BOOLEAN
  PROVE  InkDownAfter(down, event) \in BOOLEAN /\ TabContact(event) \in BOOLEAN
  BY DEF InkDownAfter, TabContact

\* What an injection leaves in the controller's types.
LEMMA BackendTypes ==
  ASSUME TypeOK, NEW event, Done(event) \/ Fails(event)
  PROVE  active' = active /\ isDown' \in BOOLEAN /\ pen' \in [Backends -> BOOLEAN]
<1>1. active' = active
  BY Injections DEF Done, Fails, backend
<1>2. isDown' \in BOOLEAN
  BY Injections, ContactTypes DEF Done, Fails, backend, TypeOK
<1>3. pen' \in [Backends -> BOOLEAN]
  <2>1. isDown \in BOOLEAN /\ pen \in [Backends -> BOOLEAN]
    BY DEF TypeOK
  <2> QED
    BY <2>1, Injections, ContactTypes, BackendsDiffer DEF Done, Fails, backend
<1> QED
  BY <1>1, <1>2, <1>3

LEMMA AccountTypes ==
  ASSUME TypeOK, NEW lost \in BOOLEAN, pen' \in [Backends -> BOOLEAN], Account(lost)
  PROVE  /\ stranded' \in [Backends -> BOOLEAN]
         /\ \A b \in Backends : b # active => stranded'[b] = stranded[b]
         /\ active \in Backends
         /\ stranded[active] /\ pen'[active] => stranded'[active]
         /\ lost /\ pen'[active] => stranded'[active]
  BY AvailableAssumption DEF TypeOK, Account

\* Whether an injection loses an "up" is true or false.
LEMMA InjectionAccounts ==
  ASSUME TypeOK, NEW event, NEW lost1, NEW lost2,
         (Done(event) /\ Account(lost1)) \/ (Fails(event) /\ Account(lost2)),
         lost1 \in BOOLEAN, lost2 \in BOOLEAN
  PROVE  stranded' \in [Backends -> BOOLEAN]
<1>1. pen' \in [Backends -> BOOLEAN]
  BY BackendTypes
<1>2. CASE Account(lost1)
  BY <1>1, <1>2, AccountTypes
<1>3. CASE Account(lost2)
  BY <1>1, <1>3, AccountTypes
<1> QED
  BY <1>2, <1>3

LEMMA TestTypes ==
  ASSUME TypeOK, Counting, NEW t \in Tests, TestStep(t)
  PROVE  /\ test' \in [Tests -> EventTypes \cup {"none"}]
         /\ testMoves' \in [Tests -> 0 .. TestMoves]
         /\ Counting'
<1>1. testMoves[t] \in 0 .. TestMoves /\ test[t] \in EventTypes
  BY DEF TypeOK, TestStep
<1>2. Counted(test[t], testMoves[t]) \in 0 .. TestMoves
  BY <1>1, CountAssumption DEF Counted, Counting
<1>3. testMoves' \in [Tests -> 0 .. TestMoves]
  <2>1. \E moves \in 0 .. TestMoves : testMoves' = [testMoves EXCEPT ![t] = moves]
    <3>1. CASE testMoves' = [testMoves EXCEPT ![t] = Counted(test[t], @)]
      BY <1>2, <3>1
    <3>2. CASE testMoves' = [testMoves EXCEPT ![t] = 0]
      <4>1. 0 \in 0 .. TestMoves
        BY CountAssumption
      <4> QED
        BY <3>2, <4>1, Zenon
    <3> QED
      BY <3>1, <3>2 DEF TestStep
  <2> QED
    BY <2>1 DEF TypeOK
<1>4. \A m \in 0 .. TestMoves : NextTest(m) \in EventTypes /\ (NextTest(m) = "move" => m < TestMoves)
  BY DEF NextTest, EventTypes
<1>5. test' \in [Tests -> EventTypes \cup {"none"}]
  <2>1. testMoves'[t] \in 0 .. TestMoves
    BY <1>3
  <2>2. NextTest(testMoves'[t]) \in EventTypes
    BY <1>4, <2>1
  <2>3. \E next \in EventTypes \cup {"none"} : test' = [test EXCEPT ![t] = next]
    BY <2>2 DEF TestStep
  <2> QED
    BY <2>3 DEF TypeOK
<1>6. \A u \in Tests : u # t => test'[u] = test[u] /\ testMoves'[u] = testMoves[u]
  BY DEF TestStep, TypeOK
<1>7. test'[t] = "move" => testMoves'[t] < TestMoves
  BY <1>3, <1>4 DEF TestStep, TypeOK
<1> QED
  BY <1>3, <1>5, <1>6, <1>7 DEF Counting

LEMMA HandleTypes ==
  ASSUME TypeOK, NEW c \in Clients, Handle(c)
  PROVE  handled' \in [Clients -> 0 .. MaxHandled]
<1>1. handled[c] \in 0 .. MaxHandled /\ handled[c] < MaxHandled
  BY DEF Handle, TypeOK
<1>2. handled[c] + 1 \in 0 .. MaxHandled
  BY <1>1, CountAssumption
<1> QED
  BY <1>2 DEF Handle, TypeOK

LEMMA KeepsTypes ==
  ASSUME TypeOK, Counting, [Next]_vars
  PROVE  TypeOK' /\ Counting'
<1> USE DEF TypeOK
<1>1. ASSUME NEW c \in Clients, NEW p \in Pointers, PointerDown(c, p)
      PROVE  TypeOK' /\ Counting'
  <2>1. wire' \in [Clients -> Seq(Message)]
    BY <1>1, SendTypes DEF PointerDown, EventTypes
  <2>2. touching' \in [Clients -> SUBSET Pointers]
    BY <1>1 DEF PointerDown
  <2>3. activePointer' \in [Clients -> Pointers \cup {NoPointer}]
    BY <1>1 DEF PointerDown
  <2>4. handled' \in [Clients -> 0 .. MaxHandled]
    BY <1>1, HandleTypes DEF PointerDown
  <2> QED
    BY <1>1, <2>1, <2>2, <2>3, <2>4 DEF PointerDown, request, backend, Counting
<1>2. ASSUME NEW c \in Clients, NEW p \in Pointers, PointerMove(c, p)
      PROVE  TypeOK' /\ Counting'
  <2>1. wire' \in [Clients -> Seq(Message)]
    BY <1>2, SendTypes DEF PointerMove, EventTypes
  <2>2. handled' \in [Clients -> 0 .. MaxHandled]
    BY <1>2, HandleTypes DEF PointerMove
  <2> QED
    BY <1>2, <2>1, <2>2 DEF PointerMove, request, backend, Counting
<1>3. ASSUME NEW c \in Clients, NEW p \in Pointers, PointerEnd(c, p)
      PROVE  TypeOK' /\ Counting'
  <2>1. wire' \in [Clients -> Seq(Message)]
    BY <1>3, SendTypes DEF PointerEnd, SendUp, EventTypes
  <2>2. touching' \in [Clients -> SUBSET Pointers]
    BY <1>3 DEF PointerEnd
  <2> QED
    BY <1>3, <2>1, <2>2 DEF PointerEnd, request, backend, Counting
<1>4. ASSUME NEW c \in Clients, SocketOpens(c)
      PROVE  TypeOK' /\ Counting'
  <2>1. served' \in [Clients -> Entry]
    <3>1. NoMessage \in Entry /\ (activePointer[c] # NoPointer => Missed(activePointer[c]) \in Entry)
      BY DEF NoMessage, Missed, Entry
    <3> QED
      BY <1>4, <3>1 DEF SocketOpens, Entry
  <2> QED
    BY <1>4, <2>1 DEF SocketOpens, page, request, backend, Counting, Entry
<1>5. ASSUME NEW c \in Clients, SocketCloses(c)
      PROVE  TypeOK' /\ Counting'
  <2>1. \A k \in 0 .. Len(wire[c]) : SubSeq(wire[c], 1, k) \in Seq(Message)
    BY SubSeqProperties, ElementOfSeq
  <2>2. wire' \in [Clients -> Seq(Message)]
    BY <1>5, <2>1 DEF SocketCloses
  <2>3. stranded' \in [Backends -> BOOLEAN]
    BY <1>5, AccountTypes DEF SocketCloses, backend
  <2> QED
    BY <1>5, <2>2, <2>3 DEF SocketCloses, page, request, backend, Counting
<1>6. ASSUME NEW c \in Clients, Serve(c)
      PROVE  TypeOK' /\ Counting'
  <2>1. /\ wire[c] \in Seq(Message) /\ wire[c] # <<>>
        /\ Head(wire[c]) \in Message /\ Tail(wire[c]) \in Seq(Message)
    BY <1>6, HeadTailProperties DEF Serve
  <2>2. Head(wire[c]).type \in EventTypes
    BY <2>1, MessageFields
  <2>3. active' = active /\ isDown' \in BOOLEAN /\ pen' \in [Backends -> BOOLEAN]
    BY <1>6, <2>2, BackendTypes DEF Serve
  <2>4. stranded' \in [Backends -> BOOLEAN]
    BY <1>6, InjectionAccounts DEF Serve, BreaksOff
  <2>5. wire' \in [Clients -> Seq(Message)]
    BY <1>6, <2>1 DEF Serve
  <2>6. served' \in [Clients -> Entry]
    <3>1. Head(wire[c]) \in Entry
      BY <2>1, MessageFields
    <3> QED
      BY <1>6, <3>1 DEF Serve, Entry
  <2> QED
    BY <1>6, <2>3, <2>4, <2>5, <2>6 DEF Serve, page, request, Counting, Entry
<1>7. ASSUME NEW b \in Backends, SwitchBackend(b)
      PROVE  TypeOK' /\ Counting'
  <2>1. active' \in Available /\ isDown' = isDown /\ pen' = pen
    BY <1>7 DEF SwitchBackend, Pen!SetBackend
  <2>2. stranded' \in [Backends -> BOOLEAN]
    BY <1>7, <2>1, AccountTypes DEF SwitchBackend
  <2> QED
    BY <1>7, <2>1, <2>2 DEF SwitchBackend, page, net, request, Counting
<1>8. ASSUME NEW t \in Tests, TestBegins(t)
      PROVE  TypeOK' /\ Counting'
  BY <1>8 DEF TestBegins, page, net, backend, Counting, EventTypes
<1>9. ASSUME NEW t \in Tests, TestStep(t)
      PROVE  TypeOK' /\ Counting'
  <2>1. test[t] \in EventTypes
    BY <1>9 DEF TestStep
  <2>2. active' = active /\ isDown' \in BOOLEAN /\ pen' \in [Backends -> BOOLEAN]
    BY <1>9, BackendTypes DEF TestStep
  <2>3. stranded' \in [Backends -> BOOLEAN]
    BY <1>9, InjectionAccounts DEF TestStep
  <2>4. UNCHANGED <<touching, activePointer, handled, socket, wire, served>>
    BY <1>9 DEF TestStep, page, net
  <2> QED
    BY <1>9, <2>2, <2>3, <2>4, TestTypes
<1>10. CASE UNCHANGED vars
  BY <1>10 DEF vars, page, net, request, backend, Counting
<1> QED
  BY <1>1, <1>2, <1>3, <1>4, <1>5, <1>6, <1>7, <1>8, <1>9, <1>10 DEF Next

-----------------------------------------------------------------------------
(* Sequences of messages.                                                  *)

Ordered(s) == \A i \in 1 .. Len(s) - 1 : Follows(s[i + 1], s[i])

\* What the last message tells of the page's active pointer.
Tells(last, pointer) ==
  IF pointer = NoPointer THEN Over(last) ELSE ~Over(last) /\ last.pointer = pointer

LEMMA AppendOrdered ==
  ASSUME NEW s \in Seq(Entry), NEW m \in Entry, Ordered(s),
         s # <<>> => Follows(m, s[Len(s)])
  PROVE  Ordered(Append(s, m)) /\ Append(s, m) # <<>>
         /\ Append(s, m)[Len(Append(s, m))] = m
<1>1. /\ Len(Append(s, m)) = Len(s) + 1 /\ Append(s, m)[Len(s) + 1] = m
      /\ \A i \in 1 .. Len(s) : Append(s, m)[i] = s[i]
      /\ Len(s) \in Nat
      /\ s = <<>> => Len(s) = 0
  BY AppendProperties, LenProperties
<1> HIDE DEF Follows
<1>2. ASSUME NEW i \in 1 .. Len(s)
      PROVE  Follows(Append(s, m)[i + 1], Append(s, m)[i])
  <2>1. CASE i = Len(s)
    <3>1. s # <<>>
      BY <1>1
    <3>2. Append(s, m)[i + 1] = m /\ Append(s, m)[i] = s[Len(s)]
      BY <1>1, <2>1
    <3> QED
      BY <3>1, <3>2
  <2>2. CASE i # Len(s)
    <3>1. i + 1 \in 1 .. Len(s) /\ i \in 1 .. Len(s) - 1
      BY <1>1, <2>2
    <3>2. Append(s, m)[i + 1] = s[i + 1] /\ Append(s, m)[i] = s[i]
      BY <1>1, <3>1
    <3> QED
      BY <3>1, <3>2 DEF Ordered
  <2> QED
    BY <2>1, <2>2
<1>3. Ordered(Append(s, m))
  BY <1>1, <1>2 DEF Ordered
<1> QED
  BY <1>1, <1>3, AppendProperties

LEMMA TailOrdered ==
  ASSUME NEW s \in Seq(Entry), Ordered(s), s # <<>>
  PROVE  Ordered(Tail(s))
<1>1. /\ Len(Tail(s)) = Len(s) - 1 /\ Len(s) \in Nat
      /\ \A i \in 1 .. Len(Tail(s)) : Tail(s)[i] = s[i + 1]
  BY HeadTailProperties, LenProperties
<1> SUFFICES ASSUME NEW i \in 1 .. Len(Tail(s)) - 1
             PROVE  Follows(Tail(s)[i + 1], Tail(s)[i])
  BY DEF Ordered
<1>2. i + 1 \in 1 .. Len(s) - 1 /\ i + 1 \in 1 .. Len(Tail(s)) /\ i \in 1 .. Len(Tail(s))
  BY <1>1
<1>3. Tail(s)[i + 1] = s[(i + 1) + 1] /\ Tail(s)[i] = s[i + 1]
  BY <1>1, <1>2
<1> QED
  BY <1>2, <1>3 DEF Ordered

LEMMA PrefixOrdered ==
  ASSUME NEW s \in Seq(Entry), Ordered(s), NEW t \in Seq(Entry),
         Len(t) <= Len(s), \A i \in 1 .. Len(t) : t[i] = s[i]
  PROVE  Ordered(t)
<1>1. Len(s) \in Nat /\ Len(t) \in Nat
  BY LenProperties
<1> SUFFICES ASSUME NEW i \in 1 .. Len(t) - 1
             PROVE  Follows(t[i + 1], t[i])
  BY DEF Ordered
<1>2. i \in 1 .. Len(t) /\ i + 1 \in 1 .. Len(t) /\ i \in 1 .. Len(s) - 1
  BY <1>1
<1> QED
  BY <1>2 DEF Ordered

-----------------------------------------------------------------------------
(* The stream of a page.                                                   *)

LEMMA StreamTypes ==
  ASSUME TypeOK, NEW c \in Clients
  PROVE  /\ wire[c] \in Seq(Message) /\ wire[c] \in Seq(Entry) /\ Len(wire[c]) \in Nat
         /\ served[c] \in Entry /\ <<served[c]>> \in Seq(Entry)
         /\ Stream(c) \in Seq(Entry)
<1>1. wire[c] \in Seq(Message) /\ served[c] \in Entry /\ Len(wire[c]) \in Nat
  BY LenProperties DEF TypeOK, Entry
<1>2. wire[c] \in Seq(Entry)
  <2>1. \A i \in 1 .. Len(wire[c]) : wire[c][i] \in Entry
    BY <1>1, ElementOfSeq, MessageFields
  <2> QED
    BY <1>1, <2>1
<1>3. <<served[c]>> \in Seq(Entry)
  BY <1>1
<1> QED
  BY <1>1, <1>2, <1>3, ConcatProperties DEF Stream

\* The stream, message by message.
LEMMA StreamParts ==
  ASSUME TypeOK, NEW c \in Clients
  PROVE  /\ Len(Stream(c)) = Len(wire[c]) + 1 /\ Stream(c) # <<>>
         /\ Stream(c)[1] = served[c]
         /\ \A i \in 1 .. Len(wire[c]) : Stream(c)[i + 1] = wire[c][i]
<1>1. /\ wire[c] \in Seq(Entry) /\ Len(wire[c]) \in Nat
      /\ <<served[c]>> \in Seq(Entry) /\ Stream(c) \in Seq(Entry)
  BY StreamTypes
<1>2. Len(<<served[c]>>) = 1 /\ <<served[c]>>[1] = served[c]
  OBVIOUS
<1>3. /\ Len(Stream(c)) = 1 + Len(wire[c])
      /\ \A i \in 1 .. 1 + Len(wire[c]) :
           Stream(c)[i] = IF i <= 1 THEN <<served[c]>>[i] ELSE wire[c][i - 1]
  BY <1>1, <1>2, ConcatProperties DEF Stream
<1>4. Stream(c)[1] = served[c]
  BY <1>1, <1>2, <1>3
<1>5. ASSUME NEW i \in 1 .. Len(wire[c])
      PROVE  Stream(c)[i + 1] = wire[c][i]
  <2>1. i + 1 \in 1 .. 1 + Len(wire[c]) /\ ~(i + 1 <= 1) /\ (i + 1) - 1 = i
    BY <1>1
  <2> QED
    BY <1>3, <2>1
<1> QED
  BY <1>1, <1>3, <1>4, <1>5, EmptySeq

LEMMA StreamSame ==
  ASSUME NEW c, wire'[c] = wire[c], served'[c] = served[c]
  PROVE  Stream(c)' = Stream(c)
  BY DEF Stream

\* What a page sends is appended, if the socket is open.
LEMMA StreamSent ==
  ASSUME TypeOK, NEW c \in Clients, NEW type \in EventTypes, NEW p \in Pointers,
         Send(c, type, p), served' = served
  PROVE  /\ \A d \in Clients : d # c \/ socket[c] # "open" => Stream(d)' = Stream(d)
         /\ socket[c] = "open" => Stream(c)' = Append(Stream(c), [type |-> type, pointer |-> p])
<1> DEFINE m == [type |-> type, pointer |-> p]
<1>1. ASSUME NEW d \in Clients, d # c \/ socket[c] # "open"
      PROVE  Stream(d)' = Stream(d)
  <2>1. wire'[d] = wire[d]
    BY <1>1 DEF Send, TypeOK
  <2> QED
    BY <2>1, StreamSame
<1>2. ASSUME socket[c] = "open"
      PROVE  Stream(c)' = Append(Stream(c), m)
  <2>1. wire'[c] = Append(wire[c], m)
    BY <1>2 DEF Send, TypeOK
  <2>2. m \in Entry /\ wire[c] \in Seq(Entry)
    BY MessageMade, MessageFields, StreamTypes
  <2> HIDE DEF m
  <2>3. <<served[c]>> \in Seq(Entry) /\ <<m>> \in Seq(Entry)
    BY <2>2, StreamTypes
  <2>4. <<served[c]>> \o wire[c] \in Seq(Entry)
    BY <2>2, <2>3, ConcatProperties
  <2>5. Append(wire[c], m) = wire[c] \o <<m>>
    BY <2>2, AppendIsConcat
  <2>6. Append(<<served[c]>> \o wire[c], m) = (<<served[c]>> \o wire[c]) \o <<m>>
    BY <2>2, <2>4, AppendIsConcat
  <2>7. (<<served[c]>> \o wire[c]) \o <<m>> = <<served[c]>> \o (wire[c] \o <<m>>)
    <3>1. \A s, t, u \in Seq(Entry) : (s \o t) \o u = s \o (t \o u)
      BY ConcatAssociative
    <3> QED
      BY <2>2, <2>3, <3>1, Zenon
  <2> QED
    BY <2>1, <2>5, <2>6, <2>7 DEF Stream
<1> QED
  BY <1>1, <1>2

\* Reading a message takes the one read before it off the front; the last one
\* stays the last.
LEMMA StreamServed ==
  ASSUME TypeOK, NEW c \in Clients, Serve(c)
  PROVE  /\ \A d \in Clients : d # c => Stream(d)' = Stream(d)
         /\ Stream(c)' = Tail(Stream(c)) /\ Stream(c)' = wire[c] /\ wire[c] # <<>>
         /\ Stream(c)'[Len(wire'[c]) + 1] = Stream(c)[Len(wire[c]) + 1]
<1>1. ASSUME NEW d \in Clients, d # c
      PROVE  Stream(d)' = Stream(d)
  <2>1. wire'[d] = wire[d] /\ served'[d] = served[d]
    BY <1>1 DEF Serve, TypeOK
  <2> QED
    BY <2>1, StreamSame
<1>2. wire[c] \in Seq(Entry) /\ wire[c] # <<>> /\ Len(wire[c]) \in Nat \ {0}
  BY StreamTypes, EmptySeq DEF Serve
<1>3. wire'[c] = Tail(wire[c]) /\ served'[c] = Head(wire[c]) /\ Len(wire'[c]) + 1 = Len(wire[c])
  <2>1. wire'[c] = Tail(wire[c]) /\ served'[c] = Head(wire[c])
    BY DEF Serve, TypeOK
  <2> QED
    BY <1>2, <2>1, HeadTailProperties
<1>4. Stream(c)' = wire[c]
  <2>1. <<Head(wire[c])>> \o Tail(wire[c]) = wire[c]
    BY <1>2
  <2> QED
    BY <1>3, <2>1 DEF Stream
<1>5. /\ Len(Stream(c)) = Len(wire[c]) + 1 /\ Stream(c) \in Seq(Entry) /\ Stream(c) # <<>>
      /\ \A i \in 1 .. Len(wire[c]) : Stream(c)[i + 1] = wire[c][i]
  BY StreamParts, StreamTypes
<1>6. /\ Tail(Stream(c)) \in Seq(Entry) /\ Len(Tail(Stream(c))) = Len(wire[c])
      /\ \A i \in 1 .. Len(wire[c]) : Tail(Stream(c))[i] = Stream(c)[i + 1]
  BY <1>2, <1>5, HeadTailProperties
<1>7. Tail(Stream(c)) = wire[c]
  BY <1>2, <1>5, <1>6, SeqEqual
<1>8. Stream(c)[Len(wire[c]) + 1] = wire[c][Len(wire[c])]
  BY <1>2, <1>5
<1> QED
  BY <1>1, <1>2, <1>3, <1>4, <1>7, <1>8

\* What a break of the connection leaves.
LEMMA StreamCut ==
  ASSUME TypeOK, TypeOK', NEW c \in Clients, SocketCloses(c)
  PROVE  /\ \A d \in Clients : d # c => Stream(d)' = Stream(d)
         /\ Len(Stream(c)') <= Len(Stream(c))
         /\ \A i \in 1 .. Len(Stream(c)') : Stream(c)'[i] = Stream(c)[i]
<1>1. ASSUME NEW d \in Clients, d # c
      PROVE  Stream(d)' = Stream(d)
  <2>1. wire'[d] = wire[d] /\ served'[d] = served[d]
    BY <1>1 DEF SocketCloses, TypeOK
  <2> QED
    BY <2>1, StreamSame
<1>2. wire[c] \in Seq(Message) /\ Len(wire[c]) \in Nat
  BY StreamTypes
<1>3. PICK k \in 0 .. Len(wire[c]) : wire'[c] = SubSeq(wire[c], 1, k)
  BY DEF SocketCloses, TypeOK
<1>4. Len(wire'[c]) = k /\ \A i \in 1 .. k : wire'[c][i] = wire[c][i]
  <2>1. \A i \in 1 .. k : wire[c][i] \in Message
    BY <1>2, ElementOfSeq
  <2>2. /\ Len(SubSeq(wire[c], 1, k)) = IF 1 <= k THEN k - 1 + 1 ELSE 0
        /\ \A i \in 1 .. k - 1 + 1 : SubSeq(wire[c], 1, k)[i] = wire[c][1 + i - 1]
    BY <1>2, <2>1, SubSeqProperties
  <2>3. \A i \in 1 .. k : wire'[c][i] = wire[c][i]
    BY <1>2, <1>3, <2>2
  <2> QED
    BY <1>2, <1>3, <2>2, <2>3
<1>5. served'[c] = served[c]
  BY DEF SocketCloses
<1>6. /\ Len(Stream(c)) = Len(wire[c]) + 1 /\ Stream(c)[1] = served[c]
      /\ \A i \in 1 .. Len(wire[c]) : Stream(c)[i + 1] = wire[c][i]
  BY StreamParts
<1>7. /\ Len(Stream(c)') = k + 1 /\ Stream(c)'[1] = served[c]
      /\ \A i \in 1 .. k : Stream(c)'[i + 1] = wire'[c][i]
  <2> HIDE DEF TypeOK, SocketCloses
  <2>1. (/\ Len(Stream(c)) = Len(wire[c]) + 1 /\ Stream(c)[1] = served[c]
         /\ \A i \in 1 .. Len(wire[c]) : Stream(c)[i + 1] = wire[c][i])'
    BY StreamParts, PTL
  <2> QED
    BY <1>4, <1>5, <2>1
<1>8. ASSUME NEW i \in 1 .. k + 1
      PROVE  Stream(c)'[i] = Stream(c)[i]
  <2>1. CASE i = 1
    BY <1>6, <1>7, <2>1
  <2>2. CASE i # 1
    <3>1. i - 1 \in 1 .. k /\ i - 1 \in 1 .. Len(wire[c]) /\ (i - 1) + 1 = i
      BY <1>2, <2>2
    <3> QED
      BY <1>4, <1>6, <1>7, <3>1
  <2> QED
    BY <2>1, <2>2
<1> QED
  BY <1>1, <1>2, <1>6, <1>7, <1>8

\* OneStrokeAtATime and StrokeKnown, page by page.
LastOf(c) == Stream(c)[Len(wire[c]) + 1]

Streams ==
  \A c \in Clients :
    Ordered(Stream(c)) /\ (socket[c] = "open" => Tells(LastOf(c), activePointer[c]))

LEMMA StreamsSplit ==
  ASSUME TypeOK
  PROVE  Streams <=> OneStrokeAtATime /\ StrokeKnown
<1>1. \A c \in Clients : Len(Stream(c)) - 1 = Len(wire[c])
  BY StreamTypes, StreamParts
<1>2. OneStrokeAtATime <=> \A c \in Clients : Ordered(Stream(c))
  BY <1>1 DEF OneStrokeAtATime, Ordered
<1>3. StrokeKnown <=> \A c \in Clients : socket[c] = "open" => Tells(LastOf(c), activePointer[c])
  BY DEF StrokeKnown, LastOf, Tells
<1> QED
  BY <1>2, <1>3 DEF Streams

LEMMA LastSame ==
  ASSUME NEW c, wire'[c] = wire[c], served'[c] = served[c]
  PROVE  Stream(c)' = Stream(c) /\ LastOf(c)' = LastOf(c)
  BY DEF Stream, LastOf

\* A message that fits the last one keeps the stream in order.
LEMMA SendKeeps ==
  ASSUME TypeOK, Streams, NEW c \in Clients, NEW type \in EventTypes, NEW p \in Pointers,
         Send(c, type, p), UNCHANGED <<served, socket>>,
         \A d \in Clients : d # c => activePointer'[d] = activePointer[d],
         LET m == [type |-> type, pointer |-> p]
         IN  /\ \A last \in Entry : Tells(last, activePointer[c]) => Follows(m, last)
             /\ Tells(m, activePointer'[c])
  PROVE  Streams'
<1> DEFINE m == [type |-> type, pointer |-> p]
<1>1. m \in Entry
  BY MessageMade, MessageFields
<1>2. \A last \in Entry : Tells(last, activePointer[c]) => Follows(m, last)
  OBVIOUS
<1>3. Tells(m, activePointer'[c])
  OBVIOUS
<1> HIDE DEF m
<1>4. ASSUME NEW d \in Clients, d # c \/ socket[c] # "open"
      PROVE  /\ Ordered(Stream(d)')
             /\ (socket'[d] = "open" => Tells(LastOf(d)', activePointer'[d]))
  <2>1. wire'[d] = wire[d]
    BY <1>4 DEF Send, TypeOK
  <2>2. Stream(d)' = Stream(d) /\ LastOf(d)' = LastOf(d)
    BY <2>1, LastSame
  <2> QED
    BY <1>4, <2>2 DEF Streams
<1>5. CASE socket[c] # "open"
  BY <1>4, <1>5 DEF Streams
<1>6. CASE socket[c] = "open"
  <2>1. Stream(c)' = Append(Stream(c), m)
    BY <1>6, StreamSent DEF m
  <2>2. /\ Stream(c) \in Seq(Entry) /\ Ordered(Stream(c)) /\ Tells(LastOf(c), activePointer[c])
        /\ Len(wire[c]) \in Nat /\ Len(Stream(c)) = Len(wire[c]) + 1 /\ wire[c] \in Seq(Message)
    BY <1>6, StreamTypes, StreamParts DEF Streams
  <2>3. Stream(c)[Len(Stream(c))] = LastOf(c) /\ LastOf(c) \in Entry
    BY <2>2, ElementOfSeq DEF LastOf
  <2>4. Follows(m, Stream(c)[Len(Stream(c))])
    BY <1>2, <2>2, <2>3
  <2>5. /\ Ordered(Append(Stream(c), m))
        /\ Append(Stream(c), m)[Len(Append(Stream(c), m))] = m
        /\ Len(Append(Stream(c), m)) = Len(Stream(c)) + 1
    BY <1>1, <2>2, <2>4, AppendOrdered, AppendProperties
  <2>6. Len(wire'[c]) = Len(wire[c]) + 1
    <3>1. wire'[c] = Append(wire[c], [type |-> type, pointer |-> p])
      BY <1>6 DEF Send, TypeOK
    <3>2. Len(Append(wire[c], [type |-> type, pointer |-> p])) = Len(wire[c]) + 1
      BY <2>2, MessageMade, AppendProperties
    <3> QED
      BY <3>1, <3>2
  <2>7. LastOf(c)' = m
    BY <2>1, <2>2, <2>5, <2>6 DEF LastOf
  <2> QED
    BY <1>3, <1>4, <2>1, <2>5, <2>7 DEF Streams
<1> QED
  BY <1>5, <1>6

LEMMA KeepsStreams ==
  ASSUME TypeOK, TypeOK', Silent, Streams, [Next]_vars
  PROVE  Silent' /\ Streams'
<1>1. ASSUME NEW c \in Clients, NEW p \in Pointers, PointerDown(c, p)
      PROVE  Silent' /\ Streams'
  <2>1. CASE StartsStroke(c)
    <3>1. /\ Send(c, "down", p) /\ UNCHANGED <<served, socket>> /\ activePointer'[c] = p
          /\ \A d \in Clients : d # c => activePointer'[d] = activePointer[d]
      BY <1>1, <2>1 DEF PointerDown, TypeOK
    <3>2. Tells([type |-> "down", pointer |-> p], activePointer'[c])
      BY <3>1, PointerAssumption DEF Tells, Over
    <3>3. \A last \in Entry : Tells(last, activePointer[c])
                               => Follows([type |-> "down", pointer |-> p], last)
      BY <2>1 DEF Tells, StartsStroke, Follows, Over
    <3>4. Streams'
      BY <3>1, <3>2, <3>3, SendKeeps DEF EventTypes
    <3>5. Silent'
      BY <3>1 DEF Silent, Send, TypeOK
    <3> QED
      BY <3>4, <3>5
  <2>2. CASE ~StartsStroke(c)
    <3>1. UNCHANGED <<wire, served, socket, activePointer>>
      BY <1>1, <2>2 DEF PointerDown
    <3> QED
      BY <3>1 DEF Silent, Streams, Stream, LastOf
  <2> QED
    BY <2>1, <2>2
<1>2. ASSUME NEW c \in Clients, NEW p \in Pointers, PointerMove(c, p)
      PROVE  Silent' /\ Streams'
  <2>1. Send(c, "move", p) /\ UNCHANGED <<served, socket, activePointer>> /\ activePointer[c] = p
    BY <1>2 DEF PointerMove
  <2>2. Tells([type |-> "move", pointer |-> p], activePointer'[c])
    BY <2>1, PointerAssumption DEF Tells, Over
  <2>3. \A last \in Entry : Tells(last, activePointer[c])
                             => Follows([type |-> "move", pointer |-> p], last)
    BY <2>1, PointerAssumption DEF Tells, Follows, Over
  <2>4. Streams'
    BY <2>1, <2>2, <2>3, SendKeeps DEF EventTypes
  <2>5. Silent'
    BY <2>1 DEF Silent, Send, TypeOK
  <2> QED
    BY <2>4, <2>5
<1>3. ASSUME NEW c \in Clients, NEW p \in Pointers, PointerEnd(c, p)
      PROVE  Silent' /\ Streams'
  <2>1. CASE activePointer[c] = p
    <3>1. /\ Send(c, "up", p) /\ UNCHANGED <<served, socket>> /\ activePointer'[c] = NoPointer
          /\ \A d \in Clients : d # c => activePointer'[d] = activePointer[d]
      BY <1>3, <2>1 DEF PointerEnd, SendUp, TypeOK
    <3>2. Tells([type |-> "up", pointer |-> p], activePointer'[c])
      BY <3>1 DEF Tells, Over
    <3>3. \A last \in Entry : Tells(last, activePointer[c])
                               => Follows([type |-> "up", pointer |-> p], last)
      BY <2>1, PointerAssumption DEF Tells, Follows, Over
    <3>4. Streams'
      BY <3>1, <3>2, <3>3, SendKeeps DEF EventTypes
    <3>5. Silent'
      BY <3>1 DEF Silent, Send, TypeOK
    <3> QED
      BY <3>4, <3>5
  <2>2. CASE activePointer[c] # p
    <3>1. UNCHANGED <<wire, served, socket, activePointer>>
      BY <1>3, <2>2 DEF PointerEnd
    <3> QED
      BY <3>1 DEF Silent, Streams, Stream, LastOf
  <2> QED
    BY <2>1, <2>2
<1>4. ASSUME NEW c \in Clients, SocketOpens(c)
      PROVE  Silent' /\ Streams'
  <2>1. /\ UNCHANGED <<wire, activePointer>> /\ socket' = [socket EXCEPT ![c] = "open"]
        /\ \A d \in Clients : d # c => served'[d] = served[d]
        /\ served'[c] = IF activePointer[c] = NoPointer THEN NoMessage ELSE Missed(activePointer[c])
    BY <1>4 DEF SocketOpens, page, TypeOK
  <2>2. wire[c] = <<>> /\ Len(wire'[c]) = 0
    BY <1>4, <2>1 DEF SocketOpens, Silent
  <2>3. (Len(Stream(c)) = Len(wire[c]) + 1 /\ Stream(c)[1] = served[c])'
    BY StreamParts, PTL
  <2>4. Ordered(Stream(c)')
    BY <2>2, <2>3 DEF Ordered
  <2>5. Tells(LastOf(c)', activePointer'[c])
    <3>1. LastOf(c)' = served'[c]
      BY <2>2, <2>3 DEF LastOf
    <3> QED
      BY <2>1, <3>1 DEF Tells, Over, NoMessage, Missed
  <2>6. ASSUME NEW d \in Clients, d # c
        PROVE  /\ Ordered(Stream(d)') /\ (socket'[d] = "open" => Tells(LastOf(d)', activePointer'[d]))
               /\ (socket'[d] = "connecting" => socket[d] = "connecting")
    BY <2>1, <2>6, LastSame DEF Streams, TypeOK
  <2>7. socket'[c] = "open"
    BY <2>1 DEF TypeOK
  <2>8. Silent'
    BY <2>1, <2>6, <2>7 DEF Silent
  <2>9. Streams'
    BY <2>4, <2>5, <2>6 DEF Streams
  <2> QED
    BY <2>8, <2>9
<1>5. ASSUME NEW c \in Clients, SocketCloses(c)
      PROVE  Silent' /\ Streams'
  <2>1. socket' = [socket EXCEPT ![c] = "closed"] /\ UNCHANGED <<served, activePointer>>
    BY <1>5 DEF SocketCloses, page
  <2>2. (Stream(c) \in Seq(Entry))'
    BY StreamTypes, PTL
  <2>3. Ordered(Stream(c)')
    BY <1>5, <2>2, StreamTypes, StreamCut, PrefixOrdered DEF Streams
  <2>4. ASSUME NEW d \in Clients
        PROVE  Ordered(Stream(d)') /\ (socket'[d] = "open" => Tells(LastOf(d)', activePointer'[d]))
    <3>1. CASE d = c
      BY <2>1, <2>3, <3>1 DEF TypeOK
    <3>2. CASE d # c
      <4>1. wire'[d] = wire[d]
        BY <1>5, <3>2 DEF SocketCloses, TypeOK
      <4> QED
        BY <2>1, <3>2, <4>1, LastSame DEF Streams, TypeOK
    <3> QED
      BY <3>1, <3>2
  <2>5. Silent'
    BY <1>5, <2>1 DEF SocketCloses, Silent, TypeOK
  <2> QED
    BY <2>4, <2>5 DEF Streams
<1>6. ASSUME NEW c \in Clients, Serve(c)
      PROVE  Silent' /\ Streams'
  <2>1. UNCHANGED <<socket, activePointer>>
    BY <1>6 DEF Serve, page
  <2>2. Ordered(Stream(c)')
    BY <1>6, StreamTypes, StreamParts, StreamServed, TailOrdered DEF Streams
  <2>3. socket'[c] = "open" => Tells(LastOf(c)', activePointer'[c])
    BY <1>6, <2>1, StreamServed DEF Streams, LastOf
  <2>4. ASSUME NEW d \in Clients, d # c
        PROVE  Ordered(Stream(d)') /\ (socket'[d] = "open" => Tells(LastOf(d)', activePointer'[d]))
    <3>1. wire'[d] = wire[d] /\ served'[d] = served[d]
      BY <1>6, <2>4 DEF Serve, TypeOK
    <3> QED
      BY <2>1, <2>4, <3>1, LastSame DEF Streams
  <2>5. Silent'
    BY <1>6, <2>1 DEF Serve, Silent, TypeOK
  <2> QED
    BY <2>2, <2>3, <2>4, <2>5 DEF Streams
<1>7. ASSUME UNCHANGED <<page, net, served>>
      PROVE  Silent' /\ Streams'
  BY <1>7 DEF page, net, Silent, Streams, Stream, LastOf
<1> QED
  BY <1>1, <1>2, <1>3, <1>4, <1>5, <1>6, <1>7 DEF Next, vars, SwitchBackend, TestBegins, TestStep

-----------------------------------------------------------------------------
(* Who owes a backend an "up".                                             *)

\* The account of a step is right if it keeps every promise of an "up", or
\* books the one that is lost.
LEMMA AccountOwes ==
  ASSUME TypeOK, TypeOK', Owed, NEW lost \in BOOLEAN, Account(lost), active' = active,
         \A b \in Backends : b # active => pen'[b] = pen[b],
         \/ lost \/ Stroking' \/ ~pen'[active]
         \/ pen'[active] = pen[active] /\ (Stroking => Stroking')
  PROVE  Owed'
<1>1. /\ \A b \in Backends : b # active => stranded'[b] = stranded[b]
      /\ active \in Backends
      /\ stranded[active] /\ pen'[active] => stranded'[active]
      /\ lost /\ pen'[active] => stranded'[active]
  BY AccountTypes DEF TypeOK
<1> SUFFICES ASSUME NEW b \in Backends, pen'[b], ~stranded'[b]
             PROVE  b = active /\ Stroking'
  BY DEF Owed
<1>2. b = active
  BY <1>1 DEF Owed
<1>3. pen'[active] /\ ~stranded[active] /\ ~lost
  BY <1>1, <1>2
<1>4. pen[active] => Stroking
  BY <1>1, <1>3 DEF Owed
<1> QED
  BY <1>2, <1>3, <1>4

\* An injection concerns the active backend only, and an accepted "up" lifts it.
LEMMA InjectionLifts ==
  ASSUME TypeOK, TypeOK', NEW event
  PROVE  /\ Done(event) \/ Fails(event) =>
              active' = active /\ \A b \in Backends : b # active => pen'[b] = pen[b]
         /\ Done(event) /\ event = "up" => ~pen'[active]
         /\ Fails(event) => pen' = pen
<1>1. active \in Backends
  BY AvailableAssumption DEF TypeOK
<1>2. ASSUME Done(event)
      PROVE  active' = active /\ \A b \in Backends : b # active => pen'[b] = pen[b]
  BY <1>2, Injections DEF Done, TypeOK
<1>3. ASSUME Fails(event)
      PROVE  active' = active /\ pen' = pen
  BY <1>3, Injections DEF Fails, backend
<1>4. ASSUME Done(event), event = "up"
      PROVE  ~pen'[active]
  <2>1. ~InkDownAfter(isDown, event) /\ ~TabContact(event)
    BY <1>4 DEF InkDownAfter, TabContact
  <2>2. pen' = [pen EXCEPT ![active] = FALSE]
    BY <1>4, <2>1, Injections DEF Done
  <2> QED
    BY <1>1, <2>2 DEF TypeOK
<1> QED
  BY <1>2, <1>3, <1>4

\* What the pages do leaves every stroke with somebody who will end it.
LEMMA PageOwes ==
  ASSUME Owed, UNCHANGED <<test, served, stranded, backend>>,
         \A c \in Clients : socket'[c] = socket[c] /\ (socket[c] = "open" \/ wire'[c] = wire[c])
  PROVE  Owed'
<1>1. Stroking => Stroking'
  BY DEF Stroking, Unfinished
<1> QED
  BY <1>1 DEF Owed, backend

LEMMA KeepsOwed ==
  ASSUME TypeOK, TypeOK', Silent, Owed, [Next]_vars
  PROVE  Owed'
<1>1. ASSUME NEW c \in Clients, Serve(c)
      PROVE  Owed'
  <2>1. wire[c] \in Seq(Message) /\ wire[c] # <<>> /\ Len(wire[c]) \in Nat
    BY <1>1, StreamTypes DEF Serve
  <2> DEFINE event == Head(wire[c]).type
  <2>2. event \in EventTypes
    BY <2>1, HeadTailProperties, MessageFields
  <2>3. served'[c].type = event /\ wire'[c] = Tail(wire[c]) /\ socket' = socket
    BY <1>1 DEF Serve, TypeOK
  <2>4. event # "up" /\ ~BreaksOff(c, event) => Stroking'
    <3> SUFFICES ASSUME event # "up", ~BreaksOff(c, event)
                 PROVE  Unfinished(c)'
      BY DEF Stroking
    <3>1. event \in {"down", "move"}
      BY <2>2 DEF EventTypes
    <3>2. socket[c] = "open" \/ Len(wire[c]) # 1
      BY <1>1, <2>1 DEF BreaksOff, TypeOK, Silent
    <3>3. Len(wire[c]) # 1 => wire'[c] # <<>>
      <4>1. Len(Tail(wire[c])) = Len(wire[c]) - 1
        BY <2>1, HeadTailProperties
      <4>2. wire'[c] = <<>> => Len(wire'[c]) = 0
        OBVIOUS
      <4> QED
        BY <2>1, <2>3, <4>1, <4>2
    <3> HIDE DEF event
    <3> QED
      BY <2>3, <3>1, <3>2, <3>3 DEF Unfinished
  <2> HIDE DEF event
  <2>5. BreaksOff(c, event) \in BOOLEAN
    BY DEF BreaksOff
  <2>6. CASE Done(event) /\ Account(BreaksOff(c, event))
    <3>1. /\ active' = active /\ \A b \in Backends : b # active => pen'[b] = pen[b]
          /\ event = "up" => ~pen'[active]
      BY <2>6, InjectionLifts
    <3>2. BreaksOff(c, event) \/ Stroking' \/ ~pen'[active]
      BY <2>4, <3>1
    <3> HIDE DEF TypeOK
    <3> QED
      BY <2>5, <2>6, <3>1, <3>2, AccountOwes
  <2>7. CASE Fails(event) /\ Account(BreaksOff(c, event) \/ event = "up")
    <3>1. active' = active /\ \A b \in Backends : b # active => pen'[b] = pen[b]
      BY <2>7, InjectionLifts
    <3> DEFINE lost == BreaksOff(c, event) \/ event = "up"
    <3>2. lost \in BOOLEAN
      OBVIOUS
    <3>3. lost \/ Stroking'
      BY <2>4
    <3>4. Account(lost)
      BY <2>7
    <3> HIDE DEF lost
    <3> QED
      BY <3>1, <3>2, <3>3, <3>4, AccountOwes
  <2> QED
    BY <1>1, <2>6, <2>7 DEF Serve, event
<1>2. ASSUME NEW c \in Clients, SocketOpens(c)
      PROVE  Owed'
  <2>1. /\ UNCHANGED <<test, wire, stranded, active, pen>>
        /\ \A d \in Clients : d # c => served'[d] = served[d] /\ socket'[d] = socket[d]
    BY <1>2 DEF SocketOpens, request, backend, TypeOK
  <2>2. ~Unfinished(c)
    BY <1>2 DEF SocketOpens, Silent, Unfinished, NoMessage
  <2>3. Stroking => Stroking'
    BY <2>1, <2>2 DEF Stroking, Unfinished
  <2> QED
    BY <2>1, <2>3 DEF Owed
<1>3. ASSUME NEW c \in Clients, SocketCloses(c)
      PROVE  Owed'
  <2> DEFINE lost == wire'[c] = <<>> /\ served[c].type \in {"down", "move"}
  <2>1. /\ UNCHANGED <<test, served, active, pen>> /\ Account(lost)
        /\ \A d \in Clients : d # c => wire'[d] = wire[d] /\ socket'[d] = socket[d]
    BY <1>3 DEF SocketCloses, request, backend, TypeOK
  <2>2. lost \/ (Stroking => Stroking')
    BY <2>1 DEF Stroking, Unfinished
  <2>3. lost \in BOOLEAN
    OBVIOUS
  <2> HIDE DEF lost
  <2> QED
    BY <2>1, <2>2, <2>3, AccountOwes
<1>4. ASSUME NEW b \in Backends, SwitchBackend(b)
      PROVE  Owed'
  <2>1. UNCHANGED pen /\ Account(TRUE)
    BY <1>4 DEF SwitchBackend, Pen!SetBackend
  <2>2. /\ \A d \in Backends : d # active => stranded'[d] = stranded[d]
        /\ pen'[active] => stranded'[active]
    BY <2>1, AccountTypes DEF TypeOK
  <2> QED
    BY <2>1, <2>2 DEF Owed
<1>5. ASSUME NEW t \in Tests, TestBegins(t)
      PROVE  Owed'
  <2>1. UNCHANGED <<served, socket, wire, active, pen, stranded>>
    BY <1>5 DEF TestBegins, net, backend
  <2>2. Stroking => Stroking'
    BY <1>5, <2>1 DEF TestBegins, Stroking, Unfinished, TypeOK
  <2> QED
    BY <2>1, <2>2 DEF Owed
<1>6. ASSUME NEW t \in Tests, TestStep(t)
      PROVE  Owed'
  <2>1. test[t] \in EventTypes /\ UNCHANGED <<served, socket, wire>>
    BY <1>6 DEF TestStep, net, TypeOK
  <2>2. CASE /\ Done(test[t]) /\ Account(FALSE)
             /\ test' = [test EXCEPT ![t] = IF @ = "up" THEN "none" ELSE NextTest(testMoves'[t])]
    <3>1. test[t] # "up" => test'[t] \in {"move", "up"}
      BY <2>2 DEF NextTest, TypeOK
    <3>2. test[t] # "up" => Stroking'
      BY <3>1 DEF Stroking
    <3>3. /\ active' = active /\ \A b \in Backends : b # active => pen'[b] = pen[b]
          /\ test[t] = "up" => ~pen'[active]
      BY <2>2, InjectionLifts
    <3> QED
      BY <2>2, <3>2, <3>3, AccountOwes
  <2>3. CASE /\ Fails(test[t]) /\ Account(test[t] # "down")
             /\ test' = [test EXCEPT ![t] = "none"]
    <3> DEFINE lost == test[t] # "down"
    <3>1. active' = active /\ pen' = pen
      BY <2>3, InjectionLifts
    <3>2. lost \/ (Stroking => Stroking')
      BY <2>1, <2>3 DEF Stroking, Unfinished, TypeOK
    <3>3. lost \in BOOLEAN /\ Account(lost)
      BY <2>3
    <3> HIDE DEF lost
    <3> QED
      BY <3>1, <3>2, <3>3, AccountOwes
  <2> QED
    BY <1>6, <2>2, <2>3 DEF TestStep
<1>7. ASSUME NEW c \in Clients, NEW p \in Pointers,
             PointerDown(c, p) \/ PointerMove(c, p) \/ PointerEnd(c, p)
      PROVE  Owed'
  <2>1. UNCHANGED <<test, socket, served, stranded, backend>>
    BY <1>7 DEF PointerDown, PointerMove, PointerEnd, request
  <2>2. \A d \in Clients : socket[d] = "open" \/ wire'[d] = wire[d]
    BY <1>7 DEF PointerDown, PointerMove, PointerEnd, Send, SendUp, TypeOK
  <2> QED
    BY <2>1, <2>2, PageOwes
<1>8. CASE UNCHANGED vars
  <2>1. UNCHANGED <<test, socket, wire, served, stranded, backend>>
    BY <1>8 DEF vars, net, request
  <2> QED
    BY <2>1, PageOwes
<1> QED
  BY <1>1, <1>2, <1>3, <1>4, <1>5, <1>6, <1>7, <1>8 DEF Next

-----------------------------------------------------------------------------
(* The inductive invariant and what follows from it.                       *)

LEMMA InitIInv == Init => IInv
<1> SUFFICES ASSUME Init
             PROVE  IInv
  OBVIOUS
<1> USE DEF Init
<1>1. TypeOK
  <2>1. active = Ink /\ isDown = FALSE /\ pen = [b \in Backends |-> FALSE]
    BY DEF Pen!Init, Pen!Ink, Pen!Backends, Pen!Tab, Backends, Ink, Tab
  <2>2. active \in Available /\ isDown \in BOOLEAN /\ pen \in [Backends -> BOOLEAN]
    BY <2>1, AvailableAssumption
  <2>3. wire \in [Clients -> Seq(Message)]
    <3>1. <<>> \in Seq(Message)
      BY EmptySeq
    <3> QED
      BY <3>1
  <2>4. handled \in [Clients -> 0 .. MaxHandled] /\ testMoves \in [Tests -> 0 .. TestMoves]
    BY CountAssumption
  <2>5. stranded \in [Backends -> BOOLEAN]
    OBVIOUS
  <2>6. served \in [Clients -> Entry]
    BY DEF NoMessage, Entry
  <2> QED
    BY <2>2, <2>3, <2>4, <2>5, <2>6 DEF TypeOK, Entry
<1>2. Silent /\ Counting
  BY DEF Silent, Counting
<1>4. OneStrokeAtATime /\ StrokeKnown
  BY DEF OneStrokeAtATime, StrokeKnown
<1>5. Owed
  BY DEF Owed, Pen!Init, Pen!Backends, Pen!Ink, Pen!Tab, Backends, Ink, Tab
<1> QED
  BY <1>1, <1>2, <1>4, <1>5 DEF IInv

LEMMA NextIInv == IInv /\ [Next]_vars => IInv'
<1> SUFFICES ASSUME IInv, [Next]_vars
             PROVE  IInv'
  OBVIOUS
<1>1. TypeOK /\ Silent /\ Counting /\ Streams /\ Owed
  <2>1. TypeOK
    BY DEF IInv
  <2> QED
    BY <2>1, StreamsSplit DEF IInv
<1>2. TypeOK' /\ Counting'
  BY <1>1, KeepsTypes
<1>3. Silent' /\ Streams'
  BY <1>1, <1>2, KeepsStreams
<1>4. Owed'
  BY <1>1, <1>2, KeepsOwed
<1>5. OneStrokeAtATime' /\ StrokeKnown'
  <2>1. (Streams <=> OneStrokeAtATime /\ StrokeKnown)'
    BY <1>2, StreamsSplit, PTL
  <2> QED
    BY <1>3, <2>1
<1> QED
  BY <1>2, <1>3, <1>4, <1>5 DEF IInv

\* IInv holds in every reachable state.
THEOREM Invariance == Spec => []IInv
  BY InitIInv, NextIInv, PTL DEF Spec

\* Every variable stays within its type; the loop of a pressure test ends in time.
THEOREM TypeCorrect == Spec => []TypeOK
<1>1. IInv => TypeOK
  BY DEF IInv
<1> QED
  BY <1>1, Invariance, PTL

\* What the server reads of a page is one stroke after the other, each of one
\* pointer, whatever touches the stage and wherever the connection breaks.
THEOREM StrokesStayApart == Spec => []OneStrokeAtATime
<1>1. IInv => OneStrokeAtATime
  BY DEF IInv
<1> QED
  BY <1>1, Invariance, PTL

\* As long as its socket is open, a page and its stream agree on the stroke.
THEOREM PageKnowsStroke == Spec => []StrokeKnown
<1>1. IInv => StrokeKnown
  BY DEF IInv
<1> QED
  BY <1>1, Invariance, PTL

\* However the events of pages and tests mix, a pen that is left down when all
\* is quiet lacks an "up" that is lost.
THEOREM PenIsLifted == Spec => []PenRests
<1>1. IInv => PenRests
  <2> SUFFICES ASSUME IInv, Quiet, NEW b \in Backends, pen[b], ~stranded[b]
               PROVE  FALSE
    BY DEF PenRests
  <2>1. TypeOK
    BY DEF IInv
  <2>2. Stroking
    BY DEF IInv, Owed
  <2>3. PICK c \in Clients : Unfinished(c)
    BY <2>2 DEF Stroking, Quiet, NoTests
  <2>4. /\ wire[c] = <<>> /\ socket[c] = "open" /\ activePointer[c] = NoPointer
        /\ served[c].type \in {"down", "move"}
    BY <2>3 DEF Quiet, Unfinished
  <2>5. Stream(c)[Len(wire[c]) + 1] = served[c]
    <3>1. Len(wire[c]) = 0
      BY <2>4
    <3> QED
      BY <2>1, <3>1, StreamParts
  <2>6. Over(served[c])
    BY <2>4, <2>5 DEF IInv, StrokeKnown
  <2> QED
    BY <2>4, <2>6 DEF Over
<1> QED
  BY <1>1, Invariance, PTL

=============================================================================
