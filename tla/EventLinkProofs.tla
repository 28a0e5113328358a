---------------------------- MODULE EventLinkProofs ----------------------------
(***************************************************************************)
(* EventLink for messages of any shape and length, of any number of        *)
(* variables, and for any MAX_VARS_PER_EVENT.                              *)
(***************************************************************************)
EXTENDS EventLink, EventParserProofs

\* The result is what the parser makes of the message, and the parent engine
\* has decoded the events forwarded so far.
LinkInv ==
    /\ msg \in Messages
    /\ \/ result = Pending /\ forwarded = 0
       \/ result = deserialize_event(msg)
    /\ forwarded \in 0 .. Len(result.events)
    /\ parent = SubSeq(result.events, 1, forwarded)

LEMMA ResultTypes ==
    ASSUME LinkInv
    PROVE  /\ msg \in Message
           /\ result.ret \in {-1, 0, 1}
           /\ result.events \in Seq(Events)
<1>1. msg \in Message
  BY LinkAssumption DEF LinkInv
<1>2. CASE result = Pending
  BY <1>1, <1>2, EmptySeq DEF Pending
<1>3. CASE result = deserialize_event(msg)
  BY <1>1, <1>3, DeserializedTypes
<1> QED
  BY <1>1, <1>2, <1>3 DEF LinkInv

\* One event goes up: decoding what was encoded gives the same event again.
LEMMA ForwardKeepsLink ==
    ASSUME LinkInv, Forward
    PROVE  LinkInv'
<1> DEFINE es == result.events
           e  == es[forwarded + 1]
<1>1. /\ UNCHANGED <<msg, result>> /\ forwarded' = forwarded + 1
      /\ forwarded < Len(es) /\ e.type = EVENT_UPDATE
      /\ parent' = parent \o deserialize_event(serialize_event(e)).events
  BY DEF Forward
<1>2. es \in Seq(Events) /\ Len(es) \in Nat /\ forwarded \in 0 .. Len(es)
  BY ResultTypes, LenProperties DEF LinkInv
<1>3. forwarded + 1 \in 1 .. Len(es) /\ e \in Events
  BY <1>1, <1>2, ElementOfSeq
<1>4. e \in UpdateEvents
  <2>1. \A x \in ErrorEvents : x.type = EVENT_ERROR
    BY DEF ErrorEvents, ErrorEvent
  <2> QED
    BY <1>1, <1>3, <2>1 DEF Events, EVENT_UPDATE, EVENT_ERROR
<1> HIDE DEF e
<1>5. deserialize_event(serialize_event(e)).events = <<e>>
  <2>1. PICK t \in {n \in Nat : n < UINT32}, s \in Nat,
             us \in {x \in Seq(Update) : Len(x) \in 1 .. MAX_VARS_PER_EVENT} :
               e = UpdateEvent(t, s, us)
    BY <1>4 DEF UpdateEvents
  <2>2. deserialize_event(serialize_event(e)) = Accepted(<<e>>)
    BY <2>1, RoundTrip
  <2> QED
    BY <2>2 DEF Accepted
<1>6. parent' = SubSeq(es, 1, forwarded) \o <<es[forwarded + 1]>>
  BY <1>1, <1>5 DEF LinkInv, e
<1>7. SubSeq(es, 1, forwarded + 1) = SubSeq(es, 1, forwarded) \o <<es[forwarded + 1]>>
  <2>1. /\ 1 \in 1 .. Len(es) /\ forwarded + 1 \in 1 .. Len(es)
        /\ (forwarded + 1) - 1 = forwarded
    BY <1>2, <1>3
  <2> QED
    BY <1>2, <2>1, SubSeqRecursiveSecond
<1>8. result # Pending
  BY <1>1, <1>2, EmptySeq DEF Pending
<1>9. forwarded' \in 0 .. Len(es)
  BY <1>1, <1>2
<1> QED
  BY <1>1, <1>6, <1>7, <1>8, <1>9 DEF LinkInv

LEMMA LinkInvStep == LinkInv /\ [Next]_vars => LinkInv'
<1> SUFFICES ASSUME LinkInv, [Next]_vars PROVE LinkInv'
  OBVIOUS
<1>1. CASE Decode
  <2>1. /\ result = Pending /\ result' = deserialize_event(msg)
        /\ UNCHANGED <<msg, forwarded, parent>>
    BY <1>1 DEF Decode
  <2>2. forwarded = 0 /\ parent = << >>
    <3>1. forwarded = 0
      BY <2>1, EmptySeq DEF LinkInv, Pending
    <3>2. SubSeq(result.events, 1, 0) = << >>
      BY SubSeqEmpty
    <3> QED
      BY <3>1, <3>2 DEF LinkInv
  <2>3. msg \in Message
    BY ResultTypes
  <2>4. result'.events \in Seq(Events) /\ Len(result'.events) \in Nat
    BY <2>1, <2>3, DeserializedTypes, LenProperties
  <2>5. SubSeq(result'.events, 1, 0) = << >>
    BY SubSeqEmpty
  <2> QED
    BY <2>1, <2>2, <2>4, <2>5 DEF LinkInv
<1>2. CASE Forward
  BY <1>2, ForwardKeepsLink
<1>3. CASE UNCHANGED vars
  BY <1>3 DEF vars, LinkInv
<1> QED
  BY <1>1, <1>2, <1>3 DEF Next

LEMMA LinkInvAlways == Spec => []LinkInv
<1>1. Init => LinkInv
  <2> SUFFICES ASSUME Init PROVE LinkInv
    OBVIOUS
  <2>1. result.events = << >> /\ Len(<< >>) = 0
    BY EmptySeq DEF Init, Pending
  <2>2. SubSeq(<< >>, 1, 0) = << >>
    BY SubSeqEmpty
  <2> QED
    BY <2>1, <2>2 DEF Init, LinkInv
<1> QED
  BY <1>1, LinkInvStep, PTL DEF Spec

-------------------------------------------------------------------------------
(* The theorems                                                            *)

\* For any message at all, every event that deserialize_event pushes holds one to
\* MAX_VARS_PER_EVENT updates: the array in event_t is never overrun.
THEOREM TypeCorrect == Spec => []TypeOK
<1>1. LinkInv => TypeOK
  <2> SUFFICES ASSUME LinkInv PROVE TypeOK
    OBVIOUS
  <2>1. /\ result.ret \in {-1, 0, 1} /\ result.events \in Seq(Events)
        /\ forwarded \in 0 .. Len(result.events)
    BY ResultTypes DEF LinkInv
  <2>2. ASSUME NEW i \in DOMAIN result.events
        PROVE  LET e == result.events[i]
               IN  \/ /\ e.type = EVENT_UPDATE
                      /\ Len(e.updates) \in 1 .. MAX_VARS_PER_EVENT
                      /\ ToSet(e.updates) \subseteq Update
                   \/ e.type = EVENT_ERROR /\ e.error_code \in Nat
    <3> DEFINE e == result.events[i]
    <3>1. e \in Events
      BY <2>1, LenProperties, ElementOfSeq
    <3> HIDE DEF e
    <3>2. CASE e \in UpdateEvents
      <4>1. PICK t \in {n \in Nat : n < UINT32}, s \in Nat,
                 us \in {x \in Seq(Update) : Len(x) \in 1 .. MAX_VARS_PER_EVENT} :
                   e = UpdateEvent(t, s, us)
        BY <3>2 DEF UpdateEvents
      <4>2. e.type = EVENT_UPDATE /\ e.updates = us
        BY <4>1 DEF UpdateEvent
      <4>3. ToSet(us) \subseteq Update
        BY LenProperties, ElementOfSeq DEF ToSet
      <4> QED
        BY <4>2, <4>3 DEF e
    <3>3. CASE e \in ErrorEvents
      <4>1. e.type = EVENT_ERROR /\ e.error_code \in Nat
        BY <3>3 DEF ErrorEvents, ErrorEvent
      <4> QED
        BY <4>1 DEF e
    <3> QED
      BY <3>1, <3>2, <3>3 DEF Events
  <2> QED
    BY <2>1, <2>2 DEF TypeOK
<1> QED
  BY <1>1, LinkInvAlways, PTL

\* An accepted update, and what of it is in its i-th event.
LEMMA AcceptedUpdate ==
    ASSUME LinkInv, IsUpdate
    PROVE  /\ msg \in Message /\ UpdateAccepted(msg, result)
           /\ result.events = [k \in 1 .. BatchCount(CountOf(msg)) |->
                 UpdateEvent(TwinOf(msg), TimeOf(msg), Batches(Updates(msg))[k])]
           /\ Len(result.events) = BatchCount(CountOf(msg))
           /\ BatchCount(CountOf(msg)) \in Nat
<1>1. msg \in Message /\ result = deserialize_event(msg)
  BY ResultTypes DEF LinkInv, IsUpdate, Pending
<1>2. UpdateAccepted(msg, result)
  <2>1. ~ErrorAccepted(msg, result)
    BY DEF IsUpdate, ErrorAccepted, EVENT_UPDATE, EVENT_ERROR
  <2>2. result # Rejected
    BY DEF IsUpdate, Rejected
  <2> QED
    BY <1>1, <2>1, <2>2, Outcomes
<1>3. BatchCount(CountOf(msg)) \in Nat
  BY <1>1, HeaderTypes, BatchArithmetic
<1>4. result.events = [k \in 1 .. BatchCount(CountOf(msg)) |->
         UpdateEvent(TwinOf(msg), TimeOf(msg), Batches(Updates(msg))[k])]
  BY <1>2 DEF UpdateAccepted, Accepted
<1> QED
  BY <1>1, <1>2, <1>3, <1>4

\* The batches of an accepted message hold as many updates as its array declares,
\* but for a var_count whose double does not fit a uint32_t.
THEOREM BatchesAlwaysCoverMessage == Spec => []BatchesCoverMessage
<1>1. LinkInv => BatchesCoverMessage
  <2> SUFFICES ASSUME LinkInv, IsUpdate PROVE BatchesCoverMessage
    BY DEF BatchesCoverMessage
  <2> DEFINE q == BatchCount(CountOf(msg))
             b(k) == Batches(Updates(msg))[k]
  <2>1. /\ msg \in Message /\ UpdateAccepted(msg, result)
        /\ result.events = [k \in 1 .. q |-> UpdateEvent(TwinOf(msg), TimeOf(msg), b(k))]
        /\ Len(result.events) = q /\ q \in Nat /\ CountOf(msg) \in Nat
    BY AcceptedUpdate, HeaderTypes
  <2>2. \A k \in 1 .. q : /\ result.events[k].twin_id = TwinOf(msg)
                          /\ result.events[k].updates = b(k)
    BY <2>1 DEF UpdateEvent
  <2>3. \A k \in 1 .. q : IF k < q THEN Len(b(k)) = MAX_VARS_PER_EVENT
                          ELSE (k - 1) * MAX_VARS_PER_EVENT + Len(b(k)) = CountOf(msg)
    BY <2>1, BatchOfUpdate DEF UpdateAccepted
  <2>4. q = 0 <=> CountOf(msg) = 0
    BY <2>1, BatchArithmetic
  <2> HIDE DEF q, b
  <2>5. Decoded = CountOf(msg)
    <3>1. CASE q = 0
      BY <2>1, <2>4, <3>1 DEF Decoded
    <3>2. CASE q # 0
      <4>1. q \in 1 .. q /\ ~(q < q)
        BY <2>1, <3>2
      <4>2. (q - 1) * MAX_VARS_PER_EVENT + Len(result.events[q].updates) = CountOf(msg)
        BY <2>2, <2>3, <4>1
      <4> QED
        BY <2>1, <3>2, <4>2 DEF Decoded, PlaceOf
    <3> QED
      BY <3>1, <3>2
  <2>6. \/ msg.array_size = HEADER + 1 + 2 * Decoded
        \/ 2 * CountOf(msg) >= UINT32
    <3> DEFINE c == CountOf(msg)
    <3>1. /\ c \in Nat /\ msg.array_size \in Nat /\ msg.array_size >= 4
          /\ msg.array_size = (5 + 2 * c) % UINT32
      BY <2>1 DEF UpdateAccepted, HEADER, Message
    <3>2. UINT32 \in Nat \ {0} /\ UINT32 % 2 = 0 /\ UINT32 > 5
      BY BatchAssumption DEF HEADER
    <3> HIDE DEF c
    <3>3. CASE 5 + 2 * c < UINT32
      <4>1. (5 + 2 * c) % UINT32 = 5 + 2 * c
        BY <3>1, <3>2, <3>3
      <4> QED
        BY <2>5, <3>1, <4>1 DEF HEADER, c
    <3>4. CASE 5 + 2 * c >= UINT32 /\ 2 * c < UINT32
      <4>1. (5 + 2 * c) % UINT32 = 5 + 2 * c - UINT32
        BY <3>1, <3>2, <3>4
      <4>2. PICK h \in Nat : UINT32 = 2 * h
        BY <3>2
      <4> QED
        BY <3>1, <3>4, <4>1, <4>2
    <3> QED
      BY <3>1, <3>2, <3>3, <3>4 DEF c
  <2>7. DOMAIN result.events = 1 .. q
    BY <2>1
  <2> QED
    BY <2>1, <2>2, <2>3, <2>6, <2>7 DEF BatchesCoverMessage
<1> QED
  BY <1>1, LinkInvAlways, PTL

\* The j-th update of the i-th event of an accepted message is the pair the loops
\* read at its place, wherever the message ended.
LEMMA UpdateAtPlace ==
    ASSUME LinkInv, IsUpdate,
           NEW i \in DOMAIN result.events, NEW j \in DOMAIN result.events[i].updates
    PROVE  LET k == PlaceOf(i, j)
               u == result.events[i].updates[j]
           IN  /\ k \in 1 .. CountOf(msg)
               /\ u.var_id = Uint16(AsU64(Unpacked(msg, HEADER + 2 * k)))
               /\ u.value = value(Unpacked(msg, HEADER + 2 * k + 1))
<1> DEFINE q == BatchCount(CountOf(msg))
           b == Batches(Updates(msg))[i]
           k == PlaceOf(i, j)
<1>1. /\ msg \in Message /\ TypeOf(msg) = EVENT_UPDATE
      /\ result.events = [x \in 1 .. q |->
            UpdateEvent(TwinOf(msg), TimeOf(msg), Batches(Updates(msg))[x])]
  BY AcceptedUpdate DEF UpdateAccepted
<1>2. i \in 1 .. q /\ result.events[i].updates = b
  BY <1>1 DEF UpdateEvent
<1>3. /\ b \in Seq(Update)
      /\ \A x \in 1 .. Len(b) :
            /\ (i - 1) * MAX_VARS_PER_EVENT + x \in 1 .. CountOf(msg)
            /\ b[x] = Updates(msg)[(i - 1) * MAX_VARS_PER_EVENT + x]
  BY <1>1, <1>2, BatchOfUpdate
<1>4. j \in 1 .. Len(b)
  BY <1>2, <1>3, LenProperties
<1> HIDE DEF b
<1>5. k \in 1 .. CountOf(msg) /\ b[j] = Updates(msg)[k]
  BY <1>3, <1>4 DEF PlaceOf
<1>6. /\ Updates(msg)[k].var_id = Uint16(AsU64(Unpacked(msg, HEADER + 2 * k)))
      /\ Updates(msg)[k].value = value(Unpacked(msg, HEADER + 2 * k + 1))
  BY <1>5 DEF Updates, IdAt
<1> QED
  BY <1>2, <1>5, <1>6

\* However long a message is and wherever it was cut, each pair that arrived is in
\* the events at its own place.
THEOREM WhatArrivedIsAlwaysKept == Spec => []WhatArrivedIsKept
<1>1. LinkInv => WhatArrivedIsKept
  <2> SUFFICES ASSUME LinkInv, IsUpdate, NEW i \in DOMAIN result.events,
                      NEW j \in DOMAIN result.events[i].updates,
                      PlaceOf(i, j) \in Pairs
               PROVE  /\ result.events[i].updates[j].var_id
                            = Uint16(AsU64(msg.items[HEADER + 2 * PlaceOf(i, j)]))
                      /\ result.events[i].updates[j].value
                            = value(msg.items[HEADER + 2 * PlaceOf(i, j) + 1])
    BY DEF WhatArrivedIsKept
  <2> DEFINE k == PlaceOf(i, j)
  <2>1. /\ k \in 1 .. CountOf(msg)
        /\ result.events[i].updates[j].var_id
             = Uint16(AsU64(Unpacked(msg, HEADER + 2 * k)))
        /\ result.events[i].updates[j].value = value(Unpacked(msg, HEADER + 2 * k + 1))
    BY UpdateAtPlace
  <2>2. k \in Nat /\ HEADER + 2 * k + 1 <= Len(msg.items) /\ Len(msg.items) \in Nat
    <3>1. Len(msg.items) \in Nat
      BY ResultTypes, LenProperties DEF Message
    <3> QED
      BY <3>1 DEF Pairs, IdAt, HEADER
  <2> HIDE DEF k
  <2>3. /\ HEADER + 2 * k \in Nat /\ HEADER + 2 * k <= Len(msg.items)
        /\ HEADER + 2 * k + 1 \in Nat
    BY <2>2 DEF HEADER
  <2>4. /\ Unpacked(msg, HEADER + 2 * k) = msg.items[HEADER + 2 * k]
        /\ Unpacked(msg, HEADER + 2 * k + 1) = msg.items[HEADER + 2 * k + 1]
    BY <2>2, <2>3, UnpackedPresent
  <2> QED
    BY <2>1, <2>4 DEF k
<1> QED
  BY <1>1, LinkInvAlways, PTL

\* An item that the parser takes from the twin_id on is one that the message has.
LEMMA UnpackedFromMessage ==
    ASSUME NEW m \in Message, m.items # << >>, NEW k \in Nat, k >= HEADER
    PROVE  \E x \in (IF Len(m.items) < HEADER THEN Len(m.items) ELSE HEADER)
                        .. Len(m.items) : Unpacked(m, k) = m.items[x]
<1>1. Len(m.items) \in Nat \ {0}
  BY EmptySeq DEF Message
<1>2. CASE k <= Len(m.items)
  BY <1>1, <1>2, UnpackedPresent DEF HEADER
<1>3. CASE k > Len(m.items)
  <2>1. Unpacked(m, k) = m.items[Len(m.items)]
    BY <1>1, <1>3 DEF Unpacked
  <2> QED
    BY <1>1, <2>1 DEF HEADER
<1> QED
  BY <1>1, <1>2, <1>3

\* A message without any items is not accepted: its own size would be its type.
LEMMA AcceptedHasItems ==
    ASSUME NEW m \in Message, NEW r, UpdateAccepted(m, r) \/ ErrorAccepted(m, r)
    PROVE  m.items # << >>
<1> SUFFICES ASSUME m.items = << >> PROVE FALSE
  OBVIOUS
<1>1. Len(m.items) = 0
  BY EmptySeq
<1>2. Unpacked(m, 1) = IntItem(m.array_size)
  BY <1>1 DEF Unpacked
<1>3. TypeOf(m) = m.array_size
  <2>1. m.array_size \in Nat /\ m.array_size < UINT32
    BY DEF Message
  <2>2. AsU64(Unpacked(m, 1)) = m.array_size
    BY <1>2 DEF AsU64, IntItem
  <2> QED
    BY <2>1, <2>2, BatchAssumption DEF TypeOf
<1> QED
  BY <1>3 DEF UpdateAccepted, ErrorAccepted, Message, HEADER, EVENT_UPDATE, EVENT_ERROR

\* No id of an update and no code of an error comes from anywhere but the message
\* itself, though the parser never looks at whether unpacking succeeded.
THEOREM NothingIsEverInvented == Spec => []NothingInvented
<1>1. LinkInv => NothingInvented
  <2> DEFINE from == IF Len(msg.items) < HEADER THEN Len(msg.items) ELSE HEADER
             sent == {AsU64(msg.items[k]) : k \in from .. Len(msg.items)}
  <2> SUFFICES ASSUME LinkInv, NEW i \in DOMAIN result.events
               PROVE  \/ /\ result.events[i].type = EVENT_ERROR
                         /\ \E n \in sent : result.events[i].error_code = n % UINT32
                      \/ /\ result.events[i].type = EVENT_UPDATE
                         /\ \A j \in DOMAIN result.events[i].updates : \E n \in sent :
                               result.events[i].updates[j].var_id = Uint16(n)
    BY DEF NothingInvented
  <2>1. msg \in Message /\ result = deserialize_event(msg) /\ result # Rejected
    BY ResultTypes DEF LinkInv, Pending, Rejected
  <2>2. UpdateAccepted(msg, result) \/ ErrorAccepted(msg, result)
    BY <2>1, Outcomes
  <2>3. ASSUME NEW k \in Nat, k >= HEADER
        PROVE  AsU64(Unpacked(msg, k)) \in sent
    BY <2>1, <2>2, <2>3, UnpackedFromMessage, AcceptedHasItems
  <2> HIDE DEF sent
  <2>4. CASE ErrorAccepted(msg, result)
    <3>1. result.events = <<ErrorEvent(TwinOf(msg), TimeOf(msg),
                                AsU64(Unpacked(msg, HEADER + 1)) % UINT32)>>
      BY <2>4 DEF ErrorAccepted, Accepted
    <3>2. /\ result.events[i].type = EVENT_ERROR
          /\ result.events[i].error_code = AsU64(Unpacked(msg, HEADER + 1)) % UINT32
      BY <3>1 DEF ErrorEvent
    <3>3. AsU64(Unpacked(msg, HEADER + 1)) \in sent
      BY <2>3 DEF HEADER
    <3> QED
      BY <3>2, <3>3
  <2>5. CASE UpdateAccepted(msg, result)
    <3>1. IsUpdate
      BY <2>5 DEF UpdateAccepted, Accepted, IsUpdate
    <3>2. result.events[i].type = EVENT_UPDATE
      BY <2>5 DEF UpdateAccepted, Accepted, UpdateEvent
    <3>3. ASSUME NEW j \in DOMAIN result.events[i].updates
          PROVE  \E n \in sent : result.events[i].updates[j].var_id = Uint16(n)
      <4>1. /\ PlaceOf(i, j) \in 1 .. CountOf(msg)
            /\ result.events[i].updates[j].var_id
                 = Uint16(AsU64(Unpacked(msg, HEADER + 2 * PlaceOf(i, j))))
        BY <3>1, UpdateAtPlace
      <4>2. CountOf(msg) \in Nat
        BY <2>1, HeaderTypes
      <4>3. \A k \in 1 .. CountOf(msg) : HEADER + 2 * k \in Nat /\ HEADER + 2 * k >= HEADER
        BY <4>2 DEF HEADER
      <4> QED
        BY <2>3, <4>1, <4>3
    <3> QED
      BY <3>2, <3>3
  <2> QED
    BY <2>2, <2>4, <2>5
<1> QED
  BY <1>1, LinkInvAlways, PTL

\* A parent engine decodes, event for event, what this engine's parser made.
THEOREM ParentAlwaysSeesTheSame == Spec => []ParentSeesTheSame
<1>1. LinkInv => ParentSeesTheSame
  BY DEF LinkInv, ParentSeesTheSame
<1> QED
  BY <1>1, LinkInvAlways, PTL
===============================================================================
