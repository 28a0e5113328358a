------------------------------- MODULE EventLink -------------------------------
(***************************************************************************)
(* One message on its way through two engines: the receiver of the first   *)
(* decodes it, its sender encodes each event again, and the receiver of    *)
(* the parent engine decodes what arrives.  Queues, rules and memory are   *)
(* left out (TwinEngine has them): this is about the two conversions only. *)
(***************************************************************************)
EXTENDS EventParser, SequencesExt

CONSTANT Messages     \* what a device may send

ASSUME LinkAssumption == Messages \subseteq Message

VARIABLES msg,        \* the message
          result,     \* what deserialize_event makes of it: ret and events
          forwarded,  \* how many of the events the sender has encoded
          parent      \* the events the parent engine decoded

vars == <<msg, result, forwarded, parent>>

Pending == [ret |-> 1, events |-> << >>]

Init ==
    /\ msg \in Messages
    /\ result = Pending
    /\ forwarded = 0
    /\ parent = << >>

Decode ==
    /\ result = Pending
    /\ result' = deserialize_event(msg)
    /\ UNCHANGED <<msg, forwarded, parent>>

\* Only update events reach the sender: the dispatcher never pushes an error.
Forward ==
    /\ forwarded < Len(result.events)
    /\ LET e == result.events[forwarded + 1]
       IN  /\ e.type = EVENT_UPDATE
           /\ parent' = parent \o deserialize_event(serialize_event(e)).events
    /\ forwarded' = forwarded + 1
    /\ UNCHANGED <<msg, result>>

Next == Decode \/ Forward

Spec == Init /\ [][Next]_vars

-------------------------------------------------------------------------------
(* Properties                                                              *)

\* Every event that comes out of the parser is one that fits an event_t.
TypeOK ==
    /\ result.ret \in {-1, 0, 1}
    /\ \A i \in DOMAIN result.events :
          LET e == result.events[i]
          IN  \/ /\ e.type = EVENT_UPDATE
                 /\ Len(e.updates) \in 1 .. MAX_VARS_PER_EVENT
                 /\ ToSet(e.updates) \subseteq Update
              \/ e.type = EVENT_ERROR /\ e.error_code \in Nat
    /\ forwarded \in 0 .. Len(result.events)

IsUpdate == result.ret = 0 /\ TypeOf(msg) = EVENT_UPDATE

\* Where the j-th update of the i-th batch was among the updates of the message.
PlaceOf(i, j) == (i - 1) * MAX_VARS_PER_EVENT + j

\* How many updates the batches hold, all but the last one being full.
Decoded ==
    LET n == Len(result.events)
    IN  IF n = 0 THEN 0 ELSE PlaceOf(n, Len(result.events[n].updates))

\* The (id, value) pairs that are there in full.
Pairs == {k \in 1 .. Len(msg.items) : IdAt(k) + 1 <= Len(msg.items)}

\* The batches that deserialize_event cuts an accepted message into hold as
\* many updates as the array declares, all for the message's twin, and only
\* the last batch is not full.  The one exception is a var_count of half the
\* range of a uint32_t or more, whose double wraps in the size check.
BatchesCoverMessage ==
    IsUpdate =>
        /\ \A i \in DOMAIN result.events :
              /\ result.events[i].twin_id = TwinOf(msg)
              /\ i < Len(result.events) =>
                    Len(result.events[i].updates) = MAX_VARS_PER_EVENT
        /\ \/ msg.array_size = HEADER + 1 + 2 * Decoded
           \/ 2 * CountOf(msg) >= UINT32

\* Of a message that ends early, or whose count wraps, every pair that is
\* there is decoded in its place, across all batch boundaries.
WhatArrivedIsKept ==
    IsUpdate =>
        \A i \in DOMAIN result.events : \A j \in DOMAIN result.events[i].updates :
            LET k == PlaceOf(i, j)
                u == result.events[i].updates[j]
            IN  k \in Pairs =>
                    /\ u.var_id = Uint16(AsU64(msg.items[HEADER + 2 * k]))
                    /\ u.value = value(msg.items[HEADER + 2 * k + 1])

\* What a message lacks is made up from the same message: past its end the
\* parser repeats the last item, so that the ids of the missing updates and
\* the code of an error without one are items this device has sent, from the
\* twin_id on, and never what an earlier message left on the stack.
NothingInvented ==
    LET from == IF Len(msg.items) < HEADER THEN Len(msg.items) ELSE HEADER
        sent == {AsU64(msg.items[k]) : k \in from .. Len(msg.items)}
    IN  \A i \in DOMAIN result.events :
            LET e == result.events[i]
            IN  \/ /\ e.type = EVENT_ERROR
                   /\ \E n \in sent : e.error_code = n % UINT32
                \/ /\ e.type = EVENT_UPDATE
                   /\ \A j \in DOMAIN e.updates :
                         \E n \in sent : e.updates[j].var_id = Uint16(n)

\* What the parent engine decodes is what this engine's dispatcher put in the
\* event, batch for batch: serialize_event loses nothing on the way up.
ParentSeesTheSame == parent = SubSeq(result.events, 1, forwarded)

\* The reading an item stands for.
Reading(item) == IF item.kind = "float" THEN item.f ELSE Float(item.n)

\* The value the dispatcher will write into twins_memory is the reading the
\* device sent, whichever number format its MessagePack library chose.
ReadingsSurvive ==
    IsUpdate =>
        \A i \in DOMAIN result.events : \A j \in DOMAIN result.events[i].updates :
            LET k == PlaceOf(i, j)
            IN  k \in Pairs =>
                    result.events[i].updates[j].value
                        = Reading(msg.items[HEADER + 2 * k + 1])
===============================================================================
