------------------------------ MODULE EventParser ------------------------------
(***************************************************************************)
(* The two conversions between MessagePack messages and event_t:           *)
(* deserialize_event, which the receiver thread runs on every message, and *)
(* serialize_event, which the sender thread runs on every notification.    *)
(*                                                                         *)
(* A message is a MessagePack array: the size it declares and the items    *)
(* that are there, of which there may be fewer.  An item is an integer n,  *)
(* a double n, a float f or a string; the readings of the devices are      *)
(* small natural numbers, and no device sends nil, booleans, negative      *)
(* integers, maps or arrays within the array.  Messages fit in the         *)
(* ZMQ_BUFFER_SIZE bytes of the receiver.  The deviation, which nothing    *)
(* looks at and which the C clients always send as 0, and the text of an   *)
(* error are left out of the events.                                       *)
(***************************************************************************)
EXTENDS Integers, Sequences

CONSTANTS MAX_VARS_PER_EVENT,  \* updates that fit in one event_t
          UINT32               \* how many values a uint32_t has

HEADER == 4                    \* items of the header

ASSUME BatchAssumption ==
    /\ MAX_VARS_PER_EVENT \in Nat \ {0}
    /\ UINT32 \in Nat /\ UINT32 % 2 = 0
    /\ HEADER + 1 + 2 * MAX_VARS_PER_EVENT < UINT32

EVENT_UPDATE == 0
EVENT_ERROR  == 1

Uint8(n)  == n % 256
Uint16(n) == n % 65536

-------------------------------------------------------------------------------
(* What value.f32 holds                                                    *)

\* A float is the number m, or m units of the smallest denormal when tiny.
Float(n) == [m |-> n, tiny |-> FALSE]

Zero == Float(0)

Floats == [m : Nat, tiny : BOOLEAN]

IntItem(n)   == [kind |-> "int", n |-> n]
FloatItem(f) == [kind |-> "float", f |-> f]

NumberItems == [kind : {"int", "double"}, n : Nat] \cup [kind : {"float"}, f : Floats]
Items       == NumberItems \cup [kind : {"str"}]

\* item.as.real of a MessagePack double is the low half of its 64 bits,
\* which is all zero for the small whole numbers that stand for readings.
DoubleAsReal(n) == Zero

\* An integer is stored in value.i32, and every reader takes value.f32: the
\* same 32 bits, read as a float.
IntAsFloat(n) == IF n = 0 THEN Zero ELSE [m |-> n, tiny |-> TRUE]

value(item) ==
    CASE item.kind = "float"  -> item.f
      [] item.kind = "double" -> DoubleAsReal(item.n)
      [] item.kind = "int"    -> IntAsFloat(item.n)

-------------------------------------------------------------------------------
(* deserialize_event                                                       *)

Unpacked_ZeroPastEnd(msg, k) ==
    IF k <= Len(msg.items) THEN msg.items[k] ELSE IntItem(0)

\* What is in ctx.item after the k-th cw_unpack_next that follows the array.
\* Past the end of the message the call fails and leaves the bits of the last
\* item, or of the array itself, where they are; return_code is not looked at.
\* The item's type is then neither float nor double, and taking the bits for
\* value.i32 comes to the same value.f32.
Unpacked(msg, k) ==
    CASE k <= Len(msg.items)                      -> msg.items[k]
      [] k > Len(msg.items) /\ msg.items # << >> -> msg.items[Len(msg.items)]
      [] OTHER                                    -> IntItem(msg.array_size)

\* The low 16 bits of the float that is the whole number n, below 2^24: those of
\* n shifted until its leading bit is the 24th, and none for one of 8 bits.
Low16(n) ==
    LET powers == {1, 2, 4, 8, 16, 32, 64, 128, 256, 512, 1024, 2048, 4096, 8192,
                   16384, 32768}
        shifts == {p \in powers : (n * p) \div 65536 \in 128 .. 255}
    IN  IF shifts = {} THEN 0 ELSE Uint16(n * CHOOSE p \in shifts : TRUE)

\* item.as.u64.  Of a real it is read for a 16-bit id only, when the message has
\* ended: the bits below the exponent of a float, and of a double, whose low
\* bits are zero, nothing.
AsU64(item) ==
    CASE item.kind = "int"   -> item.n
      [] item.kind = "float" ->
            IF item.f.tiny THEN item.f.m ELSE Low16(item.f.m)
      [] OTHER               -> 0

\* type, timestamp and twin_id of the header, and var_count.
TypeOf(msg)  == AsU64(Unpacked(msg, 1)) % UINT32
TimeOf(msg)  == AsU64(Unpacked(msg, 2))
TwinOf(msg)  == AsU64(Unpacked(msg, 4)) % UINT32
CountOf(msg) == AsU64(Unpacked(msg, 5)) % UINT32

\* What a device may send: as many items as it likes, whatever it declares, but
\* integers for the header and the count or code after it (but for a deviation
\* that is not the last item), and no strings in place of readings.
Message ==
    {msg \in [array_size : {n \in Nat : n < UINT32}, items : Seq(Items)] :
        /\ \A k \in DOMAIN msg.items :
              k <= HEADER + 1 /\ (k = 3 => Len(msg.items) = 3) =>
                  msg.items[k].kind = "int"
        /\ TypeOf(msg) = EVENT_UPDATE => msg.items \in Seq(NumberItems)}

IdAt_OneEarly(i) == HEADER + 2 * i - 1

\* Where the i-th (id, value) pair is: the pairs follow var_count.
IdAt(i) == HEADER + 2 * i

\* The pairs that the loops read.
Updates(msg) ==
    [i \in 1 .. CountOf(msg) |->
        [var_id |-> Uint16(AsU64(Unpacked(msg, IdAt(i)))),
         value  |-> value(Unpacked(msg, IdAt(i) + 1))]]

Batches_FullOnly(us) ==
    [k \in 1 .. Len(us) \div MAX_VARS_PER_EVENT |->
        SubSeq(us, (k - 1) * MAX_VARS_PER_EVENT + 1, k * MAX_VARS_PER_EVENT)]

Batches_OneTooMany(us) ==
    [k \in 1 .. (Len(us) + MAX_VARS_PER_EVENT) \div (MAX_VARS_PER_EVENT + 1) |->
        SubSeq(us, (k - 1) * (MAX_VARS_PER_EVENT + 1) + 1,
               IF k * (MAX_VARS_PER_EVENT + 1) < Len(us)
               THEN k * (MAX_VARS_PER_EVENT + 1) ELSE Len(us))]

\* An event_t of the message's twin with at most MAX_VARS_PER_EVENT updates
\* for each turn of the outer loop: the k-th takes the next ones, and the
\* last takes what is left.
Batches(us) ==
    LET last == (Len(us) + MAX_VARS_PER_EVENT - 1) \div MAX_VARS_PER_EVENT
    IN  [k \in 1 .. last |->
            SubSeq(us, (k - 1) * MAX_VARS_PER_EVENT + 1,
                   IF k = last THEN Len(us) ELSE k * MAX_VARS_PER_EVENT)]

Update == [var_id : {n \in Nat : n < 65536}, value : Floats]

UpdateEvent(twin_id, timestamp, updates) ==
    [type |-> EVENT_UPDATE, twin_id |-> twin_id, timestamp |-> timestamp,
     updates |-> updates]

ErrorEvent(twin_id, timestamp, code) ==
    [type |-> EVENT_ERROR, twin_id |-> twin_id, timestamp |-> timestamp,
     error_code |-> code]

Rejected == [ret |-> -1, events |-> << >>]

Accepted(events) == [ret |-> 0, events |-> events]

\* The batches are pushed one by one; an error is one event, whose code is the
\* item after the header.
deserialize_event(msg) ==
    CASE msg.array_size < HEADER -> Rejected
      [] msg.array_size >= HEADER /\ TypeOf(msg) = EVENT_UPDATE ->
            IF msg.array_size # (HEADER + 1 + 2 * CountOf(msg)) % UINT32
            THEN Rejected
            ELSE LET batches == Batches(Updates(msg))
                 IN  Accepted([k \in DOMAIN batches |->
                         UpdateEvent(TwinOf(msg), TimeOf(msg), batches[k])])
      [] msg.array_size >= HEADER /\ TypeOf(msg) = EVENT_ERROR ->
            Accepted(<<ErrorEvent(TwinOf(msg), TimeOf(msg),
                                  AsU64(Unpacked(msg, HEADER + 1)) % UINT32)>>)
      [] OTHER -> Rejected

-------------------------------------------------------------------------------
(* serialize_event                                                         *)

\* cw_pack_unsigned for the header and the ids, cw_pack_float for the values.
Packed(header, updates) ==
    [k \in 1 .. HEADER + 1 + 2 * Len(updates) |->
        IF k <= HEADER + 1 THEN IntItem(header[k])
        ELSE LET u == updates[(k - HEADER) \div 2]
             IN  IF k % 2 = 0 THEN IntItem(u.var_id) ELSE FloatItem(u.value)]

serialize_event_NoTime(event) ==
    [array_size |-> HEADER + 1 + 2 * Len(event.updates),
     items      |-> Packed(<<0, 0, 0, event.twin_id, Len(event.updates)>>, event.updates)]

\* The type is always 0, EVENT_UPDATE, and every value goes out as a float.
serialize_event(event) ==
    [array_size |-> HEADER + 1 + 2 * Len(event.updates),
     items      |-> Packed(<<0, event.timestamp, 0, event.twin_id, Len(event.updates)>>,
                           event.updates)]
===============================================================================
