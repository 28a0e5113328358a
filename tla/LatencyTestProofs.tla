--------------------------- MODULE LatencyTestProofs ---------------------------
(***************************************************************************)
(* LatencyTest for any number of devices, series and messages, and for any *)
(* sizes of the connections and of the log.                                *)
(***************************************************************************)
EXTENDS LatencyTest, EventParserProofs

\* The n-th message of device h, which is also what the engine makes of it.
SampleOf(h, n) ==
    serialize_event(UpdateEvent(TwinId(h), current_time_ms(n),
                                <<[var_id |-> 0, value |-> Float(n)]>>))

Samples == {SampleOf(h, n) : h \in Host, n \in Nat}

Number(m) == mensaje_t(m).message_id.m

\* How many messages of device h have left its connection.
Taken(h) == base_value[h] - Len(wire[h])

\* A device has sent its messages in order, and the last are on the connection.
DeviceInv ==
    /\ dpc \in [Host -> {"connect", "send", "close", "done", "failed"}]
    /\ sent \in [Host -> Nat] /\ base_value = sent
    /\ wire \in [Host -> Seq(Samples)]
    /\ \A h \in Host :
          /\ sent[h] <= AllMessages
          /\ dpc[h] \in {"connect", "send"} => sent[h] < AllMessages
          /\ Len(wire[h]) <= HWM /\ Len(wire[h]) <= base_value[h]
          /\ \A k \in 1 .. Len(wire[h]) : wire[h][k] = SampleOf(h, Taken(h) + k - 1)

Entries(c) == IF Len(got[c]) <= MAX_MSGS THEN Len(got[c]) ELSE MAX_MSGS

Rows(c) ==
    [k \in 1 .. Len(got[c]) |->
        IF k <= MAX_MSGS THEN mensaje_t(got[c][k])
        ELSE IF k <= LOG_SIZE THEN NoMensaje ELSE Stray]

\* A node has logged the first messages it got, never one that is no event,
\* and its file, if there is one, is what the log was at the end.  Only a dump
\* of more messages than the array has entries can have killed it.
NodeInv ==
    /\ npc \in [Node -> {"bind", "recv", "save", "ended", "crashed"}]
    /\ bound \in [Node -> BOOLEAN] /\ running \in [Node -> BOOLEAN]
    /\ line \in [Node -> Seq(Samples)] /\ got \in [Node -> Seq(Samples)]
    /\ total_received = [c \in Node |-> Len(got[c])]
    /\ history_log = [c \in Node |-> [k \in 1 .. Entries(c) |-> mensaje_t(got[c][k])]]
    /\ DOMAIN csv = Node
    /\ \A c \in Node :
          csv[c] = << >> \/ (npc[c] = "ended" /\ csv[c] = <<Rows(c)>>)
    /\ \A c \in Node : npc[c] = "crashed" => Len(got[c]) > LOG_SIZE

\* The k-th message on the channel of node c, those handed over first.
At(c, k) == IF k <= Len(got[c]) THEN got[c][k] ELSE line[c][k - Len(got[c])]

Places(c) == 1 .. Len(got[c]) + Len(line[c])

\* The messages of a channel are from the node's own devices, which may be
\* assigned so that the numbers of each count up and have been taken.
Assigns(from, c) ==
    /\ from \in [Places(c) -> DevicesOf(c)]
    /\ \A k \in Places(c) :
          /\ Number(At(c, k)) \in Nat /\ Number(At(c, k)) < Taken(from[k])
          /\ At(c, k) = SampleOf(from[k], Number(At(c, k)))
    /\ \A j, k \in Places(c) :
          j < k /\ from[j] = from[k] => Number(At(c, j)) < Number(At(c, k))

OrderInv ==
    \A c \in Node : \E from \in [Places(c) -> DevicesOf(c)] : Assigns(from, c)

LatencyInv == engine_up \in BOOLEAN /\ DeviceInv /\ NodeInv /\ OrderInv

-------------------------------------------------------------------------------
(* Samples                                                                 *)

LEMMA TwinIds == \A h : TwinId(h) \in Nat /\ TwinId(h) <= 10 /\ TwinId(h) < UINT32
<1>1. \A h : TwinId(h) \in {0, 1, 2, 3, 4, 10}
  BY DEF TwinId
<1> QED
  BY <1>1, LatencyAssumption, BatchAssumption

\* The engine's parser and serializer give a sample back as it was, and the
\* node reads from it what the device put in.
LEMMA SampleFacts ==
    ASSUME NEW h, NEW n \in Nat
    PROVE  LET e == deserialize_event(SampleOf(h, n)).events[1]
           IN  /\ e.twin_id = TwinId(h) /\ serialize_event(e) = SampleOf(h, n)
               /\ ~NotEnough(SampleOf(h, n))
               /\ mensaje_t(SampleOf(h, n)) =
                     [sending_ts |-> current_time_ms(n), twin_id |-> TwinId(h),
                      message_id |-> Float(n)]
               /\ Number(SampleOf(h, n)) = n
<1> DEFINE t  == current_time_ms(n)
           us == <<[var_id |-> 0, value |-> Float(n)]>>
           ev == UpdateEvent(TwinId(h), t, us)
           m  == SampleOf(h, n)
<1>1. t \in Nat /\ TwinId(h) \in Nat /\ TwinId(h) < UINT32
  BY TwinIds DEF current_time_ms
<1>2. us \in Seq(Update) /\ Len(us) = 1 /\ us[1].value = Float(n)
  BY FloatsAreFloats DEF Update
<1>3. Len(us) \in 1 .. MAX_VARS_PER_EVENT
  BY <1>2, BatchAssumption
<1>4. deserialize_event(m) = Accepted(<<ev>>)
  <2> HIDE DEF us, t
  <2> QED
    BY <1>1, <1>2, <1>3, RoundTrip DEF SampleOf, us, t
<1>5. deserialize_event(m).events[1] = ev
  <2> HIDE DEF ev, m
  <2> QED
    BY <1>4 DEF Accepted
<1>6. ev.twin_id = TwinId(h) /\ ev.timestamp = t /\ ev.updates = us
  BY DEF UpdateEvent
<1>7. serialize_event(ev) = m
  BY DEF SampleOf
<1>8. /\ m.array_size = HEADER + 1 + 2 * Len(us)
      /\ m.items = Packed(<<0, t, 0, TwinId(h), Len(us)>>, us)
  <2> HIDE DEF us, t, ev, m
  <2> QED
    BY <1>6, <1>7 DEF serialize_event
<1>9. /\ Len(m.items) = 7
      /\ m.items[2] = IntItem(t) /\ m.items[4] = IntItem(TwinId(h))
      /\ m.items[7] = FloatItem(Float(n))
  <2> HIDE DEF us, t, m
  <2> DEFINE p == Packed(<<0, t, 0, TwinId(h), Len(us)>>, us)
  <2>1. /\ Len(p) = HEADER + 1 + 2 * Len(us)
        /\ p[2] = IntItem(t) /\ p[4] = IntItem(TwinId(h))
        /\ \A i \in 1 .. Len(us) : p[IdAt(i) + 1] = FloatItem(us[i].value)
    <3>1. ASSUME NEW b, NEW d, NEW v \in Seq(Update)
          PROVE  LET q == Packed(<<0, b, 0, d, Len(v)>>, v)
                 IN  /\ Len(q) = HEADER + 1 + 2 * Len(v)
                     /\ q[2] = IntItem(b) /\ q[4] = IntItem(d)
                     /\ \A i \in 1 .. Len(v) : q[IdAt(i) + 1] = FloatItem(v[i].value)
      <4>1. PICK q : q = Packed(<<0, b, 0, d, Len(v)>>, v)
        OBVIOUS
      <4>2. IsPacked(q, 0, b, 0, d, v)
        BY <4>1, PackedItems
      <4> QED
        BY <4>1, <4>2 DEF IsPacked
    <3>2. us \in Seq(Update)
      BY <1>2
    <3> QED
      BY <3>1, <3>2
  <2> HIDE DEF p
  <2>2. 1 \in 1 .. Len(us) /\ HEADER + 1 + 2 * Len(us) = 7 /\ IdAt(1) + 1 = 7
    BY <1>2 DEF HEADER, IdAt
  <2>3. p[7] = FloatItem(Float(n))
    BY <1>2, <2>1, <2>2
  <2> QED
    BY <1>8, <2>1, <2>2, <2>3 DEF p
<1>10. /\ Unpacked(m, 2) = IntItem(t) /\ Unpacked(m, 4) = IntItem(TwinId(h))
       /\ Unpacked(m, 7) = FloatItem(Float(n))
  <2> HIDE DEF t, m
  <2> QED
    BY <1>9 DEF Unpacked
<1>11. /\ TimeOf(m) = t /\ TwinOf(m) = TwinId(h)
       /\ value(Unpacked(m, HEADER + 3)) = Float(n)
  <2> HIDE DEF t, m
  <2>1. AsU64(IntItem(t)) = t /\ AsU64(IntItem(TwinId(h))) = TwinId(h)
    BY DEF AsU64, IntItem
  <2>2. value(FloatItem(Float(n))) = Float(n)
    BY DEF value, FloatItem
  <2>3. HEADER + 3 = 7 /\ TwinId(h) % UINT32 = TwinId(h)
    BY <1>1, BatchAssumption DEF HEADER
  <2> QED
    BY <1>10, <2>1, <2>2, <2>3 DEF TimeOf, TwinOf
<1>12. mensaje_t(m) = [sending_ts |-> t, twin_id |-> TwinId(h), message_id |-> Float(n)]
  <2> HIDE DEF t, m
  <2> QED
    BY <1>11 DEF mensaje_t
<1>13. Number(m) = n
  <2> HIDE DEF m
  <2> QED
    BY <1>12 DEF Number, Float
<1>14. ~NotEnough(m)
  <2> HIDE DEF m
  <2> QED
    BY <1>2, <1>8 DEF NotEnough, HEADER
<1> QED
  BY <1>5, <1>6, <1>7, <1>12, <1>13, <1>14

\* What zmq_send packs is the next sample of its device.
LEMMA SampleIsSampleOf ==
    ASSUME NEW h \in Host, base_value[h] \in Nat
    PROVE  Sample(h) = SampleOf(h, base_value[h])
<1> DEFINE us == <<[var_id |-> 0, value |-> Float(base_value[h])]>>
<1>1. Len(us) = 1 /\ HEADER + 1 + 2 * Len(us) = 5 + 1 * 2
  BY DEF HEADER
<1> HIDE DEF us
<1> QED
  BY <1>1 DEF Sample, SampleOf, serialize_event, UpdateEvent, us

-------------------------------------------------------------------------------
(* The invariant                                                           *)

LEMMA InitLatency == Init => LatencyInv
<1> SUFFICES ASSUME Init PROVE LatencyInv
  OBVIOUS
<1> USE EmptySeq
<1>1. DeviceInv
  <2>1. << >> \in Seq(Samples) /\ Len(<< >>) = 0
    OBVIOUS
  <2>2. AllMessages \in Nat /\ 0 < AllMessages /\ HWM \in Nat
    BY CountAssumption, LatencyAssumption
  <2>3. \A h \in Host : sent[h] = 0 /\ base_value[h] = 0 /\ wire[h] = << >>
    BY DEF Init
  <2>4. /\ dpc \in [Host -> {"connect", "send", "close", "done", "failed"}]
        /\ sent \in [Host -> Nat] /\ base_value = sent
        /\ wire \in [Host -> Seq(Samples)]
    BY <2>1 DEF Init
  <2> QED
    BY <2>1, <2>2, <2>3, <2>4 DEF DeviceInv
<1>2. NodeInv
  <2>1. << >> \in Seq(Samples) /\ Len(<< >>) = 0
    OBVIOUS
  <2>2. /\ line = [c \in Node |-> << >>] /\ got = [c \in Node |-> << >>]
        /\ npc = [c \in Node |-> "bind"]
    BY DEF Init, Relay!Init
  <2>3. \A c \in Node : Entries(c) = 0
    BY <2>1, <2>2, LatencyAssumption DEF Entries
  <2>4. history_log = [c \in Node |-> [k \in 1 .. Entries(c) |-> mensaje_t(got[c][k])]]
    <3>1. ASSUME NEW c \in Node
          PROVE  << >> = [k \in 1 .. Entries(c) |-> mensaje_t(got[c][k])]
      BY <2>3
    <3> QED
      BY <3>1 DEF Init
  <2>5. total_received = [c \in Node |-> Len(got[c])]
    BY <2>1, <2>2 DEF Init
  <2>6. /\ line \in [Node -> Seq(Samples)] /\ got \in [Node -> Seq(Samples)]
        /\ npc \in [Node -> {"bind", "recv", "save", "ended", "crashed"}]
    BY <2>1, <2>2
  <2>7. bound \in [Node -> BOOLEAN] /\ running \in [Node -> BOOLEAN]
    BY DEF Init
  <2>8. DOMAIN csv = Node /\ \A c \in Node : csv[c] = << >>
    BY DEF Init
  <2>9. \A c \in Node : npc[c] # "crashed"
    BY DEF Init
  <2> QED
    BY <2>4, <2>5, <2>6, <2>7, <2>8, <2>9 DEF NodeInv
<1>3. OrderInv
  <2> SUFFICES ASSUME NEW c \in Node
               PROVE  \E from \in [Places(c) -> DevicesOf(c)] : Assigns(from, c)
    BY DEF OrderInv
  <2>1. Places(c) = {}
    BY DEF Places, Init, Relay!Init
  <2>2. [k \in Places(c) |-> 0] \in [Places(c) -> DevicesOf(c)]
    BY <2>1
  <2> WITNESS [k \in Places(c) |-> 0] \in [Places(c) -> DevicesOf(c)]
  <2> QED
    BY <2>1, <2>2 DEF Assigns
<1>4. engine_up \in BOOLEAN
  BY DEF Init
<1> QED
  BY <1>1, <1>2, <1>3, <1>4 DEF LatencyInv

LEMMA TakenTypes ==
    DeviceInv => \A h \in Host :
        /\ base_value[h] \in Nat /\ Len(wire[h]) \in Nat
        /\ wire[h] \in Seq(Samples) /\ Taken(h) \in Nat
<1> SUFFICES ASSUME DeviceInv, NEW h \in Host
             PROVE  /\ base_value[h] \in Nat /\ Len(wire[h]) \in Nat
                    /\ wire[h] \in Seq(Samples) /\ Taken(h) \in Nat
  OBVIOUS
<1>1. base_value[h] \in Nat /\ wire[h] \in Seq(Samples)
  BY DEF DeviceInv
<1>2. Len(wire[h]) \in Nat /\ Len(wire[h]) <= base_value[h]
  BY <1>1, LenProperties DEF DeviceInv
<1> QED
  BY <1>1, <1>2 DEF Taken

LEMMA NodeKept == NodeInv /\ UNCHANGED <<line, got, node>> => NodeInv'
  BY DEF NodeInv, Entries, Rows, node

LEMMA DeviceKept == DeviceInv /\ UNCHANGED <<device, wire>> => DeviceInv'
  BY DEF DeviceInv, Taken, device

\* As the connections move on, what is on the channels stays in order.
LEMMA OrderKept ==
    ASSUME DeviceInv, DeviceInv', OrderInv, UNCHANGED <<line, got>>,
           \A h \in Host : Taken(h) <= Taken(h)'
    PROVE  OrderInv'
<1> SUFFICES ASSUME NEW c \in Node
             PROVE  \E from \in [Places(c)' -> DevicesOf(c)] : Assigns(from, c)'
  BY DEF OrderInv
<1>1. PICK from \in [Places(c) -> DevicesOf(c)] : Assigns(from, c)
  BY DEF OrderInv
<1>2. Places(c)' = Places(c) /\ \A k : At(c, k)' = At(c, k)
  BY DEF Places, At
<1>3. \A h \in Host : Taken(h) \in Nat /\ Taken(h)' \in Nat
  <2>1. ASSUME NEW h \in Host PROVE Taken(h)' \in Nat
    <3>1. base_value'[h] \in Nat /\ wire'[h] \in Seq(Samples)
      BY DEF DeviceInv
    <3>2. Len(wire'[h]) \in Nat /\ Len(wire'[h]) <= base_value'[h]
      BY <3>1, LenProperties DEF DeviceInv
    <3> QED
      BY <3>1, <3>2 DEF Taken
  <2> QED
    BY <2>1, TakenTypes
<1>4. ASSUME NEW k \in Places(c)
      PROVE  Number(At(c, k)) < Taken(from[k])'
  <2>1. from[k] \in Host /\ Number(At(c, k)) \in Nat /\ Number(At(c, k)) < Taken(from[k])
    BY <1>1 DEF Assigns, DevicesOf
  <2> QED
    BY <1>3, <2>1
<1>5. Assigns(from, c)'
  BY <1>1, <1>2, <1>4 DEF Assigns
<1> QED
  BY <1>1, <1>2, <1>5

\* Connecting, sending the next sample while there is room, and closing.
LEMMA DeviceStep ==
    ASSUME LatencyInv, NEW h \in Host, Device(h)
    PROVE  LatencyInv'
<1> USE DEF LatencyInv
<1>1. UNCHANGED <<engine, node>>
  BY DEF Device, Connect, SendSample, CloseDevice
<1>2. UNCHANGED <<engine_up, line, got>> /\ NodeInv'
  BY <1>1, NodeKept DEF engine
<1>3. AllMessages \in Nat /\ HWM \in Nat
  BY CountAssumption, LatencyAssumption
<1>4. CASE Connect(h) \/ CloseDevice(h)
  <2>1. /\ UNCHANGED <<sent, base_value, wire>>
        /\ \E to \in {"send", "failed", "done"} : dpc' = [dpc EXCEPT ![h] = to]
        /\ dpc'[h] = "send" => dpc[h] = "connect"
    BY <1>4 DEF Connect, CloseDevice, DeviceInv
  <2>2. DeviceInv'
    BY <2>1 DEF DeviceInv, Taken
  <2>3. \A i \in Host : Taken(i)' = Taken(i) /\ Taken(i) \in Nat
    BY <2>1, TakenTypes DEF Taken
  <2> QED
    BY <1>2, <2>2, <2>3, OrderKept
<1>5. CASE SendSample(h)
  <2> DEFINE w == wire[h]
             b == base_value[h]
  <2>1. /\ b \in Nat /\ w \in Seq(Samples) /\ Len(w) \in Nat /\ Taken(h) \in Nat
        /\ b = sent[h] /\ Taken(h) = b - Len(w)
    BY TakenTypes DEF DeviceInv, Taken
  <2>2. Sample(h) = SampleOf(h, b) /\ Sample(h) \in Samples
    BY <2>1, SampleIsSampleOf DEF Samples
  <2>3. /\ wire' = [wire EXCEPT ![h] = Append(w, SampleOf(h, b))]
        /\ base_value' = [base_value EXCEPT ![h] = b + 1]
        /\ sent' = [sent EXCEPT ![h] = b + 1]
        /\ Len(w) < HWM /\ dpc[h] = "send"
        /\ dpc' = [dpc EXCEPT ![h] = IF b + 1 < AllMessages THEN @ ELSE "close"]
    BY <1>5, <2>1, <2>2 DEF SendSample, Room, NextValue, DeviceInv
  <2>4. /\ wire'[h] \in Seq(Samples) /\ Len(wire'[h]) = Len(w) + 1
        /\ \A k \in 1 .. Len(w) : wire'[h][k] = w[k]
        /\ wire'[h][Len(w) + 1] = SampleOf(h, b)
    BY <2>1, <2>2, <2>3, AppendProperties DEF DeviceInv
  <2>5. /\ Taken(h)' = Taken(h) /\ base_value'[h] = b + 1 /\ sent'[h] = b + 1
        /\ \A i \in Host \ {h} :
              /\ wire'[i] = wire[i] /\ base_value'[i] = base_value[i]
              /\ sent'[i] = sent[i] /\ dpc'[i] = dpc[i] /\ Taken(i)' = Taken(i)
    BY <2>1, <2>3, <2>4 DEF DeviceInv, Taken
  <2>6. /\ dpc' \in [Host -> {"connect", "send", "close", "done", "failed"}]
        /\ sent' \in [Host -> Nat] /\ base_value' = sent'
    BY <2>1, <2>3 DEF DeviceInv
  <2>7. wire' \in [Host -> Seq(Samples)]
    BY <2>3, <2>4 DEF DeviceInv
  <2>8. /\ sent'[h] <= AllMessages
        /\ dpc'[h] \in {"connect", "send"} => sent'[h] < AllMessages
        /\ Len(wire'[h]) <= HWM /\ Len(wire'[h]) <= base_value'[h]
    BY <1>3, <2>1, <2>3, <2>4, <2>5 DEF DeviceInv
  <2>9. ASSUME NEW k \in 1 .. Len(w) + 1
        PROVE  wire'[h][k] = SampleOf(h, Taken(h) + k - 1)
    <3>1. CASE k \in 1 .. Len(w)
      BY <2>4, <3>1 DEF DeviceInv
    <3>2. CASE k = Len(w) + 1
      BY <2>1, <2>4, <3>2
    <3> QED
      BY <2>1, <3>1, <3>2
  <2>10. ASSUME NEW i \in Host
         PROVE  /\ sent'[i] <= AllMessages
                /\ dpc'[i] \in {"connect", "send"} => sent'[i] < AllMessages
                /\ Len(wire'[i]) <= HWM /\ Len(wire'[i]) <= base_value'[i]
                /\ \A k \in 1 .. Len(wire'[i]) :
                      wire'[i][k] = SampleOf(i, Taken(i)' + k - 1)
    <3>1. CASE i = h
      BY <2>4, <2>5, <2>8, <2>9, <3>1
    <3>2. CASE i # h
      BY <2>5, <3>2 DEF DeviceInv
    <3> QED
      BY <3>1, <3>2
  <2>11. DeviceInv'
    BY <2>6, <2>7, <2>10 DEF DeviceInv
  <2>12. \A i \in Host : Taken(i) <= Taken(i)'
    BY <2>5, TakenTypes
  <2> QED
    BY <1>2, <2>11, <2>12, OrderKept
<1> QED
  BY <1>4, <1>5 DEF Device

\* What the engine takes off a connection is the device's next sample, and
\* goes down the channel of its twin as it came.
LEMMA EngineTakeStep ==
    ASSUME LatencyInv, NEW h \in Host, EngineTake(h)
    PROVE  LatencyInv'
<1> USE DEF LatencyInv
<1> DEFINE w == wire[h]
<1>0. PICK n \in Nat : n = Taken(h)
  BY TakenTypes
<1>c. PICK c \in Nat : c = TwinId(h)
  BY TwinIds
<1>1. /\ w \in Seq(Samples) /\ Len(w) \in Nat /\ n \in Nat /\ base_value[h] \in Nat
      /\ n = base_value[h] - Len(w) /\ w # << >>
  BY <1>0, TakenTypes DEF EngineTake, Taken
<1>2. /\ Len(w) > 0 /\ Head(w) = SampleOf(h, n)
      /\ Tail(w) \in Seq(Samples) /\ Len(Tail(w)) = Len(w) - 1
      /\ \A k \in 1 .. Len(w) - 1 : Tail(w)[k] = SampleOf(h, n + k)
  <2>1. /\ Len(w) > 0 /\ Head(w) = w[1]
        /\ Tail(w) \in Seq(Samples) /\ Len(Tail(w)) = Len(w) - 1
        /\ \A k \in 1 .. Len(w) - 1 : Tail(w)[k] = w[k + 1]
    BY <1>1, HeadTailProperties, EmptySeq
  <2>2. \A k \in 1 .. Len(w) : w[k] = SampleOf(h, n + k - 1)
    BY <1>0 DEF DeviceInv
  <2>3. w[1] = SampleOf(h, n)
    BY <1>1, <2>1, <2>2
  <2>4. ASSUME NEW k \in 1 .. Len(w) - 1 PROVE Tail(w)[k] = SampleOf(h, n + k)
    <3>1. k + 1 \in 1 .. Len(w) /\ n + (k + 1) - 1 = n + k
      BY <1>1
    <3> QED
      BY <2>1, <2>2, <3>1
  <2> QED
    BY <2>1, <2>3, <2>4
<1>3. /\ wire' = [wire EXCEPT ![h] = Tail(w)]
      /\ UNCHANGED <<device, engine_up, node>>
      /\ \/ c \in Notified /\ Relay!Send(c, SampleOf(h, n))
         \/ c \notin Notified /\ UNCHANGED <<line, got>>
  BY <1>c, <1>1, <1>2, SampleFacts DEF EngineTake
<1>4. /\ Taken(h)' = n + 1
      /\ \A i \in Host \ {h} : wire'[i] = wire[i] /\ Taken(i)' = Taken(i)
  BY <1>1, <1>2, <1>3 DEF DeviceInv, Taken, device
<1>5. DeviceInv'
  <2>1. wire'[h] = Tail(w) /\ wire' \in [Host -> Seq(Samples)]
    BY <1>2, <1>3 DEF DeviceInv
  <2>2. HWM \in Nat /\ Len(Tail(w)) <= HWM /\ Len(Tail(w)) <= base_value[h]
    BY <1>1, <1>2, LatencyAssumption DEF DeviceInv
  <2>3. \A k \in 1 .. Len(Tail(w)) : Tail(w)[k] = SampleOf(h, (n + 1) + k - 1)
    <3>1. \A k \in 1 .. Len(w) - 1 : n + k = (n + 1) + k - 1
      BY <1>1
    <3> QED
      BY <1>2, <3>1
  <2>4. ASSUME NEW i \in Host
        PROVE  /\ sent'[i] <= AllMessages
               /\ dpc'[i] \in {"connect", "send"} => sent'[i] < AllMessages
               /\ Len(wire'[i]) <= HWM /\ Len(wire'[i]) <= base_value'[i]
               /\ \A k \in 1 .. Len(wire'[i]) :
                     wire'[i][k] = SampleOf(i, Taken(i)' + k - 1)
    <3>1. CASE i = h
      BY <1>3, <1>4, <2>1, <2>2, <2>3, <3>1 DEF DeviceInv, device
    <3>2. CASE i # h
      BY <1>3, <1>4, <3>2 DEF DeviceInv, device
    <3> QED
      BY <3>1, <3>2
  <2> QED
    BY <1>3, <2>1, <2>4 DEF DeviceInv, device
<1>6. \A i \in Host : Taken(i) \in Nat /\ Taken(i) <= Taken(i)'
  BY <1>0, <1>4, TakenTypes
<1>7. CASE UNCHANGED <<line, got>>
  BY <1>3, <1>5, <1>6, <1>7, NodeKept, OrderKept
<1>8. CASE c \in Notified /\ Relay!Send(c, SampleOf(h, n))
  <2>1. c \in Node /\ h \in DevicesOf(c)
    BY <1>c, <1>8 DEF Node, DevicesOf
  <2>2. /\ line' = [line EXCEPT ![c] = Append(line[c], SampleOf(h, n))]
        /\ got' = got
    BY <1>8 DEF Relay!Send
  <2>3. /\ line[c] \in Seq(Samples) /\ got[c] \in Seq(Samples)
        /\ Len(line[c]) \in Nat /\ Len(got[c]) \in Nat /\ SampleOf(h, n) \in Samples
    <3>1. line[c] \in Seq(Samples) /\ got[c] \in Seq(Samples)
      BY <2>1 DEF NodeInv
    <3>2. SampleOf(h, n) \in Samples
      BY DEF Samples
    <3> QED
      BY <3>1, <3>2, LenProperties
  <2>0. PICK g \in Nat, l \in Nat : g = Len(got[c]) /\ l = Len(line[c])
    BY <2>3
  <2>p. PICK p \in Nat : p = g + l + 1
    OBVIOUS
  <2>4. /\ line'[c] \in Seq(Samples) /\ Len(line'[c]) = Len(line[c]) + 1
        /\ \A k \in 1 .. Len(line[c]) : line'[c][k] = line[c][k]
        /\ line'[c][Len(line[c]) + 1] = SampleOf(h, n)
        /\ \A d \in Node \ {c} : line'[d] = line[d]
    BY <2>1, <2>2, <2>3, AppendProperties DEF NodeInv
  <2>5. line' \in [Node -> Seq(Samples)]
    BY <2>1, <2>2, <2>4 DEF NodeInv
  <2>6. NodeInv'
    BY <1>3, <2>2, <2>5 DEF NodeInv, Entries, Rows, node
  <2>7. OrderInv'
    <3> SUFFICES ASSUME NEW d \in Node
                 PROVE  \E from \in [Places(d)' -> DevicesOf(d)] : Assigns(from, d)'
      BY DEF OrderInv
    <3>1. PICK from \in [Places(d) -> DevicesOf(d)] : Assigns(from, d)
      BY DEF OrderInv
    <3>2. \A k \in Places(d) : /\ from[k] \in Host /\ Number(At(d, k)) \in Nat
                                /\ Number(At(d, k)) < Taken(from[k])'
      <4>1. \A i \in Host : Taken(i)' \in Nat
        BY <1>1, <1>4, TakenTypes
      <4> QED
        BY <1>6, <3>1, <4>1 DEF Assigns, DevicesOf
    <3>3. CASE d # c
      <4>1. Places(d)' = Places(d) /\ \A k : At(d, k)' = At(d, k)
        BY <2>2, <2>4, <3>3 DEF Places, At
      <4>2. Assigns(from, d)'
        BY <3>1, <3>2, <4>1 DEF Assigns
      <4> QED
        BY <3>1, <4>1, <4>2
    <3>4. CASE d = c
      <4>1. /\ Places(c)' = 1 .. p /\ Places(c) = 1 .. p - 1 /\ p \in Nat
            /\ \A k \in Places(c)' : k \in Places(c) \/ k = p
            /\ \A k \in Places(c) : k # p /\ k \in Places(c)'
        <5>1. Len(line'[c]) = l + 1 /\ Len(got'[c]) = g
          BY <2>0, <2>2, <2>4
        <5>2. Places(c)' = 1 .. g + (l + 1) /\ Places(c) = 1 .. g + l
          BY <2>0, <5>1 DEF Places
        <5> QED
          BY <2>p, <5>2
      <4>2. At(c, p)' = SampleOf(h, n) /\ \A k \in Places(c) : At(c, k)' = At(c, k)
        <5>1. At(c, p)' = line'[c][p - g] /\ p - g = l + 1
          <6>1. p - g = l + 1 /\ ~(p <= g)
            BY <2>p
          <6>2. Len(got'[c]) = g
            BY <2>0, <2>2
          <6> QED
            BY <6>1, <6>2 DEF At
        <5>2. ASSUME NEW k \in 1 .. p - 1, ~(k <= g) PROVE k - g \in 1 .. l
          BY <2>p, <5>2
        <5>3. ASSUME NEW k \in 1 .. p - 1 PROVE At(c, k)' = At(c, k)
          <6>1. CASE k <= g
            BY <2>0, <2>2, <6>1 DEF At
          <6>2. CASE ~(k <= g)
            BY <2>0, <2>2, <2>4, <5>2, <6>2 DEF At
          <6> QED
            BY <6>1, <6>2
        <5> QED
          BY <2>0, <2>4, <4>1, <5>1, <5>3
      <4>3. Number(SampleOf(h, n)) = n
        BY <1>1, SampleFacts
      <4>4. PICK new \in [1 .. p -> DevicesOf(c)] :
                   new = [k \in 1 .. p |-> IF k = p THEN h ELSE from[k]]
        BY <2>1, <3>1, <3>4, <4>1
      <4>5. new[p] = h /\ \A k \in Places(c) : new[k] = from[k]
        <5>1. p \in 1 .. p
          BY <2>p
        <5>2. \A k \in Places(c) : k \in 1 .. p /\ k # p
          BY <4>1
        <5> QED
          BY <4>4, <5>1, <5>2
      <4>6. ASSUME NEW k \in Places(c)'
            PROVE  /\ Number(At(c, k)') \in Nat /\ Number(At(c, k)') < Taken(new[k])'
                   /\ At(c, k)' = SampleOf(new[k], Number(At(c, k)'))
        <5>1. CASE k = p
          BY <1>1, <1>4, <4>2, <4>3, <4>5, <5>1
        <5>2. CASE k \in Places(c)
          BY <3>1, <3>2, <3>4, <4>2, <4>5, <5>2 DEF Assigns
        <5> QED
          BY <4>1, <5>1, <5>2
      <4>7. ASSUME NEW j \in Places(c)', NEW k \in Places(c)', j < k, new[j] = new[k]
            PROVE  Number(At(c, j)') < Number(At(c, k)')
        <5>1. j \in Places(c)
          BY <4>1, <4>7
        <5>2. CASE k = p
          <6>1. Number(At(c, j)) < Taken(h)
            BY <3>1, <3>4, <4>5, <4>7, <5>1, <5>2 DEF Assigns
          <6> QED
            BY <1>0, <4>2, <4>3, <5>1, <5>2, <6>1
        <5>3. CASE k \in Places(c)
          BY <3>1, <3>4, <4>2, <4>5, <4>7, <5>1, <5>3 DEF Assigns
        <5> QED
          BY <4>1, <5>2, <5>3
      <4>8. Assigns(new, c)'
        BY <4>1, <4>4, <4>6, <4>7 DEF Assigns
      <4> QED
        BY <3>4, <4>1, <4>4, <4>8
    <3> QED
      BY <3>3, <3>4
  <2> QED
    BY <1>3, <1>5, <2>6, <2>7
<1> QED
  BY <1>3, <1>7, <1>8

\* A message less on a channel leaves the others in order.
LEMMA EngineLosesStep ==
    ASSUME LatencyInv, NEW c \in Node, EngineLoses(c)
    PROVE  LatencyInv'
<1> USE DEF LatencyInv
<1>1. UNCHANGED <<device, wire, engine_up, node, got>>
  BY DEF EngineLoses, Relay!Lose
<1>2. line[c] \in Seq(Samples) /\ got[c] \in Seq(Samples)
  BY DEF NodeInv
<1>3. PICK g \in Nat, l \in Nat : g = Len(got[c]) /\ l = Len(line[c])
  BY <1>2, LenProperties
<1>4. PICK i \in 1 .. l : line' = [line EXCEPT ![c] = RemoveAt(@, i)]
  <2>1. DOMAIN line[c] = 1 .. l
    BY <1>2, <1>3, LenProperties
  <2>2. PICK k \in DOMAIN line[c] : Relay!Lose(c, k)
    BY DEF EngineLoses
  <2>3. line' = [line EXCEPT ![c] = RemoveAt(@, k)]
    BY <2>2 DEF Relay!Lose, Relay!RemoveAt, RemoveAt
  <2>4. k \in 1 .. l
    BY <2>1
  <2> WITNESS k \in 1 .. l
  <2> QED
    BY <2>3
<1>5. /\ line'[c] \in Seq(Samples) /\ Len(line'[c]) = l - 1
      /\ \A j \in 1 .. l - 1 : line'[c][j] = line[c][IF j < i THEN j ELSE j + 1]
      /\ \A d \in Node \ {c} : line'[d] = line[d]
  <2>1. line'[c] = RemoveAt(line[c], i) /\ \A d \in Node \ {c} : line'[d] = line[d]
    BY <1>4 DEF NodeInv
  <2>2. PICK s \in Seq(Samples) : s = line[c]
    BY <1>2, <1>3
  <2>3. i \in 1 .. Len(s)
    BY <1>2, <1>3, <2>2
  <2>4. PICK r : r = RemoveAt(s, i)
    OBVIOUS
  <2>5. /\ r \in Seq(Samples) /\ Len(r) = Len(s) - 1
        /\ \A j \in 1 .. Len(s) - 1 : r[j] = s[IF j < i THEN j ELSE j + 1]
    BY <2>3, <2>4, RemoveAtProperties
  <2> QED
    BY <1>2, <1>3, <2>1, <2>2, <2>4, <2>5
<1>6. line' \in [Node -> Seq(Samples)]
  BY <1>4, <1>5 DEF NodeInv
<1>7. NodeInv'
  BY <1>1, <1>6 DEF NodeInv, Entries, Rows, node
<1>8. DeviceInv' /\ \A h \in Host : Taken(h)' = Taken(h)
  BY <1>1, DeviceKept DEF Taken, device
<1>9. OrderInv'
  <2> SUFFICES ASSUME NEW d \in Node
               PROVE  \E from \in [Places(d)' -> DevicesOf(d)] : Assigns(from, d)'
    BY DEF OrderInv
  <2>1. PICK from \in [Places(d) -> DevicesOf(d)] : Assigns(from, d)
    BY DEF OrderInv
  <2>2. \A k \in Places(d) : from[k] \in Host
    BY <2>1 DEF DevicesOf
  <2>3. CASE d # c
    <3>1. Places(d)' = Places(d) /\ \A k : At(d, k)' = At(d, k)
      BY <1>1, <1>5, <2>3 DEF Places, At
    <3>2. Assigns(from, d)'
      BY <1>8, <2>1, <2>2, <3>1 DEF Assigns
    <3> QED
      BY <2>1, <3>1, <3>2
  <2>4. CASE d = c
    <3> DEFINE old(k) == IF k < g + i THEN k ELSE k + 1
    <3>1. Places(c) = 1 .. g + l /\ Places(c)' = 1 .. g + (l - 1)
      BY <1>1, <1>3, <1>5 DEF Places
    <3>2. ASSUME NEW k \in 1 .. g + (l - 1)
          PROVE  old(k) \in 1 .. g + l /\ At(c, k)' = At(c, old(k))
      <4>1. old(k) \in 1 .. g + l /\ l >= 1 /\ i >= 1
        OBVIOUS
      <4>2. CASE k <= g
        <5>1. old(k) = k
          BY <4>2
        <5> QED
          BY <1>1, <1>3, <4>1, <4>2, <5>1 DEF At
      <4>3. CASE ~(k <= g)
        <5>1. /\ k - g \in 1 .. l - 1 /\ ~(old(k) <= g)
              /\ (IF k - g < i THEN k - g ELSE (k - g) + 1) = old(k) - g
          BY <4>3
        <5>2. At(c, k)' = line'[c][k - g]
          BY <1>1, <1>3, <4>3 DEF At
        <5>3. line'[c][k - g] = line[c][old(k) - g]
          BY <1>5, <5>1
        <5>4. At(c, old(k)) = line[c][old(k) - g]
          BY <1>3, <5>1 DEF At
        <5> QED
          BY <4>1, <5>2, <5>3, <5>4
      <4> QED
        BY <4>2, <4>3
    <3>3. ASSUME NEW j \in 1 .. g + (l - 1), NEW k \in 1 .. g + (l - 1), j < k
          PROVE  old(j) < old(k)
      BY <3>3
    <3>4. PICK new \in [1 .. g + (l - 1) -> DevicesOf(c)] :
                 \A k \in 1 .. g + (l - 1) : new[k] = from[old(k)]
      <4> DEFINE f == [k \in 1 .. g + (l - 1) |-> from[old(k)]]
      <4>1. f \in [1 .. g + (l - 1) -> DevicesOf(c)]
        BY <2>1, <2>4, <3>1, <3>2
      <4>2. \A k \in 1 .. g + (l - 1) : f[k] = from[old(k)]
        OBVIOUS
      <4> QED
        BY <4>1, <4>2
    <3> HIDE DEF old
    <3>5. ASSUME NEW k \in 1 .. g + (l - 1)
          PROVE  /\ Number(At(c, k)') \in Nat /\ Number(At(c, k)') < Taken(new[k])'
                 /\ At(c, k)' = SampleOf(new[k], Number(At(c, k)'))
      <4>1. /\ Number(At(c, old(k))) \in Nat /\ from[old(k)] \in Host
            /\ Number(At(c, old(k))) < Taken(from[old(k)])
            /\ At(c, old(k)) = SampleOf(from[old(k)], Number(At(c, old(k))))
        BY <2>1, <2>2, <2>4, <3>1, <3>2 DEF Assigns
      <4> QED
        BY <1>8, <3>2, <3>4, <4>1
    <3>6. ASSUME NEW j \in 1 .. g + (l - 1), NEW k \in 1 .. g + (l - 1),
                 j < k, new[j] = new[k]
          PROVE  Number(At(c, j)') < Number(At(c, k)')
      <4>1. old(j) \in Places(c) /\ old(k) \in Places(c) /\ old(j) < old(k)
        BY <3>1, <3>2, <3>3, <3>6
      <4>2. Number(At(c, old(j))) < Number(At(c, old(k)))
        BY <2>1, <2>4, <3>4, <3>6, <4>1 DEF Assigns
      <4> QED
        BY <3>2, <4>2
    <3>7. Assigns(new, c)'
      BY <3>1, <3>4, <3>5, <3>6 DEF Assigns
    <3> QED
      BY <2>4, <3>1, <3>4, <3>7
  <2> QED
    BY <2>3, <2>4
<1> QED
  BY <1>1, <1>7, <1>8, <1>9

\* Stopping cuts the connections at their heads.
LEMMA EngineStopsStep ==
    ASSUME LatencyInv, EngineStops
    PROVE  LatencyInv'
<1> USE DEF LatencyInv
<1>1. UNCHANGED <<device, line, got, node>> /\ engine_up' = FALSE
  BY DEF EngineStops
<1>2. PICK cut \in [Host -> 0 .. HWM] :
         /\ \A h \in Host : cut[h] <= Len(wire[h])
         /\ wire' = [h \in Host |-> SubSeq(wire[h], cut[h] + 1, Len(wire[h]))]
  BY DEF EngineStops
<1>3. ASSUME NEW h \in Host
      PROVE  /\ wire'[h] \in Seq(Samples)
             /\ Len(wire'[h]) <= HWM /\ Len(wire'[h]) <= base_value[h]
             /\ Taken(h) <= Taken(h)'
             /\ \A k \in 1 .. Len(wire'[h]) :
                   wire'[h][k] = SampleOf(h, Taken(h)' + k - 1)
  <2> DEFINE w == wire[h]
             x == cut[h]
  <2>1. /\ base_value[h] \in Nat /\ w \in Seq(Samples) /\ Len(w) \in Nat
        /\ Taken(h) \in Nat /\ Taken(h) = base_value[h] - Len(w)
        /\ Len(w) <= HWM /\ Len(w) <= base_value[h]
    BY TakenTypes DEF DeviceInv, Taken
  <2>2. HWM \in Nat /\ x \in Nat /\ x <= Len(w)
    BY <1>2, LatencyAssumption
  <2>3. wire'[h] = SubSeq(w, x + 1, Len(w))
    BY <1>2
  <2>4. /\ wire'[h] \in Seq(Samples) /\ Len(wire'[h]) = Len(w) - x
        /\ \A k \in 1 .. Len(w) - x : wire'[h][k] = w[x + k]
    <3>1. \A k \in x + 1 .. Len(w) : w[k] \in Samples
      BY <2>1, <2>2, ElementOfSeq
    <3>2. /\ wire'[h] \in Seq(Samples)
          /\ Len(wire'[h]) = IF x + 1 <= Len(w) THEN Len(w) - (x + 1) + 1 ELSE 0
          /\ \A k \in 1 .. Len(w) - (x + 1) + 1 : wire'[h][k] = w[(x + 1) + k - 1]
      <4>1. PICK v \in Seq(Samples), m \in Int, n \in Int :
               v = w /\ m = x + 1 /\ n = Len(w)
        BY <2>1, <2>2
      <4>2. \A k \in m .. n : v[k] \in Samples
        BY <3>1, <4>1
      <4>3. PICK u : u = SubSeq(v, m, n)
        OBVIOUS
      <4>4. /\ u \in Seq(Samples) /\ Len(u) = IF m <= n THEN n - m + 1 ELSE 0
            /\ \A k \in 1 .. n - m + 1 : u[k] = v[m + k - 1]
        BY <4>2, <4>3, SubSeqProperties
      <4>5. wire'[h] = u
        BY <2>3, <4>1, <4>3
      <4> QED
        BY <4>1, <4>4, <4>5
    <3>3. \A k \in Nat : (x + 1) + k - 1 = x + k
      BY <2>2
    <3>4. Len(w) - (x + 1) + 1 = Len(w) - x
      BY <2>1, <2>2, SMTT(30)
    <3>5. (IF x + 1 <= Len(w) THEN Len(w) - (x + 1) + 1 ELSE 0) = Len(w) - x
      BY <2>1, <2>2
    <3>6. ASSUME NEW k \in 1 .. Len(w) - x PROVE wire'[h][k] = w[x + k]
      <4>1. k \in Nat /\ k \in 1 .. Len(w) - (x + 1) + 1
        BY <2>1, <2>2
      <4>2. wire'[h][k] = w[(x + 1) + k - 1]
        BY <3>2, <4>1
      <4> QED
        BY <3>3, <4>1, <4>2
    <3> QED
      BY <3>2, <3>5, <3>6
  <2>5. Taken(h)' = Taken(h) + x
    BY <1>1, <2>1, <2>2, <2>4 DEF Taken, device
  <2>6. ASSUME NEW k \in 1 .. Len(w) - x
        PROVE  wire'[h][k] = SampleOf(h, Taken(h)' + k - 1)
    <3>1. x + k \in 1 .. Len(w) /\ Taken(h) + (x + k) - 1 = Taken(h)' + k - 1
      <4>1. PICK t \in Nat, y \in Nat, n \in Nat :
               t = Taken(h) /\ y = x /\ n = Len(w)
        BY <2>1, <2>2
      <4>2. k \in 1 .. n - y /\ Taken(h)' = t + y
        BY <2>5, <4>1
      <4>3. y + k \in 1 .. n /\ t + (y + k) - 1 = (t + y) + k - 1
        BY <4>2
      <4> QED
        BY <4>1, <4>2, <4>3
    <3>2. w[x + k] = SampleOf(h, Taken(h) + (x + k) - 1)
      BY <3>1 DEF DeviceInv
    <3> QED
      BY <2>4, <3>1, <3>2
  <2> QED
    BY <2>1, <2>2, <2>4, <2>5, <2>6
<1>4. wire' \in [Host -> Seq(Samples)]
  BY <1>2, <1>3
<1>5. DeviceInv'
  BY <1>1, <1>3, <1>4 DEF DeviceInv, device
<1>6. OrderInv'
  BY <1>1, <1>3, <1>5, OrderKept
<1> QED
  BY <1>1, <1>5, <1>6, NodeKept

\* A node logs the next message while there is room, and never takes a sample
\* for something that is no event.
LEMMA RecvStep ==
    ASSUME LatencyInv, NEW c \in Node, Recv(c)
    PROVE  LatencyInv'
<1> USE DEF LatencyInv
<1> DEFINE m == Head(line[c])
<1>1. UNCHANGED <<device, wire, engine_up, bound, running, csv>>
  BY DEF Recv
<1>2. line[c] \in Seq(Samples) /\ got[c] \in Seq(Samples) /\ line[c] # << >>
  BY DEF NodeInv, Recv, Relay!Deliver
<1>3. PICK g \in Nat, l \in Nat : g = Len(got[c]) /\ l = Len(line[c])
  BY <1>2, LenProperties
<1>4. /\ m \in Samples /\ m = line[c][1] /\ l > 0
      /\ Tail(line[c]) \in Seq(Samples) /\ Len(Tail(line[c])) = l - 1
      /\ \A k \in 1 .. l - 1 : Tail(line[c])[k] = line[c][k + 1]
  BY <1>2, <1>3, HeadTailProperties, EmptySeq
<1>5. ~NotEnough(m)
  <2>1. PICK h \in Host, n \in Nat : m = SampleOf(h, n)
    BY <1>4 DEF Samples
  <2>2. ~NotEnough(SampleOf(h, n))
    BY SampleFacts
  <2> QED
    BY <2>1, <2>2
<1>6. /\ got' = [got EXCEPT ![c] = Append(got[c], m)]
      /\ line' = [line EXCEPT ![c] = Tail(line[c])]
  BY DEF Recv, Relay!Deliver
<1> HIDE DEF m
<1>7. /\ got'[c] \in Seq(Samples) /\ Len(got'[c]) = g + 1
      /\ \A k \in 1 .. g : got'[c][k] = got[c][k]
      /\ got'[c][g + 1] = m
      /\ line'[c] = Tail(line[c])
      /\ \A d \in Node \ {c} : got'[d] = got[d] /\ line'[d] = line[d]
  BY <1>2, <1>3, <1>4, <1>6, AppendProperties DEF NodeInv
<1>8. got' \in [Node -> Seq(Samples)] /\ line' \in [Node -> Seq(Samples)]
  BY <1>4, <1>6, <1>7 DEF NodeInv
<1>9. /\ total_received' = [total_received EXCEPT ![c] = g + 1]
      /\ total_received'[c] = g + 1
      /\ npc[c] = "recv" /\ npc' = [npc EXCEPT ![c] = Again(c)]
      /\ history_log' = IF g + 1 <= MAX_MSGS
                        THEN [history_log EXCEPT ![c] = Append(@, mensaje_t(m))]
                        ELSE history_log
  <2>1. /\ total_received' = [total_received EXCEPT ![c] = g + 1]
        /\ total_received'[c] = g + 1
    BY <1>3 DEF Recv, Counted, NodeInv
  <2>2. /\ npc[c] = "recv" /\ npc' = [npc EXCEPT ![c] = Again(c)]
        /\ history_log' = IF Logged(total_received'[c])
                          THEN [history_log EXCEPT ![c] = Append(@, mensaje_t(m))]
                          ELSE history_log
    BY <1>5 DEF Recv, m
  <2> QED
    BY <2>1, <2>2 DEF Logged
<1>10. total_received' = [d \in Node |-> Len(got'[d])]
  BY <1>7, <1>9 DEF NodeInv
<1>11. history_log' = [d \in Node |-> [k \in 1 .. Entries(d)' |-> mensaje_t(got'[d][k])]]
  <2> DEFINE log(d) == [k \in 1 .. Entries(d) |-> mensaje_t(got[d][k])]
             log2(d) == [k \in 1 .. Entries(d)' |-> mensaje_t(got'[d][k])]
  <2>1. MAX_MSGS \in Nat
    BY LatencyAssumption
  <2>2. ASSUME NEW d \in Node, d # c PROVE log2(d) = log(d)
    <3>1. got'[d] = got[d]
      BY <1>7, <2>2
    <3> QED
      BY <3>1 DEF Entries
  <2>3. CASE g + 1 <= MAX_MSGS
    <3>1. Entries(c) = g /\ Entries(c)' = g + 1
      BY <1>3, <1>7, <2>1, <2>3 DEF Entries
    <3> DEFINE R == {mensaje_t(x) : x \in Samples}
    <3>2. log(c) \in [1 .. g -> R] /\ mensaje_t(m) \in R
      <4>1. \A k \in 1 .. g : got[c][k] \in Samples
        BY <1>2, <1>3, ElementOfSeq
      <4> QED
        BY <1>4, <3>1, <4>1
    <3> HIDE DEF R
    <3>3. Append(log(c), mensaje_t(m)) =
             [k \in 1 .. g + 1 |-> IF k = g + 1 THEN mensaje_t(m) ELSE log(c)[k]]
      <4> HIDE DEF log
      <4> QED
        BY <3>2, AppendIsFunction
    <3>4. ASSUME NEW k \in 1 .. g + 1
          PROVE  (IF k = g + 1 THEN mensaje_t(m) ELSE log(c)[k]) = mensaje_t(got'[c][k])
      <4>1. CASE k = g + 1
        BY <1>7, <4>1
      <4>2. CASE k \in 1 .. g
        BY <1>7, <3>1, <4>2
      <4> QED
        BY <4>1, <4>2
    <3>8. Append(log(c), mensaje_t(m)) = log2(c)
      BY <3>1, <3>3, <3>4
    <3>9. history_log = [d \in Node |-> log(d)]
      BY DEF NodeInv
    <3> HIDE DEF log, log2
    <3>10. history_log' = [d \in Node |-> IF d = c THEN log2(c) ELSE log(d)]
      BY <1>9, <2>3, <3>8, <3>9
    <3>11. history_log' = [d \in Node |-> log2(d)]
      BY <2>2, <3>10
    <3> QED
      BY <3>11 DEF log2
  <2>4. CASE ~(g + 1 <= MAX_MSGS)
    <3>1. Entries(c) = MAX_MSGS /\ Entries(c)' = MAX_MSGS /\ MAX_MSGS <= g
      BY <1>3, <1>7, <2>1, <2>4 DEF Entries
    <3>2. log2(c) = log(c)
      BY <1>7, <2>1, <3>1
    <3>3. history_log = [d \in Node |-> log(d)] /\ history_log' = history_log
      BY <1>9, <2>4 DEF NodeInv
    <3> HIDE DEF log, log2
    <3>4. history_log' = [d \in Node |-> log2(d)]
      BY <2>2, <3>2, <3>3
    <3> QED
      BY <3>4 DEF log2
  <2> QED
    BY <2>3, <2>4
<1>12. NodeInv'
  <2>1. npc' \in [Node -> {"bind", "recv", "save", "ended", "crashed"}]
    BY <1>9 DEF NodeInv, Again
  <2>2. ASSUME NEW d \in Node
        PROVE  csv'[d] = << >> \/ (npc'[d] = "ended" /\ csv'[d] = <<Rows(d)'>>)
    <3>1. CASE d = c
      BY <1>1, <1>9, <3>1 DEF NodeInv
    <3>2. CASE d # c
      <4>1. got'[d] = got[d] /\ npc'[d] = npc[d] /\ csv'[d] = csv[d]
        BY <1>1, <1>7, <1>9, <3>2 DEF NodeInv
      <4>2. Rows(d)' = Rows(d)
        BY <4>1 DEF Rows
      <4> QED
        BY <4>1, <4>2 DEF NodeInv
    <3> QED
      BY <3>1, <3>2
  <2>3. DOMAIN csv' = Node /\ bound' \in [Node -> BOOLEAN] /\ running' \in [Node -> BOOLEAN]
    BY <1>1 DEF NodeInv
  <2>4. ASSUME NEW d \in Node, npc'[d] = "crashed" PROVE Len(got'[d]) > LOG_SIZE
    <3>1. d # c
      BY <1>9, <2>4 DEF NodeInv, Again
    <3>2. got'[d] = got[d] /\ npc'[d] = npc[d]
      BY <1>7, <1>9, <3>1 DEF NodeInv
    <3> QED
      BY <2>4, <3>2 DEF NodeInv
  <2> QED
    BY <1>8, <1>10, <1>11, <2>1, <2>2, <2>3, <2>4 DEF NodeInv
<1>13. DeviceInv' /\ \A h \in Host : Taken(h)' = Taken(h)
  BY <1>1, DeviceKept DEF Taken, device
<1>14. OrderInv'
  <2> SUFFICES ASSUME NEW d \in Node
               PROVE  \E from \in [Places(d)' -> DevicesOf(d)] : Assigns(from, d)'
    BY DEF OrderInv
  <2>1. PICK from \in [Places(d) -> DevicesOf(d)] : Assigns(from, d)
    BY DEF OrderInv
  <2>2. \A k \in Places(d) : from[k] \in Host
    BY <2>1 DEF DevicesOf
  <2>3. Places(d)' = Places(d) /\ \A k \in Places(d) : At(d, k)' = At(d, k)
    <3>1. CASE d # c
      BY <1>7, <3>1 DEF Places, At
    <3>2. CASE d = c
      <4>1. Places(c) = 1 .. g + l /\ Places(c)' = 1 .. (g + 1) + (l - 1)
        BY <1>3, <1>4, <1>7 DEF Places
      <4>2. (g + 1) + (l - 1) = g + l
        OBVIOUS
      <4>3. ASSUME NEW k \in 1 .. g + l PROVE At(c, k)' = At(c, k)
        <5>1. CASE k <= g
          BY <1>3, <1>7, <5>1 DEF At
        <5>2. CASE k = g + 1
          <6>1. k - g = 1 /\ ~(k <= g) /\ k <= g + 1
            BY <5>2
          <6> QED
            BY <1>3, <1>4, <1>7, <5>2, <6>1 DEF At
        <5>3. CASE k > g + 1
          <6>1. /\ ~(k <= g) /\ ~(k <= g + 1) /\ k - (g + 1) \in 1 .. l - 1
                /\ (k - (g + 1)) + 1 = k - g
            BY <5>3
          <6>2. Tail(line[c])[k - (g + 1)] = line[c][k - g]
            BY <1>4, <6>1
          <6> QED
            BY <1>3, <1>7, <6>1, <6>2 DEF At
        <5> QED
          BY <5>1, <5>2, <5>3
      <4> QED
        BY <3>2, <4>1, <4>2, <4>3
    <3> QED
      BY <3>1, <3>2
  <2>4. Assigns(from, d)'
    BY <1>13, <2>1, <2>2, <2>3 DEF Assigns
  <2> QED
    BY <2>1, <2>3, <2>4
<1> QED
  BY <1>1, <1>12, <1>13, <1>14

\* The file gets a row for every message; nothing else of the node changes.
LEMMA SaveCsvStep ==
    ASSUME LatencyInv, NEW c \in Node, SaveCsv(c)
    PROVE  NodeInv'
<1> USE DEF LatencyInv
<1>1. /\ UNCHANGED <<line, got, bound, running, total_received, history_log>>
      /\ npc[c] = "save"
  BY DEF SaveCsv, engine
<1>2. \A d \in Node : Rows(d)' = Rows(d) /\ Entries(d)' = Entries(d)
  BY <1>1 DEF Rows, Entries
<1>3. csv[c] = << >>
  BY <1>1 DEF NodeInv
<1>4. CASE npc' = [npc EXCEPT ![c] = "ended"] /\ UNCHANGED csv
  BY <1>1, <1>2, <1>3, <1>4 DEF NodeInv
<1>5. CASE /\ csv' = [csv EXCEPT ![c] = <<[k \in 1 .. RowCount(c) |-> Entry(c, k)]>>]
           /\ npc' = [npc EXCEPT ![c] = "ended"]
  <2> DEFINE rows == [k \in 1 .. RowCount(c) |-> Entry(c, k)]
  <2>1. csv' = [csv EXCEPT ![c] = <<rows>>]
    BY <1>5
  <2>2. /\ got[c] \in Seq(Samples) /\ Len(got[c]) \in Nat
        /\ MAX_MSGS \in Nat /\ LOG_SIZE \in Nat /\ MAX_MSGS <= LOG_SIZE
    BY LenProperties, LatencyAssumption DEF NodeInv
  <2>3. PICK g \in Nat : g = Len(got[c])
    BY <2>2
  <2>4. Entries(c) \in Nat /\ \A k \in 1 .. g : k <= MAX_MSGS <=> k <= Entries(c)
    BY <2>2, <2>3 DEF Entries
  <2>5. /\ total_received[c] = g
        /\ history_log[c] = [k \in 1 .. Entries(c) |-> mensaje_t(got[c][k])]
    BY <2>3 DEF NodeInv
  <2>6. Len(history_log[c]) = Entries(c)
    BY <2>4, <2>5
  <2>7. rows = Rows(c)
    <3>1. ASSUME NEW k \in 1 .. g
          PROVE  Entry(c, k) = IF k <= MAX_MSGS THEN mensaje_t(got[c][k])
                               ELSE IF k <= LOG_SIZE THEN NoMensaje ELSE Stray
      <4>1. CASE k <= MAX_MSGS
        <5>1. k <= Entries(c) /\ k \in 1 .. Entries(c)
          BY <2>4, <4>1
        <5>2. k \notin Entries(c) + 1 .. LOG_SIZE
          BY <2>4, <5>1
        <5> QED
          BY <2>5, <2>6, <4>1, <5>1, <5>2 DEF Entry
      <4>2. CASE ~(k <= MAX_MSGS)
        <5>1. ~(k <= Entries(c)) /\ (k \in Entries(c) + 1 .. LOG_SIZE <=> k <= LOG_SIZE)
          BY <2>2, <2>4, <4>2
        <5> QED
          BY <2>6, <4>2, <5>1 DEF Entry
      <4> QED
        BY <4>1, <4>2
    <3> QED
      BY <2>3, <2>5, <3>1 DEF Rows, RowCount
  <2> HIDE DEF rows
  <2>8. csv'[c] = <<Rows(c)'>> /\ npc'[c] = "ended"
    BY <1>2, <1>5, <2>1, <2>7 DEF NodeInv
  <2>9. /\ DOMAIN csv' = Node
        /\ \A d \in Node \ {c} : csv'[d] = csv[d] /\ npc'[d] = npc[d]
    BY <1>5, <2>1 DEF NodeInv
  <2>10. \A d \in Node :
            csv'[d] = << >> \/ (npc'[d] = "ended" /\ csv'[d] = <<Rows(d)'>>)
    BY <1>2, <2>8, <2>9 DEF NodeInv
  <2>11. npc' \in [Node -> {"bind", "recv", "save", "ended", "crashed"}]
    BY <1>5 DEF NodeInv
  <2>12. \A d \in Node : npc'[d] = "crashed" => Len(got'[d]) > LOG_SIZE
    BY <1>1, <2>8, <2>9 DEF NodeInv
  <2> QED
    BY <1>1, <1>2, <2>9, <2>10, <2>11, <2>12 DEF NodeInv
<1>6. CASE RowCount(c) > LOG_SIZE /\ npc' = [npc EXCEPT ![c] = "crashed"] /\ UNCHANGED csv
  <2>1. Len(got[c]) > LOG_SIZE
    BY <1>6 DEF RowCount, NodeInv
  <2>2. npc'[c] = "crashed" /\ \A d \in Node \ {c} : npc'[d] = npc[d]
    BY <1>6 DEF NodeInv
  <2>3. \A d \in Node :
           csv'[d] = << >> \/ (npc'[d] = "ended" /\ csv'[d] = <<Rows(d)'>>)
    BY <1>2, <1>3, <1>6, <2>2 DEF NodeInv
  <2>4. \A d \in Node : npc'[d] = "crashed" => Len(got'[d]) > LOG_SIZE
    BY <1>1, <2>1, <2>2 DEF NodeInv
  <2>5. npc' \in [Node -> {"bind", "recv", "save", "ended", "crashed"}]
    BY <1>6 DEF NodeInv
  <2> QED
    BY <1>1, <1>2, <1>6, <2>3, <2>4, <2>5 DEF NodeInv
<1> QED
  BY <1>4, <1>5, <1>6 DEF SaveCsv

LEMMA NodeStepKeeps ==
    ASSUME LatencyInv, NEW c \in Node, handle_sigint(c) \/ NodeStep(c)
    PROVE  LatencyInv'
<1> USE DEF LatencyInv
<1>1. CASE Recv(c)
  BY <1>1, RecvStep
<1>2. CASE handle_sigint(c) \/ Bind(c) \/ RecvTimeout(c) \/ SaveCsv(c)
  <2>1. UNCHANGED <<device, wire, engine>>
    BY <1>2 DEF handle_sigint, Bind, RecvTimeout, SaveCsv
  <2>2. UNCHANGED <<line, got, engine_up>>
    BY <2>1 DEF engine
  <2>3. DeviceInv' /\ \A h \in Host : Taken(h)' = Taken(h) /\ Taken(h) \in Nat
    BY <2>1, DeviceKept, TakenTypes DEF Taken, device
  <2>4. OrderInv'
    BY <2>2, <2>3, OrderKept
  <2>5. NodeInv'
    <3>1. CASE SaveCsv(c)
      BY <3>1, SaveCsvStep
    <3>2. CASE handle_sigint(c)
      <4>1. /\ UNCHANGED <<npc, bound, total_received, history_log, csv>>
            /\ running' = [running EXCEPT ![c] = FALSE]
        BY <3>2 DEF handle_sigint
      <4> QED
        BY <2>2, <4>1 DEF NodeInv, Entries, Rows
    <3>3. CASE Bind(c) \/ RecvTimeout(c)
      <4>1. /\ UNCHANGED <<running, total_received, history_log, csv>>
            /\ npc[c] \notin {"ended", "crashed"}
            /\ npc' = [npc EXCEPT ![c] = Again(c)]
            /\ Again(c) \in {"recv", "save"}
        BY <3>3 DEF Bind, RecvTimeout, Again
      <4>2. bound' \in [Node -> BOOLEAN]
        BY <3>3 DEF Bind, RecvTimeout, NodeInv
      <4>3. npc' \in [Node -> {"bind", "recv", "save", "ended", "crashed"}]
        BY <4>1 DEF NodeInv
      <4>4. ASSUME NEW d \in Node
            PROVE  csv'[d] = << >> \/ (npc'[d] = "ended" /\ csv'[d] = <<Rows(d)'>>)
        <5>1. Rows(d)' = Rows(d) /\ (d # c => npc'[d] = npc[d])
          BY <2>2, <4>1 DEF Rows, NodeInv
        <5> QED
          BY <4>1, <5>1 DEF NodeInv
      <4>5. \A d \in Node : npc'[d] = "crashed" => Len(got'[d]) > LOG_SIZE
        BY <2>2, <4>1 DEF NodeInv
      <4> QED
        BY <2>2, <4>1, <4>2, <4>3, <4>4, <4>5 DEF NodeInv, Entries
    <3> QED
      BY <1>2, <3>1, <3>2, <3>3
  <2> QED
    BY <2>2, <2>3, <2>4, <2>5
<1> QED
  BY <1>1, <1>2 DEF NodeStep

LEMMA LatencyStep == LatencyInv /\ [Next]_vars => LatencyInv'
<1> SUFFICES ASSUME LatencyInv, [Next]_vars PROVE LatencyInv'
  OBVIOUS
<1>1. ASSUME NEW h \in Host, Device(h) \/ EngineTake(h) PROVE LatencyInv'
  BY <1>1, DeviceStep, EngineTakeStep
<1>2. CASE EngineStops
  BY <1>2, EngineStopsStep
<1>3. ASSUME NEW c \in Node, EngineLoses(c) \/ handle_sigint(c) \/ NodeStep(c)
      PROVE  LatencyInv'
  BY <1>3, EngineLosesStep, NodeStepKeeps
<1>4. CASE UNCHANGED vars
  <2>1. /\ UNCHANGED <<device, wire, engine, node>>
        /\ UNCHANGED <<line, got, engine_up>>
    BY <1>4 DEF vars, engine
  <2>2. DeviceInv' /\ NodeInv'
    BY <2>1, DeviceKept, NodeKept DEF LatencyInv
  <2>3. \A h \in Host : Taken(h)' = Taken(h) /\ Taken(h) \in Nat
    BY <2>1, TakenTypes DEF Taken, device, LatencyInv
  <2>4. OrderInv'
    BY <2>1, <2>2, <2>3, OrderKept DEF LatencyInv
  <2> QED
    BY <2>1, <2>2, <2>4 DEF LatencyInv
<1> QED
  BY <1>1, <1>2, <1>3, <1>4 DEF Next

LEMMA LatencyAlways == Spec => []LatencyInv
  BY InitLatency, LatencyStep, PTL DEF Spec

-------------------------------------------------------------------------------
(* The properties                                                          *)

LEMMA LatencyImpliesTypes == LatencyInv => TypeOK
<1> SUFFICES ASSUME LatencyInv PROVE TypeOK
  OBVIOUS
<1> USE DEF LatencyInv
<1>1. \A h \in Host : sent[h] \in 0 .. AllMessages /\ Len(wire[h]) <= HWM
  BY CountAssumption DEF DeviceInv
<1>2. ASSUME NEW c \in Node PROVE Len(history_log[c]) <= MAX_MSGS
  <2>1. got[c] \in Seq(Samples) /\ Len(got[c]) \in Nat /\ MAX_MSGS \in Nat
    BY LenProperties, LatencyAssumption DEF NodeInv
  <2>2. Entries(c) \in Nat /\ Entries(c) <= MAX_MSGS
    BY <2>1 DEF Entries
  <2>3. history_log[c] = [k \in 1 .. Entries(c) |-> mensaje_t(got[c][k])]
    BY DEF NodeInv
  <2> QED
    BY <2>2, <2>3
<1> QED
  BY <1>1, <1>2 DEF TypeOK, DeviceInv, NodeInv

\* The programs of the test keep their types, and none outgrows its bound: a
\* device never sends more messages than the series have, a connection holds
\* at most HWM and the log at most MAX_MSGS.
THEOREM TypeCorrect == Spec => []TypeOK
  BY LatencyAlways, LatencyImpliesTypes, PTL

\* A saved file has a row for every message that was received: the first
\* MAX_MSGS of them are the messages as they came, and the others, as far as
\* the array goes, are rows of zeros, however many messages there were and
\* whenever the interrupt came.  Of rows from behind the array nothing is said.
THEOREM CsvAlwaysKeepsMessages == Spec => []CsvKeepsMessages
<1>1. LatencyInv => CsvKeepsMessages
  <2> SUFFICES ASSUME LatencyInv, NEW c \in Node, NEW rows \in ToSet(csv[c])
               PROVE  /\ Len(rows) = Len(got[c])
                      /\ \A k \in DOMAIN rows :
                            /\ k <= MAX_MSGS => rows[k] = mensaje_t(got[c][k])
                            /\ k \in MAX_MSGS + 1 .. LOG_SIZE => rows[k] = NoMensaje
    BY DEF CsvKeepsMessages
  <2>1. csv[c] = << >> \/ csv[c] = <<Rows(c)>>
    BY DEF LatencyInv, NodeInv
  <2>2. rows = Rows(c)
    BY <2>1 DEF ToSet
  <2>3. got[c] \in Seq(Samples) /\ Len(got[c]) \in Nat
    BY LenProperties DEF LatencyInv, NodeInv
  <2>4. MAX_MSGS \in Nat /\ LOG_SIZE \in Nat
    BY LatencyAssumption
  <2> QED
    BY <2>2, <2>3, <2>4 DEF Rows
<1> QED
  BY <1>1, LatencyAlways, PTL

\* What a node logs is what its own devices sent, with the time and the twin
\* of each, and the numbers of each device count up, through the parser, the
\* queues and the serializer of the engine and past every loss.
THEOREM SamplesAlwaysInOrder == Spec => []SamplesInOrder
<1>1. LatencyInv => SamplesInOrder
  <2> DEFINE InLog(c) ==
               LET log == history_log[c]
               IN  /\ \A k \in DOMAIN log :
                         /\ log[k].twin_id = c
                         /\ log[k].sending_ts = current_time_ms(log[k].message_id.m)
                   /\ \E from \in [DOMAIN log -> DevicesOf(c)] :
                         /\ \A k \in DOMAIN log :
                               log[k].message_id.m < base_value[from[k]]
                         /\ \A h \in DevicesOf(c) : InOrderOf(h, from, log)
  <2> SUFFICES ASSUME LatencyInv, NEW c \in Node PROVE InLog(c)
    BY DEF SamplesInOrder
  <2> USE DEF LatencyInv
  <2> DEFINE log == history_log[c]
             D   == 1 .. Entries(c)
  <2>1. /\ got[c] \in Seq(Samples) /\ line[c] \in Seq(Samples)
        /\ Len(got[c]) \in Nat /\ Len(line[c]) \in Nat /\ MAX_MSGS \in Nat
    BY LenProperties, LatencyAssumption DEF NodeInv
  <2>2. PICK g \in Nat, l \in Nat : g = Len(got[c]) /\ l = Len(line[c])
    BY <2>1
  <2>3. Entries(c) \in Nat /\ Entries(c) <= g
    BY <2>1, <2>2 DEF Entries
  <2>4. log = [k \in D |-> mensaje_t(got[c][k])]
    BY DEF NodeInv
  <2>5. PICK from \in [Places(c) -> DevicesOf(c)] : Assigns(from, c)
    BY DEF OrderInv
  <2>6. \A k \in D : k \in Places(c) /\ k <= g
    <3>1. Places(c) = 1 .. g + l
      BY <2>2 DEF Places
    <3> QED
      BY <2>3, <3>1
  <2> HIDE DEF log, D
  <2>7. ASSUME NEW k \in D
        PROVE  /\ from[k] \in DevicesOf(c)
               /\ log[k].twin_id = c
               /\ log[k].sending_ts = current_time_ms(log[k].message_id.m)
               /\ log[k].message_id.m = Number(At(c, k))
               /\ log[k].message_id.m < base_value[from[k]]
    <3>1. At(c, k) = got[c][k]
      BY <2>2, <2>6 DEF At
    <3>2. PICK n \in Nat : /\ n = Number(At(c, k)) /\ n < Taken(from[k])
                           /\ At(c, k) = SampleOf(from[k], n)
      BY <2>5, <2>6 DEF Assigns
    <3>3. mensaje_t(SampleOf(from[k], n)) =
             [sending_ts |-> current_time_ms(n), twin_id |-> TwinId(from[k]),
              message_id |-> Float(n)]
      BY SampleFacts
    <3>4. log[k] = [sending_ts |-> current_time_ms(n), twin_id |-> TwinId(from[k]),
                    message_id |-> Float(n)]
      BY <2>4, <3>1, <3>2, <3>3
    <3>5. from[k] \in DevicesOf(c) /\ from[k] \in Host /\ TwinId(from[k]) = c
      BY <2>5, <2>6 DEF DevicesOf
    <3>6. log[k].message_id.m = n
      BY <3>4 DEF Float
    <3>7. n < base_value[from[k]]
      <4>1. /\ base_value[from[k]] \in Nat /\ Len(wire[from[k]]) \in Nat
            /\ n < base_value[from[k]] - Len(wire[from[k]])
        BY <3>2, <3>5, TakenTypes DEF Taken
      <4> QED
        BY <4>1
    <3>8. log[k].twin_id = c /\ log[k].sending_ts = current_time_ms(n)
      BY <3>4, <3>5
    <3> QED
      BY <3>2, <3>5, <3>6, <3>7, <3>8
  <2>8. DOMAIN log = D
    BY <2>4
  <2>9. PICK f \in [D -> DevicesOf(c)] : f = [k \in D |-> from[k]]
    BY <2>7
  <2>10. ASSUME NEW h \in DevicesOf(c) PROVE InOrderOf(h, f, log)
    <3> SUFFICES ASSUME NEW j \in D, NEW k \in D, j < k, f[j] = h, f[k] = h
                 PROVE  log[j].message_id.m < log[k].message_id.m
      BY <2>8 DEF InOrderOf
    <3>1. from[j] = from[k]
      BY <2>9
    <3>2. Number(At(c, j)) < Number(At(c, k))
      BY <2>5, <2>6, <3>1 DEF Assigns
    <3> QED
      BY <2>7, <3>2
  <2>11. \A k \in D : log[k].message_id.m < base_value[f[k]]
    BY <2>7, <2>9
  <2> QED
    BY <2>7, <2>8, <2>9, <2>10, <2>11 DEF log
<1> QED
  BY <1>1, LatencyAlways, PTL

-------------------------------------------------------------------------------
(* Counting the messages                                                   *)

AccountInv ==
    /\ lost \in [Node -> Nat]
    /\ \A c \in Node :
          Cardinality(Departed(c)) = (Len(line[c]) + Len(got[c])) + lost[c]

LEMMA DepartedFinite ==
    /\ \A c : IsFiniteSet(Departed(c)) /\ Cardinality(Departed(c)) \in Nat
    /\ \A c, cut : IsFiniteSet(CutOff(c, cut)) /\ Cardinality(CutOff(c, cut)) \in Nat
<1>1. IsFiniteSet(Host) /\ 0 \in Int /\ 1 \in Int /\ AllMessages - 1 \in Int /\ HWM \in Int
  BY LatencyAssumption, CountAssumption
<1>2. IsFiniteSet(0 .. AllMessages - 1) /\ IsFiniteSet(1 .. HWM)
  BY <1>1, FS_Interval
<1>3. \A c : IsFiniteSet(DevicesOf(c))
  BY <1>1, FS_Subset DEF DevicesOf
<1>4. ASSUME NEW c
      PROVE  IsFiniteSet(Departed(c)) /\ Cardinality(Departed(c)) \in Nat
  <2> DEFINE P == DevicesOf(c) \X (0 .. AllMessages - 1)
  <2>1. IsFiniteSet(P)
    BY <1>2, <1>3, FS_Product
  <2>2. Departed(c) \in SUBSET P
    BY DEF Departed
  <2> HIDE DEF P
  <2> QED
    BY <2>1, <2>2, FS_Subset, FS_CardinalityType
<1>5. ASSUME NEW c, NEW cut
      PROVE  IsFiniteSet(CutOff(c, cut)) /\ Cardinality(CutOff(c, cut)) \in Nat
  <2> DEFINE P == DevicesOf(c) \X (1 .. HWM)
  <2>1. IsFiniteSet(P)
    BY <1>2, <1>3, FS_Product
  <2>2. CutOff(c, cut) \in SUBSET P
    BY DEF CutOff
  <2> HIDE DEF P
  <2> QED
    BY <2>1, <2>2, FS_Subset, FS_CardinalityType
<1> QED
  BY <1>4, <1>5

LEMMA DepartedByTaken ==
    ASSUME DeviceInv, DeviceInv', NEW c
    PROVE  LET P == DevicesOf(c) \X (0 .. AllMessages - 1)
           IN  /\ Departed(c) = {p \in P : p[2] < Taken(p[1])}
               /\ Departed(c)' = {p \in P : p[2] < Taken(p[1])'}
  BY DEF DeviceInv, Departed, Taken

\* Neither a device nor a node changes the number of messages that have left
\* the connections or the number that came of them.
LEMMA AccountKept ==
    ASSUME DeviceInv, DeviceInv', AccountInv, UNCHANGED lost,
           \A h \in Host : Taken(h)' = Taken(h),
           \A c \in Node : Len(line'[c]) + Len(got'[c]) = Len(line[c]) + Len(got[c])
    PROVE  AccountInv'
<1>1. ASSUME NEW c \in Node PROVE Departed(c)' = Departed(c)
  <2> DEFINE P == DevicesOf(c) \X (0 .. AllMessages - 1)
  <2>1. \A p \in P : p[1] \in Host
    BY DEF DevicesOf
  <2>2. /\ Departed(c) = {p \in P : p[2] < Taken(p[1])}
        /\ Departed(c)' = {p \in P : p[2] < Taken(p[1])'}
    BY DepartedByTaken
  <2> HIDE DEF P
  <2>3. \A p \in P : p[2] < Taken(p[1]) <=> p[2] < Taken(p[1])'
    BY <2>1
  <2> QED
    BY <2>2, <2>3
<1> QED
  BY <1>1 DEF AccountInv

LEMMA ChannelTypes ==
    ASSUME NodeInv, NEW c \in Node
    PROVE  /\ line[c] \in Seq(Samples) /\ Len(line[c]) \in Nat
           /\ got[c] \in Seq(Samples) /\ Len(got[c]) \in Nat
  BY LenProperties DEF NodeInv

LEMMA DeviceAccount ==
    ASSUME LatencyInv, LatencyInv', AccountInv, NEW h \in Host, Device(h)
    PROVE  AccountInv'
<1> USE DEF LatencyInv
<1>1. UNCHANGED <<line, got, lost>>
  BY DEF Device, Connect, SendSample, CloseDevice, engine
<1>2. \A i \in Host : Taken(i)' = Taken(i)
  <2>1. CASE Connect(h) \/ CloseDevice(h)
    BY <2>1 DEF Connect, CloseDevice, Taken
  <2>2. CASE SendSample(h)
    <3>1. /\ base_value[h] \in Nat /\ wire[h] \in Seq(Samples) /\ Len(wire[h]) \in Nat
          /\ Sample(h) \in Samples
      <4>1. /\ base_value[h] \in Nat /\ wire[h] \in Seq(Samples) /\ Len(wire[h]) \in Nat
        BY TakenTypes
      <4>2. Sample(h) = SampleOf(h, base_value[h])
        BY <4>1, SampleIsSampleOf
      <4> QED
        BY <4>1, <4>2 DEF Samples
    <3>2. /\ wire' = [wire EXCEPT ![h] = Append(@, Sample(h))]
          /\ base_value' = [base_value EXCEPT ![h] = base_value[h] + 1]
      BY <2>2 DEF SendSample, NextValue
    <3>3. base_value'[h] = base_value[h] + 1 /\ Len(wire'[h]) = Len(wire[h]) + 1
      BY <3>1, <3>2, AppendProperties DEF DeviceInv
    <3>4. \A i \in Host \ {h} : base_value'[i] = base_value[i] /\ wire'[i] = wire[i]
      BY <3>2 DEF DeviceInv
    <3>5. Taken(h)' = Taken(h)
      BY <3>1, <3>3 DEF Taken
    <3>6. \A i \in Host \ {h} : Taken(i)' = Taken(i)
      BY <3>4 DEF Taken
    <3> QED
      BY <3>5, <3>6
  <2> QED
    BY <2>1, <2>2 DEF Device
<1> QED
  BY <1>1, <1>2, AccountKept

LEMMA NodeAccount ==
    ASSUME LatencyInv, LatencyInv', AccountInv, NEW c \in Node,
           handle_sigint(c) \/ NodeStep(c)
    PROVE  AccountInv'
<1> USE DEF LatencyInv
<1>1. UNCHANGED <<device, wire, lost>>
  BY DEF handle_sigint, NodeStep, Bind, RecvTimeout, Recv, SaveCsv, engine
<1>2. \A h \in Host : Taken(h)' = Taken(h)
  BY <1>1 DEF Taken, device
<1>3. \A d \in Node : Len(line'[d]) + Len(got'[d]) = Len(line[d]) + Len(got[d])
  <2>1. CASE UNCHANGED <<line, got>>
    BY <2>1
  <2>2. CASE Recv(c)
    <3>1. PICK g \in Nat, l \in Nat : g = Len(got[c]) /\ l = Len(line[c])
      BY ChannelTypes
    <3>2. /\ line[c] # << >> /\ got' = [got EXCEPT ![c] = Append(@, Head(line[c]))]
          /\ line' = [line EXCEPT ![c] = Tail(@)]
      BY <2>2 DEF Recv, Relay!Deliver
    <3>3. Len(got'[c]) = g + 1 /\ Len(line'[c]) = l - 1
      BY <3>1, <3>2, ChannelTypes, HeadTailProperties, AppendProperties DEF NodeInv
    <3>4. \A d \in Node \ {c} : line'[d] = line[d] /\ got'[d] = got[d]
      BY <3>2 DEF NodeInv
    <3>5. Len(line'[c]) + Len(got'[c]) = Len(line[c]) + Len(got[c])
      <4>1. (l - 1) + (g + 1) = l + g
        OBVIOUS
      <4> QED
        BY <3>1, <3>3, <4>1
    <3> QED
      BY <3>4, <3>5
  <2> QED
    BY <2>1, <2>2 DEF handle_sigint, NodeStep, Bind, RecvTimeout, SaveCsv, engine
<1> QED
  BY <1>1, <1>2, <1>3, AccountKept

LEMMA LosesAccount ==
    ASSUME LatencyInv, LatencyInv', AccountInv, NEW c \in Node, EngineLoses(c)
    PROVE  AccountInv'
<1> USE DEF LatencyInv
<1>1. /\ UNCHANGED <<device, wire, got>> /\ lost' = [lost EXCEPT ![c] = @ + 1]
      /\ \E k \in DOMAIN line[c] : line' = [line EXCEPT ![c] = RemoveAt(@, k)]
  BY DEF EngineLoses, Relay!Lose, Relay!RemoveAt, RemoveAt
<1>2. PICK k \in DOMAIN line[c] : line' = [line EXCEPT ![c] = RemoveAt(@, k)]
  BY <1>1
<1>3. /\ Len(line'[c]) = Len(line[c]) - 1
      /\ \A d \in Node \ {c} : line'[d] = line[d] /\ lost'[d] = lost[d]
      /\ lost'[c] = lost[c] + 1
  <2>1. k \in 1 .. Len(line[c])
    BY ChannelTypes, LenProperties
  <2>2. /\ line'[c] = RemoveAt(line[c], k)
        /\ \A d \in Node \ {c} : line'[d] = line[d]
    BY <1>2 DEF NodeInv
  <2>3. /\ lost'[c] = lost[c] + 1 /\ \A d \in Node \ {c} : lost'[d] = lost[d]
    BY <1>1 DEF AccountInv
  <2> QED
    BY <2>1, <2>2, <2>3, ChannelTypes, RemoveAtProperties
<1>4. \A d \in Node : Departed(d)' = Departed(d)
  BY <1>1 DEF Departed, device
<1>5. lost' \in [Node -> Nat]
  BY <1>1 DEF AccountInv
<1>6. ASSUME NEW d \in Node
      PROVE  Cardinality(Departed(d)') = (Len(line'[d]) + Len(got'[d])) + lost'[d]
  <2>1. CASE d = c
    <3>1. PICK g \in Nat, l \in Nat, x \in Nat :
             g = Len(got[c]) /\ l = Len(line[c]) /\ x = lost[c]
      BY ChannelTypes DEF AccountInv
    <3>2. (l + g) + x = ((l - 1) + g) + (x + 1)
      OBVIOUS
    <3> QED
      BY <1>1, <1>3, <1>4, <2>1, <3>1, <3>2 DEF AccountInv
  <2>2. CASE d # c
    BY <1>1, <1>3, <1>4, <2>2 DEF AccountInv
  <2> QED
    BY <2>1, <2>2
<1> QED
  BY <1>5, <1>6 DEF AccountInv

\* One more has left the connections, and is on the channel of its node.
LEMMA TakeAccount ==
    ASSUME LatencyInv, LatencyInv', AccountInv, NEW h \in Host, EngineTake(h)
    PROVE  AccountInv'
<1> USE DEF LatencyInv
<1>1. PICK n \in Nat : n = Taken(h)
  BY TakenTypes
<1>2. PICK c \in Nat : c = TwinId(h)
  BY TwinIds
<1>3. /\ wire[h] \in Seq(Samples) /\ Len(wire[h]) \in Nat /\ wire[h] # << >>
      /\ base_value[h] \in Nat /\ n = base_value[h] - Len(wire[h])
      /\ base_value[h] <= AllMessages /\ AllMessages \in Nat
  BY <1>1, TakenTypes, CountAssumption DEF EngineTake, Taken, DeviceInv
<1>4. Len(wire[h]) > 0 /\ Len(Tail(wire[h])) = Len(wire[h]) - 1
  BY <1>3, HeadTailProperties, EmptySeq
<1>5. Head(wire[h]) = SampleOf(h, n)
  <2>1. 1 \in 1 .. Len(wire[h]) /\ n + 1 - 1 = n
    BY <1>3, <1>4
  <2>2. wire[h][1] = SampleOf(h, n + 1 - 1)
    BY <1>1, <2>1 DEF DeviceInv
  <2> QED
    BY <1>3, <2>1, <2>2
<1>6. /\ wire' = [wire EXCEPT ![h] = Tail(@)]
      /\ UNCHANGED <<device, lost>>
      /\ \/ c \in Notified /\ Relay!Send(c, SampleOf(h, n))
         \/ c \notin Notified /\ UNCHANGED <<line, got>>
  BY <1>2, <1>3, <1>5, SampleFacts DEF EngineTake
<1>7. /\ Taken(h)' = n + 1 /\ n \in 0 .. AllMessages - 1
      /\ \A i \in Host \ {h} : Taken(i)' = Taken(i)
  <2>1. wire'[h] = Tail(wire[h]) /\ \A i \in Host \ {h} : wire'[i] = wire[i]
    BY <1>6 DEF DeviceInv
  <2>2. Taken(h)' = base_value[h] - (Len(wire[h]) - 1)
    BY <1>4, <1>6, <2>1 DEF Taken, device
  <2>3. \A i \in Host \ {h} : Taken(i)' = Taken(i)
    BY <1>6, <2>1 DEF Taken, device
  <2>4. /\ base_value[h] - (Len(wire[h]) - 1) = n + 1
        /\ n \in 0 .. AllMessages - 1
    BY <1>3, <1>4
  <2> QED
    BY <2>2, <2>3, <2>4
<1>8. ASSUME NEW d \in Node, d # c
      PROVE  Departed(d)' = Departed(d)
  <2> DEFINE P == DevicesOf(d) \X (0 .. AllMessages - 1)
  <2>1. \A p \in P : p[1] \in Host \ {h}
    BY <1>2, <1>8 DEF DevicesOf
  <2>2. /\ Departed(d) = {p \in P : p[2] < Taken(p[1])}
        /\ Departed(d)' = {p \in P : p[2] < Taken(p[1])'}
    BY DepartedByTaken
  <2> HIDE DEF P
  <2>3. \A p \in P : p[2] < Taken(p[1]) <=> p[2] < Taken(p[1])'
    BY <1>7, <2>1
  <2> QED
    BY <2>2, <2>3
<1>9. ASSUME c \in Node
      PROVE  Cardinality(Departed(c)') = Cardinality(Departed(c)) + 1
  <2> DEFINE P == DevicesOf(c) \X (0 .. AllMessages - 1)
  <2>1. <<h, n>> \in P /\ \A p \in P : p[1] \in Host /\ p[2] \in Int /\ p = <<p[1], p[2]>>
    BY <1>2, <1>7 DEF DevicesOf
  <2>2. /\ Departed(c) = {p \in P : p[2] < Taken(p[1])}
        /\ Departed(c)' = {p \in P : p[2] < Taken(p[1])'}
    BY DepartedByTaken
  <2> HIDE DEF P
  <2>3. <<h, n>> \notin Departed(c)
    BY <1>1, <2>2
  <2>4. Departed(c)' = Departed(c) \cup {<<h, n>>}
    <3>1. ASSUME NEW p \in P
          PROVE  p[2] < Taken(p[1])' <=> (p[2] < Taken(p[1]) \/ p = <<h, n>>)
      <4>1. CASE p[1] = h
        <5>1. p[2] < n + 1 <=> (p[2] < n \/ p[2] = n)
          BY <2>1
        <5>2. p[2] = n <=> p = <<h, n>>
          BY <2>1, <4>1
        <5> QED
          BY <1>1, <1>7, <4>1, <5>1, <5>2
      <4>2. CASE p[1] # h
        BY <1>7, <2>1, <4>2
      <4> QED
        BY <4>1, <4>2
    <3> QED
      BY <2>1, <2>2, <3>1
  <2> QED
    BY <2>3, <2>4, DepartedFinite, FS_AddElement
<1>10. ASSUME NEW d \in Node
       PROVE  Cardinality(Departed(d)') = (Len(line'[d]) + Len(got'[d])) + lost'[d]
  <2>1. PICK g \in Nat, l \in Nat, x \in Nat :
           g = Len(got[d]) /\ l = Len(line[d]) /\ x = lost[d]
    BY ChannelTypes DEF AccountInv
  <2>2. CASE d # c
    <3>1. line'[d] = line[d] /\ got' = got
      BY <1>6, <2>2 DEF NodeInv, Relay!Send
    <3> QED
      BY <1>6, <1>8, <2>2, <3>1 DEF AccountInv
  <2>3. CASE d = c
    <3>1. line' = [line EXCEPT ![c] = Append(@, SampleOf(h, n))] /\ got' = got
      BY <1>6, <2>3 DEF Node, Relay!Send
    <3>2. SampleOf(h, n) \in Samples
      BY DEF Samples
    <3>3. line'[c] = Append(line[c], SampleOf(h, n))
      BY <2>3, <3>1 DEF NodeInv
    <3>4. Len(line'[c]) = l + 1
      BY <2>1, <2>3, <3>2, <3>3, ChannelTypes, AppendProperties
    <3>5. ((l + 1) + g) + x = ((l + g) + x) + 1
      OBVIOUS
    <3>6. Cardinality(Departed(c)) = (l + g) + x
      BY <2>1, <2>3 DEF AccountInv
    <3> QED
      BY <1>6, <1>9, <2>1, <2>3, <3>1, <3>4, <3>5, <3>6
  <2> QED
    BY <2>2, <2>3
<1> QED
  BY <1>6, <1>10 DEF AccountInv

\* What is cut off the connections has left them and is lost.
LEMMA StopsAccount ==
    ASSUME LatencyInv, LatencyInv', AccountInv, EngineStops
    PROVE  AccountInv'
<1> USE DEF LatencyInv
<1>1. UNCHANGED <<device, line, got>>
  BY DEF EngineStops
<1>2. PICK cut \in [Host -> 0 .. HWM] :
         /\ \A h \in Host : cut[h] <= Len(wire[h])
         /\ wire' = [h \in Host |-> SubSeq(wire[h], cut[h] + 1, Len(wire[h]))]
         /\ lost' = [c \in Node |-> lost[c] + Cardinality(CutOff(c, cut))]
  BY DEF EngineStops
<1>3. HWM \in Nat /\ AllMessages \in Nat /\ cut \in [Host -> Nat]
  BY <1>2, LatencyAssumption, CountAssumption
<1>4. PICK t \in [Host -> Nat] : t = [h \in Host |-> Taken(h)]
  BY TakenTypes
<1>5. ASSUME NEW h \in Host
      PROVE  /\ Taken(h) = t[h] /\ Taken(h)' = t[h] + cut[h]
             /\ t[h] + cut[h] <= AllMessages /\ cut[h] <= HWM
  <2> DEFINE w == wire[h]
             x == cut[h]
  <2>1. /\ base_value[h] \in Nat /\ w \in Seq(Samples) /\ Len(w) \in Nat
        /\ t[h] = base_value[h] - Len(w) /\ base_value[h] <= AllMessages
    BY <1>4, TakenTypes DEF DeviceInv, Taken
  <2>2. x \in Nat /\ x <= Len(w) /\ x <= HWM
    BY <1>2, <1>3
  <2>3. Len(wire'[h]) = Len(w) - x
    <3>1. \A k \in x + 1 .. Len(w) : w[k] \in Samples
      BY <2>1, <2>2, ElementOfSeq
    <3>2. wire'[h] = SubSeq(w, x + 1, Len(w))
      BY <1>2
    <3>3. Len(wire'[h]) = IF x + 1 <= Len(w) THEN Len(w) - (x + 1) + 1 ELSE 0
      BY <2>1, <2>2, <3>1, <3>2, SubSeqProperties
    <3> QED
      BY <2>1, <2>2, <3>3
  <2>4. Taken(h)' = base_value[h] - (Len(w) - x)
    BY <1>1, <2>3 DEF Taken, device
  <2>5. Taken(h) = t[h]
    BY <1>4
  <2> QED
    BY <1>3, <2>1, <2>2, <2>4, <2>5
<1>6. ASSUME NEW c \in Node
      PROVE  Cardinality(Departed(c)')
               = Cardinality(Departed(c)) + Cardinality(CutOff(c, cut))
  <2> DEFINE P == DevicesOf(c) \X (0 .. AllMessages - 1)
             N == {p \in P : t[p[1]] <= p[2] /\ p[2] < t[p[1]] + cut[p[1]]}
             C == CutOff(c, cut)
             f == [p \in C |-> <<p[1], t[p[1]] + p[2] - 1>>]
  <2>1. \A p \in P : /\ p[1] \in DevicesOf(c) /\ p[1] \in Host
                      /\ p[2] \in 0 .. AllMessages - 1 /\ p = <<p[1], p[2]>>
    BY DEF DevicesOf
  <2>2. \A p \in C : /\ p[1] \in DevicesOf(c) /\ p[1] \in Host /\ p[2] \in 1 .. HWM
                      /\ p[2] <= cut[p[1]] /\ p = <<p[1], p[2]>>
    BY DEF CutOff, DevicesOf
  <2>3. /\ Departed(c) = {p \in P : p[2] < Taken(p[1])}
        /\ Departed(c)' = {p \in P : p[2] < Taken(p[1])'}
    BY DepartedByTaken
  <2>4. ASSUME NEW h \in DevicesOf(c), NEW k \in 1 .. HWM, k <= cut[h]
        PROVE  <<h, t[h] + k - 1>> \in N
    <3>1. h \in Host /\ t[h] \in Nat /\ cut[h] \in Nat /\ t[h] + cut[h] <= AllMessages
      BY <1>3, <1>4, <1>5 DEF DevicesOf
    <3>2. /\ t[h] + k - 1 \in 0 .. AllMessages - 1
          /\ t[h] <= t[h] + k - 1 /\ t[h] + k - 1 < t[h] + cut[h]
      BY <1>3, <2>4, <3>1
    <3> QED
      BY <3>2
  <2>5. ASSUME NEW p \in N
        PROVE  /\ p[2] - t[p[1]] + 1 \in 1 .. HWM /\ p[2] - t[p[1]] + 1 <= cut[p[1]]
               /\ t[p[1]] + (p[2] - t[p[1]] + 1) - 1 = p[2]
    <3>1. /\ p[1] \in Host /\ p[2] \in Int /\ t[p[1]] \in Nat /\ cut[p[1]] \in Nat
          /\ cut[p[1]] <= HWM /\ t[p[1]] <= p[2] /\ p[2] < t[p[1]] + cut[p[1]]
      BY <1>3, <1>4, <1>5, <2>1
    <3> QED
      BY <1>3, <3>1
  <2>6. f \in [C -> N]
    BY <2>2, <2>4
  <2>7. ASSUME NEW p \in C, NEW q \in C, f[p] = f[q] PROVE p = q
    <3>1. <<p[1], t[p[1]] + p[2] - 1>> = <<q[1], t[q[1]] + q[2] - 1>>
      BY <2>7
    <3>2. p[1] = q[1] /\ t[p[1]] + p[2] - 1 = t[p[1]] + q[2] - 1
      BY <3>1
    <3>3. t[p[1]] \in Nat /\ p[2] \in Int /\ q[2] \in Int
      BY <1>3, <1>4, <2>2
    <3>4. p[2] = q[2]
      BY <3>2, <3>3
    <3> QED
      BY <2>2, <3>2, <3>4
  <2>8. ASSUME NEW p \in N PROVE \E q \in C : f[q] = p
    <3> DEFINE q == <<p[1], p[2] - t[p[1]] + 1>>
    <3>1. q[1] = p[1] /\ q[2] = p[2] - t[p[1]] + 1
      OBVIOUS
    <3>2. q \in C
      BY <2>1, <2>5 DEF CutOff
    <3>3. f[q] = <<p[1], p[2]>>
      BY <2>5, <3>1, <3>2
    <3> QED
      BY <2>1, <3>2, <3>3
  <2>9. IsFiniteSet(C) /\ IsFiniteSet(Departed(c)) /\ Cardinality(Departed(c)) \in Nat
    BY DepartedFinite
  <2>10. IsFiniteSet(N) /\ Cardinality(N) = Cardinality(C)
    <3> HIDE DEF N, C, f
    <3> QED
      BY <2>6, <2>7, <2>8, <2>9, SameSize
  <2>11. Departed(c)' = Departed(c) \cup N /\ Departed(c) \cap N = {}
    <3>1. ASSUME NEW p \in P
          PROVE  /\ p[2] < Taken(p[1])' <=>
                      (p[2] < Taken(p[1])
                        \/ (t[p[1]] <= p[2] /\ p[2] < t[p[1]] + cut[p[1]]))
                 /\ ~(p[2] < Taken(p[1]) /\ t[p[1]] <= p[2])
      <4>1. /\ p[2] \in Int /\ t[p[1]] \in Nat /\ cut[p[1]] \in Nat
            /\ Taken(p[1]) = t[p[1]] /\ Taken(p[1])' = t[p[1]] + cut[p[1]]
        BY <1>3, <1>4, <1>5, <2>1
      <4> QED
        BY <4>1
    <3> HIDE DEF P
    <3> QED
      BY <2>3, <3>1
  <2>12. Cardinality(Departed(c) \cup N)
           = Cardinality(Departed(c)) + Cardinality(N) - Cardinality(Departed(c) \cap N)
    <3> HIDE DEF N
    <3> QED
      BY <2>9, <2>10, FS_Union
  <2>13. Cardinality(C) \in Nat
    BY DepartedFinite
  <2>14. Cardinality(Departed(c) \cap N) = 0
    BY <2>11, FS_EmptySet
  <2> HIDE DEF N, C
  <2>15. Cardinality(Departed(c)') = Cardinality(Departed(c)) + Cardinality(C) - 0
    BY <2>10, <2>11, <2>12, <2>14
  <2>16. Cardinality(Departed(c)) + Cardinality(C) - 0
           = Cardinality(Departed(c)) + Cardinality(C)
    BY <2>9, <2>13
  <2> QED
    BY <2>15, <2>16 DEF C
<1>7. lost' \in [Node -> Nat]
  BY <1>2, DepartedFinite DEF AccountInv
<1>8. ASSUME NEW c \in Node
      PROVE  Cardinality(Departed(c)') = (Len(line'[c]) + Len(got'[c])) + lost'[c]
  <2>1. PICK g \in Nat, l \in Nat, x \in Nat, y \in Nat :
           /\ g = Len(got[c]) /\ l = Len(line[c]) /\ x = lost[c]
           /\ y = Cardinality(CutOff(c, cut))
    BY ChannelTypes, DepartedFinite DEF AccountInv
  <2>2. Cardinality(Departed(c)) = (l + g) + x
    BY <2>1 DEF AccountInv
  <2>3. ((l + g) + x) + y = (l + g) + (x + y)
    OBVIOUS
  <2>4. lost'[c] = x + y
    BY <1>2, <2>1
  <2> QED
    BY <1>1, <1>6, <2>1, <2>2, <2>3, <2>4
<1> QED
  BY <1>7, <1>8 DEF AccountInv

LEMMA AccountInit == Init => AccountInv
<1> SUFFICES ASSUME Init PROVE AccountInv
  OBVIOUS
<1>1. lost = [c \in Node |-> 0]
  BY DEF Init
<1>2. ASSUME NEW c \in Node
      PROVE  Len(line[c]) = 0 /\ Len(got[c]) = 0 /\ Departed(c) = {}
  <2>1. line[c] = << >> /\ got[c] = << >>
    BY DEF Init, Relay!Init
  <2>2. \A h \in Host : sent[h] = 0 /\ wire[h] = << >>
    BY DEF Init
  <2>3. \A p \in DevicesOf(c) \X (0 .. AllMessages - 1) :
           ~(p[2] < sent[p[1]] - Len(wire[p[1]]))
    BY <2>2, EmptySeq DEF DevicesOf
  <2> QED
    BY <2>1, <2>3, EmptySeq DEF Departed
<1>3. lost \in [Node -> Nat] /\ \A c \in Node : lost[c] = 0
  BY <1>1
<1>4. \A c \in Node : Cardinality(Departed(c)) = 0
  BY <1>2, FS_EmptySet
<1>5. ASSUME NEW c \in Node
      PROVE  Cardinality(Departed(c)) = (Len(line[c]) + Len(got[c])) + lost[c]
  <2>1. Len(line[c]) = 0 /\ Len(got[c]) = 0 /\ lost[c] = 0 /\ (0 + 0) + 0 = 0
    BY <1>2, <1>3
  <2> QED
    BY <1>4, <2>1
<1> QED
  BY <1>3, <1>5 DEF AccountInv

LEMMA AccountAlways == Spec => []AccountInv
<1>1. LatencyInv /\ LatencyInv' /\ AccountInv /\ [Next]_vars => AccountInv'
  <2> SUFFICES ASSUME LatencyInv, LatencyInv', AccountInv, [Next]_vars
               PROVE  AccountInv'
    OBVIOUS
  <2>1. ASSUME NEW h \in Host, Device(h) \/ EngineTake(h) PROVE AccountInv'
    BY <2>1, DeviceAccount, TakeAccount
  <2>2. CASE EngineStops
    BY <2>2, StopsAccount
  <2>3. ASSUME NEW c \in Node, EngineLoses(c) \/ handle_sigint(c) \/ NodeStep(c)
        PROVE  AccountInv'
    BY <2>3, LosesAccount, NodeAccount
  <2>4. CASE UNCHANGED vars
    BY <2>4 DEF AccountInv, Departed, vars, device, engine
  <2> QED
    BY <2>1, <2>2, <2>3, <2>4 DEF Next
<1> QED
  BY <1>1, AccountInit, LatencyAlways, PTL DEF Spec

\* Every message a device has sent is on its connection, with the engine, at
\* the node, or was lost by the engine, and no message is there twice: zmq_send
\* and zmq_ctx_destroy wait where they would otherwise have to drop one.
THEOREM SamplesAlwaysAccountedFor == Spec => []SamplesAccountedFor
<1>1. LatencyInv /\ AccountInv => SamplesAccountedFor
  <2> SUFFICES ASSUME LatencyInv, AccountInv, NEW c \in Node
               PROVE  Cardinality(Departed(c)) = Len(line[c]) + total_received[c] + lost[c]
    BY DEF SamplesAccountedFor
  <2> QED
    BY DEF AccountInv, LatencyInv, NodeInv
<1> QED
  BY <1>1, AccountAlways, LatencyAlways, PTL

\* A node's dump stays inside history_log as long as its devices have sent no
\* more messages than the array has entries, whatever else they and the engine
\* do: the program itself bounds it by nothing.
THEOREM DumpAlwaysInBounds == Spec => []DumpInBounds
<1>1. LatencyInv /\ AccountInv => DumpInBounds
  <2> SUFFICES ASSUME LatencyInv, AccountInv, NEW c \in Node,
                      \/ npc[c] = "crashed"
                      \/ \E rows \in ToSet(csv[c]) : Len(rows) > LOG_SIZE
               PROVE  Cardinality(Departed(c)) > LOG_SIZE
    BY DEF DumpInBounds
  <2>1. Len(got[c]) \in Nat /\ Len(line[c]) \in Nat /\ lost[c] \in Nat
    BY LenProperties DEF LatencyInv, NodeInv, AccountInv
  <2>2. LOG_SIZE \in Nat
    BY LatencyAssumption
  <2>3. Len(got[c]) > LOG_SIZE
    <3>1. CASE npc[c] = "crashed"
      BY <3>1 DEF LatencyInv, NodeInv
    <3>2. CASE \E rows \in ToSet(csv[c]) : Len(rows) > LOG_SIZE
      <4>1. csv[c] = << >> \/ csv[c] = <<Rows(c)>>
        BY DEF LatencyInv, NodeInv
      <4>2. PICK rows \in ToSet(csv[c]) : Len(rows) > LOG_SIZE
        BY <3>2
      <4>3. rows = Rows(c)
        BY <4>1, <4>2 DEF ToSet
      <4>4. Len(Rows(c)) = Len(got[c])
        BY <2>1 DEF Rows
      <4> QED
        BY <4>2, <4>3, <4>4
    <3> QED
      BY <3>1, <3>2
  <2>4. Cardinality(Departed(c)) = (Len(line[c]) + Len(got[c])) + lost[c]
    BY DEF AccountInv
  <2>5. \A l, g, x \in Nat : g > LOG_SIZE => (l + g) + x > LOG_SIZE
    BY <2>2
  <2>6. (Len(line[c]) + Len(got[c])) + lost[c] > LOG_SIZE
    BY <2>1, <2>3, <2>5
  <2> QED
    BY <2>4, <2>6
<1> QED
  BY <1>1, AccountAlways, LatencyAlways, PTL
===============================================================================
