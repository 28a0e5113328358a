------------------------------ MODULE LatencyTest ------------------------------
(***************************************************************************)
(* The latency test as it runs in the laboratory: zmq_send.c on every      *)
(* device, the engine of full_test_v2 between, and zmq_recieve.c on every  *)
(* parent node, which logs what it gets and saves the log to a CSV file    *)
(* when it is interrupted.  The engine is what TwinEngine implements, one  *)
(* LossyChannel per node; here it also may stop.  Pinning the threads to   *)
(* cores has no effect on what the programs compute.                       *)
(***************************************************************************)
EXTENDS EventParser, SequencesExt

CONSTANTS Host,       \* the hostnames of the devices
          pruebas,    \* how many messages each series has, as in zmq_send.c
          HWM,        \* messages a device's connection to the engine holds
          MAX_MSGS,   \* messages zmq_recieve.c logs
          LOG_SIZE    \* the length of its array history_log

ASSUME LatencyAssumption ==
    /\ HWM \in Nat \ {0}
    /\ MAX_MSGS \in Nat /\ LOG_SIZE \in Nat /\ MAX_MSGS <= LOG_SIZE
    /\ \A k \in DOMAIN pruebas : pruebas[k] \in Nat \ {0}
    /\ pruebas # << >>
    /\ IsFiniteSet(Host)
    /\ UINT32 > 10             \* the twins of the devices are different ones

\* The messages of the first k series.
Total(k) == FoldLeft(LAMBDA a, b : a + b, 0, SubSeq(pruebas, 1, k))

AllMessages == Total(Len(pruebas))

\* base_value, a float, counts exactly.
ASSUME CountAssumption == AllMessages \in Nat \ {0} /\ AllMessages < 2 ^ 24

TwinId(hostname) ==
    CASE hostname = "rbpi5-2" -> 10
      [] hostname = "rbpi5-3" -> 0
      [] hostname = "rbpi5-4" -> 1
      [] hostname = "rbpi5-5" -> 2
      [] hostname = "rbpi5-6" -> 3
      [] hostname = "rbpi5-7" -> 4
      [] OTHER                -> 1

\* The twins whose variable 0 full_test_v2 notifies, each to a node of its own.
Notified == 0 .. 4

\* The nodes that have a device; the others wait for nothing.
Node == {TwinId(h) : h \in Host} \cap Notified

DevicesOf(c) == {h \in Host : TwinId(h) = c}

VARIABLES
    dpc, sent,         \* device: where it is, the messages it has sent
    base_value,        \* device: the number of its next message
    wire,              \* what is on its way from each device to the engine
    engine_up,
    line, got,         \* the engine: on its way to each node, and handed over
    npc, bound,        \* node: where it is, whether its socket is bound
    running,
    total_received, history_log,
    csv,               \* the saved file, or none: <<rows>> or << >>
    \* what happened so far, for the properties
    lost               \* messages the engine lost, by node

device == <<dpc, sent, base_value>>
engine == <<engine_up, line, got, lost>>
node   == <<npc, bound, running, total_received, history_log, csv>>
vars   == <<device, wire, engine, node>>

Relay == INSTANCE LossyChannel WITH Channel <- Node

Init ==
    /\ dpc = [h \in Host |-> "connect"]
    /\ sent = [h \in Host |-> 0] /\ base_value = [h \in Host |-> 0]
    /\ wire = [h \in Host |-> << >>]
    /\ engine_up = TRUE /\ Relay!Init /\ lost = [c \in Node |-> 0]
    /\ npc = [c \in Node |-> "bind"] /\ bound = [c \in Node |-> FALSE]
    /\ running = [c \in Node |-> TRUE]
    /\ total_received = [c \in Node |-> 0]
    /\ history_log = [c \in Node |-> << >>]
    /\ csv = [c \in Node |-> << >>]

-------------------------------------------------------------------------------
(* zmq_send.c                                                              *)

\* A device that cannot connect returns 1.
Connect(h) ==
    /\ dpc[h] = "connect"
    /\ \E to \in {"send", "failed"} : dpc' = [dpc EXCEPT ![h] = to]
    /\ UNCHANGED <<sent, base_value, wire, engine, node>>

\* The clock of a device, for its n-th message.
current_time_ms(n) == 100 + n

NextValue_PerSeries(h) ==
    IF \E k \in DOMAIN pruebas : sent[h] + 1 = Total(k) THEN 0
    ELSE base_value[h] + 1

NextValue(h) == base_value[h] + 1

Sample(h) ==
    [array_size |-> 5 + 1 * 2,
     items      |-> Packed(<<0, current_time_ms(base_value[h]), 0, TwinId(h), 1>>,
                           <<[var_id |-> 0, value |-> Float(base_value[h])]>>)]

Room_OneLess(h) == Len(wire[h]) + 1 < HWM

Room(h) == Len(wire[h]) < HWM

\* One turn of the loops over the series and their messages: the series differ
\* only in the pauses between them.  zmq_send waits while the connection is full.
SendSample(h) ==
    /\ dpc[h] = "send"
    /\ Room(h)
    /\ wire' = [wire EXCEPT ![h] = Append(@, Sample(h))]
    /\ base_value' = [base_value EXCEPT ![h] = NextValue(h)]
    /\ sent' = [sent EXCEPT ![h] = @ + 1]
    /\ dpc' = [dpc EXCEPT ![h] = IF sent'[h] < AllMessages THEN @ ELSE "close"]
    /\ UNCHANGED <<engine, node>>

\* zmq_ctx_destroy waits until what was sent has left.
CloseDevice(h) ==
    /\ dpc[h] = "close"
    /\ wire[h] = << >>
    /\ dpc' = [dpc EXCEPT ![h] = "done"]
    /\ UNCHANGED <<sent, base_value, wire, engine, node>>

Device(h) == Connect(h) \/ SendSample(h) \/ CloseDevice(h)

-------------------------------------------------------------------------------
(* The engine                                                              *)

\* The receiver takes a message, and the rules pass it on for the twins they
\* know; a twin_id of 10 has no rule.
EngineTake(h) ==
    /\ engine_up
    /\ wire[h] # << >>
    /\ wire' = [wire EXCEPT ![h] = Tail(@)]
    /\ LET e == deserialize_event(Head(wire[h])).events[1]
       IN  \/ e.twin_id \in Notified /\ Relay!Send(e.twin_id, serialize_event(e))
           \/ e.twin_id \notin Notified /\ UNCHANGED <<line, got>>
    /\ UNCHANGED <<device, engine_up, lost, node>>

\* A queue was full, or the shutdown cut the message off.
EngineLoses(c) ==
    /\ \E k \in DOMAIN line[c] : Relay!Lose(c, k)
    /\ lost' = [lost EXCEPT ![c] = @ + 1]
    /\ UNCHANGED <<device, wire, engine_up, node>>

\* The messages for node c that are gone when cut[h] of each device h are.
CutOff(c, cut) == {p \in DevicesOf(c) \X (1 .. HWM) : p[2] <= cut[p[1]]}

\* What its socket had taken off the connections is gone with it.
EngineStops ==
    /\ engine_up
    /\ engine_up' = FALSE
    /\ \E cut \in [Host -> 0 .. HWM] :
          /\ \A h \in Host : cut[h] <= Len(wire[h])
          /\ wire' = [h \in Host |-> SubSeq(wire[h], cut[h] + 1, Len(wire[h]))]
          /\ lost' = [c \in Node |-> lost[c] + Cardinality(CutOff(c, cut))]
    /\ UNCHANGED <<device, line, got, node>>

-------------------------------------------------------------------------------
(* zmq_recieve.c                                                           *)

handle_sigint(c) ==
    /\ running[c]
    /\ npc[c] \in {"bind", "recv", "save"}
    /\ running' = [running EXCEPT ![c] = FALSE]
    /\ UNCHANGED <<device, wire, engine, npc, bound, total_received, history_log,
                   csv>>

Again(c) == IF running[c] THEN "recv" ELSE "save"

\* The result of zmq_bind is ignored: a node whose port is taken waits for
\* messages that cannot come.
Bind(c) ==
    /\ npc[c] = "bind"
    /\ \E ok \in BOOLEAN : bound' = [bound EXCEPT ![c] = ok]
    /\ npc' = [npc EXCEPT ![c] = Again(c)]
    /\ UNCHANGED <<device, wire, engine, running, total_received, history_log,
                   csv>>

RecvTimeout(c) ==
    /\ npc[c] = "recv"
    /\ npc' = [npc EXCEPT ![c] = Again(c)]
    /\ UNCHANGED <<device, wire, engine, bound, running, total_received,
                   history_log, csv>>

NotEnough_TwoUpdates(msg) == msg.array_size < HEADER + 1 + 2 * 2

NotEnough(msg) == msg.array_size < HEADER

\* The fields of mensaje_t that come from the message.
mensaje_t(msg) ==
    [sending_ts |-> TimeOf(msg), twin_id |-> TwinOf(msg),
     message_id |-> value(Unpacked(msg, HEADER + 3))]

\* An entry of history_log that was never written is all zero.
NoMensaje == [sending_ts |-> 0, twin_id |-> 0, message_id |-> Zero]

\* What lies behind the array, marked so that no message looks like it.
Stray == [sending_ts |-> -1, twin_id |-> -1, message_id |-> Zero]

Counted_Logged(n) == IF n < MAX_MSGS THEN n + 1 ELSE n

Counted(n) == n + 1

Logged_OneMore(n) == n <= MAX_MSGS + 1

Logged_OneLess(n) == n < MAX_MSGS

Logged(n) == n <= MAX_MSGS

\* main returns -1, and saves nothing, for a message that is no event.
Recv(c) ==
    /\ npc[c] = "recv"
    /\ bound[c]
    /\ Relay!Deliver(c)
    /\ total_received' = [total_received EXCEPT ![c] = Counted(@)]
    /\ LET msg == Head(line[c])
       IN  IF NotEnough(msg)
           THEN npc' = [npc EXCEPT ![c] = "aborted"] /\ UNCHANGED history_log
           ELSE /\ npc' = [npc EXCEPT ![c] = Again(c)]
                /\ history_log' =
                      IF Logged(total_received'[c])
                      THEN [history_log EXCEPT ![c] = Append(@, mensaje_t(msg))]
                      ELSE history_log
    /\ UNCHANGED <<device, wire, engine_up, lost, bound, running, csv>>

RowCount_OneMore(c) == total_received[c] + 1

\* The rows of the file, whatever was logged and however long the array is.
RowCount(c) == total_received[c]

Entry(c, k) ==
    CASE k <= Len(history_log[c])                  -> history_log[c][k]
      [] k \in Len(history_log[c]) + 1 .. LOG_SIZE -> NoMensaje
      [] OTHER                                     -> Stray

\* fopen may fail, and a loop that leaves the array may kill the process before
\* the file is written.
SaveCsv(c) ==
    /\ npc[c] = "save"
    /\ \/ /\ csv' = [csv EXCEPT ![c] = <<[k \in 1 .. RowCount(c) |-> Entry(c, k)]>>]
          /\ npc' = [npc EXCEPT ![c] = "ended"]
       \/ npc' = [npc EXCEPT ![c] = "ended"] /\ UNCHANGED csv
       \/ /\ RowCount(c) > LOG_SIZE
          /\ npc' = [npc EXCEPT ![c] = "crashed"]
          /\ UNCHANGED csv
    /\ UNCHANGED <<device, wire, engine, bound, running, total_received,
                   history_log>>

NodeStep(c) == Bind(c) \/ RecvTimeout(c) \/ Recv(c) \/ SaveCsv(c)

-------------------------------------------------------------------------------

Next ==
    \/ \E h \in Host : Device(h) \/ EngineTake(h)
    \/ EngineStops
    \/ \E c \in Node : EngineLoses(c) \/ handle_sigint(c) \/ NodeStep(c)

\* Each program runs on; the engine's receiver takes from every connection in
\* turn for as long as it runs.  Nobody has to stop the engine, interrupt a
\* node or lose a message.
Fairness ==
    /\ \A h \in Host : WF_vars(Device(h)) /\ WF_vars(EngineTake(h))
    /\ \A c \in Node : WF_vars(NodeStep(c))

Spec == Init /\ [][Next]_vars /\ Fairness

-------------------------------------------------------------------------------
(* Properties                                                              *)

TypeOK ==
    /\ dpc \in [Host -> {"connect", "send", "close", "done", "failed"}]
    /\ \A h \in Host : sent[h] \in 0 .. AllMessages /\ Len(wire[h]) <= HWM
    /\ engine_up \in BOOLEAN
    /\ npc \in [Node -> {"bind", "recv", "save", "ended", "aborted",
                       "crashed"}]
    /\ bound \in [Node -> BOOLEAN] /\ running \in [Node -> BOOLEAN]
    /\ \A c \in Node : Len(history_log[c]) <= MAX_MSGS

\* The elements of a log that are from device h, by the function from, count up.
InOrderOf(h, from, log) ==
    \A j, k \in DOMAIN log :
        j < k /\ from[j] = h /\ from[k] = h =>
            log[j].message_id.m < log[k].message_id.m

\* A node's log is what its own devices sent, each message once, with its own
\* time and in the order sent, over all the series: the numbers of one device
\* never repeat or go back, so a gap is a loss.  Only where two devices have
\* the same twin (every unknown hostname takes twin 1, which is rbpi5-4's) are
\* two such sequences interleaved; twin 10 shows up nowhere.
SamplesInOrder ==
    \A c \in Node :
        LET log == history_log[c]
        IN  /\ \A k \in DOMAIN log :
                  /\ log[k].twin_id = c
                  /\ log[k].sending_ts = current_time_ms(log[k].message_id.m)
            /\ \E from \in [DOMAIN log -> DevicesOf(c)] :
                  /\ \A k \in DOMAIN log : log[k].message_id.m < base_value[from[k]]
                  /\ \A h \in DevicesOf(c) : InOrderOf(h, from, log)

\* The messages <<h, n>> for node c that have left the devices' connections.
Departed(c) ==
    {p \in DevicesOf(c) \X (0 .. AllMessages - 1) : p[2] < sent[p[1]] - Len(wire[p[1]])}

\* Every message that a device has sent is on its connection, with the engine,
\* at the node or lost by the engine: the wait in zmq_send and the wait of the
\* closing context see to it that a device drops nothing, full connection or not.
SamplesAccountedFor ==
    \A c \in Node :
        Cardinality(Departed(c)) = Len(line[c]) + total_received[c] + lost[c]

\* A saved file has a row for every message the node received, as its last
\* line of output says ("CSV guardado con %u mensajes").  But only the first
\* MAX_MSGS rows are the messages as they came; those after them, as far as the
\* array goes, hold no message at all.
CsvKeepsMessages ==
    \A c \in Node :
        \A rows \in ToSet(csv[c]) :
            /\ Len(rows) = Len(got[c])
            /\ \A k \in DOMAIN rows :
                  /\ k <= MAX_MSGS => rows[k] = mensaje_t(got[c][k])
                  /\ k \in MAX_MSGS + 1 .. LOG_SIZE => rows[k] = NoMensaje

\* The dump, whose loop nothing bounds but the number of messages received,
\* leaves the array only when more messages than it has entries had left the
\* node's devices.
DumpInBounds ==
    \A c \in Node :
        npc[c] = "crashed" \/ (\E rows \in ToSet(csv[c]) : Len(rows) > LOG_SIZE) =>
            Cardinality(Departed(c)) > LOG_SIZE

\* If the engine runs on, every device that connects comes to its end, though
\* zmq_send and the closing of the context may wait, and whether the nodes
\* read or not: no connection is starved by the others.
DevicesFinish ==
    <>(~engine_up \/ \A h \in Host : dpc[h] \in {"done", "failed"})

\* An interrupted node ends by way of its file, bound or not, and whatever the
\* engine has sent it, unless it has received more messages than its array
\* has entries: the return that would throw the log away is for messages that
\* no engine sends.
NodesSave ==
    \A c \in Node :
        ~running[c] ~> npc[c] = "ended" \/ total_received[c] > LOG_SIZE
===============================================================================
