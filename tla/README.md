# A verification of the Real-Time OpenTwins engine

TLA+ modules, TLC runs and TLAPS proofs for the digital-twin engine under
`engine/` (C, pthreads, ZeroMQ, MessagePack). Paths below are relative to the
repository (`src/` in `PROJECT.json`).

## 1. The system

The engine runs on a small board beside the devices it mirrors. Devices push
MessagePack messages to it; it keeps the latest value of each variable of each
twin, applies per-variable rules, forwards what the rules select to parent nodes,
and answers queries about its twins. `engine/tests/full_test_v1.c` and
`full_test_v2.c` are the programs that assemble it:

    devices --PUSH/PULL--> receiver --queue_in--> processor --queue_out_notify--> sender --PUSH--> parents
                                                  |     \--queue_out_user--> (nobody)
                                                  v
                                            twins_memory <--- api_server <--REQ/REP--- clients

| Component | State it keeps | Operations | Interacts with |
|---|---|---|---|
| `event_queue.c` | `events[QUEUE_SIZE]`, `head`, `tail` | `init_queue`, `push_event`, `pop_event` | two threads per queue, plain shared memory |
| `event_parser.c` | none (history log apart) | `deserialize_event` | called by the receiver; pushes to `queue_in` |
| `event_reciever.c` | PULL socket, 500 ms receive timeout | receive loop | shares one ZeroMQ context with the sender; ends by terminating it |
| `event_processor.c` | none | polling loop, `usleep(10)` when idle | pops `queue_in`, calls the dispatcher |
| `event_dispatcher.c` | two output queues | `dispatch_event`, `handle_event_update`, `handle_event_error` | writes `twins_memory`, consults `rule_engine`, pushes to both output queues |
| `rule_engine.c` | `error_rules[4]`, `update_rules[MAX_TWINS][MAX_VARS_PER_TWINS]` | `set_*_rule` before the threads start, two lookups | dispatcher |
| `twins_memory.c` | per twin: `vars[]`, `status`, `last_update_ms`, each atomic | init, update, get, set status | written by the processor, read and written by the API thread, no lock |
| `event_sender.c` | `connectors[MAX_TWINS]`, of which 0 to 4 are opened | `serialize_event`, `send_event`, send loop | pops `queue_out_notify`; waits in `zmq_send` |
| `api_server.c` | REP socket in a context of its own | GET_ALL, GET, DELETE, error answers | `twins_memory` |
| `core_binding.c` | none | pin a thread to a core, set real-time priority | prints and goes on when it fails |
| main programs | `keep_running`, the queues, history logs | configure, start, SIGINT, CSV dump | everything |
| `c_clients/src/zmq_send.c` | number of its next message | connect, series of messages, close | a device: PUSH to the receiver; waits in `zmq_send` and in `zmq_ctx_destroy` |
| `c_clients/src/zmq_recieve.c` | `history_log`, `total_received`, `running` | bind, receive loop, SIGINT, CSV dump | a parent node: PULL from the sender |
| `api/` (Crow) | chrony's configuration file | PATCH /configure rewrites it, POST /restart prints | HTTP clients |

What is hard to test here, and what correctness means:

* **The queues** are shared by two threads without locks, atomics or barriers.
  Correct: what one side pushes the other pops, whole, once, in order, and a full
  queue refuses instead of overwriting.
* **Batching.** A message with more variables than `MAX_VARS_PER_EVENT` becomes
  several events; any of them may be refused by a full queue. Correct: the batches
  are the message; memory holds the newest value that came through.
* **Back pressure.** One parent that does not read stops the sender for all twins
  (`zmq_send` waits), then `queue_out_notify` fills and the dispatcher drops
  notifications silently. Correct: parents see an ordered part of their own
  twin's notifications, and what is missing was refused at that one place.
* **Shutdown.** Three loops test `keep_running` once a turn; the receiver needs
  its timeout to get there, the sender may be waiting in `zmq_send`. Correct:
  all loops end.
* **Messages that end early.** Only the first call of the unpacker is checked; what
  is missing is filled with the item read last. Correct: what did arrive is decoded
  in its place, and what is made up comes from the same message.
* **The latency test.** Its result is a CSV that a node saves when it is
  interrupted, after devices, engine and node have each waited for one another or
  dropped something. Correct: as far as the log goes the file is a faithful, ordered
  record, a gap in the numbers of a device is a loss in the engine, the dump stays in
  its array, and everybody ends.
* **Unlocked queries.** An update is three atomic stores and a query many loads.
  Correct: a twin reported OK comes with the data that made it OK; a deleted twin
  stays deleted until it is updated again; every request is answered, and the
  thread ends with the request after SIGINT.
* **Limits.** 16-bit variable ids go through an 8-bit parameter; ids at
  `MAX_TWINS` arrive from the repository's own clients; five connectors are
  opened for ten twins.
* **Start and end of the process.** Receiver and sender share a ZeroMQ context that
  each of them terminates, also when its own start fails, main starts them without
  looking at the result, and dumps logs
  that detached threads may still write. Correct: the process ends; the dump is
  in bounds and complete but for its last row (which takes a main that sees the
  threads' stores in order).
* **The chrony configuration** is truncated and rewritten in place. Correct: the
  file says what the last PATCH of each field said; a repeated PATCH is harmless; a
  PATCH that is written whole holds even in a file that a crash has cut short.

`PROJECT.json` lists all of this line by line under `hazards`.

## 2. The modules

| Module | Models | How |
|---|---|---|
| `BoundedFifo` | what a queue promises | a sequence of at most a given number of events, with send, refuse, receive and find-empty steps |
| `EventQueue` | `event_queue.c` | every access to shared memory of one producer and one consumer is a step; an event is a struct of words copied one word at a time |
| `EventQueueProofs` | | theorems about `EventQueue` |
| `EventParser` | `deserialize_event`, `serialize_event` | pure operators on a stream of items, closed forms |
| `EventParserProofs` | | lemmas about items, batches and the way there and back, for the proofs that use the parser |
| `EventLink`, `MCEventLink` | one message through two engines | decode, forward event by event, decode again |
| `EventLinkProofs` | | theorems about `EventLink` |
| `TwinEngine`, `MCTwinEngine` | receiver, processor with dispatcher and rules, sender, SIGINT, parents | the three threads interleaved with each other and with the outside; the queues are bounded FIFOs, which `EventQueue` shows them to be |
| `TwinEngineProofs` | | theorems about `TwinEngine` |
| `LossyChannel` | what the engine promises a parent node | one line per node: messages are sent, lost or handed over, never mixed, repeated or reordered |
| `LatencyTest`, `MCLatencyTest` | `zmq_send.c`, `zmq_recieve.c` and the engine between them | devices, nodes and an engine that is one `LossyChannel` per node, interleaved |
| `LatencyTestProofs` | | theorems about `LatencyTest` |
| `TwinsApi` | `twins_memory.c` and `api_server.c` | every atomic store and load is a step |
| `TwinsApiProofs` | | theorems about `TwinsApi` |
| `EngineLifecycle` | start, failed start, shutdown and CSV dump of full_test_v2 | socket by socket, the stores into a record and the loads from it field by field |
| `EngineLifecycleProofs` | | theorems about `EngineLifecycle` |
| `ChronyService`, `MCChronyService` | PATCH /configure | read, truncate, write line by line, with failures and crashes |
| `ChronyServiceProofs` | | theorems about `ChronyService` |

Definitions keep the names of the functions they stand for; `map` in
`PROJECT.json` gives the lines of each. Definitions with an underscore and a word
after the name of another (`Full_OneMore`, `StoreStatus_First`) are plausible
bugs, kept to show that the property named in `PROJECT.json` would notice them.

### EventQueue

`head` and `tail` are the indices in memory; `ppc`/`cpc` say which access the
producer and the consumer do next, and the locals hold what each has read. A push
reads `tail`, writes the slot word by word, writes `head`; a pop reads `head`,
copies the slot word by word, writes `tail`. `InOrder` says whether the producer's
stores become visible in program order, which is the case when both threads run
on one core (all three engine threads ask for core 1) or on a strongly ordered
machine. With `InOrder = FALSE` the store of `head` may overtake the stores of the
event, as AArch64 allows between two cores. Reordering on the consumer's side is
not modelled: the weak case is there to show that the code depends on the order,
not to describe a memory model.

### EventParser and EventLink

A message is a MessagePack array: the size it declares, and the items that are
there, type, timestamp, deviation and twin first. `Unpacked(msg, k)` is what
cwpack's context holds after the k-th call: past the end of the message the call
fails, and the bits of the last item stay where the code reads them. So a message
that ends early is decoded here as it is in the code: an error without a code has
its twin's id for one, and missing updates repeat the last item. The size check is
computed modulo `UINT32`, as `5 + var_count * 2` is in C.

Numbers keep their format, because the code treats the formats differently: a
float is taken as it is; of a double the code reads the float member of cwpack's
union, that is the low half of its bits; an integer is stored in the integer
member of `var_value_t` and read as a float later on, a denormal. `Float(n)` with
a flag `tiny` stands for these values. Variable ids, twin ids and counts are cut to
their widths. What the code reads through `as.u64` is `AsU64`: an integer itself; of
a float, which is read so only for the id of an update the message has no room for,
its low 16 bits (`Low16`); of a double of a small whole number, zeros.

`Message` says which messages are meant: the declared size is any `uint32_t`, the
items are non-negative integers, floats and doubles of whole numbers, and strings;
type, timestamp, twin and count are integers where they are there at all (the
deviation, which the Python client sends as a float, may be any item unless the
message ends with it), and the readings of an update are numbers. Nil, booleans, negative integers,
maps and nested arrays, which no client of the repository sends, are left out.

Also left out: messages longer than the receiver's buffer of `ZMQ_BUFFER_SIZE` bytes,
and ones whose first item is no array; the deviation, which nobody reads and the C
clients send as 0; the text of an error, which is only printed.

### TwinEngine

| Variables | Code |
|---|---|
| `configured`, `error_rules`, `update_rules` | the tables of `rule_engine.c`, and how far main's calls have got |
| `rpc`, `rx`, `received` | `zmq_receiver_thread`: waiting or pushing; the batches it has still to push |
| `ppc`, `event`, `i`, `out` | `event_processor_loop`: popping, in either loop of `handle_event_update`, in `handle_event_error`, pushing |
| `twin_vars`, `status` | `twins_memory` |
| `spc`, `tx` | `zmq_sender_thread`: popping or in `zmq_send` |
| `pipe`, `delivered` | the connectors' message pipes, and what the parents have taken |
| `accepted`, `refused` | history, for the properties only |

One turn of a loop that touches several shared things is several actions: each
push, each update of a variable, each pop is a step of its own. The test of
`keep_running` at the end of a turn is part of the turn's last action (`Again`).
`twins_memory` starts as `twins_memory_init` leaves it (full_test_v2; v1 does not
call it). Each message carries its number as its time, and each reading the
number of its message and its place in it, so that the properties can tell which
one ended up where.

Under `ImplementsRelay` the engine is a `LossyChannel`: what is on its way to a
parent is what the dispatcher, `queue_out_notify`, the sender and the connector
hold for it (`OnItsWay`), and what was handed over is `delivered`. A push that is
refused and a send that the shutdown cuts off are the channel's losses; every other
step of the engine sends, hands over or changes nothing.

HALT_ENGINE, SET_TWIN_ALARM and the notification of errors have branches in
`handle_event_error` that only print; the model does nothing in them, like the
code. Rules with CALL_USER_SERVICE and error rules are calls the interface allows;
full_test_v2 itself only sets NOTIFY_UPWARDS for variable 0 of twins 0 to 4.
SIGINT may come at any time, before the threads have started too: the handler is
installed first, and main goes on to configure and to start the threads. Their loops
would then end at the first test; the model lets each make one turn before.

### TwinsApi

The processor's side is `twins_memory_update_var`, store by store, with any id;
the client's side is any request, one at a time. A value is the number of the
update that wrote it. `okBy` and `since` remember which update stored an OK, for
`OkComesWithItsData` only. C11's default ordering of the atomic accesses makes the
interleaving of steps exact here. No program in the repository runs the API
beside the processor yet (`rpc_server_test.c` runs it alone, after an update);
the module is about the two threads that README.md and the comments of
`twins_memory.c` describe. `UINT64_MAX` stands for what
`cw_pack_unsigned` makes of the -1 of an unknown twin.

The thread begins with `zmq_bind`, which may fail and then ends it. `zmq_recv`
has no timeout here and SIGINT goes to the main thread, so that the thread sees
`keep_running` only after an answer (`Again`).

### LatencyTest

`Host` are the machines that run `zmq_send.c`; `TwinId` is the chain of
comparisons that gives each its twin, with twin 1 for a hostname it does not know
and twin 10, which the engine has no rule for, for `rbpi5-2`. A node is the machine
of a twin that full_test_v2 notifies. The devices' series differ only in the pauses
between them, so the nested loops are one count, `sent`, up to the sum of
`pruebas`; `base_value`, the number that goes into the message, is kept apart from
it. `wire` is what ZeroMQ holds between a device and the engine: `zmq_send` waits
while it is full, `zmq_ctx_destroy` until it is empty (ZeroMQ's default of an
unlimited linger). The engine takes a message, decodes and encodes it as
`EventParser` says, and hands it to the `LossyChannel` of the node; it may lose any
message, and may stop, with what its own socket had taken already.

A node counts what it receives and logs the first `MAX_MSGS` of it. When it is
interrupted it writes a row for each message it has counted (`RowCount`), whatever
was logged: rows of zeros where nothing was, and beyond the `LOG_SIZE` entries of
its array (8000000, against a `MAX_MSGS` of 1000000) whatever lies there (`Stray`),
unless reading it kills the process first (`crashed`). One device sends 6860
messages, so it takes 146 runs of a device against one node to pass `MAX_MSGS` and
1167 to pass `LOG_SIZE`; the model has both within reach. `CsvKeepsMessages` says
which rows can be relied upon, and `DumpInBounds` that the array is left only when
the node's devices had sent more than it holds. A message with too few items makes a node return
without a file; `NodesSave` shows that no message of the engine does.

### EngineLifecycle

main starts the sender and then the receiver; `pthread_create` may fail, which main
does not notice. `pc` follows the receiver and the sender from `zmq_socket` to their return, `ctx`
is the shared context, `pull` and `connectors` the sockets that are open in it.
`zmq_ctx_term` is two steps: the call, after which every call on a socket fails,
and the return, when the last socket is closed and the context is freed. A thread
that is about to make a call on a freed context makes no further step in the
model, since what would follow is undefined. With `MayFail` every call that the code
tests may fail: `pthread_create`, `zmq_socket` (`NoSocket`), `zmq_bind`,
`zmq_connect`.

A record of a history log is the set of its fields that main would find written.
A thread reserves a record by counting up the index; its stores are then `unseen`
and become visible one by one, in any order (`Log`), as the compiler may order
them. main reads the index, then each record field by field (`MainLoad`), in any
order too, with the threads' stores in between. `InOrder` says whether the stores
into one record are visible before the index is counted up for the next: the code
uses `memory_order_relaxed` and plain stores, so this is what a machine with total
store order gives, or main dumping on the core of the threads. With `InOrder =
FALSE` a thread goes on while main still misses some of its stores. As in
`EventQueue`, the weak case shows what the code depends on and is no memory model
(main's loads are not reordered with its load of the index).

The processor thread has no part in
any of this and is left out; so is `ZMQ_LINGER` (messages not yet delivered only
delay the freeing of the context, which nothing in the model hurries).

### ChronyService

The file is a sequence of lines, a line the field its text begins with and a
value; what it holds at the beginning is one of the constant `Files`. A missing
field is added by its own `AddedFor`, one per `if` of the code, all four against the
lines that were read. Crow runs handlers in `concurrency - 1` worker threads, and the default
concurrency is 2, which `main.cpp` does not change (its comment says "con soporte
multihilo"): one request at a time. With `.multithreaded()` the read and the
rewriting of two requests would interleave and this model would not apply.
JSON is left out: a field that is missing or of the wrong type is not asked for.
Values are taken to be one line each. The code does not check that: the text of a
server may be any JSON string, one with a line break would be written as several
lines, and a later PATCH would replace the first of them and keep the others, so
that neither `PatchesAddUp` nor `UpdateIsIdempotent` would hold.

## 3. The runs

| Run | Shows |
|---|---|
| `queue` | ring of 3 slots, events of two words with two values each, stores in order: no two threads in one slot, no torn event, the ring implements `BoundedFifo`, what is pushed is popped |
| `queue_weak` | the same without in-order stores: a torn event (finding) |
| `link` | all update messages of 0 to 7 variables in three number formats with any declared count, the same cut short after any item, counts that wrap, errors with and without a code: batches are what arrived, what is missing comes from the same message, a parent engine decodes the same events |
| `link_numbers` | readings sent as doubles or integers do not survive (finding) |
| `engine` | three messages of six kinds through the pipeline: memory, notifications, user queue, connectors; what is accepted is dispatched, what is notified arrives while the parents read, all three loops end after SIGINT, and the whole implements `LossyChannel` |
| `engine_halt` | dispatching goes on after SENSOR_FAILURE (finding) |
| `api` | two updates and two requests, interleaved access by access: answers are consistent, every request has one, and the thread ends with the request after SIGINT |
| `latency` | three devices, two of them on one twin and one without a node, the engine losing what it likes or stopping, a node that is interrupted at any time: as far as the log goes its CSV is an ordered record of its devices, every message is accounted for, the dump leaves its array only when there were more messages than entries, devices and nodes end |
| `lifecycle` | threads that cannot be created, failed and successful starts, SIGINT at any time, dump, with stores seen in order: the process ends, only the last row of a file can be torn, the dump stays in the log |
| `lifecycle_context` | both threads terminate the context (finding) |
| `chrony` | two PATCH requests, failing opens and writes, crashes: patches add up, other lines are kept, a repeated PATCH changes nothing, a PATCH written whole holds in a damaged file |
| `chrony_write_error` | a failed write is answered 200 (finding) |

**Bounds.** Three slots are the fewest with a ring that wraps while holding more
than one event; two words the fewest that can tear. `MAX_VARS_PER_EVENT = 3` with
up to seven variables has empty, partly full, exactly full and several batches.
The engine's queues hold two events: a message of two batches and another one
fill `queue_in`, and with `SNDHWM = 1` a parent that stops reading fills
`queue_out_notify` within three messages of two batches. Three twins
of which two have rules and a connector are the shape of full_test_v2 (ten and
five); two variables tell "this one" from "another one", and variable 2, twin 3 and variable 256 are
the first out of range of the arrays and of a byte. In `TwinsApi` two updates are what it takes
to mix the status of one with the variables of another, and two requests to
follow a DELETE by a GET. In `LatencyTest` three hosts are one with
a twin of its own, one that shares it and one that is not notified; with `HWM = 1`
every device meets a full connection, two series of one message have a border to
number across, and `MAX_MSGS = 2` and `LOG_SIZE = 3` are fewer than the four messages
that the node may get, each by another number. In the parser's runs `UINT32` is 64, above every size but within reach of a
count that wraps. In `EngineLifecycle` a second connector is what a failing
sender can leave open, and three events overrun two records. In `ChronyService` a
request sets up to two of the four fields, the initial file has none, one or two
lines of a field, and a second request meets what a first one, or its failure,
left behind.

**Fairness.** Each engine thread is scheduled again and again: every turn ends in
`usleep` or in ZeroMQ, and `zmq_recv` returns within its timeout
(`WF` of the receiver without the arrival of messages, of the processor, of the
sender, of the API server), and main gets through its configuration, which waits
for nothing (`WF` of `Configure`). Arrivals, requests and SIGINT are never assumed.
That the parents read is a premise of `NotificationsArrive` only;
`ShutdownCompletes` is checked without it: a parent may never read again. The
liveness properties of the pipeline say that it runs empty again and again, which
is meant for devices that pause, as they do here after `MaxMessages`.
`EngineLifecycle` assumes progress of main and of no other thread.
In `LatencyTest` each device and node makes its next step when it can, and the
engine takes from each connection again and again while it is up (ZeroMQ's PULL
socket queues fairly, and the receiver never waits for the rest of the engine:
`queue_in` refuses instead); it may stop at any time, and nobody has to be
interrupted. In `TwinsApi` `StopsAtNextRequest` takes the next request as its
premise: without one the thread stays in `zmq_recv`, and the model has that too.

**Deadlock** is not checked where the system may stop: after SIGINT, or when the
bound on messages, updates or requests is used up.

## 4. The proofs

`EventQueueProofs` proves, for every positive `QUEUE_SIZE` and every set of
words and values (`QueueAssumption`):

* `TypeCorrect`: `Spec => []TypeOK`, in whatever order stores are seen;
* `SlotRaceFreedom`, `EventsAreWhole`: `NoSlotRace` and `NoTornEvent`, if `InOrder`;
* `QueueIsFifo`: `Spec => ImplementsFifo`, if `InOrder`: the safety part of
  the refinement of `BoundedFifo`, under the mapping that reads the contents from
  `tail` up to `head`, modulo `QUEUE_SIZE`.

None of the safety properties is inductive: that the producer's slot is free is
known only from a `tail` it read some time ago, and that the copy so far is right
only from what the consumer knew of `head`. `IndInv` adds both: in
`ProducerInv`, while the producer is past its check, the slot at `head` is not
among the occupied ones even though `tail` may have moved since, and the words it
has stored so far are those of its event; in `ConsumerInv`, while the consumer
copies, its slot is occupied and the words it has copied are the slot's. TLC
checked `IndInv` as an invariant before it was proved. The refinement rests on
lemmas about the contents sequence: publishing appends to it (`PublishAppends`),
releasing takes its head (`ReleaseRemovesHead`), and storing into the free slot
leaves it alone (`StoreIsInvisible`); these rest on the arithmetic of `NextIndex`.

`TwinsApiProofs` proves, for any positive number of twins and of variables and any
bounds on updates and requests (`ApiAssumption`):

* `TypeCorrect`: `Spec => []TypeOK`; the loops of GET and GET_ALL never leave the
  range of the variables (`LoopRanges`);
* `DeletedStaysDeleted`: `Spec => []DeleteHolds`. It is not inductive alone: the
  status store of an update that is under way would undo a DELETE. `DeleteInv` adds
  that no update under way is of a quiet twin: an update takes its twin out of
  `quiet` when it begins, and DELETE puts a twin there only if none has begun.

* `OkAlwaysComesWithItsData`, `AnswersAreAlwaysAboutTheTwin`. `AnswerInv` says
  of memory that each variable holds the number of an update that was of this
  variable, and that a twin marked OK by update n has a variable at least as new as n
  (`MemoryInv`); of a reply under way it says which entries are packed and how far
  the two loops are (`ReplyInv`). What carries a reply past the stores that are made
  beside it is `MemoryGrows`: no step of anyone takes a variable back to an older
  value, so a value not yet loaded can only be better when it is.

`EventParserProofs` has the lemmas about the parser that three other modules
need, for every positive `MAX_VARS_PER_EVENT` and every even `UINT32` that
exceeds the size of one full event (`BatchAssumption`): the types of what the
unpacker holds past the end of a message, the sizes and places of `Batches`, and
that `deserialize_event` undoes `serialize_event`. `Batches` is a closed form, one
`SubSeq` per batch, so none of this needs induction.

`EventLinkProofs` proves all five invariants of `EventLink` for every message
in `Message`, of any length and whatever size it declares
(`LinkAssumption`; section 2 says which items that leaves out): `TypeCorrect`, `BatchesAlwaysCoverMessage`,
`WhatArrivedIsAlwaysKept`, `NothingIsEverInvented`, `ParentAlwaysSeesTheSame`. The
invariant is short (`LinkInv`: the result is the parser's, and the parent has
decoded the events so far); the work is in the arithmetic of batches and of the
size check modulo `UINT32`.

`TwinEngineProofs` proves all the safety properties of the pipeline, for any
queue size, numbers of twins, variables and connectors, high-water mark, any
messages (`MessageAssumption`), and any rules that ask for notifications only of
twins with a connector (`RuleAssumption`, which full_test_v2 satisfies and without
which `ConnectorInitialised` is false):

* `TypeCorrect`, `ConnectorAlwaysInitialised`, `MemoryIsAlwaysLatest`, from
  `EngineInv`. Its parts: rules name only twins with a connector (`RulesInv`);
  nothing runs before main has set its rules (`StartInv`); `queue_in` is the end of
  what was accepted, and the event at work is the one before it (`ProcessorInv`);
  what the dispatcher has yet to push is what the rules make of that event
  (`DispatcherInv`); what is on the way to the sender is for a connector
  (`OutputInv`); each variable holds the value of the latest write among those the
  processor has come to (`MemoryInv`).
* `EngineImplementsRelay`: the refinement of `LossyChannel`. Every step of every
  thread changes the line of at most one channel (`ChannelStep`), and it does so by
  keeping it, adding at its end, taking one out of its middle, or handing over its
  first message (`Keeps`, `Sends`, `Loses`, `Delivers`). The difficulty is that a
  line is spread over the dispatcher, a queue shared by all twins, the sender and the
  pipe: the lemmas on `ElementsAt` say how the part of a sequence that belongs to
  one twin changes when the whole is appended to or loses its head.
* `NotificationsAlwaysInOrder`: `NotesInv` keeps an increasing matching from what
  went to a parent to what was due to it (`Matched`), and the count of the rest;
  each of the four kinds of channel step preserves it.
* `UserQueueAlwaysKeepsOldest`: `UserInv`, with the event that the dispatcher has
  yet to push (`ToGo`) taken off.

`LatencyTestProofs` proves the safety properties of the latency test for any
finite set of devices, any series of at most 2^24 messages (whole numbers up to
there are exact in the float that carries them: `CountAssumption`) and any sizes:

* `TypeCorrect`, `CsvAlwaysKeepsMessages`, `SamplesAlwaysInOrder`, from
  `LatencyInv`: a connection holds the consecutive messages that its device sent
  last (`DeviceInv`); count, log and file are functions of what was handed over
  (`NodeInv`); the messages handed over and on the line together can be assigned to
  the node's devices so that each device's numbers increase (`OrderInv`, an
  existential over assignments, extended by one place when the engine takes a message
  and restricted when it loses one);
* `SamplesAlwaysAccountedFor`, by counting: `AccountInv` equates the number of pairs
  of a device and a message number that have left (`Departed`) with what is on the
  line, at the node and lost;
* `DumpAlwaysInBounds`, from both: a dump has as many rows as the node received, and
  no more can have been received than have left its devices.

`EngineLifecycleProofs` proves, for any number of connectors, records and events,
`TypeCorrect`, in whatever order stores are seen, and `OnlyLastRowTornAlways`, if
`InOrder`. `LogInv` adds that the stores main does not see yet are into the last
record a thread was given, so that every other record is complete or untouched
(`WritesLastRecord`), how far the dump has got (`DumpProgress`), and that the row
under way, unless it is the last, is what its record holds (`RowIsRecord`): main
loads it field by field, but no store can come in between.

`ChronyServiceProofs` proves `TypeCorrect`, `PatchesAlwaysAddUp`,
`CompletePatchAlwaysHolds` and `UpdateIsAlwaysIdempotent` for every set of files and values and any number of
requests. `FileInv` adds that the lines in memory are the file as it was found, edited
(`EditsWhatItFound`), and that this file was good while the one on disk is being
rewritten (`GoodFile`). The lemmas describe an edited file line by line
(`EditedAs`); that it holds what was asked for on top of what it held
(`EditedHolds`), keeps the other lines (`EditedKeepsOthers`) and is a fixed point
(`EditedTwice`) follows.

With this every invariant and every refinement that a passing run checks is proved
for all values of the constants. Three properties were restated for it, none of
them weaker. `NotificationsInOrder` names an increasing matching where it used a
recursive subsequence test; `SamplesAccountedFor` counts a set of messages where it
summed over devices; `PatchesAddUp` says that the other lines keep their
places, where it compared the filtered files and so only their order.

Only model-checked: the liveness properties (`EventuallyPopped`,
`AcceptedIsDispatched`, `NotificationsArrive`, `ShutdownCompletes`, `DevicesFinish`,
`NodesSave`, `ProcessEnds`, `EveryRequestAnswered`, `StopsAtNextRequest`), which
need fairness and `ENABLED`, out of the prover's reach; and that `AllMessages`, a sum
over the series, is the natural number that `CountAssumption` takes it for, which
would need induction over the sequence and is evaluated by TLC instead. The proofs
take about ten minutes from nothing, most of it `TwinEngineProofs`.

## 5. What the findings are

1. `push_event` has no barrier (`queue_weak`): README.md calls the queue
   thread-safe; it is so only while producer and consumer are on one core, and a
   failed pinning is only printed.
2. Doubles and integers are decoded to other numbers (`link_numbers`).
3. HALT_ENGINE does not halt (`engine_halt`).
4. Receiver and sender both terminate the one context (`lifecycle_context`).
5. A configuration that could not be written is reported as written
   (`chrony_write_error`).

Also met, and not stated by a run: five connectors are opened for ten twins, so a
notify rule for twins 5 to 9 makes the sender use an uninitialised pointer (the
code calls this provisional; `ConnectorInitialised` holds for the rules of
full_test_v2). A sender whose second connect fails waits for ever in
`zmq_ctx_destroy` for its own first socket, while the receiver's loop spins on
failing calls without sleeping. A variable id is cut to a byte before its range
check, so that an update of variable 256 is one of variable 0 (`MemoryIsLatest`
says which value that leaves in memory; the rules see the full id). A var_count
whose double wraps passes the size check, and the parser goes on for as many
updates as it says, all of them repetitions of the last item. The node of the
latency test ignores a failed `zmq_bind`; it says "CSV guardado con %u mensajes" of
rows that hold zeros once it has more than `MAX_MSGS` messages, and with more than
its array has entries the dump reads past the end. main dumps the history logs of
threads it does not wait for, after relaxed reads of the indices: on another core of
an AArch64 board rows before the last can be half written, too (TLC finds one when
`InOrder` is set to `FALSE` in `EngineLifecycle.cfg`). Comments give the processor
and the sender cores 2 and 3 where the code says core 1.

## 6. Not modelled

Connections that break and lose what was on the wire (in `LatencyTest` the engine
loses, the network does not); messages that exceed the receiver's buffer;
`core_binding.c` and the copies of it in the clients (its outcome is `InOrder`);
printing; cwpack, ZeroMQ and Crow beyond how the engine uses them; `OtroController`
(no state); the MQTT prototype `old-ot-lw-testing` (superseded); the component
tests, which make single calls of modelled components; the Python clients, whose
messages and requests the models' environments contain; the scripts that measure
power and resources.

## 7. Plan

Done, in this order: `EventQueue` with `BoundedFifo` and its proofs;
`EventParser` and `EventLink`; `TwinEngine`; `TwinsApi` and its first proofs; `EngineLifecycle`;
`ChronyService`; messages that end early; `LossyChannel` and the refinement;
`LatencyTest`; the start of the API server and of the threads; the proofs about
`EngineLifecycle`, `TwinsApi`, `EventLink`, `LatencyTest`, `TwinEngine` and
`ChronyService`. Next:

1. **Action properties** that the invariants already imply but no run states: the
   stores of memory only replace a value by a newer one (`MemoryGrows` of
   `TwinsApiProofs` is such a step property); a row of a dumped CSV never changes.
2. **The pipeline on real queues**: `TwinEngine`'s use of `queue_in` composed with
   `EventQueue` through `BoundedFifo`, so that the assumption "a queue is a
   sequence" becomes a refinement.
3. **The devices behind the engine**: `LatencyTest` takes a `LossyChannel` for the
   engine and `TwinEngine` is proved to implement one; the composition of the two is
   argued here and not stated as a theorem.
