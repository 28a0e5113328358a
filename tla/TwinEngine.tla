------------------------------ MODULE TwinEngine ------------------------------
(***************************************************************************)
(* The pipeline that full_test_v1 and full_test_v2 assemble:               *)
(*                                                                         *)
(*   devices -> receiver -> queue_in -> processor -> queue_out_notify      *)
(*           -> sender -> one PUSH connector per twin -> parent nodes      *)
(*                                                                         *)
(* with queue_out_user and twins_memory written by the processor thread.   *)
(* The three queues are bounded FIFOs, which is what EventQueue shows      *)
(* event_queue.c to be.  Each thread is a loop on keep_running; a thread   *)
(* tests it as it finishes one turn, and SIGINT may come in any turn.      *)
(* The history logs, kept for the latency tests, are left out, as is what  *)
(* happens to the ZeroMQ context after the loops have ended.               *)
(***************************************************************************)
EXTENDS EventParser, FiniteSets

CONSTANTS QUEUE_SIZE,
          MAX_TWINS,
          MAX_VARS_PER_TWINS,
          CONNECTORS,     \* connectors zmq_sender_thread opens, from 0 up
          SNDHWM,         \* messages a connector's pipe holds
          UserRules,      \* the set_*_rule calls main makes, in order
          Messages,       \* what the devices may send, readings left out
          MaxMessages     \* bound on the messages received

ASSUME EngineAssumption ==
    /\ QUEUE_SIZE \in Nat \ {0}
    /\ MAX_TWINS \in Nat /\ MAX_VARS_PER_TWINS \in Nat
    /\ CONNECTORS \in Nat /\ SNDHWM \in Nat /\ MaxMessages \in Nat

ASSUME MessageAssumption == Messages \subseteq Message

Twins     == 0 .. MAX_TWINS - 1
Vars      == 0 .. MAX_VARS_PER_TWINS - 1
Connector == 0 .. CONNECTORS - 1
ErrorCodes == 0 .. 3
Actions   == {"IGNORE", "NOTIFY_UPWARDS", "HALT_ENGINE", "SET_TWIN_ALARM",
              "CALL_USER_SERVICE"}

Rule ==
    [rule : {"update"}, twin_id : Nat, var_id : Nat, action : Actions]
    \cup [rule : {"error"}, code : Nat, action : Actions]

\* main asks for notifications only for twins that have a connector, or that
\* set_update_rule does not take.
ASSUME RuleAssumption ==
    /\ UserRules \in Seq(Rule)
    /\ \A k \in DOMAIN UserRules :
          LET r == UserRules[k]
          IN  r.rule = "update" /\ r.action = "NOTIFY_UPWARDS" /\ r.twin_id \in Twins
                  => r.twin_id \in Connector

VARIABLES
    configured,         \* how many of UserRules main has applied
    error_rules, update_rules,
    keep_running,
    rpc, rx,            \* receiver: where it is, events it has still to push
    received,           \* messages received
    queue_in,
    ppc, event, i,      \* processor: where it is, its event, the loop index
    out,                \* events the dispatcher has still to push, by queue
    twin_vars, status,  \* twins_memory
    queue_out_notify, queue_out_user,
    spc, tx,            \* sender: where it is, its event
    pipe,               \* messages in each connector
    \* what happened so far, for the properties
    accepted,           \* events that entered queue_in, in order
    refused,            \* notifications refused or cut off, by twin
    delivered           \* messages each parent node has received

rules    == <<configured, error_rules, update_rules>>
receiver == <<rpc, rx, received>>
processor == <<ppc, event, i, out, twin_vars, status>>
outputs  == <<queue_out_notify, queue_out_user>>
sender   == <<spc, tx>>
network  == <<pipe, delivered>>
history  == <<accepted, refused>>
vars == <<rules, keep_running, receiver, queue_in, processor, outputs, sender,
          network, history>>

NoEvent == UpdateEvent(0, 0, << >>)

Full_OneMore(q) == Len(q) = QUEUE_SIZE

Full(q) == Len(q) = QUEUE_SIZE - 1

push_event(q, e) == IF Full(q) THEN q ELSE Append(q, e)

Again_Forever(top) == top

Again_Inverted(top) == IF keep_running THEN "exited" ELSE top

\* The test of while(keep_running) at the end of a turn.
Again(top) == IF keep_running THEN top ELSE "exited"

rule_engine_init ==
    /\ error_rules = [c \in ErrorCodes |->
           CASE c = 0 -> "SET_TWIN_ALARM" [] c = 1 -> "HALT_ENGINE"
             [] c = 2 -> "NOTIFY_UPWARDS" [] c = 3 -> "IGNORE"]
    /\ update_rules = [t \in Twins |-> [v \in Vars |-> "IGNORE"]]

Init ==
    /\ configured = 0
    /\ rule_engine_init
    /\ keep_running = TRUE
    /\ rpc = "recv" /\ rx = << >> /\ received = 0
    /\ queue_in = << >> /\ queue_out_notify = << >> /\ queue_out_user = << >>
    /\ ppc = "pop" /\ event = NoEvent /\ i = 0 /\ out = << >>
    /\ twin_vars = [t \in Twins |-> [v \in Vars |-> Zero]]
    /\ status = [t \in Twins |-> 2]
    /\ spc = "pop" /\ tx = NoEvent
    /\ pipe = [c \in Connector |-> << >>]
    /\ accepted = << >>
    /\ refused = [t \in Twins |-> 0]
    /\ delivered = [c \in Connector |-> << >>]

-------------------------------------------------------------------------------
(* main: rules first, then the threads                                     *)

Started == configured = Len(UserRules)

set_error_rule(code, action) ==
    /\ error_rules' = IF code \in ErrorCodes
                      THEN [error_rules EXCEPT ![code] = action] ELSE error_rules
    /\ UNCHANGED update_rules

set_update_rule(twin_id, var_id, action) ==
    /\ update_rules' = IF twin_id \in Twins /\ var_id \in Vars
                       THEN [update_rules EXCEPT ![twin_id][var_id] = action]
                       ELSE update_rules
    /\ UNCHANGED error_rules

Configure ==
    /\ ~Started
    /\ configured' = configured + 1
    /\ LET r == UserRules[configured + 1]
       IN  \/ r.rule = "error" /\ set_error_rule(r.code, r.action)
           \/ r.rule = "update" /\ set_update_rule(r.twin_id, r.var_id, r.action)
    /\ UNCHANGED <<keep_running, receiver, queue_in, processor, outputs, sender,
                   network, history>>

\* It may come at any time, the handler being installed first.  A thread that
\* starts only then would leave at its first test of keep_running; here it may
\* make the turn it would have made had the signal come just after that test.
handle_sigint ==
    /\ keep_running
    /\ keep_running' = FALSE
    /\ UNCHANGED <<rules, receiver, queue_in, processor, outputs, sender,
                   network, history>>

-------------------------------------------------------------------------------
(* zmq_receiver_thread                                                     *)

\* zmq_recv gives up after its 500 ms timeout.
RecvTimeout ==
    /\ Started
    /\ rpc = "recv"
    /\ rpc' = Again("recv")
    /\ UNCHANGED <<rules, keep_running, rx, received, queue_in, processor,
                   outputs, sender, network, history>>

\* The n-th message carries its own time and readings.
Stamped(m, n) ==
    LET Stamp(k) == CASE k = 2 -> IntItem(n)
                      [] k # 2 /\ m.items[k].kind = "float" ->
                             FloatItem(Float(10 * n + k))
                      [] OTHER -> m.items[k]
    IN  [m EXCEPT !.items = [k \in DOMAIN m.items |-> Stamp(k)]]

Recv(m) ==
    /\ Started
    /\ rpc = "recv"
    /\ received < MaxMessages
    /\ received' = received + 1
    /\ rx' = deserialize_event(Stamped(m, received + 1)).events
    /\ rpc' = IF rx' = << >> THEN Again("recv") ELSE "push"
    /\ UNCHANGED <<rules, keep_running, queue_in, processor, outputs, sender,
                   network, history>>

\* One push_event of deserialize_event.  A refused event is dropped, and the
\* loop goes on with the next batch.
RecvPush ==
    /\ rpc = "push"
    /\ queue_in' = push_event(queue_in, Head(rx))
    /\ accepted' = IF Full(queue_in) THEN accepted ELSE Append(accepted, Head(rx))
    /\ rx' = Tail(rx)
    /\ rpc' = IF rx' = << >> THEN Again("recv") ELSE "push"
    /\ UNCHANGED <<rules, keep_running, received, processor, outputs, sender,
                   network, refused>>

Receiver == RecvTimeout \/ (\E m \in Messages : Recv(m)) \/ RecvPush

-------------------------------------------------------------------------------
(* event_processor_loop and the dispatcher                                 *)

ProcIdle ==
    /\ Started
    /\ ppc = "pop"
    /\ queue_in = << >>
    /\ ppc' = Again("pop")
    /\ UNCHANGED <<rules, keep_running, receiver, queue_in, event, i, out,
                   twin_vars, status, outputs, sender, network, history>>

\* The parser lets no other type through.
dispatch_event(e) == IF e.type = EVENT_UPDATE THEN "update" ELSE "error"

ProcPop ==
    /\ Started
    /\ ppc = "pop"
    /\ queue_in # << >>
    /\ event' = Head(queue_in)
    /\ queue_in' = Tail(queue_in)
    /\ ppc' = dispatch_event(event')
    /\ i' = 1
    /\ UNCHANGED <<rules, keep_running, receiver, out, twin_vars, status,
                   outputs, sender, network, history>>

twins_memory_update_var(twin_id, var_id, value_) ==
    IF twin_id \in Twins /\ var_id \in Vars
    THEN /\ twin_vars' = [twin_vars EXCEPT ![twin_id][var_id] = value_]
         /\ status' = [status EXCEPT ![twin_id] = 0]
    ELSE UNCHANGED <<twin_vars, status>>

Current_First == event.updates[1]

Current == event.updates[i]

\* One turn of the first loop of handle_event_update, whose var_id is a byte.
UpdateVar ==
    /\ ppc = "update"
    /\ i <= Len(event.updates)
    /\ twins_memory_update_var(event.twin_id, Uint8(Current.var_id), Current.value)
    /\ i' = i + 1
    /\ UNCHANGED <<rules, keep_running, receiver, queue_in, ppc, event, out,
                   outputs, sender, network, history>>

get_update_rule_TwinWraps(twin_id, var_id) ==
    IF var_id \in Vars THEN update_rules[twin_id % MAX_TWINS][var_id]
    ELSE "IGNORE"

get_update_rule(twin_id, var_id) ==
    IF twin_id \in Twins /\ var_id \in Vars THEN update_rules[twin_id][var_id]
    ELSE "IGNORE"

\* The k-th of the places I, and the elements of s at those places, in order.
Nth(I, k) == CHOOSE j \in I : Cardinality({x \in I : x <= j}) = k

ElementsAt(s, I) == [k \in 1 .. Cardinality(I) |-> s[Nth(I, k)]]

\* The updates of an event that a rule gives to one action.
Batch(e, action) ==
    LET ruled == {k \in DOMAIN e.updates :
                     get_update_rule(e.twin_id, e.updates[k].var_id) = action}
    IN  UpdateEvent(e.twin_id, e.timestamp, ElementsAt(e.updates, ruled))

\* A push_event that is due if there is anything in the event.
ToPush(to, e) == IF e.updates = << >> THEN << >> ELSE <<[to |-> to, e |-> e]>>

\* The second loop of handle_event_update, and what it leaves to be pushed:
\* the other actions have no effect but a printed line.
ApplyRules ==
    /\ ppc = "update"
    /\ i > Len(event.updates)
    /\ out' = ToPush("notify", Batch(event, "NOTIFY_UPWARDS"))
              \o ToPush("user", Batch(event, "CALL_USER_SERVICE"))
    /\ ppc' = IF out' = << >> THEN Again("pop") ELSE "push"
    /\ UNCHANGED <<rules, keep_running, receiver, queue_in, event, i, twin_vars,
                   status, outputs, sender, network, history>>

rule_engine_get_action_for_error(code) ==
    IF code \in ErrorCodes THEN error_rules[code] ELSE "IGNORE"

\* handle_event_error prints a line whatever the action; the push_event of
\* the notification is commented out.
HandleError ==
    /\ ppc = "error"
    /\ ppc' = Again("pop")
    /\ UNCHANGED <<rules, keep_running, receiver, queue_in, event, i, out,
                   twin_vars, status, outputs, sender, network, history>>

ForUser_Newest(e) ==
    Append(IF Full(queue_out_user) THEN Tail(queue_out_user) ELSE queue_out_user, e)

ForUser(e) == push_event(queue_out_user, e)

\* One push_event of handle_event_update, whose result is ignored.
DispatchPush ==
    /\ ppc = "push"
    /\ LET o == Head(out)
       IN  \/ /\ o.to = "notify"
              /\ queue_out_notify' = push_event(queue_out_notify, o.e)
              /\ refused' = IF Full(queue_out_notify)
                            THEN [refused EXCEPT ![o.e.twin_id] = @ + 1] ELSE refused
              /\ UNCHANGED queue_out_user
           \/ /\ o.to = "user"
              /\ queue_out_user' = ForUser(o.e)
              /\ UNCHANGED <<queue_out_notify, refused>>
    /\ out' = Tail(out)
    /\ ppc' = IF out' = << >> THEN Again("pop") ELSE "push"
    /\ UNCHANGED <<rules, keep_running, receiver, queue_in, event, i, twin_vars,
                   status, sender, network, accepted>>

Processor ==
    ProcIdle \/ ProcPop \/ UpdateVar \/ ApplyRules \/ HandleError \/ DispatchPush

-------------------------------------------------------------------------------
(* zmq_sender_thread                                                       *)

SendIdle ==
    /\ Started
    /\ spc = "pop"
    /\ queue_out_notify = << >>
    /\ spc' = Again("pop")
    /\ UNCHANGED <<rules, keep_running, receiver, queue_in, processor, outputs,
                   tx, network, history>>

SendPop ==
    /\ Started
    /\ spc = "pop"
    /\ queue_out_notify # << >>
    /\ tx' = Head(queue_out_notify)
    /\ queue_out_notify' = Tail(queue_out_notify)
    /\ spc' = "send"
    /\ UNCHANGED <<rules, keep_running, receiver, queue_in, processor,
                   queue_out_user, network, history>>

zmq_send_First(c, m) == pipe' = [pipe EXCEPT ![0] = Append(@, m)]

zmq_send(c, m) == pipe' = [pipe EXCEPT ![c] = Append(@, m)]

\* zmq_send on the connector of the twin: it waits while the pipe is full.
SendEvent ==
    /\ spc = "send"
    /\ tx.twin_id \in Connector
    /\ Len(pipe[tx.twin_id]) < SNDHWM
    /\ zmq_send(tx.twin_id, serialize_event(tx))
    /\ spc' = Again("pop")
    /\ UNCHANGED <<rules, keep_running, receiver, queue_in, processor, outputs,
                   tx, history, delivered>>

\* The receiver ends by terminating the context that both threads share, and
\* zmq_send then returns ETERM, which send_event ignores.
SendTerminated ==
    /\ spc = "send"
    /\ rpc = "exited"
    /\ refused' = [refused EXCEPT ![tx.twin_id] = @ + 1]
    /\ spc' = Again("pop")
    /\ UNCHANGED <<rules, keep_running, receiver, queue_in, processor, outputs,
                   tx, network, accepted>>

Sender == SendIdle \/ SendPop \/ SendEvent \/ SendTerminated

\* A parent node takes the next message of its connection.
PeerRecv(c) ==
    /\ pipe[c] # << >>
    /\ delivered' = [delivered EXCEPT ![c] = Append(@, Head(pipe[c]))]
    /\ pipe' = [pipe EXCEPT ![c] = Tail(@)]
    /\ UNCHANGED <<rules, keep_running, receiver, queue_in, processor, outputs,
                   sender, history>>

Next ==
    \/ Configure
    \/ handle_sigint
    \/ Receiver
    \/ Processor
    \/ Sender
    \/ \E c \in Connector : PeerRecv(c)

\* main's configuration waits for nothing, and the threads never stop being
\* scheduled: each of them sleeps or waits in ZeroMQ in every turn, and zmq_recv
\* returns within its timeout.  Messages and SIGINT are up to the outside world.
Fairness ==
    /\ WF_vars(Configure)
    /\ WF_vars(RecvTimeout \/ RecvPush)
    /\ WF_vars(Processor)
    /\ WF_vars(Sender)

Spec == Init /\ [][Next]_vars /\ Fairness

-------------------------------------------------------------------------------
(* Properties                                                              *)

TypeOK ==
    /\ configured \in 0 .. Len(UserRules)
    /\ error_rules \in [ErrorCodes -> Actions]
    /\ update_rules \in [Twins -> [Vars -> Actions]]
    /\ keep_running \in BOOLEAN
    /\ rpc \in {"recv", "push", "exited"} /\ received \in 0 .. MaxMessages
    /\ ppc \in {"pop", "update", "error", "push", "exited"} /\ i \in Nat
    /\ spc \in {"pop", "send", "exited"}
    /\ \A q \in {queue_in, queue_out_notify, queue_out_user} : Len(q) < QUEUE_SIZE
    /\ twin_vars \in [Twins -> [Vars -> Floats]]
    /\ status \in [Twins -> 0 .. 2]
    /\ \A c \in Connector : Len(pipe[c]) <= SNDHWM

\* The accepted events the processor has begun with, and those it has
\* finished applying its rules to.
Begun == SubSeq(accepted, 1, Len(accepted) - Len(queue_in))

Ruled == IF ppc \in {"update", "error"} THEN SubSeq(Begun, 1, Len(Begun) - 1)
         ELSE Begun

\* The updates of Begun that have been applied: all of every event but the
\* last, and the first i - 1 of the event the update loop is in.
Applied(k) ==
    IF Begun[k].type # EVENT_UPDATE THEN 0
    ELSE IF k = Len(Begun) /\ ppc = "update" THEN i - 1
    ELSE Len(Begun[k].updates)

\* Where the updates of variable v of twin t are among the applied ones: the
\* memory knows a variable by the low byte of its id.
Writes(t, v) ==
    {w \in (DOMAIN Begun) \X (1 .. MAX_VARS_PER_EVENT) :
        /\ Begun[w[1]].twin_id = t
        /\ w[2] <= Applied(w[1])
        /\ Uint8(Begun[w[1]].updates[w[2]].var_id) = v}

Later(a, b) == a[1] > b[1] \/ (a[1] = b[1] /\ a[2] >= b[2])

\* twins_memory holds, for each variable, the newest value that was sent for
\* it and that the processor has come to: batches of one message, messages of
\* several devices and repeated variables are applied in the order accepted,
\* updates of other ids or twins never show up, and a twin is OK (0) from its
\* first update on.
MemoryIsLatest ==
    \A t \in Twins :
        /\ \A v \in Vars :
              LET ws == Writes(t, v)
              IN  twin_vars[t][v] =
                    IF ws = {} THEN Zero
                    ELSE LET w == CHOOSE w \in ws : \A u \in ws : Later(w, u)
                         IN  Begun[w[1]].updates[w[2]].value
        /\ status[t] = IF \A v \in Vars : Writes(t, v) = {} THEN 2 ELSE 0

\* Whether the rules have something of event e for one action.
Asks(e, action) == e.type = EVENT_UPDATE /\ Batch(e, action).updates # << >>

\* The events that are due to the parent node of twin t.
Due(t) ==
    {k \in DOMAIN Ruled : Ruled[k].twin_id = t /\ Asks(Ruled[k], "NOTIFY_UPWARDS")}

\* What waits in the sender, in its queue and in the dispatcher, oldest first:
\* the dispatcher pushes the notification before anything else.
Waiting(t) ==
    LET mine == {k \in DOMAIN queue_out_notify : queue_out_notify[k].twin_id = t}
    IN  (IF spc = "send" /\ tx.twin_id = t THEN <<tx>> ELSE << >>)
        \o ElementsAt(queue_out_notify, mine)
        \o (IF ppc = "push" /\ Head(out).to = "notify" /\ Head(out).e.twin_id = t
            THEN <<Head(out).e>> ELSE << >>)

Serialized(es) == [k \in DOMAIN es |-> serialize_event(es[k])]

\* What is on its way to the parent node of twin t, oldest first.
OnItsWay(t) == pipe[t] \o Serialized(Waiting(t))

Stream(t) == delivered[t] \o OnItsWay(t)

\* Each parent node gets the notifications of its own twin and no others, in
\* the order the engine accepted the data, each at most once and with the
\* variables the rules select; and what is missing was refused by a full
\* queue_out_notify or cut off by the shutdown: nothing else loses events.
NotificationsInOrder ==
    \A c \in Connector \cap Twins :
        LET s   == Stream(c)
            due == Due(c)
        IN  /\ \E f \in [DOMAIN s -> due] :
                  \A k \in DOMAIN s :
                     /\ \A j \in DOMAIN s : j < k => f[j] < f[k]
                     /\ s[k] = serialize_event(Batch(Ruled[f[k]], "NOTIFY_UPWARDS"))
            /\ Cardinality(due) = Len(s) + refused[c]

Relay == INSTANCE LossyChannel WITH
             Channel <- Connector \cap Twins,
             line <- [c \in Connector \cap Twins |-> OnItsWay(c)],
             got  <- [c \in Connector \cap Twins |-> delivered[c]]

\* The engine as a whole, from the rule that selects an update to the parent
\* node: one channel per connector that may lose but never mixes, repeats or
\* reorders.  A refused push, a send cut off by the shutdown and a dispatcher
\* at work beside the sender are all steps of that channel.
ImplementsRelay == Relay!Spec

\* queue_out_user has no consumer in full_test_v1 and full_test_v2: it keeps
\* the oldest events for the user's service and takes no more once it is full.
UserQueueKeepsOldest ==
    LET es    == ElementsAt(Ruled, {k \in DOMAIN Ruled : Asks(Ruled[k], "CALL_USER_SERVICE")})
        asked == [k \in DOMAIN es |-> Batch(es[k], "CALL_USER_SERVICE")]
        due   == Len(asked) - Cardinality({k \in DOMAIN out : out[k].to = "user"})
        kept  == IF due < QUEUE_SIZE THEN due ELSE QUEUE_SIZE - 1
    IN  queue_out_user = SubSeq(asked, 1, kept)

\* The sender only ever indexes connectors[] where zmq_sender_thread has
\* opened a socket: fewer are opened than there are twins, and all depends on
\* no rule, lookup or id leading to a notification for another twin.
ConnectorInitialised == spc = "send" => tx.twin_id \in Connector

\* What entered queue_in is dispatched, unless the engine is stopped: once the
\* devices pause, the processor comes to the end of the queue.
AcceptedIsDispatched == []<>(queue_in = << >> \/ ~keep_running)

\* As long as the parent nodes read, every notification that a full queue did
\* not refuse reaches its node, unless the engine is stopped: once the devices
\* pause, nothing is left on its way, and the sender's waiting in zmq_send for
\* one node keeps no other node's notifications back for ever.
NotificationsArrive ==
    (\A c \in Connector : WF_vars(PeerRecv(c))) =>
        \A c \in Connector \cap Twins :
            []<>(OnItsWay(c) = << >> \/ ~keep_running)

\* After SIGINT all three loops end, even when a parent node has stopped
\* reading and the sender waits in zmq_send: the receiver's termination of the
\* shared context is what wakes it.
ShutdownCompletes ==
    ~keep_running ~> (rpc = "exited" /\ ppc = "exited" /\ spc = "exited")

-------------------------------------------------------------------------------
(* What the documentation says of error events                             *)

\* Whether the k-th event the processor began with is an error with a rule.
ErrorWith(k, action) ==
    /\ Begun[k].type = EVENT_ERROR
    /\ rule_engine_get_action_for_error(Begun[k].error_code) = action

\* README.md: "SENSOR_FAILURE -> halt the engine".  Once an error with that
\* action is dispatched, no other event is.
HaltStopsEngine ==
    \A k \in DOMAIN Begun : ErrorWith(k, "HALT_ENGINE") => k = Len(Begun)
===============================================================================
