------------------------------- MODULE TwinsApi -------------------------------
(***************************************************************************)
(* twins_memory.c between the two threads that share it without a lock:    *)
(* the event processor, which writes one variable at a time with three     *)
(* atomic stores, and api_server_thread, which answers queries on a REP    *)
(* socket by loading one field at a time.  Every atomic access is a step.  *)
(***************************************************************************)
EXTENDS Integers, Sequences, FiniteSets

CONSTANTS MAX_TWINS,
          MAX_VARS_PER_TWINS,
          Ids,            \* the ids in updates and requests, known or not
          MaxUpdates,     \* bound on the updates the processor makes
          MaxRequests     \* bound on the requests

ASSUME ApiAssumption ==
    /\ MAX_TWINS \in Nat \ {0} /\ MAX_VARS_PER_TWINS \in Nat \ {0}
    /\ Ids \subseteq Nat /\ 0 \in Ids
    /\ MaxUpdates \in Nat /\ MaxRequests \in Nat

Twins == 0 .. MAX_TWINS - 1
Vars  == 0 .. MAX_VARS_PER_TWINS - 1

OK           == 0
DESCONECTADO == 2

VARIABLES
    twin_vars, status, last_update_ms,   \* twins_memory
    wpc, upd,          \* writer: its next store, and its (twin, variable)
    updates,           \* updates begun; also the value the current one writes
    apc,               \* api_server_thread: its next step
    request,           \* the request on the socket
    requests,          \* requests made
    twin, var,         \* where the loops of GET and GET_ALL are
    reply,             \* what has been packed so far
    answered,          \* whether the client has an answer to its request
    keep_running,
    \* what happened so far, for the properties
    origin,            \* the variable each update wrote, in order
    okBy,              \* the update that last stored OK, by twin
    quiet              \* twins deleted, and no update of them under way since

memory == <<twin_vars, status, last_update_ms>>
writer == <<wpc, upd, updates, origin, okBy>>
server == <<apc, request, requests, twin, var, reply, answered>>
others == <<keep_running, quiet>>
vars   == <<memory, writer, server, others>>

\* What a request may be: no array or an empty one, an opcode without the id
\* it needs, an opcode nobody knows, or one of the three operations.
Requests ==
    [op : {"malformed", "short", "unknown", "GET_ALL"}, id : {0}]
    \cup [op : {"GET", "DELETE"}, id : Ids]

twins_memory_init ==
    /\ twin_vars = [t \in Twins |-> [v \in Vars |-> 0]]
    /\ status = [t \in Twins |-> DESCONECTADO]
    /\ last_update_ms = [t \in Twins |-> 0]

Init ==
    /\ twins_memory_init
    /\ wpc = "idle" /\ upd = <<0, 0>> /\ updates = 0
    /\ apc = "bind" /\ request = [op |-> "GET_ALL", id |-> 0] /\ requests = 0
    /\ twin = 0 /\ var = 0 /\ reply = << >>
    /\ answered = TRUE /\ keep_running = TRUE
    /\ origin = << >> /\ okBy = [t \in Twins |-> 0] /\ quiet = {}

-------------------------------------------------------------------------------
(* twins_memory_update_var, by the processor thread                        *)

\* Values are numbered by update, so that a newer value is a larger one.
UpdateBegin(t, v) ==
    /\ wpc = "idle"
    /\ updates < MaxUpdates
    /\ updates' = updates + 1
    /\ origin' = Append(origin, <<t, v>>)
    /\ upd' = <<t, v>>
    /\ wpc' = IF t \in Twins /\ v \in Vars THEN "var" ELSE "idle"
    /\ quiet' = quiet \ {t}
    /\ UNCHANGED <<memory, okBy, server, keep_running>>

StoreVar ==
    /\ wpc = "var"
    /\ twin_vars' = [twin_vars EXCEPT ![upd[1]][upd[2]] = updates]
    /\ wpc' = "status"
    /\ UNCHANGED <<status, last_update_ms, upd, updates, origin, okBy, server,
                   others>>

StoreStatus_First ==
    /\ wpc \in {"var", "status"}
    /\ status' = [status EXCEPT ![upd[1]] = OK]
    /\ okBy' = [okBy EXCEPT ![upd[1]] = updates]
    /\ wpc' = IF wpc = "var" THEN "var" ELSE "time"
    /\ UNCHANGED <<twin_vars, last_update_ms, upd, updates, origin, server,
                   others>>

StoreStatus ==
    /\ wpc = "status"
    /\ status' = [status EXCEPT ![upd[1]] = OK]
    /\ okBy' = [okBy EXCEPT ![upd[1]] = updates]
    /\ wpc' = "time"
    /\ UNCHANGED <<twin_vars, last_update_ms, upd, updates, origin, server,
                   others>>

StoreTime ==
    /\ wpc = "time"
    /\ last_update_ms' = [last_update_ms EXCEPT ![upd[1]] = updates]
    /\ wpc' = "idle"
    /\ UNCHANGED <<twin_vars, status, upd, updates, origin, okBy, server,
                   others>>

Writer ==
    \/ \E t \in Ids, v \in 0 .. MAX_VARS_PER_TWINS : UpdateBegin(t, v)
    \/ StoreVar
    \/ StoreStatus
    \/ StoreTime

-------------------------------------------------------------------------------
(* api_server_thread                                                       *)

\* twins_memory_get_var and twins_memory_get_status report an id that is out
\* of range as -1; cw_pack_unsigned turns the status into 2^64 - 1.
twins_memory_get_var(t, v) ==
    IF t \in Twins /\ v \in Vars THEN twin_vars[t][v] ELSE -1

twins_memory_get_status(t) == IF t \in Twins THEN status[t] ELSE -1

UINT64_MAX == 1000000    \* stands for it: larger than any status or value

PackUnsigned(n) == IF n < 0 THEN UINT64_MAX ELSE n

\* A client's REQ socket sends one request and waits for its answer.
Ask(r) ==
    /\ answered
    /\ requests < MaxRequests
    /\ request' = r
    /\ requests' = requests + 1
    /\ answered' = FALSE
    /\ UNCHANGED <<memory, writer, apc, twin, var, reply, others>>

Again_Forever == "recv"

\* The test of while(keep_running).  zmq_recv has no timeout here and Linux
\* hands SIGINT to the main thread, so that zmq_recv is not interrupted: the
\* thread comes to the test only after it has answered a request.
Again == IF keep_running THEN "recv" ELSE "exited"

\* Nothing binds the port twice: a thread that cannot bind it ends at once.
ApiBind ==
    /\ apc = "bind"
    /\ apc' \in {Again, "exited"}
    /\ UNCHANGED <<memory, writer, request, requests, twin, var, reply, answered,
                   others>>

send_error_Silent == UNCHANGED answered

send_error == answered' = TRUE

\* The request is unpacked and its opcode chooses what follows.  An error is
\* answered on the spot.
ApiRecv ==
    /\ apc = "recv"
    /\ ~answered
    /\ var' = 0
    /\ reply' = << >>
    /\ \/ /\ request.op \in {"malformed", "short", "unknown"}
          /\ send_error
          /\ apc' = Again
          /\ UNCHANGED twin
       \/ /\ request.op = "GET_ALL"
          /\ apc' = "status" /\ twin' = 0
          /\ UNCHANGED answered
       \/ /\ request.op = "GET"
          /\ apc' = "status" /\ twin' = request.id
          /\ UNCHANGED answered
       \/ /\ request.op = "DELETE"
          /\ apc' = "delete" /\ twin' = request.id
          /\ UNCHANGED answered
    /\ UNCHANGED <<memory, writer, request, requests, others>>

\* since: the update whose OK this status is, for the properties.
LoadStatus ==
    /\ apc = "status"
    /\ reply' = Append(reply,
           [id     |-> twin,
            status |-> PackUnsigned(twins_memory_get_status(twin)),
            vars   |-> << >>,
            since  |-> IF twin \in Twins THEN okBy[twin] ELSE 0])
    /\ apc' = "var"
    /\ var' = 0
    /\ UNCHANGED <<memory, writer, request, requests, twin, answered, others>>

\* The answer with one more value in the array of its last twin.
PackFloat(x) == [reply EXCEPT ![Len(reply)].vars = Append(@, x)]

More_OneMore(v) == v < MAX_VARS_PER_TWINS

\* The test of the loop over the variables, for the turn after v.
More(v) == v + 1 < MAX_VARS_PER_TWINS

Target_OfRequest == request.id

\* The twin whose variables are read: GET_ALL's loop has its own.
Target == IF request.op = "GET_ALL" THEN twin ELSE request.id

\* One turn of the loop over the variables, and of the loop over the twins
\* that GET_ALL has around it.
LoadVar ==
    /\ apc = "var"
    /\ reply' = PackFloat(twins_memory_get_var(Target, var))
    /\ IF More(var)
       THEN var' = var + 1 /\ UNCHANGED <<apc, twin>>
       ELSE /\ var' = 0
            /\ IF request.op = "GET_ALL" /\ twin + 1 < MAX_TWINS
               THEN twin' = twin + 1 /\ apc' = "status"
               ELSE apc' = "send" /\ UNCHANGED twin
    /\ UNCHANGED <<memory, writer, request, requests, answered, others>>

twins_memory_set_status_Ignored(t, s) == UNCHANGED status

\* It refuses a twin that does not exist.
twins_memory_set_status(t, s) ==
    status' = [u \in Twins |-> IF u = t THEN s ELSE status[u]]

\* The result of the store is not looked at, and the answer says
\* "deleted" whether or not there is such a twin.
Delete ==
    /\ apc = "delete"
    /\ twins_memory_set_status(twin, DESCONECTADO)
    /\ quiet' = IF wpc # "idle" /\ upd[1] = twin THEN quiet
                ELSE quiet \cup {twin}
    /\ reply' = <<[id |-> twin, status |-> "deleted"]>>
    /\ apc' = "send"
    /\ UNCHANGED <<twin_vars, last_update_ms, writer, request, requests, twin,
                   var, answered, keep_running>>

Send ==
    /\ apc = "send"
    /\ answered' = TRUE
    /\ apc' = Again
    /\ reply' = << >>
    /\ UNCHANGED <<memory, writer, request, requests, twin, var, others>>

handle_sigint ==
    /\ keep_running
    /\ keep_running' = FALSE
    /\ UNCHANGED <<memory, writer, server, quiet>>

Server == ApiBind \/ ApiRecv \/ LoadStatus \/ LoadVar \/ Delete \/ Send

Next == Writer \/ (\E r \in Requests : Ask(r)) \/ Server \/ handle_sigint

\* The API thread runs until it has answered; clients ask when they like, and
\* the processor writes when events come.
Spec == Init /\ [][Next]_vars /\ WF_vars(Server)

-------------------------------------------------------------------------------
(* Properties                                                              *)

TypeOK ==
    /\ twin_vars \in [Twins -> [Vars -> 0 .. MaxUpdates]]
    /\ status \in [Twins -> {OK, 1, DESCONECTADO}]
    /\ last_update_ms \in [Twins -> 0 .. MaxUpdates]
    /\ wpc \in {"idle", "var", "status", "time"}
    /\ upd \in Ids \X (0 .. MAX_VARS_PER_TWINS)
    /\ apc \in {"bind", "recv", "status", "var", "delete", "send", "exited"}
    /\ request \in Requests /\ answered \in BOOLEAN
    /\ twin \in Twins \cup Ids /\ var \in Vars

\* An answer that is ready to be sent to a GET or a GET_ALL.
AnswerReady == apc = "send" /\ request.op \in {"GET", "GET_ALL"}

\* A twin that is reported OK is reported with data at least as new as the
\* update that made it OK, though status and variables are loaded one by one
\* while the processor writes: update_var stores the variable before the
\* status, and the server loads the status before the variables.
OkComesWithItsData ==
    AnswerReady =>
        \A k \in DOMAIN reply :
            reply[k].status = OK =>
                \E v \in DOMAIN reply[k].vars : reply[k].vars[v] >= reply[k].since

\* Each value in an answer was written to that variable of that twin, or is
\* the initial 0, or the -1 of a twin that does not exist; a GET_ALL has every
\* twin once and in order.
AnswersAreAboutTheTwin ==
    AnswerReady =>
        /\ request.op = "GET_ALL" =>
              /\ Len(reply) = MAX_TWINS
              /\ \A k \in DOMAIN reply : reply[k].id = k - 1
        /\ request.op = "GET" => Len(reply) = 1 /\ reply[1].id = request.id
        /\ \A k \in DOMAIN reply : \A v \in 1 .. MAX_VARS_PER_TWINS :
              LET x == reply[k].vars[v]
              IN  IF reply[k].id \in Twins
                  THEN \/ x = 0
                       \/ x \in DOMAIN origin /\ origin[x] = <<reply[k].id, v - 1>>
                  ELSE x = -1

\* A twin deleted while no update was going on stays DESCONECTADO until a new
\* update of it begins.
DeleteHolds == \A t \in quiet \cap Twins : status[t] = DESCONECTADO

\* Every request is answered, whatever it says and also when the engine is told
\* to stop after it came, unless the thread is gone: the REP socket must send
\* before it may receive again, so a path without an answer would end the service.
EveryRequestAnswered == ~answered ~> (answered \/ apc = "exited")

\* Once the engine is told to stop, the thread ends with the request that is in
\* progress or on the socket, and takes no other.  It needs one to come: it waits
\* in zmq_recv without a timeout, and nothing else wakes it.
StopsAtNextRequest == (~keep_running /\ ~answered) ~> apc = "exited"
===============================================================================
