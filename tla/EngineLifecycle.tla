--------------------------- MODULE EngineLifecycle ---------------------------
(***************************************************************************)
(* The beginning and the end of full_test_v2: the receiver and the sender  *)
(* thread create their sockets in one ZeroMQ context, each of them         *)
(* terminates that context when it ends or fails to start, and main, which *)
(* has detached both, dumps their history logs and returns.  What passes   *)
(* between the threads in the meantime is in TwinEngine; here an event is  *)
(* what it leaves in a history log.                                        *)
(*                                                                         *)
(* External: zmq_ctx_term (zmq_ctx_destroy is its old name) makes every    *)
(* call on a socket of the context fail, waits until all of them are       *)
(* closed, and frees the context.                                          *)
(*                                                                         *)
(* InOrder says whether main sees what a thread stores in the order of the *)
(* program.  The log indices are read and counted up with                  *)
(* memory_order_relaxed and the records are plain memory, so nothing in    *)
(* the code makes it so: it holds on a machine with total store order, or  *)
(* when main, which is pinned to no core, dumps on the threads' own.  On   *)
(* two cores of an AArch64 machine it need not.                            *)
(***************************************************************************)
EXTENDS Integers, Sequences

CONSTANTS CONNECTORS,           \* connectors zmq_sender_thread opens
          MAX_HISTORY_RECORDS,
          MayFail,              \* pthread_create and ZeroMQ's calls may fail
          InOrder,              \* main sees a thread's stores in program order
          MaxEvents             \* bound on the events of each thread

ASSUME LifecycleAssumption ==
    /\ CONNECTORS \in Nat \ {0} /\ MAX_HISTORY_RECORDS \in Nat
    /\ MayFail \in BOOLEAN /\ InOrder \in BOOLEAN /\ MaxEvents \in Nat

Connector == 0 .. CONNECTORS - 1
Thread    == {"receiver", "sender"}
Field     == {"timestamp_ns", "value", "twin_id"}
Record    == 0 .. MAX_HISTORY_RECORDS - 1

VARIABLES
    keep_running,
    ctx,           \* the context: "open", "terminating" or "freed"
    pc,            \* where each thread is
    pull,          \* whether the receiver's socket is open
    connectors,    \* the sender's open sockets
    k,             \* the connector the sender is opening
    log_index,     \* log_index and log_index2, by thread
    history_log,   \* the fields main would find in each record, by thread
    unseen,        \* the stores <<record, field>> it would not find yet
    mpc,           \* main: what it starts, then "run", "dump", "returned"
    dumping,       \* the log main is dumping
    final_count,   \* how many records of it main will dump
    toLoad, row,   \* fields of the next record to load, those it has found
    rows           \* fields found in each record dumped, by log

sockets == <<pull, connectors, k>>
logs    == <<log_index, history_log, unseen>>
dump    == <<dumping, final_count, toLoad, row, rows>>
main    == <<mpc, dump>>
vars    == <<keep_running, ctx, pc, sockets, logs, main>>

Init ==
    /\ keep_running = TRUE
    /\ ctx = "open"
    /\ pc = [t \in Thread |-> "unborn"]
    /\ pull = FALSE /\ connectors = {} /\ k = 0
    /\ log_index = [t \in Thread |-> 0]
    /\ history_log = [t \in Thread |-> [r \in Record |-> {}]]
    /\ unseen = [t \in Thread |-> {}]
    /\ mpc = "start_zmq_sender" /\ dumping = "receiver" /\ final_count = 0
    /\ toLoad = Field /\ row = {}
    /\ rows = [t \in Thread |-> << >>]

\* main's return ends the process, and every thread with it.
At(t, where) == mpc # "returned" /\ pc[t] = where

Goto(t, where) == pc' = [pc EXCEPT ![t] = where]

\* The test of while(keep_running).
Again == IF keep_running THEN "loop" ELSE "close"

handle_sigint ==
    /\ keep_running
    /\ keep_running' = FALSE
    /\ UNCHANGED <<ctx, pc, sockets, logs, main>>

-------------------------------------------------------------------------------
(* Starting the threads                                                    *)

\* pthread_create; main does not look at whether it succeeds.
Created(t) == \/ Goto(t, "socket")
              \/ MayFail /\ Goto(t, "returned")

start_zmq_sender ==
    /\ mpc = "start_zmq_sender"
    /\ mpc' = "start_zmq_receiver"
    /\ Created("sender")
    /\ UNCHANGED <<keep_running, ctx, sockets, logs, dump>>

start_zmq_receiver ==
    /\ mpc = "start_zmq_receiver"
    /\ mpc' = "run"
    /\ Created("receiver")
    /\ UNCHANGED <<keep_running, ctx, sockets, logs, dump>>

-------------------------------------------------------------------------------
(* Opening and closing sockets                                             *)

\* zmq_socket returns NULL.
NoSocket == ctx = "terminating" \/ (MayFail /\ ctx = "open")

ReceiverSocket ==
    /\ At("receiver", "socket")
    /\ \/ ctx = "open" /\ pull' = TRUE /\ Goto("receiver", "bind")
       \/ NoSocket /\ Goto("receiver", "returned") /\ UNCHANGED pull
    /\ UNCHANGED <<keep_running, ctx, connectors, k, logs, main>>

ReceiverBind ==
    /\ At("receiver", "bind")
    /\ \/ ctx = "open" /\ Goto("receiver", Again) /\ UNCHANGED pull
       \/ /\ MayFail \/ ctx = "terminating"
          /\ pull' = FALSE
          /\ Goto("receiver", "term")
    /\ UNCHANGED <<keep_running, ctx, connectors, k, logs, main>>

\* A sender that gets no socket returns, and leaves those it has open.
SenderSocket ==
    /\ At("sender", "socket")
    /\ \/ /\ ctx = "open"
          /\ connectors' = connectors \cup {k}
          /\ Goto("sender", "connect")
       \/ /\ NoSocket
          /\ Goto("sender", "returned")
          /\ UNCHANGED connectors
    /\ UNCHANGED <<keep_running, ctx, pull, k, logs, main>>

\* A sender that cannot connect closes that one socket before it waits for
\* the end of the context.
SenderConnect ==
    /\ At("sender", "connect")
    /\ \/ /\ ctx = "open"
          /\ IF k + 1 \in Connector
             THEN k' = k + 1 /\ Goto("sender", "socket")
             ELSE Goto("sender", Again) /\ UNCHANGED k
          /\ UNCHANGED connectors
       \/ /\ MayFail \/ ctx = "terminating"
          /\ connectors' = connectors \ {k}
          /\ Goto("sender", "term")
          /\ UNCHANGED k
    /\ UNCHANGED <<keep_running, ctx, pull, logs, main>>

\* After the loop a thread closes its sockets.
Close(t) ==
    /\ At(t, "close")
    /\ Goto(t, "term")
    /\ \/ t = "receiver" /\ pull' = FALSE /\ UNCHANGED connectors
       \/ t = "sender" /\ connectors' = {} /\ UNCHANGED pull
    /\ UNCHANGED <<keep_running, ctx, k, logs, main>>

zmq_ctx_term(t) ==
    /\ At(t, "term")
    /\ ctx # "freed"
    /\ ctx' = "terminating"
    /\ Goto(t, "terminating")
    /\ UNCHANGED <<keep_running, sockets, logs, main>>

Terminated(t) ==
    /\ At(t, "terminating")
    /\ ctx = "terminating"
    /\ ~pull /\ connectors = {}
    /\ ctx' = "freed"
    /\ Goto(t, "returned")
    /\ UNCHANGED <<keep_running, sockets, logs, main>>

-------------------------------------------------------------------------------
(* The loops, and what they log                                            *)

\* Nothing to receive or to send, or a call that fails.
Idle(t) ==
    /\ At(t, "loop")
    /\ Goto(t, Again)
    /\ UNCHANGED <<keep_running, ctx, sockets, logs, main>>

\* A message or an event: atomic_fetch_add gives it a record, if there are
\* any left.  A message that is rejected, an error, or an update of integers
\* leaves its record as it is, and one of several variables writes it again
\* for each, which makes no difference to what is complete.
Begin(t) ==
    /\ At(t, "loop")
    /\ log_index[t] < MaxEvents
    /\ log_index' = [log_index EXCEPT ![t] = @ + 1]
    /\ \/ /\ log_index[t] \in Record
          /\ unseen' = [unseen EXCEPT ![t] = @ \cup ({log_index[t]} \X Field)]
          /\ Goto(t, "log")
       \/ t = "receiver" /\ Goto(t, Again) /\ UNCHANGED unseen
       \/ /\ t = "sender" /\ log_index[t] \notin Record
          /\ Goto(t, "send")
          /\ UNCHANGED unseen
    /\ UNCHANGED <<keep_running, ctx, sockets, history_log, main>>

\* One of the stores into a record, when main can see it.
Log(t, r, f) ==
    /\ mpc # "returned"
    /\ <<r, f>> \in unseen[t]
    /\ history_log' = [history_log EXCEPT ![t][r] = @ \cup {f}]
    /\ unseen' = [unseen EXCEPT ![t] = @ \ {<<r, f>>}]
    /\ UNCHANGED <<keep_running, ctx, pc, sockets, log_index, main>>

LogDone_Early(t) ==
    /\ At(t, "log")
    /\ Goto(t, IF t = "receiver" THEN Again ELSE "send")
    /\ UNCHANGED <<keep_running, ctx, sockets, logs, main>>

\* The thread has made its stores and goes on.
LogDone(t) ==
    /\ At(t, "log")
    /\ InOrder => unseen[t] = {}
    /\ Goto(t, IF t = "receiver" THEN Again ELSE "send")
    /\ UNCHANGED <<keep_running, ctx, sockets, logs, main>>

\* zmq_send returns, sooner or later or never.
Send ==
    /\ At("sender", "send")
    /\ Goto("sender", Again)
    /\ UNCHANGED <<keep_running, ctx, sockets, logs, main>>

-------------------------------------------------------------------------------
(* main after the threads have started                                     *)

Count_Unclamped(t) == log_index[t]

Count(t) == IF log_index[t] > MAX_HISTORY_RECORDS THEN MAX_HISTORY_RECORDS
            ELSE log_index[t]

Stopped_Joins == ~keep_running /\ \A t \in Thread : pc[t] = "returned"

\* sleep(1) ends, and main does not wait for anybody.
Stopped == ~keep_running

MainWake ==
    /\ mpc = "run"
    /\ Stopped
    /\ mpc' = "dump"
    /\ dumping' = "receiver"
    /\ final_count' = Count("receiver")
    /\ UNCHANGED <<keep_running, ctx, pc, sockets, logs, toLoad, row, rows>>

\* The arguments of fprintf, in an order the compiler chooses.
MainLoad(f) ==
    /\ mpc = "dump"
    /\ Len(rows[dumping]) < final_count
    /\ f \in toLoad
    /\ toLoad' = toLoad \ {f}
    /\ row' = row \cup ({f} \cap history_log[dumping][Len(rows[dumping])])
    /\ UNCHANGED <<keep_running, ctx, pc, sockets, logs, mpc, dumping,
                   final_count, rows>>

\* One line of the CSV.
MainRow ==
    /\ mpc = "dump"
    /\ toLoad = {}
    /\ rows' = [rows EXCEPT ![dumping] = Append(@, row)]
    /\ toLoad' = Field /\ row' = {}
    /\ UNCHANGED <<keep_running, ctx, pc, sockets, logs, mpc, dumping,
                   final_count>>

\* A file is complete, or could not be opened.
MainNext ==
    /\ mpc = "dump"
    /\ Len(rows[dumping]) \in {0, final_count} /\ toLoad = Field
    /\ \/ /\ dumping = "receiver"
          /\ dumping' = "sender"
          /\ final_count' = Count("sender")
          /\ UNCHANGED mpc
       \/ /\ dumping = "sender"
          /\ mpc' = "returned"
          /\ UNCHANGED <<dumping, final_count>>
    /\ UNCHANGED <<keep_running, ctx, pc, sockets, logs, toLoad, row, rows>>

Main ==
    \/ start_zmq_sender \/ start_zmq_receiver
    \/ MainWake \/ (\E f \in Field : MainLoad(f)) \/ MainRow \/ MainNext

Next ==
    \/ handle_sigint
    \/ ReceiverSocket \/ ReceiverBind \/ SenderSocket \/ SenderConnect \/ Send
    \/ \E t \in Thread :
          \/ Idle(t) \/ Begin(t) \/ LogDone(t)
          \/ \E r \in Record, f \in Field : Log(t, r, f)
          \/ Close(t) \/ zmq_ctx_term(t) \/ Terminated(t)
    \/ Main

\* main runs on a core of its own and sleeps only for a second at a time;
\* nothing is assumed of the threads, which may wait in ZeroMQ for ever.
Spec == Init /\ [][Next]_vars /\ WF_vars(Main)

-------------------------------------------------------------------------------
(* Properties                                                              *)

TypeOK ==
    /\ ctx \in {"open", "terminating", "freed"}
    /\ pc \in [Thread -> {"unborn", "socket", "bind", "connect", "loop", "log",
                          "send", "close", "term", "terminating", "returned"}]
    /\ pull \in BOOLEAN /\ connectors \subseteq Connector /\ k \in Connector
    /\ log_index \in [Thread -> 0 .. MaxEvents]
    /\ history_log \in [Thread -> [Record -> SUBSET Field]]
    /\ unseen \in [Thread -> SUBSET (Record \X Field)]
    /\ mpc \in {"start_zmq_sender", "start_zmq_receiver", "run", "dump",
                "returned"}
    /\ final_count \in 0 .. MAX_HISTORY_RECORDS

\* A line with some fields of a record and zeros for the others.
Torn(found) == found # {} /\ found # Field

\* Though main dumps the logs while the threads may still be writing them,
\* field by field against field by field, only the last line of a CSV can hold
\* a record that is half written, if main sees the stores in order: the next
\* record is given out when this one is complete, and main had read the index
\* before it came to the records.
OnlyLastRowTorn ==
    \A t \in Thread : \A r \in DOMAIN rows[t] :
        Torn(rows[t][r]) =>
            /\ r = Len(rows[t])
            /\ dumping = t => r = final_count

\* After SIGINT the process ends, even when a thread waits for ever in
\* zmq_send, or in zmq_ctx_term for sockets that nobody closes.
ProcessEnds == ~keep_running ~> mpc = "returned"

\* The loops test keep_running to allow a clean termination (event_reciever.c):
\* no thread ends with a context that the other one has freed.
CleanTermination ==
    ctx = "freed" /\ mpc # "returned" =>
        \A t \in Thread : pc[t] \notin {"term", "terminating"}
===============================================================================
