------------------------- MODULE EngineLifecycleProofs -------------------------
(***************************************************************************)
(* EngineLifecycle for any number of connectors, any length of the history *)
(* logs and any number of events: what main finds in the logs when it dumps*)
(* them while the threads are still writing.                               *)
(***************************************************************************)
EXTENDS EngineLifecycle, SequenceTheorems, TLAPS

\* The types of what TypeOK does not name.
LogTypes ==
    /\ TypeOK
    /\ dumping \in Thread
    /\ toLoad \subseteq Field /\ row \subseteq Field
    /\ rows \in [Thread -> Seq(SUBSET Field)]

\* A thread that main has yet to start does nothing.
Unborn ==
    /\ mpc = "start_zmq_sender" => pc["sender"] = "unborn"
    /\ mpc \in {"start_zmq_sender", "start_zmq_receiver"} =>
          pc["receiver"] = "unborn"

\* The record a thread is writing is the last one it was given.
Writing(t, r) == pc[t] = "log" /\ log_index[t] = r + 1

\* A thread that writes a record writes the last one it was given, and main
\* would find every field of it but those still under way; the records above
\* are untouched, and those below are complete or were skipped.
WritesLastRecord ==
    /\ \A t \in Thread, r \in Record, f \in Field :
          <<r, f>> \in unseen[t] => Writing(t, r)
    /\ \A t \in Thread, r \in Record, f \in Field :
          Writing(t, r) => f \in history_log[t][r] \/ <<r, f>> \in unseen[t]
    /\ \A t \in Thread, r \in Record :
          log_index[t] <= r => history_log[t][r] = {}
    /\ \A t \in Thread, r \in Record :
          Torn(history_log[t][r]) => Writing(t, r)

\* What main has dumped, and how far it means to go.
DumpProgress ==
    /\ final_count <= log_index[dumping]
    /\ mpc \notin {"dump", "returned"} => rows["receiver"] = << >>
    /\ mpc \notin {"dump", "returned"} \/ dumping = "receiver" =>
          rows["sender"] = << >>
    /\ mpc # "dump" => toLoad = Field
    /\ toLoad = Field => row = {}
    /\ toLoad # Field => Len(rows[dumping]) < final_count

\* What main has loaded of a record is what is in it, unless the record is the
\* last one it means to dump: the others no longer change.
RowIsRecord ==
    mpc = "dump" /\ Len(rows[dumping]) + 1 < final_count =>
        row = (Field \ toLoad) \cap history_log[dumping][Len(rows[dumping])]

\* The inductive invariant, if main sees the stores in order.
LogInv ==
    LogTypes /\ Unborn /\ WritesLastRecord /\ DumpProgress /\ RowIsRecord
    /\ OnlyLastRowTorn

-------------------------------------------------------------------------------
(* Who changes what                                                        *)

\* A step of a thread that logs nothing: it may open, close and terminate, but
\* enters no record, leaves none, and touches neither log nor main.
Elsewhere ==
    /\ UNCHANGED <<logs, main>>
    /\ \A t \in Thread : pc'[t] = "log" <=> pc[t] = "log"
    /\ \A t \in Thread : pc[t] = "unborn" => pc'[t] = "unborn"

\* A step of main leaves the logs and the threads alone, but for those it starts.
OfMain ==
    /\ UNCHANGED logs
    /\ \A t \in Thread : pc'[t] = "log" <=> pc[t] = "log"

\* A thread outside its records goes to another place outside them.
Moves(t) ==
    /\ \E w \in {"socket", "bind", "connect", "loop", "close", "term",
                "terminating", "returned"} : pc' = [pc EXCEPT ![t] = w]
    /\ pc[t] \notin {"log", "unborn"}
    /\ UNCHANGED <<logs, main>>

\* The sockets and the context keep their types.
SocketTypes ==
    /\ ctx \in {"open", "terminating", "freed"}
    /\ pull \in BOOLEAN /\ connectors \subseteq Connector /\ k \in Connector

LEMMA MovesElsewhere ==
    ASSUME LogTypes, NEW t \in Thread, Moves(t), SocketTypes'
    PROVE  LogTypes' /\ Elsewhere
<1>1. pc \in [Thread -> {"unborn", "socket", "bind", "connect", "loop", "log",
                        "send", "close", "term", "terminating", "returned"}]
  BY DEF LogTypes, TypeOK
<1>2. PICK w \in {"socket", "bind", "connect", "loop", "close", "term",
                  "terminating", "returned"} : pc' = [pc EXCEPT ![t] = w]
  BY DEF Moves
<1>3. pc' \in [Thread -> {"unborn", "socket", "bind", "connect", "loop", "log",
                         "send", "close", "term", "terminating", "returned"}]
  BY <1>1, <1>2
<1>4. \A u \in Thread : /\ pc'[u] = "log" <=> pc[u] = "log"
                        /\ pc[u] = "unborn" => pc'[u] = "unborn"
  <2>1. \A u \in Thread : pc'[u] = IF u = t THEN w ELSE pc[u]
    BY <1>1, <1>2
  <2>2. pc[t] # "log" /\ pc[t] # "unborn" /\ w # "log"
    BY DEF Moves
  <2> QED
    BY <2>1, <2>2
<1>5. UNCHANGED <<logs, main>>
  BY DEF Moves
<1>6. LogTypes'
  BY <1>3, <1>5 DEF LogTypes, TypeOK, SocketTypes, logs, main, dump
<1> QED
  BY <1>4, <1>5, <1>6 DEF Elsewhere

LEMMA SocketsStayTyped ==
    ASSUME LogTypes,
           \/ handle_sigint \/ ReceiverSocket \/ ReceiverBind \/ SenderSocket
           \/ SenderConnect \/ Send
           \/ \E t \in Thread : Idle(t) \/ Close(t) \/ zmq_ctx_term(t) \/ Terminated(t)
    PROVE  LogTypes' /\ Elsewhere
<1>0. SocketTypes /\ "receiver" \in Thread /\ "sender" \in Thread
  BY DEF LogTypes, TypeOK, SocketTypes, Thread
<1> USE DEF SocketTypes, Moves, At, Goto, Again, sockets
<1>1. CASE handle_sigint
  BY <1>1 DEF handle_sigint, LogTypes, TypeOK, Elsewhere, logs, main, dump
<1>2. CASE ReceiverSocket
  <2>1. Moves("receiver")
    BY <1>2 DEF ReceiverSocket
  <2>2. SocketTypes'
    BY <1>0, <1>2 DEF ReceiverSocket
  <2> QED
    BY <1>0, <2>1, <2>2, MovesElsewhere
<1>3. CASE ReceiverBind
  <2>1. Moves("receiver")
    BY <1>3 DEF ReceiverBind
  <2>2. SocketTypes'
    BY <1>0, <1>3 DEF ReceiverBind
  <2> QED
    BY <1>0, <2>1, <2>2, MovesElsewhere
<1>4. CASE SenderSocket
  <2>1. Moves("sender")
    BY <1>4 DEF SenderSocket
  <2>2. SocketTypes'
    BY <1>0, <1>4 DEF SenderSocket
  <2> QED
    BY <1>0, <2>1, <2>2, MovesElsewhere
<1>5. CASE SenderConnect
  <2>1. Moves("sender")
    BY <1>5 DEF SenderConnect
  <2>2. SocketTypes'
    BY <1>0, <1>5 DEF SenderConnect
  <2> QED
    BY <1>0, <2>1, <2>2, MovesElsewhere
<1>6. CASE Send
  <2>1. Moves("sender")
    BY <1>6 DEF Send
  <2>2. SocketTypes'
    BY <1>0, <1>6 DEF Send
  <2> QED
    BY <1>0, <2>1, <2>2, MovesElsewhere
<1>7. ASSUME NEW t \in Thread, Idle(t) PROVE LogTypes' /\ Elsewhere
  <2>1. Moves(t) /\ SocketTypes'
    BY <1>0, <1>7 DEF Idle
  <2> QED
    BY <2>1, MovesElsewhere
<1>8. ASSUME NEW t \in Thread, Close(t) PROVE LogTypes' /\ Elsewhere
  <2>1. Moves(t) /\ SocketTypes'
    BY <1>0, <1>8 DEF Close
  <2> QED
    BY <2>1, MovesElsewhere
<1>9. ASSUME NEW t \in Thread, zmq_ctx_term(t) PROVE LogTypes' /\ Elsewhere
  <2>1. Moves(t) /\ SocketTypes'
    BY <1>0, <1>9 DEF zmq_ctx_term
  <2> QED
    BY <2>1, MovesElsewhere
<1>10. ASSUME NEW t \in Thread, Terminated(t) PROVE LogTypes' /\ Elsewhere
  <2>1. Moves(t) /\ SocketTypes'
    BY <1>0, <1>10 DEF Terminated
  <2> QED
    BY <2>1, MovesElsewhere
<1> QED
  BY <1>1, <1>2, <1>3, <1>4, <1>5, <1>6, <1>7, <1>8, <1>9, <1>10

LEMMA MainStaysTyped ==
    ASSUME LogTypes, Unborn, Main
    PROVE  LogTypes' /\ Unborn' /\ OfMain
<1> USE LifecycleAssumption DEF LogTypes, TypeOK, Unborn, OfMain, Goto, Thread, sockets,
        logs, dump
<1>1. CASE start_zmq_sender
  BY <1>1 DEF start_zmq_sender, Created
<1>2. CASE start_zmq_receiver
  BY <1>2 DEF start_zmq_receiver, Created
<1>3. CASE MainWake
  BY <1>3 DEF MainWake, Count
<1>4. ASSUME NEW f \in Field, MainLoad(f) PROVE LogTypes' /\ Unborn' /\ OfMain
  <2>1. toLoad' \subseteq Field /\ row' \subseteq Field
    BY <1>4 DEF MainLoad
  <2> QED
    BY <1>4, <2>1 DEF MainLoad
<1>5. CASE MainRow
  <2>1. /\ UNCHANGED <<keep_running, ctx, pc, sockets, logs, mpc, dumping,
                       final_count>>
        /\ rows' = [rows EXCEPT ![dumping] = Append(rows[dumping], row)]
        /\ toLoad' = Field /\ row' = {}
    BY <1>5 DEF MainRow
  <2>2. Append(rows[dumping], row) \in Seq(SUBSET Field)
    BY AppendProperties
  <2>3. rows' \in [Thread -> Seq(SUBSET Field)]
    BY <2>1, <2>2
  <2> QED
    BY <2>1, <2>3
<1>6. CASE MainNext
  BY <1>6 DEF MainNext, Count
<1> QED
  BY <1>1, <1>2, <1>3, <1>4, <1>5, <1>6 DEF Main

\* What the steps that log leave alone, and where their thread goes.
Logs(t) ==
    /\ UNCHANGED main
    /\ pc[t] # "unborn"
    /\ \A u \in Thread : u # t => pc'[u] = pc[u]
    /\ \A u \in Thread : log_index[u] <= log_index'[u]

LEMMA BeginStaysTyped ==
    ASSUME LogTypes, NEW t \in Thread, Begin(t)
    PROVE  LogTypes' /\ Logs(t)
<1> USE LifecycleAssumption DEF LogTypes, TypeOK
<1>1. /\ UNCHANGED <<keep_running, ctx, sockets, history_log, main>>
      /\ log_index[t] < MaxEvents
      /\ log_index' = [log_index EXCEPT ![t] = @ + 1]
      /\ pc[t] = "loop"
  BY DEF Begin, At
<1>2. \E w \in {"log", "loop", "close", "send"} : pc' = [pc EXCEPT ![t] = w]
  BY DEF Begin, Goto, Again
<1>3. unseen' \in [Thread -> SUBSET (Record \X Field)]
  <2>1. CASE UNCHANGED unseen
    BY <2>1
  <2>2. CASE /\ log_index[t] \in Record
             /\ unseen' = [unseen EXCEPT ![t] = @ \cup ({log_index[t]} \X Field)]
    <3>1. unseen[t] \cup ({log_index[t]} \X Field) \in SUBSET (Record \X Field)
      BY <2>2
    <3> QED
      BY <2>2, <3>1
  <2> QED
    BY <2>1, <2>2 DEF Begin
<1>4. log_index' \in [Thread -> 0 .. MaxEvents]
  BY <1>1
<1>5. LogTypes'
  BY <1>1, <1>2, <1>3, <1>4 DEF sockets, main, dump
<1>6. \A u \in Thread : log_index[u] <= log_index'[u]
  BY <1>1
<1> QED
  BY <1>1, <1>2, <1>5, <1>6 DEF Logs

LEMMA LogStaysTyped ==
    ASSUME LogTypes, NEW t \in Thread, NEW r \in Record, NEW f \in Field, Log(t, r, f)
    PROVE  LogTypes' /\ UNCHANGED <<pc, log_index, main>>
<1> USE DEF LogTypes, TypeOK
<1>1. /\ UNCHANGED <<keep_running, ctx, pc, sockets, log_index, main>>
      /\ history_log' = [history_log EXCEPT ![t][r] = @ \cup {f}]
      /\ unseen' = [unseen EXCEPT ![t] = @ \ {<<r, f>>}]
  BY DEF Log
<1>2. history_log' \in [Thread -> [Record -> SUBSET Field]]
  <2>1. [history_log[t] EXCEPT ![r] = @ \cup {f}] \in [Record -> SUBSET Field]
    OBVIOUS
  <2> QED
    BY <1>1, <2>1
<1>3. unseen' \in [Thread -> SUBSET (Record \X Field)]
  <2>1. unseen[t] \ {<<r, f>>} \in SUBSET (Record \X Field)
    OBVIOUS
  <2> QED
    BY <1>1, <2>1
<1> QED
  BY <1>1, <1>2, <1>3 DEF sockets, main, dump

LEMMA LogDoneStaysTyped ==
    ASSUME LogTypes, NEW t \in Thread, LogDone(t)
    PROVE  LogTypes' /\ Logs(t) /\ UNCHANGED logs /\ pc[t] = "log" /\ pc'[t] # "log"
<1> USE LifecycleAssumption DEF LogTypes, TypeOK
<1>1. UNCHANGED <<keep_running, ctx, sockets, logs, main>> /\ pc[t] = "log"
  BY DEF LogDone, At
<1>2. \E w \in {"loop", "close", "send"} : pc' = [pc EXCEPT ![t] = w]
  BY DEF LogDone, Goto, Again
<1>3. LogTypes'
  BY <1>1, <1>2 DEF sockets, logs, main, dump
<1>4. \A u \in Thread : log_index[u] <= log_index'[u]
  BY <1>1 DEF logs
<1> QED
  BY <1>1, <1>2, <1>3, <1>4 DEF Logs

LEMMA TypesStep == LogTypes /\ Unborn /\ [Next]_vars => LogTypes' /\ Unborn'
<1> SUFFICES ASSUME LogTypes, Unborn, [Next]_vars PROVE LogTypes' /\ Unborn'
  OBVIOUS
<1>1. ASSUME LogTypes', Elsewhere PROVE LogTypes' /\ Unborn'
  BY <1>1 DEF Elsewhere, Unborn, main, Thread
<1>2. ASSUME NEW t \in Thread, LogTypes', Logs(t) PROVE LogTypes' /\ Unborn'
  BY <1>2 DEF Logs, Unborn, main, Thread
<1>3. ASSUME NEW t \in Thread, NEW r \in Record, NEW f \in Field, Log(t, r, f)
      PROVE  LogTypes' /\ Unborn'
  BY <1>3, LogStaysTyped DEF Unborn, main
<1>4. CASE UNCHANGED vars
  BY <1>4 DEF LogTypes, TypeOK, Unborn, vars, sockets, logs, main, dump
<1> QED
  BY <1>1, <1>2, <1>3, <1>4, SocketsStayTyped, MainStaysTyped, BeginStaysTyped,
     LogDoneStaysTyped DEF Next

-------------------------------------------------------------------------------
(* The logs, if main sees the stores in order                              *)

\* A thread that begins an event is given a record that nobody has touched.
LEMMA BeginKeepsTheLog ==
    ASSUME LogTypes, WritesLastRecord, NEW t \in Thread, Begin(t)
    PROVE  WritesLastRecord'
<1>1. LogTypes' /\ Logs(t)
  BY BeginStaysTyped
<1>2. pc[t] = "loop" /\ history_log' = history_log
  BY DEF Begin, At
<1>3. log_index'[t] = log_index[t] + 1
      /\ \A u \in Thread : u # t => log_index'[u] = log_index[u]
  BY LifecycleAssumption DEF Begin, LogTypes, TypeOK
<1>4. /\ \A u \in Thread : u # t => unseen'[u] = unseen[u] /\ pc'[u] = pc[u]
      /\ \/ pc'[t] # "log" /\ unseen'[t] = unseen[t]
         \/ /\ pc'[t] = "log" /\ log_index[t] \in Record
            /\ unseen'[t] = unseen[t] \cup ({log_index[t]} \X Field)
  BY DEF Begin, Goto, Again, LogTypes, TypeOK
<1>5. \A r \in Record, f \in Field : <<r, f>> \notin unseen[t]
  BY <1>2 DEF WritesLastRecord, Writing
<1>6. \A r \in Record : ~Torn(history_log[t][r])
  BY <1>2 DEF WritesLastRecord, Writing
<1>7. \A u \in Thread, r \in Record : u # t => (Writing(u, r)' <=> Writing(u, r))
  BY <1>3, <1>4 DEF Writing
<1>8. log_index[t] \in Nat /\ \A r \in Record : r \in Nat
  BY LifecycleAssumption DEF LogTypes, TypeOK, Record
<1>9. ASSUME NEW u \in Thread, NEW r \in Record, NEW f \in Field
      PROVE  /\ <<r, f>> \in unseen'[u] => Writing(u, r)'
             /\ Writing(u, r)' => f \in history_log'[u][r] \/ <<r, f>> \in unseen'[u]
  <2>1. CASE u # t
    BY <1>2, <1>4, <1>7, <2>1 DEF WritesLastRecord
  <2>2. CASE u = t
    BY <1>3, <1>4, <1>5, <1>8, <2>2 DEF Writing
  <2> QED
    BY <2>1, <2>2
<1>10. ASSUME NEW u \in Thread, NEW r \in Record
       PROVE  /\ log_index'[u] <= r => history_log'[u][r] = {}
              /\ Torn(history_log'[u][r]) => Writing(u, r)'
  <2>1. CASE u # t
    BY <1>2, <1>3, <1>7, <2>1 DEF WritesLastRecord
  <2>2. CASE u = t
    BY <1>2, <1>3, <1>6, <1>8, <2>2 DEF WritesLastRecord
  <2> QED
    BY <2>1, <2>2
<1> QED
  BY <1>9, <1>10 DEF WritesLastRecord, Torn, Writing

\* A store into the record under way, and into no other.
LEMMA LogKeepsTheLog ==
    ASSUME LogTypes, WritesLastRecord,
           NEW t \in Thread, NEW r \in Record, NEW f \in Field, Log(t, r, f)
    PROVE  /\ WritesLastRecord'
           /\ Writing(t, r)
           /\ \A u \in Thread, q \in Record :
                 u # t \/ q # r => history_log'[u][q] = history_log[u][q]
<1>1. UNCHANGED <<pc, log_index>>
  BY DEF Log
<1>2. Writing(t, r) /\ <<r, f>> \in unseen[t]
  BY DEF Log, WritesLastRecord
<1>3. /\ history_log'[t][r] = history_log[t][r] \cup {f}
      /\ \A u \in Thread, q \in Record :
            u # t \/ q # r => history_log'[u][q] = history_log[u][q]
  BY DEF Log, LogTypes, TypeOK
<1>4. /\ unseen'[t] = unseen[t] \ {<<r, f>>}
      /\ \A u \in Thread : u # t => unseen'[u] = unseen[u]
  BY DEF Log, LogTypes, TypeOK
<1>5. \A u \in Thread, q \in Record : Writing(u, q)' <=> Writing(u, q)
  BY <1>1 DEF Writing
<1>6. ASSUME NEW u \in Thread, NEW q \in Record, NEW g \in Field
      PROVE  /\ <<q, g>> \in unseen'[u] => Writing(u, q)'
             /\ Writing(u, q)' => g \in history_log'[u][q] \/ <<q, g>> \in unseen'[u]
  <2>1. <<q, g>> \in unseen'[u] => <<q, g>> \in unseen[u]
    BY <1>4
  <2>2. <<q, g>> \in unseen[u] =>
           <<q, g>> \in unseen'[u] \/ (u = t /\ q = r /\ g = f)
    BY <1>4
  <2>3. g \in history_log[u][q] => g \in history_log'[u][q]
    BY <1>3
  <2>4. f \in history_log'[t][r]
    BY <1>3
  <2> QED
    BY <1>5, <2>1, <2>2, <2>3, <2>4 DEF WritesLastRecord
<1>7. log_index[t] \in Nat /\ r \in Nat
  BY LifecycleAssumption DEF LogTypes, TypeOK, Record
<1>8. ASSUME NEW u \in Thread, NEW q \in Record
      PROVE  /\ log_index'[u] <= q => history_log'[u][q] = {}
             /\ Torn(history_log'[u][q]) => Writing(u, q)'
  <2>1. CASE u = t /\ q = r
    BY <1>1, <1>2, <1>5, <1>7, <2>1 DEF Writing
  <2>2. CASE u # t \/ q # r
    BY <1>1, <1>3, <1>5, <2>2 DEF WritesLastRecord
  <2> QED
    BY <2>1, <2>2
<1> QED
  BY <1>2, <1>3, <1>6, <1>8 DEF WritesLastRecord, Torn, Writing

\* A thread that goes on leaves a record that is complete.
LEMMA LogDoneKeepsTheLog ==
    ASSUME InOrder, LogTypes, WritesLastRecord, NEW t \in Thread, LogDone(t)
    PROVE  WritesLastRecord'
<1>1. Logs(t) /\ UNCHANGED logs /\ pc'[t] # "log" /\ pc[t] = "log"
  BY LogDoneStaysTyped
<1>2. unseen[t] = {}
  BY DEF LogDone
<1>3. \A r \in Record : ~Torn(history_log[t][r])
  <2> SUFFICES ASSUME NEW r \in Record, Torn(history_log[t][r]) PROVE FALSE
    OBVIOUS
  <2>1. Writing(t, r)
    BY DEF WritesLastRecord
  <2>2. \A f \in Field : f \in history_log[t][r]
    BY <1>2, <2>1 DEF WritesLastRecord
  <2>3. history_log[t][r] \subseteq Field
    BY DEF LogTypes, TypeOK
  <2> QED
    BY <2>2, <2>3 DEF Torn
<1>4. \A u \in Thread, r \in Record : u # t => (Writing(u, r)' <=> Writing(u, r))
  BY <1>1 DEF Writing, Logs, logs
<1>5. \A r \in Record : ~Writing(t, r)'
  BY <1>1 DEF Writing
<1>6. history_log' = history_log /\ unseen' = unseen /\ log_index' = log_index
  BY <1>1 DEF logs
<1>7. ASSUME NEW u \in Thread, NEW r \in Record, NEW f \in Field
      PROVE  /\ <<r, f>> \in unseen'[u] => Writing(u, r)'
             /\ Writing(u, r)' => f \in history_log'[u][r] \/ <<r, f>> \in unseen'[u]
  BY <1>2, <1>4, <1>5, <1>6 DEF WritesLastRecord
<1>8. ASSUME NEW u \in Thread, NEW r \in Record
      PROVE  /\ log_index'[u] <= r => history_log'[u][r] = {}
             /\ Torn(history_log'[u][r]) => Writing(u, r)'
  BY <1>3, <1>4, <1>6 DEF WritesLastRecord
<1> QED
  BY <1>7, <1>8 DEF WritesLastRecord, Torn, Writing

-------------------------------------------------------------------------------
(* The dump, if main sees the stores in order                              *)

\* The record main is at, when it is not the last one it means to dump, is one
\* that its thread has left behind.
LEMMA RecordIsLeft ==
    ASSUME LogTypes, DumpProgress, Len(rows[dumping]) + 1 < final_count
    PROVE  /\ Len(rows[dumping]) \in Record
           /\ ~Writing(dumping, Len(rows[dumping]))
<1> USE LifecycleAssumption
<1>1. Len(rows[dumping]) \in Nat
  BY LenProperties DEF LogTypes
<1>2. final_count \in 0 .. MAX_HISTORY_RECORDS /\ log_index[dumping] \in Nat
  BY DEF LogTypes, TypeOK
<1>3. final_count <= log_index[dumping]
  BY DEF DumpProgress
<1> QED
  BY <1>1, <1>2, <1>3 DEF Record, Writing

\* main loads one field.
LEMMA LoadKeepsRow ==
    ASSUME LogTypes, DumpProgress, RowIsRecord, OnlyLastRowTorn,
           NEW f \in Field, MainLoad(f)
    PROVE  DumpProgress' /\ RowIsRecord' /\ OnlyLastRowTorn'
<1>1. /\ UNCHANGED <<logs, mpc, dumping, final_count, rows>>
      /\ mpc = "dump" /\ Len(rows[dumping]) < final_count
      /\ f \in toLoad /\ toLoad' = toLoad \ {f}
      /\ row' = row \cup ({f} \cap history_log[dumping][Len(rows[dumping])])
  BY DEF MainLoad
<1>2. toLoad' # Field
  BY <1>1
<1>3. DumpProgress'
  BY <1>1, <1>2 DEF DumpProgress, logs
<1>4. RowIsRecord'
  BY <1>1 DEF RowIsRecord, logs
<1> QED
  BY <1>1, <1>3, <1>4 DEF OnlyLastRowTorn, Torn

\* main writes one more line.  It is torn only if its record is the last one
\* that main means to dump.
LEMMA RowIsLastIfTorn ==
    ASSUME LogTypes, WritesLastRecord, DumpProgress, RowIsRecord, OnlyLastRowTorn,
           MainRow
    PROVE  DumpProgress' /\ RowIsRecord' /\ OnlyLastRowTorn'
<1> DEFINE n == Len(rows[dumping])
<1>1. /\ UNCHANGED <<logs, mpc, dumping, final_count>>
      /\ mpc = "dump" /\ toLoad = {}
      /\ rows' = [rows EXCEPT ![dumping] = Append(rows[dumping], row)]
      /\ toLoad' = Field /\ row' = {}
  BY DEF MainRow
<1>2. n \in Nat /\ final_count \in Nat /\ dumping \in Thread
      /\ rows[dumping] \in Seq(SUBSET Field) /\ row \in SUBSET Field
  BY LenProperties, LifecycleAssumption DEF LogTypes, TypeOK
<1>3. n < final_count
  <2>1. toLoad # Field
    BY <1>1 DEF Field
  <2> QED
    BY <2>1 DEF DumpProgress
<1>4. /\ rows'[dumping] = Append(rows[dumping], row)
      /\ \A t \in Thread : t # dumping => rows'[t] = rows[t]
  BY <1>1, <1>2 DEF LogTypes
<1>5. /\ Len(rows'[dumping]) = n + 1
      /\ DOMAIN rows'[dumping] = 1 .. n + 1
      /\ rows'[dumping][n + 1] = row
      /\ \A r \in 1 .. n : rows'[dumping][r] = rows[dumping][r]
  BY <1>2, <1>4, AppendProperties, LenProperties
<1>6. DumpProgress'
  BY <1>1, <1>2, <1>4 DEF DumpProgress, Thread, logs
<1>7. RowIsRecord'
  BY <1>1 DEF RowIsRecord
<1>8. Torn(row) => n + 1 = final_count
  <2> SUFFICES ASSUME Torn(row), n + 1 < final_count PROVE FALSE
    BY <1>2, <1>3
  <2>1. n \in Record /\ ~Writing(dumping, n)
    BY RecordIsLeft
  <2>2. row = Field \cap history_log[dumping][n]
    BY <1>1 DEF RowIsRecord
  <2>3. history_log[dumping][n] \subseteq Field
    BY <1>2, <2>1 DEF LogTypes, TypeOK
  <2>4. row = history_log[dumping][n]
    BY <2>2, <2>3
  <2> QED
    BY <1>2, <2>1, <2>4 DEF WritesLastRecord
<1>9. ASSUME NEW t \in Thread, NEW r \in DOMAIN rows'[t], Torn(rows'[t][r])
      PROVE  r = Len(rows'[t]) /\ (dumping' = t => r = final_count')
  <2>1. CASE t # dumping
    BY <1>1, <1>4, <1>9, <2>1 DEF OnlyLastRowTorn
  <2>2. CASE t = dumping /\ r = n + 1
    BY <1>1, <1>5, <1>8, <1>9, <2>2
  <2>3. CASE t = dumping /\ r # n + 1
    <3>1. r \in 1 .. n /\ Torn(rows[dumping][r])
      BY <1>2, <1>5, <1>9, <2>3
    <3>2. r \in DOMAIN rows[dumping]
      BY <1>2, <3>1, LenProperties
    <3>3. r = n /\ r = final_count
      BY <1>2, <3>1, <3>2 DEF OnlyLastRowTorn
    <3> QED
      BY <1>2, <1>3, <3>3
  <2> QED
    BY <2>1, <2>2, <2>3
<1> QED
  BY <1>6, <1>7, <1>9 DEF OnlyLastRowTorn, Torn

\* The other steps of main: it begins a file, or returns.
LEMMA MainKeepsRows ==
    ASSUME LogTypes, WritesLastRecord, DumpProgress, RowIsRecord, OnlyLastRowTorn,
           Main
    PROVE  DumpProgress' /\ RowIsRecord' /\ OnlyLastRowTorn'
<1> USE LifecycleAssumption DEF LogTypes, TypeOK, DumpProgress, RowIsRecord,
        OnlyLastRowTorn, Torn, Thread, logs, dump
<1>1. CASE start_zmq_sender
  BY <1>1 DEF start_zmq_sender
<1>2. CASE start_zmq_receiver
  BY <1>2 DEF start_zmq_receiver
<1>3. CASE MainWake
  <2>1. /\ UNCHANGED <<logs, toLoad, row, rows>>
        /\ mpc' = "dump" /\ dumping' = "receiver"
        /\ final_count' <= log_index["receiver"]
        /\ rows["receiver"] = << >> /\ rows["sender"] = << >>
        /\ toLoad = Field /\ row = {}
    BY <1>3 DEF MainWake, Count
  <2> QED
    BY <2>1
<1>4. ASSUME NEW f \in Field, MainLoad(f)
      PROVE  DumpProgress' /\ RowIsRecord' /\ OnlyLastRowTorn'
  BY <1>4, LoadKeepsRow
<1>5. CASE MainRow
  BY <1>5, RowIsLastIfTorn
<1>6. CASE MainNext
  <2>1. CASE dumping = "receiver"
    <3>1. /\ UNCHANGED <<logs, toLoad, row, rows>>
          /\ dumping' = "sender" /\ mpc' = mpc
          /\ mpc = "dump" /\ final_count' <= log_index["sender"]
          /\ rows["sender"] = << >> /\ toLoad = Field /\ row = {}
      BY <1>6, <2>1 DEF MainNext, Count
    <3> QED
      BY <2>1, <3>1
  <2>2. CASE dumping # "receiver"
    <3>1. /\ UNCHANGED <<logs, toLoad, row, rows, dumping, final_count>>
          /\ mpc = "dump" /\ mpc' = "returned" /\ toLoad = Field /\ row = {}
      BY <1>6, <2>2 DEF MainNext
    <3> QED
      BY <3>1
  <2> QED
    BY <2>1, <2>2
<1> QED
  BY <1>1, <1>2, <1>3, <1>4, <1>5, <1>6 DEF Main

LEMMA LogInvStep == InOrder /\ LogInv /\ [Next]_vars => LogInv'
<1> SUFFICES ASSUME InOrder, LogInv, [Next]_vars PROVE LogInv'
  OBVIOUS
<1>0. /\ LogTypes /\ Unborn /\ WritesLastRecord /\ DumpProgress /\ RowIsRecord
      /\ OnlyLastRowTorn
  BY DEF LogInv
<1>1. LogTypes' /\ Unborn'
  BY <1>0, TypesStep
<1>2. ASSUME Elsewhere PROVE LogInv'
  BY <1>0, <1>1, <1>2 DEF Elsewhere, LogInv, WritesLastRecord, Writing, DumpProgress,
     RowIsRecord, OnlyLastRowTorn, Torn, logs, main, dump
<1>3. ASSUME NEW t \in Thread, Logs(t), history_log' = history_log, WritesLastRecord'
      PROVE  LogInv'
  <2>1. DumpProgress'
    BY <1>0, <1>1, <1>3, LifecycleAssumption, SMTT(30)
       DEF DumpProgress, Logs, main, dump, LogTypes, TypeOK
  <2>2. RowIsRecord' /\ OnlyLastRowTorn'
    BY <1>0, <1>3 DEF RowIsRecord, OnlyLastRowTorn, Torn, Logs, main, dump
  <2> QED
    BY <1>1, <1>3, <2>1, <2>2 DEF LogInv
<1>4. ASSUME NEW t \in Thread, Begin(t) PROVE LogInv'
  <2>1. Logs(t) /\ WritesLastRecord' /\ history_log' = history_log
    BY <1>0, <1>4, BeginStaysTyped, BeginKeepsTheLog DEF Begin
  <2> QED
    BY <1>3, <2>1
<1>5. ASSUME NEW t \in Thread, LogDone(t) PROVE LogInv'
  <2>1. Logs(t) /\ WritesLastRecord' /\ history_log' = history_log
    BY <1>0, <1>5, LogDoneStaysTyped, LogDoneKeepsTheLog DEF logs
  <2> QED
    BY <1>3, <2>1
<1>6. ASSUME NEW t \in Thread, NEW r \in Record, NEW f \in Field, Log(t, r, f)
      PROVE  LogInv'
  <2>1. /\ WritesLastRecord' /\ Writing(t, r)
        /\ \A u \in Thread, q \in Record :
              u # t \/ q # r => history_log'[u][q] = history_log[u][q]
    BY <1>0, <1>6, LogKeepsTheLog
  <2>2. UNCHANGED <<pc, log_index, main>>
    BY <1>0, <1>6, LogStaysTyped
  <2>3. DumpProgress' /\ OnlyLastRowTorn'
    BY <1>0, <2>2 DEF DumpProgress, OnlyLastRowTorn, Torn, main, dump
  <2>4. RowIsRecord'
    <3> SUFFICES ASSUME mpc = "dump", Len(rows[dumping]) + 1 < final_count
                 PROVE  row = (Field \ toLoad)
                                \cap history_log'[dumping][Len(rows[dumping])]
      BY <2>2 DEF RowIsRecord, main, dump
    <3>1. Len(rows[dumping]) \in Record /\ ~Writing(dumping, Len(rows[dumping]))
      BY <1>0, RecordIsLeft
    <3>2. dumping # t \/ Len(rows[dumping]) # r
      BY <2>1, <3>1
    <3>3. dumping \in Thread
      BY <1>0 DEF LogTypes
    <3>4. history_log'[dumping][Len(rows[dumping])] =
             history_log[dumping][Len(rows[dumping])]
      BY <2>1, <3>1, <3>2, <3>3
    <3> QED
      BY <1>0, <3>4 DEF RowIsRecord
  <2> QED
    BY <1>1, <2>1, <2>3, <2>4 DEF LogInv
<1>7. CASE Main
  <2>1. OfMain
    BY <1>0, <1>7, MainStaysTyped
  <2>2. WritesLastRecord'
    BY <1>0, <2>1 DEF OfMain, WritesLastRecord, Writing, Torn, logs
  <2>3. DumpProgress' /\ RowIsRecord' /\ OnlyLastRowTorn'
    BY <1>0, <1>7, MainKeepsRows
  <2> QED
    BY <1>1, <2>2, <2>3 DEF LogInv
<1>8. CASE UNCHANGED vars
  BY <1>0, <1>1, <1>8 DEF LogInv, WritesLastRecord, Writing, DumpProgress, RowIsRecord,
     OnlyLastRowTorn, Torn, vars, logs, main, dump
<1> QED
  BY <1>0, <1>2, <1>4, <1>5, <1>6, <1>7, <1>8, SocketsStayTyped DEF Next

LEMMA LogInvInit == Init => LogInv
<1> SUFFICES ASSUME Init PROVE LogInv
  OBVIOUS
<1> USE LifecycleAssumption DEF Init
<1>1. LogTypes
  <2>1. rows \in [Thread -> Seq(SUBSET Field)]
    BY EmptySeq
  <2>2. history_log \in [Thread -> [Record -> SUBSET Field]]
        /\ unseen \in [Thread -> SUBSET (Record \X Field)]
    OBVIOUS
  <2>3. log_index \in [Thread -> 0 .. MaxEvents]
    OBVIOUS
  <2>4. k \in Connector /\ connectors \subseteq Connector
    <3>1. CONNECTORS \in Nat /\ CONNECTORS # 0
      BY LifecycleAssumption
    <3> QED
      BY <3>1 DEF Connector
  <2>5. pull \in BOOLEAN /\ toLoad \subseteq Field /\ row \subseteq Field
    OBVIOUS
  <2>6. dumping \in Thread /\ final_count \in 0 .. MAX_HISTORY_RECORDS
    BY DEF Thread
  <2> QED
    BY <2>1, <2>2, <2>3, <2>4, <2>5, <2>6 DEF LogTypes, TypeOK
<1>2. Unborn
  BY DEF Unborn, Thread
<1>3. WritesLastRecord
  BY DEF WritesLastRecord, Writing, Torn, Record
<1>4. DumpProgress /\ RowIsRecord /\ OnlyLastRowTorn
  BY DEF DumpProgress, RowIsRecord, OnlyLastRowTorn, Torn, Thread
<1> QED
  BY <1>1, <1>2, <1>3, <1>4 DEF LogInv

\* The threads, the context and the logs keep their types, whatever main sees of
\* the stores: no index of a history log leaves its array, whatever
\* atomic_fetch_add has handed out.
THEOREM TypeCorrect == Spec => []TypeOK
<1>1. Init => LogTypes /\ Unborn
  BY LogInvInit DEF LogInv
<1>2. LogTypes => TypeOK
  BY DEF LogTypes
<1> QED
  BY <1>1, <1>2, TypesStep, PTL DEF Spec

\* main dumps the logs without waiting for the threads that write them, and yet
\* only the last line of a CSV can be a record that is half written: if, and
\* this the code does not ensure, main sees each thread's stores in order.
THEOREM OnlyLastRowTornAlways ==
    ASSUME InOrder
    PROVE  Spec => []OnlyLastRowTorn
<1>1. LogInv => OnlyLastRowTorn
  BY DEF LogInv
<1>2. LogInv /\ [Next]_vars => LogInv'
  BY LogInvStep
<1> QED
  BY <1>1, <1>2, LogInvInit, PTL DEF Spec
===============================================================================
