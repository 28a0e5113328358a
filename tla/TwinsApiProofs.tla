---------------------------- MODULE TwinsApiProofs ----------------------------
(***************************************************************************)
(* TwinsApi for any number of twins, variables, updates and requests.      *)
(***************************************************************************)
EXTENDS TwinsApi, SequenceTheorems, TLAPS

-------------------------------------------------------------------------------
(* Types                                                                   *)

\* TypeOK needs to know that the values written are numbers of updates.
TypeInv == TypeOK /\ updates \in 0 .. MaxUpdates

\* What the two loops of the server count through.
LEMMA LoopRanges ==
    /\ 0 \in Vars
    /\ \A v \in Vars : v + 1 < MAX_VARS_PER_TWINS => v + 1 \in Vars
    /\ \A t \in Twins \cup Ids : t + 1 < MAX_TWINS => t + 1 \in Twins
  BY ApiAssumption DEF Vars, Twins

\* Every step of the processor and of the API server, interleaved access by
\* access, preserves the types: the loops of GET and GET_ALL never leave the
\* range of the variables, and a twin only ever gets a status from its three.
LEMMA TypeInvStep == TypeInv /\ [Next]_vars => TypeInv'
<1> SUFFICES ASSUME TypeInv, [Next]_vars PROVE TypeInv'
  OBVIOUS
<1> USE ApiAssumption DEF TypeInv, TypeOK, Twins, Vars, OK, DESCONECTADO
<1>1. ASSUME NEW t \in Ids, NEW v \in 0 .. MAX_VARS_PER_TWINS, UpdateBegin(t, v)
      PROVE  TypeInv'
  <2>1. UNCHANGED <<twin_vars, status, last_update_ms, apc, request, answered,
                    twin, var>>
    BY <1>1 DEF UpdateBegin, memory, server
  <2>2. upd' \in Ids \X (0 .. MAX_VARS_PER_TWINS)
    BY <1>1 DEF UpdateBegin
  <2>3. wpc' \in {"idle", "var", "status", "time"} /\ updates' \in 0 .. MaxUpdates
    BY <1>1 DEF UpdateBegin
  <2> QED
    BY <2>1, <2>2, <2>3
<1>2. CASE StoreVar
  BY <1>2 DEF StoreVar, server, others
<1>3. CASE StoreStatus
  BY <1>3 DEF StoreStatus, server, others
<1>4. CASE StoreTime
  BY <1>4 DEF StoreTime, server, others
<1>5. ASSUME NEW r \in Requests, Ask(r)
      PROVE  TypeInv'
  BY <1>5 DEF Ask, memory, writer, others
<1>6. CASE ApiRecv
  <2>1. /\ UNCHANGED <<twin_vars, status, last_update_ms, wpc, upd, updates,
                       request>>
        /\ var' = 0
        /\ answered' = TRUE \/ answered' = answered
    BY <1>6 DEF ApiRecv, send_error, memory, writer
  <2>2. apc' \in {"recv", "status", "delete", "exited"}
    BY <1>6 DEF ApiRecv, Again
  <2>3. twin' = twin \/ twin' = 0 \/ twin' = request.id
    BY <1>6 DEF ApiRecv
  <2>4. request.id \in Ids
    BY DEF Requests
  <2>5. answered' \in BOOLEAN
    BY <2>1
  <2>6. twin' \in Twins \cup Ids
    BY <2>3, <2>4
  <2>7. var' \in Vars
    BY <2>1, LoopRanges
  <2> QED
    BY <2>1, <2>2, <2>5, <2>6, <2>7
<1>7. CASE LoadStatus
  <2>1. /\ UNCHANGED <<twin_vars, status, last_update_ms, wpc, upd, updates,
                       request, twin, answered>>
        /\ apc' = "var" /\ var' = 0
    BY <1>7 DEF LoadStatus, memory, writer
  <2>2. var' \in Vars
    BY <2>1, LoopRanges
  <2> QED
    BY <2>1, <2>2
<1>8. CASE LoadVar
  <2>1. UNCHANGED <<twin_vars, status, last_update_ms, wpc, upd, updates, request,
                    answered>>
    BY <1>8 DEF LoadVar, memory, writer
  <2>2. var' \in Vars
    <3>1. var' = 0 \/ (var' = var + 1 /\ var + 1 < MAX_VARS_PER_TWINS)
      BY <1>8 DEF LoadVar, More
    <3>2. var \in Vars
      OBVIOUS
    <3> HIDE DEF TypeInv, Vars
    <3> QED
      BY <3>1, <3>2, LoopRanges
  <2>3. twin' \in Twins \cup Ids
    <3>1. twin' = twin \/ (twin' = twin + 1 /\ twin + 1 < MAX_TWINS)
      BY <1>8 DEF LoadVar
    <3>2. twin \in Twins \cup Ids
      OBVIOUS
    <3> HIDE DEF TypeInv, Twins
    <3> QED
      BY <3>1, <3>2, LoopRanges
  <2>4. apc' \in {"status", "var", "send"}
    BY <1>8 DEF LoadVar
  <2> QED
    BY <2>1, <2>2, <2>3, <2>4
<1>9. CASE Delete
  BY <1>9 DEF Delete, twins_memory_set_status, writer
<1>10. CASE Send
  BY <1>10 DEF Send, Again, memory, writer, others
<1>11. CASE handle_sigint
  BY <1>11 DEF handle_sigint, memory, writer, server
<1>12. CASE ApiBind
  BY <1>12 DEF ApiBind, Again, memory, writer, others
<1>13. CASE UNCHANGED vars
  BY <1>13 DEF vars, memory, writer, server, others
<1> QED
  BY <1>1, <1>2, <1>3, <1>4, <1>5, <1>6, <1>7, <1>8, <1>9, <1>10, <1>11, <1>12,
     <1>13
     DEF Next, Writer, Server

\* Memory, both threads and the request on the socket keep their types.
THEOREM TypeCorrect == Spec => []TypeOK
<1>1. Init => TypeInv
  BY ApiAssumption DEF Init, twins_memory_init, TypeInv, TypeOK, Twins, Vars,
     Requests, OK, DESCONECTADO
<1>2. TypeInv => TypeOK
  BY DEF TypeInv
<1> QED
  BY <1>1, <1>2, TypeInvStep, PTL DEF Spec

-------------------------------------------------------------------------------
(* A deleted twin                                                          *)

\* DeleteHolds is not inductive: a status store that is under way could undo
\* it.  No update of a quiet twin is under way.
DeleteInv ==
    /\ TypeInv
    /\ DeleteHolds
    /\ wpc # "idle" => upd[1] \notin quiet

\* The only store of a status other than DESCONECTADO is by an update, and an
\* update of a twin takes it out of quiet when it begins.
LEMMA DeleteInvStep == DeleteInv /\ [Next]_vars => DeleteInv'
<1> SUFFICES ASSUME DeleteInv, [Next]_vars PROVE DeleteInv'
  OBVIOUS
<1>0. TypeInv'
  BY TypeInvStep DEF DeleteInv
<1> USE <1>0 DEF DeleteInv, DeleteHolds, TypeInv, TypeOK
<1>1. ASSUME NEW t \in Ids, NEW v \in 0 .. MAX_VARS_PER_TWINS, UpdateBegin(t, v)
      PROVE  DeleteInv'
  BY <1>1 DEF UpdateBegin, memory
<1>2. CASE StoreVar
  BY <1>2 DEF StoreVar, others
<1>3. CASE StoreStatus
  <2>1. \A t \in quiet \cap Twins : status'[t] = status[t]
    BY <1>3 DEF StoreStatus
  <2> QED
    BY <1>3, <2>1 DEF StoreStatus, others
<1>4. CASE StoreTime
  BY <1>4 DEF StoreTime, others
<1>5. ASSUME NEW r \in Requests, Ask(r)
      PROVE  DeleteInv'
  BY <1>5 DEF Ask, memory, writer, others
<1>6. CASE ApiRecv
  BY <1>6 DEF ApiRecv, memory, writer, others
<1>7. CASE LoadStatus
  BY <1>7 DEF LoadStatus, memory, writer, others
<1>8. CASE LoadVar
  BY <1>8 DEF LoadVar, memory, writer, others
<1>9. CASE Delete
  BY <1>9 DEF Delete, twins_memory_set_status, writer
<1>10. CASE Send
  BY <1>10 DEF Send, memory, writer, others
<1>11. CASE handle_sigint
  BY <1>11 DEF handle_sigint, memory, writer
<1>12. CASE ApiBind
  BY <1>12 DEF ApiBind, memory, writer, others
<1>13. CASE UNCHANGED vars
  BY <1>13 DEF vars, memory, writer, others
<1> QED
  BY <1>1, <1>2, <1>3, <1>4, <1>5, <1>6, <1>7, <1>8, <1>9, <1>10, <1>11, <1>12,
     <1>13
     DEF Next, Writer, Server

\* A twin that DELETE has set to DESCONECTADO while no update of it was under
\* way stays so until the next update of it, for any number of twins.
THEOREM DeletedStaysDeleted == Spec => []DeleteHolds
<1>1. Init => DeleteInv
  BY ApiAssumption DEF Init, twins_memory_init, DeleteInv, DeleteHolds, TypeInv,
     TypeOK, Twins, Vars, Requests, OK, DESCONECTADO
<1>2. DeleteInv => DeleteHolds
  BY DEF DeleteInv
<1> QED
  BY <1>1, <1>2, DeleteInvStep, PTL DEF Spec

-------------------------------------------------------------------------------
(* What an answer says of a twin                                           *)

\* x was written to variable v of twin t, or is its initial value.
Written(x, t, v) == x = 0 \/ (x \in DOMAIN origin /\ origin[x] = <<t, v>>)

\* What the writer leaves in memory between any two of its stores: each variable
\* holds a value that was written to it, and each twin has a variable at least
\* as new as the update that made it OK, because the variable is stored first.
MemoryInv ==
    /\ origin \in Seq(Ids \X (0 .. MAX_VARS_PER_TWINS)) /\ Len(origin) = updates
    /\ okBy \in [Twins -> 0 .. MaxUpdates]
    /\ wpc # "idle" => /\ updates \in 1 .. MaxUpdates
                       /\ upd \in Twins \X Vars
                       /\ origin[updates] = upd
    /\ wpc = "status" => twin_vars[upd[1]][upd[2]] = updates
    /\ \A t \in Twins : \A v \in Vars :
          Written(twin_vars[t][v], t, v) /\ twin_vars[t][v] <= updates
    /\ \A t \in Twins : \E v \in Vars : twin_vars[t][v] >= okBy[t]

\* One twin's part of an answer.
Entry == [id : Twins \cup Ids, status : Nat, vars : Seq(Int), since : Nat]

\* The entry e with n of its variables loaded.  What makes the twin OK is among
\* the values loaded, or still in memory where the server has yet to look.
Filled(e, n) ==
    /\ Len(e.vars) = n
    /\ e.id \in Twins => \A v \in 1 .. n : Written(e.vars[v], e.id, v - 1)
    /\ e.id \notin Twins => e.status # OK /\ \A v \in 1 .. n : e.vars[v] = -1
    /\ e.status = OK =>
          \/ \E v \in 1 .. n : e.vars[v] >= e.since
          \/ \E v \in Vars : v >= n /\ twin_vars[e.id][v] >= e.since

\* How many variables of entry k have been loaded.
Loaded(k) == IF apc = "var" /\ k = Len(reply) THEN var ELSE MAX_VARS_PER_TWINS

Packing == apc \in {"status", "var"}

\* The request cannot change while it is being served.
RequestInv ==
    /\ apc \in {"status", "var", "delete", "send"} => ~answered
    /\ Packing => request.op \in {"GET", "GET_ALL"}
    /\ apc = "delete" => request.op = "DELETE"

\* Where the loops of the server are, and what they have packed.
ReplyInv ==
    Packing \/ AnswerReady =>
        /\ reply \in Seq(Entry)
        /\ \A k \in 1 .. Len(reply) : Filled(reply[k], Loaded(k))
        /\ request.op = "GET_ALL" =>
              /\ \A k \in 1 .. Len(reply) : reply[k].id = k - 1
              /\ Packing => twin \in Twins
              /\ apc = "status" => Len(reply) = twin
              /\ apc = "var" => Len(reply) = twin + 1
              /\ apc = "send" => Len(reply) = MAX_TWINS
        /\ request.op = "GET" =>
              /\ \A k \in 1 .. Len(reply) : reply[k].id = request.id
              /\ Packing => twin = request.id
              /\ Len(reply) = IF apc = "status" THEN 0 ELSE 1

AnswerInv == TypeInv /\ MemoryInv /\ RequestInv /\ ReplyInv

\* What no step of anyone may do: take a variable back to an older value, or
\* forget what was written.
MemoryGrows ==
    /\ \A t \in Twins : \A v \in Vars : twin_vars'[t][v] >= twin_vars[t][v]
    /\ \A x \in Int : \A t \in Twins : \A v \in Vars :
          Written(x, t, v) => Written(x, t, v)'

\* The server changes none of the variables and nothing of the writer.
LEMMA ServerLeavesMemory ==
    ASSUME TypeInv,
           Server \/ handle_sigint \/ (\E r \in Requests : Ask(r)) \/ UNCHANGED vars
    PROVE  UNCHANGED <<twin_vars, wpc, upd, updates, origin, okBy>>
  BY DEF Server, ApiBind, ApiRecv, LoadStatus, LoadVar, Delete, Send, handle_sigint,
     Ask, vars, memory, writer, server, others

LEMMA UpdateBeginKeepsMemory ==
    ASSUME TypeInv, MemoryInv,
           NEW t \in Ids, NEW v \in 0 .. MAX_VARS_PER_TWINS, UpdateBegin(t, v)
    PROVE  MemoryInv' /\ MemoryGrows
<1> USE ApiAssumption
<1>1. /\ UNCHANGED <<twin_vars, okBy>> /\ updates' = updates + 1
      /\ origin' = Append(origin, <<t, v>>) /\ upd' = <<t, v>>
      /\ wpc' = "idle" \/ (wpc' = "var" /\ t \in Twins /\ v \in Vars)
      /\ updates < MaxUpdates
  BY DEF UpdateBegin, memory
<1>2. /\ updates \in Nat /\ updates \in 0 .. MaxUpdates
      /\ origin \in Seq(Ids \X (0 .. MAX_VARS_PER_TWINS)) /\ Len(origin) = updates
  BY DEF TypeInv, MemoryInv
<1>3. /\ origin' \in Seq(Ids \X (0 .. MAX_VARS_PER_TWINS)) /\ Len(origin') = updates'
      /\ DOMAIN origin = 1 .. updates /\ DOMAIN origin' = 1 .. updates + 1
      /\ origin'[updates + 1] = <<t, v>>
      /\ \A i \in 1 .. updates : origin'[i] = origin[i]
  <2> DEFINE S == Ids \X (0 .. MAX_VARS_PER_TWINS)
             e == <<t, v>>
  <2>1. origin \in Seq(S) /\ e \in S /\ origin' = Append(origin, e)
    BY <1>1, <1>2
  <2> HIDE DEF S, e
  <2>2. /\ origin' \in Seq(S) /\ Len(origin') = updates + 1
        /\ origin'[updates + 1] = e
        /\ \A i \in 1 .. updates : origin'[i] = origin[i]
    BY <1>2, <2>1, AppendProperties
  <2>3. DOMAIN origin = 1 .. updates /\ DOMAIN origin' = 1 .. updates + 1
    BY <1>2, <2>1, <2>2, LenProperties
  <2> QED
    BY <1>1, <2>2, <2>3 DEF S, e
<1>4. \A x \in Int : \A u \in Twins : \A w \in Vars :
         Written(x, u, w) => Written(x, u, w)'
  BY <1>2, <1>3, SMTT(30) DEF Written
<1>5. \A u \in Twins : \A w \in Vars : twin_vars[u][w] \in 0 .. MaxUpdates
  BY DEF TypeInv, TypeOK
<1>6. MemoryGrows
  BY <1>1, <1>4, <1>5 DEF MemoryGrows
<1>7. ASSUME NEW u \in Twins, NEW w \in Vars
      PROVE  Written(twin_vars[u][w], u, w)' /\ twin_vars'[u][w] <= updates'
  BY <1>1, <1>2, <1>4, <1>5 DEF MemoryInv
<1>8. \A u \in Twins : \E w \in Vars : twin_vars'[u][w] >= okBy'[u]
  BY <1>1 DEF MemoryInv
<1>9. wpc' # "idle" => /\ updates' \in 1 .. MaxUpdates
                       /\ upd' \in Twins \X Vars
                       /\ origin'[updates'] = upd'
  BY <1>1, <1>2, <1>3
<1>10. okBy' \in [Twins -> 0 .. MaxUpdates]
  BY <1>1 DEF MemoryInv
<1> QED
  BY <1>1, <1>3, <1>6, <1>7, <1>8, <1>9, <1>10 DEF MemoryInv

LEMMA StoreVarKeepsMemory ==
    ASSUME TypeInv, MemoryInv, StoreVar
    PROVE  MemoryInv' /\ MemoryGrows
<1> USE ApiAssumption
<1>1. /\ UNCHANGED <<upd, updates, origin, okBy>> /\ wpc = "var" /\ wpc' = "status"
      /\ twin_vars' = [twin_vars EXCEPT ![upd[1]][upd[2]] = updates]
  BY DEF StoreVar
<1>2. /\ updates \in 1 .. MaxUpdates /\ upd \in Twins \X Vars
      /\ upd[1] \in Twins /\ upd[2] \in Vars /\ upd = <<upd[1], upd[2]>>
      /\ origin[updates] = upd
  BY <1>1 DEF MemoryInv
<1>3. updates \in DOMAIN origin
  BY <1>2, LenProperties DEF MemoryInv
<1>4. /\ twin_vars'[upd[1]][upd[2]] = updates
      /\ \A t \in Twins : \A v \in Vars :
            t # upd[1] \/ v # upd[2] => twin_vars'[t][v] = twin_vars[t][v]
  BY <1>1, <1>2 DEF TypeInv, TypeOK
<1>5. \A t \in Twins : \A v \in Vars : twin_vars[t][v] \in 0 .. MaxUpdates
  BY DEF TypeInv, TypeOK
<1>6. ASSUME NEW t \in Twins, NEW v \in Vars
      PROVE  twin_vars'[t][v] >= twin_vars[t][v]
  <2>1. twin_vars[t][v] \in Nat /\ twin_vars[t][v] <= updates
    BY <1>5 DEF MemoryInv
  <2>2. CASE t = upd[1] /\ v = upd[2]
    BY <1>4, <2>1, <2>2
  <2>3. CASE t # upd[1] \/ v # upd[2]
    BY <1>4, <2>1, <2>3
  <2> QED
    BY <2>2, <2>3
<1>7. MemoryGrows
  BY <1>1, <1>6 DEF MemoryGrows, Written
<1>8. ASSUME NEW t \in Twins, NEW v \in Vars
      PROVE  Written(twin_vars[t][v], t, v)' /\ twin_vars'[t][v] <= updates'
  <2>1. CASE t = upd[1] /\ v = upd[2]
    <3>1. twin_vars'[t][v] = updates' /\ updates' \in Nat
      BY <1>1, <1>2, <1>4, <2>1
    <3>2. updates \in DOMAIN origin' /\ origin'[updates] = <<t, v>>
      BY <1>1, <1>2, <1>3, <2>1
    <3> QED
      BY <1>1, <3>1, <3>2 DEF Written
  <2>2. CASE t # upd[1] \/ v # upd[2]
    <3>1. twin_vars'[t][v] = twin_vars[t][v]
      BY <1>4, <2>2
    <3>2. Written(twin_vars[t][v], t, v) /\ twin_vars[t][v] <= updates
      BY DEF MemoryInv
    <3> QED
      BY <1>1, <3>1, <3>2 DEF Written
  <2> QED
    BY <2>1, <2>2
<1>9. ASSUME NEW t \in Twins
      PROVE  \E v \in Vars : twin_vars'[t][v] >= okBy'[t]
  <2>1. PICK v \in Vars : twin_vars[t][v] >= okBy[t]
    BY DEF MemoryInv
  <2>2. okBy[t] \in 0 .. MaxUpdates
    BY DEF MemoryInv
  <2>3. twin_vars'[t][v] \in Int
    BY <1>2, <1>4, <1>5
  <2>4. twin_vars'[t][v] >= okBy[t]
    BY <1>5, <1>6, <2>1, <2>2, <2>3
  <2> QED
    BY <1>1, <2>4
<1> QED
  BY <1>1, <1>2, <1>4, <1>7, <1>8, <1>9 DEF MemoryInv

LEMMA StoreStatusKeepsMemory ==
    ASSUME TypeInv, MemoryInv, StoreStatus
    PROVE  MemoryInv' /\ MemoryGrows
<1> USE ApiAssumption
<1>1. /\ UNCHANGED <<twin_vars, upd, updates, origin>> /\ wpc = "status" /\ wpc' = "time"
      /\ okBy' = [okBy EXCEPT ![upd[1]] = updates]
  BY DEF StoreStatus
<1>2. /\ updates \in 1 .. MaxUpdates /\ upd[1] \in Twins /\ upd[2] \in Vars
      /\ twin_vars[upd[1]][upd[2]] = updates
  BY <1>1 DEF MemoryInv
<1>3. okBy' \in [Twins -> 0 .. MaxUpdates]
  BY <1>1, <1>2 DEF MemoryInv
<1>4. \A t \in Twins : \A v \in Vars : twin_vars[t][v] \in 0 .. MaxUpdates
  BY DEF TypeInv, TypeOK
<1>5. MemoryGrows
  BY <1>1, <1>4 DEF MemoryGrows, Written
<1>6. ASSUME NEW t \in Twins
      PROVE  \E v \in Vars : twin_vars'[t][v] >= okBy'[t]
  <2>1. CASE t = upd[1]
    BY <1>1, <1>2, <2>1 DEF MemoryInv
  <2>2. CASE t # upd[1]
    BY <1>1, <2>2 DEF MemoryInv
  <2> QED
    BY <2>1, <2>2
<1> QED
  BY <1>1, <1>3, <1>5, <1>6 DEF MemoryInv, Written

LEMMA MemoryStep ==
    ASSUME TypeInv, MemoryInv, [Next]_vars
    PROVE  MemoryInv' /\ MemoryGrows
<1>1. CASE StoreTime
  BY <1>1, ApiAssumption DEF StoreTime, MemoryInv, MemoryGrows, Written, TypeInv, TypeOK
<1>2. CASE Server \/ handle_sigint \/ (\E r \in Requests : Ask(r)) \/ UNCHANGED vars
  <2>1. UNCHANGED <<twin_vars, wpc, upd, updates, origin, okBy>>
    BY <1>2, ServerLeavesMemory
  <2>2. \A t \in Twins : \A v \in Vars : twin_vars[t][v] \in 0 .. MaxUpdates
    BY DEF TypeInv, TypeOK
  <2>3. MemoryGrows
    BY <2>1, <2>2, ApiAssumption DEF MemoryGrows, Written
  <2> QED
    BY <2>1, <2>3 DEF MemoryInv, Written
<1> QED
  BY <1>1, <1>2, UpdateBeginKeepsMemory, StoreVarKeepsMemory, StoreStatusKeepsMemory
     DEF Next, Writer

\* An entry of an answer stays good whatever the writer does meanwhile.
LEMMA FilledStays ==
    ASSUME TypeInv, TypeInv', MemoryGrows,
           NEW e \in Entry, NEW n \in 0 .. MAX_VARS_PER_TWINS, Filled(e, n)
    PROVE  Filled(e, n)'
<1> USE ApiAssumption
<1>1. e.vars \in Seq(Int) /\ Len(e.vars) = n /\ e.since \in Nat
  BY DEF Filled, Entry
<1>2. \A v \in 1 .. n : e.vars[v] \in Int /\ v - 1 \in Vars
  BY <1>1, ElementOfSeq DEF Vars
<1>3. ASSUME e.id \in Twins, NEW v \in 1 .. n
      PROVE  Written(e.vars[v], e.id, v - 1)'
  BY <1>2, <1>3 DEF Filled, MemoryGrows
<1>4. ASSUME NEW v \in Vars, e.id \in Twins, twin_vars[e.id][v] >= e.since
      PROVE  twin_vars'[e.id][v] >= e.since
  <2>1. twin_vars[e.id][v] \in 0 .. MaxUpdates /\ twin_vars'[e.id][v] \in 0 .. MaxUpdates
    BY <1>4 DEF TypeInv, TypeOK
  <2>2. twin_vars'[e.id][v] >= twin_vars[e.id][v]
    BY <1>4 DEF MemoryGrows
  <2> QED
    BY <1>1, <1>4, <2>1, <2>2
<1>5. e.status = OK => e.id \in Twins
  BY DEF Filled
<1> QED
  BY <1>1, <1>3, <1>4, <1>5 DEF Filled

\* Steps that leave the server's own state alone.
LEMMA ReplyStays ==
    ASSUME TypeInv, TypeInv', MemoryGrows, ReplyInv,
           UNCHANGED <<apc, request, twin, var, reply>>
    PROVE  ReplyInv'
<1> SUFFICES ASSUME Packing \/ AnswerReady
             PROVE  \A k \in 1 .. Len(reply) : Filled(reply[k], Loaded(k))'
  BY DEF ReplyInv, Packing, AnswerReady, Loaded
<1> TAKE k \in 1 .. Len(reply)
<1>1. reply[k] \in Entry
  BY ElementOfSeq DEF ReplyInv
<1>2. Loaded(k) \in 0 .. MAX_VARS_PER_TWINS
  BY ApiAssumption DEF Loaded, TypeInv, TypeOK, Vars
<1>3. Filled(reply[k], Loaded(k))
  BY DEF ReplyInv
<1>4. \A e \in Entry : \A n \in 0 .. MAX_VARS_PER_TWINS : Filled(e, n) => Filled(e, n)'
  BY FilledStays
<1> QED
  BY <1>1, <1>2, <1>3, <1>4 DEF Filled, Loaded, Written

\* A request stays on the socket until it is answered.
LEMMA RequestStep ==
    ASSUME TypeInv, RequestInv, [Next]_vars
    PROVE  RequestInv'
<1> USE DEF RequestInv, Packing
<1>1. CASE Writer \/ handle_sigint \/ UNCHANGED vars
  BY <1>1 DEF Writer, UpdateBegin, StoreVar, StoreStatus, StoreTime, handle_sigint,
     vars, server
<1>2. ASSUME NEW r \in Requests, Ask(r) PROVE RequestInv'
  BY <1>2 DEF Ask, TypeInv, TypeOK
<1>3. CASE ApiRecv
  BY <1>3 DEF ApiRecv, Again, TypeInv, TypeOK
<1>4. CASE LoadStatus
  BY <1>4 DEF LoadStatus
<1>5. CASE LoadVar
  BY <1>5 DEF LoadVar
<1>6. CASE Delete
  BY <1>6 DEF Delete
<1>7. CASE Send \/ ApiBind
  BY <1>7 DEF Send, ApiBind, Again
<1> QED
  BY <1>1, <1>2, <1>3, <1>4, <1>5, <1>6, <1>7 DEF Next, Server

\* The status is loaded before the variables: if it is OK, a variable as new as
\* the update that made it so is in memory by now.
LEMMA LoadStatusKeepsReply ==
    ASSUME TypeInv, MemoryInv, RequestInv, ReplyInv, LoadStatus
    PROVE  ReplyInv'
<1> DEFINE e == [id     |-> twin,
                 status |-> PackUnsigned(twins_memory_get_status(twin)),
                 vars   |-> << >>,
                 since  |-> IF twin \in Twins THEN okBy[twin] ELSE 0]
           n == Len(reply)
<1> USE ApiAssumption
<1>1. /\ UNCHANGED <<twin_vars, origin, request, twin>>
      /\ apc = "status" /\ apc' = "var" /\ var' = 0 /\ reply' = Append(reply, e)
  BY DEF LoadStatus, memory, writer
<1>2. reply \in Seq(Entry) /\ n \in Nat /\ \A k \in 1 .. n : Filled(reply[k], Loaded(k))
  BY <1>1, LenProperties DEF ReplyInv, Packing
<1>3. e \in Entry
  <2>1. PackUnsigned(twins_memory_get_status(twin)) \in Nat
    BY DEF PackUnsigned, twins_memory_get_status, TypeInv, TypeOK, UINT64_MAX, OK,
       DESCONECTADO
  <2>2. (IF twin \in Twins THEN okBy[twin] ELSE 0) \in Nat
    BY DEF MemoryInv
  <2>3. << >> \in Seq(Int) /\ twin \in Twins \cup Ids
    BY EmptySeq DEF TypeInv, TypeOK
  <2> QED
    BY <2>1, <2>2, <2>3 DEF Entry
<1>4. e.id = twin /\ e.vars = << >> /\ Len(e.vars) = 0
      /\ (twin \in Twins => e.since = okBy[twin])
  BY EmptySeq
<1>5. twin \notin Twins => e.status # OK
  BY DEF PackUnsigned, twins_memory_get_status, UINT64_MAX, OK
<1> HIDE DEF e
<1>f. PICK f \in Entry : f = e
  BY <1>3
<1>6. /\ reply' \in Seq(Entry) /\ Len(reply') = n + 1
      /\ reply'[n + 1] = f /\ \A k \in 1 .. n : reply'[k] = reply[k]
  BY <1>f, <1>1, <1>2, AppendProperties
<1>7. Filled(f, 0)'
  <2>1. twin \in Twins => \E v \in Vars : v >= 0 /\ twin_vars'[twin][v] >= okBy[twin]
    BY <1>1 DEF MemoryInv, Vars
  <2> QED
    BY <1>f, <1>1, <1>4, <1>5, <2>1 DEF Filled
<1>8. ASSUME NEW k \in 1 .. Len(reply') PROVE Filled(reply[k], Loaded(k))'
  <2>1. CASE k = n + 1
    BY <1>1, <1>6, <1>7, <2>1 DEF Loaded, Filled
  <2>2. CASE k \in 1 .. n
    <3>1. Filled(reply[k], MAX_VARS_PER_TWINS)
      BY <1>1, <1>2, <2>2 DEF Loaded
    <3>2. Loaded(k)' = MAX_VARS_PER_TWINS /\ reply'[k] = reply[k]
      BY <1>2, <1>6, <2>2 DEF Loaded
    <3> QED
      BY <1>1, <3>1, <3>2 DEF Filled, Written
  <2> QED
    BY <1>2, <1>6, <2>1, <2>2
<1>9. request.op = "GET_ALL" =>
         /\ \A k \in 1 .. Len(reply') : reply'[k].id = k - 1
         /\ twin \in Twins
         /\ Len(reply') = twin + 1
  BY <1>f, <1>1, <1>2, <1>4, <1>6 DEF ReplyInv, Packing
<1>10. request.op = "GET" =>
         /\ \A k \in 1 .. Len(reply') : reply'[k].id = request.id
         /\ twin = request.id
         /\ Len(reply') = 1
  BY <1>f, <1>1, <1>2, <1>4, <1>6 DEF ReplyInv, Packing
<1> QED
  BY <1>1, <1>6, <1>8, <1>9, <1>10 DEF ReplyInv, Packing, AnswerReady

\* One more variable in the entry of its twin: the one that makes the twin OK,
\* or one the server had not come to yet.
LEMMA OneMoreVariable ==
    ASSUME TypeInv, MemoryInv, NEW e \in Entry, Filled(e, var),
           NEW f \in Entry,
           f.id = e.id, f.status = e.status, f.since = e.since,
           f.vars = Append(e.vars, twins_memory_get_var(e.id, var))
    PROVE  Filled(f, var + 1)
<1> DEFINE x == twins_memory_get_var(e.id, var)
<1> USE ApiAssumption
<1>1. var \in Vars /\ var \in Nat
  BY DEF TypeInv, TypeOK, Vars
<1>2. e.vars \in Seq(Int) /\ Len(e.vars) = var /\ e.since \in Nat
  BY DEF Entry, Filled
<1>3. x = IF e.id \in Twins THEN twin_vars[e.id][var] ELSE -1
  BY <1>1 DEF twins_memory_get_var
<1>4. x \in Int
  BY <1>1, <1>3 DEF TypeInv, TypeOK
<1> HIDE DEF x
<1>5. /\ Len(f.vars) = var + 1 /\ f.vars[var + 1] = x
      /\ \A v \in 1 .. var : f.vars[v] = e.vars[v]
  BY <1>2, <1>4, AppendProperties DEF x
<1>6. ASSUME f.id \in Twins, NEW v \in 1 .. var + 1
      PROVE  Written(f.vars[v], f.id, v - 1)
  <2>1. CASE v = var + 1
    <3>1. Written(twin_vars[f.id][var], f.id, var)
      BY <1>1, <1>6 DEF MemoryInv
    <3>2. f.vars[v] = twin_vars[f.id][var] /\ v - 1 = var
      BY <1>1, <1>3, <1>5, <1>6, <2>1
    <3> QED
      BY <3>1, <3>2
  <2>2. CASE v \in 1 .. var
    <3>1. Written(e.vars[v], e.id, v - 1)
      BY <1>6, <2>2 DEF Filled
    <3>2. f.vars[v] = e.vars[v]
      BY <1>5, <2>2
    <3> QED
      BY <3>1, <3>2
  <2>3. v = var + 1 \/ v \in 1 .. var
    BY <1>1
  <2> QED
    BY <2>1, <2>2, <2>3
<1>7. f.id \notin Twins =>
         f.status # OK /\ \A v \in 1 .. var + 1 : f.vars[v] = -1
  <2> SUFFICES ASSUME f.id \notin Twins
               PROVE  f.status # OK /\ \A v \in 1 .. var + 1 : f.vars[v] = -1
    OBVIOUS
  <2>1. e.status # OK /\ \A v \in 1 .. var : e.vars[v] = -1
    BY DEF Filled
  <2>2. x = -1
    BY <1>3
  <2>3. \A v \in 1 .. var + 1 : v = var + 1 \/ v \in 1 .. var
    BY <1>1
  <2> QED
    BY <1>5, <2>1, <2>2, <2>3
<1>8. f.status = OK =>
         \/ \E v \in 1 .. var + 1 : f.vars[v] >= f.since
         \/ \E v \in Vars : v >= var + 1 /\ twin_vars[f.id][v] >= f.since
  <2> SUFFICES ASSUME f.status = OK
               PROVE  \/ \E v \in 1 .. var + 1 : f.vars[v] >= f.since
                      \/ \E v \in Vars : v >= var + 1 /\ twin_vars[f.id][v] >= f.since
    OBVIOUS
  <2>1. e.id \in Twins
    BY DEF Filled
  <2>2. CASE \E v \in 1 .. var : e.vars[v] >= e.since
    <3>1. PICK v \in 1 .. var : e.vars[v] >= e.since
      BY <2>2
    <3>2. v \in 1 .. var + 1 /\ f.vars[v] >= f.since
      BY <1>1, <1>5, <3>1
    <3> QED
      BY <3>2
  <2>3. CASE \E v \in Vars : v >= var /\ twin_vars[e.id][v] >= e.since
    <3>1. PICK v \in Vars : v >= var /\ twin_vars[e.id][v] >= e.since
      BY <2>3
    <3>2. CASE v = var
      <4>1. var + 1 \in 1 .. var + 1 /\ f.vars[var + 1] >= f.since
        BY <1>1, <1>3, <1>5, <2>1, <3>1, <3>2
      <4> QED
        BY <4>1
    <3>3. CASE v # var
      <4>1. v >= var + 1
        BY <1>1, <3>1, <3>3 DEF Vars
      <4> QED
        BY <3>1, <4>1
    <3> QED
      BY <3>2, <3>3
  <2> QED
    BY <2>2, <2>3 DEF Filled
<1> QED
  BY <1>5, <1>6, <1>7, <1>8 DEF Filled

LEMMA LoadVarKeepsReply ==
    ASSUME TypeInv, MemoryInv, RequestInv, ReplyInv, LoadVar
    PROVE  ReplyInv'
<1> DEFINE n == Len(reply)
           x == twins_memory_get_var(Target, var)
           f == [reply[n] EXCEPT !.vars = Append(@, x)]
<1> USE ApiAssumption
<1>1. /\ UNCHANGED <<twin_vars, origin, request>>
      /\ apc = "var" /\ reply' = [reply EXCEPT ![n].vars = Append(@, x)]
      /\ \/ /\ More(var) /\ var' = var + 1
            /\ apc' = "var" /\ twin' = twin
         \/ /\ ~More(var)
            /\ request.op = "GET_ALL" /\ twin + 1 < MAX_TWINS
            /\ twin' = twin + 1 /\ apc' = "status"
         \/ /\ ~More(var)
            /\ ~(request.op = "GET_ALL" /\ twin + 1 < MAX_TWINS)
            /\ apc' = "send"
  BY DEF LoadVar, PackFloat, memory, writer
<1>2. /\ var \in Vars /\ var \in Nat /\ twin \in Nat
      /\ request.op \in {"GET", "GET_ALL"}
  BY <1>1 DEF TypeInv, TypeOK, Vars, Twins, RequestInv, Packing
<1>3. reply \in Seq(Entry) /\ n \in Nat /\ \A k \in 1 .. n : Filled(reply[k], Loaded(k))
  BY <1>1, LenProperties DEF ReplyInv, Packing
<1>4. n \in 1 .. n /\ reply[n].id = Target
  <2>1. CASE request.op = "GET_ALL"
    <3>1. n = twin + 1 /\ \A k \in 1 .. n : reply[k].id = k - 1
      BY <1>1, <2>1 DEF ReplyInv, Packing
    <3>2. n \in 1 .. n
      BY <1>2, <3>1
    <3> QED
      BY <1>2, <2>1, <3>1, <3>2 DEF Target
  <2>2. CASE request.op = "GET"
    <3>1. n = 1 /\ \A k \in 1 .. n : reply[k].id = request.id
      BY <1>1, <2>2 DEF ReplyInv, Packing
    <3> QED
      BY <2>2, <3>1 DEF Target
  <2> QED
    BY <1>2, <2>1, <2>2
<1>5. reply[n] \in Entry /\ Filled(reply[n], var)
  BY <1>1, <1>3, <1>4, ElementOfSeq DEF Loaded
<1>6. x \in Int
  BY DEF twins_memory_get_var, TypeInv, TypeOK
<1>7. /\ f \in Entry
      /\ f.id = reply[n].id /\ f.status = reply[n].status /\ f.since = reply[n].since
      /\ f.vars = Append(reply[n].vars, twins_memory_get_var(reply[n].id, var))
  <2>1. Append(reply[n].vars, x) \in Seq(Int)
    BY <1>5, <1>6, AppendProperties DEF Entry
  <2> HIDE DEF x
  <2>2. f \in Entry
    BY <1>5, <2>1 DEF Entry
  <2>3. /\ f.id = reply[n].id /\ f.status = reply[n].status /\ f.since = reply[n].since
        /\ f.vars = Append(reply[n].vars, x)
    BY <1>5 DEF Entry
  <2> QED
    BY <1>4, <2>2, <2>3 DEF x
<1>8. reply' = [reply EXCEPT ![n] = f]
  BY <1>1
<1> HIDE DEF f, x
<1>9. PICK g \in Entry : g = f
  BY <1>7
<1>10. Filled(g, var + 1)
  BY <1>5, <1>7, <1>9, OneMoreVariable
<1>11. /\ reply' \in Seq(Entry) /\ Len(reply') = n /\ reply'[n] = g
       /\ \A k \in 1 .. n : k # n => reply'[k] = reply[k]
  BY <1>3, <1>4, <1>8, <1>9, ExceptSeq
<1>12. ~More(var) => var + 1 = MAX_VARS_PER_TWINS
  BY <1>2 DEF More, Vars
<1>13. \A e \in Entry : \A m \in Nat : Filled(e, m) => Filled(e, m)'
  BY <1>1 DEF Filled, Written
<1>14. ASSUME NEW k \in 1 .. Len(reply') PROVE Filled(reply[k], Loaded(k))'
  <2>1. CASE k = n
    <3>1. PICK m \in Nat : m = var + 1
      BY <1>2
    <3>2. Loaded(k)' = m
      BY <1>1, <1>11, <1>12, <2>1, <3>1 DEF Loaded
    <3>3. Filled(g, m)'
      BY <1>10, <1>13, <3>1
    <3> QED
      BY <1>11, <2>1, <3>2, <3>3 DEF Filled
  <2>2. CASE k # n
    <3>1. Filled(reply[k], MAX_VARS_PER_TWINS)
      BY <1>3, <1>11, <2>2 DEF Loaded
    <3>2. Loaded(k)' = MAX_VARS_PER_TWINS /\ reply'[k] = reply[k]
      BY <1>11, <2>2 DEF Loaded
    <3> QED
      BY <1>1, <3>1, <3>2 DEF Filled, Written
  <2> QED
    BY <2>1, <2>2
<1>15. \A k \in 1 .. n : reply'[k].id = reply[k].id
  BY <1>7, <1>9, <1>11
<1>16. request.op = "GET_ALL" =>
         /\ \A k \in 1 .. Len(reply') : reply'[k].id = k - 1
         /\ Packing' => twin' \in Twins
         /\ apc' = "status" => Len(reply') = twin'
         /\ apc' = "var" => Len(reply') = twin' + 1
         /\ apc' = "send" => Len(reply') = MAX_TWINS
  BY <1>1, <1>2, <1>11, <1>15 DEF ReplyInv, Packing, Twins
<1>17. request.op = "GET" =>
         /\ \A k \in 1 .. Len(reply') : reply'[k].id = request.id
         /\ Packing' => twin' = request.id
         /\ apc' # "status" /\ Len(reply') = 1
  BY <1>1, <1>2, <1>11, <1>15 DEF ReplyInv, Packing
<1> QED
  BY <1>1, <1>11, <1>14, <1>16, <1>17 DEF ReplyInv, Packing

LEMMA AnswerInvStep == AnswerInv /\ [Next]_vars => AnswerInv'
<1> SUFFICES ASSUME AnswerInv, [Next]_vars PROVE AnswerInv'
  OBVIOUS
<1>0. TypeInv /\ MemoryInv /\ RequestInv /\ ReplyInv
  BY DEF AnswerInv
<1>1. TypeInv' /\ MemoryInv' /\ RequestInv' /\ MemoryGrows
  BY <1>0, TypeInvStep, MemoryStep, RequestStep
<1> SUFFICES ReplyInv'
  BY <1>1 DEF AnswerInv
<1>2. ASSUME UNCHANGED <<apc, request, twin, var, reply>> PROVE ReplyInv'
  BY <1>0, <1>1, <1>2, ReplyStays
<1>3. ASSUME ~Packing', ~AnswerReady' PROVE ReplyInv'
  BY <1>3 DEF ReplyInv
<1>4. CASE Writer \/ handle_sigint \/ UNCHANGED vars
  BY <1>2, <1>4 DEF Writer, UpdateBegin, StoreVar, StoreStatus, StoreTime,
     handle_sigint, vars, server
<1>5. ASSUME NEW r \in Requests, Ask(r) PROVE ReplyInv'
  <2>1. apc' = apc /\ apc \notin {"status", "var", "delete", "send"}
    BY <1>0, <1>5 DEF Ask, RequestInv, TypeInv, TypeOK
  <2> QED
    BY <1>3, <2>1 DEF Packing, AnswerReady
<1>6. CASE ApiRecv
  <2>1. /\ reply' = << >> /\ request' = request
        /\ Packing' => apc' = "status"
        /\ apc' # "send"
        /\ Packing' /\ request.op = "GET_ALL" => twin' = 0
        /\ Packing' /\ request.op = "GET" => twin' = request.id
    BY <1>6 DEF ApiRecv, Again, Packing
  <2>2. reply' \in Seq(Entry) /\ Len(reply') = 0
    BY <2>1, EmptySeq
  <2>3. 0 \in Twins
    BY ApiAssumption DEF Twins
  <2> QED
    BY <2>1, <2>2, <2>3 DEF ReplyInv, Packing, AnswerReady
<1>7. CASE LoadStatus
  BY <1>0, <1>7, LoadStatusKeepsReply
<1>8. CASE LoadVar
  BY <1>0, <1>8, LoadVarKeepsReply
<1>9. CASE Delete \/ Send \/ ApiBind
  <2>1. ~Packing' /\ ~AnswerReady'
    BY <1>0, <1>9 DEF Delete, Send, ApiBind, Again, RequestInv, Packing, AnswerReady
  <2> QED
    BY <1>3, <2>1
<1> QED
  BY <1>4, <1>5, <1>6, <1>7, <1>8, <1>9 DEF Next, Server

LEMMA AnswerInvInit == Init => AnswerInv
<1> SUFFICES ASSUME Init PROVE AnswerInv
  OBVIOUS
<1> USE ApiAssumption DEF Init, twins_memory_init
<1>1. TypeInv
  BY DEF TypeInv, TypeOK, Twins, Vars, Requests, OK, DESCONECTADO
<1>2. 0 \in Vars
  BY LoopRanges
<1>3. MemoryInv
  <2>1. origin \in Seq(Ids \X (0 .. MAX_VARS_PER_TWINS)) /\ Len(origin) = updates
    BY EmptySeq
  <2>2. okBy \in [Twins -> 0 .. MaxUpdates]
    OBVIOUS
  <2>3. \A t \in Twins : \A v \in Vars :
           Written(twin_vars[t][v], t, v) /\ twin_vars[t][v] <= updates
    BY DEF Written
  <2>4. \A t \in Twins : \E v \in Vars : twin_vars[t][v] >= okBy[t]
    BY <1>2
  <2> QED
    BY <2>1, <2>2, <2>3, <2>4 DEF MemoryInv
<1>4. RequestInv /\ ReplyInv
  BY DEF RequestInv, ReplyInv, Packing, AnswerReady
<1> QED
  BY <1>1, <1>3, <1>4 DEF AnswerInv

\* An answer that says OK of a twin carries data at least as new as the update
\* that made it OK, for any number of twins, variables and updates, although the
\* server loads while the processor stores and neither takes a lock.
THEOREM OkAlwaysComesWithItsData == Spec => []OkComesWithItsData
<1>1. AnswerInv => OkComesWithItsData
  <2> SUFFICES ASSUME AnswerInv, AnswerReady, NEW k \in DOMAIN reply,
                      reply[k].status = OK
               PROVE  \E v \in DOMAIN reply[k].vars : reply[k].vars[v] >= reply[k].since
    BY DEF OkComesWithItsData
  <2>1. reply \in Seq(Entry)
    BY DEF AnswerInv, ReplyInv
  <2>2. k \in 1 .. Len(reply) /\ reply[k] \in Entry
    BY <2>1, LenProperties, ElementOfSeq
  <2>3. Filled(reply[k], MAX_VARS_PER_TWINS)
    BY <2>2 DEF AnswerInv, ReplyInv, Loaded, AnswerReady
  <2>4. ~\E v \in Vars : v >= MAX_VARS_PER_TWINS
    BY ApiAssumption DEF Vars
  <2>5. \E v \in 1 .. MAX_VARS_PER_TWINS : reply[k].vars[v] >= reply[k].since
    BY <2>3, <2>4 DEF Filled
  <2>6. DOMAIN reply[k].vars = 1 .. MAX_VARS_PER_TWINS
    BY <2>2, <2>3, LenProperties DEF Filled, Entry
  <2> QED
    BY <2>5, <2>6
<1> QED
  BY <1>1, AnswerInvInit, AnswerInvStep, PTL DEF Spec

\* An answer to GET has the twin asked for and an answer to GET_ALL every twin in
\* order, each value under the twin and the variable it was written to.
THEOREM AnswersAreAlwaysAboutTheTwin == Spec => []AnswersAreAboutTheTwin
<1>1. AnswerInv => AnswersAreAboutTheTwin
  <2> SUFFICES ASSUME AnswerInv, AnswerReady
               PROVE  AnswersAreAboutTheTwin
    BY DEF AnswersAreAboutTheTwin
  <2>1. reply \in Seq(Entry) /\ apc = "send"
    BY DEF AnswerInv, ReplyInv, AnswerReady
  <2>2. DOMAIN reply = 1 .. Len(reply)
    BY <2>1, LenProperties
  <2>3. request.op = "GET_ALL" =>
           Len(reply) = MAX_TWINS /\ \A k \in DOMAIN reply : reply[k].id = k - 1
    BY <2>1, <2>2 DEF AnswerInv, ReplyInv
  <2>4. request.op = "GET" => Len(reply) = 1 /\ reply[1].id = request.id
    BY <2>1, <2>2 DEF AnswerInv, ReplyInv
  <2>5. ASSUME NEW k \in DOMAIN reply, NEW v \in 1 .. MAX_VARS_PER_TWINS
        PROVE  IF reply[k].id \in Twins
               THEN Written(reply[k].vars[v], reply[k].id, v - 1)
               ELSE reply[k].vars[v] = -1
    <3>1. Filled(reply[k], MAX_VARS_PER_TWINS)
      BY <2>1, <2>2 DEF AnswerInv, ReplyInv, Loaded
    <3> QED
      BY <3>1 DEF Filled
  <2> QED
    BY <2>3, <2>4, <2>5 DEF AnswersAreAboutTheTwin, Written
<1> QED
  BY <1>1, AnswerInvInit, AnswerInvStep, PTL DEF Spec
===============================================================================
