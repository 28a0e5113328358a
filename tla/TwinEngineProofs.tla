---------------------------- MODULE TwinEngineProofs ----------------------------
(***************************************************************************)
(* TwinEngine for any queues, rules, twins, connectors and messages.       *)
(***************************************************************************)
EXTENDS TwinEngine, EventParserProofs

-------------------------------------------------------------------------------
(* The elements of a sequence at some of its places                        *)

Rank(I, j) == Cardinality({x \in I : x <= j})

LEMMA RankFacts ==
    ASSUME NEW n \in Nat, NEW I \in SUBSET (1 .. n)
    PROVE  /\ IsFiniteSet(I) /\ Cardinality(I) \in Nat
           /\ \A j \in I : Rank(I, j) \in 1 .. Cardinality(I)
           /\ \A j, k \in I : j < k => Rank(I, j) < Rank(I, k)
           /\ \A k \in 1 .. Cardinality(I) : \E j \in I : Rank(I, j) = k
<1>1. IsFiniteSet(I) /\ Cardinality(I) \in Nat
  <2> DEFINE D == 1 .. n
  <2>1. IsFiniteSet(D) /\ I \in SUBSET D
    BY FS_Interval
  <2> HIDE DEF D
  <2> QED
    BY <2>1, FS_Subset, FS_CardinalityType
<1>2. \A j : /\ IsFiniteSet({x \in I : x <= j}) /\ Rank(I, j) \in Nat
             /\ Rank(I, j) <= Cardinality(I)
  <2> SUFFICES ASSUME NEW j
               PROVE  /\ IsFiniteSet({x \in I : x <= j}) /\ Rank(I, j) \in Nat
                      /\ Rank(I, j) <= Cardinality(I)
    OBVIOUS
  <2> DEFINE T == {x \in I : x <= j}
  <2>1. T \in SUBSET I
    OBVIOUS
  <2> HIDE DEF T
  <2>2. IsFiniteSet(T) /\ Cardinality(T) <= Cardinality(I) /\ Cardinality(T) \in Nat
    BY <1>1, <2>1, FS_Subset, FS_CardinalityType
  <2> QED
    BY <2>2 DEF Rank, T
<1>3. ASSUME NEW j \in I PROVE Rank(I, j) \in 1 .. Cardinality(I)
  <2> DEFINE T == {x \in I : x <= j}
  <2>1. j \in T
    OBVIOUS
  <2>2. Cardinality(T) # 0
    BY <1>2, <2>1, FS_EmptySet
  <2> QED
    BY <1>1, <1>2, <2>2 DEF Rank
<1>4. ASSUME NEW j \in I, NEW k \in I, j < k PROVE Rank(I, j) < Rank(I, k)
  <2> DEFINE T == {x \in I : x <= j}
             U == {x \in I : x <= k}
  <2>1. T \in SUBSET U /\ T # U
    <3>1. k \in U /\ k \notin T /\ \A x \in T : x <= k
      BY <1>4
    <3> QED
      BY <3>1
  <2>2. IsFiniteSet(U) /\ Cardinality(T) \in Nat /\ Cardinality(U) \in Nat
    BY <1>2 DEF Rank
  <2> HIDE DEF T, U
  <2>3. Cardinality(T) <= Cardinality(U) /\ Cardinality(U) # Cardinality(T)
    BY <2>1, <2>2, FS_Subset
  <2>4. Cardinality(T) < Cardinality(U)
    BY <2>2, <2>3
  <2> QED
    BY <2>4 DEF Rank, T, U
<1>5. ASSUME NEW k \in 1 .. Cardinality(I) PROVE \E j \in I : Rank(I, j) = k
  <2> DEFINE R == [j \in I |-> Rank(I, j)]
             N == 1 .. Cardinality(I)
  <2>1. R \in [I -> N]
    BY <1>3
  <2>2. \A j, l \in I : R[j] = R[l] => j = l
    <3>1. ASSUME NEW j \in I, NEW l \in I, R[j] = R[l], j # l PROVE FALSE
      <4>1. j < l \/ l < j
        BY <3>1
      <4>2. Rank(I, j) < Rank(I, l) \/ Rank(I, l) < Rank(I, j)
        BY <1>4, <4>1
      <4>3. Rank(I, j) = Rank(I, l) /\ Rank(I, j) \in Nat /\ Rank(I, l) \in Nat
        BY <1>2, <3>1
      <4> QED
        BY <4>2, <4>3
    <3> QED
      BY <3>1
  <2>3. R \in Injection(I, N)
    BY <2>1, <2>2 DEF Injection, IsInjective
  <2>4. IsFiniteSet(N) /\ Cardinality(N) = Cardinality(I)
    BY <1>1, FS_Interval
  <2>5. R \in Surjection(I, N)
    <3> HIDE DEF R, N
    <3> QED
      BY <2>3, <2>4, FS_Injection
  <2>6. \E j \in I : R[j] = k
    BY <2>5 DEF Surjection
  <2> QED
    BY <2>6
<1> QED
  BY <1>1, <1>3, <1>4, <1>5

LEMMA NthFacts ==
    ASSUME NEW n \in Nat, NEW I \in SUBSET (1 .. n)
    PROVE  /\ \A k \in 1 .. Cardinality(I) : Nth(I, k) \in I /\ Rank(I, Nth(I, k)) = k
           /\ \A j \in I : Nth(I, Rank(I, j)) = j
<1>1. ASSUME NEW k \in 1 .. Cardinality(I)
      PROVE  Nth(I, k) \in I /\ Rank(I, Nth(I, k)) = k
  <2>1. \E j \in I : Rank(I, j) = k
    BY RankFacts
  <2> QED
    BY <2>1 DEF Nth, Rank
<1>2. ASSUME NEW j \in I PROVE Nth(I, Rank(I, j)) = j
  <2> DEFINE k == Rank(I, j)
             m == Nth(I, k)
  <2>1. k \in 1 .. Cardinality(I) /\ m \in I /\ Rank(I, m) = k
    BY <1>1, RankFacts
  <2>2. ~(m < j) /\ ~(j < m)
    <3>1. k \in Nat /\ ~(k < k)
      BY <2>1, RankFacts
    <3> QED
      BY <2>1, <3>1, RankFacts
  <2>3. m \in Int /\ j \in Int
    <3>1. m \in 1 .. n /\ j \in 1 .. n
      BY <2>1
    <3> QED
      BY <3>1
  <2> HIDE DEF m
  <2> QED
    BY <2>2, <2>3 DEF m
<1> QED
  BY <1>1, <1>2

LEMMA ElementsAtTypes ==
    ASSUME NEW S, NEW s \in Seq(S), NEW I \in SUBSET (1 .. Len(s))
    PROVE  /\ Cardinality(I) \in Nat
           /\ ElementsAt(s, I) \in Seq(S) /\ Len(ElementsAt(s, I)) = Cardinality(I)
           /\ \A k \in 1 .. Cardinality(I) :
                 Nth(I, k) \in I /\ ElementsAt(s, I)[k] = s[Nth(I, k)]
           /\ ElementsAt(s, I) = << >> <=> I = {}
<1>1. Len(s) \in Nat /\ \A j \in 1 .. Len(s) : s[j] \in S
  BY LenProperties, ElementOfSeq
<1>2. Cardinality(I) \in Nat /\ IsFiniteSet(I)
  BY <1>1, RankFacts
<1>3. \A k \in 1 .. Cardinality(I) : Nth(I, k) \in I
  BY <1>1, NthFacts
<1>4. ElementsAt(s, I) \in [1 .. Cardinality(I) -> S]
  BY <1>1, <1>3 DEF ElementsAt
<1>5. ElementsAt(s, I) \in Seq(S)
  BY <1>2, <1>4
<1>6. Len(ElementsAt(s, I)) = Cardinality(I)
  BY <1>2, <1>4, <1>5, LenProperties
<1>7. ElementsAt(s, I) = << >> <=> I = {}
  BY <1>2, <1>5, <1>6, EmptySeq, FS_EmptySet
<1> QED
  BY <1>2, <1>3, <1>5, <1>6, <1>7 DEF ElementsAt

\* Two sequences of the same length with the same elements are equal.
LEMMA SameElements ==
    ASSUME NEW S, NEW s \in Seq(S), NEW t \in Seq(S), Len(s) = Len(t),
           \A k \in 1 .. Len(s) : s[k] = t[k]
    PROVE  s = t
  BY SeqEqual

LEMMA ElementsAtAppend ==
    ASSUME NEW S, NEW s \in Seq(S), NEW e \in S, NEW I \in SUBSET (1 .. Len(s))
    PROVE  /\ ElementsAt(Append(s, e), I) = ElementsAt(s, I)
           /\ ElementsAt(Append(s, e), I \cup {Len(s) + 1}) = Append(ElementsAt(s, I), e)
<1> DEFINE a == Append(s, e)
           n == Len(s)
           c == Cardinality(I)
           J == I \cup {n + 1}
<1>1. /\ n \in Nat /\ a \in Seq(S) /\ Len(a) = n + 1 /\ a[n + 1] = e
      /\ \A k \in 1 .. n : a[k] = s[k]
  BY LenProperties, AppendProperties
<1>2. I \in SUBSET (1 .. Len(a)) /\ J \in SUBSET (1 .. Len(a)) /\ n + 1 \notin I
  <2>1. \A j \in I : j \in 1 .. n
    OBVIOUS
  <2>2. \A j \in 1 .. n : j \in 1 .. n + 1 /\ j # n + 1
    BY <1>1
  <2>3. n + 1 \in 1 .. n + 1
    BY <1>1
  <2> HIDE DEF a, n
  <2> QED
    BY <1>1, <2>1, <2>2, <2>3
<1>3. c \in Nat /\ IsFiniteSet(I)
  BY <1>1, RankFacts
<1>4. Cardinality(J) = c + 1
  BY <1>2, <1>3, FS_AddElement
<1>5. /\ \A j \in I : Rank(J, j) = Rank(I, j)
      /\ Rank(J, n + 1) = c + 1
  <2>1. ASSUME NEW j \in I PROVE {x \in J : x <= j} = {x \in I : x <= j}
    <3>1. j \in 1 .. n /\ ~(n + 1 <= j)
      BY <1>1
    <3> QED
      BY <3>1
  <2>2. {x \in J : x <= n + 1} = J
    <3>1. \A x \in J : x \in 1 .. n + 1
      BY <1>1, <1>2
    <3>2. \A x \in 1 .. n + 1 : x <= n + 1
      BY <1>1
    <3> HIDE DEF J, n
    <3> QED
      BY <3>1, <3>2
  <2> QED
    BY <1>4, <2>1, <2>2 DEF Rank
<1> HIDE DEF a, n, c, J
<1>6. ElementsAt(a, I) = ElementsAt(s, I)
  <2>1. \A k \in 1 .. c : Nth(I, k) \in 1 .. n
    BY NthFacts, <1>1 DEF n, c
  <2> QED
    BY <1>1, <2>1 DEF ElementsAt, c
<1>7. \A j \in J : Nth(J, Rank(J, j)) = j
  <2>1. Len(a) \in Nat
    BY <1>1
  <2> QED
    BY <1>2, <2>1, NthFacts
<1>8. ElementsAt(a, J) = Append(ElementsAt(s, I), e)
  <2> DEFINE x == ElementsAt(a, J)
             y == ElementsAt(s, I)
  <2>1. x \in Seq(S) /\ Len(x) = c + 1 /\ \A k \in 1 .. c + 1 : x[k] = a[Nth(J, k)]
    BY <1>1, <1>2, <1>4, ElementsAtTypes
  <2>2. y \in Seq(S) /\ Len(y) = c /\ \A k \in 1 .. c : y[k] = s[Nth(I, k)]
    BY <1>1, ElementsAtTypes DEF n, c
  <2>3. /\ Append(y, e) \in Seq(S) /\ Len(Append(y, e)) = c + 1
        /\ \A k \in 1 .. c : Append(y, e)[k] = y[k]
        /\ Append(y, e)[c + 1] = e
    BY <2>2, AppendProperties
  <2>4. ASSUME NEW k \in 1 .. c PROVE x[k] = Append(y, e)[k]
    <3>1. Nth(I, k) \in I /\ Rank(I, Nth(I, k)) = k
      BY <1>1, NthFacts DEF n, c
    <3>2. Rank(J, Nth(I, k)) = k /\ Nth(I, k) \in J
      BY <1>5, <3>1 DEF J
    <3>3. Nth(J, k) = Nth(I, k)
      BY <1>7, <3>2
    <3>4. k \in 1 .. c + 1 /\ Nth(I, k) \in 1 .. n
      <4>1. I \subseteq 1 .. n
        BY DEF n
      <4>2. k \in 1 .. c + 1
        BY <1>3
      <4> QED
        BY <3>1, <4>1, <4>2
    <3> QED
      BY <1>1, <2>1, <2>2, <2>3, <3>3, <3>4
  <2>5. x[c + 1] = Append(y, e)[c + 1]
    <3>1. n + 1 \in J
      BY DEF J
    <3>2. Nth(J, c + 1) = n + 1
      BY <1>5, <1>7, <3>1
    <3>3. c + 1 \in 1 .. c + 1
      BY <1>3
    <3> QED
      BY <1>1, <2>1, <2>3, <3>2, <3>3
  <2>6. \A k \in 1 .. c + 1 : x[k] = Append(y, e)[k]
    <3>1. \A k \in 1 .. c + 1 : k \in 1 .. c \/ k = c + 1
      BY <1>3
    <3> HIDE DEF x, y
    <3> QED
      BY <2>4, <2>5, <3>1
  <2> HIDE DEF x, y
  <2>7. x = Append(y, e)
    BY <2>1, <2>3, <2>6, SameElements
  <2> QED
    BY <2>7 DEF x, y
<1> QED
  BY <1>6, <1>8 DEF a, n, J

-------------------------------------------------------------------------------
(* The invariant                                                           *)

\* What the dispatcher makes of an event, for twins T.
Notices(T) == [type : {EVENT_UPDATE}, twin_id : T, timestamp : Nat, updates : Seq(Update)]

ForParent == Notices(Connector \cap Twins)
Packets   == {serialize_event(e) : e \in ForParent}

RulesInv ==
    /\ configured \in 0 .. Len(UserRules)
    /\ error_rules \in [ErrorCodes -> Actions]
    /\ update_rules \in [Twins -> [Vars -> Actions]]
    /\ \A t \in Twins : \A v \in Vars :
          update_rules[t][v] = "NOTIFY_UPWARDS" => t \in Connector

\* Nothing runs before main has set its rules.
StartInv ==
    ~Started => accepted = << >> /\ rpc = "recv" /\ ppc = "pop" /\ spc = "pop"

ReceiverInv ==
    /\ keep_running \in BOOLEAN
    /\ rpc \in {"recv", "push", "exited"} /\ received \in 0 .. MaxMessages
    /\ rx \in Seq(Events) /\ (rpc = "push" => rx # << >>)
    /\ accepted \in Seq(Events)

\* How many events the processor has begun with: Len(Begun).
begun == Len(accepted) - Len(queue_in)

\* queue_in is the end of accepted, and the event in hand is the one before.
ProcessorInv ==
    /\ ppc \in {"pop", "update", "error", "push", "exited"} /\ i \in Nat
    /\ queue_in \in Seq(Events) /\ Len(queue_in) < QUEUE_SIZE
    /\ begun \in Nat
    /\ \A k \in 1 .. Len(queue_in) : queue_in[k] = accepted[begun + k]
    /\ ppc \in {"update", "error", "push"} => begun > 0 /\ event = accepted[begun]
    /\ ppc \in {"update", "push"} => event \in UpdateEvents
    /\ ppc = "update" => i \in 1 .. Len(event.updates) + 1
    /\ ppc = "error" => event.type = EVENT_ERROR

ForNotify == [to |-> "notify", e |-> Batch(event, "NOTIFY_UPWARDS")]
ForUserService == [to |-> "user", e |-> Batch(event, "CALL_USER_SERVICE")]

\* What the dispatcher has in hand are the parts of its event.
DispatcherInv ==
    /\ ppc # "push" => out = << >>
    /\ ppc = "push" =>
          \/ out = <<ForNotify>> /\ Asks(event, "NOTIFY_UPWARDS")
          \/ out = <<ForUserService>> /\ Asks(event, "CALL_USER_SERVICE")
          \/ /\ out = <<ForNotify, ForUserService>>
             /\ Asks(event, "NOTIFY_UPWARDS") /\ Asks(event, "CALL_USER_SERVICE")

OutputInv ==
    /\ queue_out_notify \in Seq(ForParent) /\ Len(queue_out_notify) < QUEUE_SIZE
    /\ queue_out_user \in Seq(Notices(Nat)) /\ Len(queue_out_user) < QUEUE_SIZE
    /\ spc \in {"pop", "send", "exited"} /\ (spc = "send" => tx \in ForParent)
    /\ pipe \in [Connector -> Seq(Packets)]
    /\ \A c \in Connector : Len(pipe[c]) <= SNDHWM
    /\ delivered \in [Connector -> Seq(Packets)]
    /\ refused \in [Twins -> Nat]

Latest(t, v, w) ==
    w \in Writes(t, v) /\ \A u \in Writes(t, v) : Later(w, u)

MemoryInv ==
    /\ twin_vars \in [Twins -> [Vars -> Floats]]
    /\ status \in [Twins -> 0 .. 2]
    /\ \A t \in Twins : \A v \in Vars :
          \/ Writes(t, v) = {} /\ twin_vars[t][v] = Zero
          \/ \E w \in Writes(t, v) : /\ Latest(t, v, w)
                                     /\ twin_vars[t][v] = Begun[w[1]].updates[w[2]].value
    /\ \A t \in Twins :
          status[t] = IF \A v \in Vars : Writes(t, v) = {} THEN 2 ELSE 0

EngineInv ==
    /\ RulesInv /\ StartInv /\ ReceiverInv /\ ProcessorInv
    /\ DispatcherInv /\ OutputInv /\ MemoryInv

-------------------------------------------------------------------------------
(* Events, rules and messages                                              *)

LEMMA EventFields ==
    /\ \A e \in UpdateEvents :
          /\ e.type = EVENT_UPDATE /\ e.twin_id \in Nat /\ e.timestamp \in Nat
          /\ e.updates \in Seq(Update) /\ Len(e.updates) \in 1 .. MAX_VARS_PER_EVENT
    /\ \A e \in Events : /\ e.twin_id \in Nat
                         /\ e.type = EVENT_UPDATE <=> e \in UpdateEvents
                         /\ e.type \in {EVENT_UPDATE, EVENT_ERROR}
<1>1. ASSUME NEW e \in UpdateEvents
      PROVE  /\ e.type = EVENT_UPDATE /\ e.twin_id \in Nat /\ e.timestamp \in Nat
             /\ e.updates \in Seq(Update) /\ Len(e.updates) \in 1 .. MAX_VARS_PER_EVENT
  <2>1. PICK t \in {n \in Nat : n < UINT32}, s \in Nat,
             us \in {x \in Seq(Update) : Len(x) \in 1 .. MAX_VARS_PER_EVENT} :
               e = UpdateEvent(t, s, us)
    BY DEF UpdateEvents
  <2> QED
    BY <2>1 DEF UpdateEvent
<1>2. ASSUME NEW e \in ErrorEvents PROVE e.type = EVENT_ERROR /\ e.twin_id \in Nat
  <2>1. PICK t \in {n \in Nat : n < UINT32}, s \in Nat, c \in Nat :
               e = ErrorEvent(t, s, c)
    BY DEF ErrorEvents
  <2> QED
    BY <2>1 DEF ErrorEvent
<1> QED
  BY <1>1, <1>2 DEF Events, EVENT_UPDATE, EVENT_ERROR

LEMMA StampedIsMessage ==
    ASSUME NEW m \in Message, NEW n \in Nat
    PROVE  Stamped(m, n) \in Message
<1> DEFINE Stamp(k) == CASE k = 2 -> IntItem(n)
                         [] k # 2 /\ m.items[k].kind = "float" ->
                                FloatItem(Float(10 * n + k))
                         [] OTHER -> m.items[k]
           its == [k \in DOMAIN m.items |-> Stamp(k)]
           s == Stamped(m, n)
<1> DEFINE Size == {x \in Nat : x < UINT32}
<1>1. m \in [array_size : Size, items : Seq(Items)] /\ m.items \in Seq(Items)
  BY DEF Message
<1>2. s = [m EXCEPT !.items = its]
  BY DEF Stamped
<1>3. s.array_size = m.array_size /\ s.items = its
  BY <1>1, <1>2
<1>4. DOMAIN m.items = 1 .. Len(m.items) /\ Len(m.items) \in Nat
  BY <1>1, LenProperties
<1>5. ASSUME NEW S, NumberItems \subseteq S, m.items \in Seq(S)
      PROVE  its \in Seq(S)
  <2>1. ASSUME NEW k \in 1 .. Len(m.items) PROVE Stamp(k) \in S
    <3>1. CASE k = 2
      BY <1>5, <3>1, IntItemIsNumber
    <3>2. CASE k # 2 /\ m.items[k].kind = "float"
      <4>1. 10 * n + k \in Nat
        BY <1>4
      <4>2. FloatItem(Float(10 * n + k)) \in NumberItems
        BY <4>1, FloatsAreFloats DEF FloatItem, NumberItems
      <4> QED
        BY <1>5, <3>2, <4>2
    <3>3. CASE k # 2 /\ m.items[k].kind # "float"
      BY <1>5, <3>3, ElementOfSeq
    <3> QED
      BY <3>1, <3>2, <3>3
  <2> HIDE DEF Stamp
  <2>2. its \in [1 .. Len(m.items) -> S]
    BY <1>4, <2>1
  <2> QED
    BY <1>4, <2>2, IsASeq
<1>6. its \in Seq(Items)
  BY <1>1, <1>5 DEF Items
<1>7. s \in [array_size : Size, items : Seq(Items)]
  BY <1>1, <1>2, <1>6
<1>8. Len(its) = Len(m.items)
  BY <1>4
<1>9. TypeOf(s) = TypeOf(m)
  <2>1. CASE Len(m.items) = 0
    <3>1. s.items = << >> /\ m.items = << >> /\ Len(s.items) = 0
      BY <1>1, <1>3, <1>6, <1>8, <2>1, EmptySeq
    <3>2. ~(1 <= Len(s.items)) /\ ~(1 <= Len(m.items))
      BY <2>1, <3>1
    <3> HIDE DEF s, its
    <3> QED
      BY <1>3, <3>1, <3>2 DEF TypeOf, Unpacked
  <2>2. CASE Len(m.items) # 0
    <3>1. 1 \in 1 .. Len(m.items) /\ 1 <= Len(m.items)
      BY <1>4, <2>2
    <3>2. Unpacked(s, 1) = its[1] /\ Unpacked(m, 1) = m.items[1]
      <4>1. 1 <= Len(s.items)
        BY <1>3, <1>8, <3>1
      <4> HIDE DEF s, its
      <4> QED
        BY <1>3, <3>1, <4>1, UnpackedPresent
    <3>3. its[1] = Stamp(1)
      BY <1>4, <3>1
    <3>4. m.items[1].kind = "int"
      BY <1>4, <3>1 DEF Message, HEADER
    <3> QED
      BY <3>2, <3>3, <3>4 DEF TypeOf
  <2> QED
    BY <2>1, <2>2
<1>10. TypeOf(s) = EVENT_UPDATE => s.items \in Seq(NumberItems)
  BY <1>3, <1>5, <1>9 DEF Message
<1>11. ASSUME NEW k \in DOMAIN s.items, k <= HEADER + 1,
              k = 3 => Len(s.items) = 3
       PROVE  s.items[k].kind = "int"
  <2>1. k \in DOMAIN m.items /\ s.items[k] = Stamp(k)
    BY <1>3, <1>11
  <2>2. m.items[k].kind = "int"
    <3>1. k = 3 => Len(m.items) = 3
      BY <1>3, <1>8, <1>11
    <3> QED
      BY <1>11, <2>1, <3>1 DEF Message
  <2> QED
    BY <2>1, <2>2 DEF IntItem
<1> HIDE DEF its, Stamp
<1> QED
  BY <1>7, <1>10, <1>11 DEF Message

\* The part of an event that the rules give to an action.
LEMMA BatchFacts ==
    ASSUME RulesInv, NEW e \in UpdateEvents, NEW action
    PROVE  /\ Batch(e, action) \in Notices({e.twin_id})
           /\ Batch(e, action).updates # << >> <=>
                 \E k \in 1 .. Len(e.updates) :
                    get_update_rule(e.twin_id, e.updates[k].var_id) = action
<1> DEFINE I == {k \in DOMAIN e.updates :
                    get_update_rule(e.twin_id, e.updates[k].var_id) = action}
<1>1. /\ e.updates \in Seq(Update) /\ DOMAIN e.updates = 1 .. Len(e.updates)
      /\ e.timestamp \in Nat
  BY EventFields, LenProperties
<1>2. I \in SUBSET (1 .. Len(e.updates))
  BY <1>1
<1>3. Batch(e, action) = UpdateEvent(e.twin_id, e.timestamp, ElementsAt(e.updates, I))
  BY DEF Batch
<1>4. (\E k \in 1 .. Len(e.updates) :
          get_update_rule(e.twin_id, e.updates[k].var_id) = action) <=> I # {}
  BY <1>1
<1> HIDE DEF I
<1>5. ElementsAt(e.updates, I) \in Seq(Update) /\ (ElementsAt(e.updates, I) = << >> <=> I = {})
  BY <1>1, <1>2, ElementsAtTypes
<1> QED
  BY <1>1, <1>3, <1>4, <1>5 DEF UpdateEvent, Notices

\* Only a twin with a connector has anything for its parent node.
LEMMA AskedIsConnected ==
    ASSUME RulesInv, NEW e \in UpdateEvents, Asks(e, "NOTIFY_UPWARDS")
    PROVE  e.twin_id \in Connector \cap Twins /\ Batch(e, "NOTIFY_UPWARDS") \in ForParent
<1>1. PICK k \in 1 .. Len(e.updates) :
         get_update_rule(e.twin_id, e.updates[k].var_id) = "NOTIFY_UPWARDS"
  BY BatchFacts DEF Asks
<1>2. e.twin_id \in Twins /\ e.updates[k].var_id \in Vars
      /\ update_rules[e.twin_id][e.updates[k].var_id] = "NOTIFY_UPWARDS"
  BY <1>1 DEF get_update_rule
<1>3. e.twin_id \in Connector \cap Twins
  BY <1>2 DEF RulesInv
<1>4. Batch(e, "NOTIFY_UPWARDS") \in Notices({e.twin_id})
  BY BatchFacts
<1> QED
  BY <1>3, <1>4 DEF ForParent, Notices

\* push_event keeps a queue below its size.
LEMMA PushTypes ==
    ASSUME NEW S, NEW q \in Seq(S), Len(q) < QUEUE_SIZE, NEW e \in S
    PROVE  /\ push_event(q, e) \in Seq(S) /\ Len(push_event(q, e)) < QUEUE_SIZE
           /\ Full(q) => push_event(q, e) = q
           /\ ~Full(q) => push_event(q, e) = Append(q, e)
<1>1. Len(q) \in Nat /\ QUEUE_SIZE \in Nat \ {0}
  BY EngineAssumption, LenProperties
<1>2. Append(q, e) \in Seq(S) /\ Len(Append(q, e)) = Len(q) + 1
  BY AppendProperties
<1> QED
  BY <1>1, <1>2 DEF push_event, Full

-------------------------------------------------------------------------------
(* Every step keeps the invariant                                          *)

\* What each thread leaves alone.
LEMMA Frames ==
    /\ [Next]_vars /\ ~Configure => UNCHANGED rules
    /\ [Next]_vars /\ ~handle_sigint => UNCHANGED keep_running
    /\ [Next]_vars /\ ~Receiver => UNCHANGED <<receiver, accepted>>
    /\ [Next]_vars /\ ~Processor => UNCHANGED <<processor, queue_out_user>>
    /\ [Next]_vars /\ ~Sender => UNCHANGED sender
    /\ [Next]_vars /\ ~Sender /\ (\A c \in Connector : ~PeerRecv(c)) => UNCHANGED network
    /\ [Next]_vars /\ ~Receiver /\ ~Processor => UNCHANGED queue_in
    /\ [Next]_vars /\ ~Processor /\ ~Sender => UNCHANGED <<queue_out_notify, refused>>
<1> USE DEF vars
<1>1. Configure => UNCHANGED <<keep_running, receiver, queue_in, processor, outputs, sender,
                               network, history>>
  BY DEF Configure
<1>2. handle_sigint => UNCHANGED <<rules, receiver, queue_in, processor, outputs, sender,
                                   network, history>>
  BY DEF handle_sigint
<1>3. Receiver => UNCHANGED <<rules, keep_running, processor, outputs, sender, network, refused>>
  BY DEF Receiver, RecvTimeout, Recv, RecvPush, history
<1>4. Processor => UNCHANGED <<rules, keep_running, receiver, sender, network, accepted>>
  BY DEF Processor, ProcIdle, ProcPop, UpdateVar, ApplyRules, HandleError, DispatchPush, history
<1>5. Sender => UNCHANGED <<rules, keep_running, receiver, queue_in, processor,
                            queue_out_user, accepted>>
  BY DEF Sender, SendIdle, SendPop, SendEvent, SendTerminated, outputs, history
<1>6. \A c \in Connector : PeerRecv(c) =>
         UNCHANGED <<rules, keep_running, receiver, queue_in, processor, outputs, sender, history>>
  BY DEF PeerRecv
<1>7. [Next]_vars => \/ UNCHANGED vars \/ Configure \/ handle_sigint \/ Receiver
                     \/ Processor \/ Sender \/ \E c \in Connector : PeerRecv(c)
  BY DEF Next
<1> QED
  BY <1>1, <1>2, <1>3, <1>4, <1>5, <1>6, <1>7
  DEF rules, receiver, processor, outputs, sender, network, history

LEMMA RulesStep == ASSUME RulesInv, [Next]_vars PROVE RulesInv'
<1>1. CASE Configure
  <2> DEFINE r == UserRules[configured + 1]
             n == Len(UserRules)
  <2>1. n \in Nat /\ configured \in 0 .. n /\ configured # n /\ configured' = configured + 1
    BY <1>1, RuleAssumption, LenProperties DEF RulesInv, Configure, Started
  <2>2. configured' \in 0 .. n /\ configured + 1 \in 1 .. n
    BY <2>1
  <2>3. r \in Rule
    BY <2>2, RuleAssumption, ElementOfSeq
  <2>4. r.action \in Actions
    BY <2>3 DEF Rule
  <2>5. /\ r.rule = "update" /\ r.action = "NOTIFY_UPWARDS" /\ r.twin_id \in Twins
              => r.twin_id \in Connector
    <3>1. configured + 1 \in DOMAIN UserRules
      BY <2>2, RuleAssumption, LenProperties
    <3> QED
      BY <3>1, RuleAssumption
  <2>6. \/ r.rule = "error" /\ set_error_rule(r.code, r.action)
        \/ r.rule = "update" /\ set_update_rule(r.twin_id, r.var_id, r.action)
    BY <1>1 DEF Configure
  <2> HIDE DEF r, n
  <2>7. CASE r.rule = "error" /\ set_error_rule(r.code, r.action)
    BY <2>2, <2>4, <2>7 DEF set_error_rule, RulesInv, n
  <2>8. CASE r.rule = "update" /\ set_update_rule(r.twin_id, r.var_id, r.action)
    <3>1. error_rules' = error_rules
      BY <2>8 DEF set_update_rule
    <3>2. CASE r.twin_id \in Twins /\ r.var_id \in Vars
      <4>1. update_rules' = [update_rules EXCEPT ![r.twin_id][r.var_id] = r.action]
        BY <2>8, <3>2 DEF set_update_rule
      <4>2. update_rules' \in [Twins -> [Vars -> Actions]]
        BY <2>4, <3>2, <4>1 DEF RulesInv
      <4>3. ASSUME NEW t \in Twins, NEW v \in Vars,
                   update_rules'[t][v] = "NOTIFY_UPWARDS"
            PROVE  t \in Connector
        <5>1. CASE t = r.twin_id /\ v = r.var_id
          <6>1. update_rules'[t][v] = r.action
            BY <3>2, <4>1, <5>1 DEF RulesInv
          <6> QED
            BY <2>5, <2>8, <4>3, <5>1, <6>1
        <5>2. CASE ~(t = r.twin_id /\ v = r.var_id)
          <6>1. update_rules'[t][v] = update_rules[t][v]
            BY <3>2, <4>1, <5>2 DEF RulesInv
          <6> QED
            BY <4>3, <6>1 DEF RulesInv
        <5> QED
          BY <5>1, <5>2
      <4> QED
        BY <2>2, <3>1, <4>2, <4>3 DEF RulesInv, n
    <3>3. CASE ~(r.twin_id \in Twins /\ r.var_id \in Vars)
      BY <2>2, <2>8, <3>1, <3>3 DEF set_update_rule, RulesInv, n
    <3> QED
      BY <3>2, <3>3
  <2> QED
    BY <2>6, <2>7, <2>8
<1>2. CASE ~Configure
  BY <1>2, Frames DEF rules, RulesInv
<1> QED
  BY <1>1, <1>2

LEMMA AgainValues == \A top : Again(top) \in {top, "exited"}
  BY DEF Again

LEMMA StartStep ==
    ASSUME StartInv, ReceiverInv, ProcessorInv, OutputInv, RulesInv, [Next]_vars
    PROVE  StartInv'
<1>1. CASE Started
  <2>1. Started'
    <3>1. ~Configure
      BY <1>1 DEF Configure
    <3> QED
      BY <1>1, <3>1, Frames DEF rules, Started
  <2> QED
    BY <2>1 DEF StartInv
<1>2. CASE ~Started
  <2>1. ~Receiver
    BY <1>2 DEF StartInv, Receiver, RecvTimeout, Recv, RecvPush
  <2>2. ~Processor
    BY <1>2 DEF StartInv, Processor, ProcIdle, ProcPop, UpdateVar, ApplyRules,
                HandleError, DispatchPush
  <2>3. ~Sender
    BY <1>2 DEF StartInv, Sender, SendIdle, SendPop, SendEvent, SendTerminated
  <2> QED
    BY <1>2, <2>1, <2>2, <2>3, Frames DEF StartInv, receiver, processor, sender
<1> QED
  BY <1>1, <1>2

LEMMA ReceiverStep ==
    ASSUME ReceiverInv, ProcessorInv, [Next]_vars PROVE ReceiverInv'
<1>1. keep_running' \in BOOLEAN
  BY Frames DEF ReceiverInv, handle_sigint
<1>2. CASE RecvTimeout
  BY <1>1, <1>2, AgainValues DEF ReceiverInv, RecvTimeout, history
<1>3. ASSUME NEW m \in Messages, Recv(m) PROVE ReceiverInv'
  <2>1. m \in Message /\ MaxMessages \in Nat
    BY MessageAssumption, EngineAssumption
  <2>2. received + 1 \in Nat /\ received' \in 0 .. MaxMessages
    BY <1>3, <2>1 DEF ReceiverInv, Recv
  <2>3. rx' \in Seq(Events)
    <3>1. Stamped(m, received + 1) \in Message
      BY <2>1, <2>2, StampedIsMessage
    <3> QED
      BY <1>3, <3>1, DeserializedTypes DEF Recv
  <2>4. rpc' \in {"recv", "push", "exited"} /\ (rpc' = "push" => rx' # << >>)
    BY <1>3, AgainValues DEF Recv
  <2> QED
    BY <1>1, <1>3, <2>2, <2>3, <2>4 DEF ReceiverInv, Recv, history
<1>4. CASE RecvPush
  <2>1. rx \in Seq(Events) /\ rx # << >>
    BY <1>4 DEF ReceiverInv, RecvPush
  <2>2. Head(rx) \in Events /\ Tail(rx) \in Seq(Events)
    BY <2>1, HeadTailProperties
  <2>3. accepted' \in Seq(Events)
    BY <1>4, <2>2, AppendProperties DEF ReceiverInv, RecvPush
  <2>4. rpc' \in {"recv", "push", "exited"} /\ (rpc' = "push" => rx' # << >>)
    BY <1>4, AgainValues DEF RecvPush
  <2> QED
    BY <1>1, <1>4, <2>2, <2>3, <2>4 DEF ReceiverInv, RecvPush
<1>5. CASE ~Receiver
  BY <1>1, <1>5, Frames DEF ReceiverInv, receiver
<1> QED
  BY <1>2, <1>3, <1>4, <1>5 DEF Receiver

\* A push into queue_in leaves the events that were begun with as they are.
LEMMA PushKeepsBegun ==
    ASSUME ReceiverInv, ProcessorInv, RecvPush
    PROVE  /\ queue_in' \in Seq(Events) /\ Len(queue_in') < QUEUE_SIZE
           /\ begun' = begun
           /\ Len(accepted') >= Len(accepted)
           /\ \A k \in 1 .. Len(queue_in') : queue_in'[k] = accepted'[begun + k]
           /\ \A k \in 1 .. begun : accepted'[k] = accepted[k]
<1>1. rx \in Seq(Events) /\ rx # << >>
  BY DEF ReceiverInv, RecvPush
<1>2. Head(rx) \in Events
  BY <1>1, HeadTailProperties
<1>3. /\ queue_in \in Seq(Events) /\ Len(queue_in) \in Nat /\ Len(queue_in) < QUEUE_SIZE
      /\ accepted \in Seq(Events) /\ Len(accepted) \in Nat
      /\ begun \in Nat /\ begun = Len(accepted) - Len(queue_in)
  BY LenProperties DEF ReceiverInv, ProcessorInv, begun
<1>4. queue_in' \in Seq(Events) /\ Len(queue_in') < QUEUE_SIZE
  BY <1>2, <1>3, PushTypes DEF RecvPush
<1>5. CASE Full(queue_in)
  <2>1. queue_in' = queue_in /\ accepted' = accepted
    BY <1>2, <1>3, <1>5, PushTypes DEF RecvPush
  <2> QED
    BY <1>3, <1>4, <2>1 DEF begun, ProcessorInv
<1>6. CASE ~Full(queue_in)
  <2>1. queue_in' = Append(queue_in, Head(rx)) /\ accepted' = Append(accepted, Head(rx))
    BY <1>2, <1>3, <1>6, PushTypes DEF RecvPush
  <2>2. /\ Len(queue_in') = Len(queue_in) + 1 /\ queue_in'[Len(queue_in) + 1] = Head(rx)
        /\ \A k \in 1 .. Len(queue_in) : queue_in'[k] = queue_in[k]
        /\ Len(accepted') = Len(accepted) + 1 /\ accepted'[Len(accepted) + 1] = Head(rx)
        /\ \A k \in 1 .. Len(accepted) : accepted'[k] = accepted[k]
    BY <1>2, <1>3, <2>1, AppendProperties
  <2>3. begun' = begun
    BY <1>3, <2>2 DEF begun
  <2>4. ASSUME NEW k \in 1 .. Len(queue_in') PROVE queue_in'[k] = accepted'[begun + k]
    <3>1. CASE k = Len(queue_in) + 1
      BY <1>3, <2>2, <3>1
    <3>2. CASE k # Len(queue_in) + 1
      <4>1. k \in 1 .. Len(queue_in) /\ begun + k \in 1 .. Len(accepted)
        BY <1>3, <2>2, <3>2
      <4> QED
        BY <2>2, <4>1 DEF ProcessorInv
    <3> QED
      BY <3>1, <3>2
  <2>5. \A k \in 1 .. begun : k \in 1 .. Len(accepted)
    BY <1>3
  <2>6. Len(accepted') >= Len(accepted)
    BY <1>3, <2>2
  <2> QED
    BY <1>4, <2>2, <2>3, <2>4, <2>5, <2>6
<1> QED
  BY <1>5, <1>6

\* What a pop takes off queue_in.
LEMMA PopTakesNext ==
    ASSUME ReceiverInv, ProcessorInv, ProcPop
    PROVE  /\ queue_in' \in Seq(Events) /\ Len(queue_in') < QUEUE_SIZE
           /\ begun' = begun + 1 /\ begun + 1 <= Len(accepted)
           /\ \A k \in 1 .. Len(queue_in') : queue_in'[k] = accepted[begun + 1 + k]
           /\ event' \in Events /\ event' = accepted[begun + 1]
           /\ accepted' = accepted
<1>1. accepted' = accepted /\ event' = Head(queue_in) /\ queue_in' = Tail(queue_in)
      /\ queue_in # << >>
  BY DEF ProcPop, history
<1>2. /\ queue_in \in Seq(Events) /\ Len(queue_in) \in Nat /\ Len(queue_in) < QUEUE_SIZE
      /\ accepted \in Seq(Events) /\ Len(accepted) \in Nat /\ QUEUE_SIZE \in Nat
      /\ begun \in Nat /\ begun = Len(accepted) - Len(queue_in)
  BY LenProperties, EngineAssumption DEF ReceiverInv, ProcessorInv, begun
<1>3. /\ Len(queue_in) # 0
      /\ Head(queue_in) \in Events /\ Head(queue_in) = queue_in[1]
      /\ Tail(queue_in) \in Seq(Events) /\ Len(Tail(queue_in)) = Len(queue_in) - 1
      /\ \A k \in 1 .. Len(Tail(queue_in)) : Tail(queue_in)[k] = queue_in[k + 1]
  BY <1>1, <1>2, HeadTailProperties, EmptySeq
<1>4. 1 \in 1 .. Len(queue_in)
  BY <1>2, <1>3
<1>5. Head(queue_in) = accepted[begun + 1]
  BY <1>3, <1>4 DEF ProcessorInv
<1>6. ASSUME NEW k \in 1 .. Len(queue_in') PROVE queue_in'[k] = accepted[begun + 1 + k]
  <2>1. k + 1 \in 1 .. Len(queue_in) /\ begun + (k + 1) = begun + 1 + k
    BY <1>1, <1>2, <1>3
  <2>2. queue_in'[k] = queue_in[k + 1]
    BY <1>1, <1>3
  <2>3. queue_in[k + 1] = accepted[begun + (k + 1)]
    BY <2>1 DEF ProcessorInv
  <2> QED
    BY <2>1, <2>2, <2>3
<1>7. Len(queue_in') < QUEUE_SIZE /\ begun' = begun + 1 /\ begun + 1 <= Len(accepted)
  BY <1>1, <1>2, <1>3 DEF begun
<1> QED
  BY <1>1, <1>3, <1>5, <1>6, <1>7

LEMMA ProcessorStep ==
    ASSUME EngineInv, [Next]_vars PROVE ProcessorInv'
<1> USE DEF EngineInv
<1>1. /\ Len(queue_in) \in Nat /\ Len(accepted) \in Nat /\ begun \in Nat
  BY LenProperties DEF ReceiverInv, ProcessorInv
<1>2. CASE RecvPush
  <2>1. UNCHANGED <<ppc, event, i>>
    BY <1>2 DEF RecvPush, processor
  <2>2. ppc \in {"update", "error", "push"} => event = accepted'[begun]
    BY <1>1, <1>2, PushKeepsBegun DEF ProcessorInv
  <2>3. /\ queue_in' \in Seq(Events) /\ Len(queue_in') < QUEUE_SIZE
        /\ begun' \in Nat
        /\ \A k \in 1 .. Len(queue_in') : queue_in'[k] = accepted'[begun' + k]
    BY <1>1, <1>2, PushKeepsBegun
  <2>4. begun' = begun
    BY <1>2, PushKeepsBegun
  <2> HIDE DEF EngineInv
  <2>5. ProcessorInv
    BY DEF EngineInv
  <2>6. /\ ppc' \in {"pop", "update", "error", "push", "exited"} /\ i' \in Nat
        /\ ppc' \in {"update", "error", "push"} => begun' > 0 /\ event' = accepted'[begun']
    BY <2>1, <2>2, <2>4, <2>5 DEF ProcessorInv
  <2>7. /\ ppc' \in {"update", "push"} => event' \in UpdateEvents
        /\ ppc' = "update" => i' \in 1 .. Len(event'.updates) + 1
        /\ ppc' = "error" => event'.type = EVENT_ERROR
    BY <2>1, <2>5 DEF ProcessorInv
  <2> QED
    BY <2>3, <2>6, <2>7 DEF ProcessorInv
<1>3. CASE ProcPop
  <2>1. /\ queue_in' \in Seq(Events) /\ Len(queue_in') < QUEUE_SIZE
        /\ begun' = begun + 1 /\ begun + 1 <= Len(accepted)
        /\ \A k \in 1 .. Len(queue_in') : queue_in'[k] = accepted[begun + 1 + k]
        /\ event' \in Events /\ event' = accepted[begun + 1]
        /\ accepted' = accepted
    BY <1>3, PopTakesNext
  <2>2. ppc' = dispatch_event(event') /\ i' = 1
    BY <1>3 DEF ProcPop
  <2>3. CASE event'.type = EVENT_UPDATE
    <3>1. event' \in UpdateEvents /\ ppc' = "update"
      BY <2>1, <2>2, <2>3, EventFields DEF dispatch_event
    <3>2. Len(event'.updates) \in Nat
      BY <3>1, EventFields, LenProperties
    <3>3. i' \in 1 .. Len(event'.updates) + 1
      BY <2>2, <3>2
    <3>4. begun' \in Nat /\ begun' > 0 /\ i' \in Nat
      BY <1>1, <2>1, <2>2
    <3> QED
      BY <2>1, <3>1, <3>3, <3>4 DEF ProcessorInv
  <2>4. CASE event'.type # EVENT_UPDATE
    <3>1. event'.type = EVENT_ERROR /\ ppc' = "error"
      BY <2>1, <2>2, <2>4, EventFields DEF dispatch_event
    <3>2. begun' \in Nat /\ begun' > 0 /\ i' \in Nat
      BY <1>1, <2>1, <2>2
    <3> QED
      BY <2>1, <3>1, <3>2 DEF ProcessorInv
  <2> QED
    BY <2>3, <2>4
<1>4. CASE UNCHANGED <<queue_in, accepted>>
  <2> HIDE DEF EngineInv
  <2>1. ProcessorInv /\ begun' = begun
    BY <1>4 DEF EngineInv, begun
  <2>2. CASE UNCHANGED <<ppc, event, i>>
    BY <1>4, <2>1, <2>2 DEF ProcessorInv
  <2>3. CASE UpdateVar
    <3>1. Len(event.updates) \in Nat
      BY <2>1, <2>3, EventFields, LenProperties DEF UpdateVar, ProcessorInv
    <3>2. i' \in Nat /\ i' \in 1 .. Len(event.updates) + 1
      BY <2>1, <2>3, <3>1 DEF UpdateVar, ProcessorInv
    <3> QED
      BY <1>4, <2>1, <2>3, <3>2 DEF UpdateVar, ProcessorInv
  <2>4. CASE ProcIdle \/ HandleError
    <3>1. ppc' \in {"pop", "exited"} /\ UNCHANGED <<event, i>>
      BY <2>4, AgainValues DEF ProcIdle, HandleError
    <3> QED
      BY <1>4, <2>1, <3>1 DEF ProcessorInv
  <2>5. CASE ApplyRules \/ DispatchPush
    <3>1. ppc' \in {"pop", "push", "exited"} /\ UNCHANGED <<event, i>>
          /\ ppc \in {"update", "push"}
      BY <2>5, AgainValues DEF ApplyRules, DispatchPush
    <3> QED
      BY <1>4, <2>1, <3>1 DEF ProcessorInv
  <2>6. CASE ProcPop
    BY <1>3, <2>6 DEF EngineInv
  <2> QED
    BY <2>2, <2>3, <2>4, <2>5, <2>6, Frames DEF Processor, processor
<1>5. RecvPush \/ ProcPop \/ UNCHANGED <<queue_in, accepted>>
  <2>1. CASE Receiver
    BY <2>1 DEF Receiver, RecvTimeout, Recv, history
  <2>2. CASE Processor
    BY <2>2 DEF Processor, ProcIdle, UpdateVar, ApplyRules, HandleError, DispatchPush, history
  <2> QED
    BY <2>1, <2>2, Frames
<1> QED
  BY <1>2, <1>3, <1>4, <1>5

\* The rules do not change while the engine runs.
LEMMA BatchFrame ==
    ASSUME UNCHANGED update_rules
    PROVE  /\ \A e, action : /\ Batch(e, action)' = Batch(e, action)
                             /\ Asks(e, action)' = Asks(e, action)
           /\ UNCHANGED event => /\ ForNotify' = ForNotify
                                 /\ ForUserService' = ForUserService
                                 /\ \A action : Asks(event, action)' = Asks(event, action)
<1>1. \A t, v : get_update_rule(t, v)' = get_update_rule(t, v)
  BY DEF get_update_rule
<1>2. \A e, action : Batch(e, action)' = Batch(e, action)
  BY <1>1 DEF Batch
<1>3. \A e, action : Asks(e, action)' = Asks(e, action)
  BY <1>2 DEF Asks
<1>4. ASSUME UNCHANGED event
      PROVE  /\ ForNotify' = ForNotify /\ ForUserService' = ForUserService
             /\ \A action : Asks(event, action)' = Asks(event, action)
  <2>1. \A action : Batch(event, action)' = Batch(event, action)
    BY <1>1, <1>4 DEF Batch
  <2> QED
    BY <1>4, <2>1 DEF Asks, ForNotify, ForUserService
<1> QED
  BY <1>2, <1>3, <1>4

LEMMA RulesSettled ==
    ASSUME StartInv, [Next]_vars
    PROVE  /\ ppc # "pop" \/ accepted # << >> => UNCHANGED update_rules
           /\ ~Configure => UNCHANGED update_rules
<1>1. ~Configure => UNCHANGED update_rules
  BY Frames DEF rules
<1>2. Configure => ppc = "pop" /\ accepted = << >>
  BY DEF Configure, StartInv
<1> QED
  BY <1>1, <1>2

LEMMA ApplyRulesOut ==
    ASSUME EngineInv, ApplyRules
    PROVE  /\ ~Asks(event, "NOTIFY_UPWARDS") /\ ~Asks(event, "CALL_USER_SERVICE")
                 => out' = << >>
           /\ Asks(event, "NOTIFY_UPWARDS") /\ ~Asks(event, "CALL_USER_SERVICE")
                 => out' = <<ForNotify>>
           /\ ~Asks(event, "NOTIFY_UPWARDS") /\ Asks(event, "CALL_USER_SERVICE")
                 => out' = <<ForUserService>>
           /\ Asks(event, "NOTIFY_UPWARDS") /\ Asks(event, "CALL_USER_SERVICE")
                 => out' = <<ForNotify, ForUserService>>
           /\ event \in UpdateEvents
<1>1. event \in UpdateEvents
  BY DEF EngineInv, ProcessorInv, ApplyRules
<1>2. event.type = EVENT_UPDATE
  BY <1>1, EventFields
<1> DEFINE n == Batch(event, "NOTIFY_UPWARDS")
           u == Batch(event, "CALL_USER_SERVICE")
<1>3. /\ Asks(event, "NOTIFY_UPWARDS") <=> n.updates # << >>
      /\ Asks(event, "CALL_USER_SERVICE") <=> u.updates # << >>
      /\ ForNotify = [to |-> "notify", e |-> n] /\ ForUserService = [to |-> "user", e |-> u]
      /\ out' = ToPush("notify", n) \o ToPush("user", u)
  BY <1>2 DEF Asks, ForNotify, ForUserService, ApplyRules
<1> HIDE DEF n, u
<1>4. /\ ToPush("notify", n) =
           IF Asks(event, "NOTIFY_UPWARDS") THEN <<ForNotify>> ELSE << >>
      /\ ToPush("user", u) =
           IF Asks(event, "CALL_USER_SERVICE") THEN <<ForUserService>> ELSE << >>
  BY <1>3 DEF ToPush
<1>5. ASSUME NEW a, NEW b
      PROVE  /\ << >> \o << >> = << >> /\ <<a>> \o << >> = <<a>>
             /\ << >> \o <<b>> = <<b>> /\ <<a>> \o <<b>> = <<a, b>>
  <2>1. <<a>> \in Seq({a, b}) /\ <<b>> \in Seq({a, b}) /\ << >> \in Seq({a, b})
    OBVIOUS
  <2>2. <<a>> \o <<b>> = <<a, b>>
    <3> DEFINE p == <<a>> \o <<b>>
               q == <<a, b>>
    <3>1. q \in Seq({a, b}) /\ Len(q) = 2 /\ q[1] = a /\ q[2] = b
      OBVIOUS
    <3>2. /\ Len(<<a>>) = 1 /\ <<a>>[1] = a /\ Len(<<b>>) = 1 /\ <<b>>[1] = b
      OBVIOUS
    <3>3. p \in Seq({a, b}) /\ Len(p) = 2 /\ p[1] = a /\ p[2] = b
      BY <2>1, <3>2, ConcatProperties
    <3>4. \A k \in 1 .. 2 : p[k] = q[k]
      BY <3>1, <3>3
    <3> HIDE DEF p, q
    <3>5. p = q
      BY <3>1, <3>3, <3>4, SameElements
    <3> QED
      BY <3>5 DEF p, q
  <2> QED
    BY <2>1, <2>2, ConcatEmptySeq
<1> QED
  BY <1>1, <1>3, <1>4, <1>5

\* What one push leaves in the dispatcher's hands.
LEMMA DispatchPushOut ==
    ASSUME EngineInv, DispatchPush
    PROVE  /\ event \in UpdateEvents /\ ppc = "push"
           /\ \/ /\ out = <<ForNotify>> /\ out' = << >>
                 /\ Asks(event, "NOTIFY_UPWARDS")
              \/ /\ out = <<ForUserService>> /\ out' = << >>
                 /\ Asks(event, "CALL_USER_SERVICE")
              \/ /\ out = <<ForNotify, ForUserService>> /\ out' = <<ForUserService>>
                 /\ Asks(event, "NOTIFY_UPWARDS") /\ Asks(event, "CALL_USER_SERVICE")
           /\ \/ /\ Head(out) = ForNotify /\ Asks(event, "NOTIFY_UPWARDS")
                 /\ queue_out_notify' = push_event(queue_out_notify, ForNotify.e)
                 /\ refused' = IF Full(queue_out_notify)
                               THEN [refused EXCEPT ![event.twin_id] = @ + 1] ELSE refused
                 /\ UNCHANGED queue_out_user
              \/ /\ Head(out) = ForUserService /\ Asks(event, "CALL_USER_SERVICE")
                 /\ queue_out_user' = push_event(queue_out_user, ForUserService.e)
                 /\ UNCHANGED <<queue_out_notify, refused>>
<1>1. event \in UpdateEvents /\ ppc = "push"
  BY DEF EngineInv, ProcessorInv, DispatchPush
<1>2. out' = Tail(out)
  BY DEF DispatchPush
<1>3. ASSUME NEW a, NEW b
      PROVE  /\ Tail(<<a>>) = << >> /\ Head(<<a>>) = a
             /\ Tail(<<a, b>>) = <<b>> /\ Head(<<a, b>>) = a
  OBVIOUS
<1>4. \/ /\ out = <<ForNotify>> /\ out' = << >>
         /\ Asks(event, "NOTIFY_UPWARDS") /\ Head(out) = ForNotify
      \/ /\ out = <<ForUserService>> /\ out' = << >>
         /\ Asks(event, "CALL_USER_SERVICE") /\ Head(out) = ForUserService
      \/ /\ out = <<ForNotify, ForUserService>> /\ out' = <<ForUserService>>
         /\ Asks(event, "NOTIFY_UPWARDS") /\ Asks(event, "CALL_USER_SERVICE")
         /\ Head(out) = ForNotify
  <2>1. \/ out = <<ForNotify>> /\ Asks(event, "NOTIFY_UPWARDS")
        \/ out = <<ForUserService>> /\ Asks(event, "CALL_USER_SERVICE")
        \/ /\ out = <<ForNotify, ForUserService>>
           /\ Asks(event, "NOTIFY_UPWARDS") /\ Asks(event, "CALL_USER_SERVICE")
    BY <1>1 DEF EngineInv, DispatcherInv
  <2>2. CASE out = <<ForNotify>> /\ Asks(event, "NOTIFY_UPWARDS")
    BY <1>2, <1>3, <2>2
  <2>3. CASE out = <<ForUserService>> /\ Asks(event, "CALL_USER_SERVICE")
    BY <1>2, <1>3, <2>3
  <2>4. CASE /\ out = <<ForNotify, ForUserService>>
             /\ Asks(event, "NOTIFY_UPWARDS") /\ Asks(event, "CALL_USER_SERVICE")
    BY <1>2, <1>3, <2>4
  <2> QED
    BY <2>1, <2>2, <2>3, <2>4
<1>5. ForNotify.to = "notify" /\ ForUserService.to = "user"
      /\ ForNotify.e.twin_id = event.twin_id
  BY DEF ForNotify, ForUserService, Batch, UpdateEvent
<1>6. \/ /\ Head(out).to = "notify"
         /\ queue_out_notify' = push_event(queue_out_notify, Head(out).e)
         /\ refused' = IF Full(queue_out_notify)
                       THEN [refused EXCEPT ![Head(out).e.twin_id] = @ + 1] ELSE refused
         /\ UNCHANGED queue_out_user
      \/ /\ Head(out).to = "user"
         /\ queue_out_user' = push_event(queue_out_user, Head(out).e)
         /\ UNCHANGED <<queue_out_notify, refused>>
  BY DEF DispatchPush, ForUser
<1>7. CASE Head(out) = ForNotify /\ Asks(event, "NOTIFY_UPWARDS")
  BY <1>1, <1>4, <1>5, <1>6, <1>7
<1>8. CASE Head(out) = ForUserService /\ Asks(event, "CALL_USER_SERVICE")
  BY <1>1, <1>4, <1>5, <1>6, <1>8
<1> QED
  BY <1>4, <1>7, <1>8

LEMMA DispatcherStep ==
    ASSUME EngineInv, [Next]_vars PROVE DispatcherInv'
<1>1. CASE ApplyRules
  <2>1. ppc # "pop" /\ UNCHANGED event
    BY <1>1 DEF ApplyRules
  <2>2. UNCHANGED update_rules
    BY <2>1, RulesSettled DEF EngineInv
  <2>3. ppc' \in {"pop", "exited", "push"} /\ (ppc' = "push" <=> out' # << >>)
    BY <1>1, AgainValues DEF ApplyRules
  <2> QED
    BY <1>1, <2>1, <2>2, <2>3, ApplyRulesOut, BatchFrame DEF DispatcherInv
<1>2. CASE DispatchPush
  <2>1. ppc # "pop" /\ UNCHANGED event
    BY <1>2 DEF DispatchPush
  <2>2. UNCHANGED update_rules
    BY <2>1, RulesSettled DEF EngineInv
  <2>3. ppc' \in {"pop", "exited", "push"} /\ (ppc' = "push" <=> out' # << >>)
    BY <1>2, AgainValues DEF DispatchPush
  <2> QED
    BY <1>2, <2>1, <2>2, <2>3, DispatchPushOut, BatchFrame DEF DispatcherInv
<1>3. CASE ProcIdle \/ ProcPop \/ UpdateVar \/ HandleError
  BY <1>3, AgainValues
  DEF EngineInv, DispatcherInv, ProcIdle, ProcPop, UpdateVar, HandleError, dispatch_event
<1>4. CASE ~Processor
  <2>1. UNCHANGED <<ppc, out, event>>
    BY <1>4, Frames DEF processor
  <2>2. CASE ppc = "push"
    <3>1. UNCHANGED update_rules
      BY <2>2, RulesSettled DEF EngineInv
    <3> QED
      BY <2>1, <2>2, <3>1, BatchFrame DEF EngineInv, DispatcherInv
  <2>3. CASE ppc # "push"
    BY <2>1, <2>3 DEF EngineInv, DispatcherInv
  <2> QED
    BY <2>2, <2>3
<1> QED
  BY <1>1, <1>2, <1>3, <1>4 DEF Processor

LEMMA OutputStep ==
    ASSUME EngineInv, [Next]_vars PROVE OutputInv'
<1>1. OutputInv
  BY DEF EngineInv
<1>2. CASE DispatchPush
  <2>1. UNCHANGED <<spc, tx, pipe, delivered>>
    BY <1>2 DEF DispatchPush, sender, network
  <2>2. CASE /\ Asks(event, "NOTIFY_UPWARDS")
             /\ queue_out_notify' = push_event(queue_out_notify, ForNotify.e)
             /\ refused' = IF Full(queue_out_notify)
                           THEN [refused EXCEPT ![event.twin_id] = @ + 1] ELSE refused
             /\ UNCHANGED queue_out_user
    <3>1. ForNotify.e \in ForParent /\ event.twin_id \in Twins
      BY <1>2, <2>2, DispatchPushOut, AskedIsConnected DEF EngineInv, ForNotify
    <3>2. queue_out_notify' \in Seq(ForParent) /\ Len(queue_out_notify') < QUEUE_SIZE
      BY <1>1, <2>2, <3>1, PushTypes DEF OutputInv
    <3>3. refused' \in [Twins -> Nat]
      BY <1>1, <2>2, <3>1 DEF OutputInv
    <3> QED
      BY <1>1, <2>1, <2>2, <3>2, <3>3 DEF OutputInv
  <2>3. CASE /\ queue_out_user' = push_event(queue_out_user, ForUserService.e)
             /\ UNCHANGED <<queue_out_notify, refused>>
    <3>1. ForUserService.e \in Notices({event.twin_id}) /\ event.twin_id \in Nat
      BY <1>2, DispatchPushOut, BatchFacts, EventFields DEF EngineInv, ForUserService
    <3>2. ForUserService.e \in Notices(Nat)
      BY <3>1 DEF Notices
    <3>3. queue_out_user' \in Seq(Notices(Nat)) /\ Len(queue_out_user') < QUEUE_SIZE
      BY <1>1, <2>3, <3>2, PushTypes DEF OutputInv
    <3> QED
      BY <1>1, <2>1, <2>3, <3>3 DEF OutputInv
  <2> QED
    BY <1>2, <2>2, <2>3, DispatchPushOut
<1>3. CASE SendIdle
  BY <1>1, <1>3, AgainValues DEF SendIdle, OutputInv, outputs, network, history
<1>4. CASE SendPop
  <2>1. Len(queue_out_notify) \in Nat /\ QUEUE_SIZE \in Nat
    BY <1>1, LenProperties, EngineAssumption DEF OutputInv
  <2>2. /\ Head(queue_out_notify) \in ForParent
        /\ Tail(queue_out_notify) \in Seq(ForParent)
        /\ Len(Tail(queue_out_notify)) = Len(queue_out_notify) - 1
    BY <1>1, <1>4, HeadTailProperties DEF SendPop, OutputInv
  <2>3. Len(Tail(queue_out_notify)) < QUEUE_SIZE
    BY <1>1, <2>1, <2>2 DEF OutputInv
  <2> QED
    BY <1>1, <1>4, <2>2, <2>3 DEF SendPop, OutputInv, network, history
<1>5. CASE SendEvent
  <2>1. tx \in ForParent /\ tx.twin_id \in Connector
    BY <1>1, <1>5 DEF SendEvent, OutputInv
  <2> DEFINE c == tx.twin_id
             m == serialize_event(tx)
  <2>2. m \in Packets
    BY <2>1 DEF Packets
  <2>3. pipe[c] \in Seq(Packets) /\ Len(pipe[c]) \in Nat /\ SNDHWM \in Nat
        /\ Len(pipe[c]) < SNDHWM /\ pipe' = [pipe EXCEPT ![c] = Append(@, m)]
    BY <1>1, <1>5, <2>1, LenProperties, EngineAssumption DEF SendEvent, OutputInv, zmq_send
  <2>4. Append(pipe[c], m) \in Seq(Packets) /\ Len(Append(pipe[c], m)) = Len(pipe[c]) + 1
    BY <2>2, <2>3, AppendProperties
  <2>5. Len(Append(pipe[c], m)) <= SNDHWM
    BY <2>3, <2>4
  <2> HIDE DEF m, c
  <2>6. pipe' \in [Connector -> Seq(Packets)] /\ \A d \in Connector : Len(pipe'[d]) <= SNDHWM
    BY <1>1, <2>1, <2>3, <2>4, <2>5 DEF OutputInv
  <2>7. spc' \in {"pop", "exited"} /\ UNCHANGED <<tx, delivered, refused, queue_out_notify, queue_out_user>>
    BY <1>5, AgainValues DEF SendEvent, outputs, history
  <2> QED
    BY <1>1, <2>6, <2>7 DEF OutputInv
<1>6. CASE SendTerminated
  <2>1. tx \in ForParent
    BY <1>1, <1>6 DEF SendTerminated, OutputInv
  <2>2. tx.twin_id \in Twins
    BY <2>1 DEF ForParent, Notices
  <2>3. refused' \in [Twins -> Nat]
    BY <1>1, <1>6, <2>2 DEF SendTerminated, OutputInv
  <2>4. spc' \in {"pop", "exited"} /\ UNCHANGED <<tx, network, outputs>>
    BY <1>6, AgainValues DEF SendTerminated
  <2> QED
    BY <1>1, <2>3, <2>4 DEF OutputInv, network, outputs
<1>7. ASSUME NEW c \in Connector, PeerRecv(c) PROVE OutputInv'
  <2>1. /\ pipe[c] \in Seq(Packets) /\ pipe[c] # << >> /\ Len(pipe[c]) \in Nat
        /\ delivered[c] \in Seq(Packets) /\ Len(pipe[c]) <= SNDHWM /\ SNDHWM \in Nat
    BY <1>1, <1>7, LenProperties, EngineAssumption DEF PeerRecv, OutputInv
  <2>2. /\ Head(pipe[c]) \in Packets /\ Tail(pipe[c]) \in Seq(Packets)
        /\ Len(Tail(pipe[c])) = Len(pipe[c]) - 1
    BY <2>1, HeadTailProperties
  <2>3. Append(delivered[c], Head(pipe[c])) \in Seq(Packets) /\ Len(Tail(pipe[c])) <= SNDHWM
    BY <2>1, <2>2, AppendProperties
  <2>4. /\ pipe' = [pipe EXCEPT ![c] = Tail(@)]
        /\ delivered' = [delivered EXCEPT ![c] = Append(@, Head(pipe[c]))]
    BY <1>7 DEF PeerRecv
  <2>5. pipe' \in [Connector -> Seq(Packets)] /\ \A d \in Connector : Len(pipe'[d]) <= SNDHWM
    BY <1>1, <2>2, <2>3, <2>4 DEF OutputInv
  <2>6. delivered' \in [Connector -> Seq(Packets)]
    BY <1>1, <2>3, <2>4 DEF OutputInv
  <2> QED
    BY <1>1, <1>7, <2>5, <2>6 DEF PeerRecv, OutputInv, outputs, sender, history
<1>8. CASE UNCHANGED <<outputs, sender, network, refused>>
  BY <1>1, <1>8 DEF OutputInv, outputs, sender, network
<1>9. CASE Processor
  BY <1>2, <1>8, <1>9 DEF Processor, ProcIdle, ProcPop, UpdateVar, ApplyRules, HandleError, history
<1>10. CASE ~Processor /\ ~Sender /\ \A c \in Connector : ~PeerRecv(c)
  BY <1>8, <1>10, Frames DEF outputs
<1> QED
  BY <1>3, <1>4, <1>5, <1>6, <1>7, <1>9, <1>10 DEF Sender

BegunIsPrefix ==
    /\ begun \in Nat /\ Len(accepted) \in Nat /\ begun <= Len(accepted)
    /\ Begun \in Seq(Events) /\ Len(Begun) = begun /\ DOMAIN Begun = 1 .. begun
    /\ \A k \in 1 .. begun : Begun[k] = accepted[k] /\ Begun[k] \in Events

LEMMA BegunFacts == ReceiverInv /\ ProcessorInv => BegunIsPrefix
<1> SUFFICES ASSUME ReceiverInv, ProcessorInv PROVE BegunIsPrefix
  OBVIOUS
<1>1. /\ begun \in Nat /\ Len(accepted) \in Nat /\ accepted \in Seq(Events)
      /\ Len(queue_in) \in Nat
  BY LenProperties DEF ReceiverInv, ProcessorInv
<1>2. begun <= Len(accepted)
  BY <1>1 DEF begun
<1>3. Begun = SubSeq(accepted, 1, begun)
  BY DEF Begun, begun
<1> HIDE DEF begun
<1>4. \A k \in 1 .. begun : accepted[k] \in Events
  BY <1>1, <1>2, ElementOfSeq
<1>5. /\ Begun \in Seq(Events) /\ Len(Begun) = begun
      /\ \A k \in 1 .. begun : Begun[k] = accepted[k]
  BY <1>1, <1>2, <1>3, <1>4, SubSeqProperties
<1>6. DOMAIN Begun = 1 .. begun
  BY <1>5, LenProperties
<1> QED
  BY <1>1, <1>2, <1>4, <1>5, <1>6 DEF BegunIsPrefix

\* The writes, in terms of the events accepted.
WritesAre ==
    \A t, v, w : w \in Writes(t, v) <=>
        /\ w \in (1 .. begun) \X (1 .. MAX_VARS_PER_EVENT)
        /\ accepted[w[1]].twin_id = t
        /\ w[2] <= Applied(w[1])
        /\ Uint8(accepted[w[1]].updates[w[2]].var_id) = v

LEMMA WritesFacts == ReceiverInv /\ ProcessorInv => WritesAre
<1> SUFFICES ASSUME ReceiverInv, ProcessorInv, NEW t, NEW v, NEW w
             PROVE  w \in Writes(t, v) <=>
                        /\ w \in (1 .. begun) \X (1 .. MAX_VARS_PER_EVENT)
                        /\ accepted[w[1]].twin_id = t
                        /\ w[2] <= Applied(w[1])
                        /\ Uint8(accepted[w[1]].updates[w[2]].var_id) = v
  BY DEF WritesAre
<1>1. DOMAIN Begun = 1 .. begun /\ \A k \in 1 .. begun : Begun[k] = accepted[k]
  BY BegunFacts DEF BegunIsPrefix
<1>2. w \in Writes(t, v) <=>
          /\ w \in (1 .. begun) \X (1 .. MAX_VARS_PER_EVENT)
          /\ Begun[w[1]].twin_id = t
          /\ w[2] <= Applied(w[1])
          /\ Uint8(Begun[w[1]].updates[w[2]].var_id) = v
  BY <1>1 DEF Writes
<1>3. w \in (1 .. begun) \X (1 .. MAX_VARS_PER_EVENT) => Begun[w[1]] = accepted[w[1]]
  BY <1>1
<1> QED
  BY <1>2, <1>3

AppliedAre ==
    \A k \in 1 .. begun :
        Applied(k) = IF accepted[k].type # EVENT_UPDATE THEN 0
                     ELSE IF k = begun /\ ppc = "update" THEN i - 1
                     ELSE Len(accepted[k].updates)

LEMMA AppliedFacts == ReceiverInv /\ ProcessorInv => AppliedAre
  BY BegunFacts DEF Applied, BegunIsPrefix, AppliedAre

\* A step that applies no update leaves the writes as they are.
LEMMA WritesSame ==
    ASSUME ReceiverInv, ProcessorInv, ReceiverInv', ProcessorInv',
           begun' \in {begun, begun + 1},
           \A k \in 1 .. begun : accepted'[k] = accepted[k] /\ Applied(k)' = Applied(k),
           \A k \in 1 .. begun' : k = begun + 1 => Applied(k)' = 0,
           MemoryInv, UNCHANGED <<twin_vars, status>>
    PROVE  MemoryInv'
<1>1. begun \in Nat /\ MAX_VARS_PER_EVENT \in Nat
  BY BatchAssumption DEF ProcessorInv
<1>2. ASSUME NEW t, NEW v, NEW w PROVE w \in Writes(t, v) <=> w \in Writes(t, v)'
  <2>1. w \in Writes(t, v) <=>
            /\ w \in (1 .. begun) \X (1 .. MAX_VARS_PER_EVENT)
            /\ accepted[w[1]].twin_id = t
            /\ w[2] <= Applied(w[1])
            /\ Uint8(accepted[w[1]].updates[w[2]].var_id) = v
    BY WritesFacts DEF WritesAre
  <2>2. w \in Writes(t, v)' <=>
            /\ w \in (1 .. begun') \X (1 .. MAX_VARS_PER_EVENT)
            /\ accepted'[w[1]].twin_id = t
            /\ w[2] <= Applied(w[1])'
            /\ Uint8(accepted'[w[1]].updates[w[2]].var_id) = v
    <3>1. WritesAre'
      BY WritesFacts, PTL
    <3> QED
      BY <3>1 DEF WritesAre
  <2>3. w \in (1 .. begun') \X (1 .. MAX_VARS_PER_EVENT) /\ w[2] <= Applied(w[1])' =>
            w \in (1 .. begun) \X (1 .. MAX_VARS_PER_EVENT)
    <3>1. CASE begun' = begun
      BY <3>1
    <3>2. CASE begun' = begun + 1
      <4> SUFFICES ASSUME w \in (1 .. begun + 1) \X (1 .. MAX_VARS_PER_EVENT),
                          w[2] <= Applied(w[1])'
                   PROVE  w[1] \in 1 .. begun
        BY <3>2
      <4>1. w[1] \in 1 .. begun + 1 /\ w[2] \in 1 .. MAX_VARS_PER_EVENT
        OBVIOUS
      <4>2. w[1] # begun + 1
        <5>1. ~(w[2] <= 0)
          BY <1>1, <4>1
        <5> QED
          BY <3>2, <4>1, <5>1
      <4> QED
        BY <1>1, <4>1, <4>2
    <3> QED
      BY <3>1, <3>2
  <2>4. w \in (1 .. begun) \X (1 .. MAX_VARS_PER_EVENT) =>
            /\ w \in (1 .. begun') \X (1 .. MAX_VARS_PER_EVENT)
            /\ accepted'[w[1]] = accepted[w[1]] /\ Applied(w[1])' = Applied(w[1])
    BY <1>1
  <2> QED
    BY <2>1, <2>2, <2>3, <2>4
<1>3. \A t, v : Writes(t, v)' = Writes(t, v)
  <2>1. ASSUME NEW t, NEW v PROVE Writes(t, v)' = Writes(t, v)
    <3>1. PICK A : A = Writes(t, v)
      OBVIOUS
    <3>2. PICK B : B = Writes(t, v)'
      OBVIOUS
    <3>3. A \subseteq (1 .. begun) \X (1 .. MAX_VARS_PER_EVENT)
      BY <3>1, WritesFacts DEF WritesAre
    <3>4. \A w : w \in A <=> w \in B
      BY <1>2, <3>1, <3>2
    <3> QED
      BY <3>1, <3>2, <3>4
  <2> QED
    BY <2>1
<1>4. ASSUME NEW t, NEW v, NEW w \in Writes(t, v)
      PROVE  Begun'[w[1]] = Begun[w[1]]
  <2>1. w[1] \in 1 .. begun /\ Begun[w[1]] = accepted[w[1]]
    BY WritesFacts, BegunFacts DEF WritesAre, BegunIsPrefix
  <2>2. w[1] \in 1 .. begun'
    BY <1>1, <2>1
  <2>3. BegunIsPrefix'
    BY BegunFacts, PTL
  <2> QED
    BY <2>1, <2>2, <2>3 DEF BegunIsPrefix
<1>5. ASSUME NEW t \in Twins, NEW v \in Vars
      PROVE  (\/ Writes(t, v) = {} /\ twin_vars[t][v] = Zero
              \/ \E w \in Writes(t, v) :
                    /\ Latest(t, v, w)
                    /\ twin_vars[t][v] = Begun[w[1]].updates[w[2]].value)'
  BY <1>3, <1>4, SMTT(30) DEF MemoryInv, Latest
<1>6. ASSUME NEW t \in Twins
      PROVE  (status[t] = IF \A v \in Vars : Writes(t, v) = {} THEN 2 ELSE 0)'
  BY <1>3 DEF MemoryInv
<1>7. (twin_vars \in [Twins -> [Vars -> Floats]] /\ status \in [Twins -> 0 .. 2])'
  BY DEF MemoryInv
<1> QED
  BY <1>5, <1>6, <1>7 DEF MemoryInv

\* The update loop writes the newest value of one variable, or of none.
LEMMA UpdateVarStep ==
    ASSUME EngineInv, UpdateVar, ReceiverInv', ProcessorInv'
    PROVE  MemoryInv'
<1>1. PICK b \in Nat : b = begun
  BY DEF EngineInv, ProcessorInv
<1>2. PICK j \in Nat : j = i
  BY DEF EngineInv, ProcessorInv
<1>3. /\ b > 0 /\ event = accepted[b] /\ event \in UpdateEvents /\ ppc = "update"
      /\ i' = j + 1 /\ UNCHANGED <<ppc, event, accepted, queue_in>>
      /\ j >= 1 /\ j <= Len(event.updates)
  BY <1>1, <1>2 DEF EngineInv, ProcessorInv, UpdateVar, history
<1>4. begun' = b
  BY <1>1, <1>3 DEF begun
<1>5. /\ event.type = EVENT_UPDATE /\ event.updates \in Seq(Update)
      /\ Len(event.updates) \in Nat /\ Len(event.updates) <= MAX_VARS_PER_EVENT
      /\ MAX_VARS_PER_EVENT \in Nat
  BY <1>3, EventFields, LenProperties, BatchAssumption
<1>6. PICK t0 : t0 = event.twin_id
  OBVIOUS
<1>7. PICK v0 : v0 = Uint8(event.updates[j].var_id)
  OBVIOUS
<1>8. PICK x0 : x0 = event.updates[j].value
  OBVIOUS
<1>9. x0 \in Floats
  <2>1. j \in 1 .. Len(event.updates)
    BY <1>3, <1>5
  <2>2. event.updates[j] \in Update
    BY <1>5, <2>1, ElementOfSeq
  <2> QED
    BY <1>8, <2>2 DEF Update
<1>10. IF t0 \in Twins /\ v0 \in Vars
       THEN /\ twin_vars' = [twin_vars EXCEPT ![t0][v0] = x0]
            /\ status' = [status EXCEPT ![t0] = 0]
       ELSE UNCHANGED <<twin_vars, status>>
  BY <1>2, <1>6, <1>7, <1>8 DEF UpdateVar, Current, twins_memory_update_var
<1>11. /\ \A k \in 1 .. b : k # b => Applied(k)' = Applied(k)
       /\ Applied(b) = j - 1 /\ Applied(b)' = j
  <2>1. AppliedAre /\ AppliedAre'
    BY AppliedFacts, PTL DEF EngineInv
  <2>2. b \in 1 .. b
    BY <1>3
  <2>3. Applied(b) = j - 1
    BY <1>1, <1>2, <1>3, <1>5, <2>1, <2>2 DEF AppliedAre
  <2>4. Applied(b)' = j
    <3>1. Applied(b)' = i' - 1
      BY <1>3, <1>4, <1>5, <2>1, <2>2 DEF AppliedAre
    <3> QED
      BY <1>3, <3>1
  <2>5. ASSUME NEW k \in 1 .. b, k # b PROVE Applied(k)' = Applied(k)
    BY <1>1, <1>3, <1>4, <2>1, <2>5 DEF AppliedAre
  <2> QED
    BY <2>3, <2>4, <2>5
<1> DEFINE w0 == <<b, j>>
           P  == (1 .. b) \X (1 .. MAX_VARS_PER_EVENT)
<1>12. w0 \in P /\ w0[1] = b /\ w0[2] = j
  BY <1>3, <1>5
<1>13. ASSUME NEW t, NEW v, NEW w
       PROVE  w \in Writes(t, v)' <=>
                 w \in Writes(t, v) \/ (w = w0 /\ t = t0 /\ v = v0)
  <2>1. w \in Writes(t, v) <=>
            /\ w \in P /\ accepted[w[1]].twin_id = t /\ w[2] <= Applied(w[1])
            /\ Uint8(accepted[w[1]].updates[w[2]].var_id) = v
    BY <1>1, WritesFacts DEF WritesAre, EngineInv
  <2>2. w \in Writes(t, v)' <=>
            /\ w \in P /\ accepted[w[1]].twin_id = t /\ w[2] <= Applied(w[1])'
            /\ Uint8(accepted[w[1]].updates[w[2]].var_id) = v
    <3>1. WritesAre'
      BY WritesFacts, PTL
    <3>2. w \in Writes(t, v)' <=>
            /\ w \in (1 .. begun') \X (1 .. MAX_VARS_PER_EVENT)
            /\ accepted'[w[1]].twin_id = t /\ w[2] <= Applied(w[1])'
            /\ Uint8(accepted'[w[1]].updates[w[2]].var_id) = v
      BY <3>1 DEF WritesAre
    <3> QED
      BY <1>3, <1>4, <3>2
  <2>3. CASE w \notin P
    BY <1>12, <2>1, <2>2, <2>3
  <2>4. CASE w \in P /\ w[1] # b
    <3>1. Applied(w[1])' = Applied(w[1]) /\ w # w0
      BY <1>11, <1>12, <2>4
    <3> QED
      BY <2>1, <2>2, <3>1
  <2>5. CASE w \in P /\ w[1] = b
    <3>1. w[2] \in Nat /\ Applied(w[1]) = j - 1 /\ Applied(w[1])' = j
      BY <1>11, <2>5
    <3>2. w[2] <= j <=> w[2] <= j - 1 \/ w[2] = j
      BY <3>1
    <3>3. w[2] = j <=> w = w0
      BY <2>5
    <3>4. w = w0 => accepted[w[1]].twin_id = t0
                    /\ Uint8(accepted[w[1]].updates[w[2]].var_id) = v0
      BY <1>3, <1>6, <1>7, <1>12
    <3>5. ~(j <= j - 1)
      OBVIOUS
    <3> HIDE DEF w0, P
    <3> QED
      BY <2>1, <2>2, <2>5, <3>1, <3>2, <3>3, <3>4, <3>5
  <2> QED
    BY <2>3, <2>4, <2>5
<1>14. ASSUME NEW t, NEW v, NEW w \in Writes(t, v) PROVE Later(w0, w)
  <2>1. w \in P /\ w[2] <= Applied(w[1])
    BY <1>1, WritesFacts DEF WritesAre, EngineInv
  <2>2. w[1] \in Nat /\ w[1] <= b /\ w[2] \in Nat
    BY <2>1
  <2>3. CASE w[1] = b
    <3>1. w[2] <= j - 1
      BY <1>11, <2>1, <2>3
    <3> QED
      BY <2>2, <2>3, <3>1 DEF Later
  <2>4. CASE w[1] # b
    <3>1. b > w[1]
      BY <2>2, <2>4
    <3> QED
      BY <3>1 DEF Later
  <2> QED
    BY <2>3, <2>4
<1>15. Later(w0, w0)
  BY DEF Later
<1>16. /\ \A t, v : \A w \in Writes(t, v) : Begun'[w[1]] = Begun[w[1]]
       /\ Begun'[w0[1]].updates[w0[2]].value = x0
  <2>1. BegunIsPrefix /\ BegunIsPrefix'
    BY BegunFacts, PTL DEF EngineInv
  <2>2. \A k \in 1 .. b : Begun'[k] = Begun[k] /\ Begun[k] = accepted[k]
    BY <1>1, <1>3, <1>4, <2>1 DEF BegunIsPrefix
  <2>3. \A t, v : \A w \in Writes(t, v) : w \in P
    BY <1>1, WritesFacts DEF WritesAre, EngineInv
  <2>4. \A w \in P : w[1] \in 1 .. b
    OBVIOUS
  <2>5. Begun'[b] = event
    BY <1>3, <1>12, <2>2
  <2> QED
    BY <1>8, <1>12, <2>2, <2>3, <2>4, <2>5
<1> HIDE DEF w0, P
<1>17. MemoryInv
  BY DEF EngineInv
<1>18. ASSUME NEW t \in Twins, NEW v \in Vars
       PROVE  (\/ Writes(t, v) = {} /\ twin_vars[t][v] = Zero
               \/ \E w \in Writes(t, v) :
                     /\ Latest(t, v, w)
                     /\ twin_vars[t][v] = Begun[w[1]].updates[w[2]].value)'
  <2>1. CASE t = t0 /\ v = v0
    <3>1. twin_vars'[t][v] = x0
      BY <1>10, <1>17, <2>1 DEF MemoryInv
    <3>2. w0 \in Writes(t, v)' /\ \A u \in Writes(t, v)' : Later(w0, u)
      BY <1>13, <1>14, <1>15, <2>1
    <3> QED
      BY <1>16, <3>1, <3>2 DEF Latest
  <2>2. CASE ~(t = t0 /\ v = v0)
    <3>1. twin_vars'[t][v] = twin_vars[t][v]
      BY <1>10, <1>17, <2>2 DEF MemoryInv
    <3>2. \A w : w \in Writes(t, v)' <=> w \in Writes(t, v)
      BY <1>13, <2>2
    <3>3. CASE Writes(t, v) = {} /\ twin_vars[t][v] = Zero
      BY <3>1, <3>2, <3>3
    <3>4. ASSUME NEW w \in Writes(t, v), Latest(t, v, w),
                 twin_vars[t][v] = Begun[w[1]].updates[w[2]].value
          PROVE  (\E u \in Writes(t, v) :
                     /\ Latest(t, v, u)
                     /\ twin_vars[t][v] = Begun[u[1]].updates[u[2]].value)'
      <4>1. w \in Writes(t, v)' /\ Latest(t, v, w)'
        BY <3>2, <3>4 DEF Latest
      <4>2. twin_vars'[t][v] = Begun'[w[1]].updates[w[2]].value
        BY <1>16, <3>1, <3>4
      <4> QED
        BY <4>1, <4>2
    <3> QED
      BY <1>17, <3>3, <3>4 DEF MemoryInv
  <2> QED
    BY <2>1, <2>2
<1>19. ASSUME NEW t \in Twins
       PROVE  (status[t] = IF \A v \in Vars : Writes(t, v) = {} THEN 2 ELSE 0)'
  <2>1. CASE t = t0 /\ v0 \in Vars
    <3>1. status'[t] = 0
      BY <1>10, <1>17, <2>1 DEF MemoryInv
    <3>2. w0 \in Writes(t, v0)'
      BY <1>13, <2>1
    <3> QED
      BY <2>1, <3>1, <3>2
  <2>2. CASE ~(t = t0 /\ v0 \in Vars)
    <3>1. status'[t] = status[t]
      BY <1>10, <1>17, <2>2 DEF MemoryInv
    <3>2. \A v \in Vars : Writes(t, v)' = {} <=> Writes(t, v) = {}
      BY <1>13, <2>2
    <3>3. status[t] = IF \A v \in Vars : Writes(t, v) = {} THEN 2 ELSE 0
      BY <1>17 DEF MemoryInv
    <3>4. (\A v \in Vars : Writes(t, v)' = {}) <=> (\A v \in Vars : Writes(t, v) = {})
      BY <3>2
    <3> QED
      BY <3>1, <3>3, <3>4
  <2> QED
    BY <2>1, <2>2
<1>20. (twin_vars \in [Twins -> [Vars -> Floats]] /\ status \in [Twins -> 0 .. 2])'
  <2>1. twin_vars \in [Twins -> [Vars -> Floats]] /\ status \in [Twins -> 0 .. 2]
    BY <1>17 DEF MemoryInv
  <2>2. CASE t0 \in Twins /\ v0 \in Vars
    <3>1. twin_vars' = [twin_vars EXCEPT ![t0][v0] = x0] /\ status' = [status EXCEPT ![t0] = 0]
      BY <1>10, <2>2
    <3>2. twin_vars' \in [Twins -> [Vars -> Floats]]
      BY <1>9, <2>1, <2>2, <3>1
    <3> QED
      BY <2>1, <2>2, <3>1, <3>2
  <2>3. CASE ~(t0 \in Twins /\ v0 \in Vars)
    BY <1>10, <2>1, <2>3
  <2> QED
    BY <2>2, <2>3
<1> QED
  BY <1>18, <1>19, <1>20 DEF MemoryInv

LEMMA MemoryStep ==
    ASSUME EngineInv, [Next]_vars, ReceiverInv', ProcessorInv' PROVE MemoryInv'
<1>1. /\ ReceiverInv /\ ProcessorInv /\ MemoryInv /\ begun \in Nat
  BY DEF EngineInv, ProcessorInv
<1>2. AppliedAre /\ AppliedAre'
  BY AppliedFacts, PTL DEF EngineInv
<1>3. CASE UpdateVar
  BY <1>3, UpdateVarStep
<1>4. CASE RecvPush
  <2>1. begun' = begun /\ \A k \in 1 .. begun : accepted'[k] = accepted[k]
    BY <1>1, <1>4, PushKeepsBegun
  <2>2. UNCHANGED <<ppc, i, twin_vars, status>>
    BY <1>4 DEF RecvPush, processor
  <2>3. ASSUME NEW k \in 1 .. begun PROVE Applied(k)' = Applied(k)
    BY <1>2, <2>1, <2>2 DEF AppliedAre
  <2>4. \A k \in 1 .. begun' : k # begun + 1
    BY <1>1, <2>1
  <2> QED
    BY <1>1, <2>1, <2>2, <2>3, <2>4, WritesSame
<1>5. CASE ProcPop
  <2>1. begun' = begun + 1 /\ accepted' = accepted
    BY <1>1, <1>5, PopTakesNext
  <2>2. ppc = "pop" /\ ppc' = dispatch_event(event') /\ i' = 1 /\ UNCHANGED <<twin_vars, status>>
    BY <1>5 DEF ProcPop
  <2>3. event' = accepted[begun + 1]
    BY <1>1, <1>5, PopTakesNext
  <2>4. ASSUME NEW k \in 1 .. begun PROVE Applied(k)' = Applied(k)
    <3>1. k \in 1 .. begun' /\ k # begun'
      BY <1>1, <2>1
    <3> QED
      BY <1>2, <2>1, <2>2, <3>1 DEF AppliedAre
  <2>5. ASSUME NEW k \in 1 .. begun', k = begun + 1 PROVE Applied(k)' = 0
    <3>1. CASE accepted[k].type = EVENT_UPDATE
      <4>1. ppc' = "update"
        BY <2>2, <2>3, <2>5, <3>1 DEF dispatch_event
      <4>2. Applied(k)' = i' - 1
        BY <1>2, <2>1, <2>5, <3>1, <4>1 DEF AppliedAre
      <4> QED
        BY <2>2, <4>2
    <3>2. CASE accepted[k].type # EVENT_UPDATE
      BY <1>2, <2>1, <3>2 DEF AppliedAre
    <3> QED
      BY <3>1, <3>2
  <2> QED
    BY <1>1, <2>1, <2>2, <2>4, <2>5, WritesSame
<1>6. CASE UNCHANGED <<queue_in, accepted, twin_vars, status>>
           /\ \/ UNCHANGED <<ppc, i>>
              \/ ppc # "update" /\ ppc' # "update"
              \/ ApplyRules
  <2>1. begun' = begun
    BY <1>6 DEF begun
  <2>2. ASSUME NEW k \in 1 .. begun PROVE Applied(k)' = Applied(k)
    <3>1. CASE ApplyRules
      <4>1. /\ ppc = "update" /\ ppc' # "update" /\ event = accepted[begun]
            /\ event \in UpdateEvents /\ i \in 1 .. Len(event.updates) + 1
            /\ i > Len(event.updates) /\ i \in Nat
        BY <1>1, <3>1, AgainValues DEF ApplyRules, ProcessorInv
      <4>2. Len(event.updates) \in Nat /\ event.type = EVENT_UPDATE
        BY <4>1, EventFields, LenProperties
      <4>3. i - 1 = Len(event.updates)
        BY <4>1, <4>2
      <4> QED
        BY <1>2, <1>6, <2>1, <4>1, <4>2, <4>3 DEF AppliedAre
    <3>2. CASE UNCHANGED <<ppc, i>>
      BY <1>2, <1>6, <2>1, <3>2 DEF AppliedAre
    <3>3. CASE ppc # "update" /\ ppc' # "update"
      BY <1>2, <1>6, <2>1, <3>3 DEF AppliedAre
    <3> QED
      BY <1>6, <3>1, <3>2, <3>3
  <2>3. \A k \in 1 .. begun' : k # begun + 1
    BY <1>1, <2>1
  <2> QED
    BY <1>1, <1>6, <2>1, <2>2, <2>3, WritesSame
<1>7. CASE RecvTimeout \/ \E m \in Messages : Recv(m)
  BY <1>6, <1>7 DEF RecvTimeout, Recv, processor, history
<1>8. CASE ProcIdle \/ DispatchPush
  <2>1. ppc # "update" /\ ppc' # "update" /\ UNCHANGED <<queue_in, accepted, twin_vars, status>>
    BY <1>8, AgainValues DEF ProcIdle, DispatchPush, history
  <2> QED
    BY <1>6, <2>1
<1>9. CASE ApplyRules
  BY <1>6, <1>9 DEF ApplyRules, history
<1>10. CASE HandleError
  <2>1. ppc # "update" /\ ppc' # "update" /\ UNCHANGED <<queue_in, accepted, twin_vars, status>>
    BY <1>10, AgainValues DEF HandleError, history
  <2> QED
    BY <1>6, <2>1
<1>11. CASE ~Receiver /\ ~Processor
  BY <1>6, <1>11, Frames DEF processor
<1> QED
  BY <1>3, <1>4, <1>5, <1>7, <1>8, <1>9, <1>10, <1>11 DEF Receiver, Processor

LEMMA InitInv == ASSUME Init PROVE EngineInv
<1> USE DEF Init
<1>1. \A S : << >> \in Seq(S)
  BY EmptySeq
<1>2. Len(UserRules) \in Nat /\ QUEUE_SIZE \in Nat \ {0} /\ SNDHWM \in Nat /\ MaxMessages \in Nat
  BY RuleAssumption, EngineAssumption, LenProperties
<1>3. RulesInv
  BY <1>2 DEF RulesInv, rule_engine_init, ErrorCodes, Actions
<1>4. StartInv
  BY DEF StartInv
<1>5. ReceiverInv
  BY <1>1, <1>2 DEF ReceiverInv
<1>6. begun = 0
  BY DEF begun
<1>7. ProcessorInv
  BY <1>1, <1>2, <1>6 DEF ProcessorInv
<1>8. DispatcherInv
  BY DEF DispatcherInv
<1>9. OutputInv
  BY <1>1, <1>2 DEF OutputInv
<1>10. \A t, v : Writes(t, v) = {}
  <2> HIDE DEF Init
  <2>1. ASSUME NEW t, NEW v, NEW w \in Writes(t, v) PROVE FALSE
    <3>1. w \in (1 .. 0) \X (1 .. MAX_VARS_PER_EVENT)
      BY <1>5, <1>6, <1>7, <2>1, WritesFacts DEF WritesAre
    <3>2. w[1] \in 1 .. 0
      BY <3>1
    <3> QED
      BY <3>2
  <2> QED
    BY <2>1
<1>11. MemoryInv
  <2>1. Zero \in Floats
    BY FloatsAreFloats DEF Zero
  <2> QED
    BY <1>10, <2>1 DEF MemoryInv
<1> QED
  BY <1>3, <1>4, <1>5, <1>7, <1>8, <1>9, <1>11 DEF EngineInv

LEMMA NextInv == EngineInv /\ [Next]_vars => EngineInv'
<1> SUFFICES ASSUME EngineInv, [Next]_vars PROVE EngineInv'
  OBVIOUS
<1>1. RulesInv' /\ StartInv' /\ ReceiverInv'
  BY RulesStep, StartStep, ReceiverStep DEF EngineInv
<1>2. ProcessorInv' /\ DispatcherInv' /\ OutputInv'
  BY ProcessorStep, DispatcherStep, OutputStep
<1>3. MemoryInv'
  BY <1>1, <1>2, MemoryStep
<1> QED
  BY <1>1, <1>2, <1>3 DEF EngineInv

LEMMA InvAlways == Spec => []EngineInv
  BY InitInv, NextInv, PTL DEF Spec

\* Queues and pipes stay within their sizes, every index and every state of
\* the three threads within its range, and memory and rules hold what their C
\* types can: for any sizes, rules and messages.
THEOREM TypeCorrect == Spec => []TypeOK
<1>1. EngineInv => TypeOK
  BY DEF EngineInv, RulesInv, ReceiverInv, ProcessorInv, OutputInv, MemoryInv, TypeOK
<1> QED
  BY <1>1, InvAlways, PTL

\* send_event never takes a connector that zmq_sender_thread has not opened.
THEOREM ConnectorAlwaysInitialised == Spec => []ConnectorInitialised
<1>1. EngineInv => ConnectorInitialised
  BY DEF EngineInv, OutputInv, ForParent, Notices, ConnectorInitialised
<1> QED
  BY <1>1, InvAlways, PTL

\* twins_memory holds, for each variable, the newest value that the processor
\* has come to, whatever the messages and however their batches interleave.
THEOREM MemoryIsAlwaysLatest == Spec => []MemoryIsLatest
<1>1. ASSUME EngineInv PROVE MemoryIsLatest
  <2>1. MemoryInv
    BY <1>1 DEF EngineInv
  <2>2. ASSUME NEW t \in Twins, NEW v \in Vars
        PROVE  twin_vars[t][v] =
                 IF Writes(t, v) = {} THEN Zero
                 ELSE LET w == CHOOSE w \in Writes(t, v) : \A u \in Writes(t, v) : Later(w, u)
                      IN  Begun[w[1]].updates[w[2]].value
    <3>1. CASE Writes(t, v) = {} /\ twin_vars[t][v] = Zero
      BY <3>1
    <3>2. ASSUME NEW x \in Writes(t, v), Latest(t, v, x),
                 twin_vars[t][v] = Begun[x[1]].updates[x[2]].value
          PROVE  twin_vars[t][v] =
                   LET w == CHOOSE w \in Writes(t, v) : \A u \in Writes(t, v) : Later(w, u)
                   IN  Begun[w[1]].updates[w[2]].value
      <4> DEFINE w == CHOOSE w \in Writes(t, v) : \A u \in Writes(t, v) : Later(w, u)
      <4>1. w \in Writes(t, v) /\ \A u \in Writes(t, v) : Later(w, u)
        BY <3>2 DEF Latest
      <4> HIDE DEF w
      <4>2. Later(w, x) /\ Later(x, w)
        BY <3>2, <4>1 DEF Latest
      <4>3. /\ w \in (1 .. begun) \X (1 .. MAX_VARS_PER_EVENT)
            /\ x \in (1 .. begun) \X (1 .. MAX_VARS_PER_EVENT)
        BY <1>1, <4>1, WritesFacts DEF EngineInv, WritesAre
      <4>4. w[1] \in Int /\ w[2] \in Int /\ x[1] \in Int /\ x[2] \in Int
        BY <4>3
      <4>5. w[1] = x[1] /\ w[2] = x[2]
        BY <4>2, <4>4 DEF Later
      <4>6. twin_vars[t][v] = Begun[w[1]].updates[w[2]].value
        BY <3>2, <4>5
      <4> QED
        BY <4>6 DEF w
    <3>3. CASE \E x \in Writes(t, v) : /\ Latest(t, v, x)
                                       /\ twin_vars[t][v] = Begun[x[1]].updates[x[2]].value
      BY <3>2, <3>3
    <3> QED
      BY <2>1, <3>1, <3>3 DEF MemoryInv
  <2> QED
    BY <2>1, <2>2 DEF MemoryInv, MemoryIsLatest
<1> QED
  BY <1>1, InvAlways, PTL

-------------------------------------------------------------------------------
(* Taking the first element off                                            *)

LEMMA ShiftedSize ==
    ASSUME NEW T, T \subseteq Nat, IsFiniteSet(T)
    PROVE  /\ IsFiniteSet({x + 1 : x \in T})
           /\ Cardinality({x + 1 : x \in T}) = Cardinality(T)
<1> DEFINE U == {x + 1 : x \in T}
           f == [x \in T |-> x + 1]
<1>1. f \in [T -> U] /\ \A y \in U : \E x \in T : f[x] = y
  OBVIOUS
<1>2. ASSUME NEW x \in T, NEW y \in T, f[x] = f[y] PROVE x = y
  <2>1. x \in Nat /\ y \in Nat /\ x + 1 = y + 1
    BY <1>2
  <2> QED
    BY <2>1
<1> HIDE DEF f, U
<1>3. IsFiniteSet(U) /\ Cardinality(U) = Cardinality(T)
  BY <1>1, <1>2, SameSize
<1> QED
  BY <1>3 DEF U

Shifted(J, I, m) == \A k \in 1 .. m : k \in J <=> k + 1 \in I

FirstIn(I) == IF 1 \in I THEN 1 ELSE 0

LEMMA ShiftedRanks ==
    ASSUME NEW m \in Nat, NEW I \in SUBSET (1 .. m + 1), NEW J \in SUBSET (1 .. m),
           Shifted(J, I, m), NEW d \in Nat, d = FirstIn(I)
    PROVE  \A l \in 0 .. m : \A r \in Nat :
              r = Rank(J, l) => Rank(I, l + 1) = r + d
<1> USE DEF Shifted, FirstIn, Rank
<1>1. IsFiniteSet(J) /\ Cardinality(J) \in Nat
  BY RankFacts
<1> SUFFICES ASSUME NEW l \in 0 .. m
             PROVE  Cardinality({x \in I : x <= l + 1}) = Cardinality({x \in J : x <= l}) + d
  OBVIOUS
<1> DEFINE T == {x \in J : x <= l}
           U == {x + 1 : x \in T}
           A == {x \in I : x <= l + 1}
<1>2. T \subseteq Nat /\ IsFiniteSet(T)
  <2>1. T \in SUBSET J /\ J \subseteq Nat
    OBVIOUS
  <2> HIDE DEF T
  <2> QED
    BY <1>1, <2>1, FS_Subset
<1>3. IsFiniteSet(U) /\ Cardinality(U) = Cardinality(T) /\ Cardinality(T) \in Nat
  <2> HIDE DEF T
  <2> QED
    BY <1>2, ShiftedSize, FS_CardinalityType
<1>4. 1 \notin U
  BY <1>2
<1>5. \A x : x \in A <=> x \in U \/ (x = 1 /\ 1 \in I)
  <2>1. ASSUME NEW x \in A PROVE x \in U \/ (x = 1 /\ 1 \in I)
    <3>1. x \in 1 .. m + 1 /\ x \in I /\ x <= l + 1
      OBVIOUS
    <3>2. CASE x # 1
      <4>1. x - 1 \in 1 .. m /\ (x - 1) + 1 = x /\ x - 1 <= l
        BY <3>1, <3>2
      <4>2. x - 1 \in T
        BY <3>1, <4>1
      <4> QED
        BY <4>1, <4>2
    <3> QED
      BY <3>1, <3>2
  <2>2. ASSUME NEW x \in U PROVE x \in A
    <3>1. PICK y \in T : x = y + 1
      OBVIOUS
    <3>2. y \in Nat /\ y + 1 \in I /\ y <= l
      BY <1>2
    <3> QED
      BY <3>1, <3>2
  <2>3. 1 \in I => 1 \in A
    OBVIOUS
  <2> QED
    BY <2>1, <2>2, <2>3
<1> HIDE DEF A, U, T
<1>6. Cardinality(A) = Cardinality(T) + d
  <2>1. CASE 1 \in I
    <3>1. A = U \cup {1}
      BY <1>5, <2>1
    <3>2. Cardinality(U \cup {1}) = Cardinality(U) + 1
      BY <1>3, <1>4, FS_AddElement
    <3> QED
      BY <1>3, <2>1, <3>1, <3>2
  <2>2. CASE 1 \notin I
    <3>1. A = U
      BY <1>5, <2>2
    <3> QED
      BY <1>3, <2>2, <3>1
  <2> QED
    BY <2>1, <2>2
<1> QED
  BY <1>6 DEF A, T

NthShifted(J, I, c, d) ==
    /\ Cardinality(I) = c + d
    /\ \A k \in 1 .. c : \E j \in J : j = Nth(J, k) /\ Nth(I, k + d) = j + 1
    /\ 1 \in I => Nth(I, 1) = 1

LEMMA ShiftedNth ==
    ASSUME NEW m \in Nat, NEW I \in SUBSET (1 .. m + 1), NEW J \in SUBSET (1 .. m),
           Shifted(J, I, m), NEW d \in Nat, d = FirstIn(I),
           NEW c \in Nat, c = Cardinality(J)
    PROVE  NthShifted(J, I, c, d)
<1>1. \A l \in 0 .. m : \A r \in Nat : r = Rank(J, l) => Rank(I, l + 1) = r + d
  BY ShiftedRanks
<1>2. m + 1 \in Nat
  OBVIOUS
<1>3. Cardinality(I) = c + d
  <2>1. m \in 0 .. m
    OBVIOUS
  <2>2. {x \in I : x <= m + 1} = I /\ {x \in J : x <= m} = J
    <3>1. \A x \in I : x \in 1 .. m + 1 /\ x <= m + 1
      OBVIOUS
    <3>2. \A x \in J : x <= m
      OBVIOUS
    <3> QED
      BY <3>1, <3>2
  <2> QED
    BY <1>1, <2>1, <2>2 DEF Rank
<1>4. ASSUME NEW k \in 1 .. c PROVE \E j \in J : j = Nth(J, k) /\ Nth(I, k + d) = j + 1
  <2>1. PICK j \in J : j = Nth(J, k) /\ Rank(J, j) = k
    BY NthFacts
  <2>2. j \in 0 .. m /\ j + 1 \in I /\ k \in Nat
    BY DEF Shifted
  <2>3. Rank(I, j + 1) = k + d
    BY <1>1, <2>1, <2>2
  <2>4. Nth(I, Rank(I, j + 1)) = j + 1
    BY <1>2, <2>2, NthFacts
  <2> QED
    BY <2>1, <2>3, <2>4
<1>5. ASSUME 1 \in I PROVE Nth(I, 1) = 1
  <2>1. {x \in I : x <= 1} = {1}
    <3>1. \A x \in I : x \in 1 .. m + 1
      OBVIOUS
    <3>2. \A x \in 1 .. m + 1 : x <= 1 <=> x = 1
      OBVIOUS
    <3> QED
      BY <1>5, <3>1, <3>2
  <2>2. Rank(I, 1) = 1
    BY <2>1, FS_Singleton DEF Rank
  <2>3. Nth(I, Rank(I, 1)) = 1
    BY <1>2, <1>5, NthFacts
  <2> QED
    BY <2>2, <2>3
<1> QED
  BY <1>3, <1>4, <1>5 DEF NthShifted

LEMMA ElementsAtTail ==
    ASSUME NEW S, NEW s \in Seq(S), s # << >>, NEW I \in SUBSET (1 .. Len(s)),
           NEW J \in SUBSET (1 .. Len(Tail(s))), Shifted(J, I, Len(Tail(s)))
    PROVE  ElementsAt(s, I) =
              (IF 1 \in I THEN <<Head(s)>> ELSE << >>) \o ElementsAt(Tail(s), J)
<1>1. PICK r \in Seq(S) : r = Tail(s)
  BY HeadTailProperties
<1>2. PICK m \in Nat : m = Len(r)
  BY LenProperties
<1>3. /\ Len(s) = m + 1 /\ Head(s) \in S /\ Head(s) = s[1]
      /\ \A k \in 1 .. m : r[k] = s[k + 1]
  <2>1. Len(s) \in Nat /\ Len(s) # 0
    BY LenProperties, EmptySeq
  <2> QED
    BY <1>1, <1>2, <2>1, HeadTailProperties
<1>4. I \in SUBSET (1 .. m + 1) /\ J \in SUBSET (1 .. m) /\ Shifted(J, I, m)
  BY <1>1, <1>2, <1>3
<1>5. PICK d \in Nat : d = FirstIn(I)
  BY DEF FirstIn
<1>6. PICK c \in Nat : c = Cardinality(J)
  BY <1>4, RankFacts
<1>7. /\ Cardinality(I) = c + d
      /\ \A k \in 1 .. c : \E j \in J : j = Nth(J, k) /\ Nth(I, k + d) = j + 1
      /\ 1 \in I => Nth(I, 1) = 1
  <2>1. NthShifted(J, I, c, d)
    BY <1>4, <1>5, <1>6, ShiftedNth
  <2> QED
    BY <2>1 DEF NthShifted
<1> DEFINE a == ElementsAt(s, I)
           b == ElementsAt(r, J)
           h == IF 1 \in I THEN <<Head(s)>> ELSE << >>
<1>8. /\ a \in Seq(S) /\ Len(a) = c + d
      /\ \A k \in 1 .. c + d : a[k] = s[Nth(I, k)]
  <2>1. /\ a \in Seq(S) /\ Len(a) = Cardinality(I)
        /\ \A k \in 1 .. Cardinality(I) : a[k] = s[Nth(I, k)]
    BY ElementsAtTypes
  <2> HIDE DEF a
  <2> QED
    BY <1>7, <2>1
<1>9. b \in Seq(S) /\ Len(b) = c /\ \A k \in 1 .. c : b[k] = r[Nth(J, k)]
  <2>1. /\ b \in Seq(S) /\ Len(b) = Cardinality(J)
        /\ \A k \in 1 .. Cardinality(J) : b[k] = r[Nth(J, k)]
    <3>1. J \in SUBSET (1 .. Len(r))
      BY <1>1
    <3> QED
      BY <3>1, ElementsAtTypes
  <2> HIDE DEF b
  <2> QED
    BY <1>6, <2>1
<1>10. h \in Seq(S) /\ Len(h) = d /\ (d = 1 => h[1] = Head(s))
  <2>1. CASE 1 \in I
    BY <1>3, <1>5, <2>1 DEF FirstIn
  <2>2. CASE 1 \notin I
    BY <1>5, <2>2, EmptySeq DEF FirstIn
  <2> QED
    BY <2>1, <2>2
<1>11. d \in {0, 1} /\ (d = 1 <=> 1 \in I)
  BY <1>5 DEF FirstIn
<1> HIDE DEF a, b, h
<1>12. /\ h \o b \in Seq(S) /\ Len(h \o b) = c + d
       /\ \A k \in 1 .. c + d : (h \o b)[k] = IF k <= d THEN h[k] ELSE b[k - d]
  <2>1. /\ h \o b \in Seq(S) /\ Len(h \o b) = Len(h) + Len(b)
        /\ \A k \in 1 .. Len(h) + Len(b) :
              (h \o b)[k] = IF k <= Len(h) THEN h[k] ELSE b[k - Len(h)]
    BY <1>9, <1>10, ConcatProperties
  <2>2. Len(h) + Len(b) = c + d
    BY <1>9, <1>10
  <2> QED
    BY <1>10, <2>1, <2>2
<1>13. ASSUME NEW k \in 1 .. c + d PROVE a[k] = (h \o b)[k]
  <2>1. CASE k <= d
    <3>1. d = 1 /\ k = 1 /\ 1 \in I
      BY <1>11, <2>1
    <3> QED
      BY <1>3, <1>7, <1>8, <1>10, <1>12, <2>1, <3>1
  <2>2. CASE ~(k <= d)
    <3>1. PICK l \in 1 .. c : l = k - d
      BY <2>2
    <3>2. PICK j \in J : j = Nth(J, l) /\ Nth(I, l + d) = j + 1
      BY <1>7
    <3>3. l + d = k /\ j \in 1 .. m
      BY <1>4, <3>1
    <3>4. (h \o b)[k] = b[l] /\ b[l] = r[j]
      BY <1>9, <1>12, <2>2, <3>1, <3>2
    <3>5. a[k] = s[j + 1]
      BY <1>8, <3>2, <3>3
    <3> QED
      BY <1>3, <3>3, <3>4, <3>5
  <2> QED
    BY <2>1, <2>2
<1>14. a = h \o b
  BY <1>8, <1>12, <1>13, SameElements
<1> QED
  BY <1>1, <1>14 DEF a, b, h

-------------------------------------------------------------------------------
(* What is on its way to a parent node                                     *)

LEMMA RemoveMiddle ==
    ASSUME NEW S, NEW a \in Seq(S), NEW x \in S, NEW b \in Seq(S)
    PROVE  /\ Len(a) + 1 \in 1 .. Len(a \o (<<x>> \o b))
           /\ RemoveAt(a \o (<<x>> \o b), Len(a) + 1) = a \o b
<1>1. PICK n \in Nat : n = Len(a)
  BY LenProperties
<1>2. PICK m \in Nat : m = Len(b)
  BY LenProperties
<1> DEFINE y == <<x>> \o b
           w == a \o y
           r == RemoveAt(w, n + 1)
<1>3. <<x>> \in Seq(S) /\ Len(<<x>>) = 1
  OBVIOUS
<1>4. /\ y \in Seq(S) /\ Len(y) = 1 + m
      /\ \A k \in 1 .. 1 + m : y[k] = IF k <= 1 THEN <<x>>[k] ELSE b[k - 1]
  BY <1>2, <1>3, ConcatProperties
<1> HIDE DEF y
<1>5. /\ w \in Seq(S) /\ Len(w) = n + (1 + m)
      /\ \A k \in 1 .. n + (1 + m) : w[k] = IF k <= n THEN a[k] ELSE y[k - n]
  <2>1. /\ w \in Seq(S) /\ Len(w) = Len(a) + Len(y)
        /\ \A k \in 1 .. Len(a) + Len(y) : w[k] = IF k <= Len(a) THEN a[k] ELSE y[k - Len(a)]
    BY <1>4, ConcatProperties
  <2> HIDE DEF w
  <2>2. Len(a) + Len(y) = n + (1 + m)
    BY <1>1, <1>4
  <2> QED
    BY <1>1, <2>1, <2>2
<1> HIDE DEF w
<1>6. n + 1 \in 1 .. Len(w)
  BY <1>5
<1>7. /\ r \in Seq(S) /\ Len(r) = n + m
      /\ \A j \in 1 .. n + m : r[j] = w[IF j < n + 1 THEN j ELSE j + 1]
  <2>1. /\ r \in Seq(S) /\ Len(r) = Len(w) - 1
        /\ \A j \in 1 .. Len(w) - 1 : r[j] = w[IF j < n + 1 THEN j ELSE j + 1]
    BY <1>5, <1>6, RemoveAtProperties
  <2> HIDE DEF r
  <2>2. Len(w) - 1 = n + m
    BY <1>5
  <2> QED
    BY <2>1, <2>2
<1>8. /\ a \o b \in Seq(S) /\ Len(a \o b) = n + m
      /\ \A k \in 1 .. n + m : (a \o b)[k] = IF k <= n THEN a[k] ELSE b[k - n]
  BY <1>1, <1>2, ConcatProperties
<1> HIDE DEF r
<1>9. ASSUME NEW k \in 1 .. n + m PROVE r[k] = (a \o b)[k]
  <2>1. CASE k <= n
    BY <1>5, <1>7, <1>8, <2>1
  <2>2. CASE ~(k <= n)
    <3>1. /\ ~(k < n + 1) /\ k + 1 \in 1 .. n + (1 + m) /\ ~(k + 1 <= n)
          /\ k + 1 - n \in 1 .. 1 + m /\ ~(k + 1 - n <= 1) /\ (k + 1 - n) - 1 = k - n
      BY <2>2
    <3>2. r[k] = y[k + 1 - n]
      BY <1>5, <1>7, <3>1
    <3>3. y[k + 1 - n] = b[k - n]
      BY <1>4, <3>1
    <3> QED
      BY <1>8, <2>2, <3>2, <3>3
  <2> QED
    BY <2>1, <2>2
<1>10. r = a \o b
  BY <1>7, <1>8, <1>9, SameElements
<1> QED
  BY <1>1, <1>6, <1>10 DEF w, y, r

LEMMA HeadTailConcat ==
    ASSUME NEW S, NEW p \in Seq(S), NEW b \in Seq(S), p # << >>
    PROVE  p \o b # << >> /\ Head(p \o b) = Head(p) /\ Tail(p \o b) = Tail(p) \o b
<1>1. PICK n \in Nat : n + 1 = Len(p)
  <2>1. Len(p) \in Nat /\ Len(p) # 0
    BY LenProperties, EmptySeq
  <2>2. Len(p) - 1 \in Nat /\ (Len(p) - 1) + 1 = Len(p)
    BY <2>1
  <2> QED
    BY <2>2
<1>2. PICK m \in Nat : m = Len(b)
  BY LenProperties
<1>3. PICK c \in Seq(S) : c = p \o b
  BY ConcatProperties
<1>4. /\ Len(c) = n + 1 + m
      /\ \A k \in 1 .. n + 1 + m : c[k] = IF k <= n + 1 THEN p[k] ELSE b[k - (n + 1)]
  <2>1. /\ Len(c) = Len(p) + Len(b)
        /\ \A k \in 1 .. Len(p) + Len(b) : c[k] = IF k <= Len(p) THEN p[k] ELSE b[k - Len(p)]
    BY <1>3, ConcatProperties
  <2>2. Len(p) + Len(b) = n + 1 + m
    BY <1>1, <1>2
  <2> QED
    BY <1>1, <2>1, <2>2
<1>5. c # << >>
  BY <1>4, EmptySeq
<1>6. PICK t \in Seq(S) : t = Tail(p)
  BY HeadTailProperties
<1>7. Len(t) = n /\ (\A k \in 1 .. n : t[k] = p[k + 1]) /\ Head(p) = p[1]
  BY <1>1, <1>6, HeadTailProperties
<1>8. PICK u \in Seq(S) : u = Tail(c)
  BY <1>5, HeadTailProperties
<1>9. Len(u) = n + m /\ (\A k \in 1 .. n + m : u[k] = c[k + 1]) /\ Head(c) = c[1]
  BY <1>4, <1>5, <1>8, HeadTailProperties
<1>10. /\ t \o b \in Seq(S) /\ Len(t \o b) = n + m
       /\ \A k \in 1 .. n + m : (t \o b)[k] = IF k <= n THEN t[k] ELSE b[k - n]
  <2>1. PICK v : v = t \o b
    OBVIOUS
  <2>2. /\ v \in Seq(S) /\ Len(v) = Len(t) + Len(b)
        /\ \A k \in 1 .. Len(t) + Len(b) : v[k] = IF k <= Len(t) THEN t[k] ELSE b[k - Len(t)]
    BY <2>1, ConcatProperties
  <2> QED
    BY <1>2, <1>7, <2>1, <2>2
<1>11. ASSUME NEW k \in 1 .. n + m PROVE u[k] = (t \o b)[k]
  <2>1. k + 1 \in 1 .. n + 1 + m /\ (k + 1 <= n + 1 <=> k <= n) /\ k + 1 - (n + 1) = k - n
    OBVIOUS
  <2>2. u[k] = IF k <= n THEN p[k + 1] ELSE b[k - n]
    BY <1>4, <1>9, <2>1
  <2> QED
    BY <1>7, <1>10, <2>2
<1>12. u = t \o b
  BY <1>9, <1>10, <1>11, SameElements
<1>13. c[1] = p[1]
  BY <1>4
<1> QED
  BY <1>3, <1>5, <1>6, <1>7, <1>8, <1>9, <1>12, <1>13

\* Concatenation, as a name of its own.
Cat(a, b) == a \o b

LEMMA CatFacts ==
    ASSUME NEW S
    PROVE  /\ \A a, b \in Seq(S) : Cat(a, b) \in Seq(S)
           /\ \A a, b, c \in Seq(S) : Cat(Cat(a, b), c) = Cat(a, Cat(b, c))
           /\ \A a \in Seq(S) : Cat(a, << >>) = a /\ Cat(<< >>, a) = a
           /\ \A a \in Seq(S) : \A x \in S : Append(a, x) = Cat(a, <<x>>)
<1>1. ASSUME NEW a \in Seq(S), NEW b \in Seq(S) PROVE Cat(a, b) \in Seq(S)
  BY ConcatProperties DEF Cat
<1>2. ASSUME NEW a \in Seq(S), NEW b \in Seq(S), NEW c \in Seq(S)
      PROVE  Cat(Cat(a, b), c) = Cat(a, Cat(b, c))
  BY ConcatAssociative DEF Cat
<1>3. ASSUME NEW a \in Seq(S) PROVE Cat(a, << >>) = a /\ Cat(<< >>, a) = a
  BY ConcatEmptySeq DEF Cat
<1>4. ASSUME NEW a \in Seq(S), NEW x \in S PROVE Append(a, x) = Cat(a, <<x>>)
  BY AppendIsConcat DEF Cat
<1> QED
  BY <1>1, <1>2, <1>3, <1>4

LEMMA CatRemove ==
    ASSUME NEW S, NEW x \in S, NEW u \in Seq(S), NEW v \in Seq(S)
    PROVE  \E k \in 1 .. Len(Cat(u, Cat(<<x>>, v))) :
              Cat(u, v) = RemoveAt(Cat(u, Cat(<<x>>, v)), k)
<1>1. /\ Len(u) + 1 \in 1 .. Len(u \o (<<x>> \o v))
      /\ RemoveAt(u \o (<<x>> \o v), Len(u) + 1) = u \o v
  BY RemoveMiddle
<1> DEFINE w == u \o (<<x>> \o v)
           y == u \o v
<1>2. w = Cat(u, Cat(<<x>>, v)) /\ y = Cat(u, v)
  BY DEF Cat
<1> HIDE DEF w, y
<1>3. Len(u) + 1 \in 1 .. Len(w) /\ RemoveAt(w, Len(u) + 1) = y
  BY <1>1 DEF w, y
<1>4. \E k \in 1 .. Len(w) : y = RemoveAt(w, k)
  BY <1>3
<1> QED
  BY <1>2, <1>4

\* A connector's pipe, the sender's event, the queue and the dispatcher's
\* event, one after the other.
Joined(p, h, q, d) == Cat(p, Cat(Cat(h, q), d))

LEMMA JoinedTypes ==
    ASSUME NEW S, NEW p \in Seq(S), NEW h \in Seq(S), NEW q \in Seq(S), NEW d \in Seq(S)
    PROVE  Joined(p, h, q, d) \in Seq(S)
  BY CatFacts DEF Joined

\* The ways in which the threads move what is there.
Moves(S, p, h, q) ==
    /\ \A d \in Seq(S) : Joined(p, << >>, Cat(h, q), d) = Joined(p, h, q, d)
    /\ \A d \in Seq(S) : \A x \in S :
          Joined(Append(p, x), << >>, q, d) = Joined(p, <<x>>, q, d)
    /\ \A x \in S : Joined(p, h, Append(q, x), << >>) = Joined(p, h, q, <<x>>)
    /\ \A x \in S : Joined(p, h, q, <<x>>) = Append(Joined(p, h, q, << >>), x)
    /\ \A x \in S : \E k \in 1 .. Len(Joined(p, h, q, <<x>>)) :
          Joined(p, h, q, << >>) = RemoveAt(Joined(p, h, q, <<x>>), k)
    /\ \A d \in Seq(S) : \A x \in S : \E k \in 1 .. Len(Joined(p, <<x>>, q, d)) :
          Joined(p, << >>, q, d) = RemoveAt(Joined(p, <<x>>, q, d), k)
    /\ p # << >> => \A d \in Seq(S) :
                       /\ Joined(p, h, q, d) # << >>
                       /\ Head(Joined(p, h, q, d)) = Head(p)
                       /\ Tail(Joined(p, h, q, d)) = Joined(Tail(p), h, q, d)

LEMMA JoinedMoves ==
    ASSUME NEW S, NEW p \in Seq(S), NEW h \in Seq(S), NEW q \in Seq(S)
    PROVE  Moves(S, p, h, q)
<1>1. \A d \in Seq(S) : Joined(p, << >>, Cat(h, q), d) = Joined(p, h, q, d)
  BY CatFacts DEF Joined
<1>2. ASSUME NEW d \in Seq(S), NEW x \in S
      PROVE  /\ Joined(Append(p, x), << >>, q, d) = Joined(p, <<x>>, q, d)
             /\ Joined(p, h, Append(q, x), << >>) = Joined(p, h, q, <<x>>)
             /\ Joined(p, h, q, <<x>>) = Append(Joined(p, h, q, << >>), x)
             /\ \E k \in 1 .. Len(Joined(p, h, q, <<x>>)) :
                   Joined(p, h, q, << >>) = RemoveAt(Joined(p, h, q, <<x>>), k)
             /\ \E k \in 1 .. Len(Joined(p, <<x>>, q, d)) :
                   Joined(p, << >>, q, d) = RemoveAt(Joined(p, <<x>>, q, d), k)
  <2>1. PICK one : one = <<x>>
    OBVIOUS
  <2>2. PICK none : none = << >>
    OBVIOUS
  <2>3. one \in Seq(S) /\ none \in Seq(S)
    BY <2>1, <2>2, EmptySeq
  <2>4. /\ \A a, b \in Seq(S) : Cat(a, b) \in Seq(S)
        /\ \A a, b, c \in Seq(S) : Cat(Cat(a, b), c) = Cat(a, Cat(b, c))
        /\ \A a \in Seq(S) : Cat(a, none) = a /\ Cat(none, a) = a
        /\ \A a \in Seq(S) : Append(a, x) = Cat(a, one)
    <3>1. /\ \A a, b \in Seq(S) : Cat(a, b) \in Seq(S)
          /\ \A a, b, c \in Seq(S) : Cat(Cat(a, b), c) = Cat(a, Cat(b, c))
          /\ \A a \in Seq(S) : Cat(a, << >>) = a /\ Cat(<< >>, a) = a
          /\ \A a \in Seq(S) : \A y \in S : Append(a, y) = Cat(a, <<y>>)
      BY CatFacts, Zenon
    <3> QED
      BY <2>1, <2>2, <3>1, Zenon
  <2>6. Joined(Append(p, x), none, q, d) = Joined(p, one, q, d)
    <3>1. Joined(Append(p, x), none, q, d) = Cat(Cat(p, one), Cat(q, d))
      BY <2>4 DEF Joined
    <3>2. Joined(p, one, q, d) = Cat(p, Cat(one, Cat(q, d)))
      BY <2>3, <2>4 DEF Joined
    <3> QED
      BY <2>3, <2>4, <3>1, <3>2
  <2>7. Joined(p, h, Append(q, x), none) = Joined(p, h, q, one)
    <3>1. Joined(p, h, Append(q, x), none) = Cat(p, Cat(h, Cat(q, one)))
      <4>1. PICK b \in Seq(S) : b = Cat(q, one)
        BY <2>3, <2>4
      <4>2. PICK c \in Seq(S) : c = Cat(h, b)
        BY <2>4
      <4>3. Append(q, x) = b /\ Cat(c, none) = c
        BY <2>4, <4>1
      <4> QED
        BY <4>1, <4>2, <4>3 DEF Joined
    <3>2. Joined(p, h, q, one) = Cat(p, Cat(h, Cat(q, one)))
      BY <2>3, <2>4 DEF Joined
    <3> QED
      BY <3>1, <3>2
  <2>8. PICK a \in Seq(S) : a = Cat(p, Cat(h, q))
    BY <2>4
  <2>9. Joined(p, h, q, one) = Cat(a, one) /\ Joined(p, h, q, none) = a
    BY <2>3, <2>4, <2>8 DEF Joined
  <2>10. Joined(p, h, q, one) = Append(Joined(p, h, q, none), x)
    BY <2>4, <2>9
  <2>11. \A u, v \in Seq(S) :
            \E k \in 1 .. Len(Cat(u, Cat(one, v))) : Cat(u, v) = RemoveAt(Cat(u, Cat(one, v)), k)
    BY <2>1, CatRemove
  <2>12. \E k \in 1 .. Len(Joined(p, h, q, one)) :
            Joined(p, h, q, none) = RemoveAt(Joined(p, h, q, one), k)
    <3>1. Cat(one, none) = one /\ Cat(a, none) = a
      BY <2>3, <2>4
    <3>2. \E k \in 1 .. Len(Cat(a, Cat(one, none))) :
             Cat(a, none) = RemoveAt(Cat(a, Cat(one, none)), k)
      BY <2>3, <2>11
    <3> QED
      BY <2>9, <3>1, <3>2
  <2>13. \E k \in 1 .. Len(Joined(p, one, q, d)) :
            Joined(p, none, q, d) = RemoveAt(Joined(p, one, q, d), k)
    <3>1. PICK b \in Seq(S) : b = Cat(q, d)
      BY <2>4
    <3>2. Joined(p, one, q, d) = Cat(p, Cat(one, b)) /\ Joined(p, none, q, d) = Cat(p, b)
      BY <2>3, <2>4, <3>1 DEF Joined
    <3>3. \E k \in 1 .. Len(Cat(p, Cat(one, b))) : Cat(p, b) = RemoveAt(Cat(p, Cat(one, b)), k)
      BY <2>11
    <3> QED
      BY <3>2, <3>3
  <2>15. one = <<x>> /\ none = << >>
    BY <2>1, <2>2
  <2> QED
    BY <2>6, <2>7, <2>10, <2>12, <2>13, <2>15
<1>3. ASSUME p # << >>, NEW d \in Seq(S)
      PROVE  /\ Joined(p, h, q, d) # << >>
             /\ Head(Joined(p, h, q, d)) = Head(p)
             /\ Tail(Joined(p, h, q, d)) = Joined(Tail(p), h, q, d)
  <2>1. PICK b \in Seq(S) : b = Cat(Cat(h, q), d)
    BY CatFacts
  <2>2. Joined(p, h, q, d) = Cat(p, b) /\ Joined(Tail(p), h, q, d) = Cat(Tail(p), b)
    BY <2>1 DEF Joined
  <2>3. Cat(p, b) # << >> /\ Head(Cat(p, b)) = Head(p) /\ Tail(Cat(p, b)) = Cat(Tail(p), b)
    BY <1>3, HeadTailConcat DEF Cat
  <2> QED
    BY <2>2, <2>3
<1>4. Seq(S) # {}
  BY EmptySeq
<1> QED
  BY <1>1, <1>2, <1>3, <1>4 DEF Moves

LEMMA SerializedFacts ==
    /\ Serialized(<< >>) = << >>
    /\ \A e \in ForParent : Serialized(<<e>>) = <<serialize_event(e)>>
    /\ \A es \in Seq(ForParent) : /\ Serialized(es) \in Seq(Packets)
                                  /\ Len(Serialized(es)) = Len(es)
                                  /\ \A k \in 1 .. Len(es) :
                                        Serialized(es)[k] = serialize_event(es[k])
<1>1. Serialized(<< >>) = << >>
  BY DEF Serialized
<1>2. ASSUME NEW e \in ForParent PROVE Serialized(<<e>>) = <<serialize_event(e)>>
  BY DEF Serialized
<1>3. ASSUME NEW es \in Seq(ForParent)
      PROVE  /\ Serialized(es) \in Seq(Packets) /\ Len(Serialized(es)) = Len(es)
             /\ \A k \in 1 .. Len(es) : Serialized(es)[k] = serialize_event(es[k])
  <2>1. Len(es) \in Nat /\ DOMAIN es = 1 .. Len(es)
        /\ \A k \in 1 .. Len(es) : es[k] \in ForParent
    BY LenProperties, ElementOfSeq
  <2>2. Serialized(es) \in [1 .. Len(es) -> Packets]
    BY <2>1 DEF Serialized, Packets
  <2> QED
    BY <2>1, <2>2, IsASeq, LenProperties DEF Serialized
<1> QED
  BY <1>1, <1>2, <1>3

LEMMA SerializedConcat ==
    ASSUME NEW a \in Seq(ForParent), NEW b \in Seq(ForParent)
    PROVE  Serialized(a \o b) = Serialized(a) \o Serialized(b)
<1>1. PICK n \in Nat : n = Len(a)
  BY LenProperties
<1>2. PICK m \in Nat : m = Len(b)
  BY LenProperties
<1>3. PICK c \in Seq(ForParent) : c = a \o b
  BY ConcatProperties
<1>4. Len(c) = n + m /\ \A k \in 1 .. n + m : c[k] = IF k <= n THEN a[k] ELSE b[k - n]
  BY <1>1, <1>2, <1>3, ConcatProperties
<1> DEFINE x == Serialized(c)
           y == Serialized(a)
           z == Serialized(b)
<1>5. /\ x \in Seq(Packets) /\ Len(x) = n + m
      /\ \A k \in 1 .. n + m : x[k] = serialize_event(c[k])
  BY <1>4, SerializedFacts
<1>6. y \in Seq(Packets) /\ Len(y) = n /\ \A k \in 1 .. n : y[k] = serialize_event(a[k])
  BY <1>1, SerializedFacts
<1>7. z \in Seq(Packets) /\ Len(z) = m /\ \A k \in 1 .. m : z[k] = serialize_event(b[k])
  BY <1>2, SerializedFacts
<1> HIDE DEF x, y, z
<1>8. /\ y \o z \in Seq(Packets) /\ Len(y \o z) = n + m
      /\ \A k \in 1 .. n + m : (y \o z)[k] = IF k <= n THEN y[k] ELSE z[k - n]
  BY <1>6, <1>7, ConcatProperties
<1>9. ASSUME NEW k \in 1 .. n + m PROVE x[k] = (y \o z)[k]
  <2>1. CASE k <= n
    BY <1>4, <1>5, <1>6, <1>8, <2>1
  <2>2. CASE ~(k <= n)
    <3>1. k - n \in 1 .. m
      BY <2>2
    <3> QED
      BY <1>4, <1>5, <1>7, <1>8, <2>2, <3>1
  <2> QED
    BY <2>1, <2>2
<1>10. x = y \o z
  BY <1>5, <1>8, <1>9, SameElements
<1> QED
  BY <1>3, <1>10 DEF x, y, z

Channel == Connector \cap Twins

InHand(t) == IF spc = "send" /\ tx.twin_id = t THEN <<tx>> ELSE << >>

Mine(q, t) == {k \in DOMAIN q : q[k].twin_id = t}

Queued(t) == ElementsAt(queue_out_notify, Mine(queue_out_notify, t))

Pending(t) ==
    IF ppc = "push" /\ Head(out).to = "notify" /\ Head(out).e.twin_id = t
    THEN <<Head(out).e>> ELSE << >>

\* What the dispatcher has for a parent node is the part of its event.
LEMMA PendingFacts ==
    ASSUME EngineInv, NEW t
    PROVE  /\ Pending(t) \in Seq(ForParent)
           /\ ppc # "push" => Pending(t) = << >>
           /\ ppc = "push" /\ Head(out) = ForUserService => Pending(t) = << >>
           /\ ppc = "push" /\ Head(out) = ForNotify =>
                 Pending(t) = IF event.twin_id = t THEN <<ForNotify.e>> ELSE << >>
<1>1. /\ ForNotify.to = "notify" /\ ForUserService.to = "user"
      /\ ForNotify.e.twin_id = event.twin_id
  BY DEF ForNotify, ForUserService, Batch, UpdateEvent
<1>2. CASE ppc # "push"
  BY <1>2, EmptySeq DEF Pending
<1>3. CASE ppc = "push"
  <2>1. event \in UpdateEvents
    BY <1>3 DEF EngineInv, ProcessorInv
  <2>2. \/ Head(out) = ForNotify /\ Asks(event, "NOTIFY_UPWARDS")
        \/ Head(out) = ForUserService
    BY <1>3 DEF EngineInv, DispatcherInv
  <2>3. CASE Head(out) = ForNotify /\ Asks(event, "NOTIFY_UPWARDS")
    <3>1. ForNotify.e \in ForParent
      BY <2>1, <2>3, AskedIsConnected DEF EngineInv, ForNotify
    <3>2. Pending(t) = IF event.twin_id = t THEN <<ForNotify.e>> ELSE << >>
      BY <1>1, <1>3, <2>3 DEF Pending
    <3>3. Pending(t) \in Seq(ForParent)
      BY <3>1, <3>2, EmptySeq
    <3>4. ForNotify # ForUserService
      BY <1>1
    <3> QED
      BY <1>3, <2>3, <3>2, <3>3, <3>4
  <2>4. CASE Head(out) = ForUserService
    <3>1. Pending(t) = << >> /\ ForNotify # ForUserService
      BY <1>1, <2>4 DEF Pending
    <3> QED
      BY <1>3, <2>4, <3>1, EmptySeq
  <2> QED
    BY <2>2, <2>3, <2>4
<1> QED
  BY <1>2, <1>3

LEMMA MineFacts ==
    ASSUME NEW q \in Seq(ForParent), NEW t
    PROVE  /\ Mine(q, t) \in SUBSET (1 .. Len(q))
           /\ ElementsAt(q, Mine(q, t)) \in Seq(ForParent)
<1>1. Mine(q, t) \in SUBSET (1 .. Len(q))
  BY LenProperties DEF Mine
<1> QED
  BY <1>1, ElementsAtTypes

LineIsJoined ==
    \A t \in Connector :
        /\ pipe[t] \in Seq(Packets) /\ InHand(t) \in Seq(ForParent)
        /\ Queued(t) \in Seq(ForParent) /\ Pending(t) \in Seq(ForParent)
        /\ Serialized(InHand(t)) \in Seq(Packets)
        /\ Serialized(Queued(t)) \in Seq(Packets)
        /\ Serialized(Pending(t)) \in Seq(Packets)
        /\ OnItsWay(t) = Joined(pipe[t], Serialized(InHand(t)), Serialized(Queued(t)),
                                Serialized(Pending(t)))
        /\ OnItsWay(t) \in Seq(Packets)

LEMMA LineFacts == EngineInv => LineIsJoined
<1> SUFFICES ASSUME EngineInv, NEW t \in Connector
             PROVE  /\ pipe[t] \in Seq(Packets) /\ InHand(t) \in Seq(ForParent)
                    /\ Queued(t) \in Seq(ForParent) /\ Pending(t) \in Seq(ForParent)
                    /\ Serialized(InHand(t)) \in Seq(Packets)
                    /\ Serialized(Queued(t)) \in Seq(Packets)
                    /\ Serialized(Pending(t)) \in Seq(Packets)
                    /\ OnItsWay(t) = Joined(pipe[t], Serialized(InHand(t)),
                                            Serialized(Queued(t)), Serialized(Pending(t)))
                    /\ OnItsWay(t) \in Seq(Packets)
  BY DEF LineIsJoined
<1>1. OutputInv
  BY DEF EngineInv
<1>2. pipe[t] \in Seq(Packets)
  BY <1>1 DEF OutputInv
<1>3. InHand(t) \in Seq(ForParent)
  BY <1>1, EmptySeq DEF OutputInv, InHand
<1>4. Queued(t) \in Seq(ForParent)
  BY <1>1, MineFacts DEF OutputInv, Queued
<1>5. Pending(t) \in Seq(ForParent)
  BY PendingFacts
<1>6. /\ Serialized(InHand(t)) \in Seq(Packets) /\ Serialized(Queued(t)) \in Seq(Packets)
      /\ Serialized(Pending(t)) \in Seq(Packets)
  BY <1>3, <1>4, <1>5, SerializedFacts
<1>7. PICK w \in Seq(ForParent) : w = InHand(t) \o Queued(t)
  BY <1>3, <1>4, ConcatProperties
<1>8. OnItsWay(t) = pipe[t] \o Serialized(w \o Pending(t))
  BY <1>7 DEF OnItsWay, Waiting, InHand, Queued, Mine, Pending
<1>9. Serialized(w \o Pending(t)) = Serialized(w) \o Serialized(Pending(t))
  BY <1>5, SerializedConcat
<1>10. Serialized(w) = Serialized(InHand(t)) \o Serialized(Queued(t))
  BY <1>3, <1>4, <1>7, SerializedConcat
<1>11. OnItsWay(t) = Joined(pipe[t], Serialized(InHand(t)), Serialized(Queued(t)),
                            Serialized(Pending(t)))
  BY <1>8, <1>9, <1>10 DEF Joined, Cat
<1>12. OnItsWay(t) \in Seq(Packets)
  BY <1>2, <1>6, <1>11, JoinedTypes
<1> QED
  BY <1>2, <1>3, <1>4, <1>5, <1>6, <1>11, <1>12

\* What may happen to one channel in a step.
Counts(t, lost) ==
    delivered'[t] = delivered[t] /\ refused'[t] = refused[t] + lost

Keeps(t) == OnItsWay(t)' = OnItsWay(t) /\ Counts(t, 0)

Sends(t, m) == OnItsWay(t)' = Append(OnItsWay(t), m) /\ Counts(t, 0)

Loses(t) ==
    /\ \E k \in 1 .. Len(OnItsWay(t)) : OnItsWay(t)' = RemoveAt(OnItsWay(t), k)
    /\ Counts(t, 1)

Delivers(t) ==
    /\ OnItsWay(t) # << >>
    /\ OnItsWay(t)' = Tail(OnItsWay(t))
    /\ delivered'[t] = Append(delivered[t], Head(OnItsWay(t)))
    /\ refused'[t] = refused[t]

Others(c) == \A t \in Channel \ {c} : Keeps(t)

\* A step that moves nothing between the pieces of a channel.
LEMMA KeepsPieces ==
    ASSUME EngineInv, EngineInv', NEW t \in Channel,
           pipe'[t] = pipe[t], InHand(t)' = InHand(t), Queued(t)' = Queued(t),
           Pending(t)' = Pending(t), delivered'[t] = delivered[t], refused'[t] = refused[t]
    PROVE  Keeps(t)
<1>1. t \in Connector /\ t \in Twins
  BY DEF Channel
<1>2. OnItsWay(t)' = OnItsWay(t)
  BY DEF OnItsWay, Waiting, InHand, Queued, Mine, Pending
<1>3. refused[t] \in Nat
  BY <1>1 DEF EngineInv, OutputInv
<1>4. refused[t] + 0 = refused[t]
  BY <1>3
<1> QED
  BY <1>2, <1>4 DEF Keeps, Counts

\* The dispatcher hands on what the rules selected.
LEMMA ApplyRulesChannel ==
    ASSUME EngineInv, EngineInv', [Next]_vars, ApplyRules
    PROVE  \A t \in Channel :
              IF Asks(event, "NOTIFY_UPWARDS") /\ event.twin_id = t
              THEN Sends(t, serialize_event(ForNotify.e)) ELSE Keeps(t)
<1> SUFFICES ASSUME NEW t \in Channel
             PROVE  IF Asks(event, "NOTIFY_UPWARDS") /\ event.twin_id = t
                    THEN Sends(t, serialize_event(ForNotify.e)) ELSE Keeps(t)
  OBVIOUS
<1>1. t \in Connector /\ t \in Twins
  BY DEF Channel
<1>2. UNCHANGED <<event, spc, tx, queue_out_notify, pipe, delivered, refused>>
  BY DEF ApplyRules, outputs, sender, network, history
<1>3. UNCHANGED update_rules
  BY RulesSettled DEF EngineInv, ApplyRules
<1>4. ForNotify' = ForNotify /\ ForUserService' = ForUserService
  BY <1>2, <1>3, BatchFrame
<1>5. InHand(t)' = InHand(t) /\ Queued(t)' = Queued(t)
  BY <1>2 DEF InHand, Queued, Mine
<1>6. Pending(t) = << >>
  BY PendingFacts DEF ApplyRules
<1>7. ppc' = "push" <=> out' # << >>
  BY AgainValues DEF ApplyRules
<1>8. /\ ForNotify.to = "notify" /\ ForUserService.to = "user"
      /\ ForNotify.e.twin_id = event.twin_id
  BY DEF ForNotify, ForUserService, Batch, UpdateEvent
<1>9. Pending(t)' = IF Asks(event, "NOTIFY_UPWARDS") /\ event.twin_id = t
                    THEN <<ForNotify.e>> ELSE << >>
  <2>1. CASE Asks(event, "NOTIFY_UPWARDS")
    <3>1. out' # << >> /\ Head(out') = ForNotify
      <4>1. out' = <<ForNotify>> \/ out' = <<ForNotify, ForUserService>>
        BY <2>1, ApplyRulesOut
      <4> QED
        BY <4>1
    <3> QED
      BY <1>7, <1>8, <2>1, <3>1 DEF Pending
  <2>2. CASE ~Asks(event, "NOTIFY_UPWARDS")
    <3>1. out' = << >> \/ (out' # << >> /\ Head(out') = ForUserService)
      <4>1. out' = << >> \/ out' = <<ForUserService>>
        BY <2>2, ApplyRulesOut
      <4> QED
        BY <4>1
    <3> QED
      BY <1>7, <1>8, <2>2, <3>1 DEF Pending
  <2> QED
    BY <2>1, <2>2
<1>10. CASE Asks(event, "NOTIFY_UPWARDS") /\ event.twin_id = t
  <2>1. event \in UpdateEvents
    BY ApplyRulesOut
  <2>2. ForNotify.e \in ForParent
    BY <1>10, <2>1, AskedIsConnected DEF EngineInv, ForNotify
  <2>3. PICK m \in Packets : m = serialize_event(ForNotify.e)
    BY <2>2 DEF Packets
  <2>4. LineIsJoined /\ LineIsJoined'
    BY LineFacts, PTL
  <2>5. OnItsWay(t) = Joined(pipe[t], Serialized(InHand(t)), Serialized(Queued(t)), << >>)
    BY <1>1, <1>6, <2>4, SerializedFacts DEF LineIsJoined
  <2>6. Pending(t)' = <<ForNotify.e>>
    BY <1>9, <1>10
  <2>7. OnItsWay(t)' = Joined(pipe[t], Serialized(InHand(t)), Serialized(Queued(t)), <<m>>)
    <3>1. OnItsWay(t)' = Joined(pipe'[t], Serialized(InHand(t)'), Serialized(Queued(t)'),
                                Serialized(Pending(t)'))
      BY <1>1, <2>4 DEF LineIsJoined
    <3>2. Serialized(Pending(t)') = <<m>>
      BY <2>2, <2>3, <2>6, SerializedFacts
    <3> QED
      BY <1>2, <1>5, <3>1, <3>2
  <2>8. /\ pipe[t] \in Seq(Packets) /\ Serialized(InHand(t)) \in Seq(Packets)
        /\ Serialized(Queued(t)) \in Seq(Packets)
    BY <1>1, <2>4 DEF LineIsJoined
  <2>9. OnItsWay(t)' = Append(OnItsWay(t), m)
    <3>1. PICK p \in Seq(Packets), h \in Seq(Packets), q \in Seq(Packets) :
             p = pipe[t] /\ h = Serialized(InHand(t)) /\ q = Serialized(Queued(t))
      BY <2>8
    <3>2. Moves(Packets, p, h, q)
      BY JoinedMoves
    <3>3. Joined(p, h, q, <<m>>) = Append(Joined(p, h, q, << >>), m)
      BY <3>2 DEF Moves
    <3> QED
      BY <2>5, <2>7, <3>1, <3>3
  <2>10. refused[t] \in Nat
    BY <1>1 DEF EngineInv, OutputInv
  <2>11. Counts(t, 0)
    BY <1>2, <2>10 DEF Counts
  <2> QED
    BY <1>10, <2>3, <2>9, <2>11 DEF Sends
<1>11. CASE ~(Asks(event, "NOTIFY_UPWARDS") /\ event.twin_id = t)
  <2>1. Pending(t)' = Pending(t)
    BY <1>6, <1>9, <1>11
  <2> QED
    BY <1>2, <1>5, <1>11, <2>1, KeepsPieces
<1> QED
  BY <1>10, <1>11

LEMMA NoticesAppend ==
    \A q \in Seq(ForParent) : \A e \in ForParent : \A I \in SUBSET (1 .. Len(q)) :
        /\ ElementsAt(Append(q, e), I) = ElementsAt(q, I)
        /\ ElementsAt(Append(q, e), I \cup {Len(q) + 1}) = Append(ElementsAt(q, I), e)
  BY ElementsAtAppend

LEMMA MineAppend ==
    ASSUME NEW q \in Seq(ForParent), NEW e \in ForParent, NEW t
    PROVE  ElementsAt(Append(q, e), Mine(Append(q, e), t)) =
              IF e.twin_id = t THEN Append(ElementsAt(q, Mine(q, t)), e)
              ELSE ElementsAt(q, Mine(q, t))
<1>1. PICK n \in Nat : n = Len(q)
  BY LenProperties
<1>2. PICK a \in Seq(ForParent) : a = Append(q, e)
  BY AppendProperties
<1>3. /\ DOMAIN q = 1 .. n /\ DOMAIN a = 1 .. n + 1
      /\ a[n + 1] = e /\ \A k \in 1 .. n : a[k] = q[k]
  BY <1>1, <1>2, AppendProperties, LenProperties
<1>4. \A k : k \in 1 .. n + 1 <=> k \in 1 .. n \/ k = n + 1
  OBVIOUS
<1>5. PICK I \in SUBSET (1 .. Len(q)) : I = Mine(q, t)
  BY MineFacts
<1>6. \A k : k \in I <=> k \in 1 .. n /\ q[k].twin_id = t
  BY <1>3, <1>5 DEF Mine
<1>7. \A k : k \in Mine(a, t) <=> k \in 1 .. n + 1 /\ a[k].twin_id = t
  BY <1>3 DEF Mine
<1>8. CASE e.twin_id = t
  <2>1. \A k : k \in Mine(a, t) <=> k \in I \/ k = n + 1
    BY <1>3, <1>4, <1>6, <1>7, <1>8
  <2>2. Mine(a, t) = I \cup {Len(q) + 1}
    BY <1>1, <2>1
  <2>3. ElementsAt(Append(q, e), I \cup {Len(q) + 1}) = Append(ElementsAt(q, I), e)
    BY NoticesAppend
  <2> QED
    BY <1>2, <1>5, <1>8, <2>2, <2>3
<1>9. CASE e.twin_id # t
  <2>1. \A k : k \in Mine(a, t) <=> k \in I
    BY <1>3, <1>4, <1>6, <1>7, <1>9
  <2>2. Mine(a, t) = I
    BY <2>1
  <2>3. ElementsAt(Append(q, e), I) = ElementsAt(q, I)
    BY NoticesAppend
  <2> QED
    BY <1>2, <1>5, <1>9, <2>2, <2>3
<1> QED
  BY <1>8, <1>9

LEMMA MineTail ==
    ASSUME NEW q \in Seq(ForParent), q # << >>, NEW t
    PROVE  ElementsAt(q, Mine(q, t)) =
              Cat(IF Head(q).twin_id = t THEN <<Head(q)>> ELSE << >>,
                  ElementsAt(Tail(q), Mine(Tail(q), t)))
<1>1. PICK r \in Seq(ForParent) : r = Tail(q)
  BY HeadTailProperties
<1>2. PICK m \in Nat : m = Len(r)
  BY LenProperties
<1>3. /\ Len(q) = m + 1 /\ Head(q) = q[1] /\ \A k \in 1 .. m : r[k] = q[k + 1]
  <2>1. Len(q) \in Nat /\ Len(q) # 0
    BY LenProperties, EmptySeq
  <2> QED
    BY <1>1, <1>2, <2>1, HeadTailProperties
<1>4. PICK I \in SUBSET (1 .. Len(q)) : I = Mine(q, t)
  BY MineFacts
<1>5. PICK J \in SUBSET (1 .. Len(r)) : J = Mine(r, t)
  BY MineFacts
<1>6. \A k : k \in I <=> k \in 1 .. m + 1 /\ q[k].twin_id = t
  BY <1>3, <1>4, LenProperties DEF Mine
<1>7. \A k : k \in J <=> k \in 1 .. m /\ r[k].twin_id = t
  BY <1>2, <1>5, LenProperties DEF Mine
<1>8. Shifted(J, I, Len(Tail(q)))
  <2>1. \A k \in 1 .. m : k + 1 \in 1 .. m + 1
    OBVIOUS
  <2>2. \A k \in 1 .. m : k \in J <=> k + 1 \in I
    BY <1>3, <1>6, <1>7, <2>1, SMTT(30)
  <2> QED
    BY <1>1, <1>2, <2>2 DEF Shifted
<1>9. 1 \in I <=> Head(q).twin_id = t
  BY <1>3, <1>6
<1>10. ElementsAt(q, I) = (IF 1 \in I THEN <<Head(q)>> ELSE << >>) \o ElementsAt(Tail(q), J)
  <2>1. J \in SUBSET (1 .. Len(Tail(q)))
    BY <1>1
  <2> QED
    BY <1>8, <2>1, ElementsAtTail
<1> QED
  BY <1>1, <1>4, <1>5, <1>9, <1>10 DEF Cat

LEMMA SerializedCat ==
    /\ \A a, b \in Seq(ForParent) : Serialized(Cat(a, b)) = Cat(Serialized(a), Serialized(b))
    /\ \A a \in Seq(ForParent) : \A e \in ForParent :
          Serialized(Append(a, e)) = Append(Serialized(a), serialize_event(e))
<1>1. ASSUME NEW a \in Seq(ForParent), NEW b \in Seq(ForParent)
      PROVE  Serialized(Cat(a, b)) = Cat(Serialized(a), Serialized(b))
  BY SerializedConcat DEF Cat
<1>2. ASSUME NEW a \in Seq(ForParent), NEW e \in ForParent
      PROVE  Serialized(Append(a, e)) = Append(Serialized(a), serialize_event(e))
  <2>1. PICK b \in Seq(ForParent) : b = <<e>>
    <3>1. <<e>> \in Seq(ForParent)
      OBVIOUS
    <3> QED
      BY <3>1
  <2>2. PICK m \in Packets : m = serialize_event(e)
    BY DEF Packets
  <2>3. Serialized(b) = <<m>>
    BY <2>1, <2>2, SerializedFacts
  <2>4. Append(a, e) = Cat(a, b)
    BY <2>1, CatFacts
  <2>5. PICK z \in Seq(Packets) : z = Serialized(a)
    BY SerializedFacts
  <2>6. Append(z, m) = Cat(z, <<m>>)
    BY AppendIsConcat DEF Cat
  <2> QED
    BY <1>1, <2>2, <2>3, <2>4, <2>5, <2>6
<1> QED
  BY <1>1, <1>2

\* A channel, piece by piece.
LEMMA LinePieces ==
    ASSUME LineIsJoined, NEW t \in Channel
    PROVE  \E p, h, q, d \in Seq(Packets) :
              /\ p = pipe[t] /\ h = Serialized(InHand(t)) /\ q = Serialized(Queued(t))
              /\ d = Serialized(Pending(t)) /\ OnItsWay(t) = Joined(p, h, q, d)
<1>1. t \in Connector
  BY DEF Channel
<1> QED
  BY <1>1 DEF LineIsJoined

\* The dispatcher's push: what a full queue_out_notify refuses is lost.
LEMMA DispatchPushChannel ==
    ASSUME EngineInv, EngineInv', DispatchPush, NEW t \in Channel
    PROVE  IF Head(out) = ForNotify /\ Full(queue_out_notify) /\ event.twin_id = t
           THEN Loses(t) ELSE Keeps(t)
<1>1. t \in Connector /\ t \in Twins /\ refused[t] \in Nat
  BY DEF Channel, EngineInv, OutputInv
<1>2. UNCHANGED <<event, spc, tx, pipe, delivered>>
  BY DEF DispatchPush, sender, network
<1>3. InHand(t)' = InHand(t)
  BY <1>2 DEF InHand
<1>4. ForUserService.to = "user" /\ ForNotify.to = "notify"
  BY DEF ForUserService, ForNotify
<1>5. Pending(t)' = << >>
  <2>1. ppc' = "push" => out' # << >>
    BY AgainValues DEF DispatchPush
  <2>2. out' # << >> => out' = <<ForUserService>>
    BY DispatchPushOut
  <2>3. ppc' = "push" => Head(out') = ForUserService
    BY <2>1, <2>2
  <2> QED
    BY <1>4, <2>3 DEF Pending
<1>6. CASE Head(out) = ForUserService /\ UNCHANGED <<queue_out_notify, refused>>
  <2>1. Pending(t) = << >>
    BY <1>6, PendingFacts DEF DispatchPush
  <2>2. Queued(t)' = Queued(t)
    BY <1>6 DEF Queued
  <2>3. Keeps(t)
    BY <1>2, <1>3, <1>5, <1>6, <2>1, <2>2, KeepsPieces
  <2> QED
    BY <1>4, <1>6, <2>3
<1>7. CASE /\ Head(out) = ForNotify /\ Asks(event, "NOTIFY_UPWARDS")
           /\ queue_out_notify' = push_event(queue_out_notify, ForNotify.e)
           /\ refused' = IF Full(queue_out_notify)
                         THEN [refused EXCEPT ![event.twin_id] = @ + 1] ELSE refused
  <2>1. event \in UpdateEvents /\ ppc = "push"
    BY DispatchPushOut
  <2>2. ForNotify.e \in ForParent /\ ForNotify.e.twin_id = event.twin_id
    BY <1>7, <2>1, AskedIsConnected DEF EngineInv, ForNotify, Batch, UpdateEvent
  <2>3. PICK e \in ForParent : e = ForNotify.e /\ e.twin_id = event.twin_id
    BY <2>2
  <2>4. queue_out_notify \in Seq(ForParent) /\ refused \in [Twins -> Nat]
        /\ event.twin_id \in Twins
    BY <1>7, <2>1, AskedIsConnected DEF EngineInv, OutputInv
  <2>5. Pending(t) = IF event.twin_id = t THEN <<e>> ELSE << >>
    BY <1>7, <2>1, <2>3, PendingFacts
  <2>6. ~Full(queue_out_notify) =>
           Queued(t)' = IF e.twin_id = t THEN Append(Queued(t), e) ELSE Queued(t)
    <3>1. ~Full(queue_out_notify) => queue_out_notify' = Append(queue_out_notify, e)
      BY <1>7, <2>3 DEF push_event
    <3>2. ElementsAt(Append(queue_out_notify, e), Mine(Append(queue_out_notify, e), t)) =
             IF e.twin_id = t THEN Append(ElementsAt(queue_out_notify, Mine(queue_out_notify, t)), e)
             ELSE ElementsAt(queue_out_notify, Mine(queue_out_notify, t))
      BY <2>4, MineAppend
    <3> QED
      BY <3>1, <3>2 DEF Queued
  <2>7. Full(queue_out_notify) => Queued(t)' = Queued(t)
    BY <1>7 DEF push_event, Queued
  <2>8. CASE event.twin_id # t
    <3>1. Queued(t)' = Queued(t) /\ Pending(t) = << >>
      BY <2>3, <2>5, <2>6, <2>7, <2>8
    <3>2. refused'[t] = refused[t]
      BY <1>1, <1>7, <2>4, <2>8
    <3>3. Keeps(t)
      BY <1>2, <1>3, <1>5, <3>1, <3>2, KeepsPieces
    <3> QED
      BY <2>8, <3>3
  <2>9. LineIsJoined /\ LineIsJoined'
    BY LineFacts, PTL
  <2>10. PICK p, h, q, d \in Seq(Packets) :
            /\ p = pipe[t] /\ h = Serialized(InHand(t)) /\ q = Serialized(Queued(t))
            /\ d = Serialized(Pending(t)) /\ OnItsWay(t) = Joined(p, h, q, d)
    BY <2>9, LinePieces
  <2>11. PICK m \in Packets : m = serialize_event(e)
    BY DEF Packets
  <2>12. OnItsWay(t)' = Joined(pipe'[t], Serialized(InHand(t)'), Serialized(Queued(t)'),
                               Serialized(Pending(t)'))
    BY <1>1, <2>9 DEF LineIsJoined
  <2>13. Moves(Packets, p, h, q)
    BY JoinedMoves
  <2>14. OnItsWay(t)' = Joined(p, h, Serialized(Queued(t)'), << >>)
    BY <1>2, <1>3, <1>5, <2>10, <2>12, SerializedFacts
  <2>15. event.twin_id = t => OnItsWay(t) = Joined(p, h, q, <<m>>)
    BY <2>5, <2>10, <2>11, SerializedFacts
  <2>16. CASE event.twin_id = t /\ Full(queue_out_notify)
    <3>1. OnItsWay(t)' = Joined(p, h, q, << >>)
      BY <2>7, <2>10, <2>14, <2>16
    <3>2. \E k \in 1 .. Len(OnItsWay(t)) : OnItsWay(t)' = RemoveAt(OnItsWay(t), k)
      <4>1. \E k \in 1 .. Len(Joined(p, h, q, <<m>>)) :
               Joined(p, h, q, << >>) = RemoveAt(Joined(p, h, q, <<m>>), k)
        BY <2>13 DEF Moves
      <4> QED
        BY <2>15, <2>16, <3>1, <4>1
    <3>3. Counts(t, 1)
      BY <1>1, <1>2, <1>7, <2>4, <2>16 DEF Counts
    <3>4. Loses(t)
      BY <3>2, <3>3 DEF Loses
    <3> QED
      BY <1>7, <2>16, <3>4
  <2>17. CASE event.twin_id = t /\ ~Full(queue_out_notify)
    <3>1. Serialized(Queued(t)') = Append(q, m)
      <4>1. Queued(t) \in Seq(ForParent)
        BY <1>1, <2>9 DEF LineIsJoined
      <4>2. Queued(t)' = Append(Queued(t), e)
        BY <2>3, <2>6, <2>17
      <4>3. Serialized(Append(Queued(t), e)) = Append(Serialized(Queued(t)), serialize_event(e))
        BY <4>1, SerializedCat
      <4> QED
        BY <2>10, <2>11, <4>2, <4>3
    <3>2. Joined(p, h, Append(q, m), << >>) = Joined(p, h, q, <<m>>)
      BY <2>13 DEF Moves
    <3>3. OnItsWay(t)' = OnItsWay(t)
      BY <2>14, <2>15, <2>17, <3>1, <3>2
    <3>4. Counts(t, 0)
      BY <1>1, <1>2, <1>7, <2>17 DEF Counts
    <3>5. Keeps(t)
      BY <3>3, <3>4 DEF Keeps
    <3> QED
      BY <2>17, <3>5
  <2> QED
    BY <2>8, <2>16, <2>17
<1> QED
  BY <1>6, <1>7, DispatchPushOut

\* The sender's pop moves the oldest event from the queue into its hands.
LEMMA SendPopChannel ==
    ASSUME EngineInv, EngineInv', SendPop, NEW t \in Channel
    PROVE  Keeps(t)
<1>1. t \in Connector /\ t \in Twins /\ refused[t] \in Nat
      /\ queue_out_notify \in Seq(ForParent) /\ queue_out_notify # << >>
  BY DEF Channel, EngineInv, OutputInv, SendPop
<1>2. UNCHANGED <<ppc, out, pipe, delivered, refused>>
  BY DEF SendPop, processor, network, history
<1>3. Pending(t)' = Pending(t)
  BY <1>2 DEF Pending
<1>4. LineIsJoined /\ LineIsJoined'
  BY LineFacts, PTL
<1>5. InHand(t) = << >>
  BY DEF InHand, SendPop
<1>6. InHand(t)' = IF Head(queue_out_notify).twin_id = t
                   THEN <<Head(queue_out_notify)>> ELSE << >>
  BY DEF InHand, SendPop
<1>7. Queued(t) = Cat(InHand(t)', Queued(t)')
  <2>1. ElementsAt(queue_out_notify, Mine(queue_out_notify, t)) =
           Cat(IF Head(queue_out_notify).twin_id = t
               THEN <<Head(queue_out_notify)>> ELSE << >>,
               ElementsAt(Tail(queue_out_notify), Mine(Tail(queue_out_notify), t)))
    BY <1>1, MineTail
  <2>2. queue_out_notify' = Tail(queue_out_notify)
    BY DEF SendPop
  <2>3. Queued(t)' = ElementsAt(Tail(queue_out_notify), Mine(Tail(queue_out_notify), t))
    BY <2>2 DEF Queued
  <2>4. Queued(t) = ElementsAt(queue_out_notify, Mine(queue_out_notify, t))
    BY DEF Queued
  <2> QED
    BY <1>6, <2>1, <2>3, <2>4
<1>8. PICK a \in Seq(ForParent), b \in Seq(ForParent) : a = InHand(t)' /\ b = Queued(t)'
  BY <1>1, <1>4 DEF LineIsJoined
<1>9. PICK h \in Seq(Packets), q \in Seq(Packets) : h = Serialized(a) /\ q = Serialized(b)
  BY SerializedFacts
<1>10. Serialized(Queued(t)) = Cat(h, q)
  BY <1>7, <1>8, <1>9, SerializedCat
<1>11. PICK p \in Seq(Packets), d \in Seq(Packets) : p = pipe[t] /\ d = Serialized(Pending(t))
  BY <1>1, <1>4 DEF LineIsJoined
<1>12. OnItsWay(t) = Joined(p, << >>, Cat(h, q), d)
  BY <1>1, <1>4, <1>5, <1>10, <1>11, SerializedFacts DEF LineIsJoined
<1>13. OnItsWay(t)' = Joined(p, h, q, d)
  <2>1. OnItsWay(t)' = Joined(pipe'[t], Serialized(InHand(t)'), Serialized(Queued(t)'),
                              Serialized(Pending(t)'))
    BY <1>1, <1>4 DEF LineIsJoined
  <2> QED
    BY <1>2, <1>3, <1>8, <1>9, <1>11, <2>1
<1>14. Joined(p, << >>, Cat(h, q), d) = Joined(p, h, q, d)
  <2>1. Moves(Packets, p, h, q)
    BY JoinedMoves
  <2> QED
    BY <2>1 DEF Moves
<1>15. Counts(t, 0)
  BY <1>1, <1>2 DEF Counts
<1> QED
  BY <1>12, <1>13, <1>14, <1>15 DEF Keeps

\* The sender's zmq_send: the message goes into the pipe, or is given up when
\* the context is terminated.
LEMMA SendChannel ==
    ASSUME EngineInv, EngineInv', SendEvent \/ SendTerminated, NEW t \in Channel
    PROVE  IF SendTerminated /\ ~SendEvent /\ tx.twin_id = t THEN Loses(t) ELSE Keeps(t)
<1>1. t \in Connector /\ t \in Twins /\ refused \in [Twins -> Nat] /\ refused[t] \in Nat
      /\ pipe \in [Connector -> Seq(Packets)]
  BY DEF Channel, EngineInv, OutputInv
<1>2. UNCHANGED <<ppc, out, queue_out_notify, delivered>> /\ spc = "send" /\ spc' # "send"
  BY AgainValues DEF SendEvent, SendTerminated, processor, outputs, network
<1>3. tx \in ForParent
  BY <1>2 DEF EngineInv, OutputInv
<1>4. tx.twin_id \in Connector /\ tx.twin_id \in Twins
  BY <1>3 DEF ForParent, Notices
<1>5. Pending(t)' = Pending(t) /\ Queued(t)' = Queued(t)
  BY <1>2 DEF Pending, Queued
<1>6. InHand(t)' = << >> /\ InHand(t) = IF tx.twin_id = t THEN <<tx>> ELSE << >>
  BY <1>2 DEF InHand
<1>7. SendEvent => /\ pipe' = [pipe EXCEPT ![tx.twin_id] = Append(@, serialize_event(tx))]
                   /\ refused' = refused
  BY DEF SendEvent, zmq_send, history
<1>8. ~SendEvent => /\ pipe' = pipe
                    /\ refused' = [refused EXCEPT ![tx.twin_id] = @ + 1]
  BY DEF SendTerminated, network
<1>9. CASE tx.twin_id # t
  <2>1. pipe'[t] = pipe[t] /\ refused'[t] = refused[t]
    BY <1>1, <1>4, <1>7, <1>8, <1>9
  <2>2. Keeps(t)
    BY <1>2, <1>5, <1>6, <1>9, <2>1, KeepsPieces
  <2> QED
    BY <1>9, <2>2
<1>10. LineIsJoined /\ LineIsJoined'
  BY LineFacts, PTL
<1>11. PICK p, h, q, d \in Seq(Packets) :
          /\ p = pipe[t] /\ h = Serialized(InHand(t)) /\ q = Serialized(Queued(t))
          /\ d = Serialized(Pending(t)) /\ OnItsWay(t) = Joined(p, h, q, d)
  BY <1>10, LinePieces
<1>12. PICK m \in Packets : m = serialize_event(tx)
  BY <1>3 DEF Packets
<1>13. tx.twin_id = t => OnItsWay(t) = Joined(p, <<m>>, q, d)
  BY <1>3, <1>6, <1>11, <1>12, SerializedFacts
<1>14. OnItsWay(t)' = Joined(pipe'[t], << >>, q, d)
  <2>1. OnItsWay(t)' = Joined(pipe'[t], Serialized(InHand(t)'), Serialized(Queued(t)'),
                              Serialized(Pending(t)'))
    BY <1>1, <1>10 DEF LineIsJoined
  <2> QED
    BY <1>5, <1>6, <1>11, <2>1, SerializedFacts
<1>15. Moves(Packets, p, h, q)
  BY JoinedMoves
<1>16. CASE tx.twin_id = t /\ SendEvent
  <2>1. pipe'[t] = Append(p, m)
    BY <1>1, <1>4, <1>7, <1>11, <1>12, <1>16
  <2>2. Joined(Append(p, m), << >>, q, d) = Joined(p, <<m>>, q, d)
    BY <1>15 DEF Moves
  <2>3. OnItsWay(t)' = OnItsWay(t)
    BY <1>13, <1>14, <1>16, <2>1, <2>2
  <2>4. Counts(t, 0)
    BY <1>1, <1>2, <1>7, <1>16 DEF Counts
  <2>5. Keeps(t)
    BY <2>3, <2>4 DEF Keeps
  <2> QED
    BY <1>16, <2>5
<1>17. CASE tx.twin_id = t /\ ~SendEvent
  <2>1. pipe'[t] = p
    BY <1>8, <1>11, <1>17
  <2>2. \E k \in 1 .. Len(Joined(p, <<m>>, q, d)) :
           Joined(p, << >>, q, d) = RemoveAt(Joined(p, <<m>>, q, d), k)
    BY <1>15 DEF Moves
  <2>3. \E k \in 1 .. Len(OnItsWay(t)) : OnItsWay(t)' = RemoveAt(OnItsWay(t), k)
    BY <1>13, <1>14, <1>17, <2>1, <2>2
  <2>4. Counts(t, 1)
    BY <1>1, <1>2, <1>4, <1>8, <1>17 DEF Counts
  <2>5. Loses(t)
    BY <2>3, <2>4 DEF Loses
  <2> QED
    BY <1>17, <2>5
<1> QED
  BY <1>9, <1>16, <1>17

LEMMA PeerRecvChannel ==
    ASSUME EngineInv, EngineInv', NEW c \in Connector, PeerRecv(c), NEW t \in Channel
    PROVE  IF c = t THEN Delivers(t) ELSE Keeps(t)
<1>1. t \in Connector /\ t \in Twins /\ refused[t] \in Nat
      /\ pipe \in [Connector -> Seq(Packets)] /\ delivered \in [Connector -> Seq(Packets)]
  BY DEF Channel, EngineInv, OutputInv
<1>2. UNCHANGED <<ppc, out, queue_out_notify, spc, tx, refused>>
  BY DEF PeerRecv, processor, outputs, sender, history
<1>3. Pending(t)' = Pending(t) /\ Queued(t)' = Queued(t) /\ InHand(t)' = InHand(t)
  BY <1>2 DEF Pending, Queued, InHand
<1>4. /\ delivered' = [delivered EXCEPT ![c] = Append(@, Head(pipe[c]))]
      /\ pipe' = [pipe EXCEPT ![c] = Tail(@)] /\ pipe[c] # << >>
  BY DEF PeerRecv
<1>5. CASE c # t
  <2>1. pipe'[t] = pipe[t] /\ delivered'[t] = delivered[t]
    BY <1>1, <1>4, <1>5
  <2>2. Keeps(t)
    BY <1>2, <1>3, <2>1, KeepsPieces
  <2> QED
    BY <1>5, <2>2
<1>6. CASE c = t
  <2>1. LineIsJoined /\ LineIsJoined'
    BY LineFacts, PTL
  <2>2. PICK p, h, q, d \in Seq(Packets) :
            /\ p = pipe[t] /\ h = Serialized(InHand(t)) /\ q = Serialized(Queued(t))
            /\ d = Serialized(Pending(t)) /\ OnItsWay(t) = Joined(p, h, q, d)
    BY <2>1, LinePieces
  <2>3. OnItsWay(t)' = Joined(pipe'[t], h, q, d)
    <3>1. OnItsWay(t)' = Joined(pipe'[t], Serialized(InHand(t)'), Serialized(Queued(t)'),
                                Serialized(Pending(t)'))
      BY <1>1, <2>1 DEF LineIsJoined
    <3> QED
      BY <1>3, <2>2, <3>1
  <2>4. p # << >> /\ pipe'[t] = Tail(p) /\ delivered'[t] = Append(delivered[t], Head(p))
    BY <1>1, <1>4, <1>6, <2>2
  <2>5. /\ Joined(p, h, q, d) # << >>
        /\ Head(Joined(p, h, q, d)) = Head(p)
        /\ Tail(Joined(p, h, q, d)) = Joined(Tail(p), h, q, d)
    <3>1. Moves(Packets, p, h, q)
      BY JoinedMoves
    <3> QED
      BY <2>4, <3>1 DEF Moves
  <2>6. Delivers(t)
    BY <1>2, <2>2, <2>3, <2>4, <2>5 DEF Delivers
  <2> QED
    BY <1>6, <2>6
<1> QED
  BY <1>5, <1>6

\* Whatever the engine does, at most one channel changes, and in one of the
\* ways of a lossy channel.
LEMMA ChannelStep ==
    ASSUME EngineInv, EngineInv', [Next]_vars
    PROVE  \/ ~ApplyRules /\ \A t \in Channel : Keeps(t)
           \/ ~ApplyRules /\ \E c \in Channel : Others(c) /\ (Loses(c) \/ Delivers(c))
           \/ /\ ApplyRules
              /\ \A t \in Channel :
                    IF Asks(event, "NOTIFY_UPWARDS") /\ event.twin_id = t
                    THEN Sends(t, serialize_event(ForNotify.e)) ELSE Keeps(t)
<1>1. CASE ApplyRules
  BY <1>1, ApplyRulesChannel
<1>2. CASE DispatchPush
  <2>1. ~ApplyRules
    BY <1>2 DEF DispatchPush, ApplyRules
  <2>2. \A t \in Channel :
           IF Head(out) = ForNotify /\ Full(queue_out_notify) /\ event.twin_id = t
           THEN Loses(t) ELSE Keeps(t)
    BY <1>2, DispatchPushChannel
  <2>3. CASE /\ Head(out) = ForNotify /\ Full(queue_out_notify)
             /\ event.twin_id \in Channel
    BY <2>1, <2>2, <2>3 DEF Others
  <2>4. CASE ~(/\ Head(out) = ForNotify /\ Full(queue_out_notify)
               /\ event.twin_id \in Channel)
    BY <2>1, <2>2, <2>4
  <2> QED
    BY <2>3, <2>4
<1>3. ASSUME UNCHANGED <<spc, queue_out_notify, pipe, delivered, refused, ppc, out, tx>>
      PROVE  \A t \in Channel : Keeps(t)
  BY <1>3, KeepsPieces DEF InHand, Queued, Pending
<1>4. CASE ProcIdle \/ ProcPop \/ UpdateVar \/ HandleError
  <2>1. /\ UNCHANGED <<spc, queue_out_notify, pipe, delivered, refused, tx>>
        /\ ppc # "push" /\ ppc' # "push"
    BY <1>4, AgainValues
    DEF ProcIdle, ProcPop, UpdateVar, HandleError, dispatch_event, outputs, sender,
        network, history
  <2>2. \A t \in Channel : Keeps(t)
    BY <2>1, KeepsPieces DEF InHand, Queued, Pending
  <2>3. ~ApplyRules
    BY <1>4, <2>1 DEF ProcIdle, ProcPop, UpdateVar, HandleError, ApplyRules, EngineInv, ProcessorInv
  <2> QED
    BY <2>2, <2>3
<1>5. CASE Sender /\ ~Processor
  <2>1. ~ApplyRules
    BY <1>5 DEF Processor
  <2>2. CASE SendIdle
    <3>1. /\ UNCHANGED <<ppc, out, queue_out_notify, pipe, delivered, refused, tx>>
          /\ spc # "send" /\ spc' # "send"
      BY <2>2, AgainValues DEF SendIdle, processor, outputs, network, history
    <3>2. \A t \in Channel : Keeps(t)
      BY <3>1, KeepsPieces DEF InHand, Queued, Pending
    <3> QED
      BY <2>1, <3>2
  <2>3. CASE SendPop
    BY <2>1, <2>3, SendPopChannel
  <2>4. CASE SendEvent \/ SendTerminated
    <3>1. \A t \in Channel :
             IF SendTerminated /\ ~SendEvent /\ tx.twin_id = t THEN Loses(t) ELSE Keeps(t)
      BY <2>4, SendChannel
    <3>2. CASE SendTerminated /\ ~SendEvent /\ tx.twin_id \in Channel
      BY <2>1, <3>1, <3>2 DEF Others
    <3>3. CASE ~(SendTerminated /\ ~SendEvent /\ tx.twin_id \in Channel)
      BY <2>1, <3>1, <3>3
    <3> QED
      BY <3>2, <3>3
  <2> QED
    BY <1>5, <2>2, <2>3, <2>4 DEF Sender
<1>6. ASSUME NEW c \in Connector, PeerRecv(c), ~Processor
      PROVE  \/ \A t \in Channel : Keeps(t)
             \/ \E t \in Channel : Others(t) /\ (Loses(t) \/ Delivers(t))
  <2>1. \A t \in Channel : IF c = t THEN Delivers(t) ELSE Keeps(t)
    BY <1>6, PeerRecvChannel
  <2>2. CASE c \in Channel
    BY <2>1, <2>2 DEF Others
  <2>3. CASE c \notin Channel
    BY <2>1, <2>3
  <2> QED
    BY <2>2, <2>3
<1>7. CASE ~Processor /\ ~Sender
  <2>1. ~ApplyRules
    BY <1>7 DEF Processor
  <2>2. CASE \E c \in Connector : PeerRecv(c)
    BY <1>6, <1>7, <2>1, <2>2
  <2>3. CASE \A c \in Connector : ~PeerRecv(c)
    <3>1. UNCHANGED <<spc, queue_out_notify, pipe, delivered, refused, ppc, out, tx>>
      BY <1>7, <2>3, Frames DEF processor, sender, network
    <3> QED
      BY <1>3, <2>1, <3>1
  <2> QED
    BY <2>2, <2>3
<1> QED
  BY <1>1, <1>2, <1>4, <1>5, <1>7 DEF Processor

LEMMA NothingSentYet ==
    ASSUME Init, NEW t \in Channel
    PROVE  OnItsWay(t) = << >> /\ delivered[t] = << >>
<1>1. t \in Connector
  BY DEF Channel
<1>2. EngineInv /\ LineIsJoined
  BY InitInv, LineFacts
<1>3. pipe[t] = << >> /\ delivered[t] = << >> /\ InHand(t) = << >> /\ Pending(t) = << >>
  BY <1>1 DEF Init, InHand, Pending
<1>4. Queued(t) = << >>
  <2>1. Mine(queue_out_notify, t) = {} /\ queue_out_notify = << >>
    BY DEF Init, Mine
  <2>2. << >> \in Seq(ForParent) /\ {} \in SUBSET (1 .. Len(<< >>))
    BY EmptySeq
  <2>3. ElementsAt(<< >>, {}) = << >>
    BY <2>2, ElementsAtTypes
  <2> QED
    BY <2>1, <2>3 DEF Queued
<1>5. OnItsWay(t) = Joined(<< >>, << >>, << >>, << >>)
  BY <1>1, <1>2, <1>3, <1>4, SerializedFacts DEF LineIsJoined
<1>6. Joined(<< >>, << >>, << >>, << >>) = << >>
  <2>1. PICK z \in Seq(Packets) : z = << >>
    BY EmptySeq
  <2>2. Cat(z, z) = z
    BY <2>1, CatFacts
  <2> QED
    BY <2>1, <2>2 DEF Joined
<1> QED
  BY <1>3, <1>5, <1>6

\* The engine as a whole: whatever is between the rule that selects an update
\* and the parent node loses, but never mixes, repeats or reorders.
THEOREM EngineImplementsRelay == Spec => ImplementsRelay
<1> DEFINE line == [c \in Channel |-> OnItsWay(c)]
           got  == [c \in Channel |-> delivered[c]]
<1>1. Init => Relay!Init
  <2> SUFFICES ASSUME Init PROVE Relay!Init
    OBVIOUS
  <2>1. \A t \in Channel : OnItsWay(t) = << >> /\ delivered[t] = << >>
    BY NothingSentYet
  <2> QED
    BY <2>1 DEF Relay!Init, Channel
<1>2. EngineInv /\ EngineInv' /\ [Next]_vars => [Relay!Next]_<<line, got>>
  <2> SUFFICES ASSUME EngineInv, EngineInv', [Next]_vars
               PROVE  [Relay!Next]_<<line, got>>
    OBVIOUS
  <2>1. /\ line' = [c \in Channel |-> OnItsWay(c)'] /\ got' = [c \in Channel |-> delivered'[c]]
    BY DEF Channel
  <2>2. /\ line = [c \in Connector \cap Twins |-> OnItsWay(c)]
        /\ got = [c \in Connector \cap Twins |-> delivered[c]]
    BY DEF Channel
  <2>3. LineIsJoined /\ LineIsJoined'
    BY LineFacts, PTL
  <2>4. \A t \in Channel : OnItsWay(t) \in Seq(Packets)
    BY <2>3 DEF LineIsJoined, Channel
  <2>5. ASSUME \A t \in Channel : Keeps(t) PROVE line' = line /\ got' = got
    BY <2>1, <2>5 DEF Keeps, Counts
  <2>6. ASSUME NEW c \in Channel, Others(c)
        PROVE  /\ line' = [line EXCEPT ![c] = OnItsWay(c)']
               /\ got' = [got EXCEPT ![c] = delivered'[c]]
               /\ line[c] = OnItsWay(c) /\ got[c] = delivered[c]
               /\ line'[c] = OnItsWay(c)' /\ c \in Connector \cap Twins
    <3>1. \A t \in Channel \ {c} : OnItsWay(t)' = OnItsWay(t) /\ delivered'[t] = delivered[t]
      BY <2>6 DEF Others, Keeps, Counts
    <3> QED
      BY <2>1, <3>1 DEF Channel
  <2>7. ASSUME NEW c \in Channel, Others(c), Loses(c)
        PROVE  [Relay!Next]_<<line, got>>
    <3>1. PICK k \in 1 .. Len(OnItsWay(c)) : OnItsWay(c)' = RemoveAt(OnItsWay(c), k)
      BY <2>7 DEF Loses
    <3>2. k \in 1 .. Len(line[c]) /\ k \in DOMAIN line[c]
      BY <2>4, <2>6, <2>7, LenProperties
    <3>3. line' = [line EXCEPT ![c] = RemoveAt(@, k)] /\ got' = got
      <4>1. delivered'[c] = delivered[c]
        BY <2>7 DEF Loses, Counts
      <4> QED
        BY <2>6, <2>7, <3>1, <4>1
    <3>4. Relay!Lose(c, k)
      BY <2>2, <3>2, <3>3 DEF Relay!Lose, Relay!RemoveAt, RemoveAt
    <3> QED
      BY <2>2, <2>6, <2>7, <3>2, <3>3, <3>4 DEF Relay!Next
  <2>8. ASSUME NEW c \in Channel, Others(c), Delivers(c)
        PROVE  [Relay!Next]_<<line, got>>
    <3>1. /\ line[c] # << >> /\ line' = [line EXCEPT ![c] = Tail(@)]
          /\ got' = [got EXCEPT ![c] = Append(@, Head(line[c]))]
      BY <2>6, <2>8 DEF Delivers
    <3>2. Relay!Deliver(c)
      BY <2>2, <3>1 DEF Relay!Deliver
    <3>3. line' # line
      <4>1. PICK w \in Seq(Packets) : w = line[c] /\ w # << >>
        BY <2>4, <2>6, <2>8, <3>1
      <4>2. line'[c] = Tail(w) /\ Len(Tail(w)) # Len(w)
        BY <2>6, <2>8, <3>1, <4>1
      <4> QED
        BY <4>1, <4>2
    <3> QED
      BY <2>2, <2>6, <2>8, <3>2, <3>3 DEF Relay!Next
  <2>9. ASSUME NEW c \in Channel, Others(c), NEW m \in Packets, Sends(c, m)
        PROVE  [Relay!Next]_<<line, got>>
    <3>1. line' = [line EXCEPT ![c] = Append(@, m)] /\ got' = got
      <4>1. OnItsWay(c)' = Append(OnItsWay(c), m) /\ delivered'[c] = delivered[c]
        BY <2>9 DEF Sends, Counts
      <4> QED
        BY <2>6, <2>9, <4>1
    <3>2. line'[c] # << >> /\ line'[c][Len(line'[c])] = m
      <4>1. PICK w \in Seq(Packets) : w = OnItsWay(c)
        BY <2>4
      <4>2. line'[c] = Append(w, m)
        BY <2>6, <2>9, <4>1 DEF Sends
      <4>3. Append(w, m) # << >> /\ Append(w, m)[Len(Append(w, m))] = m
        BY AppendProperties
      <4> QED
        BY <4>2, <4>3
    <3>3. Relay!Send(c, m)
      BY <2>2, <3>1 DEF Relay!Send
    <3>4. Relay!Last(line'[c]) = m
      BY <3>2 DEF Relay!Last
    <3> QED
      BY <2>2, <2>6, <2>9, <3>1, <3>2, <3>3, <3>4 DEF Relay!Next
  <2>10. CASE \A t \in Channel : Keeps(t)
    BY <2>5, <2>10
  <2>11. CASE \E c \in Channel : Others(c) /\ (Loses(c) \/ Delivers(c))
    BY <2>7, <2>8, <2>11
  <2>12. CASE /\ ApplyRules
              /\ \A t \in Channel :
                    IF Asks(event, "NOTIFY_UPWARDS") /\ event.twin_id = t
                    THEN Sends(t, serialize_event(ForNotify.e)) ELSE Keeps(t)
    <3>1. CASE Asks(event, "NOTIFY_UPWARDS")
      <4>1. event \in UpdateEvents
        BY <2>12, ApplyRulesOut
      <4>2. event.twin_id \in Channel /\ ForNotify.e \in ForParent
        BY <3>1, <4>1, AskedIsConnected DEF EngineInv, ForNotify, Channel
      <4>3. serialize_event(ForNotify.e) \in Packets
        BY <4>2 DEF Packets
      <4>4. Others(event.twin_id) /\ Sends(event.twin_id, serialize_event(ForNotify.e))
        BY <2>12, <3>1, <4>2 DEF Others
      <4> QED
        BY <2>9, <4>2, <4>3, <4>4
    <3>2. CASE ~Asks(event, "NOTIFY_UPWARDS")
      BY <2>10, <2>12, <3>2
    <3> QED
      BY <3>1, <3>2
  <2> QED
    BY <2>10, <2>11, <2>12, ChannelStep
<1> QED
  BY <1>1, <1>2, InvAlways, PTL DEF Spec, ImplementsRelay, Relay!Spec, Channel

-------------------------------------------------------------------------------
(* The order of the notifications                                          *)

\* The elements of s are those of g at growing places of D.
Matched(s, D, g) ==
    \E f \in [DOMAIN s -> D] :
        \A k \in DOMAIN s : /\ \A j \in DOMAIN s : j < k => f[j] < f[k]
                            /\ s[k] = g[f[k]]

LEMMA MatchedFrame ==
    ASSUME NEW s, NEW D, NEW g, NEW h, Matched(s, D, g), \A k \in D : h[k] = g[k]
    PROVE  Matched(s, D, h)
  BY DEF Matched

LEMMA MatchedAppend ==
    ASSUME NEW S, NEW s \in Seq(S), NEW x \in S, NEW n \in Nat, NEW D \in SUBSET (1 .. n),
           NEW g, Matched(s, D, g), g[n + 1] = x
    PROVE  Matched(Append(s, x), D \cup {n + 1}, g)
<1>1. PICK l \in Nat : l = Len(s)
  BY LenProperties
<1>2. PICK a \in Seq(S) : a = Append(s, x)
  BY AppendProperties
<1>3. /\ DOMAIN s = 1 .. l /\ DOMAIN a = 1 .. l + 1
      /\ a[l + 1] = x /\ \A k \in 1 .. l : a[k] = s[k]
  BY <1>1, <1>2, AppendProperties, LenProperties
<1>4. PICK f \in [1 .. l -> D] :
         \A k \in 1 .. l : (\A j \in 1 .. l : j < k => f[j] < f[k]) /\ s[k] = g[f[k]]
  BY <1>3 DEF Matched
<1> DEFINE h == [k \in 1 .. l + 1 |-> IF k = l + 1 THEN n + 1 ELSE f[k]]
<1>5. \A k \in 1 .. l + 1 : k \in 1 .. l \/ k = l + 1
  OBVIOUS
<1>6. \A k \in 1 .. l : k \in 1 .. l + 1 /\ h[k] = f[k] /\ h[k] \in D
  OBVIOUS
<1>7. h[l + 1] = n + 1
  OBVIOUS
<1>8. \A d \in D : d < n + 1
  <2>1. \A d \in D : d \in 1 .. n
    OBVIOUS
  <2> QED
    BY <2>1
<1>9. h \in [1 .. l + 1 -> D \cup {n + 1}]
  OBVIOUS
<1> HIDE DEF h
<1>10. ASSUME NEW k \in 1 .. l + 1, NEW j \in 1 .. l + 1, j < k PROVE h[j] < h[k]
  <2>1. j \in 1 .. l
    BY <1>10
  <2>2. CASE k \in 1 .. l
    BY <1>4, <1>6, <1>10, <2>1, <2>2
  <2>3. CASE k = l + 1
    BY <1>6, <1>7, <1>8, <2>1, <2>3
  <2> QED
    BY <1>5, <2>2, <2>3
<1>11. ASSUME NEW k \in 1 .. l + 1 PROVE a[k] = g[h[k]]
  <2>1. CASE k \in 1 .. l
    BY <1>3, <1>4, <1>6, <2>1
  <2>2. CASE k = l + 1
    BY <1>3, <1>7, <2>2
  <2> QED
    BY <1>5, <2>1, <2>2
<1>12. Matched(a, D \cup {n + 1}, g)
  BY <1>3, <1>9, <1>10, <1>11 DEF Matched
<1> QED
  BY <1>2, <1>12

LEMMA MatchedRemove ==
    ASSUME NEW S, NEW s \in Seq(S), NEW n \in 1 .. Len(s), NEW D, NEW g, Matched(s, D, g)
    PROVE  Matched(RemoveAt(s, n), D, g)
<1>1. PICK l \in Nat : l + 1 = Len(s)
  <2>1. Len(s) \in Nat /\ Len(s) # 0
    BY LenProperties
  <2>2. Len(s) - 1 \in Nat /\ (Len(s) - 1) + 1 = Len(s)
    BY <2>1
  <2> QED
    BY <2>2
<1>2. PICK r : r = RemoveAt(s, n)
  OBVIOUS
<1> DEFINE skip(j) == IF j < n THEN j ELSE j + 1
<1>3. /\ r \in Seq(S) /\ Len(r) = l
      /\ \A j \in 1 .. l : r[j] = s[skip(j)]
  <2>1. /\ r \in Seq(S) /\ Len(r) = Len(s) - 1
        /\ \A j \in 1 .. Len(s) - 1 : r[j] = s[IF j < n THEN j ELSE j + 1]
    BY <1>2, RemoveAtProperties
  <2>2. Len(s) - 1 = l
    BY <1>1
  <2> QED
    BY <2>1, <2>2
<1>4. DOMAIN s = 1 .. l + 1 /\ DOMAIN r = 1 .. l
  BY <1>1, <1>3, LenProperties
<1>5. PICK f \in [1 .. l + 1 -> D] :
         \A k \in 1 .. l + 1 : (\A j \in 1 .. l + 1 : j < k => f[j] < f[k]) /\ s[k] = g[f[k]]
  BY <1>4 DEF Matched
<1>6. n \in 1 .. l + 1
  BY <1>1
<1>7. \A k \in 1 .. l : /\ skip(k) \in 1 .. l + 1
                        /\ \A j \in 1 .. l : j < k => skip(j) < skip(k)
  BY <1>6
<1> HIDE DEF skip
<1> DEFINE h == [k \in 1 .. l |-> f[skip(k)]]
<1>8. h \in [1 .. l -> D] /\ \A k \in 1 .. l : h[k] = f[skip(k)]
  BY <1>7
<1> HIDE DEF h
<1>9. ASSUME NEW k \in 1 .. l
      PROVE  (\A j \in 1 .. l : j < k => h[j] < h[k]) /\ r[k] = g[h[k]]
  <2>1. skip(k) \in 1 .. l + 1 /\ h[k] = f[skip(k)]
    BY <1>7, <1>8
  <2>2. r[k] = s[skip(k)]
    BY <1>3 DEF skip
  <2>3. r[k] = g[h[k]]
    BY <1>5, <2>1, <2>2
  <2>4. ASSUME NEW j \in 1 .. l, j < k PROVE h[j] < h[k]
    <3>1. skip(j) \in 1 .. l + 1 /\ skip(j) < skip(k) /\ h[j] = f[skip(j)]
      BY <1>7, <1>8, <2>4
    <3> QED
      BY <1>5, <2>1, <3>1
  <2> QED
    BY <2>3, <2>4
<1>10. Matched(r, D, g)
  BY <1>4, <1>8, <1>9 DEF Matched
<1> QED
  BY <1>2, <1>10

\* What a parent node has, followed by what is on its way to it.
LEMMA StreamMoves ==
    ASSUME NEW S, NEW d \in Seq(S), NEW w \in Seq(S)
    PROVE  /\ Len(Cat(d, w)) = Len(d) + Len(w)
           /\ \A x \in S : Cat(d, Append(w, x)) = Append(Cat(d, w), x)
           /\ w # << >> => Cat(Append(d, Head(w)), Tail(w)) = Cat(d, w)
           /\ \A k \in 1 .. Len(w) : \E n \in 1 .. Len(Cat(d, w)) :
                 Cat(d, RemoveAt(w, k)) = RemoveAt(Cat(d, w), n)
<1>1. /\ \A a, b \in Seq(S) : Cat(a, b) \in Seq(S)
      /\ \A a, b, c \in Seq(S) : Cat(Cat(a, b), c) = Cat(a, Cat(b, c))
      /\ \A a \in Seq(S) : \A x \in S : Append(a, x) = Cat(a, <<x>>)
  BY CatFacts
<1>2. ASSUME NEW x \in S PROVE Cat(d, Append(w, x)) = Append(Cat(d, w), x)
  <2>1. PICK one \in Seq(S) : one = <<x>>
    <3>1. <<x>> \in Seq(S)
      OBVIOUS
    <3> QED
      BY <3>1
  <2>2. \A a \in Seq(S) : Append(a, x) = Cat(a, one)
    BY <1>1, <2>1
  <2>3. PICK c \in Seq(S) : c = Cat(d, w)
    BY <1>1
  <2>4. Append(c, x) = Cat(c, one) /\ Append(w, x) = Cat(w, one)
    BY <2>2
  <2>5. Cat(Cat(d, w), one) = Cat(d, Cat(w, one))
    BY <1>1
  <2> QED
    BY <2>3, <2>4, <2>5
<1>3. ASSUME w # << >> PROVE Cat(Append(d, Head(w)), Tail(w)) = Cat(d, w)
  <2>1. PICK x \in S, r \in Seq(S) : x = Head(w) /\ r = Tail(w)
    BY <1>3, HeadTailProperties
  <2>2. PICK one \in Seq(S) : one = <<x>>
    <3>1. <<x>> \in Seq(S)
      OBVIOUS
    <3> QED
      BY <3>1
  <2>3. Cat(one, r) = w
    <3>1. PICK c \in Seq(S) : c = one \o r
      BY ConcatProperties
    <3>2. PICK m \in Nat : m = Len(r)
      BY LenProperties
    <3>3. Len(one) = 1 /\ one[1] = x
      BY <2>2
    <3>4. Len(c) = 1 + m /\ \A k \in 1 .. 1 + m : c[k] = IF k <= 1 THEN one[k] ELSE r[k - 1]
      <4>1. /\ Len(c) = Len(one) + Len(r)
            /\ \A k \in 1 .. Len(one) + Len(r) :
                  c[k] = IF k <= Len(one) THEN one[k] ELSE r[k - Len(one)]
        BY <3>1, ConcatProperties
      <4>2. Len(one) + Len(r) = 1 + m
        BY <3>2, <3>3
      <4> QED
        BY <3>3, <4>1, <4>2
    <3>5. Len(w) = 1 + m /\ w[1] = x /\ \A k \in 1 .. m : r[k] = w[k + 1]
      <4>1. Len(w) \in Nat
        BY LenProperties
      <4> QED
        BY <1>3, <2>1, <3>2, <4>1, HeadTailProperties
    <3>6. ASSUME NEW k \in 1 .. 1 + m PROVE c[k] = w[k]
      <4>1. CASE k = 1
        BY <3>3, <3>4, <3>5, <4>1
      <4>2. CASE k # 1
        <5>1. k - 1 \in 1 .. m /\ (k - 1) + 1 = k /\ ~(k <= 1)
          BY <4>2
        <5> QED
          BY <3>4, <3>5, <5>1
      <4> QED
        BY <4>1, <4>2
    <3>7. c = w
      BY <3>4, <3>5, <3>6, SameElements
    <3> QED
      BY <3>1, <3>7 DEF Cat
  <2>4. Append(d, x) = Cat(d, one)
    BY <1>1, <2>2
  <2>5. Cat(Cat(d, one), r) = Cat(d, Cat(one, r))
    BY <1>1
  <2> QED
    BY <2>1, <2>3, <2>4, <2>5
<1>4. ASSUME NEW k \in 1 .. Len(w)
      PROVE  \E n \in 1 .. Len(Cat(d, w)) : Cat(d, RemoveAt(w, k)) = RemoveAt(Cat(d, w), n)
  <2>1. PICK l \in Nat : l = Len(d)
    BY LenProperties
  <2>2. PICK m \in Nat : m + 1 = Len(w)
    <3>1. Len(w) \in Nat /\ Len(w) # 0
      BY LenProperties
    <3>2. Len(w) - 1 \in Nat /\ (Len(w) - 1) + 1 = Len(w)
      BY <3>1
    <3> QED
      BY <3>2
  <2>3. k \in 1 .. m + 1
    BY <2>2
  <2>4. PICK c \in Seq(S) : c = d \o w
    BY ConcatProperties
  <2>5. /\ Len(c) = l + m + 1
        /\ \A j \in 1 .. l + m + 1 : c[j] = IF j <= l THEN d[j] ELSE w[j - l]
    <3>1. /\ Len(c) = Len(d) + Len(w)
          /\ \A j \in 1 .. Len(d) + Len(w) : c[j] = IF j <= Len(d) THEN d[j] ELSE w[j - Len(d)]
      BY <2>4, ConcatProperties
    <3>2. Len(d) + Len(w) = l + m + 1
      BY <2>1, <2>2
    <3> QED
      BY <2>1, <3>1, <3>2
  <2>6. PICK n \in 1 .. l + m + 1 : n = l + k
    BY <2>3
  <2>7. PICK r : r = RemoveAt(w, k)
    OBVIOUS
  <2>8. /\ r \in Seq(S) /\ Len(r) = m
        /\ \A j \in 1 .. m : r[j] = w[IF j < k THEN j ELSE j + 1]
    <3>1. /\ r \in Seq(S) /\ Len(r) = Len(w) - 1
          /\ \A j \in 1 .. Len(w) - 1 : r[j] = w[IF j < k THEN j ELSE j + 1]
      BY <2>7, RemoveAtProperties
    <3>2. Len(w) - 1 = m
      BY <2>2
    <3> QED
      BY <3>1, <3>2
  <2>9. PICK u : u = RemoveAt(c, n)
    OBVIOUS
  <2>10. /\ u \in Seq(S) /\ Len(u) = l + m
         /\ \A j \in 1 .. l + m : u[j] = c[IF j < n THEN j ELSE j + 1]
    <3>1. /\ u \in Seq(S) /\ Len(u) = Len(c) - 1
          /\ \A j \in 1 .. Len(c) - 1 : u[j] = c[IF j < n THEN j ELSE j + 1]
      BY <2>5, <2>9, RemoveAtProperties
    <3>2. Len(c) - 1 = l + m
      BY <2>5
    <3> QED
      BY <3>1, <3>2
  <2>11. PICK v \in Seq(S) : v = d \o r
    BY <2>8, ConcatProperties
  <2>12. /\ Len(v) = l + m /\ \A j \in 1 .. l + m : v[j] = IF j <= l THEN d[j] ELSE r[j - l]
    <3>1. /\ Len(v) = Len(d) + Len(r)
          /\ \A j \in 1 .. Len(d) + Len(r) : v[j] = IF j <= Len(d) THEN d[j] ELSE r[j - Len(d)]
      BY <2>8, <2>11, ConcatProperties
    <3> QED
      BY <2>1, <2>8, <3>1
  <2>13. ASSUME NEW j \in 1 .. l + m PROVE v[j] = u[j]
    <3>1. CASE j <= l
      <4>1. j < n /\ j \in 1 .. l + m + 1
        BY <2>3, <2>6, <3>1
      <4> QED
        BY <2>5, <2>10, <2>12, <3>1, <4>1
    <3>2. CASE ~(j <= l) /\ j < n
      <4>1. j - l \in 1 .. m /\ j - l < k /\ j \in 1 .. l + m + 1
        BY <2>3, <2>6, <3>2
      <4> QED
        BY <2>5, <2>8, <2>10, <2>12, <3>2, <4>1
    <3>3. CASE ~(j <= l) /\ ~(j < n)
      <4>1. /\ j - l \in 1 .. m /\ ~(j - l < k) /\ j + 1 \in 1 .. l + m + 1
            /\ ~(j + 1 <= l) /\ j + 1 - l = j - l + 1
        BY <2>3, <2>6, <3>3
      <4>2. v[j] = w[j - l + 1]
        BY <2>8, <2>12, <3>3, <4>1
      <4>3. u[j] = c[j + 1]
        BY <2>10, <3>3
      <4>4. c[j + 1] = w[j + 1 - l]
        BY <2>5, <4>1
      <4> QED
        BY <4>1, <4>2, <4>3, <4>4
    <3> QED
      BY <3>1, <3>2, <3>3
  <2>14. v = u
    BY <2>10, <2>12, <2>13, SameElements
  <2>15. n \in 1 .. Len(c) /\ v = RemoveAt(c, n)
    BY <2>5, <2>9, <2>14
  <2> QED
    BY <2>4, <2>7, <2>11, <2>15 DEF Cat
<1>5. Len(Cat(d, w)) = Len(d) + Len(w)
  BY ConcatProperties DEF Cat
<1> QED
  BY <1>2, <1>3, <1>4, <1>5

\* How many events the dispatcher has done with its rules: Len(Ruled).
ruled == IF ppc \in {"update", "error"} THEN begun - 1 ELSE begun

RuledIsPrefix ==
    /\ ruled \in Nat
    /\ Ruled \in Seq(Events) /\ Len(Ruled) = ruled /\ DOMAIN Ruled = 1 .. ruled
    /\ \A k \in 1 .. ruled : Ruled[k] = accepted[k] /\ Ruled[k] \in Events

LEMMA RuledFacts == EngineInv => RuledIsPrefix
<1> SUFFICES ASSUME EngineInv PROVE RuledIsPrefix
  OBVIOUS
<1>1. ReceiverInv /\ ProcessorInv
  BY DEF EngineInv
<1>2. /\ begun \in Nat /\ Begun \in Seq(Events) /\ Len(Begun) = begun
      /\ DOMAIN Begun = 1 .. begun
      /\ \A k \in 1 .. begun : Begun[k] = accepted[k] /\ Begun[k] \in Events
  BY <1>1, BegunFacts DEF BegunIsPrefix
<1>3. CASE ppc \in {"update", "error"}
  <2>1. begun > 0
    BY <1>1, <1>3 DEF ProcessorInv
  <2>2. PICK m \in Nat : m = begun - 1 /\ m <= Len(Begun)
    BY <1>2, <2>1
  <2>3. ruled = m /\ Ruled = SubSeq(Begun, 1, m)
    BY <1>2, <1>3, <2>2 DEF ruled, Ruled
  <2>4. \A k \in 1 .. m : k \in 1 .. begun
    BY <1>2, <2>2
  <2>5. /\ Ruled \in Seq(Events) /\ Len(Ruled) = m /\ \A k \in 1 .. m : Ruled[k] = Begun[k]
    BY <1>2, <2>2, <2>3, <2>4, SubSeqProperties
  <2>6. DOMAIN Ruled = 1 .. m
    BY <2>5, LenProperties
  <2> QED
    BY <1>2, <2>3, <2>4, <2>5, <2>6 DEF RuledIsPrefix
<1>4. CASE ppc \notin {"update", "error"}
  <2>1. ruled = begun /\ Ruled = Begun
    BY <1>4 DEF ruled, Ruled
  <2> QED
    BY <1>2, <2>1 DEF RuledIsPrefix
<1> QED
  BY <1>3, <1>4

\* ApplyRules, or the handling of an error event, adds the event in hand.
LEMMA RuledStep ==
    ASSUME EngineInv, EngineInv', [Next]_vars
    PROVE  /\ \/ ruled' = ruled /\ ~ApplyRules
              \/ /\ ruled' = ruled + 1 /\ Ruled'[ruled + 1] = event
                 /\ ApplyRules \/ (~ApplyRules /\ event.type = EVENT_ERROR)
                 /\ ppc # "pop"
           /\ \A k \in 1 .. ruled : Ruled'[k] = Ruled[k]
<1>1. ReceiverInv /\ ProcessorInv /\ begun \in Nat
  BY DEF EngineInv, ProcessorInv
<1>2. RuledIsPrefix /\ RuledIsPrefix'
  BY RuledFacts, PTL
<1>3. ruled \in Nat /\ ruled' \in Nat
  BY <1>2 DEF RuledIsPrefix
<1>4. ASSUME \A k \in 1 .. ruled : accepted'[k] = accepted[k],
             ruled' \in {ruled, ruled + 1}
      PROVE  \A k \in 1 .. ruled : Ruled'[k] = Ruled[k]
  <2>1. \A k \in 1 .. ruled : k \in 1 .. ruled'
    BY <1>3, <1>4
  <2> QED
    BY <1>2, <1>4, <2>1 DEF RuledIsPrefix
<1>5. CASE ApplyRules \/ HandleError
  <2>1. /\ ppc \in {"update", "error"} /\ ppc' \notin {"update", "error"}
        /\ UNCHANGED <<queue_in, accepted>>
    BY <1>5, AgainValues DEF ApplyRules, HandleError, history
  <2>2. begun > 0 /\ event = accepted[begun]
    BY <1>1, <2>1 DEF ProcessorInv
  <2>3. ruled = begun - 1 /\ ruled' = begun
    BY <2>1 DEF ruled, begun
  <2>4. ruled' = ruled + 1 /\ ruled + 1 = begun /\ begun \in 1 .. ruled'
    BY <1>1, <2>2, <2>3
  <2>5. Ruled'[ruled + 1] = event
    <3>1. \A k \in 1 .. ruled' : Ruled'[k] = accepted'[k]
      BY <1>2 DEF RuledIsPrefix
    <3> QED
      BY <2>1, <2>2, <2>4, <3>1
  <2>6. ~ApplyRules => event.type = EVENT_ERROR
    BY <1>1, <1>5 DEF ProcessorInv, HandleError
  <2> QED
    BY <1>4, <2>1, <2>4, <2>5, <2>6
<1>6. CASE RecvPush
  <2>1. begun' = begun /\ \A k \in 1 .. begun : accepted'[k] = accepted[k]
    BY <1>1, <1>6, PushKeepsBegun
  <2>2. ppc' = ppc
    BY <1>6 DEF RecvPush, processor
  <2>3. ruled' = ruled
    BY <2>1, <2>2 DEF ruled
  <2>4. \A k \in 1 .. ruled : k \in 1 .. begun
    BY <1>1, <1>3 DEF ruled
  <2>5. ~ApplyRules
    <3>1. rx' = Tail(rx) /\ rx \in Seq(Events) /\ rx # << >>
      BY <1>6 DEF RecvPush, EngineInv, ReceiverInv
    <3>2. rx' # rx
      <4>1. Len(rx) \in Nat /\ Len(rx') = Len(rx) - 1
        BY <3>1, HeadTailProperties, LenProperties
      <4> QED
        BY <4>1
    <3> QED
      BY <3>2 DEF ApplyRules, receiver
  <2> QED
    BY <1>4, <2>1, <2>3, <2>4, <2>5
<1>7. CASE ProcPop
  <2>1. begun' = begun + 1 /\ accepted' = accepted
    BY <1>1, <1>7, PopTakesNext
  <2>2. ppc = "pop" /\ ppc' \in {"update", "error"}
    BY <1>7 DEF ProcPop, dispatch_event
  <2>3. ruled' = begun' - 1 /\ ruled = begun
    BY <2>2 DEF ruled
  <2>4. ruled' = ruled /\ ~ApplyRules
    BY <1>1, <2>1, <2>2, <2>3 DEF ApplyRules
  <2> QED
    BY <1>4, <2>1, <2>4
<1>8. CASE ProcIdle \/ UpdateVar \/ DispatchPush
  <2>1. /\ UNCHANGED <<queue_in, accepted>>
        /\ ppc \in {"update", "error"} <=> ppc' \in {"update", "error"}
        /\ ~ApplyRules
    BY <1>8, AgainValues
    DEF ProcIdle, UpdateVar, DispatchPush, ApplyRules, history, EngineInv, ProcessorInv
  <2>2. ruled' = ruled
    BY <2>1 DEF ruled, begun
  <2> QED
    BY <1>4, <2>1, <2>2
<1>9. CASE ~Processor /\ ~RecvPush
  <2>1. UNCHANGED <<queue_in, accepted>>
    <3>1. CASE Receiver
      BY <1>9, <3>1 DEF Receiver, RecvTimeout, Recv, history
    <3>2. CASE ~Receiver
      BY <1>9, <3>2, Frames
    <3> QED
      BY <3>1, <3>2
  <2>2. ppc' = ppc
    BY <1>9, Frames DEF processor
  <2>3. ruled' = ruled
    BY <2>1, <2>2 DEF ruled, begun
  <2> QED
    BY <1>4, <1>9, <2>1, <2>3 DEF Processor
<1> QED
  BY <1>5, <1>6, <1>7, <1>8, <1>9 DEF Processor

\* What the rules make of the k-th event.
Selected(k, action) == Asks(Ruled[k], action)
Part(k, action) == Batch(Ruled[k], action)

\* The rules judge an event once and for all.
LEMMA SelectedStep ==
    ASSUME EngineInv, EngineInv', [Next]_vars, NEW action
    PROVE  /\ \A k \in 1 .. ruled : /\ Selected(k, action)' = Selected(k, action)
                                    /\ Part(k, action)' = Part(k, action)
           /\ ruled' # ruled =>
                 \A n \in Nat : n = ruled + 1 =>
                    /\ Selected(n, action)' = Asks(event, action)
                    /\ Part(n, action)' = Batch(event, action)
<1>1. ruled \in Nat
  BY RuledFacts DEF RuledIsPrefix
<1>2. ASSUME NEW k \in 1 .. ruled
      PROVE  Selected(k, action)' = Selected(k, action) /\ Part(k, action)' = Part(k, action)
  <2>1. accepted # << >>
    <3>1. 1 \in 1 .. Len(accepted)
      <4>1. ruled <= begun /\ begun <= Len(accepted) /\ Len(accepted) \in Nat /\ begun \in Nat
        BY BegunFacts DEF BegunIsPrefix, EngineInv, ruled
      <4> QED
        BY <1>1, <4>1
    <3> QED
      BY <3>1
  <2>2. UNCHANGED update_rules
    BY <2>1, RulesSettled DEF EngineInv
  <2>3. Ruled'[k] = Ruled[k]
    BY RuledStep
  <2> QED
    BY <2>2, <2>3 DEF Selected, Part, Asks, Batch, get_update_rule
<1>3. ASSUME ruled' # ruled, NEW n \in Nat, n = ruled + 1
      PROVE  /\ Selected(n, action)' = Asks(event, action)
             /\ Part(n, action)' = Batch(event, action)
  <2>1. Ruled'[n] = event /\ ppc # "pop"
    BY <1>3, RuledStep
  <2>2. UNCHANGED update_rules
    BY <2>1, RulesSettled DEF EngineInv
  <2> QED
    BY <2>1, <2>2 DEF Selected, Part, Asks, Batch, get_update_rule
<1> QED
  BY <1>2, <1>3

LEMMA DueFacts ==
    ASSUME RuledIsPrefix, NEW t
    PROVE  /\ Due(t) \in SUBSET (1 .. ruled)
           /\ \A k : k \in Due(t) <=> /\ k \in 1 .. ruled /\ Ruled[k].twin_id = t
                                      /\ Selected(k, "NOTIFY_UPWARDS")
  BY DEF Due, Selected, RuledIsPrefix

DueIs ==
    \A t, k : k \in Due(t) <=> /\ k \in 1 .. ruled /\ Ruled[k].twin_id = t
                               /\ Selected(k, "NOTIFY_UPWARDS")

LEMMA DueMembers == RuledIsPrefix => DueIs
  BY DueFacts DEF DueIs

\* Whether the step is the one that selects something for the parent node of t.
Picks(t) == ApplyRules /\ Asks(event, "NOTIFY_UPWARDS") /\ event.twin_id = t

LEMMA DueStep ==
    ASSUME EngineInv, EngineInv', [Next]_vars, NEW t
    PROVE  /\ Picks(t) => ruled' = ruled + 1 /\ Due(t)' = Due(t) \cup {ruled + 1}
           /\ ~Picks(t) => Due(t)' = Due(t)
<1>1. RuledIsPrefix /\ RuledIsPrefix' /\ DueIs /\ DueIs'
  BY RuledFacts, DueMembers, PTL
<1>2. PICK n \in Nat : n = ruled
  BY <1>1 DEF RuledIsPrefix
<1>3. /\ ruled' = n \/ ruled' = n + 1
      /\ \A k \in 1 .. n : Ruled'[k] = Ruled[k]
      /\ ruled' = n + 1 => Ruled'[n + 1] = event
      /\ ruled' = n => ~ApplyRules
      /\ ruled' = n + 1 /\ ~ApplyRules => event.type = EVENT_ERROR
  BY <1>2, RuledStep
<1>4. \A k \in 1 .. n : Selected(k, "NOTIFY_UPWARDS")' = Selected(k, "NOTIFY_UPWARDS")
  BY <1>2, SelectedStep
<1>5. ruled' = n + 1 => Selected(n + 1, "NOTIFY_UPWARDS")' = Asks(event, "NOTIFY_UPWARDS")
  <2>1. PICK m \in Nat : m = n + 1
    OBVIOUS
  <2>2. ruled' = n + 1 => Selected(m, "NOTIFY_UPWARDS")' = Asks(event, "NOTIFY_UPWARDS")
    BY <1>2, <2>1, SelectedStep
  <2> QED
    BY <2>1, <2>2
<1>6. \A k : k \in Due(t) <=> /\ k \in 1 .. n /\ Ruled[k].twin_id = t
                              /\ Selected(k, "NOTIFY_UPWARDS")
  BY <1>1, <1>2 DEF DueIs
<1>7. \A k : k \in Due(t)' <=> /\ k \in 1 .. ruled' /\ Ruled'[k].twin_id = t
                               /\ Selected(k, "NOTIFY_UPWARDS")'
  BY <1>1 DEF DueIs
<1>8. PICK A : A = Due(t)
  OBVIOUS
<1>9. PICK B : B = Due(t)'
  OBVIOUS
<1>10. A \in SUBSET (1 .. n)
  BY <1>6, <1>8
<1>11. B \in SUBSET (1 .. n + 1)
  <2>1. \A k \in 1 .. ruled' : k \in 1 .. n + 1
    BY <1>3
  <2> QED
    BY <1>7, <1>9, <2>1
<1>12. CASE ruled' = n
  <2>1. \A k : k \in B <=> k \in A
    BY <1>3, <1>4, <1>6, <1>7, <1>8, <1>9, <1>12
  <2>2. B = A
    BY <1>10, <1>11, <2>1
  <2> QED
    BY <1>3, <1>8, <1>9, <1>12, <2>2 DEF Picks
<1>13. CASE ruled' = n + 1
  <2>1. \A k : k \in 1 .. ruled' <=> k \in 1 .. n \/ k = n + 1
    BY <1>13
  <2>2. n + 1 \in B <=> event.twin_id = t /\ Asks(event, "NOTIFY_UPWARDS")
    BY <1>3, <1>5, <1>7, <1>9, <1>13, <2>1
  <2>3. \A k \in 1 .. n : k \in B <=> k \in A
    BY <1>3, <1>4, <1>6, <1>7, <1>8, <1>9, <2>1
  <2>4. CASE Picks(t)
    <3>1. \A k : k \in B <=> k \in A \/ k = n + 1
      BY <1>7, <1>9, <1>10, <2>1, <2>2, <2>3, <2>4 DEF Picks
    <3>2. B = A \cup {n + 1}
      BY <3>1
    <3> QED
      BY <1>2, <1>8, <1>9, <1>13, <2>4, <3>2
  <2>5. CASE ~Picks(t)
    <3>1. ~(event.twin_id = t /\ Asks(event, "NOTIFY_UPWARDS"))
      <4>1. event.type = EVENT_ERROR => ~Asks(event, "NOTIFY_UPWARDS")
        BY DEF Asks, EVENT_ERROR, EVENT_UPDATE
      <4> QED
        BY <1>3, <1>13, <2>5, <4>1 DEF Picks
    <3>2. \A k : k \in B <=> k \in A
      BY <1>7, <1>9, <1>10, <2>1, <2>2, <2>3, <3>1
    <3>3. B = A
      BY <3>2
    <3> QED
      BY <1>8, <1>9, <2>5, <3>3
  <2> QED
    BY <2>4, <2>5
<1> QED
  BY <1>3, <1>12, <1>13

\* What each channel sees of a step.
LEMMA ChannelAt ==
    ASSUME EngineInv, EngineInv', [Next]_vars, NEW t \in Channel
    PROVE  /\ Picks(t) => Sends(t, serialize_event(ForNotify.e))
           /\ ~Picks(t) => Keeps(t) \/ Loses(t) \/ Delivers(t)
<1>1. CASE ~ApplyRules /\ \A c \in Channel : Keeps(c)
  BY <1>1 DEF Picks
<1>2. CASE ~ApplyRules /\ \E c \in Channel : Others(c) /\ (Loses(c) \/ Delivers(c))
  BY <1>2 DEF Picks, Others
<1>3. CASE /\ ApplyRules
           /\ \A c \in Channel :
                 IF Asks(event, "NOTIFY_UPWARDS") /\ event.twin_id = c
                 THEN Sends(c, serialize_event(ForNotify.e)) ELSE Keeps(c)
  BY <1>3 DEF Picks
<1> QED
  BY <1>1, <1>2, <1>3, ChannelStep

\* The message that the k-th event gives, if it is asked for.
Notes == [k \in 1 .. ruled |-> serialize_event(Part(k, "NOTIFY_UPWARDS"))]

NotesInv ==
    \A t \in Channel :
        /\ Matched(Stream(t), Due(t), Notes)
        /\ Cardinality(Due(t)) = Len(Stream(t)) + refused[t]

LEMMA NotesStep ==
    ASSUME EngineInv, EngineInv', [Next]_vars, NotesInv
    PROVE  NotesInv'
<1> SUFFICES ASSUME NEW t \in Channel
             PROVE  /\ Matched(Stream(t)', Due(t)', Notes')
                    /\ Cardinality(Due(t)') = Len(Stream(t)') + refused'[t]
  BY DEF NotesInv
<1>1. RuledIsPrefix /\ RuledIsPrefix' /\ LineIsJoined /\ DueIs
  BY RuledFacts, LineFacts, DueMembers, PTL
<1>2. PICK n \in Nat : n = ruled
  BY <1>1 DEF RuledIsPrefix
<1>3. PICK d \in Seq(Packets), w \in Seq(Packets), c \in Nat :
         d = delivered[t] /\ w = OnItsWay(t) /\ c = refused[t]
  BY <1>1 DEF LineIsJoined, Channel, EngineInv, OutputInv
<1>4. PICK D \in SUBSET (1 .. n) : D = Due(t)
  BY <1>1, <1>2 DEF DueIs
<1>5. PICK s \in Seq(Packets) : s = Cat(d, w)
  BY CatFacts
<1>6. Stream(t) = s
  BY <1>3, <1>5 DEF Stream, Cat
<1>7. PICK g : g = Notes'
  OBVIOUS
<1>8. /\ ruled' = n \/ ruled' = n + 1
      /\ \A k \in 1 .. n : g[k] = Notes[k]
      /\ ruled' = n + 1 => g[n + 1] = serialize_event(ForNotify.e)
  <2>1. ruled' = n \/ ruled' = n + 1
    BY <1>2, RuledStep
  <2>2. \A k \in 1 .. ruled' : g[k] = serialize_event(Part(k, "NOTIFY_UPWARDS")')
    BY <1>7 DEF Notes
  <2>3. \A k \in 1 .. n : k \in 1 .. ruled'
    BY <2>1
  <2>4. \A k \in 1 .. n : Part(k, "NOTIFY_UPWARDS")' = Part(k, "NOTIFY_UPWARDS")
    BY <1>2, SelectedStep
  <2>5. \A k \in 1 .. n : g[k] = Notes[k]
    BY <1>2, <2>2, <2>3, <2>4 DEF Notes
  <2>6. ASSUME ruled' = n + 1 PROVE g[n + 1] = serialize_event(ForNotify.e)
    <3>1. PICK m \in Nat : m = n + 1
      OBVIOUS
    <3>2. Part(m, "NOTIFY_UPWARDS")' = Batch(event, "NOTIFY_UPWARDS")
      BY <1>2, <2>6, <3>1, SelectedStep
    <3>3. m \in 1 .. ruled'
      BY <2>6, <3>1
    <3> QED
      BY <2>2, <3>1, <3>2, <3>3 DEF ForNotify
  <2> QED
    BY <2>1, <2>5, <2>6
<1>9. Matched(s, D, g)
  <2>1. Matched(s, D, Notes)
    BY <1>4, <1>6 DEF NotesInv
  <2>2. \A k \in D : g[k] = Notes[k]
    BY <1>8
  <2> QED
    BY <2>1, <2>2, MatchedFrame
<1>10. Cardinality(D) = Len(s) + c /\ IsFiniteSet(D) /\ Len(s) \in Nat
  BY <1>3, <1>4, <1>6, RankFacts, LenProperties DEF NotesInv
<1>11. Stream(t)' = Cat(delivered'[t], OnItsWay(t)')
  BY DEF Stream, Cat
<1>12. CASE Keeps(t) /\ ~Picks(t)
  <2>1. Stream(t)' = s /\ refused'[t] = c /\ Due(t)' = D
    BY <1>3, <1>4, <1>5, <1>11, <1>12, DueStep DEF Keeps, Counts
  <2> QED
    BY <1>7, <1>9, <1>10, <2>1
<1>13. CASE Delivers(t) /\ ~Picks(t)
  <2>1. w # << >> /\ Stream(t)' = Cat(Append(d, Head(w)), Tail(w))
    BY <1>3, <1>11, <1>13 DEF Delivers
  <2>2. Cat(Append(d, Head(w)), Tail(w)) = Cat(d, w)
    BY <2>1, StreamMoves
  <2>3. Stream(t)' = s /\ refused'[t] = c /\ Due(t)' = D
    BY <1>3, <1>4, <1>5, <1>13, <2>1, <2>2, DueStep DEF Delivers
  <2> QED
    BY <1>7, <1>9, <1>10, <2>3
<1>14. CASE Loses(t) /\ ~Picks(t)
  <2>1. PICK k \in 1 .. Len(w) : OnItsWay(t)' = RemoveAt(w, k)
    BY <1>3, <1>14 DEF Loses
  <2>2. Stream(t)' = Cat(d, RemoveAt(w, k)) /\ refused'[t] = c + 1 /\ Due(t)' = D
    BY <1>3, <1>4, <1>11, <1>14, <2>1, DueStep DEF Loses, Counts
  <2>3. PICK j \in 1 .. Len(s) : Cat(d, RemoveAt(w, k)) = RemoveAt(s, j)
    <3>1. \E j \in 1 .. Len(Cat(d, w)) : Cat(d, RemoveAt(w, k)) = RemoveAt(Cat(d, w), j)
      BY StreamMoves
    <3> QED
      BY <1>5, <3>1
  <2>4. Matched(RemoveAt(s, j), D, g)
    BY <1>9, MatchedRemove
  <2>5. Len(RemoveAt(s, j)) = Len(s) - 1
    BY RemoveAtProperties
  <2>6. (Len(s) - 1) + (c + 1) = Len(s) + c
    BY <1>10
  <2> QED
    BY <1>7, <1>10, <2>2, <2>3, <2>4, <2>5, <2>6
<1>15. CASE Picks(t) /\ Sends(t, serialize_event(ForNotify.e))
  <2>1. ruled' = n + 1 /\ Due(t)' = D \cup {n + 1}
    BY <1>2, <1>4, <1>15, DueStep
  <2>2. PICK m \in Packets : m = serialize_event(ForNotify.e)
    <3>1. event \in UpdateEvents
      BY <1>15, ApplyRulesOut DEF Picks
    <3>2. ForNotify.e \in ForParent
      BY <1>15, <3>1, AskedIsConnected DEF EngineInv, ForNotify, Picks
    <3> QED
      BY <3>2 DEF Packets
  <2>3. Stream(t)' = Cat(d, Append(w, m)) /\ refused'[t] = c
    BY <1>3, <1>11, <1>15, <2>2 DEF Sends, Counts
  <2>4. Stream(t)' = Append(s, m)
    <3>1. Cat(d, Append(w, m)) = Append(Cat(d, w), m)
      BY StreamMoves
    <3> QED
      BY <1>5, <2>3, <3>1
  <2>5. g[n + 1] = m
    BY <1>8, <2>1, <2>2
  <2>6. Matched(Append(s, m), D \cup {n + 1}, g)
    BY <1>9, <2>5, MatchedAppend
  <2>7. Len(Append(s, m)) = Len(s) + 1
    BY AppendProperties
  <2>8. n + 1 \notin D
    OBVIOUS
  <2>9. Cardinality(D \cup {n + 1}) = Cardinality(D) + 1
    BY <1>10, <2>8, FS_AddElement
  <2>10. (Len(s) + c) + 1 = (Len(s) + 1) + c
    BY <1>10
  <2> QED
    BY <1>7, <1>10, <2>1, <2>3, <2>4, <2>6, <2>7, <2>9, <2>10
<1> QED
  BY <1>12, <1>13, <1>14, <1>15, ChannelAt

\* Each parent node gets the notifications of its twin, each at most once, in
\* the order the data was accepted; what is missing was refused by a full
\* queue_out_notify or cut off by the shutdown.
THEOREM NotificationsAlwaysInOrder == Spec => []NotificationsInOrder
<1>1. Init => NotesInv
  <2> SUFFICES ASSUME Init, NEW t \in Channel
               PROVE  /\ Matched(Stream(t), Due(t), Notes)
                      /\ Cardinality(Due(t)) = Len(Stream(t)) + refused[t]
    BY DEF NotesInv
  <2>1. EngineInv
    BY InitInv
  <2>2. ruled = 0
    BY DEF Init, ruled, begun
  <2>3. Due(t) = {}
    <3>1. DueIs
      BY <2>1, RuledFacts, DueMembers
    <3> QED
      BY <2>2, <3>1 DEF DueIs
  <2>4. Stream(t) = << >>
    BY NothingSentYet, ConcatEmptySeq, EmptySeq DEF Stream
  <2>5. refused[t] = 0
    BY DEF Init, Channel
  <2>6. Matched(<< >>, {}, Notes)
    <3>1. DOMAIN << >> = {} /\ [k \in {} |-> k] \in [{} -> {}]
      OBVIOUS
    <3> QED
      BY <3>1 DEF Matched
  <2> QED
    BY <2>3, <2>4, <2>5, <2>6, FS_EmptySet
<1>2. EngineInv /\ EngineInv' /\ [Next]_vars /\ NotesInv => NotesInv'
  BY NotesStep
<1>3. EngineInv /\ NotesInv => NotificationsInOrder
  <2> SUFFICES ASSUME EngineInv, NotesInv, NEW t \in Connector \cap Twins
               PROVE  /\ \E f \in [DOMAIN Stream(t) -> Due(t)] :
                            \A k \in DOMAIN Stream(t) :
                               /\ \A j \in DOMAIN Stream(t) : j < k => f[j] < f[k]
                               /\ Stream(t)[k] =
                                     serialize_event(Batch(Ruled[f[k]], "NOTIFY_UPWARDS"))
                      /\ Cardinality(Due(t)) = Len(Stream(t)) + refused[t]
    BY DEF NotificationsInOrder
  <2>1. Matched(Stream(t), Due(t), Notes) /\ Cardinality(Due(t)) = Len(Stream(t)) + refused[t]
    BY DEF NotesInv, Channel
  <2>2. \A k \in Due(t) : Notes[k] = serialize_event(Batch(Ruled[k], "NOTIFY_UPWARDS"))
    BY RuledFacts, DueFacts DEF Notes, Part
  <2> QED
    BY <2>1, <2>2 DEF Matched
<1> QED
  BY <1>1, <1>2, <1>3, InvAlways, PTL DEF Spec

-------------------------------------------------------------------------------
(* The queue for the user's service                                        *)

LEMMA PrefixOf ==
    ASSUME NEW S, NEW s \in Seq(S), NEW k \in Nat, k <= Len(s)
    PROVE  /\ SubSeq(s, 1, k) \in Seq(S) /\ Len(SubSeq(s, 1, k)) = k
           /\ \A j \in 1 .. k : SubSeq(s, 1, k)[j] = s[j]
<1>1. \A j \in 1 .. k : s[j] \in S
  BY LenProperties, ElementOfSeq
<1> QED
  BY <1>1, SubSeqProperties

LEMMA PrefixAppend ==
    ASSUME NEW S, NEW s \in Seq(S), NEW x \in S, NEW k \in Nat, k <= Len(s)
    PROVE  SubSeq(Append(s, x), 1, k) = SubSeq(s, 1, k)
<1>1. PICK a \in Seq(S) : a = Append(s, x)
  BY AppendProperties
<1>2. Len(s) \in Nat /\ Len(a) = Len(s) + 1 /\ \A j \in 1 .. Len(s) : a[j] = s[j]
  BY <1>1, AppendProperties, LenProperties
<1>3. k <= Len(a) /\ \A j \in 1 .. k : j \in 1 .. Len(s)
  BY <1>2
<1>4. PICK p : p = SubSeq(s, 1, k)
  OBVIOUS
<1>5. PICK q : q = SubSeq(a, 1, k)
  OBVIOUS
<1>6. p \in Seq(S) /\ Len(p) = k /\ \A j \in 1 .. k : p[j] = s[j]
  BY <1>4, PrefixOf
<1>7. q \in Seq(S) /\ Len(q) = k /\ \A j \in 1 .. k : q[j] = a[j]
  BY <1>3, <1>5, PrefixOf
<1>8. p = q
  BY <1>2, <1>3, <1>6, <1>7, SameElements
<1> QED
  BY <1>1, <1>4, <1>5, <1>8

LEMMA PrefixNext ==
    ASSUME NEW S, NEW s \in Seq(S), NEW k \in Nat, k + 1 <= Len(s)
    PROVE  SubSeq(s, 1, k + 1) = Append(SubSeq(s, 1, k), s[k + 1])
<1>1. Len(s) \in Nat /\ k <= Len(s) /\ k + 1 \in Nat
  BY LenProperties
<1>2. PICK x \in S : x = s[k + 1]
  BY <1>1, ElementOfSeq
<1>3. PICK p : p = SubSeq(s, 1, k)
  OBVIOUS
<1>4. p \in Seq(S) /\ Len(p) = k /\ \A j \in 1 .. k : p[j] = s[j]
  BY <1>1, <1>3, PrefixOf
<1>5. PICK n \in Nat : n = k + 1
  OBVIOUS
<1>6. PICK q : q = SubSeq(s, 1, n)
  OBVIOUS
<1>7. q \in Seq(S) /\ Len(q) = n /\ \A j \in 1 .. n : q[j] = s[j]
  BY <1>5, <1>6, PrefixOf
<1>8. PICK a \in Seq(S) : a = Append(p, x)
  BY <1>4, AppendProperties
<1>9. Len(a) = k + 1 /\ a[k + 1] = x /\ \A j \in 1 .. k : a[j] = p[j]
  BY <1>4, <1>8, AppendProperties
<1>10. ASSUME NEW j \in 1 .. n PROVE q[j] = a[j]
  <2>1. CASE j \in 1 .. k
    BY <1>4, <1>7, <1>9, <2>1
  <2>2. CASE j = k + 1
    BY <1>2, <1>7, <1>9, <2>2
  <2> QED
    BY <1>5, <2>1, <2>2
<1>11. q = a
  BY <1>5, <1>7, <1>9, <1>10, SameElements
<1> QED
  BY <1>2, <1>3, <1>5, <1>6, <1>8, <1>11

\* The part of each event for the user's service, the events that have one,
\* and how many of them the dispatcher has still to push.
UserParts == [k \in 1 .. ruled |-> Part(k, "CALL_USER_SERVICE")]
AskedAt   == {k \in 1 .. ruled : Selected(k, "CALL_USER_SERVICE")}
ToGo      == Cardinality({k \in DOMAIN out : out[k].to = "user"})

Kept(n) == IF n < QUEUE_SIZE THEN n ELSE QUEUE_SIZE - 1

UserInv ==
    queue_out_user =
        SubSeq(ElementsAt(UserParts, AskedAt), 1, Kept(Cardinality(AskedAt) - ToGo))

ToGoIs ==
    /\ out = << >> \/ out = <<ForNotify>> => ToGo = 0
    /\ out = <<ForUserService>> \/ out = <<ForNotify, ForUserService>> => ToGo = 1

LEMMA ToGoFacts == ToGoIs
<1>1. ForNotify.to = "notify" /\ ForUserService.to = "user"
  BY DEF ForNotify, ForUserService
<1>2. PICK a, b : a = ForNotify /\ b = ForUserService
  OBVIOUS
<1>3. /\ Cardinality({k \in DOMAIN << >> : << >>[k].to = "user"}) = 0
      /\ Cardinality({k \in DOMAIN <<a>> : <<a>>[k].to = "user"}) = 0
      /\ Cardinality({k \in DOMAIN <<b>> : <<b>>[k].to = "user"}) = 1
      /\ Cardinality({k \in DOMAIN <<a, b>> : <<a, b>>[k].to = "user"}) = 1
  <2>1. a.to = "notify" /\ b.to = "user"
    BY <1>1, <1>2
  <2>2. {k \in DOMAIN << >> : << >>[k].to = "user"} = {}
    OBVIOUS
  <2>3. {k \in DOMAIN <<a>> : <<a>>[k].to = "user"} = {}
    BY <2>1
  <2>4. {k \in DOMAIN <<b>> : <<b>>[k].to = "user"} = {1}
    BY <2>1
  <2>5. {k \in DOMAIN <<a, b>> : <<a, b>>[k].to = "user"} = {2}
    <3>1. DOMAIN <<a, b>> = {1, 2} /\ <<a, b>>[1] = a /\ <<a, b>>[2] = b
      OBVIOUS
    <3> QED
      BY <2>1, <3>1
  <2> QED
    BY <2>2, <2>3, <2>4, <2>5, FS_EmptySet, FS_Singleton
<1>4. CASE out = << >>
  <2>1. ToGo = 0
    BY <1>3, <1>4 DEF ToGo
  <2> QED
    BY <1>4, <2>1 DEF ToGoIs
<1>5. CASE out = <<a>>
  <2>1. ToGo = 0
    BY <1>3, <1>5 DEF ToGo
  <2>2. <<a>> # << >> /\ <<a>> # <<b>> /\ <<a>> # <<a, b>>
    BY <1>1, <1>2
  <2> QED
    BY <1>2, <1>5, <2>1, <2>2 DEF ToGoIs
<1>6. CASE out = <<b>>
  <2>1. ToGo = 1
    BY <1>3, <1>6 DEF ToGo
  <2>2. <<b>> # << >> /\ <<b>> # <<a>>
    BY <1>1, <1>2
  <2> QED
    BY <1>2, <1>6, <2>1, <2>2 DEF ToGoIs
<1>7. CASE out = <<a, b>>
  <2>1. ToGo = 1
    BY <1>3, <1>7 DEF ToGo
  <2>2. <<a, b>> # << >> /\ <<a, b>> # <<a>>
    OBVIOUS
  <2> QED
    BY <1>2, <1>7, <2>1, <2>2 DEF ToGoIs
<1> QED
  BY <1>2, <1>4, <1>5, <1>6, <1>7 DEF ToGoIs

\* Both only grow at the end.
LEMMA PartsStep ==
    ASSUME EngineInv, EngineInv', [Next]_vars
    PROVE  \/ ruled' = ruled /\ ~ApplyRules /\ UserParts' = UserParts /\ AskedAt' = AskedAt
           \/ /\ ruled' = ruled + 1 /\ UserParts' = Append(UserParts, ForUserService.e)
              /\ AskedAt' = IF Asks(event, "CALL_USER_SERVICE")
                            THEN AskedAt \cup {ruled + 1} ELSE AskedAt
              /\ ~ApplyRules => event.type = EVENT_ERROR
<1>1. PICK n \in Nat : n = ruled
  BY RuledFacts DEF RuledIsPrefix
<1>2. PICK U : U = UserParts
  OBVIOUS
<1>3. PICK V : V = UserParts'
  OBVIOUS
<1>4. PICK A : A = AskedAt
  OBVIOUS
<1>5. PICK B : B = AskedAt'
  OBVIOUS
<1>6. /\ U = [k \in 1 .. n |-> Part(k, "CALL_USER_SERVICE")]
      /\ V = [k \in 1 .. ruled' |-> Part(k, "CALL_USER_SERVICE")']
      /\ A = {k \in 1 .. n : Selected(k, "CALL_USER_SERVICE")}
      /\ B = {k \in 1 .. ruled' : Selected(k, "CALL_USER_SERVICE")'}
  BY <1>1, <1>2, <1>3, <1>4, <1>5 DEF UserParts, AskedAt
<1>7. \A k \in 1 .. n : /\ Selected(k, "CALL_USER_SERVICE")' = Selected(k, "CALL_USER_SERVICE")
                        /\ Part(k, "CALL_USER_SERVICE")' = Part(k, "CALL_USER_SERVICE")
  BY <1>1, SelectedStep
<1>8. CASE ruled' = n /\ ~ApplyRules
  <2>1. U = V /\ A = B
    BY <1>6, <1>7, <1>8
  <2> QED
    BY <1>1, <1>2, <1>3, <1>4, <1>5, <1>8, <2>1
<1>9. CASE ruled' = n + 1 /\ (~ApplyRules => event.type = EVENT_ERROR)
  <2>1. PICK m \in Nat : m = n + 1
    OBVIOUS
  <2>2. /\ Selected(m, "CALL_USER_SERVICE")' = Asks(event, "CALL_USER_SERVICE")
        /\ Part(m, "CALL_USER_SERVICE")' = ForUserService.e
    BY <1>1, <1>9, <2>1, SelectedStep DEF ForUserService
  <2>3. \A k : k \in 1 .. m <=> k \in 1 .. n \/ k = m
    BY <2>1
  <2>4. ~(m \in 1 .. n) /\ ruled' = m
    BY <1>9, <2>1
  <2>5. B = IF Asks(event, "CALL_USER_SERVICE") THEN A \cup {m} ELSE A
    <3>1. \A k : k \in B <=> k \in A \/ (k = m /\ Asks(event, "CALL_USER_SERVICE"))
      <4>1. \A k : k \in B <=> k \in 1 .. m /\ Selected(k, "CALL_USER_SERVICE")'
        BY <1>6, <2>4
      <4>2. \A k : k \in A <=> k \in 1 .. n /\ Selected(k, "CALL_USER_SERVICE")
        BY <1>6
      <4> QED
        BY <1>7, <2>2, <2>3, <4>1, <4>2
    <3>2. CASE Asks(event, "CALL_USER_SERVICE")
      <4>1. B = A \cup {m}
        BY <3>1, <3>2
      <4> QED
        BY <3>2, <4>1
    <3>3. CASE ~Asks(event, "CALL_USER_SERVICE")
      <4>1. B = A
        BY <3>1, <3>3
      <4> QED
        BY <3>3, <4>1
    <3> QED
      BY <3>2, <3>3
  <2>6. V = Append(U, ForUserService.e)
    <3>1. PICK x : x = ForUserService.e
      OBVIOUS
    <3>2. PICK S : S = {U[k] : k \in 1 .. n} \cup {x}
      OBVIOUS
    <3>3. /\ V[m] = x /\ \A k \in 1 .. n : V[k] = U[k]
      <4>1. \A k \in 1 .. m : V[k] = Part(k, "CALL_USER_SERVICE")'
        BY <1>6, <2>4
      <4>2. \A k \in 1 .. n : k \in 1 .. m /\ U[k] = Part(k, "CALL_USER_SERVICE")
        BY <1>6, <2>3
      <4> QED
        BY <1>7, <2>2, <2>3, <3>1, <4>1, <4>2
    <3>4. U \in Seq(S) /\ Len(U) = n
      <4>1. U \in [1 .. n -> S] /\ DOMAIN U = 1 .. n
        BY <1>6, <3>2
      <4> QED
        BY <4>1, IsASeq, LenProperties
    <3>5. V \in Seq(S) /\ Len(V) = m
      <4>1. DOMAIN V = 1 .. m /\ V = [k \in 1 .. m |-> V[k]]
        BY <1>6, <2>4
      <4>2. \A k \in 1 .. m : V[k] \in S
        BY <2>3, <3>2, <3>3
      <4>3. V \in [1 .. m -> S]
        BY <4>1, <4>2
      <4> QED
        BY <4>1, <4>3, IsASeq, LenProperties
    <3>6. PICK W : W = Append(U, x)
      OBVIOUS
    <3>7. x \in S
      BY <3>2
    <3>8. W \in Seq(S) /\ Len(W) = m /\ W[m] = x /\ \A k \in 1 .. n : W[k] = U[k]
      BY <2>1, <3>4, <3>6, <3>7, AppendProperties
    <3>9. \A k \in 1 .. m : V[k] = W[k]
      BY <2>3, <3>3, <3>8
    <3>10. V = W
      BY <3>5, <3>8, <3>9, SameElements
    <3> QED
      BY <3>1, <3>6, <3>10
  <2> QED
    BY <1>1, <1>2, <1>3, <1>4, <1>5, <1>9, <2>1, <2>5, <2>6
<1> QED
  BY <1>1, <1>8, <1>9, RuledStep

LEMMA UserPartsSeq ==
    ASSUME EngineInv
    PROVE  \E S : /\ UserParts \in Seq(S) /\ Len(UserParts) = ruled /\ ruled \in Nat
                  /\ ForUserService.e \in S /\ AskedAt \in SUBSET (1 .. ruled)
<1>1. PICK n \in Nat : n = ruled
  BY RuledFacts DEF RuledIsPrefix
<1>2. PICK U : U = UserParts
  OBVIOUS
<1>3. PICK S : S = {U[k] : k \in 1 .. n} \cup {ForUserService.e}
  OBVIOUS
<1>4. U \in [1 .. n -> S] /\ DOMAIN U = 1 .. n
  BY <1>1, <1>2, <1>3 DEF UserParts
<1>5. U \in Seq(S) /\ Len(U) = n
  BY <1>4, IsASeq, LenProperties
<1>6. AskedAt \in SUBSET (1 .. n) /\ ForUserService.e \in S
  BY <1>1, <1>3 DEF AskedAt
<1> QED
  BY <1>1, <1>2, <1>5, <1>6

\* What the dispatcher has for the user's service is the newest part.
LEMMA NewestIsToGo ==
    ASSUME EngineInv, ppc = "push", Asks(event, "CALL_USER_SERVICE")
    PROVE  /\ Cardinality(AskedAt) \in Nat \ {0}
           /\ ElementsAt(UserParts, AskedAt)[Cardinality(AskedAt)] = ForUserService.e
<1>1. PICK S : /\ UserParts \in Seq(S) /\ Len(UserParts) = ruled /\ ruled \in Nat
               /\ AskedAt \in SUBSET (1 .. ruled)
  BY UserPartsSeq
<1>2. ruled = begun /\ begun > 0 /\ event = accepted[begun]
  BY DEF EngineInv, ProcessorInv, ruled
<1>3. PICK n \in Nat : n = ruled /\ n \in 1 .. n
  BY <1>1, <1>2
<1>4. Ruled[n] = event
  BY <1>2, <1>3, RuledFacts DEF RuledIsPrefix
<1>5. n \in AskedAt /\ UserParts[n] = ForUserService.e
  BY <1>3, <1>4 DEF AskedAt, UserParts, Selected, Part, ForUserService
<1>6. PICK A \in SUBSET (1 .. n) : A = AskedAt
  BY <1>1, <1>3
<1>7. PICK c \in Nat : c = Cardinality(A)
  BY RankFacts
<1>8. Rank(A, n) = c
  <2>1. {x \in A : x <= n} = A
    <3>1. \A x \in 1 .. n : x <= n
      OBVIOUS
    <3> QED
      BY <3>1
  <2> QED
    BY <1>7, <2>1 DEF Rank
<1>9. c \in 1 .. c /\ Nth(A, c) = n
  <2>1. Rank(A, n) \in 1 .. Cardinality(A)
    BY <1>5, <1>6, RankFacts
  <2>2. Nth(A, Rank(A, n)) = n
    BY <1>5, <1>6, NthFacts
  <2> QED
    BY <1>7, <1>8, <2>1, <2>2
<1>10. ElementsAt(UserParts, A)[c] = UserParts[n]
  BY <1>7, <1>9 DEF ElementsAt
<1> QED
  BY <1>5, <1>6, <1>7, <1>9, <1>10

\* The parts asked for, as they are after a step.
LEMMA AskedStep ==
    ASSUME EngineInv, EngineInv', [Next]_vars
    PROVE  \E S : \E s \in Seq(S) : \E x \in S :
              /\ s = ElementsAt(UserParts, AskedAt) /\ Len(s) = Cardinality(AskedAt)
              /\ x = ForUserService.e
              /\ ApplyRules /\ Asks(event, "CALL_USER_SERVICE") =>
                    /\ ElementsAt(UserParts, AskedAt)' = Append(s, x)
                    /\ Cardinality(AskedAt)' = Len(s) + 1
              /\ ~(ApplyRules /\ Asks(event, "CALL_USER_SERVICE")) =>
                    /\ ElementsAt(UserParts, AskedAt)' = s
                    /\ Cardinality(AskedAt)' = Len(s)
<1>1. PICK S : /\ UserParts \in Seq(S) /\ Len(UserParts) = ruled /\ ruled \in Nat
               /\ ForUserService.e \in S /\ AskedAt \in SUBSET (1 .. ruled)
  BY UserPartsSeq
<1>2. PICK n \in Nat, U \in Seq(S), x \in S :
         n = ruled /\ U = UserParts /\ x = ForUserService.e /\ Len(U) = n
  BY <1>1
<1>3. PICK A \in SUBSET (1 .. n) : A = AskedAt
  BY <1>1, <1>2
<1>4. PICK s \in Seq(S) : s = ElementsAt(U, A) /\ Len(s) = Cardinality(A)
  BY <1>2, ElementsAtTypes
<1>5. /\ ElementsAt(Append(U, x), A) = s
      /\ ElementsAt(Append(U, x), A \cup {n + 1}) = Append(s, x)
  <2>1. /\ ElementsAt(Append(U, x), A) = ElementsAt(U, A)
        /\ ElementsAt(Append(U, x), A \cup {Len(U) + 1}) = Append(ElementsAt(U, A), x)
    <3>1. A \in SUBSET (1 .. Len(U))
      BY <1>2
    <3> QED
      BY <3>1, ElementsAtAppend
  <2> QED
    BY <1>2, <1>4, <2>1
<1>6. Cardinality(A \cup {n + 1}) = Len(s) + 1
  <2>1. IsFiniteSet(A)
    BY RankFacts
  <2>2. n + 1 \notin A
    <3>1. n + 1 \notin 1 .. n
      OBVIOUS
    <3> QED
      BY <3>1
  <2> QED
    BY <1>4, <2>1, <2>2, FS_AddElement
<1>7. PICK V, B : V = UserParts' /\ B = AskedAt'
  OBVIOUS
<1>8. CASE ruled' = ruled /\ ~ApplyRules /\ V = U /\ B = A
  BY <1>2, <1>3, <1>4, <1>7, <1>8
<1>9. CASE /\ V = Append(U, x)
           /\ B = IF Asks(event, "CALL_USER_SERVICE") THEN A \cup {n + 1} ELSE A
           /\ ~ApplyRules => event.type = EVENT_ERROR
  <2>1. event.type = EVENT_ERROR => ~Asks(event, "CALL_USER_SERVICE")
    BY DEF Asks, EVENT_ERROR, EVENT_UPDATE
  <2>2. CASE Asks(event, "CALL_USER_SERVICE")
    <3>1. ApplyRules
      BY <1>9, <2>1, <2>2
    <3>2. ElementsAt(V, B) = Append(s, x) /\ Cardinality(B) = Len(s) + 1
      BY <1>5, <1>6, <1>9, <2>2
    <3> QED
      BY <1>2, <1>3, <1>4, <1>7, <2>2, <3>1, <3>2
  <2>3. CASE ~Asks(event, "CALL_USER_SERVICE")
    <3>1. ElementsAt(V, B) = s /\ Cardinality(B) = Len(s)
      BY <1>4, <1>5, <1>9, <2>3
    <3> QED
      BY <1>2, <1>3, <1>4, <1>7, <2>3, <3>1
  <2> QED
    BY <2>2, <2>3
<1> QED
  BY <1>2, <1>3, <1>7, <1>8, <1>9, PartsStep

LEMMA UserStep ==
    ASSUME EngineInv, EngineInv', [Next]_vars, UserInv
    PROVE  UserInv'
<1>1. PICK S : \E s \in Seq(S) : \E x \in S :
              /\ s = ElementsAt(UserParts, AskedAt) /\ Len(s) = Cardinality(AskedAt)
              /\ x = ForUserService.e
              /\ ApplyRules /\ Asks(event, "CALL_USER_SERVICE") =>
                    /\ ElementsAt(UserParts, AskedAt)' = Append(s, x)
                    /\ Cardinality(AskedAt)' = Len(s) + 1
              /\ ~(ApplyRules /\ Asks(event, "CALL_USER_SERVICE")) =>
                    /\ ElementsAt(UserParts, AskedAt)' = s
                    /\ Cardinality(AskedAt)' = Len(s)
  BY AskedStep
<1>2. PICK s \in Seq(S), x \in S :
              /\ s = ElementsAt(UserParts, AskedAt) /\ Len(s) = Cardinality(AskedAt)
              /\ x = ForUserService.e
              /\ ApplyRules /\ Asks(event, "CALL_USER_SERVICE") =>
                    /\ ElementsAt(UserParts, AskedAt)' = Append(s, x)
                    /\ Cardinality(AskedAt)' = Len(s) + 1
              /\ ~(ApplyRules /\ Asks(event, "CALL_USER_SERVICE")) =>
                    /\ ElementsAt(UserParts, AskedAt)' = s
                    /\ Cardinality(AskedAt)' = Len(s)
  BY <1>1
<1>3. PICK c \in Nat : c = Len(s)
  BY LenProperties
<1>4. queue_out_user = SubSeq(s, 1, Kept(c - ToGo))
  BY <1>2, <1>3 DEF UserInv
<1>5. QUEUE_SIZE \in Nat \ {0} /\ ToGoIs /\ ToGoIs'
  BY EngineAssumption, ToGoFacts, PTL
<1>6. \A k \in Nat : k <= c => Kept(k) \in Nat /\ Kept(k) <= c
  BY <1>5 DEF Kept
<1>7. CASE ApplyRules
  <2>1. out = << >> /\ queue_out_user' = queue_out_user
    BY <1>7 DEF ApplyRules, EngineInv, DispatcherInv, outputs
  <2>2. ToGo = 0 /\ c - ToGo = c
    BY <1>5, <2>1 DEF ToGoIs
  <2>3. ForNotify' = ForNotify /\ ForUserService' = ForUserService
    <3>1. UNCHANGED <<event, update_rules>>
      BY <1>7, RulesSettled DEF ApplyRules, EngineInv
    <3> QED
      BY <3>1, BatchFrame
  <2>4. CASE Asks(event, "CALL_USER_SERVICE")
    <3>1. out' = <<ForUserService>> \/ out' = <<ForNotify, ForUserService>>
      BY <1>7, <2>4, ApplyRulesOut
    <3>2. ToGo' = 1
      BY <1>5, <2>3, <3>1 DEF ToGoIs
    <3>3. Cardinality(AskedAt)' - ToGo' = c /\ ElementsAt(UserParts, AskedAt)' = Append(s, x)
      BY <1>2, <1>3, <1>7, <2>4, <3>2
    <3>4. SubSeq(Append(s, x), 1, Kept(c)) = SubSeq(s, 1, Kept(c))
      <4>1. PICK k \in Nat : k = Kept(c) /\ k <= Len(s)
        BY <1>3, <1>6
      <4>2. SubSeq(Append(s, x), 1, k) = SubSeq(s, 1, k)
        BY <4>1, PrefixAppend
      <4> QED
        BY <4>1, <4>2
    <3> QED
      BY <1>4, <2>1, <2>2, <3>3, <3>4 DEF UserInv
  <2>5. CASE ~Asks(event, "CALL_USER_SERVICE")
    <3>1. out' = << >> \/ out' = <<ForNotify>>
      BY <1>7, <2>5, ApplyRulesOut
    <3>2. ToGo' = 0
      BY <1>5, <2>3, <3>1 DEF ToGoIs
    <3>3. Cardinality(AskedAt)' - ToGo' = c /\ ElementsAt(UserParts, AskedAt)' = s
      BY <1>2, <1>3, <2>5, <3>2
    <3> QED
      BY <1>4, <2>1, <2>2, <3>3 DEF UserInv
  <2> QED
    BY <2>4, <2>5
<1>8. CASE ~ApplyRules /\ UNCHANGED <<out, queue_out_user>>
  <2>1. ToGo' = ToGo
    BY <1>8 DEF ToGo
  <2>2. Cardinality(AskedAt)' = c /\ ElementsAt(UserParts, AskedAt)' = s
    BY <1>2, <1>3, <1>8
  <2> QED
    BY <1>4, <1>8, <2>1, <2>2 DEF UserInv
<1>9. CASE DispatchPush
  <2>1. ~ApplyRules /\ ppc = "push"
    BY <1>9 DEF DispatchPush, ApplyRules
  <2>2. Cardinality(AskedAt)' = c /\ ElementsAt(UserParts, AskedAt)' = s
    BY <1>2, <1>3, <2>1
  <2>3. ForNotify' = ForNotify /\ ForUserService' = ForUserService
    <3>1. UNCHANGED <<event, update_rules>>
      BY <1>9, <2>1, RulesSettled DEF DispatchPush, EngineInv
    <3> QED
      BY <3>1, BatchFrame
  <2>4. ForNotify # ForUserService
    <3>1. ForNotify.to = "notify" /\ ForUserService.to = "user"
      BY DEF ForNotify, ForUserService
    <3> QED
      BY <3>1
  <2>5. \/ /\ out = <<ForNotify>> /\ out' = << >> /\ Head(out) = ForNotify
        \/ /\ out = <<ForUserService>> /\ out' = << >> /\ Head(out) = ForUserService
        \/ /\ out = <<ForNotify, ForUserService>> /\ out' = <<ForUserService>>
           /\ Head(out) = ForNotify
    <3>1. ASSUME NEW a, NEW b PROVE Head(<<a>>) = a /\ Head(<<a, b>>) = a
      OBVIOUS
    <3> QED
      BY <1>9, <3>1, DispatchPushOut
  <2>6. CASE Head(out) = ForNotify
    <3>1. queue_out_user' = queue_out_user
      BY <1>9, <2>4, <2>6, DispatchPushOut
    <3>2. ToGo' = ToGo
      BY <1>5, <2>3, <2>4, <2>5, <2>6 DEF ToGoIs
    <3> QED
      BY <1>4, <2>2, <3>1, <3>2 DEF UserInv
  <2>7. CASE Head(out) = ForUserService
    <3>1. queue_out_user' = push_event(queue_out_user, x) /\ Asks(event, "CALL_USER_SERVICE")
      BY <1>2, <1>9, <2>4, <2>7, DispatchPushOut
    <3>2. ToGo = 1 /\ ToGo' = 0
      BY <1>5, <2>3, <2>4, <2>5, <2>7 DEF ToGoIs
    <3>3. c # 0 /\ s[c] = x
      BY <1>2, <1>3, <2>1, <3>1, NewestIsToGo
    <3>4. PICK m \in Nat : m + 1 = c
      <4>1. c - 1 \in Nat /\ (c - 1) + 1 = c
        BY <3>3
      <4> QED
        BY <4>1
    <3>5. queue_out_user = SubSeq(s, 1, Kept(m))
      <4>1. c - ToGo = m
        BY <3>2, <3>4
      <4> QED
        BY <1>4, <4>1
    <3>6. PICK k \in Nat : k = Kept(m) /\ k <= Len(s)
      BY <1>3, <1>6, <3>4
    <3>7. Len(queue_out_user) = k
      BY <3>5, <3>6, PrefixOf
    <3>8. UserInv' <=> queue_out_user' = SubSeq(s, 1, Kept(c))
      BY <2>2, <3>2 DEF UserInv
    <3>9. CASE m < QUEUE_SIZE - 1
      <4>1. k = m /\ Kept(c) = m + 1 /\ m + 1 <= Len(s)
        BY <1>3, <1>5, <3>4, <3>6, <3>9 DEF Kept
      <4>2. queue_out_user' = Append(queue_out_user, x)
        BY <1>5, <3>1, <3>7, <3>9, <4>1 DEF push_event, Full
      <4>3. SubSeq(s, 1, m + 1) = Append(SubSeq(s, 1, m), s[m + 1])
        BY <4>1, PrefixNext
      <4> QED
        BY <3>3, <3>4, <3>5, <3>6, <3>8, <4>1, <4>2, <4>3
    <3>10. CASE ~(m < QUEUE_SIZE - 1)
      <4>1. k = QUEUE_SIZE - 1 /\ Kept(c) = QUEUE_SIZE - 1
        BY <1>5, <3>4, <3>6, <3>10 DEF Kept
      <4>2. queue_out_user' = queue_out_user
        BY <3>1, <3>7, <4>1 DEF push_event, Full
      <4> QED
        BY <3>5, <3>6, <3>8, <4>1, <4>2
    <3> QED
      BY <3>9, <3>10
  <2> QED
    BY <2>5, <2>6, <2>7
<1>10. ~ApplyRules /\ ~DispatchPush => UNCHANGED <<out, queue_out_user>>
  <2>1. CASE Processor
    BY <2>1 DEF Processor, ProcIdle, ProcPop, UpdateVar, HandleError, outputs
  <2>2. CASE ~Processor
    BY <2>2, Frames DEF processor
  <2> QED
    BY <2>1, <2>2
<1> QED
  BY <1>7, <1>8, <1>9, <1>10

\* queue_out_user holds the oldest parts for the user's service, in order, as
\* many as it has room for: for any size of the queue, rules and messages.
THEOREM UserQueueAlwaysKeepsOldest == Spec => []UserQueueKeepsOldest
<1>1. Init => UserInv
  <2> SUFFICES ASSUME Init PROVE UserInv
    OBVIOUS
  <2>1. ruled = 0 /\ queue_out_user = << >> /\ out = << >>
    BY DEF Init, ruled, begun
  <2>2. AskedAt = {}
    BY <2>1 DEF AskedAt
  <2>3. Cardinality(AskedAt) = 0 /\ ToGo = 0 /\ QUEUE_SIZE \in Nat \ {0}
    BY <2>1, <2>2, FS_EmptySet, ToGoFacts, EngineAssumption DEF ToGoIs
  <2>4. Kept(Cardinality(AskedAt) - ToGo) = 0
    BY <2>3 DEF Kept
  <2>5. PICK s : s = ElementsAt(UserParts, AskedAt)
    OBVIOUS
  <2>6. s = << >>
    <3>1. PICK S : UserParts \in Seq(S) /\ {} \in SUBSET (1 .. Len(UserParts))
      BY InitInv, UserPartsSeq
    <3> QED
      BY <2>2, <2>5, <3>1, ElementsAtTypes
  <2>7. SubSeq(s, 1, 0) = << >>
    BY <2>6
  <2> QED
    BY <2>1, <2>4, <2>5, <2>7 DEF UserInv
<1>2. EngineInv /\ EngineInv' /\ [Next]_vars /\ UserInv => UserInv'
  BY UserStep
<1>3. EngineInv /\ UserInv => UserQueueKeepsOldest
  <2> SUFFICES ASSUME EngineInv, UserInv PROVE UserQueueKeepsOldest
    OBVIOUS
  <2>1. PICK n \in Nat : n = ruled /\ DOMAIN Ruled = 1 .. n /\ Ruled \in Seq(Events) /\ Len(Ruled) = n
    BY RuledFacts DEF RuledIsPrefix
  <2>2. PICK A \in SUBSET (1 .. n) : A = AskedAt
    BY <2>1 DEF AskedAt
  <2>3. {k \in DOMAIN Ruled : Asks(Ruled[k], "CALL_USER_SERVICE")} = A
    BY <2>1, <2>2 DEF AskedAt, Selected
  <2>4. PICK c \in Nat : c = Cardinality(A)
    BY RankFacts
  <2>5. PICK es : es = ElementsAt(Ruled, A)
    OBVIOUS
  <2>6. DOMAIN es = 1 .. c /\ \A k \in 1 .. c : es[k] = Ruled[Nth(A, k)]
    BY <2>4, <2>5 DEF ElementsAt
  <2>7. PICK asked : asked = [k \in DOMAIN es |-> Batch(es[k], "CALL_USER_SERVICE")]
    OBVIOUS
  <2>8. asked = ElementsAt(UserParts, A)
    <3>1. \A k \in 1 .. c : Nth(A, k) \in 1 .. n
      BY <2>4, NthFacts
    <3>2. \A k \in 1 .. c : UserParts[Nth(A, k)] = Batch(es[k], "CALL_USER_SERVICE")
      BY <2>1, <2>6, <3>1 DEF UserParts, Part
    <3>3. asked = [k \in 1 .. c |-> Batch(es[k], "CALL_USER_SERVICE")]
      BY <2>6, <2>7
    <3>4. ElementsAt(UserParts, A) = [k \in 1 .. c |-> UserParts[Nth(A, k)]]
      BY <2>4 DEF ElementsAt
    <3> QED
      BY <3>2, <3>3, <3>4
  <2>9. Len(asked) = c
    BY <2>6, <2>7
  <2>10. queue_out_user = SubSeq(asked, 1, Kept(Len(asked) - ToGo))
    BY <2>2, <2>4, <2>8, <2>9 DEF UserInv
  <2> QED
    BY <2>3, <2>5, <2>7, <2>10 DEF UserQueueKeepsOldest, Kept, ToGo
<1> QED
  BY <1>1, <1>2, <1>3, InvAlways, PTL DEF Spec

===============================================================================
