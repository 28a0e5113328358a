--------------------------- MODULE EventQueueProofs ---------------------------
(***************************************************************************)
(* Proofs about EventQueue for every QUEUE_SIZE and every event_t.         *)
(***************************************************************************)
EXTENDS EventQueue, SequenceTheorems, TLAPS

-------------------------------------------------------------------------------
(* Arithmetic of the ring                                                  *)

\* The index computation of push_event and pop_event adds one and wraps.
LEMMA NextIndexWraps ==
    ASSUME NEW i \in Slot
    PROVE  NextIndex(i) = IF i + 1 = QUEUE_SIZE THEN 0 ELSE i + 1
<1>1. CASE i + 1 = QUEUE_SIZE
  BY <1>1, QueueAssumption DEF Slot, NextIndex
<1>2. CASE i + 1 # QUEUE_SIZE
  BY <1>2, QueueAssumption DEF Slot, NextIndex
<1>3. QED
  BY <1>1, <1>2

\* It stays in the ring, and two slots never share a successor.
LEMMA NextIndexInjective ==
    ASSUME NEW i \in Slot, NEW j \in Slot
    PROVE  /\ NextIndex(i) \in Slot
           /\ NextIndex(i) = NextIndex(j) => i = j
<1>1. NextIndex(i) = IF i + 1 = QUEUE_SIZE THEN 0 ELSE i + 1
  BY NextIndexWraps
<1>2. NextIndex(j) = IF j + 1 = QUEUE_SIZE THEN 0 ELSE j + 1
  BY NextIndexWraps
<1>3. QED
  BY <1>1, <1>2, QueueAssumption DEF Slot

-------------------------------------------------------------------------------
(* Type correctness                                                        *)

\* Every step of push_event and pop_event keeps the indices inside the ring
\* and the event copies whole structs, on any machine.
THEOREM TypeCorrect == Spec => []TypeOK
<1>1. Init => TypeOK
  BY QueueAssumption DEF Init, init_queue, TypeOK, Slot
<1>2. TypeOK /\ [Next]_vars => TypeOK'
  <2> SUFFICES ASSUME TypeOK, [Next]_vars
               PROVE  TypeOK'
    OBVIOUS
  <2> USE DEF TypeOK, pvars, cvars
  <2>1. ASSUME NEW e \in event_t, PushCall(e)
        PROVE  TypeOK'
    BY <2>1 DEF PushCall
  <2>2. CASE PushFull
    BY <2>2 DEF PushFull
  <2>3. CASE PushRoom
    BY <2>3 DEF PushRoom
  <2>4. ASSUME NEW w \in Word, PushStore(w)
        PROVE  TypeOK'
    BY <2>4 DEF PushStore, event_t
  <2>5. CASE PushPublish
    <3>1. NextIndex(slot) \in Slot
      BY NextIndexInjective
    <3>2. QED
      BY <2>5, <3>1 DEF PushPublish
  <2>6. CASE PushReturn
    BY <2>6 DEF PushReturn
  <2>7. CASE PopEmpty
    BY <2>7 DEF PopEmpty
  <2>8. CASE PopBegin
    BY <2>8 DEF PopBegin
  <2>9. ASSUME NEW w \in Word, PopLoad(w)
        PROVE  TypeOK'
    BY <2>9 DEF PopLoad, event_t
  <2>10. CASE PopRelease
    <3>1. NextIndex(tail) \in Slot
      BY NextIndexInjective
    <3>2. QED
      BY <2>10, <3>1 DEF PopRelease
  <2>11. CASE UNCHANGED vars
    BY <2>11 DEF vars
  <2>12. QED
    BY <2>1, <2>2, <2>3, <2>4, <2>5, <2>6, <2>7, <2>8, <2>9, <2>10, <2>11
       DEF Next, Producer, Consumer
<1>3. QED
  BY <1>1, <1>2, PTL DEF Spec

-------------------------------------------------------------------------------
(* The inductive invariant, when stores are seen in order                  *)

\* The producer works on the slot at head until it publishes it, has room
\* for it, and has copied the words it says it has copied.
ProducerInv ==
    /\ ppc = "check" => slot = head
    /\ ppc = "store" /\ head = slot => NextIndex(slot) # tail
    /\ ppc = "store" /\ head # slot => toStore = {}
    /\ ppc = "store" /\ head = slot =>
           \A w \in Word \ toStore : buffer[slot][w] = pev[w]

\* The consumer copies from a queue that holds something.
ConsumerInv ==
    /\ cpc = "load" => head # tail
    /\ NoTornEvent

IndInv == TypeOK /\ ProducerInv /\ ConsumerInv

\* One step of either thread preserves the invariant.
LEMMA IndInvStep ==
    ASSUME InOrder, IndInv, [Next]_vars, TypeOK'
    PROVE  IndInv'
<1> USE DEF IndInv, ProducerInv, ConsumerInv, NoTornEvent
<1> USE DEF pvars, cvars
<1>1. ASSUME NEW e \in event_t, PushCall(e)
      PROVE  IndInv'
  BY <1>1 DEF PushCall
<1>2. CASE PushFull
  BY <1>2 DEF PushFull
<1>3. CASE PushRoom
  BY <1>3 DEF PushRoom
<1>4. ASSUME NEW w \in Word, PushStore(w)
      PROVE  IndInv'
  <2>1. slot \in Slot /\ tail \in Slot /\ head = slot
    BY <1>4 DEF PushStore, TypeOK
  <2>2. buffer'[slot] = [buffer[slot] EXCEPT ![w] = pev[w]]
    BY <1>4, <2>1 DEF PushStore, TypeOK
  <2>3. \A v \in Word : buffer'[slot][v] = IF v = w THEN pev[w] ELSE buffer[slot][v]
    BY <2>1, <2>2 DEF TypeOK, event_t
  <2>4. ProducerInv'
    BY <1>4, <2>1, <2>3 DEF PushStore
  <2>5. cpc = "load" => buffer'[tail] = buffer[tail]
    BY <1>4, <2>1 DEF PushStore, TypeOK
  <2>6. ConsumerInv'
    BY <1>4, <2>5 DEF PushStore
  <2>7. QED
    BY <2>4, <2>6
<1>5. CASE PushPublish
  <2>1. NextIndex(slot) # tail /\ toStore = {}
    BY <1>5 DEF PushPublish
  <2>2. ProducerInv'
    BY <1>5, <2>1 DEF PushPublish
  <2>3. ConsumerInv'
    BY <1>5, <2>1 DEF PushPublish
  <2>4. QED
    BY <2>2, <2>3
<1>6. CASE PushReturn
  BY <1>6 DEF PushReturn
<1>7. CASE PopEmpty
  BY <1>7 DEF PopEmpty
<1>8. CASE PopBegin
  BY <1>8 DEF PopBegin
<1>9. ASSUME NEW w \in Word, PopLoad(w)
      PROVE  IndInv'
  <2>1. \A v \in Word : event'[v] = IF v = w THEN buffer[tail][w] ELSE event[v]
    BY <1>9 DEF PopLoad, TypeOK, event_t
  <2>2. QED
    BY <1>9, <2>1 DEF PopLoad
<1>10. CASE PopRelease
  <2>1. head # tail /\ head \in Slot /\ tail \in Slot
    BY <1>10 DEF PopRelease, TypeOK
  <2>2. NextIndex(head) # NextIndex(tail)
    BY <2>1, NextIndexInjective
  <2>3. QED
    BY <1>10, <2>2 DEF PopRelease
<1>11. CASE UNCHANGED vars
  BY <1>11 DEF vars
<1>12. QED
  BY <1>1, <1>2, <1>3, <1>4, <1>5, <1>6, <1>7, <1>8, <1>9, <1>10, <1>11
     DEF Next, Producer, Consumer

\* The invariant holds in every state when stores are seen in order.
LEMMA IndInvInvariant ==
    ASSUME InOrder
    PROVE  Spec => []IndInv
<1>1. Init => IndInv
  BY QueueAssumption
     DEF Init, init_queue, IndInv, ProducerInv, ConsumerInv, NoTornEvent, TypeOK, Slot
<1>2. IndInv /\ [Next]_vars /\ TypeOK' => IndInv'
  BY IndInvStep
<1>3. QED
  BY <1>1, <1>2, TypeCorrect, PTL DEF Spec

-------------------------------------------------------------------------------
(* Safety of the slots                                                     *)

\* The two threads of a queue never touch the words of one slot at once.
THEOREM SlotRaceFreedom ==
    ASSUME InOrder
    PROVE  Spec => []NoSlotRace
<1>1. IndInv => NoSlotRace
  BY DEF IndInv, ProducerInv, ConsumerInv, NoSlotRace
<1>2. QED
  BY <1>1, IndInvInvariant, PTL

\* No pop_event hands out an event mixed from two pushes.
THEOREM EventsAreWhole ==
    ASSUME InOrder
    PROVE  Spec => []NoTornEvent
<1>1. IndInv => NoTornEvent
  BY DEF IndInv, ConsumerInv
<1>2. QED
  BY <1>1, IndInvInvariant, PTL

-------------------------------------------------------------------------------
(* Refinement                                                              *)

\* Where the ring's contents lie: Count events, none of them in the slot at
\* head, the oldest of them at tail.
LEMMA ContentsShape ==
    ASSUME TypeOK
    PROVE  /\ Count \in 0 .. QUEUE_SIZE - 1
           /\ Count = 0 <=> head = tail
           /\ Count = QUEUE_SIZE - 1 <=> NextIndex(head) = tail
           /\ \A i \in 1 .. Count : Index(i) \in Slot /\ Index(i) # head
           /\ Contents \in Seq(event_t)
           /\ Len(Contents) = Count
           /\ \A i \in 1 .. Count : Contents[i] = buffer[Index(i)]
<1>1. head \in Slot /\ tail \in Slot /\ buffer \in [Slot -> event_t]
  BY DEF TypeOK
<1>2. /\ Count \in 0 .. QUEUE_SIZE - 1
      /\ Count = 0 <=> head = tail
  BY <1>1, QueueAssumption DEF Count, Slot
<1>3. Count = QUEUE_SIZE - 1 <=> NextIndex(head) = tail
  <2>1. NextIndex(head) = IF head + 1 = QUEUE_SIZE THEN 0 ELSE head + 1
    BY <1>1, NextIndexWraps
  <2>2. QED
    BY <1>1, <2>1, QueueAssumption DEF Count, Slot
<1>4. \A i \in 1 .. Count : Index(i) \in Slot /\ Index(i) # head
  BY <1>1, QueueAssumption DEF Count, Slot, Index
<1>5. Contents \in Seq(event_t) /\ Len(Contents) = Count
  BY <1>1, <1>2, <1>4 DEF Contents
<1>6. QED
  BY <1>2, <1>3, <1>4, <1>5 DEF Contents

\* A push takes effect when head is stored: the queue grows by the event.
LEMMA PublishAppends ==
    ASSUME InOrder, IndInv, PushPublish, TypeOK'
    PROVE  Contents' = Append(Contents, pev) /\ Len(Contents) < QUEUE_SIZE - 1
<1>1. /\ head = slot /\ toStore = {} /\ NextIndex(head) # tail
      /\ head' = NextIndex(head) /\ tail' = tail /\ buffer' = buffer
      /\ head \in Slot /\ tail \in Slot /\ pev \in event_t /\ buffer \in [Slot -> event_t]
  BY DEF PushPublish, IndInv, ProducerInv, TypeOK, cvars
<1>2. buffer[head] = pev
  <2>1. buffer[head] \in [Word -> Val] /\ pev \in [Word -> Val]
    BY <1>1 DEF event_t
  <2>2. \A w \in Word : buffer[head][w] = pev[w]
    BY <1>1 DEF PushPublish, IndInv, ProducerInv
  <2>3. QED
    BY <2>1, <2>2
<1>3. head' = IF head + 1 = QUEUE_SIZE THEN 0 ELSE head + 1
  BY <1>1, NextIndexWraps
<1>4. /\ Count \in 0 .. QUEUE_SIZE - 1
      /\ Count' = Count + 1
      /\ Index(Count + 1) = head
  BY <1>1, <1>3, QueueAssumption DEF Count, Index, Slot
<1>5. \A i \in 1 .. Count' : Index(i)' = Index(i)
  BY <1>1 DEF Index
<1>6. /\ Contents \in Seq(event_t) /\ Len(Contents) = Count
      /\ \A i \in 1 .. Count : Contents[i] = buffer[Index(i)]
      /\ Count # QUEUE_SIZE - 1
  BY <1>1, ContentsShape DEF IndInv
<1>7. Contents' = [i \in 1 .. Count + 1 |-> buffer[Index(i)]]
  BY <1>1, <1>4, <1>5 DEF Contents
<1>8. /\ Append(Contents, pev) \in Seq(event_t)
      /\ Len(Append(Contents, pev)) = Count + 1
      /\ \A i \in 1 .. Count + 1 :
             Append(Contents, pev)[i] = IF i = Count + 1 THEN pev ELSE Contents[i]
  BY <1>1, <1>4, <1>6
<1>9. \A i \in 1 .. Count + 1 : Append(Contents, pev)[i] = buffer[Index(i)]
  BY <1>2, <1>4, <1>6, <1>8
<1>10. /\ Contents' \in Seq(event_t)
       /\ Len(Contents') = Count + 1
       /\ \A i \in 1 .. Count + 1 : Contents'[i] = Append(Contents, pev)[i]
  <2>1. Count + 1 \in Nat /\ \A i \in 1 .. Count + 1 : buffer[Index(i)] \in event_t
    BY <1>4, <1>6, <1>8, <1>9
  <2>2. Contents' \in Seq(event_t) /\ Len(Contents') = Count + 1
    BY <1>7, <2>1
  <2>3. \A i \in 1 .. Count + 1 : Contents'[i] = buffer[Index(i)]
    BY <1>7
  <2>4. QED
    BY <1>9, <2>2, <2>3
<1>11. Contents' = Append(Contents, pev)
  BY <1>8, <1>10, SeqEqual
<1>12. QED
  BY <1>4, <1>6, <1>11, QueueAssumption

\* A pop takes effect when tail is stored: the queue loses its oldest event,
\* and that is the event the consumer has copied.
LEMMA ReleaseRemovesHead ==
    ASSUME IndInv, PopRelease, TypeOK'
    PROVE  /\ Contents # << >>
           /\ Contents' = Tail(Contents)
           /\ event = Head(Contents)
<1>1. /\ head # tail /\ toLoad = {}
      /\ tail' = NextIndex(tail) /\ head' = head /\ buffer' = buffer
      /\ head \in Slot /\ tail \in Slot /\ event \in event_t /\ buffer \in [Slot -> event_t]
  BY DEF PopRelease, IndInv, ConsumerInv, TypeOK, pvars
<1>2. event = buffer[tail]
  <2>1. buffer[tail] \in [Word -> Val] /\ event \in [Word -> Val]
    BY <1>1 DEF event_t
  <2>2. \A w \in Word : event[w] = buffer[tail][w]
    BY <1>1 DEF PopRelease, IndInv, ConsumerInv, NoTornEvent
  <2>3. QED
    BY <2>1, <2>2
<1>3. tail' = IF tail + 1 = QUEUE_SIZE THEN 0 ELSE tail + 1
  BY <1>1, NextIndexWraps
<1>4. /\ Count \in 1 .. QUEUE_SIZE - 1
      /\ Count' = Count - 1
      /\ Index(1) = tail
  BY <1>1, <1>3, QueueAssumption DEF Count, Index, Slot
<1>5. \A i \in 1 .. Count - 1 : Index(i)' = Index(i + 1)
  BY <1>1, <1>3, <1>4, QueueAssumption DEF Index, Slot
<1>6. /\ Contents \in Seq(event_t) /\ Len(Contents) = Count
      /\ \A i \in 1 .. Count : Contents[i] = buffer[Index(i)]
  BY ContentsShape DEF IndInv
<1>7. Contents' = [i \in 1 .. Count - 1 |-> buffer[Index(i + 1)]]
  BY <1>1, <1>4, <1>5 DEF Contents
<1>8. Contents # << >>
  BY <1>4, <1>6
<1>9. /\ Tail(Contents) \in Seq(event_t)
      /\ Len(Tail(Contents)) = Count - 1
      /\ \A i \in 1 .. Count - 1 : Tail(Contents)[i] = Contents[i + 1]
  BY <1>4, <1>6, <1>8, HeadTailProperties
<1>10. \A i \in 1 .. Count - 1 : Tail(Contents)[i] = buffer[Index(i + 1)]
  BY <1>4, <1>6, <1>9
<1>11. /\ Contents' \in Seq(event_t)
       /\ Len(Contents') = Count - 1
       /\ \A i \in 1 .. Count - 1 : Contents'[i] = Tail(Contents)[i]
  <2>1. Count - 1 \in Nat /\ \A i \in 1 .. Count - 1 : buffer[Index(i + 1)] \in event_t
    <3>1. \A i \in 1 .. Count - 1 : Contents[i + 1] \in event_t
      BY <1>4, <1>6
    <3>2. QED
      BY <1>4, <1>6, <3>1
  <2>2. Contents' \in Seq(event_t) /\ Len(Contents') = Count - 1
    BY <1>7, <2>1
  <2>3. \A i \in 1 .. Count - 1 : Contents'[i] = buffer[Index(i + 1)]
    BY <1>7
  <2>4. QED
    BY <1>10, <2>2, <2>3
<1>12. Contents' = Tail(Contents)
  BY <1>9, <1>11, SeqEqual
<1>13. Head(Contents) = buffer[tail]
  BY <1>4, <1>6
<1>14. QED
  BY <1>2, <1>8, <1>12, <1>13

\* A word stored ahead of publication is not yet part of the queue.
LEMMA StoreIsInvisible ==
    ASSUME InOrder, IndInv, NEW w \in Word, PushStore(w)
    PROVE  Contents' = Contents
<1>1. /\ head = slot /\ tail' = tail /\ head' = head
      /\ head \in Slot /\ buffer \in [Slot -> event_t]
      /\ \A j \in Slot : j # head => buffer'[j] = buffer[j]
  BY DEF PushStore, IndInv, ProducerInv, TypeOK, cvars
<1>2. Count' = Count /\ \A i \in 1 .. Count : Index(i)' = Index(i)
  BY <1>1 DEF Count, Index
<1>3. \A i \in 1 .. Count : Index(i) \in Slot /\ Index(i) # head
  BY ContentsShape DEF IndInv
<1>4. QED
  BY <1>1, <1>2, <1>3 DEF Contents

\* Every step of the two threads is a step of the bounded FIFO, or leaves it
\* unchanged.
LEMMA StepRefines ==
    ASSUME InOrder, IndInv, [Next]_vars, TypeOK'
    PROVE  [Fifo!Next]_(Fifo!vars)
<1> DEFINE Same == Contents' = Contents
<1> USE DEF pvars, cvars
<1>0. buffer' = buffer /\ head' = head /\ tail' = tail => Same
  BY DEF Contents, Count, Index
<1>1. ASSUME NEW e \in event_t, PushCall(e)
      PROVE  UNCHANGED Fifo!vars
  BY <1>0, <1>1 DEF PushCall, Fifo!vars
<1>2. CASE PushFull
  <2>1. Len(Contents) = QUEUE_SIZE - 1
    BY <1>2, ContentsShape DEF PushFull, IndInv, ProducerInv
  <2>2. QED
    BY <1>0, <1>2, <2>1 DEF PushFull, Fifo!Next, Fifo!RefusePush
<1>3. CASE PushRoom
  BY <1>0, <1>3 DEF PushRoom, Fifo!vars
<1>4. ASSUME NEW w \in Word, PushStore(w)
      PROVE  UNCHANGED Fifo!vars
  BY <1>4, StoreIsInvisible DEF PushStore, Fifo!vars
<1>5. CASE PushPublish
  <2>1. Fifo!Push(pev)
    BY <1>5, PublishAppends DEF PushPublish, Fifo!Push
  <2>2. pev \in event_t
    BY DEF IndInv, TypeOK
  <2>3. QED
    BY <2>1, <2>2 DEF Fifo!Next
<1>6. CASE PushReturn
  BY <1>0, <1>6 DEF PushReturn, Fifo!vars
<1>7. CASE PopEmpty
  <2>1. Contents = << >>
    BY <1>7, ContentsShape DEF PopEmpty, IndInv
  <2>2. QED
    BY <1>0, <1>7, <2>1 DEF PopEmpty, Fifo!Next, Fifo!RefusePop
<1>8. CASE PopBegin
  BY <1>0, <1>8 DEF PopBegin, Fifo!vars
<1>9. ASSUME NEW w \in Word, PopLoad(w)
      PROVE  UNCHANGED Fifo!vars
  BY <1>0, <1>9 DEF PopLoad, Fifo!vars
<1>10. CASE PopRelease
  BY <1>10, ReleaseRemovesHead DEF PopRelease, Fifo!Next, Fifo!Pop
<1>11. CASE UNCHANGED vars
  BY <1>0, <1>11 DEF vars, Fifo!vars
<1>12. QED
  BY <1>1, <1>2, <1>3, <1>4, <1>5, <1>6, <1>7, <1>8, <1>9, <1>10, <1>11
     DEF Next, Producer, Consumer

\* event_queue.c implements the bounded FIFO for every QUEUE_SIZE: events
\* leave once, whole and in order, a push is refused exactly when
\* QUEUE_SIZE - 1 events wait, a pop exactly when none does.
THEOREM QueueIsFifo ==
    ASSUME InOrder
    PROVE  Spec => ImplementsFifo
<1>1. Init => Fifo!Init
  <2> SUFFICES ASSUME Init
               PROVE  Fifo!Init
    OBVIOUS
  <2>1. Count = 0
    BY DEF Init, init_queue, Count
  <2>2. Contents = << >>
    BY <2>1 DEF Contents
  <2>3. QED
    BY <2>2 DEF Init, Fifo!Init
<1>2. IndInv /\ [Next]_vars /\ TypeOK' => [Fifo!Next]_(Fifo!vars)
  BY StepRefines
<1>3. QED
  BY <1>1, <1>2, IndInvInvariant, TypeCorrect, PTL DEF Spec, ImplementsFifo, Fifo!Spec
===============================================================================
