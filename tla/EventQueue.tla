------------------------------ MODULE EventQueue ------------------------------
(***************************************************************************)
(* event_queue.c, one queue between one producer thread and one consumer   *)
(* thread (receiver -> processor, or processor -> sender), at the grain of *)
(* its accesses to shared memory.  head and tail are plain size_t fields,  *)
(* and an event_t is a struct that is copied in several words, so nothing  *)
(* but the order of these accesses keeps the two threads apart.            *)
(*                                                                         *)
(* InOrder says whether the consumer sees the producer's stores in program *)
(* order.  It does when both threads run on the core that                  *)
(* pin_thread_to_core gives them, or on a machine with total store order.  *)
(* It need not when the pinning failed on AArch64, for which full_test_v1  *)
(* and full_test_v2 are built: push_event has no barrier between the copy  *)
(* of the event and the store of head.                                     *)
(***************************************************************************)
EXTENDS Integers, Sequences

CONSTANTS QUEUE_SIZE,   \* number of slots of the ring
          Word,         \* the words an event_t is copied in
          Val,          \* what a word can hold
          InOrder       \* stores become visible in program order

ASSUME QueueAssumption ==
    /\ QUEUE_SIZE \in Nat \ {0}
    /\ InOrder \in BOOLEAN

Slot == 0 .. QUEUE_SIZE - 1

event_t == [Word -> Val]

VARIABLES
    buffer,     \* q->buffer, slot by slot
    head,       \* q->head: the next slot to fill, stored by the producer only
    tail,       \* q->tail: the next slot to empty, stored by the consumer only
    ppc,        \* where the producer is in push_event
    pev,        \* the event being pushed
    slot,       \* the producer's reading of q->head in this push
    toStore,    \* words of pev not yet visible in the buffer
    pushRet,    \* result of the last push_event
    cpc,        \* where the consumer is in pop_event
    event,      \* the caller's event_t that pop_event copies into
    toLoad,     \* words of the slot not yet copied
    popRet,     \* result of the last pop_event
    got         \* the event the last successful pop_event handed out

pvars == <<head, ppc, pev, slot, toStore, pushRet>>
cvars == <<tail, cpc, event, toLoad, popRet, got>>
vars  == <<buffer, pvars, cvars>>

NextIndex_NoWrap(i) == IF i = QUEUE_SIZE THEN 0 ELSE i + 1

NextIndex(i) == (i + 1) % QUEUE_SIZE

\* init_queue sets the two indices and leaves the buffer as it finds it.
init_queue ==
    /\ buffer \in [Slot -> event_t]
    /\ head = 0
    /\ tail = 0

Init ==
    /\ init_queue
    /\ ppc = "idle" /\ slot = 0 /\ toStore = {} /\ pushRet = 0
    /\ cpc = "idle" /\ toLoad = {} /\ popRet = 0
    /\ pev \in event_t /\ event = pev /\ got = pev

-------------------------------------------------------------------------------
(* push_event, by the producer thread                                      *)

PushCall(e) ==
    /\ ppc = "idle"
    /\ ppc' = "check"
    /\ pev' = e
    /\ slot' = head
    /\ UNCHANGED <<buffer, head, toStore, pushRet, cvars>>

PushFull_OneEarly ==
    /\ ppc = "check"
    /\ NextIndex(slot) = tail \/ NextIndex(NextIndex(slot)) = tail
    /\ ppc' = "idle"
    /\ pushRet' = -1
    /\ UNCHANGED <<buffer, head, pev, slot, toStore, cvars>>

PushFull ==
    /\ ppc = "check"
    /\ NextIndex(slot) = tail
    /\ ppc' = "idle"
    /\ pushRet' = -1
    /\ UNCHANGED <<buffer, head, pev, slot, toStore, cvars>>

PushRoom_Unchecked ==
    /\ ppc = "check"
    /\ ppc' = "store"
    /\ toStore' = Word
    /\ UNCHANGED <<buffer, head, pev, slot, pushRet, cvars>>

PushRoom ==
    /\ ppc = "check"
    /\ NextIndex(slot) # tail
    /\ ppc' = "store"
    /\ toStore' = Word
    /\ UNCHANGED <<buffer, head, pev, slot, pushRet, cvars>>

PushStore(w) ==
    /\ ppc = "store"
    /\ w \in toStore
    /\ buffer' = [buffer EXCEPT ![slot] = [@ EXCEPT ![w] = pev[w]]]
    /\ toStore' = toStore \ {w}
    /\ UNCHANGED <<head, ppc, pev, slot, pushRet, cvars>>

PushPublish_BeforeCopy ==
    /\ ppc = "store"
    /\ head = slot
    /\ head' = NextIndex(slot)
    /\ pushRet' = 0
    /\ UNCHANGED <<buffer, ppc, pev, slot, toStore, cvars>>

PushPublish ==
    /\ ppc = "store"
    /\ head = slot
    /\ InOrder => toStore = {}
    /\ head' = NextIndex(slot)
    /\ pushRet' = 0
    /\ UNCHANGED <<buffer, ppc, pev, slot, toStore, cvars>>

PushReturn ==
    /\ ppc = "store"
    /\ head # slot
    /\ toStore = {}
    /\ ppc' = "idle"
    /\ UNCHANGED <<buffer, head, pev, slot, toStore, pushRet, cvars>>

Producer ==
    \/ \E e \in event_t : PushCall(e)
    \/ PushFull
    \/ PushRoom
    \/ \E w \in Word : PushStore(w)
    \/ PushPublish
    \/ PushReturn

-------------------------------------------------------------------------------
(* pop_event, by the consumer thread                                       *)

PopEmpty ==
    /\ cpc = "idle"
    /\ head = tail
    /\ popRet' = -1
    /\ UNCHANGED <<buffer, pvars, tail, cpc, event, toLoad, got>>

PopBegin ==
    /\ cpc = "idle"
    /\ head # tail
    /\ cpc' = "load"
    /\ toLoad' = Word
    /\ UNCHANGED <<buffer, pvars, tail, event, popRet, got>>

PopLoad(w) ==
    /\ cpc = "load"
    /\ w \in toLoad
    /\ event' = [event EXCEPT ![w] = buffer[tail][w]]
    /\ toLoad' = toLoad \ {w}
    /\ UNCHANGED <<buffer, pvars, tail, cpc, popRet, got>>

PopRelease_Early ==
    /\ cpc = "load"
    /\ tail' = NextIndex(tail)
    /\ cpc' = "idle"
    /\ popRet' = 0
    /\ got' = event
    /\ UNCHANGED <<buffer, pvars, event, toLoad>>

PopRelease ==
    /\ cpc = "load"
    /\ toLoad = {}
    /\ tail' = NextIndex(tail)
    /\ cpc' = "idle"
    /\ popRet' = 0
    /\ got' = event
    /\ UNCHANGED <<buffer, pvars, event, toLoad>>

Consumer ==
    \/ PopEmpty
    \/ PopBegin
    \/ \E w \in Word : PopLoad(w)
    \/ PopRelease

Next == Producer \/ Consumer

\* The consumer polls for ever in event_processor_loop or zmq_sender_thread,
\* and a push_event that was called runs to its end; new calls are up to the
\* edge devices, so they are not fair.
Fairness ==
    /\ WF_vars(Consumer)
    /\ WF_vars(Producer /\ ppc # "idle")

Spec == Init /\ [][Next]_vars /\ Fairness

-------------------------------------------------------------------------------
(* Properties                                                              *)

TypeOK ==
    /\ buffer \in [Slot -> event_t]
    /\ head \in Slot /\ tail \in Slot /\ slot \in Slot
    /\ ppc \in {"idle", "check", "store"} /\ cpc \in {"idle", "load"}
    /\ pev \in event_t /\ event \in event_t /\ got \in event_t
    /\ toStore \in SUBSET Word /\ toLoad \in SUBSET Word
    /\ pushRet \in {0, -1} /\ popRet \in {0, -1}

\* How many events lie between tail and head, and where the i-th of them is.
Count == IF head >= tail THEN head - tail ELSE head + QUEUE_SIZE - tail

Index(i) ==
    IF tail + i - 1 < QUEUE_SIZE THEN tail + i - 1 ELSE tail + i - 1 - QUEUE_SIZE

Contents == [i \in 1 .. Count |-> buffer[Index(i)]]

\* The producer never writes a word of the slot the consumer is copying from,
\* whatever the two threads are doing: the race the unlocked push_event and
\* pop_event must avoid between their index checks and their index stores.
NoSlotRace ==
    ppc = "store" /\ toStore # {} /\ cpc = "load" => slot # tail

\* Whatever the consumer has copied so far is the oldest event of the queue,
\* so pop_event cannot hand out an event that is torn between two pushes.
NoTornEvent ==
    cpc = "load" => \A w \in Word \ toLoad : event[w] = buffer[tail][w]

\* event_queue.c implements a bounded FIFO of QUEUE_SIZE - 1 events: the ring
\* between tail and head is the queue, a push takes effect when head is
\* stored, a pop when tail is stored, a refusal when the other index is read.
Fifo == INSTANCE BoundedFifo
            WITH Event <- event_t, Capacity <- QUEUE_SIZE - 1, fifo <- Contents

ImplementsFifo == Fifo!Spec

\* An event that push_event accepted is handed out by a later pop_event.
EventuallyPopped ==
    \A e \in event_t :
        (\E i \in 1 .. Count : Contents[i] = e) ~> (got = e)
===============================================================================
