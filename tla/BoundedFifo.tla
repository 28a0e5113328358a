----------------------------- MODULE BoundedFifo -----------------------------
(***************************************************************************)
(* What event_queue.h promises to the two threads that share a queue: a    *)
(* first-in first-out buffer of at most Capacity events.  A push is        *)
(* refused exactly when the buffer is full, a pop exactly when it is       *)
(* empty, and each event comes out once, whole and in order.               *)
(***************************************************************************)
EXTENDS Integers, Sequences

CONSTANTS Event,     \* what the queue carries
          Capacity   \* how many events it holds

VARIABLES fifo,      \* the events in the queue, oldest first
          got,       \* the event the last successful pop handed out
          pushRet,   \* what the last push returned: 0, or -1 when refused
          popRet     \* what the last pop returned: 0, or -1 when refused

vars == <<fifo, got, pushRet, popRet>>

Init ==
    /\ fifo = << >>
    /\ got \in Event
    /\ pushRet = 0
    /\ popRet = 0

Push(e) ==
    /\ Len(fifo) < Capacity
    /\ fifo' = Append(fifo, e)
    /\ pushRet' = 0
    /\ UNCHANGED <<got, popRet>>

RefusePush ==
    /\ Len(fifo) = Capacity
    /\ pushRet' = -1
    /\ UNCHANGED <<fifo, got, popRet>>

Pop ==
    /\ fifo # << >>
    /\ got' = Head(fifo)
    /\ fifo' = Tail(fifo)
    /\ popRet' = 0
    /\ UNCHANGED pushRet

RefusePop ==
    /\ fifo = << >>
    /\ popRet' = -1
    /\ UNCHANGED <<fifo, got, pushRet>>

Next ==
    \/ \E e \in Event : Push(e)
    \/ RefusePush
    \/ Pop
    \/ RefusePop

Spec == Init /\ [][Next]_vars
==============================================================================
