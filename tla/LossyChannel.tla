----------------------------- MODULE LossyChannel -----------------------------
(***************************************************************************)
(* What the engine promises the parent nodes, one channel for each: what   *)
(* the rules select for a node is sent down its channel, any of it may be  *)
(* lost on the way, and what arrives arrives in the order sent and once.   *)
(* TwinEngine is shown to implement it; LatencyTest puts it between the    *)
(* programs of the latency test.                                           *)
(***************************************************************************)
EXTENDS Integers, SequencesExt

CONSTANT Channel

VARIABLES line,     \* what is on its way on each channel, oldest first
          got       \* what each channel has handed over, in order

Init ==
    /\ line = [c \in Channel |-> << >>]
    /\ got = [c \in Channel |-> << >>]

Send(c, m) ==
    /\ UNCHANGED got
    /\ line' = [line EXCEPT ![c] = Append(@, m)]

Lose(c, k) ==
    /\ k \in DOMAIN line[c]
    /\ UNCHANGED got
    /\ line' = [line EXCEPT ![c] = RemoveAt(@, k)]

Deliver(c) ==
    /\ line[c] # << >>
    /\ got' = [got EXCEPT ![c] = Append(@, Head(line[c]))]
    /\ line' = [line EXCEPT ![c] = Tail(@)]

\* Every step changes a line.  Anything may be sent: the last message of the
\* channel is the new one.
Next ==
    /\ line' # line
    /\ \E c \in Channel :
          \/ line'[c] # << >> /\ Send(c, Last(line'[c]))
          \/ \E k \in 1 .. Len(line[c]) : Lose(c, k)
          \/ Deliver(c)

Spec == Init /\ [][Next]_<<line, got>>
===============================================================================
