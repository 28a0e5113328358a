------------------------------ MODULE MCEventLink ------------------------------
(* EventLink with small messages; three updates fit in an event_t.         *)
EXTENDS EventLink

CONSTANTS Kinds,      \* number formats the devices use for values
          MaxVars     \* variables in the longest message

\* Variable ids below, at and above a byte, and the largest that fits.
VarIds == <<0, 255, 256, 65535, 7, 19, 20>>

Item(kind, n) ==
    IF kind = "float" THEN FloatItem(Float(n)) ELSE [kind |-> kind, n |-> n]

Header(type, twin) == <<IntItem(type), IntItem(99), IntItem(0), IntItem(twin)>>

\* The Python client's deviation is a float.
FloatDeviation(m) == [m EXCEPT !.items[3] = FloatItem(Float(1))]

\* count variables with values of one kind, declared as that many or not.
UpdateMessage(twin, count, declared, kind) ==
    [array_size |-> HEADER + 1 + 2 * count,
     items      |-> Header(EVENT_UPDATE, twin) \o <<IntItem(declared)>> \o
         [k \in 1 .. 2 * count |->
             IF k % 2 = 1 THEN IntItem(VarIds[(k + 1) \div 2]) ELSE Item(kind, k \div 2)]]

ErrorMessage(type, code) ==
    [array_size |-> HEADER + 2,
     items      |-> Header(type, 2) \o <<IntItem(code), [kind |-> "str"]>>]

\* The message as it is when its sender stopped packing, or declared the array
\* too long: only some of the items are there.
Cuts(m) == {[m EXCEPT !.items = SubSeq(m.items, 1, n)] : n \in 0 .. Len(m.items) - 1}

Whole ==
    {UpdateMessage(t, c, d, k) :
        t \in {1, 10}, c \in 0 .. MaxVars, d \in 0 .. MaxVars, k \in Kinds}
    \cup {ErrorMessage(t, c) : t \in {EVENT_ERROR, 2}, c \in 0 .. 4}
    \cup {[ErrorMessage(EVENT_ERROR, 3) EXCEPT !.array_size = s] : s \in 0 .. HEADER}
    \cup {FloatDeviation(UpdateMessage(1, c, c, "float")) : c \in 0 .. MaxVars}

\* A var_count whose double is too large for a uint32_t.
Wrapping == {UpdateMessage(1, c, UINT32 \div 2 + c, "float") : c \in 0 .. MaxVars}

Ended ==
    UNION {Cuts(UpdateMessage(t, c, c, k)) : t \in {1, 10}, c \in 0 .. MaxVars, k \in Kinds}
    \cup Cuts(ErrorMessage(EVENT_ERROR, 3))

MCMessages == Whole \cup Wrapping \cup Ended
===============================================================================
