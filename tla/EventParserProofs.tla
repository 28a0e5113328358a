--------------------------- MODULE EventParserProofs ---------------------------
(***************************************************************************)
(* What deserialize_event and serialize_event make of any message and any  *)
(* event: lemmas for the modules that use them, after a few about          *)
(* sequences and finite sets in general.                                   *)
(***************************************************************************)
EXTENDS EventParser, SequencesExt, SequenceTheorems, FiniteSetTheorems, TLAPS

-------------------------------------------------------------------------------
(* Sequences and finite sets                                               *)

LEMMA RemoveAtProperties ==
    ASSUME NEW S, NEW s \in Seq(S), NEW i \in 1 .. Len(s)
    PROVE  /\ RemoveAt(s, i) \in Seq(S)
           /\ Len(RemoveAt(s, i)) = Len(s) - 1
           /\ \A j \in 1 .. Len(s) - 1 :
                 RemoveAt(s, i)[j] = s[IF j < i THEN j ELSE j + 1]
<1> DEFINE n == Len(s)
           a == SubSeq(s, 1, i - 1)
           b == SubSeq(s, i + 1, n)
<1>1. n \in Nat /\ i \in Nat /\ i >= 1 /\ i <= n
  BY LenProperties
<1>2. a \in Seq(S) /\ Len(a) = i - 1 /\ \A j \in 1 .. i - 1 : a[j] = s[j]
  BY <1>1, SubSeqProperties
<1>3. b \in Seq(S) /\ Len(b) = n - i /\ \A j \in 1 .. n - i : b[j] = s[i + j]
  BY <1>1, SubSeqProperties
<1>4. RemoveAt(s, i) = a \o b
  BY DEF RemoveAt
<1> HIDE DEF a, b
<1>5. /\ a \o b \in Seq(S) /\ Len(a \o b) = n - 1
      /\ \A j \in 1 .. n - 1 :
            (a \o b)[j] = IF j <= i - 1 THEN a[j] ELSE b[j - (i - 1)]
  <2>1. /\ a \o b \in Seq(S) /\ Len(a \o b) = Len(a) + Len(b)
        /\ \A j \in 1 .. Len(a) + Len(b) :
              (a \o b)[j] = IF j <= Len(a) THEN a[j] ELSE b[j - Len(a)]
    BY <1>2, <1>3, ConcatProperties
  <2>2. Len(a) = i - 1 /\ Len(a) + Len(b) = n - 1
    BY <1>1, <1>2, <1>3
  <2> QED
    BY <2>1, <2>2
<1>6. ASSUME NEW j \in 1 .. n - 1
      PROVE  (a \o b)[j] = s[IF j < i THEN j ELSE j + 1]
  <2>1. CASE j < i
    BY <1>1, <1>2, <1>5, <2>1
  <2>2. CASE ~(j < i)
    <3>1. /\ ~(j <= i - 1) /\ j - (i - 1) \in 1 .. n - i
          /\ i + (j - (i - 1)) = j + 1
      BY <1>1, <2>2
    <3> QED
      BY <1>3, <1>5, <2>2, <3>1
  <2> QED
    BY <2>1, <2>2
<1> QED
  BY <1>4, <1>5, <1>6

LEMMA AppendIsFunction ==
    ASSUME NEW S, NEW n \in Nat, NEW f \in [1 .. n -> S], NEW x \in S
    PROVE  Append(f, x) = [k \in 1 .. n + 1 |-> IF k = n + 1 THEN x ELSE f[k]]
<1>1. f = [k \in 1 .. n |-> f[k]] /\ \A k \in 1 .. n : f[k] \in S
  OBVIOUS
<1>2. f \in Seq(S)
  BY <1>1
<1>3. Len(f) = n
  BY <1>2, LenProperties
<1>4. /\ Append(f, x) \in Seq(S) /\ Len(Append(f, x)) = n + 1
      /\ \A k \in 1 .. n : Append(f, x)[k] = f[k]
      /\ Append(f, x)[n + 1] = x
  BY <1>2, <1>3, AppendProperties
<1> DEFINE a == Append(f, x)
<1>5. DOMAIN a = 1 .. n + 1 /\ a = [k \in 1 .. n + 1 |-> a[k]]
  BY <1>4, LenProperties
<1> HIDE DEF a
<1>6. \A k \in 1 .. n + 1 : a[k] = IF k = n + 1 THEN x ELSE f[k]
  BY <1>4 DEF a
<1>7. a = [k \in 1 .. n + 1 |-> IF k = n + 1 THEN x ELSE f[k]]
  BY <1>5, <1>6
<1> QED
  BY <1>7 DEF a

LEMMA SameSize ==
    ASSUME NEW S, NEW T, IsFiniteSet(S), NEW f \in [S -> T],
           \A x, y \in S : f[x] = f[y] => x = y,
           \A y \in T : \E x \in S : f[x] = y
    PROVE  IsFiniteSet(T) /\ Cardinality(T) = Cardinality(S)
<1>1. f \in Bijection(S, T)
  BY DEF Bijection, Injection, IsInjective, Surjection
<1>2. ExistsBijection(S, T)
  BY <1>1 DEF ExistsBijection
<1> QED
  BY <1>2, FS_Bijection

-------------------------------------------------------------------------------
(* Items                                                                   *)

\* The conversions to the integer types of event_t.
LEMMA Truncation ==
    /\ \A n \in Nat : Uint8(n) \in Nat /\ Uint8(n) < 256
    /\ \A n \in Nat : Uint16(n) \in Nat /\ Uint16(n) < 65536
    /\ \A n \in Nat : n % UINT32 \in Nat /\ n % UINT32 < UINT32
<1>1. UINT32 \in Nat \ {0}
  BY BatchAssumption DEF HEADER
<1>2. \A n \in Nat : n % UINT32 \in Nat /\ n % UINT32 < UINT32
  BY <1>1
<1> QED
  BY <1>2 DEF Uint8, Uint16

LEMMA FloatsAreFloats == \A n \in Nat : Float(n) \in Floats
  BY DEF Float, Floats

LEMMA LowBits == \A n \in Nat : Low16(n) \in Nat
<1> SUFFICES ASSUME NEW n \in Nat PROVE Low16(n) \in Nat
  OBVIOUS
<1> DEFINE powers == {1, 2, 4, 8, 16, 32, 64, 128, 256, 512, 1024, 2048, 4096, 8192,
                      16384, 32768}
           shifts == {p \in powers : (n * p) \div 65536 \in 128 .. 255}
<1>1. Low16(n) = IF shifts = {} THEN 0 ELSE Uint16(n * CHOOSE p \in shifts : TRUE)
  BY DEF Low16
<1>2. shifts \subseteq Nat
  OBVIOUS
<1> HIDE DEF shifts
<1>3. shifts # {} => (CHOOSE p \in shifts : TRUE) \in Nat
  BY <1>2
<1>4. \A p \in Nat : Uint16(n * p) \in Nat
  BY DEF Uint16
<1> QED
  BY <1>1, <1>3, <1>4

\* Whichever item the parser is left with, each of its readers gets a number.
LEMMA ReadersOfItems ==
    /\ \A item \in Items : AsU64(item) \in Nat
    /\ \A item \in NumberItems : value(item) \in Floats
<1>1. ASSUME NEW item \in Items PROVE AsU64(item) \in Nat
  <2>1. CASE item \in [kind : {"float"}, f : Floats]
    <3>1. item.kind = "float" /\ item.f.m \in Nat
      BY <2>1 DEF Floats
    <3>2. Low16(item.f.m) \in Nat
      BY <3>1, LowBits
    <3> QED
      BY <3>1, <3>2 DEF AsU64
  <2>2. CASE item \notin [kind : {"float"}, f : Floats]
    BY <2>2 DEF Items, NumberItems, AsU64
  <2> QED
    BY <2>1, <2>2
<1>2. ASSUME NEW item \in NumberItems PROVE value(item) \in Floats
  BY DEF NumberItems, value, DoubleAsReal, IntAsFloat, Zero, Float, Floats
<1> QED
  BY <1>1, <1>2

LEMMA IntItemIsNumber == \A n \in Nat : IntItem(n) \in NumberItems
  BY DEF IntItem, NumberItems

\* Unpacking goes on past the end of a message without leaving it.
LEMMA UnpackedIsItem ==
    ASSUME NEW S, NumberItems \subseteq S,
           NEW msg \in [array_size : Nat, items : Seq(S)], NEW k \in Nat \ {0}
    PROVE  Unpacked(msg, k) \in S
<1>1. msg.items \in Seq(S) /\ Len(msg.items) \in Nat /\ msg.array_size \in Nat
  BY LenProperties
<1>2. \A j \in 1 .. Len(msg.items) : msg.items[j] \in S
  BY <1>1, ElementOfSeq
<1>3. msg.items # << >> => Len(msg.items) \in 1 .. Len(msg.items)
  BY <1>1, EmptySeq
<1>4. CASE k <= Len(msg.items)
  BY <1>1, <1>2, <1>4 DEF Unpacked
<1>5. CASE k > Len(msg.items) /\ msg.items # << >>
  BY <1>1, <1>2, <1>3, <1>5 DEF Unpacked
<1>6. CASE k > Len(msg.items) /\ msg.items = << >>
  BY <1>1, <1>6, IntItemIsNumber DEF Unpacked
<1> QED
  BY <1>1, <1>4, <1>5, <1>6

LEMMA HeaderTypes ==
    ASSUME NEW msg \in Message
    PROVE  /\ TypeOf(msg) \in Nat /\ TimeOf(msg) \in Nat
           /\ TwinOf(msg) \in Nat /\ TwinOf(msg) < UINT32
           /\ CountOf(msg) \in Nat /\ CountOf(msg) < UINT32
<1>1. msg \in [array_size : Nat, items : Seq(Items)] /\ NumberItems \subseteq Items
  BY DEF Message, Items
<1>2. \A k \in Nat \ {0} : AsU64(Unpacked(msg, k)) \in Nat
  BY <1>1, UnpackedIsItem, ReadersOfItems
<1>3. /\ AsU64(Unpacked(msg, 1)) \in Nat /\ AsU64(Unpacked(msg, 2)) \in Nat
      /\ AsU64(Unpacked(msg, 4)) \in Nat /\ AsU64(Unpacked(msg, 5)) \in Nat
  BY <1>2
<1> QED
  BY <1>3, Truncation DEF TypeOf, TimeOf, TwinOf, CountOf

LEMMA UpdatesTypes ==
    ASSUME NEW msg \in Message, TypeOf(msg) = EVENT_UPDATE
    PROVE  Updates(msg) \in Seq(Update) /\ Len(Updates(msg)) = CountOf(msg)
<1>1. msg \in [array_size : Nat, items : Seq(NumberItems)]
  BY DEF Message
<1>2. \A k \in Nat \ {0} : Unpacked(msg, k) \in NumberItems
  BY <1>1, UnpackedIsItem
<1>3. ASSUME NEW i \in 1 .. CountOf(msg)
      PROVE  [var_id |-> Uint16(AsU64(Unpacked(msg, IdAt(i)))),
              value  |-> value(Unpacked(msg, IdAt(i) + 1))] \in Update
  <2>1. IdAt(i) \in Nat \ {0} /\ IdAt(i) + 1 \in Nat \ {0}
    BY HeaderTypes DEF IdAt, HEADER
  <2>2. AsU64(Unpacked(msg, IdAt(i))) \in Nat
    BY <1>2, <2>1, ReadersOfItems DEF Items
  <2>3. Uint16(AsU64(Unpacked(msg, IdAt(i)))) \in {n \in Nat : n < 65536}
    BY <2>2, Truncation
  <2>4. value(Unpacked(msg, IdAt(i) + 1)) \in Floats
    BY <1>2, <2>1, ReadersOfItems
  <2> QED
    BY <2>3, <2>4 DEF Update
<1>4. CountOf(msg) \in Nat
  BY HeaderTypes, BatchAssumption
<1>5. Updates(msg) \in [1 .. CountOf(msg) -> Update]
  BY <1>3 DEF Updates
<1> QED
  BY <1>4, <1>5, IsASeq, LenProperties

-------------------------------------------------------------------------------
(* Batches                                                                 *)

\* How many batches n updates make.
BatchCount(n) == (n + MAX_VARS_PER_EVENT - 1) \div MAX_VARS_PER_EVENT

\* All batches before the last are full, and the last is not empty.
LEMMA BatchArithmetic ==
    ASSUME NEW n \in Nat
    PROVE  /\ BatchCount(n) \in Nat
           /\ n = 0 <=> BatchCount(n) = 0
           /\ n > 0 => /\ (BatchCount(n) - 1) * MAX_VARS_PER_EVENT < n
                       /\ n <= (BatchCount(n) - 1) * MAX_VARS_PER_EVENT
                                 + MAX_VARS_PER_EVENT
           /\ \A k \in Nat : k < BatchCount(n) =>
                 k * MAX_VARS_PER_EVENT <= (BatchCount(n) - 1) * MAX_VARS_PER_EVENT
<1> DEFINE M == MAX_VARS_PER_EVENT
           q == BatchCount(n)
<1>1. M \in Nat \ {0} /\ n + M - 1 \in Nat
  BY BatchAssumption
<1> HIDE DEF M
<1>2. \A a \in Nat : a \div M \in Nat /\ (a \div M) * M <= a /\ a < (a \div M) * M + M
  BY <1>1
<1>3. q \in Nat /\ q * M <= n + M - 1 /\ n + M - 1 < q * M + M
  BY <1>1, <1>2 DEF BatchCount, M
<1> HIDE DEF q
<1>4. q > 0 => (q - 1) * M = q * M - M
  BY <1>1, <1>3
<1>5. n = 0 <=> q = 0
  <2>1. q = 0 => q * M = 0
    BY <1>1
  <2>2. q > 0 => q * M >= M
    BY <1>1, <1>3
  <2> QED
    BY <1>1, <1>3, <2>1, <2>2
<1>6. n > 0 => (q - 1) * M < n /\ n <= (q - 1) * M + M
  BY <1>1, <1>3, <1>4, <1>5
<1>7. ASSUME NEW k \in Nat, k < q PROVE k * M <= (q - 1) * M
  BY <1>1, <1>3, <1>7
<1> QED
  BY <1>3, <1>5, <1>6, <1>7 DEF M, q

\* The batches are the updates, in order, cut into pieces that fit an event_t.
LEMMA BatchesProperties ==
    ASSUME NEW S, NEW us \in Seq(S)
    PROVE  /\ DOMAIN Batches(us) = 1 .. BatchCount(Len(us))
           /\ \A k \in 1 .. BatchCount(Len(us)) :
                 LET b == Batches(us)[k]
                 IN  /\ b \in Seq(S)
                     /\ Len(b) \in 1 .. MAX_VARS_PER_EVENT
                     /\ IF k < BatchCount(Len(us))
                        THEN Len(b) = MAX_VARS_PER_EVENT
                        ELSE (k - 1) * MAX_VARS_PER_EVENT + Len(b) = Len(us)
                     /\ \A j \in 1 .. Len(b) :
                           /\ (k - 1) * MAX_VARS_PER_EVENT + j \in 1 .. Len(us)
                           /\ b[j] = us[(k - 1) * MAX_VARS_PER_EVENT + j]
<1> DEFINE M == MAX_VARS_PER_EVENT
           n == Len(us)
           q == BatchCount(n)
<1>1. M \in Nat \ {0} /\ n \in Nat /\ \A j \in 1 .. n : us[j] \in S
  BY BatchAssumption, LenProperties, ElementOfSeq
<1>2. /\ q \in Nat /\ (n = 0 <=> q = 0)
      /\ n > 0 => (q - 1) * M < n /\ n <= (q - 1) * M + M
      /\ \A k \in Nat : k < q => k * M <= (q - 1) * M
  BY <1>1, BatchArithmetic
<1>3. Batches(us) = [k \in 1 .. q |->
                        SubSeq(us, (k - 1) * M + 1, IF k = q THEN n ELSE k * M)]
  BY DEF Batches, BatchCount
<1> HIDE DEF M, q, n
<1>4. ASSUME NEW k \in 1 .. q
      PROVE  /\ (k - 1) * M \in Nat /\ k * M = (k - 1) * M + M
             /\ k = q => (k - 1) * M < n /\ n <= (k - 1) * M + M
             /\ k < q => k * M < n
  <2>1. (k - 1) * M \in Nat /\ k * M = (k - 1) * M + M
    BY <1>1
  <2>2. n > 0
    BY <1>1, <1>2
  <2>3. (q - 1) * M \in Nat
    BY <1>1, <1>2
  <2>4. k < q => k * M <= (q - 1) * M
    BY <1>2
  <2>5. k * M \in Nat
    BY <1>1
  <2> QED
    BY <1>1, <1>2, <2>1, <2>2, <2>3, <2>4, <2>5
<1>5. ASSUME NEW k \in 1 .. q
      PROVE  LET b == Batches(us)[k]
             IN  /\ b \in Seq(S)
                 /\ Len(b) \in 1 .. M
                 /\ IF k < q THEN Len(b) = M ELSE (k - 1) * M + Len(b) = n
                 /\ \A j \in 1 .. Len(b) : /\ (k - 1) * M + j \in 1 .. n
                                           /\ b[j] = us[(k - 1) * M + j]
  <2> DEFINE lo == (k - 1) * M
             hi == IF k = q THEN n ELSE k * M
             b  == Batches(us)[k]
  <2>1. b = SubSeq(us, lo + 1, hi)
    BY <1>3
  <2>2. /\ lo \in Nat /\ hi \in Nat /\ lo < hi /\ hi <= n /\ hi <= lo + M
        /\ IF k < q THEN hi = lo + M ELSE hi = n
    BY <1>1, <1>2, <1>4
  <2> HIDE DEF lo, hi, b
  <2>3. \A i \in lo + 1 .. hi : us[i] \in S
    BY <1>1, <2>2
  <2>4. /\ b \in Seq(S) /\ Len(b) = hi - lo
        /\ \A j \in 1 .. hi - lo : b[j] = us[lo + j]
    BY <2>1, <2>2, <2>3, SubSeqProperties
  <2>5. Len(b) \in 1 .. M /\ (IF k < q THEN Len(b) = M ELSE lo + Len(b) = n)
    BY <1>1, <2>2, <2>4
  <2>6. \A j \in 1 .. Len(b) : lo + j \in 1 .. n /\ b[j] = us[lo + j]
    BY <1>1, <2>2, <2>4
  <2> QED
    BY <2>4, <2>5, <2>6 DEF lo, b
<1> QED
  BY <1>3, <1>5 DEF M, q, n

\* Updates that fit one event_t make one batch.
LEMMA OneBatch ==
    ASSUME NEW S, NEW us \in Seq(S), Len(us) \in 1 .. MAX_VARS_PER_EVENT
    PROVE  DOMAIN Batches(us) = {1} /\ Batches(us)[1] = us
<1> DEFINE M == MAX_VARS_PER_EVENT
           n == Len(us)
           q == BatchCount(n)
<1>1. M \in Nat \ {0} /\ n \in 1 .. M /\ n \in Nat
  BY BatchAssumption
<1>2. q \in Nat /\ q # 0 /\ (q - 1) * M < n
  BY <1>1, BatchArithmetic
<1>3. q = 1
  <2> HIDE DEF M, n, q
  <2>1. q > 1 => (q - 1) * M >= M
    BY <1>1, <1>2
  <2>2. (q - 1) * M \in Nat
    BY <1>1, <1>2
  <2> QED
    BY <1>1, <1>2, <2>1, <2>2
<1> DEFINE b == Batches(us)[1]
<1>4. /\ DOMAIN Batches(us) = 1 .. q
      /\ b \in Seq(S)
      /\ IF 1 < q THEN Len(b) = M ELSE (1 - 1) * M + Len(b) = n
      /\ \A j \in 1 .. Len(b) : b[j] = us[(1 - 1) * M + j]
  <2>1. 1 \in 1 .. BatchCount(Len(us))
    BY <1>3
  <2> QED
    BY <2>1, BatchesProperties
<1> HIDE DEF M, n, q, b
<1>5. Len(b) = n /\ \A j \in 1 .. n : b[j] = us[j]
  <2>1. Len(b) \in Nat
    BY <1>4, LenProperties
  <2>2. (1 - 1) * M = 0
    BY <1>1
  <2>3. Len(b) = n
    BY <1>1, <1>3, <1>4, <2>1, <2>2
  <2> QED
    BY <1>1, <1>4, <2>2, <2>3
<1>6. b = us
  BY <1>4, <1>5, SeqEqual DEF n
<1>7. DOMAIN Batches(us) = {1}
  BY <1>3, <1>4
<1> QED
  BY <1>6, <1>7 DEF b

-------------------------------------------------------------------------------
(* There and back                                                          *)

LEMMA UnpackedPresent ==
    ASSUME NEW msg, NEW k \in Nat, k <= Len(msg.items)
    PROVE  Unpacked(msg, k) = msg.items[k]
  BY DEF Unpacked

\* What the k-th item of a packed event is.
IsPacked(p, a, b, c, d, us) ==
    /\ Len(p) = HEADER + 1 + 2 * Len(us)
    /\ p[1] = IntItem(a) /\ p[2] = IntItem(b) /\ p[3] = IntItem(c)
    /\ p[4] = IntItem(d) /\ p[5] = IntItem(Len(us))
    /\ \A i \in 1 .. Len(us) : /\ p[IdAt(i)] = IntItem(us[i].var_id)
                               /\ p[IdAt(i) + 1] = FloatItem(us[i].value)

LEMMA PackedItems ==
    ASSUME NEW a, NEW b, NEW c, NEW d, NEW us \in Seq(Update)
    PROVE  IsPacked(Packed(<<a, b, c, d, Len(us)>>, us), a, b, c, d, us)
<1> DEFINE n == Len(us)
           h == <<a, b, c, d, n>>
           p == Packed(h, us)
<1>1. n \in Nat
  BY LenProperties
<1>2. p = [k \in 1 .. HEADER + 1 + 2 * n |->
              IF k <= HEADER + 1 THEN IntItem(h[k])
              ELSE LET u == us[(k - HEADER) \div 2]
                   IN  IF k % 2 = 0 THEN IntItem(u.var_id) ELSE FloatItem(u.value)]
  BY DEF Packed
<1> HIDE DEF p
<1>3. Len(p) = HEADER + 1 + 2 * n
  BY <1>1, <1>2 DEF HEADER
<1>4. h[1] = a /\ h[2] = b /\ h[3] = c /\ h[4] = d /\ h[5] = n
  OBVIOUS
<1> HIDE DEF h, n
<1>5. /\ p[1] = IntItem(a) /\ p[2] = IntItem(b) /\ p[3] = IntItem(c)
      /\ p[4] = IntItem(d) /\ p[5] = IntItem(n)
  BY <1>1, <1>2, <1>4 DEF HEADER
<1>6. ASSUME NEW i \in 1 .. n
      PROVE  p[IdAt(i)] = IntItem(us[i].var_id) /\ p[IdAt(i) + 1] = FloatItem(us[i].value)
  <2>1. /\ (4 + 2 * i) % 2 = 0 /\ (4 + 2 * i - 4) \div 2 = i
        /\ (4 + 2 * i + 1) % 2 = 1 /\ (4 + 2 * i + 1 - 4) \div 2 = i
        /\ 4 + 2 * i \in 6 .. 5 + 2 * n /\ 4 + 2 * i + 1 \in 6 .. 5 + 2 * n
    BY <1>1
  <2> QED
    BY <1>1, <1>2, <2>1 DEF IdAt, HEADER
<1> QED
  BY <1>3, <1>5, <1>6 DEF p, h, n, IsPacked

\* Decoding undoes encoding, for any event that fits an event_t.
LEMMA RoundTrip ==
    ASSUME NEW twin \in Nat, twin < UINT32, NEW time \in Nat,
           NEW us \in Seq(Update), Len(us) \in 1 .. MAX_VARS_PER_EVENT
    PROVE  deserialize_event(serialize_event(UpdateEvent(twin, time, us)))
             = Accepted(<<UpdateEvent(twin, time, us)>>)
<1> DEFINE e == UpdateEvent(twin, time, us)
           n == Len(us)
           m == serialize_event(e)
<1>1. n \in Nat /\ n \in 1 .. MAX_VARS_PER_EVENT
  BY LenProperties
<1>2. /\ UINT32 \in Nat \ {0} /\ HEADER + 1 + 2 * n < UINT32
      /\ n < UINT32
  BY <1>1, BatchAssumption DEF HEADER
<1>3. /\ m.array_size = HEADER + 1 + 2 * n
      /\ m.items = Packed(<<0, time, 0, twin, n>>, us)
  BY DEF serialize_event, UpdateEvent
<1> HIDE DEF m, n
<1>4. /\ Len(m.items) = HEADER + 1 + 2 * n
      /\ m.items[1] = IntItem(0) /\ m.items[2] = IntItem(time)
      /\ m.items[4] = IntItem(twin) /\ m.items[5] = IntItem(n)
      /\ \A i \in 1 .. n : /\ m.items[IdAt(i)] = IntItem(us[i].var_id)
                           /\ m.items[IdAt(i) + 1] = FloatItem(us[i].value)
  <2>1. PICK p : p = Packed(<<0, time, 0, twin, Len(us)>>, us)
    OBVIOUS
  <2>2. IsPacked(p, 0, time, 0, twin, us)
    BY <2>1, PackedItems
  <2>3. m.items = p /\ n = Len(us)
    BY <1>3, <2>1 DEF n
  <2> QED
    BY <2>2, <2>3 DEF IsPacked
<1>5. ASSUME NEW k \in 1 .. HEADER + 1 + 2 * n PROVE Unpacked(m, k) = m.items[k]
  <2>1. k \in Nat /\ k <= Len(m.items)
    BY <1>1, <1>4 DEF HEADER
  <2> QED
    BY <2>1, UnpackedPresent
<1>6. \A k \in Nat : AsU64(IntItem(k)) = k
  BY DEF AsU64, IntItem
<1>7. TypeOf(m) = EVENT_UPDATE /\ TimeOf(m) = time
      /\ TwinOf(m) = twin % UINT32 /\ CountOf(m) = n % UINT32
  <2>1. {1, 2, 4, 5} \subseteq 1 .. HEADER + 1 + 2 * n
    BY <1>1 DEF HEADER
  <2>2. 0 % UINT32 = 0
    BY BatchAssumption DEF HEADER
  <2> QED
    BY <1>1, <1>4, <1>5, <1>6, <2>1, <2>2
       DEF TypeOf, TimeOf, TwinOf, CountOf, EVENT_UPDATE
<1>8. TwinOf(m) = twin /\ CountOf(m) = n
  BY <1>1, <1>2, <1>7
<1>9. Updates(m) = us
  <2>1. ASSUME NEW i \in 1 .. n
        PROVE  [var_id |-> Uint16(AsU64(Unpacked(m, IdAt(i)))),
                value  |-> value(Unpacked(m, IdAt(i) + 1))] = us[i]
    <3>1. us[i] \in Update
      BY ElementOfSeq DEF n
    <3>2. us[i].var_id \in Nat /\ us[i].var_id < 65536 /\ us[i].value \in Floats
          /\ us[i] = [var_id |-> us[i].var_id, value |-> us[i].value]
      BY <3>1 DEF Update
    <3>3. IdAt(i) \in 1 .. HEADER + 1 + 2 * n /\ IdAt(i) + 1 \in 1 .. HEADER + 1 + 2 * n
      BY <1>1 DEF IdAt, HEADER
    <3>4. /\ Unpacked(m, IdAt(i)) = IntItem(us[i].var_id)
          /\ Unpacked(m, IdAt(i) + 1) = FloatItem(us[i].value)
      BY <1>4, <1>5, <3>3
    <3>5. \A a \in Nat : a < 65536 => Uint16(a) = a
      BY DEF Uint16
    <3>6. Uint16(AsU64(Unpacked(m, IdAt(i)))) = us[i].var_id
      BY <1>6, <3>2, <3>4, <3>5
    <3>7. \A f : value(FloatItem(f)) = f
      BY DEF value, FloatItem
    <3> QED
      BY <3>2, <3>4, <3>6, <3>7
  <2>2. Updates(m) = [i \in 1 .. n |-> us[i]]
    BY <1>8, <2>1 DEF Updates
  <2>3. us = [i \in 1 .. n |-> us[i]]
    BY LenProperties DEF n
  <2> QED
    BY <2>2, <2>3
<1>10. /\ ~(m.array_size < HEADER) /\ m.array_size >= HEADER
       /\ m.array_size = (HEADER + 1 + 2 * CountOf(m)) % UINT32
  <2>1. \A a \in Nat : a < UINT32 => a % UINT32 = a
    BY <1>2
  <2>2. HEADER + 1 + 2 * n \in Nat
    BY <1>1 DEF HEADER
  <2>3. (HEADER + 1 + 2 * n) % UINT32 = HEADER + 1 + 2 * n
    BY <1>2, <2>1, <2>2
  <2>4. ~(HEADER + 1 + 2 * n < HEADER) /\ HEADER + 1 + 2 * n >= HEADER
    BY <1>1 DEF HEADER
  <2> QED
    BY <1>3, <1>8, <2>3, <2>4
<1>11. DOMAIN Batches(us) = {1} /\ Batches(us)[1] = us
  BY OneBatch
<1>12. deserialize_event(m) = Accepted([k \in DOMAIN Batches(us) |->
                                  UpdateEvent(twin, time, Batches(us)[k])])
  BY <1>7, <1>8, <1>9, <1>10 DEF deserialize_event, EVENT_UPDATE, EVENT_ERROR
<1>13. [k \in DOMAIN Batches(us) |-> UpdateEvent(twin, time, Batches(us)[k])] = <<e>>
  BY <1>11
<1> QED
  BY <1>12, <1>13 DEF m, e

-------------------------------------------------------------------------------
(* What deserialize_event pushes                                           *)

\* An event_t, in either of its two forms.
UpdateEvents ==
    {UpdateEvent(t, s, us) : t \in {n \in Nat : n < UINT32}, s \in Nat,
        us \in {x \in Seq(Update) : Len(x) \in 1 .. MAX_VARS_PER_EVENT}}

ErrorEvents ==
    {ErrorEvent(t, s, c) : t \in {n \in Nat : n < UINT32}, s \in Nat, c \in Nat}

Events == UpdateEvents \cup ErrorEvents

\* The three outcomes of deserialize_event.
UpdateAccepted(msg, r) ==
    /\ TypeOf(msg) = EVENT_UPDATE
    /\ msg.array_size >= HEADER
    /\ msg.array_size = (HEADER + 1 + 2 * CountOf(msg)) % UINT32
    /\ r = Accepted([k \in 1 .. BatchCount(CountOf(msg)) |->
               UpdateEvent(TwinOf(msg), TimeOf(msg), Batches(Updates(msg))[k])])

ErrorAccepted(msg, r) ==
    /\ TypeOf(msg) = EVENT_ERROR
    /\ msg.array_size >= HEADER
    /\ r = Accepted(<<ErrorEvent(TwinOf(msg), TimeOf(msg),
                                 AsU64(Unpacked(msg, HEADER + 1)) % UINT32)>>)

LEMMA Outcomes ==
    ASSUME NEW msg \in Message
    PROVE  \/ UpdateAccepted(msg, deserialize_event(msg))
           \/ ErrorAccepted(msg, deserialize_event(msg))
           \/ deserialize_event(msg) = Rejected
<1>1. msg.array_size \in Nat
  BY DEF Message
<1>2. CASE msg.array_size < HEADER
  <2>1. ~(msg.array_size >= HEADER)
    BY <1>1, <1>2 DEF HEADER
  <2> QED
    BY <1>2, <2>1 DEF deserialize_event
<1>3. CASE msg.array_size >= HEADER /\ TypeOf(msg) = EVENT_UPDATE
  <2>1. DOMAIN Batches(Updates(msg)) = 1 .. BatchCount(CountOf(msg))
    BY <1>3, UpdatesTypes, BatchesProperties
  <2>2. ~(msg.array_size < HEADER) /\ TypeOf(msg) # EVENT_ERROR
    BY <1>1, <1>3 DEF HEADER, EVENT_UPDATE, EVENT_ERROR
  <2>3. deserialize_event(msg) =
           IF msg.array_size # (HEADER + 1 + 2 * CountOf(msg)) % UINT32
           THEN Rejected
           ELSE Accepted([k \in DOMAIN Batches(Updates(msg)) |->
                   UpdateEvent(TwinOf(msg), TimeOf(msg), Batches(Updates(msg))[k])])
    BY <1>3, <2>2 DEF deserialize_event
  <2> QED
    BY <1>3, <2>1, <2>3 DEF UpdateAccepted
<1>4. CASE msg.array_size >= HEADER /\ TypeOf(msg) = EVENT_ERROR
  <2>1. ~(msg.array_size < HEADER) /\ TypeOf(msg) # EVENT_UPDATE
    BY <1>1, <1>4 DEF HEADER, EVENT_ERROR, EVENT_UPDATE
  <2> QED
    BY <1>4, <2>1 DEF deserialize_event, ErrorAccepted
<1>5. CASE msg.array_size >= HEADER /\ TypeOf(msg) \notin {EVENT_UPDATE, EVENT_ERROR}
  <2>1. ~(msg.array_size < HEADER)
    BY <1>1, <1>5 DEF HEADER
  <2> QED
    BY <1>5, <2>1 DEF deserialize_event
<1>6. msg.array_size < HEADER \/ msg.array_size >= HEADER
  BY <1>1 DEF HEADER
<1> QED
  BY <1>2, <1>3, <1>4, <1>5, <1>6

\* The k-th batch of an accepted update.
LEMMA BatchOfUpdate ==
    ASSUME NEW msg \in Message, TypeOf(msg) = EVENT_UPDATE,
           NEW k \in 1 .. BatchCount(CountOf(msg))
    PROVE  LET b == Batches(Updates(msg))[k]
           IN  /\ b \in Seq(Update)
               /\ Len(b) \in 1 .. MAX_VARS_PER_EVENT
               /\ IF k < BatchCount(CountOf(msg))
                  THEN Len(b) = MAX_VARS_PER_EVENT
                  ELSE (k - 1) * MAX_VARS_PER_EVENT + Len(b) = CountOf(msg)
               /\ \A j \in 1 .. Len(b) :
                     /\ (k - 1) * MAX_VARS_PER_EVENT + j \in 1 .. CountOf(msg)
                     /\ b[j] = Updates(msg)[(k - 1) * MAX_VARS_PER_EVENT + j]
<1>1. PICK us \in Seq(Update) : us = Updates(msg)
  BY UpdatesTypes
<1>2. Len(us) = CountOf(msg)
  BY <1>1, UpdatesTypes
<1>3. \A q \in 1 .. BatchCount(Len(us)) :
         LET b == Batches(us)[q]
         IN  /\ b \in Seq(Update)
             /\ Len(b) \in 1 .. MAX_VARS_PER_EVENT
             /\ IF q < BatchCount(Len(us))
                THEN Len(b) = MAX_VARS_PER_EVENT
                ELSE (q - 1) * MAX_VARS_PER_EVENT + Len(b) = Len(us)
             /\ \A j \in 1 .. Len(b) :
                   /\ (q - 1) * MAX_VARS_PER_EVENT + j \in 1 .. Len(us)
                   /\ b[j] = us[(q - 1) * MAX_VARS_PER_EVENT + j]
  BY BatchesProperties, Zenon
<1> QED
  BY <1>1, <1>2, <1>3, Zenon

\* Whatever a device sends, what is pushed are events that fit an event_t.
LEMMA DeserializedTypes ==
    ASSUME NEW msg \in Message
    PROVE  /\ deserialize_event(msg).ret \in {-1, 0}
           /\ deserialize_event(msg).events \in Seq(Events)
<1> DEFINE r == deserialize_event(msg)
<1>1. CASE UpdateAccepted(msg, r)
  <2> DEFINE n == BatchCount(CountOf(msg))
             E(k) == UpdateEvent(TwinOf(msg), TimeOf(msg), Batches(Updates(msg))[k])
  <2>1. r.ret = 0 /\ r.events = [k \in 1 .. n |-> E(k)]
    BY <1>1 DEF UpdateAccepted, Accepted
  <2>2. n \in Nat
    BY HeaderTypes, BatchArithmetic
  <2>3. ASSUME NEW k \in 1 .. n PROVE E(k) \in Events
    <3>1. /\ Batches(Updates(msg))[k] \in Seq(Update)
          /\ Len(Batches(Updates(msg))[k]) \in 1 .. MAX_VARS_PER_EVENT
      BY <1>1, BatchOfUpdate DEF UpdateAccepted
    <3> QED
      BY <3>1, HeaderTypes DEF Events, UpdateEvents
  <2> HIDE DEF n, E, r
  <2>4. [k \in 1 .. n |-> E(k)] \in Seq(Events)
    BY <2>2, <2>3, IsASeq
  <2> QED
    BY <2>1, <2>4 DEF r
<1>2. CASE ErrorAccepted(msg, r)
  <2>1. msg \in [array_size : Nat, items : Seq(Items)] /\ NumberItems \subseteq Items
    BY DEF Message, Items
  <2>2. Unpacked(msg, HEADER + 1) \in Items
    BY <2>1, UnpackedIsItem DEF HEADER
  <2>3. AsU64(Unpacked(msg, HEADER + 1)) % UINT32 \in Nat
    BY <2>2, ReadersOfItems, Truncation
  <2>4. ErrorEvent(TwinOf(msg), TimeOf(msg), AsU64(Unpacked(msg, HEADER + 1)) % UINT32)
          \in Events
    BY <2>3, HeaderTypes DEF Events, ErrorEvents
  <2> QED
    BY <1>2, <2>4 DEF ErrorAccepted, Accepted
<1>3. CASE r = Rejected
  BY <1>3, EmptySeq DEF Rejected
<1> QED
  BY <1>1, <1>2, <1>3, Outcomes
===============================================================================
