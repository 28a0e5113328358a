------------------------- MODULE ChronyServiceProofs --------------------------
(***************************************************************************)
(* ChronyService for every file, every set of values and any number of     *)
(* requests: what the file holds after patches, failures and crashes.      *)
(***************************************************************************)
EXTENDS ChronyService, SequenceTheorems, TLAPS

\* Concatenation under a name of its own, known by CatFacts only.
Cat(s, t) == s \o t

Configs == [Field -> Value \cup {None}]

\* No line is the field's.
Missing(lines, f) == \A k \in DOMAIN lines : lines[k].key # f

\* The sequence s is what is added to the lines for the fields in F: empty
\* lines and a line for each field that was asked for and is missing.
Adds(s, lines, c, F) ==
    /\ s \in Seq(Lines)
    /\ \A k \in DOMAIN s : s[k] # Blank =>
          \E f \in F : /\ f \in Asked(c) /\ Missing(lines, f)
                       /\ s[k] = Line(f, c[f])
    /\ \A f \in F : f \in Asked(c) /\ Missing(lines, f) =>
          \E k \in DOMAIN s : s[k] = Line(f, c[f])
    /\ (\A f \in F : ~(f \in Asked(c) /\ Missing(lines, f))) => s = << >>

\* The fields of d, where d says nothing those of c.
Over(d, c) == [f \in Field |-> IF f \in Asked(d) THEN d[f] ELSE c[f]]

-------------------------------------------------------------------------------
(* Lines                                                                   *)

LEMMA LineFacts ==
    /\ Blank \in Lines
    /\ \A c \in Configs : \A f \in Asked(c) : Line(f, c[f]) \in Lines
    /\ \A k, v : Line(k, v).key = k /\ Line(k, v).val = v
    /\ Blank.key = "other" /\ "other" \notin Field
BY ChronyAssumption DEF Blank, Line, Lines, Configs, Asked, Field, None

\* The lines u are those of s and then those of t.
IsCat(u, s, t) ==
    /\ u \in Seq(Lines) /\ Len(u) = Len(s) + Len(t)
    /\ \A k \in 1 .. Len(s) : u[k] = s[k]
    /\ \A k \in 1 .. Len(t) : u[Len(s) + k] = t[k]

LEMMA CatFacts ==
    ASSUME NEW s \in Seq(Lines), NEW t \in Seq(Lines)
    PROVE  IsCat(Cat(s, t), s, t)
BY DEF Cat, IsCat

LEMMA NoLines == \A S : << >> \in Seq(S) /\ Len(<< >>) = 0 /\ DOMAIN << >> = {}
OBVIOUS

LEMMA CatEmpty == ASSUME NEW S, NEW s \in Seq(S) PROVE Cat(s, << >>) = s
BY DEF Cat

LEMMA AddsEach ==
    ASSUME NEW lines, NEW c \in Configs, NEW f \in Field
    PROVE  Adds(AddedFor(lines, c, f), lines, c, {f})
<1>1. CASE f \in Asked(c) /\ Missing(lines, f)
  <2>1. AddedFor(lines, c, f) = <<Blank, Line(f, c[f])>>
    BY <1>1 DEF AddedFor, Missing
  <2>2. Blank \in Lines /\ Line(f, c[f]) \in Lines
    BY <1>1, LineFacts
  <2>3. PICK s : s = <<Blank, Line(f, c[f])>>
    OBVIOUS
  <2>4. /\ s \in Seq(Lines) /\ DOMAIN s = {1, 2}
        /\ s[1] = Blank /\ s[2] = Line(f, c[f])
    BY <2>2, <2>3
  <2>5. Adds(s, lines, c, {f})
    BY <2>4, <1>1 DEF Adds
  <2> QED BY <2>1, <2>3, <2>5
<1>2. CASE ~(f \in Asked(c) /\ Missing(lines, f))
  <2>1. AddedFor(lines, c, f) = << >>
    BY <1>2 DEF AddedFor, Missing
  <2>2. Adds(<< >>, lines, c, {f})
    BY <1>2, NoLines DEF Adds
  <2> QED BY <2>1, <2>2
<1> QED BY <1>1, <1>2

LEMMA AddsBoth ==
    ASSUME NEW lines, NEW c \in Configs, NEW F, NEW G, NEW s, NEW t,
           Adds(s, lines, c, F), Adds(t, lines, c, G)
    PROVE  Adds(Cat(s, t), lines, c, F \cup G)
<1>1. s \in Seq(Lines) /\ t \in Seq(Lines)
  BY DEF Adds
<1>2. PICK u : u = Cat(s, t)
  OBVIOUS
<1>3. /\ u \in Seq(Lines) /\ Len(u) = Len(s) + Len(t)
      /\ \A k \in 1 .. Len(s) : u[k] = s[k]
      /\ \A k \in 1 .. Len(t) : u[Len(s) + k] = t[k]
  <2>1. IsCat(u, s, t)
    BY <1>1, <1>2, CatFacts
  <2> QED BY <2>1 DEF IsCat
<1>4. /\ DOMAIN s = 1 .. Len(s) /\ Len(s) \in Nat
      /\ DOMAIN t = 1 .. Len(t) /\ Len(t) \in Nat
      /\ DOMAIN u = 1 .. Len(u) /\ Len(u) \in Nat
  BY <1>1, <1>3
<1>5. ASSUME NEW k \in DOMAIN u, u[k] # Blank
      PROVE  \E f \in F \cup G : /\ f \in Asked(c) /\ Missing(lines, f)
                                 /\ u[k] = Line(f, c[f])
  <2>1. CASE k <= Len(s)
    <3>1. k \in DOMAIN s /\ u[k] = s[k]
      BY <1>3, <1>4, <2>1
    <3> QED BY <3>1, <1>5 DEF Adds
  <2>2. CASE k > Len(s)
    <3>1. PICK j \in DOMAIN t : k = Len(s) + j
      <4>1. k - Len(s) \in 1 .. Len(t) /\ k = Len(s) + (k - Len(s))
        BY <1>3, <1>4, <2>2
      <4> QED BY <4>1, <1>4
    <3>2. u[k] = t[j]
      BY <3>1, <1>3, <1>4
    <3> QED BY <3>2, <1>5 DEF Adds
  <2> QED BY <2>1, <2>2, <1>4
<1>6. ASSUME NEW f \in F \cup G, f \in Asked(c), Missing(lines, f)
      PROVE  \E k \in DOMAIN u : u[k] = Line(f, c[f])
  <2>1. CASE f \in F
    <3>1. PICK k \in DOMAIN s : s[k] = Line(f, c[f])
      BY <2>1, <1>6 DEF Adds
    <3>2. k \in DOMAIN u /\ u[k] = s[k]
      BY <1>3, <1>4
    <3> QED BY <3>1, <3>2
  <2>2. CASE f \in G
    <3>1. PICK k \in DOMAIN t : t[k] = Line(f, c[f])
      BY <2>2, <1>6 DEF Adds
    <3>2. Len(s) + k \in DOMAIN u /\ u[Len(s) + k] = t[k]
      BY <1>3, <1>4
    <3> QED BY <3>1, <3>2
  <2> QED BY <2>1, <2>2
<1>7. ASSUME \A f \in F \cup G : ~(f \in Asked(c) /\ Missing(lines, f))
      PROVE  u = << >>
  <2>1. s = << >> /\ t = << >>
    BY <1>7 DEF Adds
  <2>2. Cat(s, t) = << >>
    BY <2>1, <1>1, CatEmpty
  <2> QED BY <2>2, <1>2
<1>8. Adds(u, lines, c, F \cup G)
  BY <1>3, <1>5, <1>6, <1>7 DEF Adds
<1> QED BY <1>2, <1>8

\* Added adds what is missing, and nothing else.
LEMMA AddsAll ==
    ASSUME NEW lines, NEW c \in Configs
    PROVE  Adds(Added(lines, c), lines, c, Field)
<1>1. PICK a : a = AddedFor(lines, c, "server")
  OBVIOUS
<1>2. PICK b : b = AddedFor(lines, c, "polling_interval")
  OBVIOUS
<1>3. PICK d : d = AddedFor(lines, c, "minpoll")
  OBVIOUS
<1>4. PICK e : e = AddedFor(lines, c, "maxpoll")
  OBVIOUS
<1>5. Added(lines, c) = Cat(Cat(Cat(a, b), d), e)
  BY <1>1, <1>2, <1>3, <1>4 DEF Added, Cat
<1>6. /\ "server" \in Field /\ "polling_interval" \in Field
      /\ "minpoll" \in Field /\ "maxpoll" \in Field
  BY DEF Field
<1>7. /\ Adds(a, lines, c, {"server"})
      /\ Adds(b, lines, c, {"polling_interval"})
      /\ Adds(d, lines, c, {"minpoll"})
      /\ Adds(e, lines, c, {"maxpoll"})
  BY <1>1, <1>2, <1>3, <1>4, <1>6, AddsEach
<1>8. Adds(Cat(a, b), lines, c, {"server"} \cup {"polling_interval"})
  BY <1>7, AddsBoth
<1>9. PICK ab, F : ab = Cat(a, b) /\ F = {"server"} \cup {"polling_interval"}
  OBVIOUS
<1>10. Adds(Cat(ab, d), lines, c, F \cup {"minpoll"})
  BY <1>7, <1>8, <1>9, AddsBoth
<1>11. PICK abd, G : abd = Cat(ab, d) /\ G = F \cup {"minpoll"}
  OBVIOUS
<1>12. Adds(Cat(abd, e), lines, c, G \cup {"maxpoll"})
  BY <1>7, <1>10, <1>11, AddsBoth
<1>13. G \cup {"maxpoll"} = Field
  BY <1>9, <1>11 DEF Field
<1> QED BY <1>5, <1>9, <1>11, <1>12, <1>13

-------------------------------------------------------------------------------
(* Editing                                                                 *)

LEMMA ReplacedFacts ==
    ASSUME NEW lines \in Seq(Lines), NEW c \in Configs
    PROVE  /\ Replaced(lines, c) \in Seq(Lines)
           /\ Len(Replaced(lines, c)) = Len(lines)
           /\ \A k \in DOMAIN lines :
                 /\ Replaced(lines, c)[k].key = lines[k].key
                 /\ lines[k].key \in Asked(c) =>
                       Replaced(lines, c)[k].val = c[lines[k].key]
                 /\ lines[k].key \notin Asked(c) =>
                       Replaced(lines, c)[k] = lines[k]
<1>1. PICK r : r = Replaced(lines, c)
  OBVIOUS
<1>2. DOMAIN lines = 1 .. Len(lines) /\ Len(lines) \in Nat
  OBVIOUS
<1>3. r = [k \in 1 .. Len(lines) |->
              IF lines[k].key \in Asked(c)
              THEN Line(lines[k].key, c[lines[k].key]) ELSE lines[k]]
  BY <1>1, <1>2 DEF Replaced
<1>4. \A k \in 1 .. Len(lines) :
          /\ lines[k].key \in Asked(c) =>
                r[k] = Line(lines[k].key, c[lines[k].key])
          /\ lines[k].key \notin Asked(c) => r[k] = lines[k]
  BY <1>3
<1>5. \A k \in 1 .. Len(lines) : r[k] \in Lines
  BY <1>2, <1>4, LineFacts
<1>6. r \in Seq(Lines) /\ Len(r) = Len(lines)
  BY <1>2, <1>3, <1>5
<1> QED BY <1>1, <1>2, <1>4, <1>6, LineFacts

\* What an edited file is, line by line.
EditedAs(e, lines, c) ==
    /\ e \in Seq(Lines)
    /\ Len(lines) <= Len(e)
    /\ \A k \in DOMAIN lines :
          /\ e[k].key = lines[k].key
          /\ lines[k].key \in Asked(c) => e[k].val = c[lines[k].key]
          /\ lines[k].key \notin Asked(c) => e[k] = lines[k]
    /\ \A k \in DOMAIN e : k > Len(lines) =>
          \/ e[k] = Blank
          \/ \E f \in Field : /\ f \in Asked(c) /\ Missing(lines, f)
                              /\ e[k] = Line(f, c[f])
    /\ \A f \in Asked(c) : ~Missing(e, f)

LEMMA EditedFacts ==
    ASSUME NEW lines \in Seq(Lines), NEW c \in Configs
    PROVE  EditedAs(Edited(lines, c), lines, c)
<1>1. PICK r, a, e : /\ r = Replaced(lines, c) /\ a = Added(lines, c)
                     /\ e = Edited(lines, c)
  OBVIOUS
<1>2. e = Cat(r, a)
  BY <1>1 DEF Edited, Cat
<1>3. /\ r \in Seq(Lines) /\ Len(r) = Len(lines)
      /\ \A k \in DOMAIN lines :
            /\ r[k].key = lines[k].key
            /\ lines[k].key \in Asked(c) => r[k].val = c[lines[k].key]
            /\ lines[k].key \notin Asked(c) => r[k] = lines[k]
  BY <1>1, ReplacedFacts
<1>4. Adds(a, lines, c, Field)
  BY <1>1, AddsAll
<1>5. a \in Seq(Lines)
  BY <1>4 DEF Adds
<1>6. /\ e \in Seq(Lines) /\ Len(e) = Len(lines) + Len(a)
      /\ \A k \in 1 .. Len(lines) : e[k] = r[k]
      /\ \A k \in 1 .. Len(a) : e[Len(lines) + k] = a[k]
  <2>1. IsCat(e, r, a)
    BY <1>2, <1>3, <1>5, CatFacts
  <2> QED BY <2>1, <1>3 DEF IsCat
<1>7. /\ DOMAIN lines = 1 .. Len(lines) /\ Len(lines) \in Nat
      /\ DOMAIN a = 1 .. Len(a) /\ Len(a) \in Nat
      /\ DOMAIN e = 1 .. Len(e) /\ Len(e) \in Nat
  BY <1>5, <1>6
<1>8. Len(lines) <= Len(e)
  BY <1>6, <1>7
<1>9. \A k \in DOMAIN lines :
         /\ e[k].key = lines[k].key
         /\ lines[k].key \in Asked(c) => e[k].val = c[lines[k].key]
         /\ lines[k].key \notin Asked(c) => e[k] = lines[k]
  BY <1>3, <1>6, <1>7
<1>10. ASSUME NEW k \in DOMAIN e, k > Len(lines)
       PROVE  \/ e[k] = Blank
              \/ \E f \in Field : /\ f \in Asked(c) /\ Missing(lines, f)
                                  /\ e[k] = Line(f, c[f])
  <2>1. PICK j \in DOMAIN a : k = Len(lines) + j
    <3>1. k - Len(lines) \in 1 .. Len(a) /\ k = Len(lines) + (k - Len(lines))
      BY <1>6, <1>7, <1>10
    <3> QED BY <3>1, <1>7
  <2>2. e[k] = a[j]
    BY <2>1, <1>6, <1>7
  <2> QED BY <2>2, <1>4 DEF Adds
<1>11. ASSUME NEW f \in Asked(c)
       PROVE  ~Missing(e, f)
  <2>0. f \in Field
    BY DEF Asked
  <2>1. CASE Missing(lines, f)
    <3>1. PICK j \in DOMAIN a : a[j] = Line(f, c[f])
      BY <2>0, <2>1, <1>4 DEF Adds
    <3>2. Len(lines) + j \in DOMAIN e /\ e[Len(lines) + j] = a[j]
      BY <1>6, <1>7
    <3>3. e[Len(lines) + j].key = f
      BY <3>1, <3>2, LineFacts
    <3> QED BY <3>2, <3>3 DEF Missing
  <2>2. CASE ~Missing(lines, f)
    <3>1. PICK j \in DOMAIN lines : lines[j].key = f
      BY <2>2 DEF Missing
    <3>2. j \in DOMAIN e /\ e[j].key = f
      BY <3>1, <1>7, <1>8, <1>9
    <3> QED BY <3>2 DEF Missing
  <2> QED BY <2>1, <2>2
<1>12. EditedAs(e, lines, c)
  BY <1>6, <1>8, <1>9, <1>10, <1>11 DEF EditedAs
<1> QED BY <1>1, <1>12

\* An edited file says what was asked for, and of the other fields what the
\* file said before.
LEMMA EditedHolds ==
    ASSUME NEW lines \in Seq(Lines), NEW c \in Configs, NEW w \in Configs,
           Holds(lines, w)
    PROVE  Holds(Edited(lines, c), Over(c, w))
<1>1. PICK e : e = Edited(lines, c)
  OBVIOUS
<1>2. EditedAs(e, lines, c)
  BY <1>1, EditedFacts
<1>3. PICK o : o = Over(c, w)
  OBVIOUS
<1>4. \A f \in Field : /\ f \in Asked(c) => o[f] = c[f]
                       /\ f \notin Asked(c) => o[f] = w[f]
  BY <1>3 DEF Over
<1>5. /\ DOMAIN lines = 1 .. Len(lines) /\ Len(lines) \in Nat
      /\ e \in Seq(Lines) /\ DOMAIN e = 1 .. Len(e) /\ Len(e) \in Nat
      /\ Len(lines) <= Len(e)
  BY <1>2 DEF EditedAs
<1>6. ASSUME NEW f \in Asked(o)
      PROVE  \E k \in DOMAIN e : e[k].key = f
  <2>1. f \in Field /\ o[f] # None
    BY DEF Asked
  <2>2. CASE f \in Asked(c)
    BY <2>2, <1>2 DEF EditedAs, Missing
  <2>3. CASE f \notin Asked(c)
    <3>1. f \in Asked(w)
      BY <2>1, <2>3, <1>4 DEF Asked
    <3>2. PICK k \in DOMAIN lines : lines[k].key = f
      BY <3>1 DEF Holds
    <3>3. k \in DOMAIN e /\ e[k].key = f
      BY <3>2, <1>2, <1>5 DEF EditedAs
    <3> QED BY <3>3
  <2> QED BY <2>2, <2>3
<1>7. ASSUME NEW f \in Asked(o), NEW k \in DOMAIN e, e[k].key = f
      PROVE  e[k].val = o[f]
  <2>1. f \in Field /\ o[f] # None
    BY DEF Asked
  <2>2. CASE k <= Len(lines)
    <3>1. k \in DOMAIN lines
      BY <2>2, <1>5
    <3>2. lines[k].key = f
      BY <3>1, <1>2, <1>7 DEF EditedAs
    <3>3. CASE f \in Asked(c)
      BY <3>1, <3>2, <3>3, <2>1, <1>2, <1>4 DEF EditedAs
    <3>4. CASE f \notin Asked(c)
      <4>1. f \in Asked(w)
        BY <2>1, <3>4, <1>4 DEF Asked
      <4>2. lines[k].val = w[f]
        BY <4>1, <3>1, <3>2 DEF Holds
      <4>3. e[k] = lines[k]
        BY <3>1, <3>2, <3>4, <1>2 DEF EditedAs
      <4> QED BY <4>2, <4>3, <2>1, <3>4, <1>4
    <3> QED BY <3>3, <3>4
  <2>3. CASE k > Len(lines)
    <3>1. e[k] # Blank
      BY <1>7, <2>1, LineFacts
    <3>2. PICK g \in Field : g \in Asked(c) /\ e[k] = Line(g, c[g])
      BY <3>1, <2>3, <1>2 DEF EditedAs
    <3>3. g = f /\ e[k].val = c[g]
      BY <3>2, <1>7, LineFacts
    <3> QED BY <3>2, <3>3, <1>4
  <2> QED BY <2>2, <2>3, <1>5
<1>8. Holds(e, o)
  BY <1>6, <1>7 DEF Holds
<1> QED BY <1>1, <1>3, <1>8

LEMMA EditedKeepsOthers ==
    ASSUME NEW lines \in Seq(Lines), NEW c \in Configs
    PROVE  KeepsOthers(Edited(lines, c), lines)
<1>1. PICK e : e = Edited(lines, c)
  OBVIOUS
<1>2. EditedAs(e, lines, c)
  BY <1>1, EditedFacts
<1>3. "other" \notin Asked(c)
  BY LineFacts DEF Asked
<1>4. ASSUME NEW k \in DOMAIN e, k > Len(lines), e[k].key = "other"
      PROVE  e[k] = Blank
  BY <1>2, <1>4, LineFacts DEF EditedAs
<1>5. KeepsOthers(e, lines)
  BY <1>2, <1>3, <1>4 DEF EditedAs, KeepsOthers
<1> QED BY <1>1, <1>5

LEMMA KeepsOthersReflexive ==
    ASSUME NEW a \in Seq(Lines) PROVE KeepsOthers(a, a)
BY DEF KeepsOthers

LEMMA KeepsOthersTransitive ==
    ASSUME NEW a \in Seq(Lines), NEW b \in Seq(Lines), NEW c \in Seq(Lines),
           KeepsOthers(b, a), KeepsOthers(c, b)
    PROVE  KeepsOthers(c, a)
<1>1. /\ DOMAIN a = 1 .. Len(a) /\ Len(a) \in Nat
      /\ DOMAIN b = 1 .. Len(b) /\ Len(b) \in Nat
      /\ DOMAIN c = 1 .. Len(c) /\ Len(c) \in Nat
      /\ Len(a) <= Len(b) /\ Len(b) <= Len(c)
  BY DEF KeepsOthers
<1>2. ASSUME NEW k \in DOMAIN a
      PROVE  c[k].key = a[k].key /\ (a[k].key = "other" => c[k] = a[k])
  <2>1. k \in DOMAIN b
    BY <1>1
  <2> QED BY <2>1 DEF KeepsOthers
<1>3. ASSUME NEW k \in DOMAIN c, k > Len(a), c[k].key = "other"
      PROVE  c[k] = Blank
  <2>1. CASE k <= Len(b)
    <3>1. k \in DOMAIN b
      BY <2>1, <1>1
    <3>2. c[k].key = b[k].key /\ (b[k].key = "other" => c[k] = b[k])
      BY <3>1 DEF KeepsOthers
    <3>3. b[k].key = "other" => b[k] = Blank
      BY <3>1, <1>3 DEF KeepsOthers
    <3> QED BY <3>2, <3>3, <1>3
  <2>2. CASE k > Len(b)
    BY <2>2, <1>3 DEF KeepsOthers
  <2> QED BY <2>1, <2>2, <1>1
<1> QED BY <1>1, <1>2, <1>3 DEF KeepsOthers

\* Editing an edited file again changes nothing.
LEMMA EditedTwice ==
    ASSUME NEW lines \in Seq(Lines), NEW c \in Configs
    PROVE  Edited(Edited(lines, c), c) = Edited(lines, c)
<1>1. PICK e : e = Edited(lines, c)
  OBVIOUS
<1>2. EditedAs(e, lines, c)
  BY <1>1, EditedFacts
<1>3. /\ e \in Seq(Lines) /\ DOMAIN e = 1 .. Len(e) /\ Len(e) \in Nat
      /\ DOMAIN lines = 1 .. Len(lines) /\ Len(lines) \in Nat
  BY <1>2 DEF EditedAs
<1>4. ASSUME NEW k \in DOMAIN e, e[k].key \in Asked(c)
      PROVE  e[k].val = c[e[k].key]
  <2>1. CASE k <= Len(lines)
    <3>1. k \in DOMAIN lines
      BY <2>1, <1>3
    <3> QED BY <3>1, <1>2, <1>4 DEF EditedAs
  <2>2. CASE k > Len(lines)
    <3>1. e[k] # Blank
      BY <1>4, LineFacts DEF Asked
    <3>2. PICK g \in Field : g \in Asked(c) /\ e[k] = Line(g, c[g])
      BY <3>1, <2>2, <1>2 DEF EditedAs
    <3> QED BY <3>2, LineFacts
  <2> QED BY <2>1, <2>2, <1>3
<1>5. \A k \in DOMAIN e : e[k] = Line(e[k].key, e[k].val)
  <2>1. \A l \in Lines : l = Line(l.key, l.val)
    BY DEF Lines, Line
  <2>2. \A k \in DOMAIN e : e[k] \in Lines
    BY <1>3
  <2> QED BY <2>1, <2>2
<1>6. Replaced(e, c) = [k \in DOMAIN e |-> e[k]]
  BY <1>4, <1>5 DEF Replaced
<1>7. Replaced(e, c) = e
  BY <1>3, <1>6
<1>8. Adds(Added(e, c), e, c, Field)
  BY AddsAll
<1>9. Added(e, c) = << >>
  BY <1>2, <1>8 DEF Adds, EditedAs
<1>10. Edited(e, c) = Cat(e, << >>)
  BY <1>7, <1>9 DEF Edited, Cat
<1>11. Edited(e, c) = e
  BY <1>3, <1>10, CatEmpty
<1> QED BY <1>1, <1>11

-------------------------------------------------------------------------------
(* Prefixes                                                                *)

LEMMA PrefixOf ==
    ASSUME NEW s \in Seq(Lines), NEW t \in Seq(Lines)
    PROVE  IsPrefix(s, t) <=>
               /\ Len(s) <= Len(t)
               /\ \A k \in 1 .. Len(s) : s[k] = t[k]
<1>1. Len(s) \in Nat /\ Len(t) \in Nat
  OBVIOUS
<1>2. SUFFICES ASSUME Len(s) <= Len(t)
               PROVE  SubSeq(s, 1, Len(s)) = SubSeq(t, 1, Len(s)) <=>
                          \A k \in 1 .. Len(s) : s[k] = t[k]
  BY DEF IsPrefix
<1>3. SubSeq(s, 1, Len(s)) = [k \in 1 .. Len(s) |-> s[k]]
  BY <1>1
<1>4. SubSeq(t, 1, Len(s)) = [k \in 1 .. Len(s) |-> t[k]]
  BY <1>1, <1>2
<1> QED BY <1>3, <1>4

LEMMA WholePrefix ==
    ASSUME NEW s \in Seq(Lines), NEW t \in Seq(Lines), IsPrefix(s, t),
           Len(s) = Len(t)
    PROVE  s = t
BY PrefixOf

LEMMA LongerPrefix ==
    ASSUME NEW s \in Seq(Lines), NEW t \in Seq(Lines), IsPrefix(s, t),
           Len(s) < Len(t)
    PROVE  /\ Append(s, t[Len(s) + 1]) \in Seq(Lines)
           /\ IsPrefix(Append(s, t[Len(s) + 1]), t)
<1>1. /\ Len(s) \in Nat /\ Len(t) \in Nat
      /\ \A k \in 1 .. Len(s) : s[k] = t[k]
  BY PrefixOf
<1>2. PICK l \in Lines : l = t[Len(s) + 1]
  BY <1>1
<1>3. PICK u : u = Append(s, l)
  OBVIOUS
<1>4. /\ u \in Seq(Lines) /\ Len(u) = Len(s) + 1
      /\ \A k \in 1 .. Len(s) : u[k] = s[k]
      /\ u[Len(s) + 1] = l
  BY <1>3
<1>5. \A k \in 1 .. Len(u) : u[k] = t[k]
  BY <1>1, <1>2, <1>4
<1>6. IsPrefix(u, t)
  BY <1>1, <1>4, <1>5, PrefixOf
<1> QED BY <1>2, <1>3, <1>4, <1>6

-------------------------------------------------------------------------------
(* The handler                                                             *)

\* The types of what TypeOK does not name.
FileTypes ==
    /\ TypeOK
    /\ before \in Seq(Lines) /\ original \in Seq(Lines)
    /\ want \in Configs /\ damaged \in BOOLEAN

\* What is in memory is the file that was found, edited: it is still there
\* until it is truncated, and what is in memory until the next request.
EditsWhatItFound ==
    /\ pc \in {"truncate", "write", "failed"} =>
          config_lines = Edited(before, config)
    /\ pc = "truncate" => file = before
    /\ pc = "failed" => damaged
    /\ answer = 200 => pc = "idle" /\ config_lines = Edited(before, config)

\* A file that says what it should.
Good(lines) == Holds(lines, want) /\ KeepsOthers(lines, original)

\* Between the truncation and the end of the writing the file that was found
\* is good, if nothing was damaged before; at all other times the file is.
GoodFile ==
    ~damaged =>
        /\ pc \in {"idle", "read", "truncate"} => Good(file)
        /\ pc = "write" => Good(before)

FileInv == FileTypes /\ EditsWhatItFound /\ GoodFile

LEMMA Bounds == MaxRequests \in Nat
BY ChronyAssumption

LEMMA NothingAsked == Nothing \in Configs /\ Asked(Nothing) = {}
BY DEF Nothing, Configs, Asked

LEMMA FileInvInit == Init => FileInv
<1> SUFFICES ASSUME Init PROVE FileInv
  OBVIOUS
<1>1. file \in Seq(Lines)
  BY ChronyAssumption DEF Init
<1>2. FileTypes
  <2>1. Nothing \in Configs
    BY NothingAsked
  <2>2. << >> \in Seq(Lines)
    BY NoLines
  <2>3. requests \in 0 .. MaxRequests
    BY Bounds DEF Init
  <2> QED BY <1>1, <2>1, <2>2, <2>3 DEF Init, FileTypes, TypeOK, Configs
<1>3. EditsWhatItFound
  BY DEF Init, EditsWhatItFound
<1>4. GoodFile
  <2>1. Holds(file, want)
    BY NothingAsked DEF Init, Holds
  <2>2. KeepsOthers(file, original)
    BY <1>1, KeepsOthersReflexive DEF Init
  <2> QED BY <2>1, <2>2 DEF Init, GoodFile, Good
<1> QED BY <1>2, <1>3, <1>4 DEF FileInv

\* A file that is written out whole is good, when the one that was found was.
LEMMA WrittenIsGood ==
    ASSUME FileInv, pc = "write", file = config_lines, ~damaged
    PROVE  Holds(file, Given) /\ KeepsOthers(file, original)
<1>1. /\ before \in Seq(Lines) /\ original \in Seq(Lines)
      /\ file \in Seq(Lines) /\ config \in Configs /\ want \in Configs
  BY DEF FileInv, FileTypes, TypeOK, Configs
<1>2. file = Edited(before, config)
  BY DEF FileInv, EditsWhatItFound
<1>3. Holds(before, want) /\ KeepsOthers(before, original)
  BY DEF FileInv, GoodFile, Good
<1>4. Given = Over(config, want)
  BY DEF Given, Over
<1>5. Holds(file, Given)
  BY <1>1, <1>2, <1>3, <1>4, EditedHolds
<1>6. KeepsOthers(file, before)
  BY <1>1, <1>2, EditedKeepsOthers
<1> QED BY <1>1, <1>3, <1>5, <1>6, KeepsOthersTransitive

LEMMA GivenType == FileTypes => Given \in Configs
BY DEF FileTypes, TypeOK, Given, Configs

LEMMA FileInvNext == FileInv /\ [Next]_vars => FileInv'
<1> SUFFICES ASSUME FileInv, [Next]_vars PROVE FileInv'
  OBVIOUS
<1>0. /\ pc \in {"idle", "read", "truncate", "write", "failed"}
      /\ config \in Configs
      /\ file \in Seq(Lines) /\ config_lines \in Seq(Lines)
      /\ answer \in {0, 200, 400, 500} /\ requests \in 0 .. MaxRequests
      /\ pc \in {"write", "failed"} => IsPrefix(file, config_lines)
      /\ before \in Seq(Lines) /\ original \in Seq(Lines)
      /\ want \in Configs /\ damaged \in BOOLEAN
  BY DEF FileInv, FileTypes, TypeOK, Configs
<1>a. /\ pc \in {"truncate", "write", "failed"} =>
            config_lines = Edited(before, config)
      /\ pc = "truncate" => file = before
      /\ pc = "failed" => damaged
      /\ answer = 200 => pc = "idle" /\ config_lines = Edited(before, config)
  BY DEF FileInv, EditsWhatItFound
<1>b. ~damaged => /\ pc \in {"idle", "read", "truncate"} => Good(file)
                  /\ pc = "write" => Good(before)
  BY DEF FileInv, GoodFile
<1>1. CASE BadRequest
  <2>1. requests + 1 \in 0 .. MaxRequests
    BY <1>1, <1>0, Bounds DEF BadRequest
  <2>2. FileTypes'
    BY <1>1, <2>1, <1>0 DEF BadRequest, history, FileTypes, TypeOK, Configs
  <2>3. EditsWhatItFound'
    BY <1>1, <1>a DEF BadRequest, history, EditsWhatItFound
  <2>4. GoodFile'
    BY <1>1, <1>b DEF BadRequest, history, GoodFile, Good
  <2> QED BY <2>2, <2>3, <2>4 DEF FileInv
<1>2. ASSUME NEW c \in ChronyConfigDTO, Request(c) PROVE FileInv'
  <2>0. c \in Configs
    BY DEF ChronyConfigDTO, Configs
  <2>1. requests + 1 \in 0 .. MaxRequests
    BY <1>2, <1>0, Bounds DEF Request
  <2>2. FileTypes'
    BY <1>2, <2>0, <2>1, <1>0 DEF Request, history, FileTypes, TypeOK, Configs
  <2>3. EditsWhatItFound'
    BY <1>2 DEF Request, EditsWhatItFound
  <2>4. GoodFile'
    BY <1>2, <1>b DEF Request, history, GoodFile, Good
  <2> QED BY <2>2, <2>3, <2>4 DEF FileInv
<1>3. CASE Read
  <2>0. Edited(file, config) \in Seq(Lines)
    BY <1>0, EditedFacts DEF EditedAs
  <2>1. CASE /\ config_lines' = Edited(file, config) /\ before' = file
             /\ pc' = "truncate" /\ UNCHANGED answer
    <3>1. FileTypes'
      BY <1>3, <2>0, <2>1, <1>0 DEF Read, history, FileTypes, TypeOK, Configs
    <3>2. EditsWhatItFound'
      BY <1>3, <2>1, <1>a DEF Read, EditsWhatItFound
    <3>3. GoodFile'
      BY <1>3, <2>1, <1>b DEF Read, history, GoodFile, Good
    <3> QED BY <3>1, <3>2, <3>3 DEF FileInv
  <2>2. CASE Fail /\ UNCHANGED <<config_lines, before>>
    <3>1. FileTypes'
      BY <1>3, <2>2, <1>0 DEF Read, Fail, history, FileTypes, TypeOK, Configs
    <3>2. EditsWhatItFound'
      BY <2>2 DEF Fail, EditsWhatItFound
    <3>3. GoodFile'
      BY <1>3, <2>2, <1>b DEF Read, Fail, history, GoodFile, Good
    <3> QED BY <3>1, <3>2, <3>3 DEF FileInv
  <2> QED BY <1>3, <2>1, <2>2 DEF Read
<1>4. CASE Truncate
  <2>1. CASE file' = << >> /\ pc' = "write" /\ UNCHANGED answer
    <3>0. << >> \in Seq(Lines) /\ IsPrefix(<< >>, config_lines)
      <4>1. PICK e \in Seq(Lines) : e = << >> /\ Len(e) = 0
        BY NoLines
      <4>2. IsPrefix(e, config_lines)
        <5>1. /\ Len(e) <= Len(config_lines)
              /\ \A k \in 1 .. Len(e) : e[k] = config_lines[k]
          BY <4>1, <1>0
        <5> QED BY <5>1, <1>0, PrefixOf
      <4> QED BY <4>1, <4>2
    <3>1. FileTypes'
      BY <1>4, <2>1, <3>0, <1>0
      DEF Truncate, history, FileTypes, TypeOK, Configs
    <3>2. EditsWhatItFound'
      BY <1>4, <2>1, <1>a DEF Truncate, EditsWhatItFound
    <3>3. GoodFile'
      BY <1>4, <2>1, <1>a, <1>b DEF Truncate, history, GoodFile, Good
    <3> QED BY <3>1, <3>2, <3>3 DEF FileInv
  <2>2. CASE Fail /\ UNCHANGED file
    <3>1. FileTypes'
      BY <1>4, <2>2, <1>0
      DEF Truncate, Fail, history, FileTypes, TypeOK, Configs
    <3>2. EditsWhatItFound'
      BY <2>2 DEF Fail, EditsWhatItFound
    <3>3. GoodFile'
      BY <1>4, <2>2, <1>b DEF Truncate, Fail, history, GoodFile, Good
    <3> QED BY <3>1, <3>2, <3>3 DEF FileInv
  <2> QED BY <1>4, <2>1, <2>2 DEF Truncate
<1>5. CASE Write
  <2>0. file' \in Seq(Lines) /\ IsPrefix(file', config_lines)
    BY <1>5, <1>0, LongerPrefix DEF Write
  <2>1. FileTypes'
    BY <1>5, <2>0, <1>0 DEF Write, history, FileTypes, TypeOK, Configs
  <2>2. EditsWhatItFound'
    BY <1>5, <1>a DEF Write, EditsWhatItFound
  <2>3. GoodFile'
    BY <1>5, <1>b DEF Write, history, GoodFile, Good
  <2> QED BY <2>1, <2>2, <2>3 DEF FileInv
<1>6. CASE WriteFails
  <2>1. FileTypes'
    BY <1>6, <1>0 DEF WriteFails, FileTypes, TypeOK, Configs
  <2>2. EditsWhatItFound'
    BY <1>6, <1>a DEF WriteFails, EditsWhatItFound
  <2>3. GoodFile'
    BY <1>6 DEF WriteFails, GoodFile
  <2> QED BY <2>1, <2>2, <2>3 DEF FileInv
<1>7. CASE Close
  <2>0. Given \in Configs
    BY GivenType DEF FileInv
  <2>1. FileTypes'
    BY <1>7, <2>0, <1>0 DEF Close, FileTypes, TypeOK, Configs
  <2>2. EditsWhatItFound'
    BY <1>7, <1>a DEF Close, EditsWhatItFound
  <2>3. GoodFile'
    <3>1. SUFFICES ASSUME ~damaged PROVE Good(file)'
      BY <1>7 DEF Close, GoodFile
    <3>2. pc = "write" /\ Len(file) = Len(config_lines)
      BY <1>7, <3>1, <1>a DEF Close
    <3>3. file = config_lines
      BY <3>2, <1>0, WholePrefix
    <3>4. Holds(file, Given) /\ KeepsOthers(file, original)
      BY <3>1, <3>2, <3>3, WrittenIsGood
    <3> QED BY <1>7, <3>4 DEF Close, Good
  <2> QED BY <2>1, <2>2, <2>3 DEF FileInv
<1>8. CASE Crash
  <2>0. Given \in Configs
    BY GivenType DEF FileInv
  <2>1. want' \in Configs
    BY <1>8, <2>0, <1>0 DEF Crash
  <2>2. damaged' \in BOOLEAN
    BY <1>8 DEF Crash
  <2>3. FileTypes'
    BY <1>8, <2>1, <2>2, <1>0 DEF Crash, FileTypes, TypeOK, Configs
  <2>4. EditsWhatItFound'
    BY <1>8 DEF Crash, EditsWhatItFound
  <2>5. GoodFile'
    <3>1. SUFFICES ASSUME ~damaged' PROVE Good(file)'
      <4>1. pc' = "idle"
        BY <1>8 DEF Crash
      <4> QED BY <4>1 DEF GoodFile
    <3>2. ~damaged /\ (pc = "write" => file = config_lines)
      BY <1>8, <3>1 DEF Crash
    <3>3. CASE pc = "write"
      <4>1. Holds(file, Given) /\ KeepsOthers(file, original)
        BY <3>2, <3>3, WrittenIsGood
      <4>2. want' = Given
        BY <1>8, <3>2, <3>3 DEF Crash
      <4> QED BY <1>8, <4>1, <4>2 DEF Crash, Good
    <3>4. CASE pc # "write"
      <4>1. Good(file)
        BY <1>0, <1>a, <1>b, <3>2, <3>4
      <4>2. want' = want
        BY <1>8, <3>4 DEF Crash
      <4> QED BY <1>8, <4>1, <4>2 DEF Crash, Good
    <3> QED BY <3>3, <3>4
  <2> QED BY <2>3, <2>4, <2>5 DEF FileInv
<1>9. CASE UNCHANGED vars
  BY <1>9 DEF vars, FileInv, FileTypes, TypeOK, EditsWhatItFound, GoodFile, Good
<1> QED BY <1>1, <1>2, <1>3, <1>4, <1>5, <1>6, <1>7, <1>8, <1>9 DEF Next

LEMMA FileInvAlways == Spec => []FileInv
BY FileInvInit, FileInvNext, PTL DEF Spec

-------------------------------------------------------------------------------
(* The theorems                                                            *)

\* Whatever fails and whenever the process is killed, updateConfiguration
\* writes from the start of a truncated file: what the file holds meanwhile is
\* the beginning of the lines in memory.
THEOREM TypeCorrect == Spec => []TypeOK
<1>1. FileInv => TypeOK
  BY DEF FileInv, FileTypes
<1> QED BY <1>1, FileInvAlways, PTL

\* For every file the service may find, any number of requests with any values,
\* opens that fail and crashes between two steps: as long as no rewriting was
\* cut short, the file that updateConfiguration leaves says of each field what
\* the last PATCH of it said, and has all its other lines where they were.
THEOREM PatchesAlwaysAddUp == Spec => []PatchesAddUp
<1>1. FileInv => PatchesAddUp
  BY DEF FileInv, GoodFile, Good, PatchesAddUp
<1> QED BY <1>1, FileInvAlways, PTL

\* For every file a request may find, what crashes and failed writes left of
\* one included: a PATCH that updateConfiguration writes to its end leaves a
\* file with what was asked for, and every other line it found.
THEOREM CompletePatchAlwaysHolds == Spec => []CompletePatchHolds
<1>1. FileInv => CompletePatchHolds
  <2> SUFFICES ASSUME FileInv, answer = 200, file = config_lines
               PROVE  Holds(file, config) /\ KeepsOthers(file, before)
    BY DEF CompletePatchHolds
  <2>1. before \in Seq(Lines) /\ config \in Configs
    BY DEF FileInv, FileTypes, TypeOK, Configs
  <2>2. file = Edited(before, config)
    BY DEF FileInv, EditsWhatItFound
  <2>3. Holds(before, Nothing) /\ Nothing \in Configs
    BY NothingAsked DEF Holds
  <2>4. Holds(file, Over(config, Nothing))
    BY <2>1, <2>2, <2>3, EditedHolds
  <2>5. Over(config, Nothing) = config
    BY <2>1 DEF Over, Nothing, Configs, Asked
  <2> QED BY <2>1, <2>2, <2>4, <2>5, EditedKeepsOthers
<1> QED BY <1>1, FileInvAlways, PTL

\* In every file a request may find, damaged ones included, what
\* updateConfiguration makes of it is left alone by the same request again.
THEOREM UpdateIsAlwaysIdempotent == Spec => []UpdateIsIdempotent
<1>1. FileInv => UpdateIsIdempotent
  <2> SUFFICES ASSUME FileInv
               PROVE  Edited(Edited(file, config), config) = Edited(file, config)
    BY DEF UpdateIsIdempotent
  <2>1. file \in Seq(Lines) /\ config \in Configs
    BY DEF FileInv, FileTypes, TypeOK, Configs
  <2> QED BY <2>1, EditedTwice
<1> QED BY <1>1, FileInvAlways, PTL
===============================================================================
