------------------------- MODULE ConfigurationProofs -------------------------
(***************************************************************************)
(* What a save puts into the file, and what a start or a manager makes of  *)
(* the same lines.  A body is read by name, and a concatenation is read in *)
(* parts: the lemmas about Given say so, and the file is always the        *)
(* beginning of what the last save wanted to write.                        *)
(***************************************************************************)
EXTENDS Configuration, SequenceLemmas

\* All strings: the provers do not know that STRING holds the ones written out.
Word       == STRING \cup Taken
Setting    == Value \cup {Blank}
Definition == [name : Word, values : Nat]

\* Lines with values of items, groups and filters.
PlainLine == [name : Word \ {"newconf", "interval", "type"}, value : Setting]
FileLine  == Pair \cup PlainLine \cup [name : {"type"}, value : Definition]

\* What a line may say of n.
Meant(p, n) == p.name = n /\ (n \in Lists => IsGroup(p) \/ IsFilter(p))
Said(n) == IF n \in Lists THEN Value ELSE Setting
Marks(body, n) ==
  [i \in DOMAIN body |-> IF Meant(body[i], n) THEN <<body[i].value>> ELSE << >>]

LEMMA GivenByMarks == \A body, n : Given(body, n) = FlattenSeq(Marks(body, n))
BY DEF Given, Marks, Meant

\* The names of items are not those the library takes for itself.
LEMMA OwnNames ==
  /\ \A n \in Name : n \in Word /\ n \notin {"newconf", "interval", "type", "header"}
  /\ ToSet(ItemSeq) \cap Lists = {}
<1>1. ToSet(ItemSeq) \subseteq STRING \ Taken
  BY ElementsAreAtIndexes, ConfigurationAssumption
<1>2. \A n \in ToSet(ItemSeq) : n \in STRING /\ n \notin Taken
  BY <1>1
<1>3. \A n \in Lists : n \in Word /\ n \notin {"newconf", "interval", "type", "header"}
  BY Zenon DEF Lists, Word, Taken
<1>4. ToSet(ItemSeq) \cap Lists = {}
  BY <1>2 DEF Taken
<1>5. \A n \in ToSet(ItemSeq) : n \notin {"newconf", "interval", "type", "header"}
  BY <1>2 DEF Taken
<1> QED  BY <1>2, <1>3, <1>4, <1>5 DEF Name, Word

\* A line that is meant for n says something n can have.
LEMMA MeantValue ==
  ASSUME NEW p, NEW n, p \in FileLine, n \in Name, Meant(p, n)
  PROVE  p.value \in Said(n)
<1>1. n \notin {"newconf", "interval", "type"} /\ p.name = n
  BY OwnNames DEF Meant
<1>2. p.value \in Setting
  BY <1>1 DEF FileLine, Pair, PlainLine, Setting
<1>3. n \in Lists => p.value # Blank
  BY DEF Meant, IsGroup, IsFilter
<1> QED  BY <1>2, <1>3 DEF Said, Setting

LEMMA MarksType ==
  ASSUME NEW body, NEW n, body \in Seq(FileLine), n \in Name
  PROVE  /\ Marks(body, n) \in Seq(Seq(Said(n))) /\ Len(Marks(body, n)) = Len(body)
         /\ \A i \in 1 .. Len(body) :
              Marks(body, n)[i] = IF Meant(body[i], n) THEN <<body[i].value>> ELSE << >>
<1>1. /\ Len(body) \in Nat /\ DOMAIN body = 1 .. Len(body)
      /\ \A i \in 1 .. Len(body) : body[i] \in FileLine
  BY LenProperties, ElementOfSeq
<1>2. ASSUME NEW i \in 1 .. Len(body)
      PROVE  (IF Meant(body[i], n) THEN <<body[i].value>> ELSE << >>) \in Seq(Said(n))
  <2>1. CASE Meant(body[i], n)
    <3>1. body[i].value \in Said(n)
      BY <1>1, <2>1, MeantValue
    <3> QED  BY <2>1, <3>1
  <2>2. CASE ~Meant(body[i], n)
    BY <2>2
  <2> QED  BY <2>1, <2>2
<1> DEFINE T == Seq(Said(n))
           m == Marks(body, n)
<1>3. m \in [1 .. Len(body) -> T]
  BY <1>1, <1>2 DEF Marks
<1>4. \A i \in 1 .. Len(body) :
        m[i] = IF Meant(body[i], n) THEN <<body[i].value>> ELSE << >>
  BY <1>1 DEF Marks
<1> HIDE DEF T, m
<1>5. m \in Seq(T) /\ Len(m) = Len(body)
  BY <1>1, <1>3, FunctionIsSeq
<1> QED  BY <1>4, <1>5 DEF T, m

LEMMA GivenType ==
  ASSUME NEW body, NEW n, body \in Seq(FileLine), n \in Name
  PROVE  Given(body, n) \in Seq(Said(n))
BY MarksType, FlattenType, GivenByMarks

\* Two bodies, one after the other.
LEMMA GivenConcat ==
  ASSUME NEW s, NEW t, NEW n, s \in Seq(FileLine), t \in Seq(FileLine), n \in Name
  PROVE  Given(s \o t, n) = Given(s, n) \o Given(t, n)
<1> DEFINE T == Seq(Said(n))
           a == Marks(s, n)
           b == Marks(t, n)
           c == Marks(s \o t, n)
<1>1. /\ s \o t \in Seq(FileLine) /\ Len(s \o t) = Len(s) + Len(t)
      /\ Len(s) \in Nat /\ Len(t) \in Nat
      /\ \A i \in 1 .. Len(s) + Len(t) :
           (s \o t)[i] = IF i <= Len(s) THEN s[i] ELSE t[i - Len(s)]
  BY ConcatProperties, LenProperties
<1>2. /\ a \in Seq(T) /\ Len(a) = Len(s)
      /\ \A i \in 1 .. Len(s) : a[i] = IF Meant(s[i], n) THEN <<s[i].value>> ELSE << >>
  BY MarksType
<1>3. /\ b \in Seq(T) /\ Len(b) = Len(t)
      /\ \A i \in 1 .. Len(t) : b[i] = IF Meant(t[i], n) THEN <<t[i].value>> ELSE << >>
  BY MarksType
<1>4. /\ c \in Seq(T) /\ Len(c) = Len(s) + Len(t)
      /\ \A i \in 1 .. Len(s) + Len(t) :
           c[i] = IF Meant((s \o t)[i], n) THEN <<(s \o t)[i].value>> ELSE << >>
  BY <1>1, MarksType
<1> HIDE DEF T, a, b, c
<1>5. /\ a \o b \in Seq(T) /\ Len(a \o b) = Len(s) + Len(t)
      /\ \A i \in 1 .. Len(s) + Len(t) :
           (a \o b)[i] = IF i <= Len(s) THEN a[i] ELSE b[i - Len(s)]
  <2> DEFINE m == Len(s)
             k == Len(t)
  <2>1. a \in Seq(T) /\ b \in Seq(T) /\ Len(a) = m /\ Len(b) = k
    BY <1>2, <1>3
  <2> HIDE DEF m, k
  <2>2. /\ a \o b \in Seq(T) /\ Len(a \o b) = Len(a) + Len(b)
        /\ \A i \in 1 .. Len(a) + Len(b) :
             (a \o b)[i] = IF i <= Len(a) THEN a[i] ELSE b[i - Len(a)]
    BY ONLY <2>1, ConcatProperties
  <2>3. /\ a \o b \in Seq(T) /\ Len(a \o b) = m + k
        /\ \A i \in 1 .. m + k : (a \o b)[i] = IF i <= m THEN a[i] ELSE b[i - m]
    BY ONLY <2>1, <2>2
  <2> QED  BY ONLY <2>3 DEF m, k
<1>6. \A i \in 1 .. Len(s) + Len(t) : c[i] = (a \o b)[i]
  <2> SUFFICES ASSUME NEW i \in 1 .. Len(s) + Len(t)
               PROVE  c[i] = (a \o b)[i]
    OBVIOUS
  <2>1. CASE i <= Len(s)
    <3>1. i \in 1 .. Len(s)
      BY <1>1, <2>1
    <3> QED  BY <1>1, <1>2, <1>4, <1>5, <2>1, <3>1
  <2>2. CASE ~(i <= Len(s))
    <3>1. i - Len(s) \in 1 .. Len(t)
      BY <1>1, <2>2
    <3> QED  BY <1>1, <1>3, <1>4, <1>5, <2>2, <3>1
  <2> QED  BY <2>1, <2>2
<1>7. c = a \o b
  <2> DEFINE ab == a \o b
  <2>1. c \in Seq(T) /\ ab \in Seq(T) /\ Len(c) = Len(ab) /\ \A i \in 1 .. Len(c) : c[i] = ab[i]
    BY <1>4, <1>5, <1>6
  <2> HIDE DEF ab
  <2>2. c = ab
    BY ONLY <2>1, SeqEqual
  <2> QED  BY <2>2 DEF ab
<1>8. FlattenSeq(a \o b) = FlattenSeq(a) \o FlattenSeq(b)
  BY <1>2, <1>3, FlattenConcat DEF T
<1> QED  BY <1>7, <1>8, GivenByMarks DEF a, b, c

\* The beginning of a body.
LEMMA GivenPrefix ==
  ASSUME NEW s, NEW k, NEW n, s \in Seq(FileLine), k \in 0 .. Len(s), n \in Name
  PROVE  IsPrefix(Given(SubSeq(s, 1, k), n), Given(s, n))
<1> DEFINE a == SubSeq(s, 1, k)
           b == SubSeq(s, k + 1, Len(s))
<1>1. a \in Seq(FileLine) /\ b \in Seq(FileLine) /\ s = a \o b
  BY ONLY s \in Seq(FileLine), k \in 0 .. Len(s), InHalves DEF a, b
<1> HIDE DEF a, b
<1>2. Given(s, n) = Given(a, n) \o Given(b, n)
  BY <1>1, GivenConcat
<1>3. Given(a, n) \in Seq(Said(n)) /\ Given(b, n) \in Seq(Said(n))
  BY <1>1, GivenType
<1> QED  BY <1>2, <1>3, ConcatBegins DEF a

\* A body without a line for n.
LEMMA GivenNothing ==
  ASSUME NEW body, NEW n, body \in Seq(FileLine), n \in Name,
         \A i \in 1 .. Len(body) : ~Meant(body[i], n)
  PROVE  Given(body, n) = << >>
<1> DEFINE m == Marks(body, n)
           p == Len(m) + 1
<1>1. /\ m \in Seq(Seq(Said(n))) /\ \A i \in 1 .. Len(m) : m[i] = << >>
  BY MarksType
<1>2. Len(m) \in Nat
  BY <1>1, LenProperties
<1> HIDE DEF m
<1>3. p \in Nat \ {0} /\ ~(p <= Len(m))
  BY <1>2
<1> HIDE DEF p
<1>4. FlattenSeq(m) = << >>
  BY <1>1, <1>3, FlattenOne
<1> QED  BY <1>4, GivenByMarks DEF m

\* A body of lines for n.
LEMMA GivenAll ==
  ASSUME NEW body, NEW n, NEW e, body \in Seq(FileLine), n \in Name, e \in Seq(Said(n)),
         Len(e) = Len(body),
         \A i \in 1 .. Len(body) : Meant(body[i], n) /\ body[i].value = e[i]
  PROVE  Given(body, n) = e
<1> DEFINE m == Marks(body, n)
           V == Said(n)
<1>1. /\ m \in Seq(Seq(V)) /\ Len(e) = Len(m) /\ \A i \in 1 .. Len(m) : m[i] = <<e[i]>>
      /\ e \in Seq(V)
  BY MarksType
<1> HIDE DEF m, V
<1>2. FlattenSeq(m) = e
  BY ONLY <1>1, FlattenSingles
<1> QED  BY <1>2, GivenByMarks DEF m
-----------------------------------------------------------------------------
(* The devices that can be.                                                *)

DeviceRecord ==
  [configured : BOOLEAN, instance : Instance, interval : Nat,
   items : Seq(ToSet(ItemSeq)), max : [Name -> Nat], values : [Name -> Seq(Setting)]]

Orderly(d) ==
  /\ d \in DeviceRecord
  /\ IsInjective(d.items)
  /\ \A n \in Name :
       /\ d.values[n] \in Seq(Said(n)) /\ Len(d.values[n]) <= d.max[n]
       /\ d.max[n] = IF n \in Lists \cup ToSet(d.items) THEN Maximum(n) ELSE 0

\* The room for the values of a name.
LEMMA RoomForAll ==
  /\ \A n \in Name : Maximum(n) \in Nat \ {0}
  /\ Lists \subseteq Name /\ ToSet(ItemSeq) \subseteq Name
  /\ \A n \in Name : n \in Lists \/ n \in ToSet(ItemSeq)
  /\ \A n \in ToSet(ItemSeq) : n \notin Lists
BY ConfigurationAssumption, OwnNames DEF Maximum, Name

\* The items of an orderly device, by their indexes.
LEMMA ItemsByIndex ==
  ASSUME NEW d, Orderly(d)
  PROVE  /\ d.items \in Seq(ToSet(ItemSeq)) /\ Len(d.items) \in Nat
         /\ DOMAIN d.items = 1 .. Len(d.items)
         /\ \A i \in 1 .. Len(d.items) :
              /\ d.items[i] \in ToSet(ItemSeq) /\ d.items[i] \in ToSet(d.items)
              /\ d.items[i] \in Name /\ d.items[i] \notin Lists
         /\ \A i, j \in 1 .. Len(d.items) : d.items[i] = d.items[j] => i = j
         /\ \A n \in ToSet(d.items) :
              n \in ToSet(ItemSeq) /\ \E i \in 1 .. Len(d.items) : d.items[i] = n
<1>1. d.items \in Seq(ToSet(ItemSeq)) /\ IsInjective(d.items)
  BY DEF Orderly, DeviceRecord
<1> DEFINE s == d.items
           S == ToSet(ItemSeq)
<1> HIDE DEF s, S
<1>2. s \in Seq(S) /\ IsInjective(s)
  BY <1>1 DEF s, S
<1>3. /\ Len(s) \in Nat /\ DOMAIN s = 1 .. Len(s)
      /\ \A i \in 1 .. Len(s) : s[i] \in S
  BY <1>2, LenProperties, ElementOfSeq
<1>4. \A i, j \in 1 .. Len(s) : s[i] = s[j] => i = j
  BY <1>2, <1>3 DEF IsInjective
<1>5. \A i \in 1 .. Len(s) : s[i] \in ToSet(s)
  BY <1>3 DEF ToSet
<1>6. \A n \in ToSet(s) : \E i \in 1 .. Len(s) : s[i] = n
  BY <1>3 DEF ToSet
<1>7. \A n \in ToSet(s) : n \in S
  BY <1>3, <1>6
<1>8. \A n \in S : n \in Name /\ n \notin Lists
  BY RoomForAll DEF S
<1> QED  BY <1>1, <1>3, <1>4, <1>5, <1>6, <1>7, <1>8 DEF s, S

\* The values of a name: none if the device does not have it.
LEMMA ValuesOf ==
  ASSUME NEW d, NEW n, Orderly(d), n \in Name
  PROVE  /\ d.values[n] \in Seq(Said(n)) /\ Len(d.values[n]) \in Nat
         /\ DOMAIN d.values[n] = 1 .. Len(d.values[n])
         /\ \A i \in 1 .. Len(d.values[n]) : d.values[n][i] \in Said(n)
         /\ (n \notin Lists /\ n \notin ToSet(d.items)) => d.values[n] = << >>
<1> DEFINE s == d.values[n]
           S == Said(n)
<1>1. s \in Seq(S) /\ Len(s) <= d.max[n]
  BY DEF Orderly
<1>2. n \notin Lists \cup ToSet(d.items) => d.max[n] = 0
  BY DEF Orderly
<1> HIDE DEF s, S
<1>3. /\ Len(s) \in Nat /\ DOMAIN s = 1 .. Len(s)
      /\ \A i \in 1 .. Len(s) : s[i] \in S
  BY <1>1, LenProperties, ElementOfSeq
<1>4. Len(s) = 0 => s = << >>
  BY <1>1, EmptySeq
<1>5. (n \notin Lists /\ n \notin ToSet(d.items)) => s = << >>
  BY <1>1, <1>2, <1>3, <1>4
<1> QED  BY <1>1, <1>3, <1>5 DEF s, S

-----------------------------------------------------------------------------
(* What the lines of a device say when they are read again.                *)

\* A line with a value.
LEMMA PlainLineType ==
  ASSUME NEW name, NEW v, name \in Word \ {"newconf", "interval", "type"}, v \in Setting
  PROVE  /\ Line(name, v) \in FileLine /\ Line(name, v) \in PlainLine
         /\ Line(name, v).name = name /\ Line(name, v).value = v
<1>1. Line(name, v) \in PlainLine
  BY DEF Line, PlainLine
<1>2. PlainLine \subseteq FileLine
  BY DEF FileLine
<1> QED  BY <1>1, <1>2 DEF Line

\* The lines with the values of m are read as they were, if name is the one they are
\* read by, and not at all by any other.
LEMMA BlockGiven ==
  ASSUME NEW d, NEW m, NEW name, NEW n, Orderly(d), m \in Name, n \in Name,
         name \in Word \ {"newconf", "interval", "type"},
         name = m \/ name \notin Name
  PROVE  /\ ValueLines(d, m, name) \in Seq(PlainLine)
         /\ ValueLines(d, m, name) \in Seq(FileLine)
         /\ Given(ValueLines(d, m, name), n) = IF name = n THEN d.values[m] ELSE << >>
<1> DEFINE e == d.values[m]
           b == ValueLines(d, m, name)
<1>1. /\ e \in Seq(Said(m)) /\ Len(e) \in Nat /\ DOMAIN e = 1 .. Len(e)
      /\ \A i \in 1 .. Len(e) : e[i] \in Said(m)
  BY ValuesOf
<1>2. b = [i \in DOMAIN e |-> Line(name, e[i])]
  BY DEF ValueLines
<1> HIDE DEF e, b
<1>3. Said(m) \subseteq Setting
  BY DEF Said, Setting
<1>4. \A i \in 1 .. Len(e) :
        /\ Line(name, e[i]) \in FileLine /\ Line(name, e[i]) \in PlainLine
        /\ Line(name, e[i]).name = name /\ Line(name, e[i]).value = e[i]
  BY <1>1, <1>3, PlainLineType
<1>5. b \in [1 .. Len(e) -> PlainLine] /\ b \in [1 .. Len(e) -> FileLine]
  BY <1>1, <1>2, <1>4
<1>6. b \in Seq(PlainLine) /\ b \in Seq(FileLine) /\ Len(b) = Len(e)
  BY <1>1, <1>5, FunctionIsSeq
<1>7. \A i \in 1 .. Len(b) : b[i].name = name /\ b[i].value = e[i]
  BY <1>1, <1>2, <1>4, <1>6
<1>8. CASE name = n
  <2>1. m = n
    BY <1>8
  <2>2. \A i \in 1 .. Len(b) : Meant(b[i], n) /\ b[i].value = e[i]
    <3>1. n \in Lists => Blank \notin Said(n)
      BY ConfigurationAssumption DEF Said
    <3>2. \A i \in 1 .. Len(b) : n \in Lists => b[i].value # Blank
      BY <1>1, <1>6, <1>7, <2>1, <3>1
    <3>3. n \in Lists => n = "group" \/ n = "filter"
      BY DEF Lists
    <3> QED  BY <1>7, <1>8, <3>2, <3>3 DEF Meant, IsGroup, IsFilter
  <2>3. Given(b, n) = e
    BY <1>1, <1>6, <2>1, <2>2, GivenAll
  <2> QED  BY <1>6, <1>8, <2>3 DEF e, b
<1>9. CASE name # n
  <2>1. \A i \in 1 .. Len(b) : ~Meant(b[i], n)
    BY <1>7, <1>9 DEF Meant
  <2>2. Given(b, n) = << >>
    BY <1>6, <2>1, GivenNothing
  <2> QED  BY <1>6, <1>9, <2>2 DEF e, b
<1> QED  BY <1>8, <1>9

\* The lines with the groups or the filters.
LEMMA ListGiven ==
  ASSUME NEW d, NEW m, NEW n, Orderly(d), m \in Lists, n \in Name
  PROVE  /\ ListLines(d, m) \in Seq(PlainLine) /\ ListLines(d, m) \in Seq(FileLine)
         /\ Given(ListLines(d, m), n) = IF m = n THEN d.values[m] ELSE << >>
<1>1. m \in Name /\ m \in Word \ {"newconf", "interval", "type"}
  BY OwnNames, RoomForAll
<1>2. CASE d.values[m] # << >>
  <2>1. ListLines(d, m) = ValueLines(d, m, m)
    BY <1>2 DEF ListLines
  <2> QED  BY <1>1, <2>1, BlockGiven
<1>3. CASE d.values[m] = << >>
  <2> DEFINE l == Line(m, Blank)
  <2>1. /\ l \in FileLine /\ l \in PlainLine /\ l.name = m /\ l.value = Blank
    <3>1. Blank \in Setting
      BY DEF Setting
    <3> QED  BY <1>1, <3>1, PlainLineType
  <2>2. ListLines(d, m) = <<l>>
    BY <1>3 DEF ListLines
  <2> HIDE DEF l
  <2>3. <<l>> \in Seq(FileLine) /\ <<l>> \in Seq(PlainLine) /\ Len(<<l>>) = 1 /\ <<l>>[1] = l
    BY <2>1
  <2>4. ~Meant(l, n)
    BY <2>1 DEF Meant, IsGroup, IsFilter
  <2>5. Given(<<l>>, n) = << >>
    <3>1. \A i \in 1 .. Len(<<l>>) : ~Meant(<<l>>[i], n)
      BY <2>3, <2>4
    <3> QED  BY <2>3, <3>1, GivenNothing
  <2> QED  BY <1>3, <2>2, <2>3, <2>5
<1> QED  BY <1>2, <1>3

\* Bodies one after the other, each read for itself.
LEMMA GivenFlatten ==
  ASSUME NEW bs, NEW gs, NEW n, bs \in Seq(Seq(FileLine)), gs \in Seq(Seq(Said(n))),
         n \in Name, Len(gs) = Len(bs), \A i \in 1 .. Len(bs) : gs[i] = Given(bs[i], n)
  PROVE  Given(FlattenSeq(bs), n) = FlattenSeq(gs)
<1> DEFINE K == {k \in 0 .. Len(bs) : Given(Gathered(bs, k), n) = Gathered(gs, k)}
<1>1. /\ FlattenSeq(bs) = Gathered(bs, Len(bs)) /\ Gathered(bs, 0) = << >>
      /\ \A k \in 0 .. Len(bs) : Gathered(bs, k) \in Seq(FileLine)
      /\ \A k \in 1 .. Len(bs) : Gathered(bs, k) = Gathered(bs, k - 1) \o bs[k]
  BY FlattenType
<1>2. /\ FlattenSeq(gs) = Gathered(gs, Len(gs)) /\ Gathered(gs, 0) = << >>
      /\ \A k \in 1 .. Len(gs) : Gathered(gs, k) = Gathered(gs, k - 1) \o gs[k]
  BY FlattenType
<1>3. Len(bs) \in Nat /\ \A k \in 1 .. Len(bs) : bs[k] \in Seq(FileLine)
  BY LenProperties, ElementOfSeq
<1>4. 0 \in K
  <2>1. << >> \in Seq(FileLine) /\ Len(<< >>) = 0
    BY EmptySeq
  <2>2. Given(<< >>, n) = << >>
    <3>1. \A i \in 1 .. Len(<< >>) : ~Meant(<< >>[i], n)
      BY <2>1
    <3> QED  BY <2>1, <3>1, GivenNothing
  <2>3. Gathered(bs, 0) = << >> /\ Gathered(gs, 0) = << >> /\ 0 \in 0 .. Len(bs)
    BY ONLY <1>1, <1>2, <1>3
  <2> QED  BY ONLY <2>2, <2>3 DEF K
<1>5. ASSUME NEW k \in 1 .. Len(bs), k - 1 \in K
      PROVE  k \in K
  <2>1. Given(Gathered(bs, k - 1), n) = Gathered(gs, k - 1)
    BY ONLY <1>5 DEF K
  <2>2. k \in 0 .. Len(bs) /\ k - 1 \in 0 .. Len(bs)
    BY ONLY <1>3, k \in 1 .. Len(bs)
  <2> DEFINE g == Gathered(bs, k - 1)
             b == bs[k]
  <2>3. g \in Seq(FileLine) /\ b \in Seq(FileLine)
    BY <1>1, <1>3, <2>2
  <2>4. Gathered(bs, k) = g \o b
    BY <1>1
  <2>5. Given(g, n) = Gathered(gs, k - 1)
    BY <2>1
  <2>6. Gathered(gs, k) = Gathered(gs, k - 1) \o Given(b, n)
    BY <1>2
  <2> HIDE DEF g, b
  <2>7. Given(g \o b, n) = Given(g, n) \o Given(b, n)
    BY ONLY <2>3, n \in Name, GivenConcat
  <2> QED  BY ONLY <2>2, <2>4, <2>5, <2>6, <2>7 DEF K
<1> HIDE DEF K
<1>6. \A k \in 0 .. Len(bs) : k \in K
  BY <1>3, <1>4, <1>5, Climb
<1>7. Len(bs) \in K
  BY <1>3, <1>6
<1> QED  BY <1>1, <1>2, <1>7 DEF K
\* Names that lines with values can have, and what they are read as: themselves or nothing.
Naming(name) ==
  \A m \in ToSet(ItemSeq) :
    /\ name[m] \in Word \ {"newconf", "interval", "type"}
    /\ name[m] = m \/ name[m] \notin Name

\* The values of the items, all of them.
ItemBlocks(d, name) == [i \in DOMAIN d.items |-> ValueLines(d, d.items[i], name[d.items[i]])]

LEMMA ItemsGiven ==
  ASSUME NEW d, NEW name, NEW n, Orderly(d), Naming(name), n \in Name
  PROVE  /\ FlattenSeq(ItemBlocks(d, name)) \in Seq(PlainLine)
         /\ FlattenSeq(ItemBlocks(d, name)) \in Seq(FileLine)
         /\ Given(FlattenSeq(ItemBlocks(d, name)), n) =
              IF n \notin Lists /\ name[n] = n THEN d.values[n] ELSE << >>
<1> DEFINE bs == ItemBlocks(d, name)
           k == Len(d.items)
           g(i) == IF name[d.items[i]] = n THEN d.values[d.items[i]] ELSE << >>
           gs == [i \in 1 .. k |-> g(i)]
           TP == Seq(PlainLine)
           TF == Seq(FileLine)
           TS == Seq(Said(n))
<1>1. /\ k \in Nat /\ DOMAIN d.items = 1 .. k
      /\ \A i \in 1 .. k :
           /\ d.items[i] \in ToSet(ItemSeq) /\ d.items[i] \in ToSet(d.items)
           /\ d.items[i] \in Name /\ d.items[i] \notin Lists
      /\ \A i, j \in 1 .. k : d.items[i] = d.items[j] => i = j
      /\ \A m \in ToSet(d.items) : m \in ToSet(ItemSeq) /\ \E i \in 1 .. k : d.items[i] = m
  BY ItemsByIndex
<1> HIDE DEF k
<1>2. bs = [i \in 1 .. k |-> ValueLines(d, d.items[i], name[d.items[i]])]
  BY <1>1 DEF ItemBlocks
<1>3. ASSUME NEW i \in 1 .. k
      PROVE  /\ bs[i] \in TP /\ bs[i] \in TF /\ Given(bs[i], n) = gs[i] /\ g(i) \in TS
  <2> DEFINE m == d.items[i]
             w == name[m]
  <2>1. /\ m \in ToSet(ItemSeq) /\ m \in Name
        /\ w \in Word \ {"newconf", "interval", "type"} /\ (w = m \/ w \notin Name)
    BY <1>1 DEF Naming
  <2>2. bs[i] = ValueLines(d, m, w) /\ gs[i] = IF w = n THEN d.values[m] ELSE << >>
    BY <1>2
  <2> HIDE DEF m, w, bs, gs
  <2>3. /\ ValueLines(d, m, w) \in TP /\ ValueLines(d, m, w) \in TF
        /\ Given(ValueLines(d, m, w), n) = IF w = n THEN d.values[m] ELSE << >>
    BY <2>1, BlockGiven
  <2>4. (IF w = n THEN d.values[m] ELSE << >>) \in TS
    <3>1. CASE w = n
      <4>1. m = n
        BY <2>1, <3>1
      <4> QED  BY <2>1, <3>1, <4>1, ValuesOf
    <3>2. CASE w # n
      BY <3>2
    <3> QED  BY <3>1, <3>2
  <2> QED  BY <2>2, <2>3, <2>4 DEF m, w
<1> HIDE DEF TP, TF, TS
<1>4. bs \in [1 .. k -> TP] /\ bs \in [1 .. k -> TF] /\ gs \in [1 .. k -> TS]
  BY <1>2, <1>3
<1> HIDE DEF bs
<1>5. bs \in Seq(TP) /\ bs \in Seq(TF) /\ gs \in Seq(TS) /\ Len(bs) = k /\ Len(gs) = k
  BY <1>1, <1>4, FunctionIsSeq
<1>6. \A i \in 1 .. k : gs[i] = Given(bs[i], n)
  BY <1>3
<1>7. Given(FlattenSeq(bs), n) = FlattenSeq(gs)
  <2> HIDE DEF gs
  <2> QED  BY <1>5, <1>6, GivenFlatten DEF TF, TS
<1>8. FlattenSeq(bs) \in Seq(PlainLine) /\ FlattenSeq(bs) \in Seq(FileLine)
  BY <1>5, FlattenType DEF TP, TF
<1>9. FlattenSeq(gs) = IF n \notin Lists /\ name[n] = n THEN d.values[n] ELSE << >>
  <2> DEFINE there == n \notin Lists /\ name[n] = n /\ n \in ToSet(d.items)
  <2>1. CASE there
    <3>1. PICK p \in 1 .. k : d.items[p] = n
      BY <1>1, <2>1
    <3>2. \A i \in 1 .. k : i # p => gs[i] = << >>
      <4> SUFFICES ASSUME NEW i \in 1 .. k, i # p
                   PROVE  gs[i] = << >>
        OBVIOUS
      <4>1. d.items[i] # n
        BY <1>1, <3>1
      <4>2. name[d.items[i]] # n
        BY <1>1, <4>1 DEF Naming
      <4> QED  BY <4>2
    <3>3. gs[p] = d.values[n] /\ p \in Nat \ {0} /\ p <= Len(gs)
      <4>1. gs[p] = d.values[n]
        BY <2>1, <3>1
      <4>2. p \in Nat \ {0} /\ p <= k
        BY <1>1
      <4> QED  BY <1>5, <4>1, <4>2
    <3>4. FlattenSeq(gs) = gs[p]
      <4> HIDE DEF gs
      <4> QED  BY <1>5, <3>2, <3>3, FlattenOne DEF TS
    <3> QED  BY <2>1, <3>3, <3>4
  <2>2. CASE ~there
    <3>1. \A i \in 1 .. k : gs[i] = << >>
      <4> SUFFICES ASSUME NEW i \in 1 .. k
                   PROVE  gs[i] = << >>
        OBVIOUS
      <4>1. name[d.items[i]] # n
        <5> SUFFICES ASSUME name[d.items[i]] = n
                     PROVE  FALSE
          OBVIOUS
        <5>1. d.items[i] = n
          BY <1>1 DEF Naming
        <5> QED  BY <1>1, <2>2, <5>1
      <4> QED  BY <4>1
    <3>2. k + 1 \in Nat \ {0} /\ ~(k + 1 <= Len(gs))
      BY <1>1, <1>5
    <3>3. FlattenSeq(gs) = << >>
      <4> DEFINE p == k + 1
      <4> HIDE DEF gs, p
      <4>1. p \in Nat \ {0} /\ ~(p <= Len(gs)) /\ \A i \in 1 .. Len(gs) : i # p => gs[i] = << >>
        BY <1>5, <3>1, <3>2 DEF p
      <4> QED  BY <1>5, <4>1, FlattenOne DEF TS
    <3>4. (n \notin Lists /\ name[n] = n) => d.values[n] = << >>
      BY <2>2, ValuesOf
    <3> QED  BY <3>3, <3>4
  <2> QED  BY <2>1, <2>2
<1> QED  BY <1>7, <1>8, <1>9 DEF bs

\* The first two lines, and the others.
Head2(d) == <<Line("newconf", d.instance), Line("interval", d.interval \div Minute)>>
Rest(d, name) ==
  (ListLines(d, "group") \o ListLines(d, "filter")) \o FlattenSeq(ItemBlocks(d, name))

LEMMA Head2Type ==
  ASSUME NEW d, Orderly(d)
  PROVE  /\ Head2(d) \in Seq(FileLine) /\ Len(Head2(d)) = 2
         /\ Head2(d)[1].name = "newconf" /\ Head2(d)[1].value = d.instance
         /\ Head2(d)[2].name = "interval" /\ Head2(d)[2].value = d.interval \div Minute
         /\ d.interval \div Minute \in Nat
<1>1. d.instance \in Instance /\ d.interval \in Nat
  BY DEF Orderly, DeviceRecord
<1>2. d.interval \div Minute \in Nat
  <2> DEFINE t == d.interval
  <2>1. t \in Nat
    BY <1>1
  <2> HIDE DEF t
  <2>2. Minute \in Nat /\ Minute > 0
    BY ConfigurationAssumption
  <2>3. t \div Minute \in Nat
    BY ONLY <2>1, <2>2
  <2> QED  BY <2>3 DEF t
<1> DEFINE q == d.interval \div Minute
<1> HIDE DEF q
<1>3. Line("newconf", d.instance) \in FileLine
  BY <1>1 DEF Line, FileLine, Pair
<1>4. Line("interval", q) \in FileLine
  BY <1>2 DEF Line, FileLine, Pair, q
<1> DEFINE a == Line("newconf", d.instance)
           b == Line("interval", q)
<1>5. /\ a \in FileLine /\ b \in FileLine
      /\ a.name = "newconf" /\ a.value = d.instance /\ b.name = "interval" /\ b.value = q
  BY <1>3, <1>4 DEF Line
<1>6. Head2(d) = <<a, b>>
  BY DEF Head2, q
<1> HIDE DEF a, b
<1>7. <<a, b>> \in Seq(FileLine) /\ Len(<<a, b>>) = 2 /\ <<a, b>>[1] = a /\ <<a, b>>[2] = b
  BY <1>5
<1> QED  BY <1>2, <1>5, <1>6, <1>7 DEF q

\* What the values of a device say of a name (prvDeviceConfigSendCurrent read by prvConfigSet).
LEMMA ValuesGiven ==
  ASSUME NEW d, NEW name, Orderly(d), Naming(name)
  PROVE  /\ Values(d, name) = Head2(d) \o Rest(d, name)
         /\ Rest(d, name) \in Seq(PlainLine) /\ Values(d, name) \in Seq(FileLine)
         /\ \A n \in Name : Given(Values(d, name), n) =
              IF n \in Lists \/ name[n] = n THEN d.values[n] ELSE << >>
<1> DEFINE h == Head2(d)
           g == ListLines(d, "group")
           f == ListLines(d, "filter")
           v == FlattenSeq(ItemBlocks(d, name))
<1>1. Values(d, name) = ((h \o g) \o f) \o v
  BY DEF Values, Head2, ItemBlocks
<1>2. h \in Seq(FileLine)
  BY Head2Type
<1>3. "group" \in Lists /\ "filter" \in Lists /\ "group" # "filter"
  BY DEF Lists
<1>4. \E n : n \in Name
  BY <1>3, RoomForAll
<1>5. /\ g \in Seq(PlainLine) /\ g \in Seq(FileLine)
      /\ f \in Seq(PlainLine) /\ f \in Seq(FileLine)
  BY <1>3, <1>4, ListGiven
<1>6. v \in Seq(PlainLine) /\ v \in Seq(FileLine)
  BY <1>4, ItemsGiven
<1> DEFINE gf == g \o f
<1>7. gf \in Seq(PlainLine) /\ gf \in Seq(FileLine)
  BY <1>5, ConcatProperties
<1>8. ((h \o g) \o f) \o v = h \o (gf \o v)
  <2> HIDE DEF h, g, f, v
  <2>1. (h \o g) \o f = h \o gf
    BY <1>2, <1>5, ConcatAssociative
  <2> HIDE DEF gf
  <2>2. (h \o gf) \o v = h \o (gf \o v)
    BY <1>2, <1>6, <1>7, ConcatAssociative
  <2> QED  BY <2>1, <2>2
<1>9. Rest(d, name) = gf \o v
  BY DEF Rest
<1>10. gf \o v \in Seq(PlainLine) /\ gf \o v \in Seq(FileLine)
  <2> HIDE DEF gf, v
  <2> QED  BY <1>6, <1>7, ConcatProperties
<1>11. h \o (gf \o v) \in Seq(FileLine)
  <2> DEFINE w == gf \o v
  <2>1. w \in Seq(FileLine)
    BY <1>10
  <2> HIDE DEF h, w
  <2>2. h \o w \in Seq(FileLine)
    BY ONLY <1>2, <2>1, ConcatProperties
  <2> QED  BY ONLY <2>2 DEF w
<1>12. ASSUME NEW n \in Name
       PROVE  Given(h \o (gf \o v), n) =
                IF n \in Lists \/ name[n] = n THEN d.values[n] ELSE << >>
  <2>1. Given(h, n) = << >>
    <3>1. \A i \in 1 .. Len(h) : ~Meant(h[i], n)
      <4>1. n # "newconf" /\ n # "interval"
        BY OwnNames
      <4>2. \A i \in 1 .. Len(h) : i = 1 \/ i = 2
        <5>1. Len(h) = 2
          BY Head2Type
        <5> HIDE DEF h
        <5> QED  BY <5>1
      <4>3. h[1].name # n /\ h[2].name # n
        BY <4>1, Head2Type
      <4> QED  BY <4>2, <4>3 DEF Meant
    <3> QED  BY <1>2, <3>1, GivenNothing
  <2>2. /\ Given(g, n) = IF n = "group" THEN d.values[n] ELSE << >>
        /\ Given(f, n) = IF n = "filter" THEN d.values[n] ELSE << >>
    BY <1>3, ListGiven
  <2>3. Given(v, n) = IF n \notin Lists /\ name[n] = n THEN d.values[n] ELSE << >>
    BY ItemsGiven
  <2>4. n \in Lists <=> n = "group" \/ n = "filter"
    BY DEF Lists
  <2> HIDE DEF h, g, f, v
  <2>5. Given(gf, n) = Given(g, n) \o Given(f, n)
    BY <1>5, GivenConcat
  <2> HIDE DEF gf
  <2>6. Given(gf \o v, n) = Given(gf, n) \o Given(v, n)
    BY <1>6, <1>7, GivenConcat
  <2> DEFINE w == gf \o v
  <2>7. w \in Seq(FileLine)
    BY <1>10
  <2> HIDE DEF w
  <2>8. Given(h \o w, n) = Given(h, n) \o Given(w, n)
    BY <1>2, <2>7, GivenConcat
  <2> DEFINE x == d.values[n]
  <2>9. << >> \o x = x /\ x \o << >> = x /\ << >> \o << >> = << >>
    <3>1. x \in Seq(Said(n)) /\ << >> \in Seq(Said(n))
      BY ValuesOf
    <3> HIDE DEF x
    <3> QED  BY <3>1, ConcatEmptySeq
  <2> HIDE DEF x
  <2>10. Given(w, n) = (Given(g, n) \o Given(f, n)) \o Given(v, n)
    BY <2>5, <2>6 DEF w
  <2>11. CASE n = "group"
    <3>1. Given(g, n) = x /\ Given(f, n) = << >> /\ Given(v, n) = << >> /\ n \in Lists
      BY <1>3, <2>2, <2>3, <2>4, <2>11 DEF x
    <3> QED  BY <2>1, <2>8, <2>9, <2>10, <3>1 DEF w, x
  <2>12. CASE n = "filter"
    <3>1. Given(g, n) = << >> /\ Given(f, n) = x /\ Given(v, n) = << >> /\ n \in Lists
      BY <1>3, <2>2, <2>3, <2>4, <2>12 DEF x
    <3> QED  BY <2>1, <2>8, <2>9, <2>10, <3>1 DEF w, x
  <2>13. CASE n \notin Lists
    <3>1. /\ Given(g, n) = << >> /\ Given(f, n) = << >>
          /\ Given(v, n) = IF name[n] = n THEN x ELSE << >>
      BY <2>2, <2>3, <2>4, <2>13 DEF x
    <3> QED  BY <2>1, <2>8, <2>9, <2>10, <2>13, <3>1 DEF w, x
  <2> QED  BY <2>4, <2>11, <2>12, <2>13
<1> HIDE DEF h, g, f, v, gf
<1> QED  BY <1>1, <1>8, <1>9, <1>10, <1>11, <1>12 DEF h
-----------------------------------------------------------------------------
(* A body applied to a device without values.                              *)

Renames(d, body) == {i \in DOMAIN body : body[i].name = "newconf" /\ body[i].value # d.instance}
Retimes(d, body) ==
  {i \in DOMAIN body : body[i].name = "interval" /\ body[i].value * Minute # d.interval}
InstanceAfter(d, body) ==
  IF Renames(d, body) = {} THEN d.instance ELSE body[Max(Renames(d, body))].value
IntervalAfter(d, body) ==
  IF Retimes(d, body) = {} \/ body[Max(Retimes(d, body))].value = 0 THEN d.interval
  ELSE body[Max(Retimes(d, body))].value * Minute

Device(configured, instance, interval, items, max, values) ==
  [configured |-> configured, instance |-> instance, interval |-> interval,
   items |-> items, max |-> max, values |-> values]

LEMMA DeviceByFields ==
  ASSUME NEW A, NEW B, NEW C, NEW D, NEW E, NEW F,
         NEW d \in [configured : A, instance : B, interval : C, items : D, max : E, values : F]
  PROVE  d = Device(d.configured, d.instance, d.interval, d.items, d.max, d.values)
BY DEF Device

LEMMA ConfigSetIs ==
  ASSUME NEW d, NEW body, d \in DeviceRecord
  PROVE  ConfigSet(d, body) =
           Device(TRUE, InstanceAfter(d, body), IntervalAfter(d, body), d.items, d.max,
                  Filled(d, body))
<1> DEFINE a == InstanceAfter(d, body)
           b == IntervalAfter(d, body)
           c == Filled(d, body)
           t == TRUE
<1>1. ConfigSet(d, body) =
        [d EXCEPT !.configured = t, !.instance = a, !.interval = b, !.values = c]
  BY DEF ConfigSet, InstanceAfter, IntervalAfter, Renames, Retimes
<1> HIDE DEF a, b, c, t
<1> DEFINE e == [d EXCEPT !.configured = t, !.instance = a, !.interval = b, !.values = c]
<1>2. /\ e \in [configured : {t}, instance : {a}, interval : {b},
                items : Seq(ToSet(ItemSeq)), max : [Name -> Nat], values : {c}]
      /\ e.items = d.items /\ e.max = d.max
  BY DEF DeviceRecord
<1>3. e.configured = t /\ e.instance = a /\ e.interval = b /\ e.values = c
  BY <1>2
<1> HIDE DEF e
<1>4. e = Device(e.configured, e.instance, e.interval, e.items, e.max, e.values)
  BY <1>2, DeviceByFields
<1> QED  BY <1>1, <1>2, <1>3, <1>4 DEF a, b, c, t, e

\* What a body says of the instance and of the interval, if it says anything.
Says(body, v, m) ==
  \A i \in 1 .. Len(body) :
    /\ body[i].name = "newconf" => body[i].value = v
    /\ body[i].name = "interval" => body[i].value = m
Speaks(body, x) == \E i \in 1 .. Len(body) : body[i].name = x

LEMMA InstanceIs ==
  ASSUME NEW d, NEW body, d \in DeviceRecord, body \in Seq(FileLine)
  PROVE  /\ InstanceAfter(d, body) \in Instance
         /\ \A v, m : Says(body, v, m) =>
              InstanceAfter(d, body) = IF Speaks(body, "newconf") THEN v ELSE d.instance
<1> DEFINE I == Renames(d, body)
           k == Max(I)
<1>1. /\ Len(body) \in Nat /\ DOMAIN body = 1 .. Len(body)
      /\ \A i \in 1 .. Len(body) : body[i] \in FileLine
  BY LenProperties, ElementOfSeq
<1>2. d.instance \in Instance
  BY DEF DeviceRecord
<1>3. /\ I \subseteq 1 .. Len(body)
      /\ \A i \in I : body[i].name = "newconf" /\ body[i].value # d.instance
      /\ \A i \in 1 .. Len(body) :
           body[i].name = "newconf" /\ body[i].value # d.instance => i \in I
  BY <1>1 DEF Renames
<1> HIDE DEF I
<1>4. I # {} => k \in I
  BY <1>1, <1>3, MaxIsThere
<1> HIDE DEF k
<1>5. InstanceAfter(d, body) = IF I = {} THEN d.instance ELSE body[k].value
  BY DEF InstanceAfter, I, k
<1>6. \A p \in FileLine : p.name = "newconf" => p.value \in Instance
  BY DEF FileLine, Pair, PlainLine
<1>7. CASE I = {}
  <2>1. InstanceAfter(d, body) = d.instance
    BY <1>5, <1>7
  <2>2. ASSUME NEW v, NEW m, Says(body, v, m), Speaks(body, "newconf")
        PROVE  v = d.instance
    BY <1>3, <1>7, <2>2 DEF Says, Speaks
  <2> QED  BY <1>2, <2>1, <2>2
<1>8. CASE I # {}
  <2>1. /\ InstanceAfter(d, body) = body[k].value /\ k \in 1 .. Len(body)
        /\ body[k].name = "newconf"
    BY <1>3, <1>4, <1>5, <1>8
  <2>2. Speaks(body, "newconf")
    BY <2>1 DEF Speaks
  <2>3. ASSUME NEW v, NEW m, Says(body, v, m)
        PROVE  body[k].value = v
    BY <2>1, <2>3 DEF Says
  <2> QED  BY <1>1, <1>6, <2>1, <2>2, <2>3
<1> QED  BY <1>7, <1>8

LEMMA IntervalIs ==
  ASSUME NEW d, NEW body, d \in DeviceRecord, body \in Seq(FileLine)
  PROVE  /\ IntervalAfter(d, body) \in Nat
         /\ \A v, m : Says(body, v, m) =>
              IntervalAfter(d, body) =
                IF Speaks(body, "interval") /\ m # 0 THEN m * Minute ELSE d.interval
<1> DEFINE I == Retimes(d, body)
           k == Max(I)
<1>1. /\ Len(body) \in Nat /\ DOMAIN body = 1 .. Len(body)
      /\ \A i \in 1 .. Len(body) : body[i] \in FileLine
  BY LenProperties, ElementOfSeq
<1>2. d.interval \in Nat /\ Minute \in Nat
  BY ConfigurationAssumption DEF DeviceRecord
<1>3. /\ I \subseteq 1 .. Len(body)
      /\ \A i \in I : body[i].name = "interval" /\ body[i].value * Minute # d.interval
      /\ \A i \in 1 .. Len(body) :
           body[i].name = "interval" /\ body[i].value * Minute # d.interval => i \in I
  BY <1>1 DEF Retimes
<1> HIDE DEF I
<1>4. I # {} => k \in I
  BY <1>1, <1>3, MaxIsThere
<1> HIDE DEF k
<1>5. IntervalAfter(d, body) = IF I = {} \/ body[k].value = 0 THEN d.interval
                                                              ELSE body[k].value * Minute
  BY DEF IntervalAfter, I, k
<1>6. \A p \in FileLine : p.name = "interval" => p.value \in Nat
  BY DEF FileLine, Pair, PlainLine
<1>7. CASE I = {}
  <2>1. IntervalAfter(d, body) = d.interval
    BY <1>5, <1>7
  <2>2. ASSUME NEW v, NEW m, Says(body, v, m), Speaks(body, "interval")
        PROVE  m * Minute = d.interval
    BY <1>3, <1>7, <2>2 DEF Says, Speaks
  <2> QED  BY <1>2, <2>1, <2>2
<1>8. CASE I # {}
  <2>1. k \in 1 .. Len(body) /\ body[k].name = "interval"
    BY <1>3, <1>4, <1>8
  <2> DEFINE w == body[k].value
  <2>2. w \in Nat /\ IntervalAfter(d, body) = IF w = 0 THEN d.interval ELSE w * Minute
    BY <1>1, <1>5, <1>6, <1>8, <2>1
  <2>3. Speaks(body, "interval")
    BY <2>1 DEF Speaks
  <2>4. ASSUME NEW v, NEW m, Says(body, v, m)
        PROVE  w = m
    BY <2>1, <2>4 DEF Says
  <2> HIDE DEF w
  <2>5. w * Minute \in Nat
    BY <1>2, <2>2
  <2> QED  BY <1>2, <2>2, <2>3, <2>4, <2>5
<1> QED  BY <1>7, <1>8

LEMMA UptoFits ==
  ASSUME NEW S, NEW s, NEW k, s \in Seq(S), k \in Nat
  PROVE  /\ Upto(s, k) \in Seq(S) /\ Len(Upto(s, k)) <= k
         /\ Len(s) <= k => Upto(s, k) = s
<1>1. Len(s) \in Nat /\ \A i \in 1 .. Len(s) : s[i] \in S
  BY LenProperties, ElementOfSeq
<1>2. CASE Len(s) <= k
  BY <1>2 DEF Upto
<1>3. CASE ~(Len(s) <= k)
  <2>1. k \in 0 .. Len(s)
    BY <1>1, <1>3
  <2>2. SubSeq(s, 1, k) \in Seq(S) /\ Len(SubSeq(s, 1, k)) = k
    BY <2>1, InTwo
  <2> QED  BY <1>3, <2>2 DEF Upto
<1> QED  BY <1>2, <1>3

Empty(d) == \A n \in Name : d.values[n] = << >>

\* A device without values takes what fits, of the names it has.
LEMMA FilledIs ==
  ASSUME NEW d, NEW body, NEW n, Orderly(d), Empty(d), body \in Seq(FileLine), n \in Name
  PROVE  /\ Filled(d, body)[n] = IF n \in Lists \cup ToSet(d.items)
                                   THEN Upto(Given(body, n), d.max[n]) ELSE << >>
         /\ Filled(d, body)[n] \in Seq(Said(n)) /\ Len(Filled(d, body)[n]) <= d.max[n]
         /\ (n \in Lists \cup ToSet(d.items) /\ Len(Given(body, n)) <= d.max[n])
              => Filled(d, body)[n] = Given(body, n)
<1> DEFINE g == Given(body, n)
           k == d.max[n]
<1>1. g \in Seq(Said(n)) /\ << >> \o g = g
  <2>1. g \in Seq(Said(n))
    BY GivenType
  <2> HIDE DEF g
  <2> QED  BY <2>1, ConcatEmptySeq
<1>2. k \in Nat
  BY DEF Orderly, DeviceRecord
<1>3. Filled(d, body)[n] = IF n \in Lists \cup ToSet(d.items) THEN Upto(<< >> \o g, k)
                                                               ELSE << >>
  BY DEF Filled, Empty
<1> HIDE DEF g, k
<1>4. Filled(d, body)[n] = IF n \in Lists \cup ToSet(d.items) THEN Upto(g, k) ELSE << >>
  BY <1>1, <1>3
<1>5. /\ Upto(g, k) \in Seq(Said(n)) /\ Len(Upto(g, k)) <= k
      /\ Len(g) <= k => Upto(g, k) = g
  BY <1>1, <1>2, UptoFits
<1>6. << >> \in Seq(Said(n)) /\ Len(<< >>) <= k
  BY <1>2, EmptySeq
<1> QED  BY <1>4, <1>5, <1>6 DEF g, k

LEMMA SaidIsSetting == \A n : Seq(Said(n)) \subseteq Seq(Setting)
<1> SUFFICES ASSUME NEW n
             PROVE  Seq(Said(n)) \subseteq Seq(Setting)
  OBVIOUS
<1>1. Said(n) \subseteq Setting
  BY DEF Said, Setting
<1> QED  BY <1>1, SeqMonotonic

\* A record with orderly fields.
LEMMA OrderlyRecord ==
  ASSUME NEW c \in BOOLEAN, NEW i \in Instance, NEW t \in Nat, NEW items, NEW max, NEW values,
         items \in Seq(ToSet(ItemSeq)), IsInjective(items),
         max \in [Name -> Nat], DOMAIN values = Name, values = [n \in Name |-> values[n]],
         \A n \in Name :
           /\ values[n] \in Seq(Said(n)) /\ Len(values[n]) <= max[n]
           /\ max[n] = IF n \in Lists \cup ToSet(items) THEN Maximum(n) ELSE 0
  PROVE  Orderly(Device(c, i, t, items, max, values))
<1>1. values \in [Name -> Seq(Setting)]
  <2> DEFINE T == Seq(Setting)
  <2>1. \A n \in Name : values[n] \in T
    BY SaidIsSetting
  <2> HIDE DEF T
  <2>2. values \in [Name -> T]
    BY <2>1
  <2> QED  BY <2>2 DEF T
<1> DEFINE d == Device(c, i, t, items, max, values)
<1>2. d \in DeviceRecord
  BY <1>1 DEF Device, DeviceRecord
<1>3. d.items = items /\ d.max = max /\ d.values = values
  BY DEF Device
<1> HIDE DEF d
<1>4. Orderly(d)
  BY <1>2, <1>3 DEF Orderly
<1> QED  BY <1>4 DEF d

\* A configuration applied to an orderly device without values leaves an orderly one.
LEMMA ConfigSetOrderly ==
  ASSUME NEW d, NEW body, Orderly(d), Empty(d), body \in Seq(FileLine)
  PROVE  /\ Orderly(ConfigSet(d, body))
         /\ ConfigSet(d, body) =
              Device(TRUE, InstanceAfter(d, body), IntervalAfter(d, body), d.items, d.max,
                     Filled(d, body))
<1> DEFINE a == InstanceAfter(d, body)
           b == IntervalAfter(d, body)
           c == Filled(d, body)
<1>1. /\ d \in DeviceRecord /\ IsInjective(d.items)
      /\ d.items \in Seq(ToSet(ItemSeq)) /\ d.max \in [Name -> Nat]
      /\ \A n \in Name : d.max[n] = IF n \in Lists \cup ToSet(d.items) THEN Maximum(n) ELSE 0
  BY DEF Orderly, DeviceRecord
<1>2. a \in Instance /\ b \in Nat
  BY <1>1, InstanceIs, IntervalIs
<1>3. DOMAIN c = Name /\ c = [n \in Name |-> c[n]]
  BY DEF Filled
<1>4. \A n \in Name : c[n] \in Seq(Said(n)) /\ Len(c[n]) <= d.max[n]
  BY FilledIs
<1>5. ConfigSet(d, body) = Device(TRUE, a, b, d.items, d.max, c)
  BY <1>1, ConfigSetIs
<1> HIDE DEF a, b, c
<1>6. TRUE \in BOOLEAN
  OBVIOUS
<1>7. Orderly(Device(TRUE, a, b, d.items, d.max, c))
  BY <1>1, <1>2, <1>3, <1>4, <1>6, OrderlyRecord
<1> QED  BY <1>5, <1>7 DEF a, b, c
\* Devices without values: a new one, and one that makes room for new ones.
LEMMA NewDeviceOrderly ==
  ASSUME NEW i \in Instance
  PROVE  /\ Orderly(NewDevice(i)) /\ Empty(NewDevice(i))
         /\ NewDevice(i).instance = i /\ NewDevice(i).interval = DefaultInterval
         /\ NewDevice(i).configured = FALSE /\ NewDevice(i).items = << >>
<1> DEFINE max == [n \in Name |-> IF n \in Lists THEN ListMax[n] ELSE 0]
           values == [n \in Name |-> << >>]
           c == FALSE
<1>1. NewDevice(i) = Device(c, i, DefaultInterval, << >>, max, values)
  BY DEF NewDevice, Device
<1>2. /\ << >> \in Seq(ToSet(ItemSeq)) /\ IsInjective(<< >>) /\ ToSet(<< >>) = {}
  <2>1. DOMAIN << >> = {}
    OBVIOUS
  <2> QED  BY <2>1 DEF IsInjective, ToSet
<1>3. c \in BOOLEAN /\ DefaultInterval \in Nat
  BY ConfigurationAssumption
<1>4. max \in [Name -> Nat]
  BY ConfigurationAssumption
<1>5. DOMAIN values = Name /\ values = [n \in Name |-> values[n]] /\ \A n \in Name : values[n] = << >>
  OBVIOUS
<1>6. \A n \in Name : max[n] = IF n \in Lists \cup ToSet(<< >>) THEN Maximum(n) ELSE 0
  BY <1>2 DEF Maximum
<1> HIDE DEF max, values, c
<1>7. \A n \in Name : values[n] \in Seq(Said(n)) /\ Len(values[n]) <= max[n]
  <2> SUFFICES ASSUME NEW n \in Name
               PROVE  values[n] \in Seq(Said(n)) /\ Len(values[n]) <= max[n]
    OBVIOUS
  <2>1. << >> \in Seq(Said(n)) /\ Len(<< >>) = 0 /\ max[n] \in Nat
    BY <1>4, EmptySeq
  <2>2. values[n] = << >>
    BY <1>5
  <2>3. 0 <= max[n] /\ Len(<< >>) <= max[n]
    BY ONLY <2>1
  <2> QED  BY ONLY <2>1, <2>2, <2>3
<1>8. Orderly(Device(c, i, DefaultInterval, << >>, max, values))
  BY <1>2, <1>3, <1>4, <1>5, <1>6, <1>7, OrderlyRecord
<1>9. LET d == Device(c, i, DefaultInterval, << >>, max, values) IN
        /\ d.configured = c /\ d.instance = i /\ d.interval = DefaultInterval
        /\ d.items = << >> /\ d.values = values
  BY DEF Device
<1> QED  BY <1>1, <1>5, <1>8, <1>9 DEF Empty, c

LEMMA ClearedOrderly ==
  ASSUME NEW d, Orderly(d)
  PROVE  /\ Orderly(Cleared(d)) /\ Empty(Cleared(d))
         /\ Cleared(d).instance = d.instance /\ Cleared(d).interval = d.interval
         /\ Cleared(d).items = d.items /\ Cleared(d).max = d.max
<1> DEFINE e == Cleared(d)
           values == [n \in Name |-> << >>]
<1>1. /\ d \in DeviceRecord /\ IsInjective(d.items) /\ d.max \in [Name -> Nat]
      /\ \A n \in Name : d.max[n] = IF n \in Lists \cup ToSet(d.items) THEN Maximum(n) ELSE 0
  BY DEF Orderly, DeviceRecord
<1>2. e = [d EXCEPT !.values = values]
  BY DEF Cleared
<1>3. /\ e.instance = d.instance /\ e.interval = d.interval /\ e.items = d.items
      /\ e.max = d.max /\ e.values = values
  BY <1>1, <1>2 DEF DeviceRecord
<1>4. values \in [Name -> Seq(Setting)]
  <2>1. << >> \in Seq(Setting)
    BY EmptySeq
  <2> QED  BY <2>1
<1>5. \A n \in Name : values[n] = << >>
  OBVIOUS
<1> HIDE DEF values, e
<1>6. e \in DeviceRecord
  BY <1>1, <1>2, <1>4 DEF DeviceRecord
<1>7. \A n \in Name : values[n] \in Seq(Said(n)) /\ Len(values[n]) <= d.max[n]
  <2> SUFFICES ASSUME NEW n \in Name
               PROVE  values[n] \in Seq(Said(n)) /\ Len(values[n]) <= d.max[n]
    OBVIOUS
  <2>1. << >> \in Seq(Said(n)) /\ Len(<< >>) = 0 /\ d.max[n] \in Nat
    BY <1>1, EmptySeq
  <2>2. values[n] = << >>
    BY <1>5
  <2>3. 0 <= d.max[n] /\ Len(<< >>) <= d.max[n]
    BY ONLY <2>1
  <2> QED  BY ONLY <2>1, <2>2, <2>3
<1>8. Orderly(e)
  BY <1>1, <1>3, <1>6, <1>7 DEF Orderly
<1>9. Empty(e)
  BY <1>3, <1>5 DEF Empty
<1> QED  BY <1>3, <1>8, <1>9 DEF e

\* The values of a device say its instance and its interval, once.
LEMMA ValuesSay ==
  ASSUME NEW d, NEW name, Orderly(d), Naming(name)
  PROVE  /\ Says(Values(d, name), d.instance, d.interval \div Minute)
         /\ Speaks(Values(d, name), "newconf") /\ Speaks(Values(d, name), "interval")
         /\ \A i \in 1 .. Len(Values(d, name)) : Values(d, name)[i].name # "type"
<1> DEFINE h == Head2(d)
           r == Rest(d, name)
           v == Values(d, name)
           q == d.interval \div Minute
<1>1. v = h \o r /\ r \in Seq(PlainLine) /\ r \in Seq(FileLine) /\ h \in Seq(FileLine)
  <2>1. v = h \o r /\ r \in Seq(PlainLine)
    BY ValuesGiven
  <2>2. PlainLine \subseteq FileLine
    BY DEF FileLine
  <2>3. Seq(PlainLine) \subseteq Seq(FileLine)
    BY <2>2, SeqMonotonic
  <2> QED  BY <2>1, <2>3, Head2Type
<1>2. /\ Len(h) = 2
      /\ h[1].name = "newconf" /\ h[1].value = d.instance
      /\ h[2].name = "interval" /\ h[2].value = q
  BY Head2Type
<1> HIDE DEF h, r, v, q
<1>3. /\ Len(r) \in Nat /\ \A i \in 1 .. Len(r) : r[i] \in PlainLine
  BY <1>1, LenProperties, ElementOfSeq
<1>4. /\ Len(v) = Len(h) + Len(r)
      /\ \A i \in 1 .. Len(h) + Len(r) : v[i] = IF i <= Len(h) THEN h[i] ELSE r[i - Len(h)]
  <2> DEFINE w == h \o r
  <2>1. /\ Len(w) = Len(h) + Len(r)
        /\ \A i \in 1 .. Len(h) + Len(r) : w[i] = IF i <= Len(h) THEN h[i] ELSE r[i - Len(h)]
    BY ONLY <1>1, ConcatProperties
  <2> QED  BY <1>1, <2>1
<1>5. \A i \in 1 .. Len(v) : \/ i = 1 /\ v[i] = h[1]
                             \/ i = 2 /\ v[i] = h[2]
                             \/ v[i] \in PlainLine
  <2> SUFFICES ASSUME NEW i \in 1 .. Len(v)
               PROVE  \/ i = 1 /\ v[i] = h[1]
                      \/ i = 2 /\ v[i] = h[2]
                      \/ v[i] \in PlainLine
    OBVIOUS
  <2>1. CASE i <= 2
    <3>1. (i = 1 \/ i = 2) /\ v[i] = h[i]
      BY <1>2, <1>4, <2>1
    <3> QED  BY <3>1
  <2>2. CASE ~(i <= 2)
    <3>1. i - 2 \in 1 .. Len(r) /\ v[i] = r[i - 2]
      BY <1>2, <1>3, <1>4, <2>2
    <3> QED  BY <1>3, <3>1
  <2> QED  BY <2>1, <2>2
<1>6. \A p \in PlainLine : p.name # "newconf" /\ p.name # "interval" /\ p.name # "type"
  BY DEF PlainLine
<1>7. Says(v, d.instance, q)
  BY <1>2, <1>5, <1>6 DEF Says
<1>8. 1 \in 1 .. Len(v) /\ 2 \in 1 .. Len(v) /\ v[1] = h[1] /\ v[2] = h[2]
  BY <1>2, <1>3, <1>4
<1>9. Speaks(v, "newconf") /\ Speaks(v, "interval")
  BY <1>2, <1>8 DEF Speaks
<1>10. \A i \in 1 .. Len(v) : v[i].name # "type"
  BY <1>2, <1>5, <1>6
<1> QED  BY <1>7, <1>9, <1>10 DEF v, q

\* A device whose items are read under their own names.
Own == [n \in ToSet(ItemSeq) |-> n]

LEMMA OwnNaming == Naming(Own)
<1>1. \A m \in ToSet(ItemSeq) : m \in Word /\ m \notin {"newconf", "interval", "type", "header"}
  BY OwnNames, RoomForAll
<1> QED  BY <1>1 DEF Naming, Own

\* In minutes and back.
LEMMA InMinutesIs ==
  ASSUME NEW d, NEW w, Orderly(d)
  PROVE  InMinutes(d.interval, w) =
           IF d.interval \div Minute # 0 THEN (d.interval \div Minute) * Minute ELSE w
BY DEF InMinutes

\* Names without capitals are in messages what they are in the file.
LEMMA SmallNames ==
  ASSUME NEW d, Orderly(d), \A n \in ToSet(d.items) : Lower[n] = n
  PROVE  Current(d) = Values(d, Own)
<1>1. \A i \in DOMAIN d.items : d.items[i] \in ToSet(d.items) /\ d.items[i] \in ToSet(ItemSeq)
  BY ElementOfSeq DEF ToSet, Orderly, DeviceRecord
<1>2. \A i \in DOMAIN d.items : Lower[d.items[i]] = Own[d.items[i]]
  BY <1>1 DEF Own
<1>3. ItemBlocks(d, Lower) = ItemBlocks(d, Own)
  BY <1>2 DEF ItemBlocks
<1> QED  BY <1>3 DEF Current, Values, ItemBlocks

\* What config.current says, sent back.
LEMMA EchoOfOne ==
  ASSUME NEW d, Orderly(d), \A n \in ToSet(d.items) : Lower[n] = n
  PROVE  ConfigSet(Cleared(d), Current(d)) =
           [d EXCEPT !.configured = TRUE, !.interval = InMinutes(@, @)]
<1> DEFINE e == Cleared(d)
           v == Values(d, Own)
           q == d.interval \div Minute
           x == d.values
           t == InMinutes(d.interval, d.interval)
           y == TRUE
<1>1. Naming(Own)
  BY OwnNaming
<1>2. /\ Orderly(e) /\ Empty(e) /\ e.instance = d.instance /\ e.interval = d.interval
      /\ e.items = d.items /\ e.max = d.max
  BY ClearedOrderly
<1>3. /\ v \in Seq(FileLine)
      /\ \A n \in Name : Given(v, n) = d.values[n]
  <2>1. \A n \in Name : n \in Lists \/ Own[n] = n
    BY RoomForAll DEF Own
  <2> QED  BY <1>1, <2>1, ValuesGiven
<1>4. Says(v, d.instance, q) /\ Speaks(v, "newconf") /\ Speaks(v, "interval")
  BY <1>1, ValuesSay
<1>5. t = IF q # 0 THEN q * Minute ELSE d.interval
  BY InMinutesIs
<1>6. Current(d) = v
  BY SmallNames
<1>7. \A n \in Name : x[n] = Given(v, n)
  BY <1>3
<1>8. d \in DeviceRecord
  BY DEF Orderly
<1>9. [d EXCEPT !.configured = TRUE, !.interval = InMinutes(@, @)] =
        Device(y, d.instance, t, d.items, d.max, x)
  <2> DEFINE z == [d EXCEPT !.configured = y, !.interval = t]
  <2>1. [d EXCEPT !.configured = TRUE, !.interval = InMinutes(@, @)] = z
    OBVIOUS
  <2> HIDE DEF y, t
  <2>5. d.values \in {x}
    OBVIOUS
  <2> HIDE DEF x
  <2>2. /\ z \in [configured : {y}, instance : Instance, interval : {t},
                  items : Seq(ToSet(ItemSeq)), max : [Name -> Nat], values : {x}]
        /\ z.items = d.items /\ z.max = d.max /\ z.instance = d.instance
    BY <1>8, <2>5 DEF DeviceRecord
  <2>3. z.configured = y /\ z.interval = t /\ z.values = x
    BY <2>2
  <2> HIDE DEF z
  <2>4. z = Device(z.configured, z.instance, z.interval, z.items, z.max, z.values)
    BY <2>2, DeviceByFields
  <2> QED  BY ONLY <2>1, <2>2, <2>3, <2>4
<1>10. ConfigSet(e, v) =
         Device(y, InstanceAfter(e, v), IntervalAfter(e, v), e.items, e.max, Filled(e, v))
  <2> HIDE DEF e, v
  <2> QED  BY <1>2, <1>3, ConfigSetOrderly
<1>11. InstanceAfter(e, v) = d.instance /\ IntervalAfter(e, v) = t
  <2>1. e \in DeviceRecord
    BY <1>2 DEF Orderly
  <2> HIDE DEF e, v, q, t
  <2>2. InstanceAfter(e, v) = d.instance
    BY <1>2, <1>3, <1>4, <2>1, InstanceIs
  <2>3. IntervalAfter(e, v) = IF q # 0 THEN q * Minute ELSE d.interval
    BY <1>2, <1>3, <1>4, <2>1, IntervalIs
  <2> QED  BY <1>5, <2>2, <2>3
<1>12. Filled(e, v) = x
  <2>1. ASSUME NEW n \in Name
        PROVE  Filled(e, v)[n] = x[n]
    <3> DEFINE g == Given(v, n)
    <3> HIDE DEF e, v, x
    <3>1. << >> \in Seq(Said(n)) /\ Len(<< >>) = 0
      BY EmptySeq
    <3>2. /\ Len(d.values[n]) <= d.max[n] /\ d.max[n] \in Nat
      BY DEF Orderly, DeviceRecord
    <3>3. Len(g) <= e.max[n]
      BY <1>2, <1>3, <3>1, <3>2
    <3>4. (n \notin Lists /\ n \notin ToSet(d.items)) => g = << >>
      BY <1>3, ValuesOf
    <3> HIDE DEF g
    <3>5. /\ Filled(e, v)[n] = IF n \in Lists \cup ToSet(e.items)
                                 THEN Upto(Given(v, n), e.max[n]) ELSE << >>
          /\ (n \in Lists \cup ToSet(e.items) /\ Len(Given(v, n)) <= e.max[n])
               => Filled(e, v)[n] = Given(v, n)
      BY <1>2, <1>3, FilledIs
    <3>6. Filled(e, v)[n] = g
      BY <1>2, <3>3, <3>4, <3>5 DEF g
    <3> QED  BY <1>7, <3>6 DEF g
  <2> DEFINE f == Filled(e, v)
  <2>2. f = [n \in Name |-> f[n]]
    BY DEF Filled
  <2>3. x = [n \in Name |-> x[n]]
    BY <1>8 DEF DeviceRecord
  <2> HIDE DEF f, x, e, v
  <2>4. \A n \in Name : f[n] = x[n]
    BY <2>1 DEF f
  <2>5. [n \in Name |-> f[n]] = [n \in Name |-> x[n]]
    BY ONLY <2>4
  <2> QED  BY ONLY <2>2, <2>3, <2>5 DEF f
<1> HIDE DEF e, v, q, x, t, y
<1>13. ConfigSet(e, v) = Device(y, d.instance, t, d.items, d.max, x)
  BY <1>2, <1>10, <1>11, <1>12
<1> QED  BY <1>6, <1>9, <1>13 DEF e
-----------------------------------------------------------------------------
(* What config.list announces, and what the file says of it.               *)

\* The items, each with its maximum.
Announced(d) ==
  [i \in 1 .. Len(d.items) |-> [name |-> d.items[i], values |-> Maximum(d.items[i])]]

LEMMA DefinedIs ==
  ASSUME NEW d, NEW n, Orderly(d), n \in Lists \cup ToSet(d.items)
  PROVE  /\ n \in Name /\ d.max[n] = Maximum(n)
         /\ Defined(n, d.max[n]) = Line("type", [name |-> n, values |-> Maximum(n)])
<1>1. n \in Name
  BY ItemsByIndex, RoomForAll
<1>2. d.max[n] = Maximum(n) /\ Maximum(n) \in Nat \ {0}
  BY <1>1, RoomForAll DEF Orderly
<1>3. (IF d.max[n] > 1 THEN d.max[n] ELSE 1) = Maximum(n)
  BY <1>2
<1> QED  BY <1>1, <1>2, <1>3 DEF Defined

LEMMA TypeLine ==
  ASSUME NEW n, NEW k, n \in Word, k \in Nat
  PROVE  LET l == Line("type", [name |-> n, values |-> k]) IN
           /\ l \in FileLine /\ l.name = "type" /\ l.value \in Definition
           /\ l.value = [name |-> n, values |-> k] /\ l.value.name = n /\ l.value.values = k
<1> DEFINE r == [name |-> n, values |-> k]
<1>1. r \in Definition /\ r.name = n /\ r.values = k
  BY DEF Definition
<1> HIDE DEF r
<1>2. Line("type", r) \in FileLine /\ Line("type", r).name = "type" /\ Line("type", r).value = r
  BY <1>1 DEF Line, FileLine
<1> QED  BY <1>1, <1>2 DEF r

\* Reads a list by its indexes: two reserved names, groups, filters, items.
LEMMA ListByIndex ==
  ASSUME NEW d, Orderly(d)
  PROVE  /\ ConfigList(d) \in Seq(FileLine) /\ Len(ConfigList(d)) = 4 + Len(d.items)
         /\ Len(d.items) \in Nat
         /\ Announced(d) \in Seq(Definition) /\ Len(Announced(d)) = Len(d.items)
         /\ \A i \in 1 .. 4 + Len(d.items) :
              /\ ConfigList(d)[i].name = "type"
              /\ i = 1 => ConfigList(d)[i].value.name = "newconf"
              /\ i = 2 => ConfigList(d)[i].value.name = "interval"
              /\ i = 3 => /\ ConfigList(d)[i].value.name = "group"
                          /\ ConfigList(d)[i].value.values = Maximum("group")
              /\ i = 4 => /\ ConfigList(d)[i].value.name = "filter"
                          /\ ConfigList(d)[i].value.values = Maximum("filter")
              /\ i > 4 => ConfigList(d)[i].value = Announced(d)[i - 4]
<1> DEFINE k == Len(d.items)
           a == Defined("newconf", 1)
           b == Defined("interval", 1)
           g == Defined("group", d.max["group"])
           f == Defined("filter", d.max["filter"])
           h == <<a, b, g, f>>
           t == [i \in DOMAIN d.items |-> Defined(d.items[i], d.max[d.items[i]])]
<1>1. ConfigList(d) = h \o t
  BY DEF ConfigList
<1>2. /\ k \in Nat /\ DOMAIN d.items = 1 .. k
      /\ \A i \in 1 .. k : d.items[i] \in ToSet(d.items)
      /\ \A i \in 1 .. k : d.items[i] \in Name
  BY ItemsByIndex
<1>3. /\ a \in FileLine /\ a.name = "type" /\ a.value.name = "newconf"
      /\ b \in FileLine /\ b.name = "type" /\ b.value.name = "interval"
  <2>1. "newconf" \in Word /\ "interval" \in Word
    BY Zenon DEF Word, Taken
  <2>2. Defined("newconf", 1) = Line("type", [name |-> "newconf", values |-> 1])
        /\ Defined("interval", 1) = Line("type", [name |-> "interval", values |-> 1])
    BY DEF Defined
  <2>3. 1 \in Nat
    OBVIOUS
  <2> QED  BY <2>1, <2>2, <2>3, TypeLine
<1>4. /\ g \in FileLine /\ g.name = "type" /\ g.value.name = "group"
      /\ g.value.values = Maximum("group")
      /\ f \in FileLine /\ f.name = "type" /\ f.value.name = "filter"
      /\ f.value.values = Maximum("filter")
  <2>1. "group" \in Lists /\ "filter" \in Lists
    BY DEF Lists
  <2>2. /\ "group" \in Word /\ "filter" \in Word
        /\ Maximum("group") \in Nat /\ Maximum("filter") \in Nat
    BY <2>1, OwnNames, RoomForAll
  <2>3. /\ g = Line("type", [name |-> "group", values |-> Maximum("group")])
        /\ f = Line("type", [name |-> "filter", values |-> Maximum("filter")])
    BY <2>1, DefinedIs
  <2> QED  BY <2>2, <2>3, TypeLine
<1> HIDE DEF k, a, b, g, f
<1>5. /\ h \in Seq(FileLine) /\ Len(h) = 4
      /\ h[1] = a /\ h[2] = b /\ h[3] = g /\ h[4] = f
  BY <1>3, <1>4
<1>6. \A i \in 1 .. k :
        /\ Announced(d)[i] \in Definition
        /\ t[i] \in FileLine /\ t[i].name = "type" /\ t[i].value = Announced(d)[i]
  <2> SUFFICES ASSUME NEW i \in 1 .. k
               PROVE  /\ Announced(d)[i] \in Definition
                      /\ t[i] \in FileLine /\ t[i].name = "type"
                      /\ t[i].value = Announced(d)[i]
    OBVIOUS
  <2> DEFINE n == d.items[i]
  <2>1. n \in ToSet(d.items) /\ n \in Word /\ Maximum(n) \in Nat
    BY <1>2, OwnNames, RoomForAll
  <2>2. t[i] = Defined(n, d.max[n]) /\ Announced(d)[i] = [name |-> n, values |-> Maximum(n)]
    BY <1>2 DEF Announced, k
  <2> HIDE DEF n, t
  <2>3. t[i] = Line("type", [name |-> n, values |-> Maximum(n)])
    BY <2>1, <2>2, DefinedIs
  <2> QED  BY <2>1, <2>2, <2>3, TypeLine
<1>7. t \in Seq(FileLine) /\ Len(t) = k
  <2>1. t \in [1 .. k -> FileLine]
    BY <1>2, <1>6
  <2> HIDE DEF t
  <2> QED  BY <1>2, <2>1, FunctionIsSeq
<1>8. Announced(d) \in Seq(Definition) /\ Len(Announced(d)) = k
  <2> DEFINE s == Announced(d)
  <2>1. s \in [1 .. k -> Definition]
    BY <1>6 DEF Announced, k
  <2> HIDE DEF s
  <2>2. s \in Seq(Definition) /\ Len(s) = k
    BY <1>2, <2>1, FunctionIsSeq
  <2> QED  BY <2>2 DEF s
<1> HIDE DEF h, t
<1> DEFINE l == h \o t
<1>9. /\ l \in Seq(FileLine) /\ Len(l) = Len(h) + Len(t)
      /\ \A i \in 1 .. Len(h) + Len(t) : l[i] = IF i <= Len(h) THEN h[i] ELSE t[i - Len(h)]
  BY ONLY <1>5, <1>7, ConcatProperties
<1> HIDE DEF l
<1>10. l \in Seq(FileLine) /\ Len(l) = 4 + k
  BY <1>5, <1>7, <1>9
<1>11. \A i \in 1 .. 4 + k :
         /\ l[i].name = "type"
         /\ i = 1 => l[i].value.name = "newconf"
         /\ i = 2 => l[i].value.name = "interval"
         /\ i = 3 => l[i].value.name = "group" /\ l[i].value.values = Maximum("group")
         /\ i = 4 => l[i].value.name = "filter" /\ l[i].value.values = Maximum("filter")
         /\ i > 4 => l[i].value = Announced(d)[i - 4]
  <2> SUFFICES ASSUME NEW i \in 1 .. 4 + k
               PROVE  /\ l[i].name = "type"
                      /\ i = 1 => l[i].value.name = "newconf"
                      /\ i = 2 => l[i].value.name = "interval"
                      /\ i = 3 => /\ l[i].value.name = "group"
                                  /\ l[i].value.values = Maximum("group")
                      /\ i = 4 => /\ l[i].value.name = "filter"
                                  /\ l[i].value.values = Maximum("filter")
                      /\ i > 4 => l[i].value = Announced(d)[i - 4]
    OBVIOUS
  <2>1. l[i] = IF i <= 4 THEN h[i] ELSE t[i - 4]
    BY <1>5, <1>7, <1>9
  <2>2. CASE i <= 4
    <3>1. l[i] = h[i] /\ (i = 1 \/ i = 2 \/ i = 3 \/ i = 4) /\ ~(i > 4)
      BY <1>2, <2>1, <2>2
    <3> QED  BY <1>3, <1>4, <1>5, <3>1
  <2>3. CASE ~(i <= 4)
    <3>1. l[i] = t[i - 4] /\ i - 4 \in 1 .. k /\ i # 1 /\ i # 2 /\ i # 3 /\ i # 4
      BY <1>2, <2>1, <2>3
    <3> QED  BY <1>6, <3>1
  <2> QED  BY <2>2, <2>3
<1>12. ConfigList(d) = l
  BY <1>1 DEF l
<1> QED  BY ONLY <1>2, <1>8, <1>10, <1>11, <1>12 DEF k

\* A body has no more values for n than lines with that name.
LEMMA NoMoreThanLines ==
  ASSUME NEW body, NEW n, body \in Seq(FileLine), n \in Name
  PROVE  LET lines == {i \in DOMAIN body : body[i].name = n}
         IN  /\ Len(Given(body, n)) \in Nat /\ Cardinality(lines) \in Nat
             /\ Len(Given(body, n)) <= Cardinality(lines)
<1> DEFINE m == Marks(body, n)
           V == Said(n)
           lines == {i \in DOMAIN body : body[i].name = n}
           full == {i \in 1 .. Len(m) : m[i] # << >>}
<1>1. /\ Len(body) \in Nat /\ DOMAIN body = 1 .. Len(body)
      /\ \A i \in 1 .. Len(body) : body[i] \in FileLine
  BY LenProperties, ElementOfSeq
<1>2. /\ m \in Seq(Seq(V)) /\ Len(m) = Len(body)
      /\ \A i \in 1 .. Len(body) :
           m[i] = IF Meant(body[i], n) THEN <<body[i].value>> ELSE << >>
  BY MarksType
<1> HIDE DEF m
<1>3. IsFiniteSet(full) /\ Len(FlattenSeq(m)) = Cardinality(full)
  <2>1. CASE V = {}
    <3>1. \A i \in 1 .. Len(body) : ~Meant(body[i], n)
      BY <1>1, <2>1, MeantValue
    <3>2. Given(body, n) = << >>
      BY <3>1, GivenNothing
    <3>3. FlattenSeq(m) = << >>
      BY <3>2, GivenByMarks DEF m
    <3>4. full = {}
      BY <1>2, <3>1
    <3> HIDE DEF full
    <3> QED  BY <3>3, <3>4, FS_EmptySet, EmptySeq
  <2>2. CASE V # {}
    <3>1. PICK w \in V : TRUE
      BY <2>2
    <3> DEFINE e == [i \in 1 .. Len(m) |-> IF Meant(body[i], n) THEN body[i].value ELSE w]
    <3>2. \A i \in 1 .. Len(m) : e[i] \in V /\ m[i] \in {<< >>, <<e[i]>>}
      <4> SUFFICES ASSUME NEW i \in 1 .. Len(m)
                   PROVE  e[i] \in V /\ m[i] \in {<< >>, <<e[i]>>}
        OBVIOUS
      <4>1. CASE Meant(body[i], n)
        <5>1. body[i].value \in V
          BY <1>1, <1>2, <4>1, MeantValue
        <5> QED  BY <1>2, <4>1, <5>1
      <4>2. CASE ~Meant(body[i], n)
        BY <1>2, <3>1, <4>2
      <4> QED  BY <4>1, <4>2
    <3> HIDE DEF e, V
    <3> QED  BY <1>2, <3>2, FlattenCounts
  <2> QED  BY <2>1, <2>2
<1>4. IsFiniteSet(lines) /\ full \subseteq lines
  <2>1. lines \subseteq 1 .. Len(body)
    BY <1>1
  <2>2. IsFiniteSet(1 .. Len(body))
    <3>1. 1 \in Int /\ Len(body) \in Int
      BY <1>1
    <3> QED  BY <3>1, FS_Interval
  <2>3. IsFiniteSet(lines)
    <3> HIDE DEF lines
    <3> QED  BY <2>1, <2>2, FS_Subset
  <2>4. full \subseteq lines
    BY <1>1, <1>2 DEF Meant
  <2> QED  BY <2>3, <2>4
<1> HIDE DEF lines, full
<1>5. Cardinality(full) <= Cardinality(lines)
  BY <1>4, FS_Subset
<1>6. Cardinality(full) \in Nat /\ Cardinality(lines) \in Nat
  BY <1>3, <1>4, FS_CardinalityType
<1>7. Given(body, n) = FlattenSeq(m)
  BY GivenByMarks DEF m
<1>8. Len(Given(body, n)) = Cardinality(full)
  BY <1>3, <1>7
<1> QED  BY <1>5, <1>6, <1>8 DEF lines

\* A body that keeps to the list of a device is taken to the last value.
LEMMA HonestToOne ==
  ASSUME NEW d, NEW body, NEW n, Orderly(d), body \in Seq(FileLine),
         KeepsTo(body, ConfigList(d)), n \in {p.name : p \in ToSet(body)} \cap Name
  PROVE  ConfigSet(Cleared(d), body).values[n] = Given(body, n)
<1> DEFINE e == Cleared(d)
           L == ConfigList(d)
           lines == {i \in DOMAIN body : body[i].name = n}
<1>1. Orderly(e) /\ Empty(e) /\ e.items = d.items /\ e.max = d.max
  BY ClearedOrderly
<1>2. n \in Name /\ n # "newconf" /\ n # "interval"
  BY OwnNames
<1>3. PICK t \in ToSet(L) : t.value.name = n /\ Cardinality(lines) <= t.value.values
  <2>1. n \in {p.name : p \in ToSet(body)} \ {"newconf", "interval"}
    BY <1>2
  <2> QED  BY <2>1 DEF KeepsTo
<1>4. /\ L \in Seq(FileLine) /\ Len(L) = 4 + Len(d.items) /\ Len(d.items) \in Nat
      /\ Len(Announced(d)) = Len(d.items)
      /\ \A i \in 1 .. 4 + Len(d.items) :
           /\ i = 1 => L[i].value.name = "newconf"
           /\ i = 2 => L[i].value.name = "interval"
           /\ i = 3 => L[i].value.name = "group" /\ L[i].value.values = Maximum("group")
           /\ i = 4 => L[i].value.name = "filter" /\ L[i].value.values = Maximum("filter")
           /\ i > 4 => L[i].value = Announced(d)[i - 4]
  BY ONLY Orderly(d), ListByIndex, ZenonT(60) DEF L
<1> HIDE DEF L, lines, e
<1>5. PICK i \in 1 .. 4 + Len(d.items) : L[i] = t
  <2>1. \E i \in 1 .. Len(L) : L[i] = t
    BY <1>3, <1>4, ElementsAreAtIndexes
  <2> QED  BY <1>4, <2>1
<1>6. n \in Lists \cup ToSet(d.items) /\ t.value.values = Maximum(n)
  <2>1. CASE i = 3 \/ i = 4
    <3>1. n \in Lists
      BY <1>3, <1>4, <1>5, <2>1 DEF Lists
    <3> QED  BY <1>3, <1>4, <1>5, <2>1, <3>1
  <2>2. CASE i > 4
    <3>1. i - 4 \in 1 .. Len(d.items)
      BY <1>4, <2>2
    <3>2. Announced(d)[i - 4] = [name |-> d.items[i - 4], values |-> Maximum(d.items[i - 4])]
      BY <3>1 DEF Announced
    <3>3. t.value.name = d.items[i - 4] /\ t.value.values = Maximum(d.items[i - 4])
      BY <1>4, <1>5, <2>2, <3>2
    <3>4. d.items[i - 4] \in ToSet(d.items)
      BY <3>1, ItemsByIndex
    <3> QED  BY <1>3, <3>3, <3>4
  <2>3. i # 1 /\ i # 2
    BY <1>2, <1>3, <1>4, <1>5
  <2>4. i = 1 \/ i = 2 \/ i = 3 \/ i = 4 \/ i > 4
    BY <1>4
  <2> QED  BY <2>1, <2>2, <2>3, <2>4
<1>7. e.max[n] = Maximum(n) /\ Maximum(n) \in Nat
  BY <1>1, <1>6, DefinedIs, RoomForAll
<1>8. /\ Len(Given(body, n)) \in Nat /\ Cardinality(lines) \in Nat
      /\ Len(Given(body, n)) <= Cardinality(lines)
  BY <1>2, NoMoreThanLines DEF lines
<1>9. Len(Given(body, n)) <= e.max[n]
  BY <1>3, <1>6, <1>7, <1>8
<1>10. Filled(e, body)[n] = Given(body, n)
  BY <1>1, <1>2, <1>6, <1>9, FilledIs
<1>11. ConfigSet(e, body).values = Filled(e, body)
  <2>1. ConfigSet(e, body) =
          Device(TRUE, InstanceAfter(e, body), IntervalAfter(e, body), e.items, e.max,
                 Filled(e, body))
    BY <1>1, ConfigSetOrderly
  <2> QED  BY <2>1 DEF Device
<1> QED  BY <1>10, <1>11 DEF e
-----------------------------------------------------------------------------
(* The lines of the file.                                                  *)

\* All but the header.
LoadLines(d) == ConfigList(d) \o Values(d, Own)

LEMMA LinesByIndex ==
  ASSUME NEW d, Orderly(d)
  PROVE  /\ LoadLines(d) \in Seq(FileLine) /\ Len(LoadLines(d)) \in Nat
         /\ 4 + Len(d.items) <= Len(LoadLines(d))
         /\ \A i \in 1 .. 4 + Len(d.items) : LoadLines(d)[i] = ConfigList(d)[i]
         /\ \A i \in 1 .. Len(LoadLines(d)) :
              i > 4 + Len(d.items) => LoadLines(d)[i].name # "type"
         /\ Says(LoadLines(d), d.instance, d.interval \div Minute)
         /\ Speaks(LoadLines(d), "newconf") /\ Speaks(LoadLines(d), "interval")
         /\ \A n \in Name : Given(LoadLines(d), n) = d.values[n]
<1> DEFINE L == ConfigList(d)
           v == Values(d, Own)
           m == 4 + Len(d.items)
           q == d.interval \div Minute
           x == L \o v
<1>1. /\ L \in Seq(FileLine) /\ Len(L) = m /\ m \in Nat
      /\ \A i \in 1 .. m : L[i].name = "type"
  BY ListByIndex
<1>2. /\ v \in Seq(FileLine)
      /\ \A n \in Name : Given(v, n) = IF n \in Lists \/ Own[n] = n THEN d.values[n] ELSE << >>
  BY OwnNaming, ValuesGiven
<1>3. /\ Says(v, d.instance, q) /\ Speaks(v, "newconf") /\ Speaks(v, "interval")
      /\ \A i \in 1 .. Len(v) : v[i].name # "type"
  BY OwnNaming, ValuesSay
<1> HIDE DEF L, v, m, q
<1>4. Len(v) \in Nat
  BY <1>2, LenProperties
<1>5. /\ x \in Seq(FileLine) /\ Len(x) = Len(L) + Len(v)
      /\ \A i \in 1 .. Len(L) + Len(v) : x[i] = IF i <= Len(L) THEN L[i] ELSE v[i - Len(L)]
  <2>1. L \in Seq(FileLine) /\ v \in Seq(FileLine)
    BY ONLY <1>1, <1>2
  <2> QED  BY ONLY <2>1, ConcatProperties DEF x
<1>6. \A n \in Name : Given(x, n) = d.values[n]
  <2> SUFFICES ASSUME NEW n \in Name
               PROVE  Given(x, n) = d.values[n]
    OBVIOUS
  <2>1. Given(x, n) = Given(L, n) \o Given(v, n)
    BY <1>1, <1>2, GivenConcat
  <2>2. Given(L, n) = << >>
    <3>1. n # "type"
      BY OwnNames
    <3>2. \A i \in 1 .. Len(L) : ~Meant(L[i], n)
      BY <1>1, <3>1 DEF Meant
    <3> QED  BY <1>1, <3>2, GivenNothing
  <2>3. Given(v, n) = d.values[n]
    <3>1. n \in Lists \/ Own[n] = n
      BY RoomForAll DEF Own
    <3> QED  BY <1>2, <3>1
  <2> DEFINE w == d.values[n]
  <2>4. w \in Seq(Said(n))
    BY ValuesOf
  <2> HIDE DEF w
  <2>5. << >> \o w = w
    BY <2>4, ConcatEmptySeq
  <2> QED  BY <2>1, <2>2, <2>3, <2>5 DEF w
<1> HIDE DEF x
<1>7. Len(x) = m + Len(v) /\ \A i \in 1 .. m + Len(v) : x[i] = IF i <= m THEN L[i] ELSE v[i - m]
  BY <1>1, <1>5
<1>8. Len(x) \in Nat /\ m <= Len(x) /\ \A i \in 1 .. m : x[i] = L[i]
  BY <1>1, <1>4, <1>7
<1>9. \A i \in 1 .. Len(x) : \/ i <= m /\ x[i].name = "type"
                             \/ i > m /\ i - m \in 1 .. Len(v) /\ x[i] = v[i - m]
  BY <1>1, <1>4, <1>7
<1>10. \A i \in 1 .. Len(x) : i > m => x[i].name # "type"
  BY <1>1, <1>3, <1>4, <1>9
<1>11. Says(x, d.instance, q)
  BY <1>3, <1>9 DEF Says
<1>12. ASSUME NEW w, Speaks(v, w)
       PROVE  Speaks(x, w)
  <2>1. PICK i \in 1 .. Len(v) : v[i].name = w
    BY <1>12 DEF Speaks
  <2>2. m + i \in 1 .. Len(x) /\ x[m + i] = v[i]
    BY <1>1, <1>4, <1>7, <2>1
  <2> QED  BY <2>1, <2>2 DEF Speaks
<1>13. LoadLines(d) = x
  BY DEF LoadLines, x, L, v
<1>14. Speaks(x, "newconf") /\ Speaks(x, "interval")
  BY <1>3, <1>12
<1> QED  BY ONLY <1>5, <1>6, <1>8, <1>10, <1>11, <1>13, <1>14 DEF m, q, L

LEMMA FileByIndex ==
  ASSUME NEW d, Orderly(d)
  PROVE  /\ FileOf(d) \in Seq(FileLine) /\ Len(FileOf(d)) = 1 + Len(LoadLines(d))
         /\ \A i \in 1 .. Len(LoadLines(d)) : FileOf(d)[i + 1] = LoadLines(d)[i]
<1> DEFINE l == Line("header", Blank)
           h == <<l>>
           L == ConfigList(d)
           v == Values(d, Own)
           x == LoadLines(d)
<1>1. L \in Seq(FileLine) /\ v \in Seq(FileLine) /\ x \in Seq(FileLine) /\ x = L \o v
      /\ Len(x) \in Nat
  BY ListByIndex, LinesByIndex, OwnNaming, ValuesGiven DEF LoadLines
<1>2. h \in Seq(FileLine) /\ Len(h) = 1
  <2>1. "header" \in Word \ {"newconf", "interval", "type"}
    BY Zenon DEF Word, Taken
  <2>2. l \in FileLine
    BY <2>1, PlainLineType DEF Setting
  <2> HIDE DEF l
  <2> QED  BY <2>2
<1>3. FileOf(d) = (h \o L) \o v
  BY DEF FileOf, Own
<1> HIDE DEF h, L, v, x
<1>4. (h \o L) \o v = h \o (L \o v)
  BY <1>1, <1>2, ConcatAssociative
<1> DEFINE f == h \o x
<1>5. /\ f \in Seq(FileLine) /\ Len(f) = Len(h) + Len(x)
      /\ \A i \in 1 .. Len(h) + Len(x) : f[i] = IF i <= Len(h) THEN h[i] ELSE x[i - Len(h)]
  BY ONLY <1>1, <1>2, ConcatProperties
<1>6. FileOf(d) = f
  BY ONLY <1>1, <1>3, <1>4
<1> HIDE DEF f
<1>7. \A i \in 1 .. Len(x) : f[i + 1] = x[i]
  <2> SUFFICES ASSUME NEW i \in 1 .. Len(x)
               PROVE  f[i + 1] = x[i]
    OBVIOUS
  <2>1. i + 1 \in 1 .. Len(h) + Len(x) /\ ~(i + 1 <= Len(h)) /\ (i + 1) - Len(h) = i
    BY <1>1, <1>2
  <2> QED  BY <1>5, <2>1
<1> QED  BY ONLY <1>2, <1>5, <1>6, <1>7 DEF x

\* What is loaded from the beginning of a file.
LEMMA LoadBegins ==
  ASSUME NEW d, NEW f, Orderly(d), f \in Seq(FileLine), StartOf(f, FileOf(d))
  PROVE  /\ Len(f) \in Nat /\ IsLoadable(f) <=> Len(f) > 1
         /\ ConfigLoad(f) \in Seq(FileLine) /\ StartOf(ConfigLoad(f), LoadLines(d))
         /\ Len(f) > 1 => Len(ConfigLoad(f)) = Len(f) - 1
<1> DEFINE x == LoadLines(d)
           g == FileOf(d)
<1>1. /\ Len(g) = 1 + Len(x) /\ Len(x) \in Nat
      /\ \A i \in 1 .. Len(x) : g[i + 1] = x[i]
  BY FileByIndex, LinesByIndex
<1> HIDE DEF x, g
<1>2. Len(f) \in Nat
  BY LenProperties
<1>3. Len(f) <= Len(g) /\ \A i \in 1 .. Len(f) : f[i] = g[i]
  BY DEF StartOf, g
<1>4. CASE Len(f) > 1
  <2>1. f # << >>
    BY <1>4, EmptySeq
  <2> DEFINE t == Tail(f)
  <2>2. t \in Seq(FileLine) /\ Len(t) = Len(f) - 1 /\ \A i \in 1 .. Len(t) : t[i] = f[i + 1]
    BY <2>1, HeadTailProperties
  <2>3. ConfigLoad(f) = t
    BY <1>4 DEF ConfigLoad
  <2> HIDE DEF t
  <2>4. t # << >>
    BY <1>2, <1>4, <2>2, EmptySeq
  <2>5. \A i \in 1 .. Len(t) : t[i] = x[i]
    <3> SUFFICES ASSUME NEW i \in 1 .. Len(t)
                 PROVE  t[i] = x[i]
      OBVIOUS
    <3>1. i + 1 \in 1 .. Len(f) /\ i \in 1 .. Len(x)
      BY <1>1, <1>2, <1>3, <2>2
    <3> QED  BY <1>1, <1>3, <2>2, <3>1
  <2>6. Len(t) <= Len(x)
    BY <1>1, <1>2, <1>3, <2>2
  <2> QED  BY <1>2, <1>4, <2>2, <2>3, <2>4, <2>5, <2>6 DEF StartOf, IsLoadable, x
<1>5. CASE ~(Len(f) > 1)
  <2>1. ConfigLoad(f) = << >>
    BY <1>5 DEF ConfigLoad
  <2>2. << >> \in Seq(FileLine) /\ Len(<< >>) = 0
    BY EmptySeq
  <2>3. StartOf(<< >>, x)
    BY <1>1, <2>2 DEF StartOf
  <2> QED  BY <1>2, <1>5, <2>1, <2>2, <2>3 DEF IsLoadable, x
<1> QED  BY <1>4, <1>5

-----------------------------------------------------------------------------
(* The items that a file defines (prvConfigNew).                           *)

Defines(pairs, i) ==
  /\ \A j \in 1 .. i : pairs[j].name = "type"
  /\ pairs[i].value.name \notin Lists \cup {"newconf", "interval"} \cup Reserved

Definitions(pairs) ==
  [i \in DOMAIN pairs |-> IF Defines(pairs, i) THEN <<pairs[i].value>> ELSE << >>]

LEMMA DefinedByMarks == \A b : DefinedItems(b) = FlattenSeq(Definitions(b))
BY DEF DefinedItems, Definitions, Defines

\* The items of the lines that have been read, but those with a reserved name.
LEMMA DefinitionsAre ==
  ASSUME NEW d, NEW b, Orderly(d), b \in Seq(FileLine), StartOf(b, LoadLines(d))
  PROVE  /\ Definitions(b) \in Seq(Seq(Definition)) /\ Len(Definitions(b)) = Len(b)
         /\ \A i \in 1 .. Len(b) :
              Definitions(b)[i] =
                IF 4 < i /\ i <= 4 + Len(d.items) /\ d.items[i - 4] \notin Reserved
                THEN <<Announced(d)[i - 4]>> ELSE << >>
<1> DEFINE k == Len(d.items)
           x == LoadLines(d)
           L == ConfigList(d)
           A == Announced(d)
           ss == Definitions(b)
           T == Seq(Definition)
<1>1. Len(b) \in Nat /\ DOMAIN b = 1 .. Len(b)
  BY LenProperties
<1>2. /\ k \in Nat /\ Len(A) = k /\ A \in Seq(Definition)
      /\ \A i \in 1 .. 4 + k :
           /\ L[i].name = "type"
           /\ i = 1 => L[i].value.name = "newconf"
           /\ i = 2 => L[i].value.name = "interval"
           /\ i = 3 => L[i].value.name = "group"
           /\ i = 4 => L[i].value.name = "filter"
           /\ i > 4 => L[i].value = A[i - 4]
  BY ListByIndex
<1>3. /\ \A i \in 1 .. 4 + k : x[i] = L[i]
      /\ \A i \in 1 .. Len(x) : i > 4 + k => x[i].name # "type"
  BY LinesByIndex
<1>4. Len(b) <= Len(x) /\ Len(x) \in Nat /\ \A i \in 1 .. Len(b) : b[i] = x[i]
  BY LinesByIndex DEF StartOf
<1>5. \A i \in 1 .. k :
        /\ A[i].name = d.items[i] /\ A[i] \in Definition
        /\ d.items[i] \notin Lists \cup {"newconf", "interval"}
  <2> SUFFICES ASSUME NEW i \in 1 .. k
               PROVE  /\ A[i].name = d.items[i] /\ A[i] \in Definition
                      /\ d.items[i] \notin Lists \cup {"newconf", "interval"}
    OBVIOUS
  <2>1. A[i].name = d.items[i]
    BY DEF Announced
  <2>2. d.items[i] \in Name /\ d.items[i] \notin Lists
    BY ItemsByIndex
  <2>3. d.items[i] # "newconf" /\ d.items[i] # "interval"
    BY <2>2, OwnNames
  <2> HIDE DEF A
  <2>4. A[i] \in Definition
    BY <1>2, ElementOfSeq
  <2> QED  BY <2>1, <2>2, <2>3, <2>4
<1> HIDE DEF k, x, L, A
<1> DEFINE Want(i) == IF 4 < i /\ i <= 4 + k /\ d.items[i - 4] \notin Reserved
                      THEN <<A[i - 4]>> ELSE << >>
<1>6. ASSUME NEW i \in 1 .. Len(b)
      PROVE  ss[i] = Want(i) /\ Want(i) \in T
  <2>1. ss[i] = IF Defines(b, i) THEN <<b[i].value>> ELSE << >>
    BY <1>1 DEF Definitions
  <2>2. CASE i > 4 + k
    <3>1. b[i].name # "type"
      BY <1>1, <1>3, <1>4, <2>2
    <3>2. i \in 1 .. i
      BY <1>1
    <3>3. ~Defines(b, i)
      BY <3>1, <3>2 DEF Defines
    <3>4. ~(i <= 4 + k)
      BY <1>1, <1>2, <2>2
    <3> QED  BY <2>1, <3>3, <3>4
  <2>3. CASE i <= 4 + k
    <3>1. i \in 1 .. 4 + k /\ \A j \in 1 .. i : j \in 1 .. 4 + k /\ j \in 1 .. Len(b)
      BY <1>1, <1>2, <2>3
    <3>2. \A j \in 1 .. i : b[j] = L[j] /\ b[j].name = "type"
      BY <1>2, <1>3, <1>4, <3>1
    <3>3. b[i] = L[i]
      BY <1>1, <3>2
    <3>4. Defines(b, i) <=> L[i].value.name \notin Lists \cup {"newconf", "interval"} \cup Reserved
      BY <3>2, <3>3 DEF Defines
    <3>5. CASE ~(4 < i)
      <4>1. i = 1 \/ i = 2 \/ i = 3 \/ i = 4
        BY <3>1, <3>5
      <4>2. L[i].value.name \in {"newconf", "interval", "group", "filter"}
        BY <1>2, <3>1, <4>1
      <4>3. ~Defines(b, i)
        BY <3>4, <4>2 DEF Lists
      <4> QED  BY <2>1, <3>5, <4>3
    <3>6. CASE 4 < i
      <4>1. i - 4 \in 1 .. k /\ L[i].value = A[i - 4]
        BY <1>2, <3>1, <3>6
      <4>2. Defines(b, i) <=> d.items[i - 4] \notin Reserved
        BY <1>5, <3>4, <4>1
      <4>3. ss[i] = Want(i)
        BY <2>1, <2>3, <3>3, <3>6, <4>1, <4>2
      <4>4. Want(i) \in T
        BY <1>5, <4>1
      <4> QED  BY <4>3, <4>4
    <3> QED  BY <3>5, <3>6
  <2> QED  BY <1>1, <1>2, <2>2, <2>3
<1> HIDE DEF T
<1>7. ss \in [1 .. Len(b) -> T]
  <2>1. ss = [i \in 1 .. Len(b) |-> ss[i]]
    BY <1>1 DEF Definitions
  <2> HIDE DEF ss, Want
  <2>2. \A i \in 1 .. Len(b) : ss[i] \in T
    BY <1>6
  <2> QED  BY ONLY <2>1, <2>2
<1> HIDE DEF ss
<1>8. ss \in Seq(T) /\ Len(ss) = Len(b)
  BY <1>1, <1>7, FunctionIsSeq
<1> QED  BY <1>6, <1>8 DEF ss, T, k, A
\* They are items of the device with their maxima, none of them twice, and the first
\* ones when no name is reserved.
LEMMA DefinedSound ==
  ASSUME NEW d, NEW b, Orderly(d), b \in Seq(FileLine), StartOf(b, LoadLines(d))
  PROVE  /\ DefinedItems(b) \in Seq(Definition)
         /\ \A t \in ToSet(DefinedItems(b)) : \E j \in 1 .. Len(d.items) : t = Announced(d)[j]
         /\ IsInjective(DefinedItems(b))
         /\ Reserved = {} => \E c \in 0 .. Len(d.items) :
              /\ DefinedItems(b) = SubSeq(Announced(d), 1, c)
              /\ 4 + Len(d.items) <= Len(b) => c = Len(d.items)
<1> DEFINE k == Len(d.items)
           A == Announced(d)
           ss == Definitions(b)
           Read(i) == 4 < i /\ i <= 4 + k /\ d.items[i - 4] \notin Reserved
<1>1. /\ ss \in Seq(Seq(Definition)) /\ Len(ss) = Len(b) /\ Len(b) \in Nat
      /\ \A i \in 1 .. Len(b) : ss[i] = IF Read(i) THEN <<A[i - 4]>> ELSE << >>
  BY DefinitionsAre, LenProperties
<1>2. /\ k \in Nat /\ A \in Seq(Definition) /\ Len(A) = k
      /\ \A i \in 1 .. k : A[i].name = d.items[i]
      /\ \A i, j \in 1 .. k : d.items[i] = d.items[j] => i = j
  <2>1. k \in Nat /\ A \in Seq(Definition) /\ Len(A) = k
    BY ListByIndex
  <2>2. \A i \in 1 .. k : A[i].name = d.items[i]
    BY DEF Announced
  <2> QED  BY <2>1, <2>2, ItemsByIndex
<1>3. \A i \in 1 .. k : A[i] \in Definition
  <2> HIDE DEF A, k
  <2> QED  BY <1>2, ElementOfSeq
<1>4. DefinedItems(b) = FlattenSeq(ss)
  BY DefinedByMarks
<1> DEFINE none == [name |-> "group", values |-> 0]
           e == [i \in 1 .. Len(ss) |-> IF 4 < i /\ i <= 4 + k THEN A[i - 4] ELSE none]
<1>5. none \in Definition
  <2>1. "group" \in Word
    BY Zenon DEF Word, Taken, Lists
  <2> QED  BY <2>1 DEF Definition
<1> HIDE DEF k, A, ss, none
<1>6. \A i \in 1 .. Len(ss) : e[i] \in Definition /\ ss[i] \in {<< >>, <<e[i]>>}
  <2> SUFFICES ASSUME NEW i \in 1 .. Len(ss)
               PROVE  e[i] \in Definition /\ ss[i] \in {<< >>, <<e[i]>>}
    OBVIOUS
  <2>1. CASE 4 < i /\ i <= 4 + k
    <3>1. i - 4 \in 1 .. k /\ e[i] = A[i - 4]
      BY <1>1, <1>2, <2>1
    <3> QED  BY <1>1, <1>3, <3>1
  <2>2. CASE ~(4 < i /\ i <= 4 + k)
    <3>1. e[i] = none /\ ss[i] = << >>
      BY <1>1, <2>2
    <3> QED  BY <1>5, <3>1
  <2> QED  BY <2>1, <2>2
<1>7. \A i \in 1 .. Len(ss) : ss[i] = <<e[i]>> => i - 4 \in 1 .. k /\ e[i] = A[i - 4]
  <2> SUFFICES ASSUME NEW i \in 1 .. Len(ss), ss[i] = <<e[i]>>
               PROVE  i - 4 \in 1 .. k /\ e[i] = A[i - 4]
    OBVIOUS
  <2> HIDE DEF Read, e
  <2>1. <<e[i]>> # << >>
    OBVIOUS
  <2>2. Read(i)
    BY <1>1, <2>1
  <2> USE DEF Read, e
  <2> QED  BY <1>1, <1>2, <2>2
<1>8. \A i, j \in 1 .. Len(ss) :
        ss[i] = <<e[i]>> /\ ss[j] = <<e[j]>> /\ e[i] = e[j] => i = j
  <2> SUFFICES ASSUME NEW i \in 1 .. Len(ss), NEW j \in 1 .. Len(ss),
                      ss[i] = <<e[i]>>, ss[j] = <<e[j]>>, e[i] = e[j]
               PROVE  i = j
    OBVIOUS
  <2>1. /\ i - 4 \in 1 .. k /\ e[i] = A[i - 4]
        /\ j - 4 \in 1 .. k /\ e[j] = A[j - 4]
    BY <1>7
  <2>2. d.items[i - 4] = d.items[j - 4]
    BY <1>2, <2>1
  <2>3. i - 4 = j - 4
    BY <1>2, <2>1, <2>2
  <2> QED  BY <1>1, <2>3
<1> HIDE DEF e
<1>9. /\ \A t \in ToSet(FlattenSeq(ss)) : \E i \in 1 .. Len(ss) : ss[i] = <<e[i]>> /\ t = e[i]
      /\ IsInjective(FlattenSeq(ss))
  <2>1. OneOrNone(Definition, ss, e)
    BY <1>1, <1>6 DEF OneOrNone
  <2>2. AllApart(ss, e)
    BY ONLY <1>8 DEF AllApart
  <2>3. IsInjective(FlattenSeq(ss))
    BY ONLY <2>1, <2>2, FlattenPicks
  <2>4. \A t \in ToSet(FlattenSeq(ss)) : \E i \in 1 .. Len(ss) : ss[i] = <<e[i]>> /\ t = e[i]
    <3>1. FromThose(ss, e)
      BY ONLY <2>1, FlattenPicks
    <3> QED  BY ONLY <3>1 DEF FromThose
  <2> QED  BY ONLY <2>3, <2>4
<1>10. FlattenSeq(ss) \in Seq(Definition)
  BY <1>1, FlattenType
<1>11. ASSUME NEW t \in ToSet(FlattenSeq(ss))
       PROVE  \E j \in 1 .. k : t = A[j]
  <2>1. PICK i \in 1 .. Len(ss) : ss[i] = <<e[i]>> /\ t = e[i]
    BY <1>9
  <2> QED  BY <1>7, <2>1
<1>12. ASSUME Reserved = {}
       PROVE  \E c \in 0 .. k : FlattenSeq(ss) = SubSeq(A, 1, c) /\ (4 + k <= Len(b) => c = k)
  <2>1. \A i \in 1 .. Len(ss) :
          ss[i] = IF 4 < i /\ i <= 4 + Len(A) THEN <<A[i - 4]>> ELSE << >>
    BY <1>1, <1>2, <1>12
  <2> DEFINE p == 4
  <2>2. p \in Nat /\ \A i \in 1 .. Len(ss) :
          ss[i] = IF p < i /\ i <= p + Len(A) THEN <<A[i - p]>> ELSE << >>
    BY <2>1
  <2> HIDE DEF p
  <2>3. \E c \in 0 .. Len(A) :
          FlattenSeq(ss) = SubSeq(A, 1, c) /\ (p + Len(A) <= Len(ss) => c = Len(A))
    <3>1. ss \in Seq(Seq(Definition)) /\ A \in Seq(Definition)
      BY <1>1, <1>2
    <3> QED  BY ONLY <2>2, <3>1, FlattenMiddle
  <2> QED  BY <1>1, <1>2, <2>3 DEF p
<1> QED  BY <1>4, <1>9, <1>10, <1>11, <1>12 DEF k, A

\* A new device with the items of the lines that have been read.
LEMMA ConfigNewSound ==
  ASSUME NEW d, NEW b, NEW i \in Instance,
         Orderly(d), b \in Seq(FileLine), StartOf(b, LoadLines(d))
  PROVE  LET e == ConfigNew(NewDevice(i), b) IN
           /\ Orderly(e) /\ Empty(e) /\ e.instance = i /\ e.interval = DefaultInterval
           /\ Reserved = {} => \E c \in 0 .. Len(d.items) :
                e.items = SubSeq(d.items, 1, c) /\ (4 + Len(d.items) <= Len(b) => c = Len(d.items))
<1> DEFINE k == Len(d.items)
           A == Announced(d)
           w == NewDevice(i)
           D == DefinedItems(b)
           names == [j \in DOMAIN D |-> D[j].name]
           room(n) == (CHOOSE t \in ToSet(D) : t.name = n).values
           max == [n \in Name |-> IF \E t \in ToSet(D) : t.name = n THEN room(n) ELSE w.max[n]]
           e == ConfigNew(w, b)
<1>1. /\ Orderly(w) /\ Empty(w) /\ w.instance = i /\ w.interval = DefaultInterval
      /\ w.items = << >> /\ w.configured = FALSE
  BY NewDeviceOrderly
<1>2. /\ D \in Seq(Definition) /\ IsInjective(D)
      /\ \A t \in ToSet(D) : \E j \in 1 .. k : t = A[j]
      /\ Reserved = {} => \E c \in 0 .. k : D = SubSeq(A, 1, c) /\ (4 + k <= Len(b) => c = k)
  BY DefinedSound
<1>3. /\ k \in Nat /\ A \in Seq(Definition) /\ Len(A) = k
      /\ \A j \in 1 .. k : A[j].name = d.items[j] /\ A[j].values = Maximum(d.items[j])
      /\ \A j \in 1 .. k : d.items[j] \in ToSet(ItemSeq) /\ d.items[j] \notin Lists
      /\ \A j, l \in 1 .. k : d.items[j] = d.items[l] => j = l
  <2>1. k \in Nat /\ A \in Seq(Definition) /\ Len(A) = k
    BY ListByIndex
  <2>2. \A j \in 1 .. k : A[j].name = d.items[j] /\ A[j].values = Maximum(d.items[j])
    BY DEF Announced
  <2> QED  BY <2>1, <2>2, ItemsByIndex
<1>4. e = [w EXCEPT !.items = names, !.max = max]
  BY DEF ConfigNew
<1> HIDE DEF k, A, w, D
<1>5. Len(D) \in Nat /\ DOMAIN D = 1 .. Len(D) /\ \A j \in 1 .. Len(D) : D[j] \in ToSet(D)
  <2>1. Len(D) \in Nat /\ DOMAIN D = 1 .. Len(D)
    BY <1>2, LenProperties
  <2> QED  BY <2>1 DEF ToSet
<1>6. \A t \in ToSet(D) : t.name \in ToSet(ItemSeq) /\ t.name \notin Lists /\ t.values = Maximum(t.name)
  BY <1>2, <1>3
<1>7. \A t, u \in ToSet(D) : t.name = u.name => t = u
  <2> SUFFICES ASSUME NEW t \in ToSet(D), NEW u \in ToSet(D), t.name = u.name
               PROVE  t = u
    OBVIOUS
  <2>1. PICK j \in 1 .. k : t = A[j]
    BY <1>2
  <2>2. PICK l \in 1 .. k : u = A[l]
    BY <1>2
  <2>3. j = l
    BY <1>3, <2>1, <2>2
  <2> QED  BY <2>1, <2>2, <2>3
<1>8. /\ names \in Seq(ToSet(ItemSeq)) /\ Len(names) = Len(D)
      /\ DOMAIN names = 1 .. Len(D) /\ \A j \in 1 .. Len(D) : names[j] = D[j].name
  <2> DEFINE S == ToSet(ItemSeq)
  <2>1. \A j \in 1 .. Len(D) : D[j].name \in S
    BY <1>5, <1>6
  <2> HIDE DEF S
  <2>2. names \in [1 .. Len(D) -> S]
    BY <1>5, <2>1
  <2>3. DOMAIN names = 1 .. Len(D) /\ \A j \in 1 .. Len(D) : names[j] = D[j].name
    BY <1>5
  <2> HIDE DEF names
  <2>4. names \in Seq(S) /\ Len(names) = Len(D)
    BY <1>5, <2>2, FunctionIsSeq
  <2> QED  BY <2>3, <2>4 DEF S
<1>9. IsInjective(names)
  <2> HIDE DEF names
  <2>1. \A j, l \in 1 .. Len(D) : names[j] = names[l] => j = l
    <3> SUFFICES ASSUME NEW j \in 1 .. Len(D), NEW l \in 1 .. Len(D), names[j] = names[l]
                 PROVE  j = l
      OBVIOUS
    <3>1. D[j] = D[l]
      BY <1>5, <1>7, <1>8
    <3> QED  BY <1>2, <1>5, <3>1 DEF IsInjective
  <2> QED  BY <1>8, <2>1 DEF IsInjective
<1>10. \A n \in Name : n \in ToSet(names) <=> \E t \in ToSet(D) : t.name = n
  <2> HIDE DEF names
  <2>1. \A t \in ToSet(D) : \E j \in 1 .. Len(D) : D[j] = t
    BY <1>5 DEF ToSet
  <2>2. ToSet(names) = {names[j] : j \in 1 .. Len(D)}
    BY <1>8 DEF ToSet
  <2> QED  BY <1>5, <1>8, <2>1, <2>2
<1>11. w.max \in [Name -> Nat] /\ \A n \in Name : w.max[n] = IF n \in Lists THEN Maximum(n) ELSE 0
  <2>1. ToSet(<< >>) = {}
    BY DEF ToSet
  <2> QED  BY <1>1, <2>1 DEF Orderly, DeviceRecord
<1>12. \A n \in Name : max[n] = IF n \in Lists \cup ToSet(names) THEN Maximum(n) ELSE 0
  <2> SUFFICES ASSUME NEW n \in Name
               PROVE  max[n] = IF n \in Lists \cup ToSet(names) THEN Maximum(n) ELSE 0
    OBVIOUS
  <2>1. CASE \E t \in ToSet(D) : t.name = n
    <3>1. PICK t \in ToSet(D) : t.name = n
      BY <2>1
    <3> DEFINE u == CHOOSE t2 \in ToSet(D) : t2.name = n
    <3>2. u \in ToSet(D) /\ u.name = n
      BY <2>1
    <3>3. room(n) = u.values
      OBVIOUS
    <3> HIDE DEF u
    <3>4. room(n) = Maximum(n)
      BY <1>6, <3>2, <3>3
    <3> QED  BY <1>10, <2>1, <3>4
  <2>2. CASE ~\E t \in ToSet(D) : t.name = n
    <3>1. max[n] = w.max[n] /\ n \notin ToSet(names)
      BY <1>10, <2>2
    <3> QED  BY <1>11, <3>1
  <2> QED  BY <2>1, <2>2
<1>13. max \in [Name -> Nat]
  <2>1. max = [n \in Name |-> max[n]]
    OBVIOUS
  <2> HIDE DEF max, names
  <2>2. \A n \in Name : max[n] \in Nat
    BY <1>12, RoomForAll
  <2> QED  BY ONLY <2>1, <2>2
<1> HIDE DEF names, max
<1>14. w \in DeviceRecord
  BY <1>1 DEF Orderly
<1>15. /\ e.items = names /\ e.max = max /\ e.values = w.values
       /\ e.instance = w.instance /\ e.interval = w.interval /\ e \in DeviceRecord
  BY <1>4, <1>8, <1>13, <1>14 DEF DeviceRecord
<1> HIDE DEF e
<1>16. Empty(e)
  BY <1>1, <1>15 DEF Empty
<1>17. Orderly(e)
  <2>1. \A n \in Name : e.values[n] \in Seq(Said(n)) /\ Len(e.values[n]) <= e.max[n]
    <3> SUFFICES ASSUME NEW n \in Name
                 PROVE  e.values[n] \in Seq(Said(n)) /\ Len(e.values[n]) <= e.max[n]
      OBVIOUS
    <3>1. << >> \in Seq(Said(n)) /\ Len(<< >>) = 0 /\ e.max[n] \in Nat
      BY <1>13, <1>15, EmptySeq
    <3>2. e.values[n] = << >>
      BY <1>16 DEF Empty
    <3>3. Len(<< >>) <= e.max[n]
      BY ONLY <3>1
    <3> QED  BY ONLY <3>1, <3>2, <3>3
  <2> QED  BY <1>9, <1>12, <1>15, <2>1 DEF Orderly
<1>18. ASSUME Reserved = {}
       PROVE  \E c \in 0 .. k : names = SubSeq(d.items, 1, c) /\ (4 + k <= Len(b) => c = k)
  <2>1. PICK c \in 0 .. k : D = SubSeq(A, 1, c) /\ (4 + k <= Len(b) => c = k)
    BY <1>2, <1>18
  <2> DEFINE p == SubSeq(d.items, 1, c)
  <2>2. Len(D) = c /\ \A j \in 1 .. c : D[j] = A[j]
    <3>1. c \in 0 .. Len(A)
      BY <1>3
    <3>2. Len(SubSeq(A, 1, c)) = c /\ \A j \in 1 .. c : SubSeq(A, 1, c)[j] = A[j]
      BY <1>3, <3>1, InTwo
    <3> QED  BY <2>1, <3>2
  <2>3. p \in Seq(ToSet(ItemSeq)) /\ Len(p) = c /\ \A j \in 1 .. c : p[j] = d.items[j]
    <3>1. d.items \in Seq(ToSet(ItemSeq)) /\ c \in 0 .. Len(d.items)
      BY ItemsByIndex DEF k
    <3> DEFINE s == d.items
               S == ToSet(ItemSeq)
    <3> HIDE DEF s, S
    <3>2. s \in Seq(S) /\ c \in 0 .. Len(s)
      BY <3>1 DEF s, S
    <3>3. SubSeq(s, 1, c) \in Seq(S) /\ Len(SubSeq(s, 1, c)) = c
          /\ \A j \in 1 .. c : SubSeq(s, 1, c)[j] = s[j]
      BY <3>2, InTwo
    <3> QED  BY <3>3 DEF s, S
  <2> HIDE DEF p
  <2>4. \A j \in 1 .. c : names[j] = p[j]
    BY <1>3, <1>8, <2>2, <2>3
  <2>5. names = p
    BY <1>8, <2>2, <2>3, <2>4, SeqEqual
  <2> QED  BY <2>1, <2>5 DEF p
<1> QED  BY <1>1, <1>15, <1>16, <1>17, <1>18 DEF e, w, k
-----------------------------------------------------------------------------
(* What a start makes of the beginning of a file (gxPLDeviceConfigNew).    *)

\* What the beginning says is what the whole says.
LEMMA BeginningSays ==
  ASSUME NEW b, NEW x, NEW v, NEW m, StartOf(b, x), Says(x, v, m),
         Len(b) \in Nat, Len(x) \in Nat
  PROVE  Says(b, v, m)
<1>1. \A i \in 1 .. Len(b) : i \in 1 .. Len(x) /\ b[i] = x[i]
  BY DEF StartOf
<1> QED  BY <1>1 DEF Says

LEMMA RestoredIs ==
  ASSUME NEW d, NEW f, NEW i \in Instance, Orderly(d), f \in Seq(FileLine),
         StartOf(f, FileOf(d)), IsLoadable(f)
  PROVE  LET b == ConfigLoad(f)
             e == ConfigNew(NewDevice(i), b)
             q == d.interval \div Minute
         IN  /\ b \in Seq(FileLine) /\ StartOf(b, LoadLines(d)) /\ Orderly(e) /\ Empty(e)
             /\ Restored(f, i) =
                  Device(TRUE, IF Speaks(b, "newconf") THEN d.instance ELSE i,
                         IF Speaks(b, "interval") /\ q # 0 THEN q * Minute ELSE DefaultInterval,
                         e.items, e.max, Filled(e, b))
<1> DEFINE b == ConfigLoad(f)
           e == ConfigNew(NewDevice(i), b)
           q == d.interval \div Minute
           x == LoadLines(d)
<1>1. b \in Seq(FileLine) /\ StartOf(b, x)
  BY LoadBegins
<1>2. Orderly(e) /\ Empty(e) /\ e.instance = i /\ e.interval = DefaultInterval
  BY <1>1, ConfigNewSound
<1>3. Restored(f, i) = ConfigSet(e, b)
  BY DEF Restored
<1>4. Says(x, d.instance, q) /\ Len(x) \in Nat
  BY LinesByIndex
<1> HIDE DEF b, e, q, x
<1>5. Len(b) \in Nat
  BY <1>1, LenProperties
<1>6. Says(b, d.instance, q)
  BY <1>1, <1>4, <1>5, BeginningSays
<1>7. e \in DeviceRecord
  BY <1>2 DEF Orderly
<1>8. ConfigSet(e, b) =
        Device(TRUE, InstanceAfter(e, b), IntervalAfter(e, b), e.items, e.max, Filled(e, b))
  BY <1>1, <1>2, ConfigSetOrderly
<1>9. InstanceAfter(e, b) = IF Speaks(b, "newconf") THEN d.instance ELSE i
  BY <1>1, <1>2, <1>6, <1>7, InstanceIs
<1>10. IntervalAfter(e, b) =
         IF Speaks(b, "interval") /\ q # 0 THEN q * Minute ELSE DefaultInterval
  BY <1>1, <1>2, <1>6, <1>7, IntervalIs
<1>11. Restored(f, i) =
         Device(TRUE, IF Speaks(b, "newconf") THEN d.instance ELSE i,
                IF Speaks(b, "interval") /\ q # 0 THEN q * Minute ELSE DefaultInterval,
                e.items, e.max, Filled(e, b))
  BY <1>3, <1>8, <1>9, <1>10
<1> QED  BY <1>1, <1>2, <1>11 DEF b, e, q, x

\* Whatever has been cut off, an orderly device comes of it.
LEMMA RestoredOrderly ==
  ASSUME NEW d, NEW f, NEW i \in Instance, Orderly(d), f \in Seq(FileLine),
         StartOf(f, FileOf(d))
  PROVE  Orderly(Restored(f, i))
<1>1. CASE IsLoadable(f)
  <2> DEFINE b == ConfigLoad(f)
             e == ConfigNew(NewDevice(i), b)
  <2>1. b \in Seq(FileLine) /\ Orderly(e) /\ Empty(e)
    BY <1>1, RestoredIs
  <2>2. Restored(f, i) = ConfigSet(e, b)
    BY <1>1 DEF Restored
  <2> HIDE DEF b, e
  <2>3. Orderly(ConfigSet(e, b))
    BY <2>1, ConfigSetOrderly
  <2> QED  BY <2>2, <2>3
<1>2. CASE ~IsLoadable(f)
  BY <1>2, NewDeviceOrderly DEF Restored
<1> QED  BY <1>1, <1>2

\* The values that have been read are the first ones, and fit.
LEMMA FirstValues ==
  ASSUME NEW d, NEW b, NEW n, Orderly(d), b \in Seq(FileLine), StartOf(b, LoadLines(d)),
         n \in Name
  PROVE  /\ IsPrefix(Given(b, n), d.values[n]) /\ Len(Given(b, n)) <= d.max[n]
         /\ b = LoadLines(d) => Given(b, n) = d.values[n]
<1> DEFINE x == LoadLines(d)
           v == d.values[n]
           g == Given(b, n)
<1>1. x \in Seq(FileLine) /\ Given(x, n) = v
  BY LinesByIndex
<1>2. v \in Seq(Said(n)) /\ Len(v) \in Nat /\ Len(v) <= d.max[n] /\ d.max[n] \in Nat
  BY ValuesOf DEF Orderly, DeviceRecord
<1>3. g \in Seq(Said(n))
  BY GivenType
<1> HIDE DEF x, v
<1>4. b = SubSeq(x, 1, Len(b)) /\ Len(b) \in 0 .. Len(x)
  BY <1>1, BeginsIsSubSeq DEF x
<1>5. IsPrefix(g, v)
  <2> DEFINE k == Len(b)
  <2> HIDE DEF k, g
  <2>1. k \in 0 .. Len(x) /\ b = SubSeq(x, 1, k)
    BY <1>4 DEF k
  <2>2. IsPrefix(Given(SubSeq(x, 1, k), n), Given(x, n))
    BY <1>1, <2>1, GivenPrefix
  <2> QED  BY <1>1, <2>1, <2>2 DEF g
<1> HIDE DEF g
<1>6. Len(g) <= Len(v) /\ Len(g) \in Nat
  BY <1>2, <1>3, <1>5, PrefixIsBeginning, LenProperties
<1>7. Len(g) <= d.max[n]
  BY <1>2, <1>6
<1>8. b = x => g = v
  BY <1>1 DEF g
<1> QED  BY <1>5, <1>7, <1>8 DEF x, v, g

\* The beginning of the items of a device.
LEMMA FirstItems ==
  ASSUME NEW d, NEW c, Orderly(d), c \in 0 .. Len(d.items)
  PROVE  /\ IsPrefix(SubSeq(d.items, 1, c), d.items)
         /\ ToSet(SubSeq(d.items, 1, c)) \subseteq ToSet(d.items)
         /\ c = Len(d.items) => SubSeq(d.items, 1, c) = d.items
<1> DEFINE s == d.items
           S == ToSet(ItemSeq)
           p == SubSeq(s, 1, c)
<1>1. /\ s \in Seq(S) /\ Len(s) \in Nat /\ c \in 0 .. Len(s) /\ DOMAIN s = 1 .. Len(s)
  BY ItemsByIndex
<1> HIDE DEF s, S
<1>2. c = Len(s) => p = s
  BY <1>1, SubSeqFull
<1>3. p \in Seq(S) /\ Len(p) = c /\ \A j \in 1 .. c : p[j] = s[j]
  BY <1>1, InTwo
<1> HIDE DEF p
<1>4. IsPrefix(p, s)
  BY <1>1, <1>3, PrefixIsBeginning
<1>5. ToSet(p) \subseteq ToSet(s)
  <2>1. DOMAIN p = 1 .. c
    BY <1>3, LenProperties
  <2>2. \A j \in 1 .. c : j \in 1 .. Len(s)
    BY <1>1
  <2> QED  BY <1>1, <1>3, <2>1, <2>2 DEF ToSet
<1> QED  BY <1>2, <1>4, <1>5 DEF p, s

\* Nothing but the beginning of the configuration.
LEMMA NotMixed ==
  ASSUME NEW d, NEW f, NEW i \in Instance, Orderly(d), f \in Seq(FileLine),
         StartOf(f, FileOf(d)), IsLoadable(f), Reserved = {}
  PROVE  LET r == Restored(f, i) IN
           /\ r.instance \in {i, d.instance}
           /\ r.interval \in {DefaultInterval, InMinutes(d.interval, DefaultInterval)}
           /\ IsPrefix(r.items, d.items)
           /\ \A n \in Lists \cup ToSet(r.items) :
                r.max[n] = d.max[n] /\ IsPrefix(r.values[n], d.values[n])
<1> DEFINE b == ConfigLoad(f)
           e == ConfigNew(NewDevice(i), b)
           q == d.interval \div Minute
           v == Filled(e, b)
           a == IF Speaks(b, "newconf") THEN d.instance ELSE i
           t == IF Speaks(b, "interval") /\ q # 0 THEN q * Minute ELSE DefaultInterval
           r == Restored(f, i)
<1>1. /\ b \in Seq(FileLine) /\ StartOf(b, LoadLines(d)) /\ Orderly(e) /\ Empty(e)
      /\ r = Device(TRUE, a, t, e.items, e.max, v)
  BY RestoredIs
<1>2. \E c \in 0 .. Len(d.items) : e.items = SubSeq(d.items, 1, c)
  BY <1>1, ConfigNewSound
<1>3. t \in {DefaultInterval, InMinutes(d.interval, DefaultInterval)}
  BY InMinutesIs
<1>4. a \in {i, d.instance}
  OBVIOUS
<1> HIDE DEF a, t, v, r
<1>5. r.instance = a /\ r.interval = t /\ r.items = e.items /\ r.max = e.max /\ r.values = v
  BY <1>1 DEF Device
<1> HIDE DEF b, e
<1>6. IsPrefix(e.items, d.items) /\ ToSet(e.items) \subseteq ToSet(d.items)
  BY <1>2, FirstItems
<1>7. ASSUME NEW n \in Lists \cup ToSet(e.items)
      PROVE  e.max[n] = d.max[n] /\ IsPrefix(v[n], d.values[n])
  <2>1. n \in Lists \cup ToSet(d.items)
    BY <1>6
  <2>2. n \in Name /\ e.max[n] = d.max[n]
    BY <1>1, <2>1, DefinedIs
  <2>3. IsPrefix(Given(b, n), d.values[n]) /\ Len(Given(b, n)) <= e.max[n]
    BY <1>1, <2>2, FirstValues
  <2>4. v[n] = Given(b, n)
    BY <1>1, <2>2, <2>3, FilledIs DEF v
  <2> QED  BY <2>2, <2>3, <2>4
<1> QED  BY <1>3, <1>4, <1>5, <1>6, <1>7 DEF r

\* All of it, when nothing is missing.
LEMMA RestoredWhole ==
  ASSUME NEW d, NEW i \in Instance, Orderly(d), Reserved = {}
  PROVE  Restored(FileOf(d), i) =
           [d EXCEPT !.configured = TRUE, !.interval = InMinutes(@, DefaultInterval)]
<1> DEFINE f == FileOf(d)
           b == ConfigLoad(f)
           x == LoadLines(d)
           e == ConfigNew(NewDevice(i), b)
           q == d.interval \div Minute
           t == InMinutes(d.interval, DefaultInterval)
           y == TRUE
           k == Len(d.items)
<1>1. /\ f \in Seq(FileLine) /\ Len(f) = 1 + Len(x) /\ x \in Seq(FileLine) /\ Len(x) \in Nat
      /\ 4 + k <= Len(x) /\ k \in Nat
      /\ Speaks(x, "newconf") /\ Speaks(x, "interval")
  BY FileByIndex, LinesByIndex, ItemsByIndex
<1> HIDE DEF f, x
<1>2. StartOf(f, FileOf(d))
  BY <1>1 DEF StartOf, f
<1>3. Len(f) > 1
  BY <1>1
<1>4. /\ IsLoadable(f) /\ b \in Seq(FileLine) /\ StartOf(b, x) /\ Len(b) = Len(x)
  <2>1. /\ IsLoadable(f) <=> Len(f) > 1
        /\ b \in Seq(FileLine) /\ StartOf(b, x)
        /\ Len(f) > 1 => Len(b) = Len(f) - 1
    BY <1>1, <1>2, LoadBegins DEF x
  <2> HIDE DEF b
  <2> QED  BY <1>1, <1>3, <2>1
<1>5. b = x
  <2> HIDE DEF b
  <2>1. \A j \in 1 .. Len(b) : b[j] = x[j]
    BY <1>4 DEF StartOf
  <2> QED  BY <1>1, <1>4, <2>1, SeqEqual
<1>6. /\ Orderly(e) /\ Empty(e)
      /\ Restored(f, i) =
           Device(y, IF Speaks(b, "newconf") THEN d.instance ELSE i,
                  IF Speaks(b, "interval") /\ q # 0 THEN q * Minute ELSE DefaultInterval,
                  e.items, e.max, Filled(e, b))
  BY <1>1, <1>2, <1>4, RestoredIs
<1>7. t = IF q # 0 THEN q * Minute ELSE DefaultInterval
  BY InMinutesIs
<1>8. \E c \in 0 .. k : e.items = SubSeq(d.items, 1, c) /\ (4 + k <= Len(b) => c = k)
  <2>1. StartOf(b, LoadLines(d))
    BY <1>4 DEF x
  <2> QED  BY <1>4, <2>1, ConfigNewSound
<1> HIDE DEF b, e, q, t, y
<1>9. e.items = d.items
  <2>1. 4 + k <= Len(b)
    BY <1>1, <1>4
  <2>2. e.items = SubSeq(d.items, 1, k) /\ k \in 0 .. k
    BY <1>1, <1>8, <2>1
  <2> QED  BY <2>2, FirstItems
<1>10. e.max = d.max
  <2>1. /\ e.max \in [Name -> Nat] /\ d.max \in [Name -> Nat]
        /\ \A n \in Name : e.max[n] = d.max[n]
    BY <1>6, <1>9 DEF Orderly, DeviceRecord
  <2> DEFINE a == e.max
             c == d.max
  <2> HIDE DEF a, c
  <2>2. a \in [Name -> Nat] /\ c \in [Name -> Nat] /\ \A n \in Name : a[n] = c[n]
    BY <2>1 DEF a, c
  <2>3. a = c
    BY ONLY <2>2
  <2> QED  BY <2>3 DEF a, c
<1>11. Filled(e, b) = d.values
  <2> DEFINE a == Filled(e, b)
             c == d.values
  <2>1. \A n \in Name : a[n] = c[n]
    <3> SUFFICES ASSUME NEW n \in Name
                 PROVE  a[n] = c[n]
      OBVIOUS
    <3> HIDE DEF a
    <3>1. Given(b, n) = d.values[n] /\ Len(Given(b, n)) <= e.max[n]
      <4>1. StartOf(b, LoadLines(d)) /\ b = LoadLines(d)
        BY <1>4, <1>5 DEF x
      <4> QED  BY <1>4, <1>10, <4>1, FirstValues
    <3>2. (n \notin Lists /\ n \notin ToSet(d.items)) => d.values[n] = << >>
      BY ValuesOf
    <3>3. /\ a[n] = IF n \in Lists \cup ToSet(e.items) THEN Upto(Given(b, n), e.max[n]) ELSE << >>
          /\ (n \in Lists \cup ToSet(e.items) /\ Len(Given(b, n)) <= e.max[n])
               => a[n] = Given(b, n)
      BY <1>4, <1>6, FilledIs DEF a
    <3> QED  BY <1>9, <3>1, <3>2, <3>3
  <2>2. a = [n \in Name |-> a[n]]
    BY DEF Filled
  <2>3. c \in [Name -> Seq(Setting)]
    BY DEF Orderly, DeviceRecord
  <2> DEFINE T == Seq(Setting)
  <2> HIDE DEF a, c, T
  <2>4. c = [n \in Name |-> c[n]]
    <3>1. c \in [Name -> T]
      BY <2>3 DEF T
    <3> QED  BY ONLY <3>1
  <2>5. [n \in Name |-> a[n]] = [n \in Name |-> c[n]]
    BY ONLY <2>1
  <2> QED  BY ONLY <2>2, <2>4, <2>5 DEF a, c
<1>12. Restored(f, i) = Device(y, d.instance, t, d.items, d.max, d.values)
  <2>1. Speaks(b, "newconf") /\ Speaks(b, "interval")
    BY <1>1, <1>5
  <2> QED  BY <1>6, <1>7, <1>9, <1>10, <1>11, <2>1
<1>13. [d EXCEPT !.configured = TRUE, !.interval = InMinutes(@, DefaultInterval)] =
         Device(y, d.instance, t, d.items, d.max, d.values)
  <2> DEFINE z == [d EXCEPT !.configured = y, !.interval = t]
  <2>1. [d EXCEPT !.configured = TRUE, !.interval = InMinutes(@, DefaultInterval)] = z
    BY DEF y, t
  <2>2. d \in DeviceRecord
    BY DEF Orderly
  <2>3. /\ z \in [configured : {y}, instance : Instance, interval : {t},
                  items : Seq(ToSet(ItemSeq)), max : [Name -> Nat],
                  values : [Name -> Seq(Setting)]]
        /\ z.items = d.items /\ z.max = d.max /\ z.instance = d.instance
        /\ z.values = d.values
    BY <2>2 DEF DeviceRecord
  <2>4. z.configured = y /\ z.interval = t
    BY <2>3
  <2> HIDE DEF z
  <2>5. z = Device(z.configured, z.instance, z.interval, z.items, z.max, z.values)
    BY <2>3, DeviceByFields
  <2> QED  BY ONLY <2>1, <2>3, <2>4, <2>5
<1> QED  BY ONLY <1>12, <1>13 DEF f
-----------------------------------------------------------------------------
(* The inductive invariant: device and last are orderly, and the file is   *)
(* the beginning of what the last save writes, which is all of it together *)
(* with what is pending.                                                   *)

FileSound(f, p, d, done, alive) ==
  /\ f \in Seq(FileLine) /\ p \in Seq(FileLine)
  /\ StartOf(f, FileOf(d))
  /\ p # << >> => alive /\ f \o p = FileOf(d)
  /\ done => f = FileOf(d) /\ p = << >>

IInv ==
  /\ running \in BOOLEAN /\ saved \in BOOLEAN
  /\ Orderly(device) /\ Orderly(last)
  /\ FileSound(file, pending, last, saved, running)

\* The file when a save has opened it.
LEMMA OpenedFile ==
  ASSUME NEW d, Orderly(d)
  PROVE  /\ << >> \in Seq(FileLine) /\ FileOf(d) \in Seq(FileLine)
         /\ StartOf(<< >>, FileOf(d)) /\ << >> \o FileOf(d) = FileOf(d)
         /\ FileOf(d) # << >>
<1> DEFINE g == FileOf(d)
<1>1. g \in Seq(FileLine) /\ Len(g) = 1 + Len(LoadLines(d)) /\ Len(LoadLines(d)) \in Nat
  BY FileByIndex, LinesByIndex
<1> HIDE DEF g
<1>2. << >> \in Seq(FileLine) /\ Len(<< >>) = 0
  BY EmptySeq
<1>3. << >> \o g = g
  BY <1>1, ConcatEmptySeq
<1>4. StartOf(<< >>, g)
  BY <1>1, <1>2 DEF StartOf
<1>5. Len(g) # 0
  BY <1>1
<1>6. g # << >>
  BY <1>2, <1>5
<1> QED  BY <1>1, <1>2, <1>3, <1>4, <1>6 DEF g

LEMMA SaveSound ==
  ASSUME FileSound(file, pending, last, saved, running), Orderly(last),
         NEW d, Orderly(d), Save(d), running', saved \in BOOLEAN
  PROVE  FileSound(file', pending', last', saved', running') /\ Orderly(last') /\ saved' \in BOOLEAN
<1>1. CASE OpenFile(d)
  <2>1. /\ << >> \in Seq(FileLine) /\ FileOf(d) \in Seq(FileLine)
        /\ StartOf(<< >>, FileOf(d)) /\ << >> \o FileOf(d) = FileOf(d)
    BY OpenedFile
  <2>2. file' = << >> /\ pending' = FileOf(d) /\ last' = d /\ saved' = FALSE
    BY <1>1 DEF OpenFile
  <2> QED  BY <2>1, <2>2 DEF FileSound
<1>2. CASE UNCHANGED <<file, pending, last, saved>>
  BY <1>2 DEF FileSound
<1> QED  BY <1>1, <1>2 DEF Save

\* Any number of lines.
LEMMA WriteSound ==
  ASSUME IInv, WriteLines
  PROVE  IInv'
<1>1. /\ running /\ pending # << >> /\ UNCHANGED <<running, device, last>>
  BY DEF WriteLines
<1>2. PICK n \in 1 .. Len(pending) :
        /\ file' = file \o SubSeq(pending, 1, n)
        /\ pending' = SubSeq(pending, n + 1, Len(pending))
        /\ saved' = (n = Len(pending))
  BY DEF WriteLines
<1>3. /\ file \in Seq(FileLine) /\ pending \in Seq(FileLine) /\ file \o pending = FileOf(last)
      /\ running \in BOOLEAN /\ Orderly(device) /\ Orderly(last)
  BY <1>1 DEF IInv, FileSound
<1> DEFINE a == SubSeq(pending, 1, n)
           b == SubSeq(pending, n + 1, Len(pending))
<1>4. Len(pending) \in Nat
  BY <1>3, LenProperties
<1>5. a \in Seq(FileLine) /\ b \in Seq(FileLine) /\ pending = a \o b /\ Len(b) = Len(pending) - n
  <2> DEFINE p == pending
  <2> HIDE DEF p
  <2>1. p \in Seq(FileLine) /\ n \in 0 .. Len(p)
    BY <1>3, <1>4 DEF p
  <2>2. /\ SubSeq(p, 1, n) \in Seq(FileLine) /\ SubSeq(p, n + 1, Len(p)) \in Seq(FileLine)
        /\ p = SubSeq(p, 1, n) \o SubSeq(p, n + 1, Len(p))
        /\ Len(SubSeq(p, n + 1, Len(p))) = Len(p) - n
    BY ONLY <2>1, InHalves
  <2> QED  BY ONLY <2>2 DEF a, b, p
<1> HIDE DEF a, b
<1>6. file' = file \o a /\ pending' = b
  BY <1>2 DEF a, b
<1>7. (file \o a) \o b = file \o (a \o b)
  <2>1. file \in Seq(FileLine) /\ a \in Seq(FileLine) /\ b \in Seq(FileLine)
    BY <1>3, <1>5
  <2> QED  BY ONLY <2>1, ConcatAssociative, SMTT(30)
<1>8. file' \o pending' = FileOf(last)
  BY ONLY <1>3, <1>5, <1>6, <1>7
<1> DEFINE g == file'
           h == pending'
<1>9. g \in Seq(FileLine) /\ h \in Seq(FileLine)
  <2>1. file \o a \in Seq(FileLine)
    BY <1>3, <1>5, ConcatProperties
  <2> QED  BY <1>5, <1>6, <2>1
<1> HIDE DEF g, h
<1>10. StartOf(g, g \o h)
  BY <1>9, ConcatIsBegun
<1>11. g \o h = FileOf(last)
  BY <1>8 DEF g, h
<1>12. n = Len(pending) => h = << >> /\ g = FileOf(last)
  <2> SUFFICES ASSUME n = Len(pending)
               PROVE  h = << >> /\ g = FileOf(last)
    OBVIOUS
  <2>1. Len(h) = 0
    BY <1>4, <1>5, <1>6 DEF h
  <2>2. h = << >>
    BY <1>9, <2>1, EmptySeq
  <2>3. g \o << >> = g
    BY <1>9, ConcatEmptySeq
  <2> QED  BY <1>11, <2>2, <2>3
<1>13. /\ last' = last /\ device' = device /\ running' = running
       /\ saved' \in BOOLEAN /\ (saved' => n = Len(pending))
  <2>1. (n = Len(pending)) \in BOOLEAN
    OBVIOUS
  <2> QED  BY <1>1, <1>2, <2>1
<1>14. FileSound(g, h, last, saved', running)
  BY <1>1, <1>9, <1>10, <1>11, <1>12, <1>13 DEF FileSound
<1>15. FileSound(file', pending', last', saved', running')
  BY <1>13, <1>14 DEF g, h
<1> QED  BY <1>3, <1>13, <1>15 DEF IInv

\* A start: what it restores is orderly, and saved if there was anything.
LEMMA StartSound ==
  ASSUME IInv, Start
  PROVE  IInv'
<1>1. /\ ~running /\ running' = TRUE
      /\ IF IsLoadable(file) THEN Save(device') ELSE UNCHANGED <<file, pending, last, saved>>
  BY DEF Start
<1>2. PICK i \in Generated : device' = Restored(file, i)
  BY DEF Start
<1>3. i \in Instance
  BY ConfigurationAssumption
<1>4. /\ Orderly(last) /\ FileSound(file, pending, last, saved, running) /\ saved \in BOOLEAN
  BY DEF IInv
<1>5. Orderly(device')
  <2>1. file \in Seq(FileLine) /\ StartOf(file, FileOf(last))
    BY <1>4 DEF FileSound
  <2>2. Orderly(Restored(file, i))
    BY <1>3, <1>4, <2>1, RestoredOrderly
  <2> QED  BY <1>2, <2>2
<1>6. FileSound(file', pending', last', saved', running') /\ Orderly(last') /\ saved' \in BOOLEAN
  <2>1. CASE IsLoadable(file)
    <3>1. Save(device')
      BY <1>1, <2>1
    <3> DEFINE e == device'
    <3>2. Orderly(e) /\ Save(e)
      BY <1>5, <3>1
    <3> HIDE DEF e
    <3> QED  BY <1>1, <1>4, <3>2, SaveSound
  <2>2. CASE ~IsLoadable(file)
    BY <1>1, <1>4, <2>2 DEF FileSound
  <2> QED  BY <2>1, <2>2
<1> QED  BY <1>1, <1>5, <1>6 DEF IInv

\* A response applied to the device that has made room for it.
LEMMA ResponseSound ==
  ASSUME IInv, NEW body \in Body, Response(body)
  PROVE  IInv'
<1>1. /\ running /\ device' = ConfigSet(Cleared(device), body) /\ Save(device')
      /\ running' = running
  BY DEF Response, Idle
<1>2. /\ Orderly(device) /\ Orderly(last) /\ running \in BOOLEAN /\ saved \in BOOLEAN
      /\ FileSound(file, pending, last, saved, running)
  BY DEF IInv
<1>3. body \in Seq(FileLine)
  <2>1. Pair \subseteq FileLine
    BY DEF FileLine
  <2>2. Seq(Pair) \subseteq Seq(FileLine)
    BY <2>1, SeqMonotonic
  <2> QED  BY <2>2, ConfigurationAssumption
<1>4. Orderly(device')
  <2> DEFINE e == Cleared(device)
  <2>1. Orderly(e) /\ Empty(e)
    BY <1>2, ClearedOrderly
  <2> HIDE DEF e
  <2>2. Orderly(ConfigSet(e, body))
    BY <1>3, <2>1, ConfigSetOrderly
  <2> QED  BY <1>1, <2>2 DEF e
<1>5. FileSound(file', pending', last', saved', running') /\ Orderly(last') /\ saved' \in BOOLEAN
  <2> DEFINE e == device'
  <2>1. Orderly(e) /\ Save(e) /\ running'
    BY <1>1, <1>4
  <2> HIDE DEF e
  <2> QED  BY <1>2, <2>1, SaveSound
<1> QED  BY <1>1, <1>2, <1>4, <1>5 DEF IInv

\* The program ends anywhere; what was pending is lost.
LEMMA CrashSound ==
  ASSUME IInv, Crash
  PROVE  IInv'
<1>1. running' = FALSE /\ device' = NoDevice /\ pending' = << >> /\ UNCHANGED <<file, last, saved>>
  BY DEF Crash
<1>2. Orderly(NoDevice)
  <2>1. (CHOOSE i \in Generated : TRUE) \in Instance
    BY ConfigurationAssumption
  <2> QED  BY <2>1, NewDeviceOrderly DEF NoDevice
<1>3. << >> \in Seq(FileLine)
  BY EmptySeq
<1>4. FileSound(file, << >>, last, saved, FALSE)
  BY <1>3 DEF IInv, FileSound
<1> QED  BY <1>1, <1>2, <1>4 DEF IInv

LEMMA InitSound ==
  ASSUME Init
  PROVE  IInv
<1>1. Orderly(NoDevice)
  <2>1. (CHOOSE i \in Generated : TRUE) \in Instance
    BY ConfigurationAssumption
  <2> QED  BY <2>1, NewDeviceOrderly DEF NoDevice
<1>2. << >> \in Seq(FileLine) /\ StartOf(<< >>, FileOf(NoDevice))
  BY <1>1, OpenedFile
<1>3. FileSound(<< >>, << >>, NoDevice, FALSE, FALSE)
  BY <1>2 DEF FileSound
<1> QED  BY <1>1, <1>3 DEF IInv, Init
-----------------------------------------------------------------------------
(* Calls of the program: they leave the file alone, and an orderly device. *)

LEMMA EditSound ==
  ASSUME IInv, NEW new, Orderly(new), Edit(new)
  PROVE  IInv'
<1>1. device' = new /\ UNCHANGED <<running, file, pending, last, saved>>
  BY DEF Edit
<1>2. /\ Orderly(device') /\ Orderly(last) /\ running \in BOOLEAN /\ saved \in BOOLEAN
      /\ FileSound(file, pending, last, saved, running)
  BY <1>1 DEF IInv
<1> QED  BY <1>1, <1>2 DEF IInv

\* Other values for one name.
LEMMA OtherValues ==
  ASSUME NEW d, NEW n, NEW s, Orderly(d), n \in Name, s \in Seq(Said(n)), Len(s) <= d.max[n]
  PROVE  Orderly([d EXCEPT !.values[n] = s])
<1> DEFINE e == [d EXCEPT !.values[n] = s]
           v == [d.values EXCEPT ![n] = s]
<1>1. d \in DeviceRecord /\ IsInjective(d.items)
  BY DEF Orderly
<1>2. \A m \in Name :
        /\ d.values[m] \in Seq(Said(m)) /\ Len(d.values[m]) <= d.max[m]
        /\ d.max[m] = IF m \in Lists \cup ToSet(d.items) THEN Maximum(m) ELSE 0
  BY DEF Orderly
<1>3. e = [d EXCEPT !.values = v]
  OBVIOUS
<1>4. d.values \in [Name -> Seq(Setting)] /\ s \in Seq(Setting)
  BY <1>1, SaidIsSetting DEF DeviceRecord
<1>5. v \in [Name -> Seq(Setting)] /\ \A m \in Name : v[m] = IF m = n THEN s ELSE d.values[m]
  BY <1>4
<1> HIDE DEF v, e
<1>6. /\ e \in DeviceRecord /\ e.items = d.items /\ e.max = d.max /\ e.values = v
  BY <1>1, <1>3, <1>5 DEF DeviceRecord
<1>7. \A m \in Name : v[m] \in Seq(Said(m)) /\ Len(v[m]) <= d.max[m]
  BY <1>2, <1>5
<1>8. Orderly(e)
  BY <1>1, <1>2, <1>6, <1>7 DEF Orderly
<1> QED  BY <1>8 DEF e

LEMMA IntervalSound ==
  ASSUME IInv, NEW i \in Interval, SetInterval(i)
  PROVE  IInv'
<1> DEFINE d == device
           e == [d EXCEPT !.interval = i]
<1>1. Orderly(d) /\ i \in Nat
  BY ConfigurationAssumption DEF IInv
<1>2. Edit(e)
  BY DEF SetInterval
<1>3. d \in DeviceRecord
  BY <1>1 DEF Orderly
<1> HIDE DEF d
<1>4. e \in DeviceRecord /\ e.items = d.items /\ e.max = d.max /\ e.values = d.values
  BY <1>1, <1>3 DEF DeviceRecord
<1> HIDE DEF e
<1>5. Orderly(e)
  BY <1>1, <1>4 DEF Orderly
<1> QED  BY <1>2, <1>5, EditSound

LEMMA ValueClearAllSound ==
  ASSUME IInv, NEW n \in Loose, ValueClearAll(n)
  PROVE  IInv'
<1> DEFINE d == device
           e == [d EXCEPT !.values[n] = << >>]
<1>1. Orderly(d) /\ n \in Name
  BY ConfigurationAssumption, RoomForAll DEF IInv
<1>2. Edit(e)
  BY DEF ValueClearAll
<1> HIDE DEF d
<1>3. << >> \in Seq(Said(n)) /\ Len(<< >>) = 0 /\ d.max[n] \in Nat
  BY <1>1, EmptySeq DEF Orderly, DeviceRecord
<1>4. Len(<< >>) <= d.max[n]
  BY ONLY <1>3
<1>5. Orderly(e)
  BY <1>1, <1>3, <1>4, OtherValues
<1> HIDE DEF e
<1> QED  BY <1>2, <1>5, EditSound

LEMMA ValueAddSound ==
  ASSUME IInv, NEW n \in ToSet(ItemSeq), NEW v \in Value, ValueAdd(n, v)
  PROVE  IInv'
<1> DEFINE d == device
           s == d.values[n]
           u == Upto(Append(s, v), d.max[n])
           e == [d EXCEPT !.values[n] = u]
<1>1. Orderly(d) /\ n \in Name
  BY RoomForAll DEF IInv
<1>2. Edit(e)
  BY DEF ValueAdd
<1> HIDE DEF d
<1>3. s \in Seq(Said(n)) /\ v \in Said(n) /\ d.max[n] \in Nat
  BY <1>1, ValuesOf DEF Orderly, DeviceRecord, Said, Setting
<1> HIDE DEF s
<1>4. Append(s, v) \in Seq(Said(n))
  BY <1>3, AppendProperties
<1>5. u \in Seq(Said(n)) /\ Len(u) <= d.max[n]
  BY <1>3, <1>4, UptoFits
<1> HIDE DEF u
<1>6. Orderly(e)
  BY <1>1, <1>5, OtherValues
<1> HIDE DEF e
<1> QED  BY <1>2, <1>6, EditSound

LEMMA ValueSetAtSound ==
  ASSUME IInv, NEW n \in ToSet(ItemSeq), NEW v \in Value, NEW i, ValueSetAt(n, i, v)
  PROVE  IInv'
<1>1. CASE ~(i \in DOMAIN device.values[n])
  <2>1. ValueAdd(n, v)
    BY <1>1 DEF ValueSetAt
  <2> QED  BY <2>1, ValueAddSound
<1>2. CASE i \in DOMAIN device.values[n]
  <2> DEFINE d == device
             s == d.values[n]
             u == [s EXCEPT ![i] = v]
             e == [d EXCEPT !.values[n] = u]
  <2>1. Orderly(d) /\ n \in Name
    BY RoomForAll DEF IInv
  <2>2. Edit(e)
    BY <1>2 DEF ValueSetAt
  <2>3. i \in DOMAIN s
    BY <1>2
  <2> HIDE DEF d
  <2>4. /\ s \in Seq(Said(n)) /\ v \in Said(n) /\ d.max[n] \in Nat /\ Len(s) <= d.max[n]
        /\ DOMAIN s = 1 .. Len(s)
    BY <2>1, ValuesOf DEF Orderly, DeviceRecord, Said, Setting
  <2> HIDE DEF s
  <2>5. u \in Seq(Said(n)) /\ Len(u) = Len(s)
    BY <2>3, <2>4, ExceptSeq
  <2>6. Len(u) <= d.max[n]
    BY <2>4, <2>5
  <2> HIDE DEF u
  <2>7. Orderly(e)
    BY <2>1, <2>5, <2>6, OtherValues
  <2> HIDE DEF e
  <2> QED  BY <2>2, <2>7, EditSound
<1> QED  BY <1>1, <1>2

LEMMA ItemClearAllSound ==
  ASSUME IInv, ItemClearAll
  PROVE  IInv'
<1> DEFINE d == device
           v == [n \in Name |-> IF n \in Lists THEN d.values[n] ELSE << >>]
           e == [d EXCEPT !.values = v]
<1>1. Orderly(d)
  BY DEF IInv
<1>2. Edit(e)
  BY DEF ItemClearAll
<1> HIDE DEF d
<1>3. d \in DeviceRecord
  BY <1>1 DEF Orderly
<1>4. \A n \in Name : v[n] \in Seq(Said(n)) /\ Len(v[n]) <= d.max[n]
  <2> SUFFICES ASSUME NEW n \in Name
               PROVE  v[n] \in Seq(Said(n)) /\ Len(v[n]) <= d.max[n]
    OBVIOUS
  <2>1. /\ << >> \in Seq(Said(n)) /\ Len(<< >>) = 0 /\ d.max[n] \in Nat
        /\ d.values[n] \in Seq(Said(n)) /\ Len(d.values[n]) <= d.max[n]
    BY <1>1, EmptySeq DEF Orderly, DeviceRecord
  <2>2. Len(<< >>) <= d.max[n]
    BY ONLY <2>1
  <2>3. v[n] = IF n \in Lists THEN d.values[n] ELSE << >>
    OBVIOUS
  <2> HIDE DEF v
  <2> QED  BY ONLY <2>1, <2>2, <2>3
<1>5. v \in [Name -> Seq(Setting)]
  <2>1. v = [n \in Name |-> v[n]]
    OBVIOUS
  <2> DEFINE T == Seq(Setting)
  <2> HIDE DEF v, T
  <2>2. \A n \in Name : v[n] \in T
    BY <1>4, SaidIsSetting DEF T
  <2>3. v \in [Name -> T]
    BY ONLY <2>1, <2>2
  <2> QED  BY <2>3 DEF T
<1> HIDE DEF v
<1>6. e \in DeviceRecord /\ e.items = d.items /\ e.max = d.max /\ e.values = v
  BY <1>3, <1>5 DEF DeviceRecord
<1> HIDE DEF e
<1>7. Orderly(e)
  BY <1>1, <1>4, <1>6 DEF Orderly
<1> QED  BY <1>2, <1>7, EditSound

\* The items in their order, each with its first value.
LEMMA PrimeSound ==
  ASSUME IInv, Prime
  PROVE  IInv'
<1> DEFINE d == device
           m == [n \in Name |-> Maximum(n)]
           v == [n \in Name |-> IF n \in Lists THEN d.values[n] ELSE <<Default[n]>>]
           e == [d EXCEPT !.items = ItemSeq, !.max = m, !.values = v]
<1>1. Orderly(d) /\ d.items = << >>
  BY DEF IInv, Prime
<1>2. Edit(e)
  BY DEF Prime
<1> HIDE DEF d
<1>3. d \in DeviceRecord
  BY <1>1 DEF Orderly
<1>4. m \in [Name -> Nat] /\ \A n \in Name : m[n] = Maximum(n)
  BY RoomForAll
<1>5. \A n \in Name : v[n] \in Seq(Said(n)) /\ Len(v[n]) <= Maximum(n)
  <2> SUFFICES ASSUME NEW n \in Name
               PROVE  v[n] \in Seq(Said(n)) /\ Len(v[n]) <= Maximum(n)
    OBVIOUS
  <2>1. Maximum(n) \in Nat \ {0}
    BY RoomForAll
  <2>2. CASE n \in Lists
    <3>1. /\ d.values[n] \in Seq(Said(n)) /\ Len(d.values[n]) <= d.max[n]
          /\ d.max[n] = Maximum(n)
      BY <1>1, <2>2 DEF Orderly
    <3> QED  BY <2>2, <3>1
  <2>3. CASE n \notin Lists
    <3>1. Default[n] \in Said(n)
      BY <2>3, ConfigurationAssumption, RoomForAll DEF Said, Setting
    <3> DEFINE w == Default[n]
    <3>2. w \in Said(n) /\ v[n] = <<w>>
      BY <2>3, <3>1
    <3> HIDE DEF w, v
    <3>3. <<w>> \in Seq(Said(n)) /\ Len(<<w>>) = 1
      BY <3>2
    <3>4. 1 <= Maximum(n)
      BY <2>1
    <3> QED  BY ONLY <3>2, <3>3, <3>4
  <2> QED  BY <2>2, <2>3
<1>6. v \in [Name -> Seq(Setting)]
  <2>1. v = [n \in Name |-> v[n]]
    OBVIOUS
  <2> DEFINE T == Seq(Setting)
  <2> HIDE DEF v, T
  <2>2. \A n \in Name : v[n] \in T
    BY <1>5, SaidIsSetting DEF T
  <2>3. v \in [Name -> T]
    BY ONLY <2>1, <2>2
  <2> QED  BY <2>3 DEF T
<1>7. ItemSeq \in Seq(ToSet(ItemSeq)) /\ IsInjective(ItemSeq)
  <2> DEFINE s == ItemSeq
             S == ToSet(ItemSeq)
             U == STRING \ Taken
  <2>1. s \in Seq(U) /\ IsInjective(s)
    BY ConfigurationAssumption
  <2> HIDE DEF s, U
  <2>2. Len(s) \in Nat /\ DOMAIN s = 1 .. Len(s)
    BY <2>1, LenProperties
  <2>3. \A j \in 1 .. Len(s) : s[j] \in S
    BY <2>2 DEF ToSet, s
  <2>4. s \in [1 .. Len(s) -> S]
    <3>1. s = [j \in 1 .. Len(s) |-> s[j]]
      BY <2>1, <2>2
    <3> HIDE DEF S
    <3> QED  BY ONLY <2>3, <3>1
  <2> HIDE DEF S
  <2>5. s \in Seq(S)
    BY <2>2, <2>4, FunctionIsSeq
  <2> QED  BY <2>1, <2>5 DEF s, S
<1> HIDE DEF v, m
<1>8. e \in DeviceRecord /\ e.items = ItemSeq /\ e.max = m /\ e.values = v
  BY <1>3, <1>4, <1>6, <1>7 DEF DeviceRecord
<1> HIDE DEF e
<1>9. \A n \in Name : n \in Lists \cup ToSet(ItemSeq)
  BY RoomForAll
<1>10. \A n \in Name :
         /\ e.values[n] \in Seq(Said(n)) /\ Len(e.values[n]) <= e.max[n]
         /\ e.max[n] = IF n \in Lists \cup ToSet(e.items) THEN Maximum(n) ELSE 0
  BY <1>4, <1>5, <1>8, <1>9
<1>11. Orderly(e)
  BY <1>7, <1>8, <1>10 DEF Orderly
<1> QED  BY <1>2, <1>11, EditSound

\* An item more, without values.
LEMMA ItemAddSound ==
  ASSUME IInv, NEW n \in Loose, ItemAdd(n)
  PROVE  IInv'
<1> DEFINE d == device
           S == ToSet(ItemSeq)
           s == d.items
           t == Append(s, n)
           m == [d.max EXCEPT ![n] = ItemMax[n]]
           e == [d EXCEPT !.items = t, !.max = m]
<1>1. Orderly(d) /\ n \in S /\ n \notin ToSet(s)
  BY ConfigurationAssumption DEF IInv, ItemAdd
<1>2. Edit(e)
  <2>1. [device EXCEPT !.items = Append(@, n), !.max[n] = ItemMax[n]] = e
    OBVIOUS
  <2> QED  BY <2>1 DEF ItemAdd
<1> HIDE DEF d
<1>3. d \in DeviceRecord /\ d.max \in [Name -> Nat]
  BY <1>1 DEF Orderly, DeviceRecord
<1>4. /\ s \in Seq(S) /\ Len(s) \in Nat /\ DOMAIN s = 1 .. Len(s)
      /\ \A i, j \in 1 .. Len(s) : s[i] = s[j] => i = j
      /\ \A i \in 1 .. Len(s) : s[i] \in ToSet(s)
  BY <1>1, ItemsByIndex
<1>5. n \in Name /\ n \notin Lists /\ ItemMax[n] = Maximum(n) /\ Maximum(n) \in Nat
  BY <1>1, RoomForAll DEF Maximum
<1>6. d.values[n] = << >>
  BY <1>1, <1>5, ValuesOf
<1> HIDE DEF s, S
<1>7. /\ t \in Seq(S) /\ Len(t) = Len(s) + 1 /\ t[Len(s) + 1] = n
      /\ \A i \in 1 .. Len(s) : t[i] = s[i]
  BY <1>1, <1>4, AppendProperties
<1> HIDE DEF t
<1>8. DOMAIN t = 1 .. Len(s) + 1
  BY <1>7, LenProperties
<1>9. \A i \in 1 .. Len(s) + 1 : i \in 1 .. Len(s) \/ i = Len(s) + 1
  BY <1>4
<1>10. IsInjective(t)
  <2>1. \A i, j \in 1 .. Len(s) + 1 : t[i] = t[j] => i = j
    BY <1>1, <1>4, <1>7, <1>9
  <2> QED  BY <1>8, <2>1 DEF IsInjective
<1>11. ToSet(t) = ToSet(s) \cup {n}
  <2>1. \A i \in 1 .. Len(s) : i \in 1 .. Len(s) + 1
    BY <1>4
  <2>2. Len(s) + 1 \in 1 .. Len(s) + 1
    BY <1>4
  <2>3. ToSet(t) = {t[i] : i \in 1 .. Len(s) + 1} /\ ToSet(s) = {s[i] : i \in 1 .. Len(s)}
    BY <1>4, <1>8 DEF ToSet
  <2> QED  BY <1>7, <1>9, <2>1, <2>2, <2>3
<1>12. m \in [Name -> Nat] /\ \A k \in Name : m[k] = IF k = n THEN Maximum(n) ELSE d.max[k]
  BY <1>3, <1>5
<1> HIDE DEF m
<1>13. e \in DeviceRecord /\ e.items = t /\ e.max = m /\ e.values = d.values
  BY <1>3, <1>7, <1>12 DEF DeviceRecord, S
<1> HIDE DEF e
<1>14. ASSUME NEW k \in Name
       PROVE  /\ e.values[k] \in Seq(Said(k)) /\ Len(e.values[k]) <= e.max[k]
              /\ e.max[k] = IF k \in Lists \cup ToSet(e.items) THEN Maximum(k) ELSE 0
  <2>1. /\ d.values[k] \in Seq(Said(k)) /\ Len(d.values[k]) <= d.max[k]
        /\ d.max[k] = IF k \in Lists \cup ToSet(s) THEN Maximum(k) ELSE 0
    BY <1>1 DEF Orderly, s
  <2>2. CASE k = n
    <3>1. Len(<< >>) = 0 /\ d.values[k] = << >> /\ m[k] = Maximum(k) /\ Maximum(k) \in Nat
      BY <1>5, <1>6, <1>12, <2>2, EmptySeq
    <3>2. Len(d.values[k]) <= m[k]
      BY <3>1
    <3> QED  BY <1>11, <1>13, <2>1, <2>2, <3>1, <3>2
  <2>3. CASE k # n
    BY <1>11, <1>12, <1>13, <2>1, <2>3
  <2> QED  BY <2>2, <2>3
<1>15. Orderly(e)
  BY <1>10, <1>13, <1>14 DEF Orderly
<1> QED  BY <1>2, <1>15, EditSound

\* An item less, with its values.
LEMMA ItemRemoveSound ==
  ASSUME IInv, NEW n \in Loose, ItemRemove(n)
  PROVE  IInv'
<1> DEFINE d == device
           S == ToSet(ItemSeq)
           s == d.items
<1>1. PICK p \in DOMAIN s :
        /\ s[p] = n
        /\ Edit([device EXCEPT !.items = RemoveAt(@, p), !.max[n] = 0, !.values[n] = << >>])
  BY DEF ItemRemove
<1> DEFINE t == RemoveAt(s, p)
           m == [d.max EXCEPT ![n] = 0]
           v == [d.values EXCEPT ![n] = << >>]
           e == [d EXCEPT !.items = t, !.max = m, !.values = v]
<1>2. Edit(e)
  <2>1. [device EXCEPT !.items = RemoveAt(@, p), !.max[n] = 0, !.values[n] = << >>] = e
    OBVIOUS
  <2> QED  BY <1>1, <2>1
<1>3. Orderly(d) /\ n \in S
  BY ConfigurationAssumption DEF IInv
<1> HIDE DEF d
<1>4. d \in DeviceRecord /\ d.max \in [Name -> Nat] /\ d.values \in [Name -> Seq(Setting)]
  BY <1>3 DEF Orderly, DeviceRecord
<1>5. /\ s \in Seq(S) /\ Len(s) \in Nat /\ DOMAIN s = 1 .. Len(s)
      /\ \A i, j \in 1 .. Len(s) : s[i] = s[j] => i = j
  BY <1>3, ItemsByIndex
<1>6. n \in Name /\ n \notin Lists
  BY <1>3, RoomForAll
<1> HIDE DEF s, S
<1>7. p \in 1 .. Len(s) /\ s[p] = n
  BY <1>1, <1>5
<1>8. /\ t \in Seq(S) /\ Len(t) = Len(s) - 1
      /\ \A j \in 1 .. Len(s) - 1 : t[j] = IF j < p THEN s[j] ELSE s[j + 1]
  BY <1>5, <1>7, RemoveAtShifts
<1> HIDE DEF t
<1> DEFINE from(j) == IF j < p THEN j ELSE j + 1
<1>9. \A j \in 1 .. Len(s) - 1 : from(j) \in 1 .. Len(s) /\ from(j) # p /\ t[j] = s[from(j)]
  BY <1>5, <1>7, <1>8
<1>10. DOMAIN t = 1 .. Len(s) - 1
  BY <1>8, LenProperties
<1>11. IsInjective(t)
  <2>1. \A i, j \in 1 .. Len(s) - 1 : t[i] = t[j] => i = j
    <3> SUFFICES ASSUME NEW i \in 1 .. Len(s) - 1, NEW j \in 1 .. Len(s) - 1, t[i] = t[j]
                 PROVE  i = j
      OBVIOUS
    <3>1. from(i) = from(j)
      <4> HIDE DEF from
      <4> QED  BY <1>5, <1>9
    <3> QED  BY <1>5, <1>7, <3>1
  <2> QED  BY <1>10, <2>1 DEF IsInjective
<1>12. ToSet(t) = ToSet(s) \ {n}
  <2>1. ToSet(t) = {t[j] : j \in 1 .. Len(s) - 1} /\ ToSet(s) = {s[j] : j \in 1 .. Len(s)}
    BY <1>5, <1>10 DEF ToSet
  <2>2. \A j \in 1 .. Len(s) - 1 : t[j] \in ToSet(s) /\ t[j] # n
    <3> HIDE DEF from
    <3> QED  BY <1>5, <1>7, <1>9, <2>1
  <2>3. \A i \in 1 .. Len(s) : s[i] # n => \E j \in 1 .. Len(s) - 1 : t[j] = s[i]
    <3> SUFFICES ASSUME NEW i \in 1 .. Len(s), s[i] # n
                 PROVE  \E j \in 1 .. Len(s) - 1 : t[j] = s[i]
      OBVIOUS
    <3>1. i # p
      BY <1>7
    <3>2. CASE i < p
      <4>1. i \in 1 .. Len(s) - 1 /\ from(i) = i
        BY <1>5, <1>7, <3>2
      <4> QED  BY <1>9, <4>1
    <3>3. CASE i > p
      <4>1. i - 1 \in 1 .. Len(s) - 1 /\ from(i - 1) = i
        BY <1>5, <1>7, <3>3
      <4> QED  BY <1>9, <4>1
    <3> QED  BY <1>5, <1>7, <3>1, <3>2, <3>3
  <2> QED  BY <2>1, <2>2, <2>3
<1>13. m \in [Name -> Nat] /\ \A k \in Name : m[k] = IF k = n THEN 0 ELSE d.max[k]
  BY <1>4, <1>6
<1>14. v \in [Name -> Seq(Setting)] /\ \A k \in Name : v[k] = IF k = n THEN << >> ELSE d.values[k]
  <2> DEFINE T == Seq(Setting)
  <2>1. << >> \in T /\ d.values \in [Name -> T]
    BY <1>4, EmptySeq
  <2> HIDE DEF T
  <2>2. v \in [Name -> T]
    BY <1>6, <2>1
  <2>3. \A k \in Name : v[k] = IF k = n THEN << >> ELSE d.values[k]
    BY <1>6, <2>1
  <2> QED  BY <2>2, <2>3 DEF T
<1> HIDE DEF m, v
<1>15. e \in DeviceRecord /\ e.items = t /\ e.max = m /\ e.values = v
  BY <1>4, <1>8, <1>13, <1>14 DEF DeviceRecord, S
<1> HIDE DEF e
<1>16. ASSUME NEW k \in Name
       PROVE  /\ e.values[k] \in Seq(Said(k)) /\ Len(e.values[k]) <= e.max[k]
              /\ e.max[k] = IF k \in Lists \cup ToSet(e.items) THEN Maximum(k) ELSE 0
  <2>1. /\ d.values[k] \in Seq(Said(k)) /\ Len(d.values[k]) <= d.max[k]
        /\ d.max[k] = IF k \in Lists \cup ToSet(s) THEN Maximum(k) ELSE 0
    BY <1>3 DEF Orderly, s
  <2>2. CASE k = n
    <3>1. /\ << >> \in Seq(Said(k)) /\ Len(<< >>) = 0 /\ v[k] = << >> /\ m[k] = 0
      BY <1>13, <1>14, <2>2, EmptySeq
    <3>2. Len(<< >>) <= 0
      BY ONLY <3>1
    <3>3. k \notin Lists \cup ToSet(t)
      BY <1>6, <1>12, <2>2
    <3> QED  BY ONLY <1>15, <3>1, <3>2, <3>3
  <2>3. CASE k # n
    BY <1>12, <1>13, <1>14, <1>15, <2>1, <2>3
  <2> QED  BY <2>2, <2>3
<1>17. Orderly(e)
  BY <1>11, <1>15, <1>16 DEF Orderly
<1> QED  BY <1>2, <1>17, EditSound

-----------------------------------------------------------------------------
LEMMA NextSound ==
  ASSUME IInv, [Next]_vars
  PROVE  IInv'
<1>1. CASE Start
  BY <1>1, StartSound
<1>2. CASE Prime
  BY <1>2, PrimeSound
<1>3. CASE WriteLines
  BY <1>3, WriteSound
<1>4. CASE Crash
  BY <1>4, CrashSound
<1>5. CASE \E n \in Loose : ItemAdd(n) \/ ItemRemove(n) \/ ValueClearAll(n)
  BY <1>5, ItemAddSound, ItemRemoveSound, ValueClearAllSound
<1>6. CASE \E n \in Loose, v \in Value : ValueSet(n, v)
  <2>1. PICK n \in Loose, v \in Value : ValueSetAt(n, 1, v)
    BY <1>6 DEF ValueSet
  <2>2. n \in ToSet(ItemSeq)
    BY ConfigurationAssumption
  <2> QED  BY <2>1, <2>2, ValueSetAtSound
<1>7. CASE \E n \in ToSet(ItemSeq) \ Loose, v \in Value : ValueSetAt(n, 2, v)
  <2>1. PICK n \in ToSet(ItemSeq), v \in Value : ValueSetAt(n, 2, v)
    BY <1>7
  <2> QED  BY <2>1, ValueSetAtSound
<1>8. CASE ItemClearAll
  BY <1>8, ItemClearAllSound
<1>9. CASE \E i \in Interval : SetInterval(i)
  BY <1>9, IntervalSound
<1>10. CASE \E body \in Body : Response(body)
  BY <1>10, ResponseSound
<1>11. CASE UNCHANGED vars
  BY <1>11 DEF vars, IInv, FileSound
<1> QED  BY <1>1, <1>2, <1>3, <1>4, <1>5, <1>6, <1>7, <1>8, <1>9, <1>10, <1>11 DEF Next

LEMMA SpecIInv == Spec => []IInv
<1>1. Init => IInv
  BY InitSound
<1>2. IInv /\ [Next]_vars => IInv'
  BY NextSound
<1> QED  BY <1>1, <1>2, PTL DEF Spec

\* Type correctness of the device, of the save and of the file, for any items, maxima
\* and responses, reserved names or not: no call, response, crash or half-written file
\* leaves more values than there is room for, or an item twice.
THEOREM ConfigurationTypeCorrect == Spec => []ConfigurationTypeOK
<1>1. IInv => ConfigurationTypeOK
  <2> SUFFICES ASSUME IInv
               PROVE  ConfigurationTypeOK
    OBVIOUS
  <2>1. /\ Orderly(device) /\ Orderly(last) /\ running \in BOOLEAN /\ saved \in BOOLEAN
        /\ pending # << >> => running
        /\ saved => pending = << >>
    BY DEF IInv, FileSound
  <2>2. /\ device.configured \in BOOLEAN
        /\ device.instance \in Instance /\ device.interval \in Nat
        /\ IsInjective(device.items)
    BY <2>1 DEF Orderly, DeviceRecord
  <2>3. ToSet(device.items) \subseteq ToSet(ItemSeq)
    BY <2>1, ItemsByIndex
  <2>4. ASSUME NEW d \in {device, last}, NEW n \in Name
        PROVE  /\ Len(d.values[n]) <= d.max[n]
               /\ d.max[n] = IF n \in Lists \cup ToSet(d.items) THEN Maximum(n) ELSE 0
               /\ ToSet(d.values[n]) \subseteq Value \cup (IF n \in Lists THEN {} ELSE {Blank})
               /\ d.max[n] = 0 => d.values[n] = << >>
    <3>1. Orderly(d)
      BY <2>1
    <3> DEFINE s == d.values[n]
               V == Said(n)
    <3>2. /\ s \in Seq(V) /\ DOMAIN s = 1 .. Len(s) /\ Len(s) \in Nat
          /\ \A i \in 1 .. Len(s) : s[i] \in V
      BY <3>1, ValuesOf
    <3>3. /\ Len(s) <= d.max[n]
          /\ d.max[n] = IF n \in Lists \cup ToSet(d.items) THEN Maximum(n) ELSE 0
      BY <3>1 DEF Orderly
    <3>4. V = Value \cup (IF n \in Lists THEN {} ELSE {Blank})
      BY DEF Said, Setting
    <3> HIDE DEF s, V
    <3>5. ToSet(s) \subseteq V
      BY <3>2 DEF ToSet
    <3>6. d.max[n] = 0 => s = << >>
      <4>1. d.max[n] = 0 => Len(s) = 0
        BY <3>2, <3>3
      <4> QED  BY <3>2, <4>1, EmptySeq
    <3> QED  BY <3>3, <3>4, <3>5, <3>6 DEF s
  <2> QED  BY <2>1, <2>2, <2>3, <2>4 DEF ConfigurationTypeOK
<1> QED  BY <1>1, SpecIInv, PTL

\* A save that came to its end is restored as it was (gxPLDeviceConfigSave and
\* gxPLDeviceConfigNew), whatever has happened since, if no item has a name that begins
\* with "group" or "filter"; such an item is in the file, and prvConfigNew passes it over.
THEOREM SavedIsRestored ==
  ASSUME Reserved = {}
  PROVE  Spec => []Restorable
<1>1. IInv => Restorable
  <2> SUFFICES ASSUME IInv, saved, NEW i \in Generated
               PROVE  Restored(file, i) =
                        [last EXCEPT !.configured = TRUE, !.interval = InMinutes(@, DefaultInterval)]
    BY DEF Restorable
  <2>1. file = FileOf(last) /\ Orderly(last) /\ i \in Instance
    BY ConfigurationAssumption DEF IInv, FileSound
  <2> QED  BY <2>1, RestoredWhole
<1> QED  BY <1>1, SpecIInv, PTL

\* What can be restored of a save that was interrupted is its beginning, and never holds
\* anything of the file it has overwritten (gxPLDeviceConfigSave truncates it first).
\* Without an item in Reserved: behind one that is passed over come others.
THEOREM InterruptedIsNotMixed ==
  ASSUME Reserved = {}
  PROVE  Spec => []NothingMixed
<1>1. IInv => NothingMixed
  <2> SUFFICES ASSUME IInv, IsLoadable(file), NEW i \in Generated
               PROVE  LET r == Restored(file, i) IN
                        /\ r.instance \in {i, last.instance}
                        /\ r.interval \in {DefaultInterval,
                                           InMinutes(last.interval, DefaultInterval)}
                        /\ IsPrefix(r.items, last.items)
                        /\ \A n \in Lists \cup ToSet(r.items) :
                             r.max[n] = last.max[n] /\ IsPrefix(r.values[n], last.values[n])
    BY DEF NothingMixed
  <2>1. /\ file \in Seq(FileLine) /\ StartOf(file, FileOf(last)) /\ Orderly(last)
        /\ i \in Instance
    BY ConfigurationAssumption DEF IInv, FileSound
  <2> QED  BY <2>1, NotMixed
<1> QED  BY <1>1, SpecIInv, PTL

\* A manager that sends back what config.current said (prvDeviceConfigSendCurrent)
\* changes nothing but the seconds of the interval, for any items whose names are without
\* capitals, any values, groups, filters and edits.
THEOREM EchoIsHarmless == Spec => []EchoChangesNothing
<1>1. IInv => EchoChangesNothing
  BY EchoOfOne DEF IInv, EchoChangesNothing
<1> QED  BY <1>1, SpecIInv, PTL

\* A manager that keeps to config.list (prvSendConfigList) is obeyed to the last value.
THEOREM ListIsKept == Spec => []ListIsHonest
<1>1. IInv => ListIsHonest
  <2> SUFFICES ASSUME IInv, NEW body \in Body, KeepsTo(body, ConfigList(device)),
                      NEW n \in {p.name : p \in ToSet(body)} \cap Name
               PROVE  ConfigSet(Cleared(device), body).values[n] = Given(body, n)
    BY DEF ListIsHonest
  <2>1. Orderly(device)
    BY DEF IInv
  <2>2. body \in Seq(FileLine)
    <3>1. Pair \subseteq FileLine
      BY DEF FileLine
    <3>2. Seq(Pair) \subseteq Seq(FileLine)
      BY <3>1, SeqMonotonic
    <3> QED  BY <3>2, ConfigurationAssumption
  <2> QED  BY <2>1, <2>2, HonestToOne
<1> QED  BY <1>1, SpecIInv, PTL
=============================================================================
