--------------------------- MODULE SequenceLemmas ---------------------------
(***************************************************************************)
(* Facts about sequences of any kind that the proofs about the vectors and *)
(* the queues of the programs rest on.                                     *)
(***************************************************************************)
EXTENDS Naturals, Sequences, SequencesExt, SequenceTheorems, FiniteSetTheorems,
        WellFoundedInduction, TLAPS

\* Removing an element shifts the ones behind it, and nothing else.
LEMMA RemoveAtShifts ==
  ASSUME NEW S, NEW s \in Seq(S), NEW i \in 1 .. Len(s)
  PROVE  /\ RemoveAt(s, i) \in Seq(S)
         /\ Len(RemoveAt(s, i)) = Len(s) - 1
         /\ \A j \in 1 .. Len(s) - 1 :
              RemoveAt(s, i)[j] = IF j < i THEN s[j] ELSE s[j + 1]
<1> DEFINE p == SubSeq(s, 1, i - 1)
           q == SubSeq(s, i + 1, Len(s))
<1>1. Len(s) \in Nat /\ (\A j \in 1 .. Len(s) : s[j] \in S)
  BY LenProperties, ElementOfSeq
<1>2. /\ p \in Seq(S)
      /\ Len(p) = i - 1
      /\ \A j \in 1 .. i - 1 : p[j] = s[j]
  <2>1. \A j \in 1 .. i - 1 : s[j] \in S
    BY <1>1
  <2> QED  BY <1>1, <2>1, SubSeqProperties
<1>3. /\ q \in Seq(S)
      /\ Len(q) = Len(s) - i
      /\ \A j \in 1 .. Len(s) - i : q[j] = s[i + j]
  <2>1. \A j \in i + 1 .. Len(s) : s[j] \in S
    BY <1>1
  <2> QED  BY <1>1, <2>1, SubSeqProperties
<1> HIDE DEF p, q
<1>4. p \o q \in Seq(S) /\ Len(p \o q) = Len(p) + Len(q)
  BY <1>2, <1>3, ConcatProperties
<1>5. Len(p \o q) = Len(s) - 1
  BY <1>1, <1>2, <1>3, <1>4
<1>6. \A j \in 1 .. Len(s) - 1 : (p \o q)[j] = IF j < i THEN s[j] ELSE s[j + 1]
  <2> SUFFICES ASSUME NEW j \in 1 .. Len(s) - 1
               PROVE  (p \o q)[j] = IF j < i THEN s[j] ELSE s[j + 1]
    OBVIOUS
  <2>1. (p \o q)[j] = IF j <= Len(p) THEN p[j] ELSE q[j - Len(p)]
    <3>1. j \in 1 .. Len(p) + Len(q)
      BY <1>1, <1>2, <1>3
    <3> QED  BY <1>2, <1>3, <3>1, ConcatProperties
  <2>2. CASE j < i
    BY <1>1, <1>2, <2>1, <2>2
  <2>3. CASE ~(j < i)
    <3>1. j - (i - 1) \in 1 .. Len(s) - i /\ ~(j <= Len(p))
      BY <1>1, <1>2, <2>3
    <3>2. q[j - (i - 1)] = s[i + (j - (i - 1))]
      BY <1>3, <3>1
    <3>3. i + (j - (i - 1)) = j + 1
      BY <1>1
    <3> QED  BY <1>2, <2>1, <2>3, <3>1, <3>2, <3>3
  <2> QED  BY <2>2, <2>3
<1> QED  BY <1>4, <1>5, <1>6 DEF RemoveAt, p, q

\* The first elements of a sequence are a sequence of its kind.
LEMMA PrefixType ==
  ASSUME NEW S, NEW s \in Seq(S), NEW n \in Nat, n <= Len(s)
  PROVE  SubSeq(s, 1, n) \in Seq(S)
<1>1. \A i \in 1 .. n : i \in 1 .. Len(s)
  OBVIOUS
<1>2. \A i \in 1 .. n : s[i] \in S
  BY <1>1, ElementOfSeq
<1> QED  BY <1>2, SubSeqProperties

\* Two sequences put together and cut to a length are a sequence of their kind.
LEMMA CutType ==
  ASSUME NEW S, NEW q \in Seq(S), NEW out \in Seq(S), NEW n \in Nat
  PROVE  (IF Len(q) + Len(out) <= n THEN q \o out ELSE SubSeq(q \o out, 1, n)) \in Seq(S)
<1>1. q \o out \in Seq(S) /\ Len(q \o out) = Len(q) + Len(out)
  BY ConcatProperties
<1>2. Len(q) \in Nat /\ Len(out) \in Nat
  BY LenProperties
<1>3. CASE ~(Len(q) + Len(out) <= n)
  <2>1. n <= Len(q \o out)
    BY <1>1, <1>2, <1>3
  <2> QED  BY <1>1, <1>3, <2>1, PrefixType
<1> QED  BY <1>1, <1>3
\* A set of numbers that is not empty has a least one.
LEMMA LeastElement ==
  ASSUME NEW I \in SUBSET Nat, I # {}
  PROVE  \E m \in I : \A i \in I : m <= i
<1> DEFINE below == {{i \in I : i <= m} : m \in I}
<1>1. \A m \in I : {i \in I : i <= m} \in FiniteSubsetsOf(I)
  <2> SUFFICES ASSUME NEW m \in I
               PROVE  {i \in I : i <= m} \in FiniteSubsetsOf(I)
    OBVIOUS
  <2>1. /\ {i \in I : i <= m} \in SUBSET Nat
        /\ \A s \in {i \in I : i <= m} : s <= m
    OBVIOUS
  <2>2. IsFiniteSet({i \in I : i <= m})
    BY <2>1, FS_BoundedSetOfNaturals
  <2> QED  BY <2>2 DEF FiniteSubsetsOf
<1>2. below \subseteq FiniteSubsetsOf(I) /\ below # {}
  BY <1>1
<1>3. IsWellFoundedOn(StrictSubsetOrdering(I), FiniteSubsetsOf(I))
  BY FS_StrictSubsetOrderingWellFounded
<1>4. PICK x \in below : \A y \in below : ~(<<y, x>> \in StrictSubsetOrdering(I))
  <2> HIDE DEF below
  <2> QED  BY <1>2, <1>3, WFMin
<1>5. PICK m \in I : x = {i \in I : i <= m}
  OBVIOUS
<1>6. ASSUME NEW i \in I, ~(m <= i)
      PROVE  FALSE
  <2>1. {k \in I : k <= i} \in below
    OBVIOUS
  <2>2. {k \in I : k <= i} \subseteq x
    <3>1. \A k \in I : k <= i => k <= m
      BY <1>6
    <3> QED  BY <1>5, <3>1
  <2>3. m \in x /\ m \notin {k \in I : k <= i}
    BY <1>5, <1>6
  <2>4. <<{k \in I : k <= i}, x>> \in StrictSubsetOrdering(I)
    BY <1>5, <2>2, <2>3 DEF StrictSubsetOrdering
  <2> QED  BY <1>4, <2>1, <2>4
<1> QED  BY <1>6

\* Min gives it.
LEMMA MinIsLeast ==
  ASSUME NEW I \in SUBSET Nat, I # {}
  PROVE  Min(I) \in I /\ \A i \in I : Min(I) <= i
BY LeastElement DEF Min

\* Some element of a finite set comes first in its sequence, and none twice.
LEMMA SetToSeqListsAll ==
  ASSUME NEW S, IsFiniteSet(S)
  PROVE  SetToSeq(S) \in Seq(S) /\ IsInjective(SetToSeq(S))
<1>1. Cardinality(S) \in Nat /\ ExistsBijection(1 .. Cardinality(S), S)
  BY FS_CardinalityType
<1>2. \E f \in [1 .. Cardinality(S) -> S] : IsInjective(f)
  BY <1>1 DEF ExistsBijection, Bijection, Injection, Surjection
<1>3. SetToSeq(S) \in [1 .. Cardinality(S) -> S] /\ IsInjective(SetToSeq(S))
  BY <1>2 DEF SetToSeq
<1> QED  BY <1>1, <1>3, SeqDef

\* A function on the first numbers is a sequence.
LEMMA FunctionIsSeq ==
  ASSUME NEW S, NEW n \in Nat, NEW f \in [1 .. n -> S]
  PROVE  f \in Seq(S) /\ Len(f) = n
<1>1. f \in Seq(S)
  BY SeqDef
<1>2. DOMAIN f = 1 .. n /\ DOMAIN f = 1 .. Len(f) /\ Len(f) \in Nat
  BY <1>1, LenProperties
<1>3. Len(f) = n
  <2>1. CASE n = 0
    BY <1>2, <2>1
  <2>2. CASE n > 0
    <3>1. n \in 1 .. Len(f) /\ (Len(f) > 0 => Len(f) \in 1 .. n)
      BY <1>2, <2>2
    <3> QED  BY <1>2, <2>2, <3>1
  <2> QED  BY <2>1, <2>2
<1> QED  BY <1>1, <1>3

\* One more element at the end.
LEMMA AppendType ==
  ASSUME NEW S, NEW s \in Seq(S), NEW e \in S
  PROVE  /\ Append(s, e) \in Seq(S)
         /\ Len(Append(s, e)) = Len(s) + 1
         /\ \A j \in 1 .. Len(s) : Append(s, e)[j] = s[j]
         /\ Append(s, e)[Len(s) + 1] = e
BY AppendProperties

\* The elements of a sequence are those at its indexes.
LEMMA ElementsAreAtIndexes ==
  ASSUME NEW S, NEW s \in Seq(S)
  PROVE  /\ Len(s) \in Nat /\ DOMAIN s = 1 .. Len(s)
         /\ \A j \in 1 .. Len(s) : s[j] \in S /\ s[j] \in ToSet(s)
         /\ ToSet(s) \subseteq S
         /\ \A e \in ToSet(s) : \E j \in 1 .. Len(s) : s[j] = e
<1>1. Len(s) \in Nat /\ DOMAIN s = 1 .. Len(s) /\ \A j \in 1 .. Len(s) : s[j] \in S
  BY LenProperties, ElementOfSeq
<1> QED  BY <1>1 DEF ToSet

-----------------------------------------------------------------------------
(* Sequences of sequences, one after the other (FlattenSeq) *)

\* What FlattenSeq has gathered of ss, up to k.
Gathers(f, ss, k) == f = [i \in 1 .. k |-> IF i = 1 THEN ss[i] ELSE f[i - 1] \o ss[i]]

\* There is such a function.
LEMMA SomethingGathers ==
  ASSUME NEW ss, NEW n \in Nat
  PROVE  \E f : Gathers(f, ss, n)
<1> DEFINE Without == {k \in Nat : \A f : ~Gathers(f, ss, k)}
<1>1. SUFFICES ASSUME Without # {}
               PROVE  FALSE
  <2>1. n \notin Without
    BY <1>1
  <2> QED  BY <2>1
<1>2. PICK k \in Without : \A j \in Without : k <= j
  <2>1. Without \in SUBSET Nat
    OBVIOUS
  <2> HIDE DEF Without
  <2> QED  BY <1>1, <2>1, LeastElement
<1>3. k \in Nat /\ \A f : ~Gathers(f, ss, k)
  OBVIOUS
<1>4. CASE k = 0
  <2> DEFINE f == [i \in 1 .. 0 |-> ss[i]]
  <2>1. f = [i \in 1 .. 0 |-> IF i = 1 THEN ss[i] ELSE f[i - 1] \o ss[i]]
    OBVIOUS
  <2> HIDE DEF f
  <2> QED  BY <1>3, <1>4, <2>1 DEF Gathers
<1>5. CASE k # 0
  <2>1. k - 1 \in Nat /\ k - 1 \notin Without
    <3>1. k - 1 \in Nat /\ ~(k <= k - 1)
      BY <1>3, <1>5
    <3> HIDE DEF Without
    <3> QED  BY <1>2, <3>1
  <2>2. PICK f : Gathers(f, ss, k - 1)
    BY <2>1
  <2> DEFINE last == IF k = 1 THEN ss[k] ELSE f[k - 1] \o ss[k]
             g == [i \in 1 .. k |-> IF i = k THEN last ELSE f[i]]
  <2>3. \A i \in 1 .. k - 1 : f[i] = IF i = 1 THEN ss[i] ELSE f[i - 1] \o ss[i]
    BY <2>2 DEF Gathers
  <2> HIDE DEF last
  <2>4. g[k] = last /\ \A i \in 1 .. k - 1 : g[i] = f[i]
    BY <1>3, <1>5, <2>1
  <2>5. \A i \in 1 .. k : g[i] = IF i = 1 THEN ss[i] ELSE g[i - 1] \o ss[i]
    <3> HIDE DEF g
    <3> SUFFICES ASSUME NEW i \in 1 .. k
                 PROVE  g[i] = IF i = 1 THEN ss[i] ELSE g[i - 1] \o ss[i]
      OBVIOUS
    <3>1. i = 1 \/ g[i - 1] = f[i - 1]
      BY <1>3, <2>4
    <3>2. CASE i = k
      BY <2>4, <3>1, <3>2 DEF last
    <3>3. CASE i # k
      <4>1. i \in 1 .. k - 1
        BY <1>3, <3>3
      <4> QED  BY <2>3, <2>4, <3>1, <4>1
    <3> QED  BY <3>2, <3>3
  <2>6. g = [i \in 1 .. k |-> IF i = 1 THEN ss[i] ELSE g[i - 1] \o ss[i]]
    <3>1. g = [i \in 1 .. k |-> g[i]]
      OBVIOUS
    <3> HIDE DEF g
    <3> QED  BY <2>5, <3>1
  <2> HIDE DEF g
  <2> QED  BY <1>3, <2>6 DEF Gathers
<1> QED  BY <1>4, <1>5

\* Two of them agree on what both have gathered, of sequences that agree there.
LEMMA GatherAlike ==
  ASSUME NEW ss, NEW tt, NEW j, NEW k, NEW f, NEW g, Gathers(f, tt, j), Gathers(g, ss, k),
         j \in Nat, k \in Nat, j <= k, \A i \in 1 .. j : tt[i] = ss[i]
  PROVE  \A i \in 1 .. j : f[i] = g[i]
<1> DEFINE Apart == {i \in 1 .. j : f[i] # g[i]}
<1>1. SUFFICES ASSUME Apart # {}
               PROVE  FALSE
  OBVIOUS
<1>2. PICK m \in Apart : \A i \in Apart : m <= i
  <2>1. Apart \in SUBSET Nat
    OBVIOUS
  <2> HIDE DEF Apart
  <2> QED  BY ONLY <1>1, <2>1, LeastElement
<1>3. m \in 1 .. j /\ m \in 1 .. k /\ f[m] # g[m]
  OBVIOUS
<1>4. /\ f[m] = IF m = 1 THEN ss[m] ELSE f[m - 1] \o ss[m]
      /\ g[m] = IF m = 1 THEN ss[m] ELSE g[m - 1] \o ss[m]
  BY <1>3, ZenonT(60) DEF Gathers
<1>5. m # 1 => f[m - 1] = g[m - 1]
  <2> SUFFICES ASSUME m # 1
               PROVE  f[m - 1] = g[m - 1]
    OBVIOUS
  <2>1. m - 1 \in 1 .. j /\ ~(m <= m - 1)
    BY <1>3
  <2>2. m - 1 \notin Apart
    <3> HIDE DEF Apart
    <3> QED  BY <1>2, <2>1
  <2> QED  BY <2>1, <2>2
<1> QED  BY <1>3, <1>4, <1>5

\* One sequence after the other.
LEMMA FlattenSteps ==
  ASSUME NEW S, NEW ss \in Seq(Seq(S))
  PROVE  /\ FlattenSeq(SubSeq(ss, 1, 0)) = << >>
         /\ \A k \in 1 .. Len(ss) :
              FlattenSeq(SubSeq(ss, 1, k)) = FlattenSeq(SubSeq(ss, 1, k - 1)) \o ss[k]
<1>1. SubSeq(ss, 1, 0) = << >> /\ FlattenSeq(<< >>) = << >>
  <2>1. SubSeq(ss, 1, 0) = << >>
    BY SubSeqEmpty
  <2>2. Len(<< >>) = 0
    BY EmptySeq
  <2> QED  BY <2>1, <2>2 DEF FlattenSeq
<1>2. /\ Len(ss) \in Nat /\ DOMAIN ss = 1 .. Len(ss)
      /\ \A i \in 1 .. Len(ss) : ss[i] \in Seq(S)
  BY LenProperties, ElementOfSeq
<1>3. PICK g : Gathers(g, ss, Len(ss))
  BY <1>2, SomethingGathers
<1>4. ASSUME NEW k \in 1 .. Len(ss)
      PROVE  FlattenSeq(SubSeq(ss, 1, k)) = g[k]
  <2> DEFINE tt == SubSeq(ss, 1, k)
  <2>1. Len(tt) = k /\ \A i \in 1 .. k : tt[i] = ss[i]
    <3>1. \A i \in 1 .. k : i \in 1 .. Len(ss)
      BY <1>2
    <3>2. \A i \in 1 .. k : ss[i] \in Seq(S)
      BY <1>2, <3>1
    <3>3. k \in Int /\ 1 <= k /\ k - 1 + 1 = k /\ \A i \in 1 .. k : 1 + i - 1 = i
      BY <1>2
    <3> QED  BY <3>2, <3>3, SubSeqProperties
  <2> HIDE DEF tt
  <2> DEFINE f == CHOOSE f : f = [i \in 1 .. Len(tt) |->
                                    IF i = 1 THEN tt[i] ELSE f[i - 1] \o tt[i]]
  <2>2. f = [i \in 1 .. Len(tt) |-> IF i = 1 THEN tt[i] ELSE f[i - 1] \o tt[i]]
    <3>1. Len(tt) \in Nat
      BY <1>2, <2>1
    <3>2. \E h : Gathers(h, tt, Len(tt))
      BY <3>1, SomethingGathers
    <3> QED  BY <3>2 DEF Gathers
  <2>3. FlattenSeq(tt) = f[k]
    BY <1>2, <2>1 DEF FlattenSeq
  <2> HIDE DEF f
  <2>4. Gathers(f, tt, k)
    BY <2>1, <2>2 DEF Gathers
  <2>5. \A i \in 1 .. k : f[i] = g[i]
    <3>1. k \in Nat /\ k <= Len(ss) /\ Len(ss) \in Nat
      BY <1>2
    <3>2. \A i \in 1 .. k : tt[i] = ss[i]
      BY <2>1
    <3> DEFINE n == Len(ss)
    <3>3. Gathers(g, ss, n) /\ n \in Nat /\ k <= n
      BY <1>3, <3>1
    <3> HIDE DEF n
    <3>4. k \in Nat
      BY <3>1
    <3>5. k <= n /\ Gathers(g, ss, n) /\ n \in Nat
      BY ONLY <3>3
    <3> QED  BY ONLY <2>4, <3>2, <3>4, <3>5, GatherAlike, SMTT(30)
  <2> QED  BY <1>2, <2>3, <2>5 DEF tt
<1>5. ASSUME NEW k \in 1 .. Len(ss)
      PROVE  FlattenSeq(SubSeq(ss, 1, k)) = FlattenSeq(SubSeq(ss, 1, k - 1)) \o ss[k]
  <2>1. g[k] = IF k = 1 THEN ss[k] ELSE g[k - 1] \o ss[k]
    BY <1>3 DEF Gathers
  <2>2. CASE k = 1
    <3>1. << >> \o ss[k] = ss[k]
      BY <1>2, ConcatEmptySeq
    <3>2. FlattenSeq(SubSeq(ss, 1, k - 1)) = << >>
      <4>1. k - 1 = 0
        BY <2>2
      <4> QED  BY <1>1, <4>1
    <3>3. FlattenSeq(SubSeq(ss, 1, k)) = ss[k]
      BY <1>4, <2>1, <2>2
    <3> QED  BY <3>1, <3>2, <3>3
  <2>3. CASE k # 1
    <3>1. k - 1 \in 1 .. Len(ss)
      BY <1>2, <2>3
    <3> QED  BY <1>4, <2>1, <2>3, <3>1
  <2> QED  BY <2>2, <2>3
<1> QED  BY <1>1, <1>5

\* Induction over the first numbers, for a set of them.
LEMMA Climb ==
  ASSUME NEW n, NEW K, n \in Nat, 0 \in K, \A k \in 1 .. n : k - 1 \in K => k \in K
  PROVE  \A k \in 0 .. n : k \in K
<1> DEFINE Missing == {k \in 0 .. n : k \notin K}
<1>1. SUFFICES ASSUME Missing # {}
               PROVE  FALSE
  OBVIOUS
<1>2. PICK m \in Missing : \A i \in Missing : m <= i
  <2>1. Missing \in SUBSET Nat
    OBVIOUS
  <2> HIDE DEF Missing
  <2> QED  BY <1>1, <2>1, LeastElement
<1>3. m \in 1 .. n /\ m \notin K /\ m - 1 \in 0 .. n /\ ~(m <= m - 1)
  OBVIOUS
<1>4. m - 1 \in K
  BY <1>2, <1>3
<1> QED  BY <1>3, <1>4

\* What has been gathered of ss up to k.
Gathered(ss, k) == FlattenSeq(SubSeq(ss, 1, k))

LEMMA FlattenType ==
  ASSUME NEW S, NEW ss \in Seq(Seq(S))
  PROVE  /\ FlattenSeq(ss) = Gathered(ss, Len(ss)) /\ FlattenSeq(ss) \in Seq(S)
         /\ Gathered(ss, 0) = << >>
         /\ \A k \in 0 .. Len(ss) : Gathered(ss, k) \in Seq(S)
         /\ \A k \in 1 .. Len(ss) : Gathered(ss, k) = Gathered(ss, k - 1) \o ss[k]
<1> DEFINE K == {k \in 0 .. Len(ss) : Gathered(ss, k) \in Seq(S)}
<1>1. Len(ss) \in Nat /\ \A k \in 1 .. Len(ss) : ss[k] \in Seq(S)
  BY LenProperties, ElementOfSeq
<1>2. /\ Gathered(ss, 0) = << >>
      /\ \A k \in 1 .. Len(ss) : Gathered(ss, k) = Gathered(ss, k - 1) \o ss[k]
  BY FlattenSteps DEF Gathered
<1>3. 0 \in K
  <2>1. << >> \in Seq(S) /\ 0 \in 0 .. Len(ss)
    BY <1>1, EmptySeq
  <2> QED  BY <1>2, <2>1
<1>4. ASSUME NEW k \in 1 .. Len(ss), k - 1 \in K
      PROVE  k \in K
  <2>1. Gathered(ss, k - 1) \in Seq(S) /\ ss[k] \in Seq(S) /\ k \in 0 .. Len(ss)
    BY <1>1, <1>4
  <2>2. Gathered(ss, k - 1) \o ss[k] \in Seq(S)
    BY <2>1, ConcatProperties
  <2> QED  BY <1>2, <2>1, <2>2
<1> HIDE DEF K
<1>5. \A k \in 0 .. Len(ss) : k \in K
  BY <1>1, <1>3, <1>4, Climb
<1> USE DEF K
<1>6. \A k \in 0 .. Len(ss) : Gathered(ss, k) \in Seq(S)
  BY <1>5
<1>7. FlattenSeq(ss) = Gathered(ss, Len(ss))
  BY SubSeqFull DEF Gathered
<1>8. Len(ss) \in 0 .. Len(ss)
  BY <1>1
<1> QED  BY <1>2, <1>6, <1>7, <1>8

\* Two that grow by the same parts: what one begins with stays in front.
GrowAlike(f, g, h, n, S) ==
  \A k \in 1 .. n : /\ f[k - 1] \in Seq(S) /\ h[k] \in Seq(S)
                   /\ f[k] = f[k - 1] \o h[k] /\ g[k] = g[k - 1] \o h[k]

LEMMA GrowTogether ==
  ASSUME NEW S, NEW n, NEW x, NEW f, NEW g, NEW h,
         n \in Nat, x \in Seq(S), g[0] = x \o f[0], GrowAlike(f, g, h, n, S)
  PROVE  \A k \in 0 .. n : g[k] = x \o f[k]
<1> DEFINE K == {k \in 0 .. n : g[k] = x \o f[k]}
<1>1. 0 \in K
  OBVIOUS
<1> USE DEF GrowAlike
<1>2. ASSUME NEW k \in 1 .. n, k - 1 \in K
      PROVE  k \in K
  <2> DEFINE b == f[k - 1]
             c == h[k]
  <2>1. g[k - 1] = x \o b /\ k \in 0 .. n
    BY <1>2
  <2>2. f[k] = b \o c /\ g[k] = g[k - 1] \o c
    OBVIOUS
  <2>3. x \in Seq(S) /\ b \in Seq(S) /\ c \in Seq(S)
    OBVIOUS
  <2> HIDE DEF b, c, K
  <2>4. (x \o b) \o c = x \o (b \o c)
    BY ONLY <2>3, ConcatAssociative
  <2>5. g[k] = x \o f[k]
    BY ONLY <2>1, <2>2, <2>4
  <2> QED  BY <2>1, <2>5 DEF K
<1> HIDE DEF K
<1>3. \A k \in 0 .. n : k \in K
  BY <1>1, <1>2, Climb
<1> QED  BY <1>3 DEF K

\* What comes first comes first.
LEMMA FlattenConcat ==
  ASSUME NEW S, NEW s, NEW t, s \in Seq(Seq(S)), t \in Seq(Seq(S))
  PROVE  FlattenSeq(s \o t) = FlattenSeq(s) \o FlattenSeq(t)
<1> DEFINE n == Len(s)
           st == s \o t
<1>1. /\ n \in Nat /\ Len(t) \in Nat /\ \A k \in 1 .. Len(t) : t[k] \in Seq(S)
      /\ st \in Seq(Seq(S)) /\ Len(st) = n + Len(t)
      /\ \A i \in 1 .. n + Len(t) : st[i] = IF i <= n THEN s[i] ELSE t[i - n]
  BY LenProperties, ElementOfSeq, ConcatProperties
<1>2. /\ FlattenSeq(s) \in Seq(S) /\ FlattenSeq(t) = Gathered(t, Len(t))
      /\ Gathered(t, 0) = << >>
      /\ \A k \in 0 .. Len(t) : Gathered(t, k) \in Seq(S)
      /\ \A k \in 1 .. Len(t) : Gathered(t, k) = Gathered(t, k - 1) \o t[k]
  BY FlattenType
<1>3. /\ FlattenSeq(st) = Gathered(st, Len(st))
      /\ \A k \in 1 .. Len(st) : Gathered(st, k) = Gathered(st, k - 1) \o st[k]
  BY <1>1, FlattenType
<1>4. Gathered(st, n) = FlattenSeq(s) \o Gathered(t, 0)
  <2>1. SubSeq(st, 1, n) = s
    <3>1. \A i \in 1 .. n : st[i] = s[i] /\ s[i] \in Seq(S)
      <4>1. \A i \in 1 .. n : i \in 1 .. n + Len(t) /\ i <= n
        BY <1>1
      <4> QED  BY <1>1, <4>1, ElementOfSeq
    <3>2. 1 \in Int /\ n \in Int /\ (IF 1 <= n THEN n - 1 + 1 ELSE 0) = n
          /\ (\A i \in 1 .. n : 1 + i - 1 = i) /\ n - 1 + 1 = n
      BY <1>1
    <3> HIDE DEF st, n
    <3>3. \A i \in 1 .. n : st[i] \in Seq(S)
      BY <3>1
    <3>4. /\ SubSeq(st, 1, n) \in Seq(Seq(S)) /\ Len(SubSeq(st, 1, n)) = n
          /\ \A i \in 1 .. n : SubSeq(st, 1, n)[i] = st[i]
      BY <3>2, <3>3, SubSeqProperties
    <3>5. Len(s) = n
      BY DEF n
    <3> QED  BY <3>1, <3>4, <3>5, SeqEqual
  <2>2. FlattenSeq(s) \o << >> = FlattenSeq(s)
    BY <1>2, ConcatEmptySeq
  <2> QED  BY <1>2, <2>1, <2>2 DEF Gathered
<1> HIDE DEF n, st
<1> DEFINE f == [k \in 0 .. Len(t) |-> Gathered(t, k)]
           g == [k \in 0 .. Len(t) |-> Gathered(st, n + k)]
<1>5. ASSUME NEW k \in 1 .. Len(t)
      PROVE  /\ f[k - 1] \in Seq(S) /\ t[k] \in Seq(S)
             /\ f[k] = f[k - 1] \o t[k] /\ g[k] = g[k - 1] \o t[k]
  <2>1. /\ n + k \in 1 .. Len(st) /\ (n + k) - 1 = n + (k - 1) /\ k - 1 \in 0 .. Len(t)
        /\ k \in 0 .. Len(t) /\ ~(n + k <= n) /\ (n + k) - n = k /\ n + k \in 1 .. n + Len(t)
    <3>1. n \in Nat /\ Len(t) \in Nat /\ Len(st) = n + Len(t)
      BY <1>1
    <3> QED  BY <3>1
  <2>2. st[n + k] = t[k] /\ t[k] \in Seq(S)
    BY <1>1, <2>1
  <2>3. Gathered(st, n + k) = Gathered(st, n + (k - 1)) \o t[k]
    BY <1>3, <2>1, <2>2
  <2>4. Gathered(t, k - 1) \in Seq(S) /\ Gathered(t, k) = Gathered(t, k - 1) \o t[k]
    BY <1>2, <2>1
  <2>5. f[k - 1] = Gathered(t, k - 1) /\ f[k] = Gathered(t, k)
    BY <2>1
  <2>6. g[k - 1] = Gathered(st, n + (k - 1)) /\ g[k] = Gathered(st, n + k)
    BY <2>1
  <2> HIDE DEF f, g
  <2> QED  BY <2>2, <2>3, <2>4, <2>5, <2>6
<1>6. f[0] = Gathered(t, 0) /\ g[0] = Gathered(st, n)
  BY <1>1
<1>7. f[Len(t)] = Gathered(t, Len(t)) /\ g[Len(t)] = Gathered(st, n + Len(t))
  BY <1>1
<1> HIDE DEF f, g
<1>8. g[0] = FlattenSeq(s) \o f[0]
  BY <1>4, <1>6
<1>9. \A k \in 0 .. Len(t) : g[k] = FlattenSeq(s) \o f[k]
  <2> DEFINE x == FlattenSeq(s)
             m == Len(t)
  <2>1. m \in Nat /\ x \in Seq(S) /\ g[0] = x \o f[0]
    BY <1>1, <1>2, <1>8
  <2>2. GrowAlike(f, g, t, m, S)
    BY <1>5 DEF GrowAlike
  <2> HIDE DEF x, m
  <2>3. \A k \in 0 .. m : g[k] = x \o f[k]
    BY ONLY <2>1, <2>2, GrowTogether, SMTT(30)
  <2> QED  BY <2>3 DEF x, m
<1>10. Len(t) \in 0 .. Len(t)
  BY <1>1
<1> QED  BY <1>1, <1>2, <1>3, <1>7, <1>9, <1>10 DEF st

\* A sequence begins with another if it has its elements first.
LEMMA PrefixIsBeginning ==
  ASSUME NEW S, NEW s, NEW t, s \in Seq(S), t \in Seq(S)
  PROVE  IsPrefix(s, t) <=> Len(s) <= Len(t) /\ \A i \in 1 .. Len(s) : s[i] = t[i]
<1>1. Len(s) \in Nat /\ Len(t) \in Nat /\ \A i \in 1 .. Len(t) : t[i] \in S
  BY LenProperties, ElementOfSeq
<1>2. SubSeq(s, 1, Len(s)) = s
  BY SubSeqFull
<1>3. ASSUME Len(s) <= Len(t)
      PROVE  /\ SubSeq(t, 1, Len(s)) \in Seq(S) /\ Len(SubSeq(t, 1, Len(s))) = Len(s)
             /\ \A i \in 1 .. Len(s) : SubSeq(t, 1, Len(s))[i] = t[i]
  <2> DEFINE n == Len(s)
  <2>1. \A i \in 1 .. n : t[i] \in S
    BY <1>1, <1>3
  <2>2. 1 \in Int /\ n \in Int /\ (IF 1 <= n THEN n - 1 + 1 ELSE 0) = n
        /\ (\A i \in 1 .. n : 1 + i - 1 = i) /\ n - 1 + 1 = n
    BY <1>1
  <2> HIDE DEF n
  <2>3. /\ SubSeq(t, 1, n) \in Seq(S) /\ Len(SubSeq(t, 1, n)) = n
        /\ \A i \in 1 .. n : SubSeq(t, 1, n)[i] = t[i]
    BY <2>1, <2>2, SubSeqProperties
  <2> QED  BY <2>3 DEF n
<1>4. ASSUME Len(s) <= Len(t), \A i \in 1 .. Len(s) : s[i] = t[i]
      PROVE  s = SubSeq(t, 1, Len(s))
  <2> DEFINE u == SubSeq(t, 1, Len(s))
  <2>1. u \in Seq(S) /\ Len(s) = Len(u) /\ \A i \in 1 .. Len(s) : s[i] = u[i]
    BY <1>3, <1>4
  <2> HIDE DEF u
  <2>2. s = u
    BY <2>1, SeqEqual
  <2> QED  BY <2>2 DEF u
<1>5. ASSUME Len(s) <= Len(t), s = SubSeq(t, 1, Len(s))
      PROVE  \A i \in 1 .. Len(s) : s[i] = t[i]
  BY <1>3, <1>5
<1> QED  BY <1>2, <1>4, <1>5 DEF IsPrefix

LEMMA ConcatBegins ==
  ASSUME NEW S, NEW s, NEW t, s \in Seq(S), t \in Seq(S)
  PROVE  IsPrefix(s, s \o t)
<1>1. /\ Len(s) \in Nat /\ Len(t) \in Nat
      /\ s \o t \in Seq(S) /\ Len(s \o t) = Len(s) + Len(t)
      /\ \A i \in 1 .. Len(s) + Len(t) :
           (s \o t)[i] = IF i <= Len(s) THEN s[i] ELSE t[i - Len(s)]
  BY LenProperties, ConcatProperties
<1> DEFINE st == s \o t
<1>2. st \in Seq(S) /\ Len(s) <= Len(st) /\ \A i \in 1 .. Len(s) : s[i] = st[i]
  <2>1. \A i \in 1 .. Len(s) : i \in 1 .. Len(s) + Len(t) /\ i <= Len(s)
    BY <1>1
  <2>2. Len(s) <= Len(s) + Len(t)
    BY <1>1
  <2> QED  BY <1>1, <2>1, <2>2
<1> HIDE DEF st
<1>3. IsPrefix(s, st)
  BY <1>2, PrefixIsBeginning
<1> QED  BY <1>3 DEF st

\* A sequence is what it begins with and the rest.
LEMMA Halved ==
  ASSUME NEW S, NEW s, NEW k, s \in Seq(S), k \in 0 .. Len(s)
  PROVE  s = SubSeq(s, 1, k) \o SubSeq(s, k + 1, Len(s))
<1>1. Len(s) \in Nat
  BY LenProperties
<1>2. 1 \in 1 .. Len(s) + 1 /\ k \in 1 - 1 .. Len(s) /\ Len(s) \in k .. Len(s)
  BY <1>1
<1>3. SubSeq(s, 1, k) \o SubSeq(s, k + 1, Len(s)) = SubSeq(s, 1, Len(s))
  BY <1>2, ConcatAdjacentSubSeq
<1>4. SubSeq(s, 1, Len(s)) = s
  BY SubSeqFull
<1> QED  BY <1>3, <1>4

\* A sequence in two pieces.
LEMMA InTwo ==
  ASSUME NEW S, NEW s, NEW k, s \in Seq(S), k \in 0 .. Len(s)
  PROVE  /\ SubSeq(s, 1, k) \in Seq(S) /\ SubSeq(s, k + 1, Len(s)) \in Seq(S)
         /\ s = SubSeq(s, 1, k) \o SubSeq(s, k + 1, Len(s))
         /\ Len(SubSeq(s, 1, k)) = k /\ Len(SubSeq(s, k + 1, Len(s))) = Len(s) - k
         /\ \A i \in 1 .. k : SubSeq(s, 1, k)[i] = s[i]
         /\ \A i \in 1 .. Len(s) - k : SubSeq(s, k + 1, Len(s))[i] = s[k + i]
<1>1. Len(s) \in Nat /\ \A i \in 1 .. Len(s) : s[i] \in S
  BY LenProperties, ElementOfSeq
<1> DEFINE n == Len(s)
<1> HIDE DEF n
<1>2. n \in Nat /\ k \in 0 .. n /\ \A i \in 1 .. n : s[i] \in S
  BY <1>1 DEF n
<1>3. /\ SubSeq(s, 1, k) \in Seq(S) /\ Len(SubSeq(s, 1, k)) = k
      /\ \A i \in 1 .. k : SubSeq(s, 1, k)[i] = s[i]
  <2>1. /\ \A i \in 1 .. k : s[i] \in S
        /\ 1 \in Int /\ k \in Int /\ (IF 1 <= k THEN k - 1 + 1 ELSE 0) = k
        /\ (\A i \in 1 .. k : 1 + i - 1 = i) /\ k - 1 + 1 = k
    BY <1>2
  <2> QED  BY <2>1, SubSeqProperties
<1>4. /\ SubSeq(s, k + 1, n) \in Seq(S) /\ Len(SubSeq(s, k + 1, n)) = n - k
      /\ \A i \in 1 .. n - k : SubSeq(s, k + 1, n)[i] = s[k + i]
  <2>1. /\ \A i \in k + 1 .. n : s[i] \in S
        /\ k + 1 \in Int /\ n \in Int /\ (IF k + 1 <= n THEN n - (k + 1) + 1 ELSE 0) = n - k
        /\ (\A i \in 1 .. n - k : (k + 1) + i - 1 = k + i) /\ n - (k + 1) + 1 = n - k
    BY <1>2
  <2> DEFINE m == k + 1
  <2>2. /\ \A i \in m .. n : s[i] \in S
        /\ m \in Int /\ n \in Int /\ (IF m <= n THEN n - m + 1 ELSE 0) = n - k
        /\ (\A i \in 1 .. n - k : m + i - 1 = k + i) /\ n - m + 1 = n - k
    BY <2>1
  <2> HIDE DEF m
  <2>3. /\ SubSeq(s, m, n) \in Seq(S) /\ Len(SubSeq(s, m, n)) = IF m <= n THEN n - m + 1 ELSE 0
        /\ \A i \in 1 .. n - m + 1 : SubSeq(s, m, n)[i] = s[m + i - 1]
    BY <2>2, SubSeqProperties
  <2>4. /\ SubSeq(s, m, n) \in Seq(S) /\ Len(SubSeq(s, m, n)) = n - k
        /\ \A i \in 1 .. n - k : SubSeq(s, m, n)[i] = s[k + i]
    BY <2>2, <2>3
  <2> QED  BY <2>4 DEF m
<1>5. s = SubSeq(s, 1, k) \o SubSeq(s, k + 1, n)
  BY Halved DEF n
<1> QED  BY <1>3, <1>4, <1>5 DEF n

\* The same, without what is where.
LEMMA InHalves ==
  ASSUME NEW S, NEW s, NEW k, s \in Seq(S), k \in 0 .. Len(s)
  PROVE  /\ SubSeq(s, 1, k) \in Seq(S) /\ SubSeq(s, k + 1, Len(s)) \in Seq(S)
         /\ s = SubSeq(s, 1, k) \o SubSeq(s, k + 1, Len(s))
         /\ Len(SubSeq(s, k + 1, Len(s))) = Len(s) - k
<1>1. SubSeq(s, 1, k) \in Seq(S)
  BY InTwo
<1>2. SubSeq(s, k + 1, Len(s)) \in Seq(S)
  BY InTwo, ZenonT(60)
<1>3. s = SubSeq(s, 1, k) \o SubSeq(s, k + 1, Len(s))
  BY Halved
<1>4. Len(SubSeq(s, k + 1, Len(s))) = Len(s) - k
  BY InTwo
<1> QED  BY ONLY <1>1, <1>2, <1>3, <1>4

\* The first of them come first.
LEMMA FlattenPrefix ==
  ASSUME NEW S, NEW ss, NEW k, ss \in Seq(Seq(S)), k \in 0 .. Len(ss)
  PROVE  IsPrefix(Gathered(ss, k), FlattenSeq(ss))
<1> DEFINE a == SubSeq(ss, 1, k)
           b == SubSeq(ss, k + 1, Len(ss))
<1>1. a \in Seq(Seq(S)) /\ b \in Seq(Seq(S)) /\ ss = a \o b
  <2> DEFINE T == Seq(S)
  <2>1. ss \in Seq(T) /\ k \in 0 .. Len(ss)
    OBVIOUS
  <2> HIDE DEF T
  <2>2. a \in Seq(T) /\ b \in Seq(T) /\ ss = a \o b
    BY ONLY <2>1, InHalves DEF a, b
  <2> QED  BY <2>2 DEF T
<1> HIDE DEF a, b
<1>2. FlattenSeq(ss) = FlattenSeq(a) \o FlattenSeq(b)
  BY <1>1, FlattenConcat
<1>3. FlattenSeq(a) \in Seq(S) /\ FlattenSeq(b) \in Seq(S)
  BY <1>1, FlattenType
<1>4. IsPrefix(FlattenSeq(a), FlattenSeq(ss))
  BY <1>2, <1>3, ConcatBegins
<1> QED  BY <1>4 DEF a, Gathered

\* When one of them at most is not empty.
LEMMA FlattenOne ==
  ASSUME NEW S, NEW ss, NEW p, ss \in Seq(Seq(S)), p \in Nat \ {0},
         \A i \in 1 .. Len(ss) : i # p => ss[i] = << >>
  PROVE  FlattenSeq(ss) = IF p <= Len(ss) THEN ss[p] ELSE << >>
<1> DEFINE Here(k) == IF p <= k THEN ss[p] ELSE << >>
           K == {k \in 0 .. Len(ss) : Gathered(ss, k) = Here(k)}
<1>1. /\ FlattenSeq(ss) = Gathered(ss, Len(ss)) /\ Gathered(ss, 0) = << >>
      /\ \A k \in 0 .. Len(ss) : Gathered(ss, k) \in Seq(S)
      /\ \A k \in 1 .. Len(ss) : Gathered(ss, k) = Gathered(ss, k - 1) \o ss[k]
  BY FlattenType
<1>2. Len(ss) \in Nat /\ \A k \in 1 .. Len(ss) : ss[k] \in Seq(S)
  BY LenProperties, ElementOfSeq
<1>3. 0 \in K
  BY <1>1, <1>2
<1>4. ASSUME NEW k \in 1 .. Len(ss), k - 1 \in K
      PROVE  k \in K
  <2>1. /\ Gathered(ss, k) = Gathered(ss, k - 1) \o ss[k] /\ k \in 0 .. Len(ss)
        /\ Gathered(ss, k - 1) = Here(k - 1)
    <3>1. Gathered(ss, k - 1) = Here(k - 1)
      BY ONLY <1>4 DEF K
    <3>2. k \in 0 .. Len(ss)
      BY <1>2
    <3> QED  BY <1>1, <3>1, <3>2
  <2>2. CASE k = p
    <3>1. ~(p <= k - 1) /\ p <= k
      BY <1>2, <2>2
    <3>2. << >> \o ss[k] = ss[k]
      BY <1>2, ConcatEmptySeq
    <3> QED  BY <2>1, <2>2, <3>1, <3>2
  <2>3. CASE k # p
    <3>1. (p <= k - 1) <=> (p <= k)
      BY <1>2, <2>3
    <3>2. Gathered(ss, k - 1) \o << >> = Gathered(ss, k - 1)
      <4>1. k - 1 \in 0 .. Len(ss)
        BY <1>2
      <4> QED  BY <1>1, <4>1, ConcatEmptySeq
    <3>3. ss[k] = << >>
      BY <2>3
    <3> QED  BY <2>1, <3>1, <3>2, <3>3
  <2> QED  BY <2>2, <2>3
<1> HIDE DEF K
<1>5. \A k \in 0 .. Len(ss) : k \in K
  BY <1>2, <1>3, <1>4, Climb
<1>6. Len(ss) \in K
  BY <1>2, <1>5
<1> QED  BY <1>1, <1>6 DEF K

\* When each has one element.
LEMMA FlattenSingles ==
  ASSUME NEW S, NEW ss, NEW e, ss \in Seq(Seq(S)), e \in Seq(S), Len(e) = Len(ss),
         \A i \in 1 .. Len(ss) : ss[i] = <<e[i]>>
  PROVE  FlattenSeq(ss) = e
<1> DEFINE K == {k \in 0 .. Len(ss) : Gathered(ss, k) = SubSeq(e, 1, k)}
<1>1. /\ FlattenSeq(ss) = Gathered(ss, Len(ss)) /\ Gathered(ss, 0) = << >>
      /\ \A k \in 1 .. Len(ss) : Gathered(ss, k) = Gathered(ss, k - 1) \o ss[k]
  BY FlattenType
<1>2. Len(ss) \in Nat
  BY LenProperties
<1>3. 0 \in K
  <2>1. SubSeq(e, 1, 0) = << >>
    BY SubSeqEmpty
  <2>2. Gathered(ss, 0) = << >> /\ 0 \in 0 .. Len(ss)
    BY ONLY <1>1, <1>2
  <2> QED  BY ONLY <2>1, <2>2 DEF K
<1>4. ASSUME NEW k \in 1 .. Len(ss), k - 1 \in K
      PROVE  k \in K
  <2>1. /\ Gathered(ss, k) = SubSeq(e, 1, k - 1) \o <<e[k]>> /\ k \in 0 .. Len(ss)
    <3>1. Gathered(ss, k - 1) = SubSeq(e, 1, k - 1)
      BY ONLY <1>4 DEF K
    <3>2. k \in 0 .. Len(ss)
      BY ONLY <1>2
    <3>3. ss[k] = <<e[k]>>
      OBVIOUS
    <3>4. Gathered(ss, k) = Gathered(ss, k - 1) \o ss[k]
      BY <1>1
    <3> QED  BY ONLY <3>1, <3>2, <3>3, <3>4
  <2>2. SubSeq(e, 1, k) = SubSeq(e, 1, k - 1) \o <<e[k]>>
    <3>1. 1 \in 1 .. Len(e) /\ k \in 1 .. Len(e)
      BY <1>2
    <3> QED  BY <3>1, SubSeqRecursiveSecond
  <2> QED  BY <2>1, <2>2
<1> HIDE DEF K
<1>5. \A k \in 0 .. Len(ss) : k \in K
  BY <1>2, <1>3, <1>4, Climb
<1>6. Gathered(ss, Len(ss)) = SubSeq(e, 1, Len(ss))
  <2>1. Len(ss) \in K
    BY <1>2, <1>5
  <2> QED  BY <2>1 DEF K
<1>7. SubSeq(e, 1, Len(ss)) = e
  BY SubSeqFull
<1> QED  BY <1>1, <1>6, <1>7

\* When each has one element or none: how many there are.
LEMMA FlattenCounts ==
  ASSUME NEW S, NEW ss, NEW e, ss \in Seq(Seq(S)),
         \A i \in 1 .. Len(ss) : e[i] \in S /\ ss[i] \in {<< >>, <<e[i]>>}
  PROVE  /\ IsFiniteSet({i \in 1 .. Len(ss) : ss[i] # << >>})
         /\ Len(FlattenSeq(ss)) = Cardinality({i \in 1 .. Len(ss) : ss[i] # << >>})
<1> DEFINE Full(k) == {i \in 1 .. k : ss[i] # << >>}
           K == {k \in 0 .. Len(ss) :
                   IsFiniteSet(Full(k)) /\ Len(Gathered(ss, k)) = Cardinality(Full(k))}
<1>1. /\ FlattenSeq(ss) = Gathered(ss, Len(ss)) /\ Gathered(ss, 0) = << >>
      /\ \A k \in 0 .. Len(ss) : Gathered(ss, k) \in Seq(S)
      /\ \A k \in 1 .. Len(ss) : Gathered(ss, k) = Gathered(ss, k - 1) \o ss[k]
  BY FlattenType
<1>2. Len(ss) \in Nat
  BY LenProperties
<1>3. 0 \in K
  <2>1. Full(0) = {}
    OBVIOUS
  <2> HIDE DEF Full
  <2>2. IsFiniteSet(Full(0)) /\ Cardinality(Full(0)) = 0 /\ Len(<< >>) = 0
    BY <2>1, FS_EmptySet, EmptySeq
  <2> QED  BY <1>1, <1>2, <2>2
<1>4. ASSUME NEW k \in 1 .. Len(ss), k - 1 \in K
      PROVE  k \in K
  <2> DEFINE g == Gathered(ss, k - 1)
  <2>1. /\ Gathered(ss, k) = g \o ss[k] /\ g \in Seq(S) /\ k \in 0 .. Len(ss)
        /\ IsFiniteSet(Full(k - 1)) /\ Len(g) = Cardinality(Full(k - 1))
    <3>1. k - 1 \in 0 .. Len(ss) /\ k \in 0 .. Len(ss)
      BY <1>2
    <3>2. Gathered(ss, k) = g \o ss[k] /\ g \in Seq(S)
      BY <1>1, <3>1
    <3> HIDE DEF Full
    <3>3. IsFiniteSet(Full(k - 1)) /\ Len(g) = Cardinality(Full(k - 1))
      BY ONLY <1>4 DEF K, g
    <3> QED  BY <3>1, <3>2, <3>3
  <2> HIDE DEF g
  <2>2. CASE ss[k] = << >>
    <3>1. Full(k) = Full(k - 1)
      BY <1>2, <2>2
    <3>2. g \o << >> = g
      BY <2>1, ConcatEmptySeq
    <3> HIDE DEF Full
    <3> QED  BY <2>1, <2>2, <3>1, <3>2
  <2>3. CASE ss[k] # << >>
    <3>1. Full(k) = Full(k - 1) \cup {k} /\ k \notin Full(k - 1)
      BY <1>2, <2>3
    <3>2. ss[k] = <<e[k]>> /\ e[k] \in S
      BY <2>3
    <3>3. Len(g \o <<e[k]>>) = Len(g) + 1
      <4>1. <<e[k]>> \in Seq(S) /\ Len(<<e[k]>>) = 1
        BY <3>2
      <4> QED  BY <2>1, <4>1, ConcatProperties
    <3> HIDE DEF Full
    <3>4. IsFiniteSet(Full(k)) /\ Cardinality(Full(k)) = Cardinality(Full(k - 1)) + 1
      <4> DEFINE F == Full(k - 1)
      <4>1. IsFiniteSet(F) /\ k \notin F /\ Full(k) = F \cup {k}
        BY <2>1, <3>1
      <4> HIDE DEF F
      <4>2. IsFiniteSet(Full(k)) /\ Cardinality(Full(k)) = Cardinality(F) + 1
        BY ONLY <4>1, FS_AddElement
      <4> QED  BY <4>2 DEF F
    <3> QED  BY <2>1, <3>2, <3>3, <3>4
  <2> QED  BY <2>2, <2>3
<1> HIDE DEF K
<1>5. \A k \in 0 .. Len(ss) : k \in K
  BY <1>2, <1>3, <1>4, Climb
<1>6. Len(ss) \in K
  BY <1>2, <1>5
<1> QED  BY <1>1, <1>6 DEF K

OneOrNone(S, ss, e) ==
  /\ ss \in Seq(Seq(S))
  /\ \A i \in 1 .. Len(ss) : e[i] \in S /\ ss[i] \in {<< >>, <<e[i]>>}

AllApart(ss, e) ==
  \A i, j \in 1 .. Len(ss) :
    ss[i] = <<e[i]>> /\ ss[j] = <<e[j]>> /\ e[i] = e[j] => i = j

FromThose(ss, e) ==
  \A x \in ToSet(FlattenSeq(ss)) : \E i \in 1 .. Len(ss) : ss[i] = <<e[i]>> /\ x = e[i]

\* And which: none but those, and none twice unless it was there twice.
LEMMA FlattenPicks ==
  ASSUME NEW S, NEW ss, NEW e, OneOrNone(S, ss, e)
  PROVE  /\ FromThose(ss, e)
         /\ AllApart(ss, e) => IsInjective(FlattenSeq(ss))
<1> USE DEF OneOrNone, AllApart, FromThose
<1> DEFINE Apart == \A i, j \in 1 .. Len(ss) :
                      ss[i] = <<e[i]>> /\ ss[j] = <<e[j]>> /\ e[i] = e[j] => i = j
           From(k, x) == \E i \in 1 .. k : ss[i] = <<e[i]>> /\ x = e[i]
           Fine(k, g) == /\ g \in Seq(S) /\ \A n \in 1 .. Len(g) : From(k, g[n])
                         /\ Apart => \A n, m \in 1 .. Len(g) : g[n] = g[m] => n = m
           K == {k \in 0 .. Len(ss) : Fine(k, Gathered(ss, k))}
<1>1. /\ FlattenSeq(ss) = Gathered(ss, Len(ss)) /\ Gathered(ss, 0) = << >>
      /\ \A k \in 0 .. Len(ss) : Gathered(ss, k) \in Seq(S)
      /\ \A k \in 1 .. Len(ss) : Gathered(ss, k) = Gathered(ss, k - 1) \o ss[k]
  BY FlattenType
<1>2. Len(ss) \in Nat
  BY LenProperties
<1>3. 0 \in K
  <2>1. << >> \in Seq(S) /\ Len(<< >>) = 0
    BY EmptySeq
  <2>2. Fine(0, << >>)
    BY ONLY <2>1
  <2>3. 0 \in 0 .. Len(ss) /\ Gathered(ss, 0) = << >>
    BY ONLY <1>1, <1>2
  <2> HIDE DEF Fine
  <2> QED  BY ONLY <2>2, <2>3 DEF K
<1>4. ASSUME NEW k \in 1 .. Len(ss), k - 1 \in K
      PROVE  k \in K
  <2> DEFINE g == Gathered(ss, k - 1)
  <2>1. Fine(k - 1, g)
    <3> HIDE DEF Fine
    <3> QED  BY ONLY <1>4 DEF K, g
  <2>2. Gathered(ss, k) = g \o ss[k]
    BY <1>1
  <2>3. k \in 0 .. Len(ss) /\ k \in Nat /\ k - 1 \in Nat
    BY ONLY <1>2, k \in 1 .. Len(ss)
  <2> HIDE DEF g
  <2>4. CASE ss[k] = << >>
    <3>1. g \o << >> = g
      BY <2>1, ConcatEmptySeq
    <3>2. \A x : From(k - 1, x) => From(k, x)
      <4>1. \A i \in 1 .. k - 1 : i \in 1 .. k
        BY <2>3
      <4> QED  BY ONLY <4>1
    <3> HIDE DEF Apart, From
    <3>3. Fine(k, g)
      BY <2>1, <3>2
    <3> HIDE DEF Fine
    <3>4. Fine(k, Gathered(ss, k))
      BY ONLY <2>2, <2>4, <3>1, <3>3
    <3> QED  BY ONLY <2>3, <3>4 DEF K
  <2>5. CASE ss[k] # << >>
    <3>1. ss[k] = <<e[k]>> /\ e[k] \in S
      BY <2>5
    <3> DEFINE h == g \o <<e[k]>>
    <3>2. /\ h \in Seq(S) /\ Len(g) \in Nat /\ Len(h) = Len(g) + 1 /\ h[Len(g) + 1] = e[k]
          /\ \A n \in 1 .. Len(g) : h[n] = g[n]
      <4>1. g \in Seq(S) /\ <<e[k]>> \in Seq(S)
        BY <2>1, <3>1
      <4> QED  BY ONLY <3>1, <4>1, ConcatProperties, LenProperties DEF h
    <3> HIDE DEF h
    <3>3. \A x : From(k - 1, x) => From(k, x)
      <4>1. \A i \in 1 .. k - 1 : i \in 1 .. k
        BY <2>3
      <4> QED  BY ONLY <4>1
    <3>4. From(k, e[k])
      BY <2>3, <3>1
    <3>5. Apart => ~From(k - 1, e[k])
      <4> SUFFICES ASSUME Apart, NEW i \in 1 .. k - 1, ss[i] = <<e[i]>>, e[k] = e[i]
                   PROVE  FALSE
        OBVIOUS
      <4>1. i \in 1 .. Len(ss) /\ i # k
        BY <1>2, <2>3
      <4> QED  BY <3>1, <4>1
    <3> HIDE DEF Apart, From
    <3>6. \A n \in 1 .. Len(h) : n \in 1 .. Len(g) \/ n = Len(g) + 1
      BY ONLY <3>2
    <3>7. \A n \in 1 .. Len(h) : From(k, h[n])
      BY <2>1, <3>2, <3>3, <3>4, <3>6
    <3>8. ASSUME Apart, NEW n \in 1 .. Len(h), NEW m \in 1 .. Len(h), h[n] = h[m]
          PROVE  n = m
      <4>1. \A i \in 1 .. Len(g) : h[i] # e[k]
        BY <2>1, <3>2, <3>5, <3>8
      <4>2. CASE n \in 1 .. Len(g) /\ m \in 1 .. Len(g)
        BY <2>1, <3>2, <3>8, <4>2
      <4> QED  BY <3>2, <3>6, <3>8, <4>1, <4>2
    <3>9. Fine(k, h)
      BY <3>2, <3>7, <3>8
    <3> HIDE DEF Fine
    <3>10. Fine(k, Gathered(ss, k))
      BY ONLY <2>2, <3>1, <3>9 DEF h
    <3> QED  BY ONLY <2>3, <3>10 DEF K
  <2> QED  BY <2>4, <2>5
<1> HIDE DEF K
<1>5. \A k \in 0 .. Len(ss) : k \in K
  BY <1>2, <1>3, <1>4, Climb
<1> HIDE DEF Fine
<1>6. Fine(Len(ss), FlattenSeq(ss))
  <2>1. Len(ss) \in K
    BY <1>2, <1>5
  <2> QED  BY ONLY <1>1, <2>1 DEF K
<1> USE DEF Fine
<1>7. \A x \in ToSet(FlattenSeq(ss)) : From(Len(ss), x)
  <2> DEFINE g == FlattenSeq(ss)
             n == Len(ss)
  <2> HIDE DEF From, Apart
  <2>1. g \in Seq(S) /\ \A m \in 1 .. Len(g) : From(n, g[m])
    BY <1>6
  <2> HIDE DEF g, n
  <2>2. \A x \in ToSet(g) : \E m \in 1 .. Len(g) : g[m] = x
    BY ONLY <2>1, ElementsAreAtIndexes
  <2>3. \A x \in ToSet(g) : From(n, x)
    BY <2>1, <2>2
  <2> QED  BY <2>3 DEF g, n
<1>8. Apart => IsInjective(FlattenSeq(ss))
  <2>1. DOMAIN FlattenSeq(ss) = 1 .. Len(FlattenSeq(ss))
    BY <1>6, LenProperties
  <2> HIDE DEF Apart
  <2> QED  BY <1>6, <2>1 DEF IsInjective
<1> QED  BY <1>7, <1>8

\* Max gives an element of a set of first numbers.
LEMMA MaxIsThere ==
  ASSUME NEW n, NEW I, n \in Nat, I \subseteq 1 .. n, I # {}
  PROVE  Max(I) \in I
<1> DEFINE J == {k \in 0 .. n : n - k \in I}
<1>1. J \in SUBSET Nat /\ J # {}
  <2>1. PICK i \in I : TRUE
    OBVIOUS
  <2>2. n - i \in 0 .. n /\ n - (n - i) = i
    BY <2>1
  <2>3. n - i \in J
    BY <2>1, <2>2
  <2>4. \A k \in J : k \in Nat
    OBVIOUS
  <2> HIDE DEF J
  <2> QED  BY ONLY <2>3, <2>4
<1>2. PICK k \in J : \A j \in J : k <= j
  <2> HIDE DEF J
  <2> QED  BY <1>1, LeastElement
<1>3. n - k \in I /\ k \in 0 .. n
  OBVIOUS
<1>4. \A i \in I : n - k >= i
  <2> SUFFICES ASSUME NEW i \in I
               PROVE  n - k >= i
    OBVIOUS
  <2>1. i \in 1 .. n /\ n - i \in 0 .. n /\ n - (n - i) = i
    OBVIOUS
  <2>2. n - i \in J
    BY <2>1
  <2> HIDE DEF J
  <2> QED  BY <1>2, <1>3, <2>1, <2>2
<1> HIDE DEF J
<1>5. \E x \in I : \A i \in I : x >= i
  BY <1>3, <1>4
<1> QED  BY <1>5 DEF Max
\* One from another: all of t's elements as far as s goes.
StartOf(s, t) == Len(s) <= Len(t) /\ \A i \in 1 .. Len(s) : s[i] = t[i]

LEMMA BeginsIsSubSeq ==
  ASSUME NEW S, NEW s, NEW t, s \in Seq(S), t \in Seq(S), StartOf(s, t)
  PROVE  /\ s = SubSeq(t, 1, Len(s)) /\ Len(s) \in 0 .. Len(t)
         /\ IsPrefix(s, t)
<1>1. Len(s) \in Nat /\ Len(t) \in Nat
  BY LenProperties
<1> DEFINE k == Len(s)
           p == SubSeq(t, 1, k)
<1>2. k \in 0 .. Len(t) /\ \A i \in 1 .. k : s[i] = t[i]
  BY <1>1 DEF StartOf
<1>3. p \in Seq(S) /\ Len(p) = k /\ \A i \in 1 .. k : p[i] = t[i]
  <2> HIDE DEF k
  <2> QED  BY <1>2, InTwo
<1> HIDE DEF p
<1>4. s = p
  BY <1>2, <1>3, SeqEqual
<1>5. IsPrefix(s, t)
  BY <1>2, PrefixIsBeginning
<1> QED  BY <1>2, <1>4, <1>5 DEF p

\* Two that make up a third.
LEMMA ConcatIsBegun ==
  ASSUME NEW S, NEW s, NEW t, s \in Seq(S), t \in Seq(S)
  PROVE  StartOf(s, s \o t)
<1>1. /\ Len(s) \in Nat /\ Len(t) \in Nat /\ Len(s \o t) = Len(s) + Len(t)
      /\ \A i \in 1 .. Len(s) + Len(t) :
           (s \o t)[i] = IF i <= Len(s) THEN s[i] ELSE t[i - Len(s)]
  BY LenProperties, ConcatProperties
<1>2. Len(s) <= Len(s) + Len(t) /\ \A i \in 1 .. Len(s) : i \in 1 .. Len(s) + Len(t) /\ i <= Len(s)
  BY <1>1
<1> QED  BY <1>1, <1>2 DEF StartOf

\* When each has one element between p and the end of e, and none elsewhere.
LEMMA FlattenMiddle ==
  ASSUME NEW S, NEW ss, NEW e, NEW p, ss \in Seq(Seq(S)), e \in Seq(S), p \in Nat,
         \A i \in 1 .. Len(ss) :
           ss[i] = IF p < i /\ i <= p + Len(e) THEN <<e[i - p]>> ELSE << >>
  PROVE  \E c \in 0 .. Len(e) :
           FlattenSeq(ss) = SubSeq(e, 1, c) /\ (p + Len(e) <= Len(ss) => c = Len(e))
<1> DEFINE n == Len(e)
           c(k) == IF k <= p THEN 0 ELSE IF k <= p + n THEN k - p ELSE n
           K == {k \in 0 .. Len(ss) : Gathered(ss, k) = SubSeq(e, 1, c(k))}
<1>1. /\ FlattenSeq(ss) = Gathered(ss, Len(ss)) /\ Gathered(ss, 0) = << >>
      /\ \A k \in 1 .. Len(ss) : Gathered(ss, k) = Gathered(ss, k - 1) \o ss[k]
  BY FlattenType
<1>2. Len(ss) \in Nat /\ n \in Nat
  BY LenProperties
<1> HIDE DEF n
<1>3. \A k \in 0 .. Len(ss) : c(k) \in 0 .. n
  BY <1>2
<1>4. 0 \in K
  <2>1. SubSeq(e, 1, 0) = << >>
    BY SubSeqEmpty
  <2>2. Gathered(ss, 0) = << >> /\ 0 \in 0 .. Len(ss) /\ c(0) = 0
    BY <1>1, <1>2
  <2> HIDE DEF c
  <2> QED  BY ONLY <2>1, <2>2 DEF K
<1>5. ASSUME NEW k \in 1 .. Len(ss), k - 1 \in K
      PROVE  k \in K
  <2>1. /\ Gathered(ss, k - 1) = SubSeq(e, 1, c(k - 1))
    <3> HIDE DEF c
    <3> QED  BY ONLY <1>5 DEF K
  <2>2. k \in 0 .. Len(ss) /\ k - 1 \in 0 .. Len(ss)
    BY ONLY <1>2, k \in 1 .. Len(ss)
  <2>3. Gathered(ss, k) = Gathered(ss, k - 1) \o ss[k]
    BY <1>1
  <2>4. Gathered(ss, k) = SubSeq(e, 1, c(k))
    <3>1. CASE p < k /\ k <= p + n
      <4> DEFINE j == k - p
      <4>1. j \in 1 .. n /\ c(k) = j /\ c(k - 1) = j - 1
        BY <1>2, <2>2, <3>1
      <4>2. ss[k] = <<e[j]>>
        BY <3>1 DEF n
      <4> HIDE DEF c, j
      <4>3. SubSeq(e, 1, j) = SubSeq(e, 1, j - 1) \o <<e[j]>>
        <5>1. 1 \in 1 .. Len(e) /\ j \in 1 .. Len(e)
          BY <1>2, <4>1 DEF n
        <5> QED  BY <5>1, SubSeqRecursiveSecond
      <4> QED  BY ONLY <2>1, <2>3, <4>1, <4>2, <4>3
    <3>2. CASE ~(p < k /\ k <= p + n)
      <4>1. c(k) = c(k - 1) /\ c(k) \in 0 .. Len(e)
        BY <1>2, <1>3, <2>2, <3>2 DEF n
      <4>2. ss[k] = << >>
        BY <3>2 DEF n
      <4> DEFINE q == c(k)
                 g == SubSeq(e, 1, q)
      <4> HIDE DEF c, q
      <4>3. g \in Seq(S)
        BY <4>1, InTwo DEF q
      <4> HIDE DEF g
      <4>4. g \o << >> = g
        BY <4>3, ConcatEmptySeq
      <4>5. Gathered(ss, k - 1) = g
        BY ONLY <2>1, <4>1 DEF g, q
      <4> QED  BY ONLY <2>3, <4>2, <4>4, <4>5 DEF g, q
    <3> QED  BY <3>1, <3>2
  <2> HIDE DEF c
  <2> QED  BY ONLY <2>2, <2>4 DEF K
<1> HIDE DEF K
<1>6. \A k \in 0 .. Len(ss) : k \in K
  BY <1>2, <1>4, <1>5, Climb
<1>7. FlattenSeq(ss) = SubSeq(e, 1, c(Len(ss)))
  <2>1. Len(ss) \in K
    BY <1>2, <1>6
  <2> HIDE DEF c
  <2> QED  BY ONLY <1>1, <2>1 DEF K
<1>8. c(Len(ss)) \in 0 .. n /\ (p + n <= Len(ss) => c(Len(ss)) = n)
  BY <1>2
<1> HIDE DEF c
<1> QED  BY ONLY <1>7, <1>8 DEF n
=============================================================================
