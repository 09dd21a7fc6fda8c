--------------------------- MODULE PipelineProofs ---------------------------
EXTENDS Pipeline, FiniteSetTheorems, SequenceTheorems, WellFoundedInduction, TLAPS

---------------------------------------------------------------------------
(* Lists, and recursion along them.                                        *)

(* A nonempty set of natural numbers has a least element.                  *)
LEMMA LeastNatural ==
    ASSUME NEW T, T \subseteq Nat, T # {}
    PROVE  \E m \in T : \A n \in T : m <= n
<1>1. PICK m \in T : \A n \in T : ~(<<n, m>> \in OpToRel(<, Nat))
  BY NatLessThanWellFounded, WFMin
<1>2. \A n \in T : ~(n < m)
  BY <1>1 DEF OpToRel
<1> QED
  BY <1>2

(* Lists are sequences.                                                    *)
LEMMA ListIsSeq ==
    ASSUME NEW s, IsList(s)
    PROVE  s \in Seq({s[k] : k \in 1 .. Len(s)})
<1> DEFINE S == {s[k] : k \in 1 .. Len(s)}
<1>1. Len(s) \in Nat /\ s = [k \in 1 .. Len(s) |-> s[k]]
  BY DEF IsList
<1>2. s \in [1 .. Len(s) -> S]
  BY <1>1
<1> HIDE DEF S
<1> QED
  BY <1>1, <1>2, SeqDef DEF S

LEMMA SeqIsList ==
    ASSUME NEW S, NEW s \in Seq(S)
    PROVE  IsList(s)
<1>1. Len(s) \in Nat /\ DOMAIN s = 1 .. Len(s) /\ s \in [1 .. Len(s) -> S]
  BY LenProperties
<1> QED
  BY <1>1 DEF IsList

(* A function on 1 .. n is a list of length n.                             *)
LEMMA FunctionIsList ==
    ASSUME NEW n \in Nat, NEW s, s = [k \in 1 .. n |-> s[k]]
    PROVE  IsList(s) /\ Len(s) = n /\ DOMAIN s = 1 .. n
<1> DEFINE S == {s[k] : k \in 1 .. n}
<1>1. s \in [1 .. n -> S]
  OBVIOUS
<1> HIDE DEF S
<1>2. s \in Seq(S) /\ DOMAIN s = 1 .. n
  BY <1>1, SeqDef
<1>3. Len(s) = n
  BY <1>2, LenProperties
<1> QED
  BY <1>2, <1>3, SeqIsList

LEMMA ListDomain ==
    ASSUME NEW s, IsList(s)
    PROVE  Len(s) \in Nat /\ DOMAIN s = 1 .. Len(s)
BY DEF IsList

LEMMA EmptyIsList == IsList(<<>>) /\ Len(<<>>) = 0
<1>1. <<>> \in Seq({})
  OBVIOUS
<1> QED
  BY <1>1, SeqIsList, EmptySeq

LEMMA Concatenation ==
    ASSUME NEW s, NEW t, IsList(s), IsList(t)
    PROVE  /\ IsList(s \o t) /\ Len(s \o t) = Len(s) + Len(t)
           /\ \A k \in 1 .. Len(s) + Len(t) : (s \o t)[k] = IF k <= Len(s) THEN s[k] ELSE t[k - Len(s)]
<1> DEFINE S == {s[k] : k \in 1 .. Len(s)}
           T == {t[k] : k \in 1 .. Len(t)}
<1>1. s \in Seq(S) /\ t \in Seq(T)
  BY ListIsSeq, Zenon
<1> HIDE DEF S, T
<1>2. s \in Seq(S \cup T) /\ t \in Seq(S \cup T)
  BY <1>1
<1>3. s \o t \in Seq(S \cup T)
  BY <1>2, ConcatProperties
<1> QED
  BY <1>2, <1>3, ConcatProperties, SeqIsList

LEMMA Appending ==
    ASSUME NEW s, IsList(s), NEW x
    PROVE  /\ IsList(Append(s, x)) /\ Len(Append(s, x)) = Len(s) + 1
           /\ \A k \in 1 .. Len(s) : Append(s, x)[k] = s[k]
           /\ Append(s, x)[Len(s) + 1] = x
<1> DEFINE S == {s[k] : k \in 1 .. Len(s)}
<1>1. s \in Seq(S)
  BY ListIsSeq, Zenon
<1> HIDE DEF S
<1> DEFINE V == S \cup {x}
<1>2. s \in Seq(V) /\ x \in V
  BY <1>1
<1> HIDE DEF V
<1>3. Append(s, x) \in Seq(V)
  BY <1>2, AppendProperties
<1>4. IsList(Append(s, x))
  BY <1>3, SeqIsList
<1> QED
  BY <1>2, <1>4, AppendProperties

(* Induction along an interval.                                            *)
LEMMA Ascent ==
    ASSUME NEW low \in Nat, NEW n \in Nat, NEW P, low \in P,
           \A k \in low + 1 .. n : k - 1 \in P => k \in P
    PROVE  low .. n \subseteq P
<1> DEFINE T == {k \in low .. n : k \notin P}
<1> SUFFICES ASSUME T # {}
             PROVE  FALSE
  OBVIOUS
<1>1. PICK k \in T : \A j \in T : k <= j
  <2>1. T \subseteq Nat
    OBVIOUS
  <2> QED
    BY <2>1, LeastNatural
<1>2. k \in low + 1 .. n /\ k - 1 \notin T /\ k - 1 \in low .. n
  BY <1>1
<1> QED
  BY <1>1, <1>2

LEMMA AscentFromZero ==
    ASSUME NEW n \in Nat, NEW P, 0 \in P, \A k \in 1 .. n : k - 1 \in P => k \in P
    PROVE  0 .. n \subseteq P
<1>1. 0 \in Nat /\ 0 + 1 = 1
  OBVIOUS
<1>2. \A k \in 0 + 1 .. n : k - 1 \in P => k \in P
  BY <1>1
<1> QED
  BY <1>1, <1>2, Ascent

LEMMA AscentFromOne ==
    ASSUME NEW n \in Nat, NEW P, 1 \in P, \A k \in 2 .. n : k - 1 \in P => k \in P
    PROVE  1 .. n \subseteq P
<1>1. 1 \in Nat /\ 1 + 1 = 2
  OBVIOUS
<1>2. \A k \in 1 + 1 .. n : k - 1 \in P => k \in P
  BY <1>1
<1> QED
  BY <1>1, <1>2, Ascent

(* The partial results of Without, of which the last is the result.  There *)
(* are such: a definition by recursion on an interval has a solution.      *)
WithoutRun(g, s, S, n) ==
    /\ DOMAIN g = 0 .. n /\ \E V : g \in [0 .. n -> V]
    /\ g[0] = <<>>
    /\ \A k \in 1 .. n : g[k] = IF k \in S THEN g[k - 1] ELSE Append(g[k - 1], s[k])

LEMMA WithoutRuns ==
    ASSUME NEW s, NEW S
    PROVE  \A n \in Nat : n >= 0 => \E g : WithoutRun(g, s, S, n)
<1> DEFINE Step(a, k) == IF k \in S THEN a ELSE Append(a, s[k])
           base == <<>>
           P(n) == {m \in 0 .. n : \E g : WithoutRun(g, s, S, m)}
<1>1. \A g, m : WithoutRun(g, s, S, m) <=> /\ DOMAIN g = 0 .. m /\ \E V : g \in [0 .. m -> V]
                                           /\ g[0] = base
                                           /\ \A k \in 1 .. m : g[k] = Step(g[k - 1], k)
  BY Zenon DEF WithoutRun
<1> HIDE DEF Step, base
<1>2. \E g : WithoutRun(g, s, S, 0)
  <2> DEFINE h == [k \in 0 .. 0 |-> base]
  <2>1. h \in [0 .. 0 -> {base}] /\ DOMAIN h = 0 .. 0 /\ h[0] = base
    OBVIOUS
  <2>2. 1 .. 0 = {}
    OBVIOUS
  <2> HIDE DEF h
  <2> QED
    BY <1>1, <2>1, <2>2
<1>3. ASSUME NEW m \in Nat, m >= 0, NEW g, WithoutRun(g, s, S, m)
      PROVE  \E h : WithoutRun(h, s, S, m + 1)
  <2> DEFINE h == [k \in 0 .. m + 1 |-> IF k = m + 1 THEN Step(g[m], m + 1) ELSE g[k]]
  <2>1. DOMAIN h = 0 .. m + 1 /\ h \in [0 .. m + 1 -> {h[k] : k \in 0 .. m + 1}]
    OBVIOUS
  <2>2. /\ h[0] = g[0] /\ h[m + 1] = Step(g[m], m + 1) /\ h[m] = g[m]
        /\ \A k \in 1 .. m : h[k] = g[k] /\ h[k - 1] = g[k - 1]
    BY <1>3
  <2> HIDE DEF h
  <2>3. \A k \in 1 .. m + 1 : h[k] = Step(h[k - 1], k)
    <3>1. \A k \in 1 .. m + 1 : k = m + 1 \/ k \in 1 .. m
      BY <1>3
    <3>2. \A k \in 1 .. m : g[k] = Step(g[k - 1], k)
      BY <1>1, <1>3
    <3> QED
      BY <2>2, <3>1, <3>2
  <2>4. h[0] = base
    BY <1>1, <1>3, <2>2
  <2>5. /\ DOMAIN h = 0 .. m + 1 /\ \E V : h \in [0 .. m + 1 -> V]
        /\ h[0] = base
        /\ \A k \in 1 .. m + 1 : h[k] = Step(h[k - 1], k)
    BY <2>1, <2>3, <2>4
  <2>6. WithoutRun(h, s, S, m + 1)
    BY <1>1, <2>5, Zenon
  <2> QED
    BY <2>6
<1>4. ASSUME NEW n \in Nat, n >= 0
      PROVE  \E g : WithoutRun(g, s, S, n)
  <2>1. 0 \in P(n)
    BY <1>2, <1>4
  <2>2. ASSUME NEW m \in 1 .. n, m - 1 \in P(n)
        PROVE  m \in P(n)
    <3>1. PICK g : WithoutRun(g, s, S, m - 1)
      BY <2>2
    <3>2. m - 1 \in Nat /\ m - 1 >= 0 /\ (m - 1) + 1 = m /\ m \in 0 .. n
      OBVIOUS
    <3>3. \E h : WithoutRun(h, s, S, (m - 1) + 1)
      BY <1>3, <3>1, <3>2
    <3>4. \E h : WithoutRun(h, s, S, m)
      BY <3>2, <3>3
    <3> QED
      BY <3>2, <3>4
  <2> HIDE DEF P
  <2>3. 0 .. n \subseteq P(n)
    BY <1>4, <2>1, <2>2, AscentFromZero
  <2>4. n \in P(n)
    BY <1>4, <2>3
  <2> QED
    BY <2>4 DEF P
<1> QED
  BY <1>4

LEMMA WithoutResult ==
    ASSUME NEW s, IsList(s), NEW S
    PROVE  \E g : WithoutRun(g, s, S, Len(s)) /\ Without(s, S) = g[Len(s)]
<1> DEFINE n == Len(s)
           Body(f) == [k \in 0 .. n |-> IF k = 0 THEN <<>> ELSE IF k \in S THEN f[k - 1]
                                        ELSE Append(f[k - 1], s[k])]
           g == CHOOSE f : f = Body(f)
<1>1. n \in Nat
  BY ListDomain
<1>2. Without(s, S) = g[n]
  BY Zenon DEF Without
<1> HIDE DEF n
<1>3. PICK f : WithoutRun(f, s, S, n)
  BY <1>1, WithoutRuns
<1>4. f = Body(f)
  <2>1. \A k \in 0 .. n : k = 0 \/ k \in 1 .. n
    BY <1>1
  <2> QED
    BY <1>3, <2>1 DEF WithoutRun
<1>5. g = Body(g)
  BY <1>4, Zenon
<1>6. WithoutRun(g, s, S, n)
  <2>1. g = [k \in 0 .. n |-> IF k = 0 THEN <<>> ELSE IF k \in S THEN g[k - 1]
                              ELSE Append(g[k - 1], s[k])]
    BY <1>5
  <2> HIDE DEF g, Body
  <2>2. 0 \in 0 .. n /\ \A k \in 1 .. n : k \in 0 .. n /\ k # 0
    BY <1>1
  <2>3. g \in [0 .. n -> {g[k] : k \in 0 .. n}]
    BY <2>1
  <2> QED
    BY <2>1, <2>2, <2>3 DEF WithoutRun
<1> HIDE DEF g
<1> QED
  BY <1>2, <1>6 DEF n

LEMMA WithoutIsList ==
    ASSUME NEW s, IsList(s), NEW S
    PROVE  /\ IsList(Without(s, S))
           /\ \A k \in 1 .. Len(Without(s, S)) : \E j \in 1 .. Len(s) : Without(s, S)[k] = s[j]
<1> DEFINE n == Len(s)
           Fine(a) == IsList(a) /\ \A k \in 1 .. Len(a) : \E j \in 1 .. n : a[k] = s[j]
<1>1. n \in Nat
  BY ListDomain
<1>2. PICK g : WithoutRun(g, s, S, n) /\ Without(s, S) = g[n]
  BY WithoutResult
<1> DEFINE T == {k \in Nat : k \in 0 .. n /\ ~Fine(g[k])}
<1> HIDE DEF n
<1>3. Fine(g[0])
  BY <1>2, EmptyIsList DEF WithoutRun
<1>4. ASSUME NEW k \in 1 .. n, Fine(g[k - 1])
      PROVE  Fine(g[k])
  <2>1. CASE k \in S
    BY <1>2, <1>4, <2>1 DEF WithoutRun
  <2>2. CASE k \notin S
    <3> DEFINE a == g[k - 1]
    <3>1. g[k] = Append(a, s[k]) /\ Fine(a)
      BY <1>2, <1>4, <2>2 DEF WithoutRun
    <3> HIDE DEF a
    <3>2. /\ IsList(g[k]) /\ Len(g[k]) = Len(a) + 1
          /\ \A i \in 1 .. Len(a) : g[k][i] = a[i]
          /\ g[k][Len(a) + 1] = s[k]
      BY <3>1, Appending
    <3>3. Len(a) \in Nat
      BY <3>1, ListDomain
    <3> QED
      BY <3>1, <3>2, <3>3
  <2> QED
    BY <2>1, <2>2
<1> HIDE DEF Fine
<1>5. T = {}
  <2> SUFFICES ASSUME T # {}
               PROVE  FALSE
    OBVIOUS
  <2>1. PICK k \in T : \A j \in T : k <= j
    BY LeastNatural
  <2>2. k \in 1 .. n /\ k - 1 \in 0 .. n /\ k - 1 \in Nat /\ k - 1 \notin T
    BY <1>1, <1>3, <2>1
  <2> QED
    BY <1>4, <2>1, <2>2
<1>6. Fine(g[n])
  BY <1>1, <1>5
<1> QED
  BY <1>2, <1>6 DEF Fine, n

(* The partial results of FlattenSeq.                                      *)
FlattenRun(g, ss, n) ==
    /\ DOMAIN g = 1 .. n /\ \E V : g \in [1 .. n -> V]
    /\ g[1] = ss[1]
    /\ \A k \in 2 .. n : g[k] = g[k - 1] \o ss[k]

LEMMA FlattenRuns ==
    ASSUME NEW ss
    PROVE  \A n \in Nat : n >= 1 => \E g : FlattenRun(g, ss, n)
<1> DEFINE Step(a, k) == a \o ss[k]
           base == ss[1]
           P(n) == {m \in 1 .. n : \E g : FlattenRun(g, ss, m)}
<1>1. \A g, m : FlattenRun(g, ss, m) <=> /\ DOMAIN g = 1 .. m /\ \E V : g \in [1 .. m -> V]
                                           /\ g[1] = base
                                           /\ \A k \in 2 .. m : g[k] = Step(g[k - 1], k)
  BY Zenon DEF FlattenRun
<1> HIDE DEF Step, base
<1>2. \E g : FlattenRun(g, ss, 1)
  <2> DEFINE h == [k \in 1 .. 1 |-> base]
  <2>1. h \in [1 .. 1 -> {base}] /\ DOMAIN h = 1 .. 1 /\ h[1] = base
    OBVIOUS
  <2>2. 2 .. 1 = {}
    OBVIOUS
  <2> HIDE DEF h
  <2> QED
    BY <1>1, <2>1, <2>2
<1>3. ASSUME NEW m \in Nat, m >= 1, NEW g, FlattenRun(g, ss, m)
      PROVE  \E h : FlattenRun(h, ss, m + 1)
  <2> DEFINE h == [k \in 1 .. m + 1 |-> IF k = m + 1 THEN Step(g[m], m + 1) ELSE g[k]]
  <2>1. DOMAIN h = 1 .. m + 1 /\ h \in [1 .. m + 1 -> {h[k] : k \in 1 .. m + 1}]
    OBVIOUS
  <2>2. /\ h[1] = g[1] /\ h[m + 1] = Step(g[m], m + 1) /\ h[m] = g[m]
        /\ \A k \in 2 .. m : h[k] = g[k] /\ h[k - 1] = g[k - 1]
    BY <1>3
  <2> HIDE DEF h
  <2>3. \A k \in 2 .. m + 1 : h[k] = Step(h[k - 1], k)
    <3>1. \A k \in 2 .. m + 1 : k = m + 1 \/ k \in 2 .. m
      BY <1>3
    <3>2. \A k \in 2 .. m : g[k] = Step(g[k - 1], k)
      BY <1>1, <1>3
    <3> QED
      BY <2>2, <3>1, <3>2
  <2>4. h[1] = base
    BY <1>1, <1>3, <2>2
  <2>5. /\ DOMAIN h = 1 .. m + 1 /\ \E V : h \in [1 .. m + 1 -> V]
        /\ h[1] = base
        /\ \A k \in 2 .. m + 1 : h[k] = Step(h[k - 1], k)
    BY <2>1, <2>3, <2>4
  <2>6. FlattenRun(h, ss, m + 1)
    BY <1>1, <2>5, Zenon
  <2> QED
    BY <2>6
<1>4. ASSUME NEW n \in Nat, n >= 1
      PROVE  \E g : FlattenRun(g, ss, n)
  <2>1. 1 \in P(n)
    BY <1>2, <1>4
  <2>2. ASSUME NEW m \in 2 .. n, m - 1 \in P(n)
        PROVE  m \in P(n)
    <3>1. PICK g : FlattenRun(g, ss, m - 1)
      BY <2>2
    <3>2. m - 1 \in Nat /\ m - 1 >= 1 /\ (m - 1) + 1 = m /\ m \in 1 .. n
      OBVIOUS
    <3>3. \E h : FlattenRun(h, ss, (m - 1) + 1)
      BY <1>3, <3>1, <3>2
    <3>4. \E h : FlattenRun(h, ss, m)
      BY <3>2, <3>3
    <3> QED
      BY <3>2, <3>4
  <2> HIDE DEF P
  <2>3. 1 .. n \subseteq P(n)
    BY <1>4, <2>1, <2>2, AscentFromOne
  <2>4. n \in P(n)
    BY <1>4, <2>3
  <2> QED
    BY <2>4 DEF P
<1> QED
  BY <1>4

LEMMA FlattenIsList ==
    ASSUME NEW ss, IsList(ss), \A k \in 1 .. Len(ss) : IsList(ss[k])
    PROVE  IsList(FlattenSeq(ss))
<1> DEFINE n == Len(ss)
           Body(f) == [i \in 1 .. n |-> IF i = 1 THEN ss[i] ELSE f[i - 1] \o ss[i]]
           g == CHOOSE f : f = Body(f)
<1>1. n \in Nat
  BY ListDomain
<1>2. FlattenSeq(ss) = IF n = 0 THEN ss ELSE g[n]
  BY Zenon DEF FlattenSeq
<1> HIDE DEF n
<1>3. CASE n = 0
  <2> HIDE DEF g
  <2> QED
    BY <1>2, <1>3
<1>4. CASE n # 0
  <2>0. n >= 1
    BY <1>1, <1>4
  <2>1. PICK f : FlattenRun(f, ss, n)
    BY <1>1, <2>0, FlattenRuns
  <2>2. f = Body(f)
    <3>1. \A k \in 1 .. n : k = 1 \/ k \in 2 .. n
      BY <1>1
    <3> QED
      BY <2>1, <3>1 DEF FlattenRun
  <2>3. g = Body(g)
    BY <2>2, Zenon
  <2>4. g[1] = ss[1] /\ \A k \in 2 .. n : g[k] = g[k - 1] \o ss[k]
    <3>1. g = [i \in 1 .. n |-> IF i = 1 THEN ss[i] ELSE g[i - 1] \o ss[i]]
      BY <2>3
    <3> HIDE DEF g, Body
    <3>2. 1 \in 1 .. n /\ \A k \in 2 .. n : k \in 1 .. n /\ k # 1
      BY <1>1, <2>0
    <3> QED
      BY <3>1, <3>2
  <2> HIDE DEF g
  <2> DEFINE P == {k \in 1 .. n : IsList(g[k])}
  <2>5. \A k \in 1 .. n : IsList(ss[k])
    BY DEF n
  <2>6. 1 \in P
    BY <1>1, <2>0, <2>4, <2>5
  <2>7. ASSUME NEW k \in 2 .. n, k - 1 \in P
        PROVE  k \in P
    <3>0. k \in 1 .. n
      BY <1>1
    <3>1. IsList(g[k - 1]) /\ IsList(ss[k]) /\ g[k] = g[k - 1] \o ss[k]
      BY <2>4, <2>5, <2>7, <3>0
    <3>2. IsList(g[k])
      BY <3>1, Concatenation
    <3> QED
      BY <3>0, <3>2
  <2> HIDE DEF P
  <2>8. 1 .. n \subseteq P
    BY <1>1, <2>6, <2>7, AscentFromOne
  <2>9. n \in P
    BY <1>1, <2>0, <2>8
  <2>10. IsList(g[n])
    BY <2>9 DEF P
  <2> QED
    BY <1>2, <1>4, <2>10
<1> QED
  BY <1>3, <1>4

(* The frames that the parts of an output lead through.                    *)
PartsRun(g, fr, ps, name, recall, n) ==
    /\ DOMAIN g = 0 .. n /\ \E V : g \in [0 .. n -> V]
    /\ g[0] = Good(fr)
    /\ \A k \in 1 .. n : g[k] = IF g[k - 1].error # "none" THEN g[k - 1]
                                     ELSE ApplyPart(g[k - 1].frame, ps[k], name, recall)

LEMMA PartsRuns ==
    ASSUME NEW fr, NEW ps, NEW name, NEW recall
    PROVE  \A n \in Nat : n >= 0 => \E g : PartsRun(g, fr, ps, name, recall, n)
<1> DEFINE Step(a, k) == IF a.error # "none" THEN a ELSE ApplyPart(a.frame, ps[k], name, recall)
           base == Good(fr)
           P(n) == {m \in 0 .. n : \E g : PartsRun(g, fr, ps, name, recall, m)}
<1>1. \A g, m : PartsRun(g, fr, ps, name, recall, m) <=> /\ DOMAIN g = 0 .. m /\ \E V : g \in [0 .. m -> V]
                                           /\ g[0] = base
                                           /\ \A k \in 1 .. m : g[k] = Step(g[k - 1], k)
  BY Zenon DEF PartsRun
<1> HIDE DEF Step, base
<1>2. \E g : PartsRun(g, fr, ps, name, recall, 0)
  <2> DEFINE h == [k \in 0 .. 0 |-> base]
  <2>1. h \in [0 .. 0 -> {base}] /\ DOMAIN h = 0 .. 0 /\ h[0] = base
    OBVIOUS
  <2>2. 1 .. 0 = {}
    OBVIOUS
  <2> HIDE DEF h
  <2> QED
    BY <1>1, <2>1, <2>2
<1>3. ASSUME NEW m \in Nat, m >= 0, NEW g, PartsRun(g, fr, ps, name, recall, m)
      PROVE  \E h : PartsRun(h, fr, ps, name, recall, m + 1)
  <2> DEFINE h == [k \in 0 .. m + 1 |-> IF k = m + 1 THEN Step(g[m], m + 1) ELSE g[k]]
  <2>1. DOMAIN h = 0 .. m + 1 /\ h \in [0 .. m + 1 -> {h[k] : k \in 0 .. m + 1}]
    OBVIOUS
  <2>2. /\ h[0] = g[0] /\ h[m + 1] = Step(g[m], m + 1) /\ h[m] = g[m]
        /\ \A k \in 1 .. m : h[k] = g[k] /\ h[k - 1] = g[k - 1]
    BY <1>3
  <2> HIDE DEF h
  <2>3. \A k \in 1 .. m + 1 : h[k] = Step(h[k - 1], k)
    <3>1. \A k \in 1 .. m + 1 : k = m + 1 \/ k \in 1 .. m
      BY <1>3
    <3>2. \A k \in 1 .. m : g[k] = Step(g[k - 1], k)
      BY <1>1, <1>3
    <3> QED
      BY <2>2, <3>1, <3>2
  <2>4. h[0] = base
    BY <1>1, <1>3, <2>2
  <2>5. /\ DOMAIN h = 0 .. m + 1 /\ \E V : h \in [0 .. m + 1 -> V]
        /\ h[0] = base
        /\ \A k \in 1 .. m + 1 : h[k] = Step(h[k - 1], k)
    BY <2>1, <2>3, <2>4
  <2>6. PartsRun(h, fr, ps, name, recall, m + 1)
    BY <1>1, <2>5, Zenon
  <2> QED
    BY <2>6
<1>4. ASSUME NEW n \in Nat, n >= 0
      PROVE  \E g : PartsRun(g, fr, ps, name, recall, n)
  <2>1. 0 \in P(n)
    BY <1>2, <1>4
  <2>2. ASSUME NEW m \in 1 .. n, m - 1 \in P(n)
        PROVE  m \in P(n)
    <3>1. PICK g : PartsRun(g, fr, ps, name, recall, m - 1)
      BY <2>2
    <3>2. m - 1 \in Nat /\ m - 1 >= 0 /\ (m - 1) + 1 = m /\ m \in 0 .. n
      OBVIOUS
    <3>3. \E h : PartsRun(h, fr, ps, name, recall, (m - 1) + 1)
      BY <1>3, <3>1, <3>2
    <3>4. \E h : PartsRun(h, fr, ps, name, recall, m)
      BY <3>2, <3>3
    <3> QED
      BY <3>2, <3>4
  <2> HIDE DEF P
  <2>3. 0 .. n \subseteq P(n)
    BY <1>4, <2>1, <2>2, AscentFromZero
  <2>4. n \in P(n)
    BY <1>4, <2>3
  <2> QED
    BY <2>4 DEF P
<1> QED
  BY <1>4

LEMMA PartsResult ==
    ASSUME NEW fr, NEW ps, IsList(ps), NEW name, NEW recall
    PROVE  \E g : PartsRun(g, fr, ps, name, recall, Len(ps)) /\ ApplyParts(fr, ps, name, recall) = g[Len(ps)]
<1> DEFINE n == Len(ps)
           Body(f) == [k \in 0 .. n |-> IF k = 0 THEN Good(fr) ELSE IF f[k - 1].error # "none" THEN f[k - 1]
                                        ELSE ApplyPart(f[k - 1].frame, ps[k], name, recall)]
           g == CHOOSE f : f = Body(f)
<1>1. n \in Nat
  BY ListDomain
<1>2. ApplyParts(fr, ps, name, recall) = g[n]
  BY Zenon DEF ApplyParts
<1> HIDE DEF n
<1>3. PICK f : PartsRun(f, fr, ps, name, recall, n)
  BY <1>1, PartsRuns
<1>4. f = Body(f)
  <2>1. \A k \in 0 .. n : k = 0 \/ k \in 1 .. n
    BY <1>1
  <2> QED
    BY <1>3, <2>1 DEF PartsRun
<1>5. g = Body(g)
  BY <1>4, Zenon
<1>6. PartsRun(g, fr, ps, name, recall, n)
  <2>1. g = [k \in 0 .. n |-> IF k = 0 THEN Good(fr) ELSE IF g[k - 1].error # "none" THEN g[k - 1]
                              ELSE ApplyPart(g[k - 1].frame, ps[k], name, recall)]
    BY <1>5
  <2> HIDE DEF g, Body
  <2>2. 0 \in 0 .. n /\ \A k \in 1 .. n : k \in 0 .. n /\ k # 0
    BY <1>1
  <2>3. g \in [0 .. n -> {g[k] : k \in 0 .. n}]
    BY <2>1
  <2> QED
    BY <2>1, <2>2, <2>3 DEF PartsRun
<1> HIDE DEF g
<1> QED
  BY <1>2, <1>6 DEF n

(* The frames that the fields of an added row lead through.                *)
AddRun(g, fr, i, row, name, n) ==
    /\ DOMAIN g = 0 .. n /\ \E V : g \in [0 .. n -> V]
    /\ g[0] = Good(fr)
    /\ \A k \in 1 .. n : g[k] = AddNext(g[k - 1], i, row, name, k)

LEMMA AddRuns ==
    ASSUME NEW fr, NEW i, NEW row, NEW name
    PROVE  \A n \in Nat : n >= 0 => \E g : AddRun(g, fr, i, row, name, n)
<1> DEFINE Step(a, k) == AddNext(a, i, row, name, k)
           base == Good(fr)
           P(n) == {m \in 0 .. n : \E g : AddRun(g, fr, i, row, name, m)}
<1>1. \A g, m : AddRun(g, fr, i, row, name, m) <=> /\ DOMAIN g = 0 .. m /\ \E V : g \in [0 .. m -> V]
                                           /\ g[0] = base
                                           /\ \A k \in 1 .. m : g[k] = Step(g[k - 1], k)
  BY Zenon DEF AddRun
<1> HIDE DEF Step, base
<1>2. \E g : AddRun(g, fr, i, row, name, 0)
  <2> DEFINE h == [k \in 0 .. 0 |-> base]
  <2>1. h \in [0 .. 0 -> {base}] /\ DOMAIN h = 0 .. 0 /\ h[0] = base
    OBVIOUS
  <2>2. 1 .. 0 = {}
    OBVIOUS
  <2> HIDE DEF h
  <2> QED
    BY <1>1, <2>1, <2>2
<1>3. ASSUME NEW m \in Nat, m >= 0, NEW g, AddRun(g, fr, i, row, name, m)
      PROVE  \E h : AddRun(h, fr, i, row, name, m + 1)
  <2> DEFINE h == [k \in 0 .. m + 1 |-> IF k = m + 1 THEN Step(g[m], m + 1) ELSE g[k]]
  <2>1. DOMAIN h = 0 .. m + 1 /\ h \in [0 .. m + 1 -> {h[k] : k \in 0 .. m + 1}]
    OBVIOUS
  <2>2. /\ h[0] = g[0] /\ h[m + 1] = Step(g[m], m + 1) /\ h[m] = g[m]
        /\ \A k \in 1 .. m : h[k] = g[k] /\ h[k - 1] = g[k - 1]
    BY <1>3
  <2> HIDE DEF h
  <2>3. \A k \in 1 .. m + 1 : h[k] = Step(h[k - 1], k)
    <3>1. \A k \in 1 .. m + 1 : k = m + 1 \/ k \in 1 .. m
      BY <1>3
    <3>2. \A k \in 1 .. m : g[k] = Step(g[k - 1], k)
      BY <1>1, <1>3
    <3> QED
      BY <2>2, <3>1, <3>2
  <2>4. h[0] = base
    BY <1>1, <1>3, <2>2
  <2>5. /\ DOMAIN h = 0 .. m + 1 /\ \E V : h \in [0 .. m + 1 -> V]
        /\ h[0] = base
        /\ \A k \in 1 .. m + 1 : h[k] = Step(h[k - 1], k)
    BY <2>1, <2>3, <2>4
  <2>6. AddRun(h, fr, i, row, name, m + 1)
    BY <1>1, <2>5, Zenon
  <2> QED
    BY <2>6
<1>4. ASSUME NEW n \in Nat, n >= 0
      PROVE  \E g : AddRun(g, fr, i, row, name, n)
  <2>1. 0 \in P(n)
    BY <1>2, <1>4
  <2>2. ASSUME NEW m \in 1 .. n, m - 1 \in P(n)
        PROVE  m \in P(n)
    <3>1. PICK g : AddRun(g, fr, i, row, name, m - 1)
      BY <2>2
    <3>2. m - 1 \in Nat /\ m - 1 >= 0 /\ (m - 1) + 1 = m /\ m \in 0 .. n
      OBVIOUS
    <3>3. \E h : AddRun(h, fr, i, row, name, (m - 1) + 1)
      BY <1>3, <3>1, <3>2
    <3>4. \E h : AddRun(h, fr, i, row, name, m)
      BY <3>2, <3>3
    <3> QED
      BY <3>2, <3>4
  <2> HIDE DEF P
  <2>3. 0 .. n \subseteq P(n)
    BY <1>4, <2>1, <2>2, AscentFromZero
  <2>4. n \in P(n)
    BY <1>4, <2>3
  <2> QED
    BY <2>4 DEF P
<1> QED
  BY <1>4

LEMMA OrderIsList ==
    ASSUME NEW S, IsFiniteSet(S)
    PROVE  IsList(SetToSeq(S)) /\ \A k \in 1 .. Len(SetToSeq(S)) : SetToSeq(S)[k] \in S
<1>1. Cardinality(S) \in Nat
  BY FS_CardinalityType
<1>2. PICK f \in Bijection(1 .. Cardinality(S), S) : TRUE
  BY FS_CardinalityType DEF ExistsBijection
<1>3. f \in [1 .. Cardinality(S) -> S] /\ \A a, b \in DOMAIN f : f[a] = f[b] => a = b
  BY <1>2 DEF Bijection, Injection, IsInjective
<1>4. SetToSeq(S) \in [1 .. Cardinality(S) -> S]
  BY <1>3 DEF SetToSeq, IsInjective
<1> QED
  BY <1>1, <1>4, FunctionIsList

LEMMA ItemOrderIsList == IsList(ItemOrder)
BY OrderIsList, PipelineAssumption DEF ItemOrder

LEMMA AddResult ==
    ASSUME NEW fr, NEW i, NEW row, NEW name, NEW recall
    PROVE  \E n \in Nat : \E g : AddRun(g, fr, i, row, name, n) /\ ColumnAdd(fr, i, row, name, recall) = g[n]
<1> DEFINE n == Len(ItemOrder) + (IF recall THEN 1 ELSE 0)
           Body(f) == [k \in 0 .. n |-> IF k = 0 THEN Good(fr) ELSE AddNext(f[k - 1], i, row, name, k)]
           g == CHOOSE f : f = Body(f)
<1>1. n \in Nat
  BY ItemOrderIsList, ListDomain
<1>2. ColumnAdd(fr, i, row, name, recall) = g[n]
  BY Zenon DEF ColumnAdd
<1> HIDE DEF n
<1>3. PICK f : AddRun(f, fr, i, row, name, n)
  BY <1>1, AddRuns
<1>4. f = Body(f)
  <2>1. \A k \in 0 .. n : k = 0 \/ k \in 1 .. n
    BY <1>1
  <2> QED
    BY <1>3, <2>1 DEF AddRun
<1>5. g = Body(g)
  BY <1>4, Zenon
<1>6. AddRun(g, fr, i, row, name, n)
  <2>1. g = [k \in 0 .. n |-> IF k = 0 THEN Good(fr) ELSE AddNext(g[k - 1], i, row, name, k)]
    BY <1>5
  <2> HIDE DEF g, Body
  <2>2. 0 \in 0 .. n /\ \A k \in 1 .. n : k \in 0 .. n /\ k # 0
    BY <1>1
  <2>3. g \in [0 .. n -> {g[k] : k \in 0 .. n}]
    BY <2>1
  <2> QED
    BY <2>1, <2>2, <2>3 DEF AddRun
<1> HIDE DEF g
<1> QED
  BY <1>1, <1>2, <1>6

---------------------------------------------------------------------------
(* Every operator's output, and what becomes of it before it is applied,   *)
(* is an OperatorOutput.                                                   *)

LEMMA EmptyIsOutput == IsOutput(EmptyOutput)
BY EmptyIsList DEF IsOutput, EmptyOutput, IsCommon, BlankCommon

LEMMA SetCommonIsOutput ==
    ASSUME NEW out, IsOutput(out), NEW f, NEW v
    PROVE  IsOutput(SetCommon(out, f, v))
<1>1. IsCommon([out.common_writes EXCEPT ![f] = v])
  BY DEF IsOutput, IsCommon
<1> HIDE DEF IsCommon, IsList, IsRow
<1> QED
  BY <1>1 DEF IsOutput, SetCommon

LEMMA WithItemsIsOutput ==
    ASSUME NEW out, IsOutput(out), NEW ws, IsList(ws)
    PROVE  IsOutput([out EXCEPT !.item_writes = ws])
BY DEF IsOutput

LEMMA WithRowsIsOutput ==
    ASSUME NEW out, IsOutput(out), NEW rows, IsList(rows), \A k \in 1 .. Len(rows) : IsRow(rows[k])
    PROVE  IsOutput([out EXCEPT !.added_items = rows])
BY DEF IsOutput

LEMMA SetColumnIsOutput ==
    ASSUME NEW out, IsOutput(out), NEW f, NEW vs, IsList(vs)
    PROVE  IsOutput(SetColumn(out, f, vs))
<1> DEFINE cs == out.column_writes
           c == [field |-> f, vals |-> vs]
           ds == Append(cs, c)
<1>1. IsList(cs) /\ \A k \in 1 .. Len(cs) : IsList(cs[k].vals)
  BY DEF IsOutput
<1>2. c.vals = vs
  OBVIOUS
<1>3. SetColumn(out, f, vs) = [out EXCEPT !.column_writes = ds]
  BY DEF SetColumn
<1> HIDE DEF c, cs
<1>4. /\ IsList(ds) /\ Len(ds) = Len(cs) + 1
      /\ \A k \in 1 .. Len(cs) : ds[k] = cs[k]
      /\ ds[Len(cs) + 1] = c
  BY <1>1, Appending
<1>5. \A k \in 1 .. Len(ds) : IsList(ds[k].vals)
  <2>1. Len(cs) \in Nat
    BY <1>1, ListDomain
  <2>2. \A k \in 1 .. Len(ds) : k \in 1 .. Len(cs) \/ k = Len(cs) + 1
    BY <1>4, <2>1
  <2> QED
    BY <1>1, <1>2, <1>4, <2>2
<1> HIDE DEF ds
<1> QED
  BY <1>3, <1>4, <1>5 DEF IsOutput

(* Removals, order and warning have no part in the type.                   *)
LEMMA SameWritesIsOutput ==
    ASSUME NEW out, IsOutput(out), NEW x, NEW y
    PROVE  /\ IsOutput([out EXCEPT !.removed_items = x])
           /\ IsOutput([out EXCEPT !.item_order = x, !.has_item_order = y])
           /\ IsOutput([out EXCEPT !.has_warning = x])
<1> HIDE DEF IsList, IsCommon, IsRow
<1>1. IsOutput([out EXCEPT !.removed_items = x])
  BY DEF IsOutput
<1>2. IsOutput([out EXCEPT !.item_order = x, !.has_item_order = y])
  <2> DEFINE new == [out EXCEPT !.item_order = x, !.has_item_order = y]
  <2>1. /\ new.common_writes = out.common_writes /\ new.item_writes = out.item_writes
        /\ new.column_writes = out.column_writes /\ new.added_items = out.added_items
    BY DEF IsOutput
  <2> DEFINE mid == [out EXCEPT !.item_order = x]
  <2>3. mid = [common_writes |-> out.common_writes, item_writes |-> out.item_writes,
               column_writes |-> out.column_writes, added_items |-> out.added_items,
               removed_items |-> out.removed_items, item_order |-> x,
               has_item_order |-> out.has_item_order, has_warning |-> out.has_warning]
    BY DEF IsOutput
  <2>4. new = [mid EXCEPT !.has_item_order = y]
    BY DEF IsOutput
  <2>5. new = [common_writes |-> out.common_writes, item_writes |-> out.item_writes,
               column_writes |-> out.column_writes, added_items |-> out.added_items,
               removed_items |-> out.removed_items, item_order |-> x,
               has_item_order |-> y, has_warning |-> out.has_warning]
    <3> HIDE DEF new, mid
    <3> QED
      BY <2>3, <2>4
  <2>6. new = [common_writes |-> new.common_writes, item_writes |-> new.item_writes,
               column_writes |-> new.column_writes, added_items |-> new.added_items,
               removed_items |-> new.removed_items, item_order |-> new.item_order,
               has_item_order |-> new.has_item_order, has_warning |-> new.has_warning]
    <3> HIDE DEF new
    <3> QED
      BY <2>5
  <2> HIDE DEF new
  <2>7. IsOutput(new)
    BY <2>1, <2>6 DEF IsOutput
  <2> QED
    BY <2>7, Zenon DEF new
<1>3. IsOutput([out EXCEPT !.has_warning = x])
  BY DEF IsOutput
<1> QED
  BY <1>1, <1>2, <1>3, Zenon

LEMMA MarkedIsOutput ==
    ASSUME NEW out, IsOutput(out)
    PROVE  /\ \A S : IsOutput(RemoveItems(out, S))
           /\ \A o : IsOutput(SetItemOrder(out, o))
           /\ IsOutput(SetWarning(out))
BY SameWritesIsOutput, Zenon DEF RemoveItems, SetItemOrder, SetWarning

LEMMA ResetIsOutput == \A out : IsOutput(Reset(out))
BY EmptyIsOutput DEF Reset

---------------------------------------------------------------------------
(* What an operator puts out, from what build_operator_input hands it.     *)

IsInput(in) == in.count \in Nat /\ \A f \in ItemFields : IsList(in.column[f])

LEMMA LoopIsOutput ==
    ASSUME NEW out, IsOutput(out), NEW n \in Nat, NEW ws, ws = [k \in 1 .. n |-> ws[k]], NEW S
    PROVE  IsOutput([out EXCEPT !.item_writes = Without(ws, S)])
<1>1. IsList(ws)
  BY FunctionIsList
<1>2. IsList(Without(ws, S))
  BY <1>1, WithoutIsList
<1> QED
  BY <1>2, WithItemsIsOutput

LEMMA Produced ==
    ASSUME NEW out, NEW e
    PROVE  Returns(out).out = out /\ Throws(out, e).out = out
BY DEF Returns, Throws

LEMMA ChosenOf ==
    ASSUME NEW S, S # {}
    PROVE  The(S) \in S
BY Zenon DEF The

LEMMA RecallsPutOut ==
    ASSUME NEW op, WellFormed(op), NEW in
    PROVE  /\ op.type_name = "recall_static" => IsOutput(RecallStatic(op, in).out)
           /\ op.type_name = "recall_resource" => IsOutput(RecallResource(op, in).out)
<1>1. ASSUME op.type_name = "recall_static"
      PROVE  IsOutput(RecallStatic(op, in).out)
  <2> DEFINE c == op.args.set_common
             rows == op.args.items
             mid == [EmptyOutput EXCEPT !.common_writes = c]
  <2>1. /\ IsCommon(c) /\ IsList(rows) /\ \A k \in 1 .. Len(rows) : IsRow(rows[k])
    BY <1>1 DEF WellFormed
  <2>2. RecallStatic(op, in).out = [mid EXCEPT !.added_items = rows]
    BY DEF RecallStatic, Returns, EmptyOutput
  <2> HIDE DEF c, rows
  <2>3. IsOutput(mid)
    BY <2>1, EmptyIsOutput DEF IsOutput
  <2> HIDE DEF mid
  <2> QED
    BY <2>1, <2>2, <2>3, WithRowsIsOutput
<1>2. ASSUME op.type_name = "recall_resource"
      PROVE  IsOutput(RecallResource(op, in).out)
  <2> DEFINE rows == op.args.resource.rows
             bad  == {k \in 1 .. Len(rows) : rows[k] = Absent}
             S    == {k \in 1 .. Len(rows) : \E b \in bad : b <= k}
             before == Without(rows, S)
             out  == [EmptyOutput EXCEPT !.added_items = before]
  <2>1. ASSUME op.args.resource.shape = "array"
        PROVE  IsOutput(out)
    <3>1. IsList(rows) /\ \A k \in 1 .. Len(rows) : rows[k] = Absent \/ IsRow(rows[k])
      BY <1>2, <2>1 DEF WellFormed
    <3> HIDE DEF rows
    <3>2. IsList(before) /\ \A k \in 1 .. Len(before) : IsRow(before[k])
      <4>1. PICK g : WithoutRun(g, rows, S, Len(rows)) /\ before = g[Len(rows)]
        BY <3>1, WithoutResult
      <4> DEFINE Fine(a) == IsList(a) /\ \A k \in 1 .. Len(a) : IsRow(a[k])
                 P == {k \in Nat : k \in 0 .. Len(rows) => Fine(g[k])}
      <4>2. Len(rows) \in Nat
        BY <3>1, ListDomain
      <4>3. 0 \in P
        BY <4>1, EmptyIsList DEF WithoutRun
      <4>4. ASSUME NEW k \in 1 .. Len(rows), k - 1 \in P
            PROVE  k \in P
        <5>1. Fine(g[k - 1])
          BY <4>2, <4>4
        <5>2. g[k] = IF k \in S THEN g[k - 1] ELSE Append(g[k - 1], rows[k])
          BY <4>1, <4>2 DEF WithoutRun
        <5>3. k \notin S => IsRow(rows[k])
          BY <3>1, <4>2
        <5> HIDE DEF S
        <5>4. Fine(g[k])
          <6>1. CASE k \in S
            BY <5>1, <5>2, <6>1
          <6>2. CASE k \notin S
            <7> DEFINE a == g[k - 1]
                       b == g[k]
            <7>1. b = Append(a, rows[k])
              BY <5>2, <6>2
            <7>2. Fine(a)
              BY <5>1
            <7> HIDE DEF a, b
            <7>3. /\ IsList(b) /\ Len(b) = Len(a) + 1
                  /\ \A j \in 1 .. Len(a) : b[j] = a[j]
                  /\ b[Len(a) + 1] = rows[k]
              BY <7>1, <7>2, Appending
            <7>4. Len(a) \in Nat
              BY <7>2, ListDomain
            <7>5. Fine(b)
              BY <5>3, <6>2, <7>2, <7>3, <7>4
            <7> QED
              BY <7>5 DEF b
          <6> QED
            BY <6>1, <6>2
        <5> QED
          BY <4>2, <5>4
      <4>5. 0 .. Len(rows) \subseteq P
        <5> HIDE DEF P
        <5> QED
          BY <4>2, <4>3, <4>4, AscentFromZero
      <4>6. Len(rows) \in P
        <5> HIDE DEF P
        <5> QED
          BY <4>2, <4>5
      <4>7. Fine(g[Len(rows)])
        BY <4>2, <4>6
      <4> HIDE DEF before
      <4> QED
        BY <4>1, <4>7
    <3> HIDE DEF before
    <3> QED
      BY <3>2, EmptyIsOutput, WithRowsIsOutput
  <2>2. \/ op.args.resource.shape # "array" /\ RecallResource(op, in) = Throws(EmptyOutput, "resource")
        \/ op.args.resource.shape = "array" /\ RecallResource(op, in) = Throws(out, "resource row")
        \/ op.args.resource.shape = "array" /\ RecallResource(op, in) = Returns(out)
    BY Zenon DEF RecallResource
  <2> HIDE DEF out
  <2> QED
    BY <2>1, <2>2, Produced, EmptyIsOutput
<1> QED
  BY <1>1, <1>2

LEMMA LoopsPutOut ==
    ASSUME NEW op, WellFormed(op), NEW in, IsInput(in)
    PROVE  /\ op.type_name = "transform_resource_lookup" => IsOutput(ResourceLookup(op, in).out)
           /\ IsOutput(CommonToItem(op, in).out)
           /\ op.type_name = "item_to_item" => IsOutput(ItemToItem(op, in).out)
           /\ op.type_name = "transform_normalize" => IsOutput(Normalize(op, in).out)
           /\ op.type_name = "transform_by_remote_pineapple" => IsOutput(RemotePineapple(op, in).out)
<1>1. ASSUME op.type_name = "transform_resource_lookup"
      PROVE  IsOutput(ResourceLookup(op, in).out)
  <2> DEFINE col == in.column[op.args.key]
             Answer(v) == IF IsNull(v) \/ LookupKey(v) \notin DOMAIN op.args.table THEN op.args.default
                          ELSE op.args.table[LookupKey(v)]
             ws == [i \in 1 .. Len(col) |-> [index |-> i, field |-> op.args.field, value |-> Answer(col[i])]]
             S  == {i \in 1 .. Len(col) : Answer(col[i]) = Absent}
  <2>1. ResourceLookup(op, in) = Returns([EmptyOutput EXCEPT !.item_writes = Without(ws, S)])
    BY Zenon DEF ResourceLookup, ForItems
  <2>2. IsList(col)
    BY <1>1 DEF WellFormed, IsInput
  <2>3. Len(col) \in Nat
    BY <2>2, ListDomain
  <2> HIDE DEF col, Answer, S
  <2>4. ws = [k \in 1 .. Len(col) |-> ws[k]]
    OBVIOUS
  <2> HIDE DEF ws
  <2> QED
    BY <2>1, <2>3, <2>4, LoopIsOutput, EmptyIsOutput, Produced
<1>2. IsOutput(CommonToItem(op, in).out)
  <2> DEFINE v == in.common[The(op.common_input \ op.skip)]
             ws == [i \in 1 .. in.count |-> [index |-> i, field |-> The(op.item_output), value |-> v]]
             S  == {i \in 1 .. in.count : FALSE}
  <2>1. CommonToItem(op, in) = Returns([EmptyOutput EXCEPT !.item_writes = Without(ws, S)])
    BY Zenon DEF CommonToItem, ForItems
  <2>2. in.count \in Nat
    BY DEF IsInput
  <2> HIDE DEF v, S
  <2>3. ws = [k \in 1 .. in.count |-> ws[k]]
    OBVIOUS
  <2> HIDE DEF ws
  <2> QED
    BY <2>1, <2>2, <2>3, LoopIsOutput, EmptyIsOutput, Produced
<1>3. ASSUME op.type_name = "item_to_item"
      PROVE  IsOutput(ItemToItem(op, in).out)
  <2> DEFINE col == in.column[The(op.item_input)]
             ws == [i \in 1 .. Len(col) |-> [index |-> i, field |-> The(op.item_output), value |-> col[i]]]
             S  == {i \in 1 .. Len(col) : FALSE}
  <2>1. ItemToItem(op, in) = Returns([EmptyOutput EXCEPT !.item_writes = Without(ws, S)])
    BY Zenon DEF ItemToItem, ForItems
  <2>2. op.item_input # {} /\ op.item_input \subseteq ItemFields
    BY <1>3 DEF WellFormed
  <2>3. Len(col) \in Nat
    BY <2>2, ChosenOf, ListDomain DEF IsInput
  <2> HIDE DEF col, S
  <2>4. ws = [k \in 1 .. Len(col) |-> ws[k]]
    OBVIOUS
  <2> HIDE DEF ws
  <2> QED
    BY <2>1, <2>3, <2>4, LoopIsOutput, EmptyIsOutput, Produced
<1>4. ASSUME op.type_name = "transform_normalize"
      PROVE  IsOutput(Normalize(op, in).out)
  <2> DEFINE col == in.column[The(op.item_input)]
             at  == {Quantity(v) : v \in ToSet(col)}
             low == CHOOSE x \in at : \A y \in at : x <= y
             top == CHOOSE x \in at : \A y \in at : x >= y
             Norm(v) == Number(IF top = low THEN 0 ELSE (2 * (Quantity(v) - low)) \div (top - low))
             vals == [i \in DOMAIN col |-> Norm(col[i])]
  <2>1. Normalize(op, in) \in {Returns(EmptyOutput), Throws(EmptyOutput, "not a number"),
                               Returns(SetColumn(EmptyOutput, The(op.item_output), vals))}
    <3>1. \/ Normalize(op, in) = Returns(EmptyOutput)
          \/ Normalize(op, in) = Throws(EmptyOutput, "not a number")
          \/ Normalize(op, in) = Returns(SetColumn(EmptyOutput, The(op.item_output), vals))
      BY Zenon DEF Normalize
    <3> QED
      BY <3>1, Zenon
  <2>2. op.item_input # {} /\ op.item_input \subseteq ItemFields
    BY <1>4 DEF WellFormed
  <2>3. Len(col) \in Nat /\ DOMAIN col = 1 .. Len(col)
    BY <2>2, ChosenOf, ListDomain DEF IsInput
  <2> HIDE DEF col, Norm
  <2>4. vals = [i \in 1 .. Len(col) |-> vals[i]]
    BY <2>3
  <2> HIDE DEF vals
  <2>5. IsList(vals)
    BY <2>3, <2>4, FunctionIsList
  <2>6. IsOutput(SetColumn(EmptyOutput, The(op.item_output), vals))
    BY <2>5, EmptyIsOutput, SetColumnIsOutput
  <2> QED
    BY <2>1, <2>6, EmptyIsOutput, Produced
<1>5. ASSUME op.type_name = "transform_by_remote_pineapple"
      PROVE  IsOutput(RemotePineapple(op, in).out)
  <2> DEFINE reply == op.args.reply
             rows == reply.rows
             n == IF in.count < Len(rows) THEN in.count ELSE Len(rows)
             common == IF op.common_output = {} \/ reply.common = Absent THEN EmptyOutput
                       ELSE SetCommon(EmptyOutput, The(op.common_output), reply.common)
             ws == [i \in 1 .. n |-> [index |-> i, field |-> The(op.item_output), value |-> rows[i]]]
             S  == {i \in 1 .. n : rows[i] = Absent}
             taken == [common EXCEPT !.item_writes = Without(ws, S)]
  <2>1. \/ op.args.reply.ok /\ RemotePineapple(op, in) = Returns(taken)
        \/ RemotePineapple(op, in) = Throws(EmptyOutput, "remote")
        \/ RemotePineapple(op, in) = Returns(SetWarning(EmptyOutput))
    <3>1. TakeReply(op, in, op.args.reply) = taken
      BY Zenon DEF TakeReply, ForItems
    <3> HIDE DEF taken
    <3> QED
      BY <3>1, Zenon DEF RemotePineapple
  <2>2. IsOutput(common)
    BY EmptyIsOutput, SetCommonIsOutput
  <2>3. ASSUME op.args.reply.ok
        PROVE  IsOutput(taken)
    <3>1. IsList(rows)
      BY <1>5, <2>3 DEF WellFormed
    <3>2. n \in Nat
      BY <3>1, ListDomain DEF IsInput
    <3> HIDE DEF n, S, rows, common
    <3>3. ws = [k \in 1 .. n |-> ws[k]]
      OBVIOUS
    <3> HIDE DEF ws
    <3> QED
      BY <2>2, <3>2, <3>3, LoopIsOutput
  <2> HIDE DEF taken
  <2> QED
    BY <2>1, <2>3, EmptyIsOutput, MarkedIsOutput, Produced
<1> QED
  BY <1>1, <1>2, <1>3, <1>4, <1>5

LEMMA OthersPutOut ==
    ASSUME NEW op, NEW in
    PROVE  /\ IsOutput(CommonToCommon(op, in).out) /\ IsOutput(ItemToCommon(op, in).out)
           /\ IsOutput(Size(op, in).out) /\ IsOutput(FilterCondition(op, in).out)
           /\ IsOutput(Truncate(op, in).out) /\ IsOutput(Paginate(op, in).out)
           /\ IsOutput(Sort(op, in).out) /\ IsOutput(Shuffle(op, in).out)
           /\ IsOutput(Dedup(op, in).out) /\ IsOutput(Observe(op, in).out)
<1>1. \A f, v : IsOutput(SetCommon(EmptyOutput, f, v))
  BY EmptyIsOutput, SetCommonIsOutput
<1>2. \A out, e : Returns(out).out = out /\ Throws(out, e).out = out
  BY Produced
<1>3. (\A S : IsOutput(RemoveItems(EmptyOutput, S))) /\ \A o : IsOutput(SetItemOrder(EmptyOutput, o))
  BY EmptyIsOutput, MarkedIsOutput
<1>4. IsOutput(CommonToCommon(op, in).out) /\ IsOutput(ItemToCommon(op, in).out) /\ IsOutput(Size(op, in).out)
  <2>1. IsOutput(CommonToCommon(op, in).out)
    BY <1>1, <1>2 DEF CommonToCommon
  <2>2. IsOutput(ItemToCommon(op, in).out)
    <3> DEFINE v == ArrayOf(in.column[The(op.item_input)])
    <3>1. ItemToCommon(op, in) = Returns(SetCommon(EmptyOutput, The(op.common_output), v))
      BY Zenon DEF ItemToCommon
    <3> HIDE DEF v
    <3> QED
      BY <1>1, <1>2, <3>1
  <2>3. IsOutput(Size(op, in).out)
    BY <1>1, <1>2 DEF Size
  <2> QED
    BY <2>1, <2>2, <2>3
<1>5. IsOutput(FilterCondition(op, in).out) /\ IsOutput(Paginate(op, in).out) /\ IsOutput(Dedup(op, in).out)
  <2>1. \E S : FilterCondition(op, in) = Returns(RemoveItems(EmptyOutput, S))
    BY Zenon DEF FilterCondition
  <2>2. \E S : Paginate(op, in) = Returns(RemoveItems(EmptyOutput, S))
    BY Zenon DEF Paginate
  <2>3. \E S : Dedup(op, in) = Returns(RemoveItems(EmptyOutput, S))
    BY Zenon DEF Dedup
  <2> QED
    BY <1>2, <1>3, <2>1, <2>2, <2>3
<1>6. IsOutput(Truncate(op, in).out)
  BY <1>2, <1>3, EmptyIsOutput, Zenon DEF Truncate
<1>7. IsOutput(Sort(op, in).out)
  <2>1. \/ Sort(op, in) = Returns(EmptyOutput)
        \/ \E e : Sort(op, in) = Throws(EmptyOutput, e)
        \/ \E o : Sort(op, in) = Returns(SetItemOrder(EmptyOutput, o))
    BY Zenon DEF Sort
  <2> QED
    BY <1>2, <1>3, <2>1, EmptyIsOutput
<1>8. IsOutput(Shuffle(op, in).out)
  <2>1. \/ Shuffle(op, in) = Returns(EmptyOutput)
        \/ \E o : Shuffle(op, in) = Returns(SetItemOrder(EmptyOutput, o))
    BY Zenon DEF Shuffle
  <2> QED
    BY <1>2, <1>3, <2>1, EmptyIsOutput
<1>9. IsOutput(Observe(op, in).out)
  BY <1>2, EmptyIsOutput, Zenon DEF Observe
<1> QED
  BY <1>4, <1>5, <1>6, <1>7, <1>8, <1>9

LEMMA ExecutePutsOut ==
    ASSUME NEW op, WellFormed(op), NEW in, IsInput(in)
    PROVE  IsOutput(Execute(op, in).out)
<1> DEFINE Fine(r) == IsOutput(r.out)
<1>1. /\ op.type_name = "recall_static" => Fine(RecallStatic(op, in))
      /\ op.type_name = "recall_resource" => Fine(RecallResource(op, in))
  BY RecallsPutOut
<1>2. /\ op.type_name = "transform_resource_lookup" => Fine(ResourceLookup(op, in))
      /\ Fine(CommonToItem(op, in))
      /\ op.type_name = "item_to_item" => Fine(ItemToItem(op, in))
      /\ op.type_name = "transform_normalize" => Fine(Normalize(op, in))
      /\ op.type_name = "transform_by_remote_pineapple" => Fine(RemotePineapple(op, in))
  BY LoopsPutOut
<1>3. /\ Fine(CommonToCommon(op, in)) /\ Fine(ItemToCommon(op, in)) /\ Fine(Size(op, in))
      /\ Fine(FilterCondition(op, in)) /\ Fine(Truncate(op, in)) /\ Fine(Paginate(op, in))
      /\ Fine(Sort(op, in)) /\ Fine(Shuffle(op, in)) /\ Fine(Dedup(op, in)) /\ Fine(Observe(op, in))
  BY OthersPutOut
<1>4. op.type_name = "custom" => Fine(CustomOperator(op, in))
  BY DEF WellFormed, CustomOperator
<1>5. op.type_name \in {"recall_static", "recall_resource", "transform_resource_lookup", "common_to_item",
                        "transform_dispatch", "common_to_common", "item_to_item", "item_to_common",
                        "transform_size", "transform_normalize", "filter_condition", "filter_truncate",
                        "filter_paginate", "reorder_sort", "reorder_shuffle_by_salt", "merge_dedup",
                        "observe_log", "transform_by_remote_pineapple", "custom"}
  BY DEF WellFormed
<1> HIDE DEF Fine
<1>6. Fine(Execute(op, in))
  BY <1>1, <1>2, <1>3, <1>4, <1>5 DEF Execute
<1> QED
  BY <1>6 DEF Fine

LEMMA ConcatenationElements ==
    ASSUME NEW s, NEW t, IsList(s), IsList(t)
    PROVE  /\ IsList(s \o t)
           /\ \A k \in 1 .. Len(s \o t) : \/ \E j \in 1 .. Len(s) : (s \o t)[k] = s[j]
                                        \/ \E j \in 1 .. Len(t) : (s \o t)[k] = t[j]
<1>1. Len(s) \in Nat /\ Len(t) \in Nat
  BY ListDomain
<1> DEFINE u == s \o t
<1>2. /\ IsList(u) /\ Len(u) = Len(s) + Len(t)
      /\ \A k \in 1 .. Len(s) + Len(t) : u[k] = IF k <= Len(s) THEN s[k] ELSE t[k - Len(s)]
  BY Concatenation
<1> HIDE DEF u
<1>3. ASSUME NEW k \in 1 .. Len(u)
      PROVE  \/ \E j \in 1 .. Len(s) : u[k] = s[j]
             \/ \E j \in 1 .. Len(t) : u[k] = t[j]
  <2>1. CASE k <= Len(s)
    BY <1>1, <1>2, <2>1
  <2>2. CASE ~(k <= Len(s))
    <3>1. k - Len(s) \in 1 .. Len(t) /\ u[k] = t[k - Len(s)]
      BY <1>1, <1>2, <2>2
    <3> QED
      BY <3>1
  <2> QED
    BY <2>1, <2>2
<1> QED
  BY <1>2, <1>3 DEF u

LEMMA OntoIsOutput ==
    ASSUME NEW buf, IsOutput(buf), NEW out, IsOutput(out)
    PROVE  IsOutput(Onto(buf, out))
<1> DEFINE new == Onto(buf, out)
           cs == buf.column_writes
           ds == out.column_writes
           rs == buf.added_items
           ts == out.added_items
<1>1. /\ new.common_writes = Overlay(buf.common_writes, out.common_writes)
      /\ new.item_writes = buf.item_writes \o out.item_writes
      /\ new.column_writes = cs \o ds
      /\ new.added_items = rs \o ts
  BY DEF Onto
<1>2. new = [common_writes |-> new.common_writes, item_writes |-> new.item_writes,
             column_writes |-> new.column_writes, added_items |-> new.added_items,
             removed_items |-> new.removed_items, item_order |-> new.item_order,
             has_item_order |-> new.has_item_order, has_warning |-> new.has_warning]
  <2> DEFINE Made(a, b, c, d, e, f, g, h) ==
               [common_writes |-> a, item_writes |-> b, column_writes |-> c, added_items |-> d,
                removed_items |-> e, item_order |-> f, has_item_order |-> g, has_warning |-> h]
  <2>1. \E a, b, c, d, e, f, g, h : new = Made(a, b, c, d, e, f, g, h)
    BY Zenon DEF Onto
  <2>2. PICK a, b, c, d, e, f, g, h : new = Made(a, b, c, d, e, f, g, h)
    BY <2>1, Zenon
  <2> HIDE DEF new
  <2> QED
    BY <2>2
<1> HIDE DEF new
<1>3. IsCommon(new.common_writes)
  BY <1>1 DEF Overlay, IsOutput, IsCommon
<1>4. IsList(new.item_writes)
  BY <1>1, Concatenation DEF IsOutput
<1>5. /\ IsList(cs) /\ IsList(ds) /\ IsList(rs) /\ IsList(ts)
      /\ \A k \in 1 .. Len(cs) : IsList(cs[k].vals)
      /\ \A k \in 1 .. Len(ds) : IsList(ds[k].vals)
      /\ \A k \in 1 .. Len(rs) : IsRow(rs[k])
      /\ \A k \in 1 .. Len(ts) : IsRow(ts[k])
  BY DEF IsOutput
<1> HIDE DEF cs, ds, rs, ts
<1>6. Len(cs) \in Nat /\ Len(ds) \in Nat /\ Len(rs) \in Nat /\ Len(ts) \in Nat
  BY <1>5, ListDomain
<1>7. IsList(new.column_writes) /\ \A k \in 1 .. Len(new.column_writes) : IsList(new.column_writes[k].vals)
  <2> DEFINE u == cs \o ds
  <2>1. IsList(u) /\ \A k \in 1 .. Len(u) : \/ \E j \in 1 .. Len(cs) : u[k] = cs[j]
                                          \/ \E j \in 1 .. Len(ds) : u[k] = ds[j]
    BY <1>5, ConcatenationElements
  <2> HIDE DEF u
  <2>2. \A k \in 1 .. Len(u) : IsList(u[k].vals)
    BY <1>5, <2>1
  <2> QED
    BY <1>1, <2>1, <2>2 DEF u
<1>8. IsList(new.added_items) /\ \A k \in 1 .. Len(new.added_items) : IsRow(new.added_items[k])
  <2> DEFINE u == rs \o ts
  <2>1. IsList(u) /\ \A k \in 1 .. Len(u) : \/ \E j \in 1 .. Len(rs) : u[k] = rs[j]
                                          \/ \E j \in 1 .. Len(ts) : u[k] = ts[j]
    BY <1>5, ConcatenationElements
  <2> HIDE DEF u
  <2>2. \A k \in 1 .. Len(u) : IsRow(u[k])
    BY <1>5, <2>1
  <2> QED
    BY <1>1, <2>1, <2>2 DEF u
<1>9. IsOutput(new)
  BY <1>2, <1>3, <1>4, <1>7, <1>8, Zenon DEF IsOutput
<1> QED
  BY <1>9 DEF new

LEMMA ShardWritesIsList ==
    ASSUME NEW src, IsOutput(src), NEW offset
    PROVE  IsList(ShardWrites(src, offset))
<1> DEFINE cs == src.column_writes
           ss == [k \in DOMAIN cs |-> SingleWrites(cs[k])]
           writes == src.item_writes \o FlattenSeq(ss)
           all == [k \in DOMAIN writes |-> [writes[k] EXCEPT !.index = @ + offset]]
<1>1. ShardWrites(src, offset) = all
  BY Zenon DEF ShardWrites
<1>2. IsList(cs) /\ \A k \in 1 .. Len(cs) : IsList(cs[k].vals)
  BY DEF IsOutput
<1> HIDE DEF cs
<1>3. Len(cs) \in Nat /\ DOMAIN cs = 1 .. Len(cs)
  BY <1>2, ListDomain
<1>4. \A k \in 1 .. Len(cs) : IsList(SingleWrites(cs[k]))
  <2> SUFFICES ASSUME NEW k \in 1 .. Len(cs)
               PROVE  IsList(SingleWrites(cs[k]))
    OBVIOUS
  <2> DEFINE vs == cs[k].vals
             ws == [i \in DOMAIN vs |-> [index |-> i, field |-> cs[k].field, value |-> vs[i]]]
  <2>1. SingleWrites(cs[k]) = ws
    BY Zenon DEF SingleWrites
  <2>2. Len(vs) \in Nat /\ DOMAIN vs = 1 .. Len(vs)
    BY <1>2, ListDomain
  <2> HIDE DEF vs
  <2>3. ws = [i \in 1 .. Len(vs) |-> ws[i]]
    BY <2>2
  <2> HIDE DEF ws
  <2> QED
    BY <2>1, <2>2, <2>3, FunctionIsList
<1>5. ss = [k \in 1 .. Len(cs) |-> ss[k]] /\ \A k \in 1 .. Len(cs) : ss[k] = SingleWrites(cs[k])
  BY <1>3
<1> HIDE DEF ss
<1>6. IsList(ss) /\ Len(ss) = Len(cs)
  BY <1>3, <1>5, FunctionIsList
<1>7. IsList(FlattenSeq(ss))
  BY <1>4, <1>5, <1>6, FlattenIsList
<1>8. IsList(writes)
  BY <1>7, Concatenation DEF IsOutput
<1> HIDE DEF writes
<1>9. Len(writes) \in Nat /\ DOMAIN writes = 1 .. Len(writes)
  BY <1>8, ListDomain
<1>10. all = [k \in 1 .. Len(writes) |-> all[k]]
  BY <1>9
<1> HIDE DEF all
<1> QED
  BY <1>1, <1>9, <1>10, FunctionIsList

LEMMA MergeShardsIsOutput ==
    ASSUME NEW dst, IsOutput(dst), NEW srcs, IsList(srcs),
           \A k \in 1 .. Len(srcs) : IsOutput(srcs[k]), NEW offsets
    PROVE  IsOutput(MergeShards(dst, srcs, offsets))
<1> DEFINE ss == [k \in DOMAIN srcs |-> ShardWrites(srcs[k], offsets[k])]
           ws == dst.item_writes \o FlattenSeq(ss)
           x  == dst.removed_items \cup UNION {{i + offsets[k] : i \in srcs[k].removed_items} : k \in DOMAIN srcs}
           y  == dst.has_warning \/ \E k \in DOMAIN srcs : srcs[k].has_warning
           one == [dst EXCEPT !.item_writes = ws]
           two == [one EXCEPT !.removed_items = x]
           three == [two EXCEPT !.has_warning = y]
<1>1. Len(srcs) \in Nat /\ DOMAIN srcs = 1 .. Len(srcs)
  BY ListDomain
<1>2. ss = [k \in 1 .. Len(srcs) |-> ss[k]] /\ \A k \in 1 .. Len(srcs) : ss[k] = ShardWrites(srcs[k], offsets[k])
  BY <1>1
<1>3. MergeShards(dst, srcs, offsets) = [dst EXCEPT !.item_writes = ws, !.removed_items = x, !.has_warning = y]
  BY Zenon DEF MergeShards
<1> HIDE DEF ss
<1>4. IsList(ss) /\ Len(ss) = Len(srcs)
  BY <1>1, <1>2, FunctionIsList
<1>5. IsList(FlattenSeq(ss))
  BY <1>2, <1>4, FlattenIsList, ShardWritesIsList
<1>6. IsList(ws)
  BY <1>5, Concatenation DEF IsOutput
<1> HIDE DEF ws, x, y
<1>7. IsOutput(one)
  BY <1>6, WithItemsIsOutput
<1> HIDE DEF one
<1>8. IsOutput(two)
  BY <1>7, SameWritesIsOutput
<1> HIDE DEF two
<1>9. IsOutput(three)
  BY <1>8, SameWritesIsOutput
<1>10. [dst EXCEPT !.item_writes = ws, !.removed_items = x, !.has_warning = y] = three
  BY DEF one, two, IsOutput
<1> QED
  BY <1>3, <1>9, <1>10

LEMMA ShardViewsCounted ==
    ASSUME NEW total \in Nat, NEW n \in Nat, n # 0
    PROVE  /\ IsList(ShardViews(total, n))
           /\ \A k \in 1 .. Len(ShardViews(total, n)) : ShardViews(total, n)[k].count \in Nat
<1> DEFINE Share(k) == total \div n + (IF k <= total % n THEN 1 ELSE 0)
           cursor == CHOOSE c : c = [k \in 0 .. n |-> IF k = 0 THEN 0 ELSE c[k - 1] + Share(k)]
           vs == [k \in 1 .. n |-> [offset |-> cursor[k - 1], count |-> Share(k)]]
<1>1. ShardViews(total, n) = vs
  BY Zenon DEF ShardViews
<1> HIDE DEF cursor
<1>2. \A k \in 1 .. n : Share(k) \in Nat
  BY Z3
<1> HIDE DEF Share
<1>3. vs = [k \in 1 .. n |-> vs[k]] /\ \A k \in 1 .. n : vs[k].count = Share(k)
  OBVIOUS
<1> HIDE DEF vs
<1>4. IsList(vs) /\ Len(vs) = n
  BY <1>3, FunctionIsList
<1> QED
  BY <1>1, <1>2, <1>3, <1>4

LEMMA LeastOfTwo ==
    ASSUME NEW a \in Nat, NEW b \in Nat
    PROVE  Min({a, b}) \in {a, b}
<1>1. \E x \in {a, b} : \A y \in {a, b} : x <= y
  OBVIOUS
<1> QED
  BY <1>1, Zenon DEF Min

---------------------------------------------------------------------------
(* The frame: what each part of apply_output may change.                   *)

IsRowFrame(fr) ==
    /\ fr = [layout |-> "row", common |-> fr.common, items |-> fr.items]
    /\ IsCommon(fr.common)
    /\ IsList(fr.items) /\ \A k \in 1 .. Len(fr.items) : IsRow(fr.items[k])
IsColumns(cols) == cols = [f \in ItemFields |-> cols[f]]
IsColumnFrame(fr) ==
    /\ fr = [layout |-> "column", common |-> fr.common, n |-> fr.n, cols |-> fr.cols]
    /\ IsCommon(fr.common)
    /\ fr.n \in Nat
    /\ IsColumns(fr.cols)
IsFrame(fr) == IsRowFrame(fr) \/ IsColumnFrame(fr)

(* g holds the same items as fr, but for the fields F.                     *)
SameItems(fr, g, F) ==
    /\ fr.layout = "row" =>
          /\ Len(g.items) = Len(fr.items)
          /\ \A s \in 1 .. Len(fr.items) : \A f \in ItemFields \ F : g.items[s][f] = fr.items[s][f]
    /\ fr.layout # "row" =>
          /\ g.n = fr.n
          /\ \A f \in ItemFields \ F : g.cols[f] = fr.cols[f]

(* From fr to g nothing has changed but the common fields C and, unless    *)
(* rows were moved, the item fields F.                                     *)
Within(fr, g, C, F, way) ==
    /\ IsFrame(g) /\ g.layout = fr.layout
    /\ \A f \in CommonFields \ C : g.common[f] = fr.common[f]
    /\ way # "stays" \/ SameItems(fr, g, F)

(* A part that writes no more than that.                                   *)
Fits(part, C, F, way) ==
    \/ part.what = "common" /\ (part.arg.value # Absent => part.arg.field \in C)
    \/ part.what = "item" /\ (way = "moves" \/ part.arg.field \in F)
    \/ part.what = "column" /\ IsList(part.arg.vals) /\ (way = "moves" \/ part.arg.field \in F)
    \/ part.what = "remove" /\ way \in {"moves", "thins"}
    \/ part.what = "order" /\ way \in {"moves", "permutes"}
    \/ part.what = "extend" /\ way \in {"moves", "grows"} /\ part.arg \in Nat
    \/ part.what = "add" /\ way \in {"moves", "grows"} /\ IsRow(part.arg.row)

Rebuilt(fr, n, cols) == [fr EXCEPT !.n = n, !.cols = cols]

LEMMA WithinItself ==
    ASSUME NEW fr, IsFrame(fr), NEW C, NEW F, NEW way
    PROVE  Within(fr, fr, C, F, way)
BY DEF Within, SameItems

LEMMA WithinTransitive ==
    ASSUME NEW fr, NEW g, NEW h, NEW C, NEW F, NEW way,
           Within(fr, g, C, F, way), Within(g, h, C, F, way)
    PROVE  Within(fr, h, C, F, way)
<1> HIDE DEF IsFrame
<1>1. CASE way # "stays"
  BY <1>1 DEF Within
<1>2. CASE way = "stays"
  <2>1. SameItems(fr, g, F) /\ SameItems(g, h, F) /\ g.layout = fr.layout
    BY <1>2 DEF Within
  <2>2. SameItems(fr, h, F)
    BY <2>1 DEF SameItems
  <2> QED
    BY <2>2 DEF Within
<1> QED
  BY <1>1, <1>2

LEMMA Outcomes ==
    ASSUME NEW fr, NEW e
    PROVE  Good(fr).frame = fr /\ Bad(fr, e).frame = fr
BY DEF Good, Bad

LEMMA LayoutOf ==
    ASSUME NEW fr
    PROVE  /\ IsRowFrame(fr) => fr.layout = "row"
           /\ IsColumnFrame(fr) => fr.layout = "column"
           /\ IsFrame(fr) => IF fr.layout = "row" THEN IsRowFrame(fr) ELSE IsColumnFrame(fr)
<1>1. IsRowFrame(fr) => fr.layout = "row"
  BY DEF IsRowFrame
<1>2. IsColumnFrame(fr) => fr.layout = "column"
  BY DEF IsColumnFrame
<1> HIDE DEF IsRowFrame, IsColumnFrame
<1> QED
  BY <1>1, <1>2 DEF IsFrame

LEMMA CommonWithin ==
    ASSUME NEW fr, IsFrame(fr), NEW w, NEW C, w.value # Absent => w.field \in C, NEW F, NEW way
    PROVE  Within(fr, WriteCommon(fr, w).frame, C, F, way)
<1> DEFINE g == [fr EXCEPT !.common[w.field] = w.value]
<1>1. \/ WriteCommon(fr, w).frame = fr
      \/ w.value # Absent /\ WriteCommon(fr, w).frame = g
  BY DEF WriteCommon, Good, Bad
<1>2. ASSUME w.field \in C
      PROVE  Within(fr, g, C, F, way)
  <2> HIDE DEF IsList, IsRow
  <2>1. IsFrame(g) /\ g.layout = fr.layout
    <3>1. CASE IsRowFrame(fr)
      BY <3>1 DEF IsFrame, IsRowFrame, IsCommon
    <3>2. CASE IsColumnFrame(fr)
      BY <3>2 DEF IsFrame, IsColumnFrame, IsCommon
    <3> QED
      BY <3>1, <3>2 DEF IsFrame
  <2>2. \A f \in CommonFields \ C : g.common[f] = fr.common[f]
    BY <1>2 DEF IsFrame, IsRowFrame, IsColumnFrame, IsCommon
  <2>3. SameItems(fr, g, F)
    BY DEF IsFrame, IsRowFrame, IsColumnFrame, SameItems
  <2> QED
    BY <2>1, <2>2, <2>3 DEF Within
<1> HIDE DEF g
<1> QED
  BY <1>1, <1>2, WithinItself

LEMMA RowsWithin ==
    ASSUME NEW fr, IsRowFrame(fr), NEW rows, IsList(rows), \A k \in 1 .. Len(rows) : IsRow(rows[k]),
           NEW C, NEW F, NEW way,
           way = "stays" => /\ Len(rows) = Len(fr.items)
                     /\ \A s \in 1 .. Len(fr.items) : \A f \in ItemFields \ F : rows[s][f] = fr.items[s][f]
    PROVE  Within(fr, [fr EXCEPT !.items = rows], C, F, way)
<1> DEFINE g == [fr EXCEPT !.items = rows]
<1> HIDE DEF IsList, IsRow, IsCommon
<1>1. /\ g = [layout |-> "row", common |-> fr.common, items |-> rows]
      /\ fr.layout = "row" /\ IsCommon(fr.common)
  BY DEF IsRowFrame
<1> HIDE DEF g
<1>2. IsFrame(g) /\ g.layout = fr.layout /\ g.common = fr.common /\ g.items = rows
  BY <1>1 DEF IsFrame, IsRowFrame
<1>3. way = "stays" => SameItems(fr, g, F)
  BY <1>1, <1>2 DEF SameItems
<1>4. Within(fr, g, C, F, way)
  BY <1>2, <1>3 DEF Within
<1> QED
  BY <1>4 DEF g

LEMMA ColumnsWithin ==
    ASSUME NEW fr, IsColumnFrame(fr), NEW n \in Nat, NEW cols, IsColumns(cols),
           NEW C, NEW F, NEW way,
           way = "stays" => n = fr.n /\ \A f \in ItemFields \ F : cols[f] = fr.cols[f]
    PROVE  Within(fr, Rebuilt(fr, n, cols), C, F, way)
<1> DEFINE g == [fr EXCEPT !.n = n, !.cols = cols]
<1> HIDE DEF IsList, IsRow, IsCommon, IsColumns
<1>1. /\ g = [layout |-> "column", common |-> fr.common, n |-> n, cols |-> cols]
      /\ fr.layout = "column" /\ IsCommon(fr.common)
  <2> DEFINE mid == [fr EXCEPT !.n = n]
  <2>1. /\ mid = [layout |-> "column", common |-> fr.common, n |-> n, cols |-> fr.cols]
        /\ fr.layout = "column" /\ IsCommon(fr.common)
    BY DEF IsColumnFrame
  <2>2. g = [mid EXCEPT !.cols = cols]
    BY DEF IsColumnFrame
  <2> HIDE DEF g, mid
  <2> QED
    BY <2>1, <2>2
<1> HIDE DEF g
<1>2. IsFrame(g) /\ g.layout = fr.layout /\ g.common = fr.common /\ g.n = n /\ g.cols = cols
  BY <1>1 DEF IsFrame, IsColumnFrame
<1>3. way = "stays" => SameItems(fr, g, F)
  BY <1>1, <1>2 DEF SameItems
<1>4. Within(fr, g, C, F, way)
  BY <1>2, <1>3 DEF Within
<1> QED
  BY <1>4 DEF g, Rebuilt

LEMMA RowWritesWithin ==
    ASSUME NEW fr, IsRowFrame(fr), NEW w, NEW C, NEW F, NEW way, way = "moves" \/ w.field \in F
    PROVE  /\ Within(fr, RowWriteItem(fr, w).frame, C, F, way)
           /\ IsList(w.vals) => Within(fr, RowWriteColumn(fr, w).frame, C, F, way)
<1> DEFINE items == fr.items
<1>1. IsList(items) /\ \A k \in 1 .. Len(items) : IsRow(items[k])
  BY DEF IsRowFrame
<1>2. Len(items) \in Nat /\ DOMAIN items = 1 .. Len(items) /\ items = [k \in 1 .. Len(items) |-> items[k]]
  BY <1>1, ListDomain DEF IsList
<1>3. Within(fr, fr, C, F, way)
  BY WithinItself DEF IsFrame
<1>4. Within(fr, RowWriteItem(fr, w).frame, C, F, way)
  <2> DEFINE i == w.index
             rows == [items EXCEPT ![i] = [@ EXCEPT ![w.field] = w.value]]
  <2>1. \/ RowWriteItem(fr, w).frame = fr
        \/ i \in 1 .. Len(items) /\ RowWriteItem(fr, w).frame = [fr EXCEPT !.items = rows]
    <3>1. [fr EXCEPT !.items[w.index][w.field] = w.value] = [fr EXCEPT !.items = rows]
      BY DEF IsRowFrame
    <3> HIDE DEF rows
    <3> QED
      BY <3>1 DEF RowWriteItem, RowCount, Good, Bad
  <2>2. ASSUME i \in 1 .. Len(items)
        PROVE  Within(fr, [fr EXCEPT !.items = rows], C, F, way)
    <3> HIDE DEF items, i
    <3>1. rows = [k \in 1 .. Len(items) |-> rows[k]]
      BY <1>2
    <3>2. \A k \in 1 .. Len(items) : rows[k] = IF k = i THEN [items[i] EXCEPT ![w.field] = w.value] ELSE items[k]
      BY <1>2, <2>2
    <3> HIDE DEF rows
    <3>3. IsList(rows) /\ Len(rows) = Len(items)
      BY <1>2, <3>1, FunctionIsList
    <3>4. IsRow([items[i] EXCEPT ![w.field] = w.value])
      BY <1>1, <2>2 DEF IsRow
    <3>5. \A k \in 1 .. Len(rows) : IsRow(rows[k])
      BY <1>1, <3>2, <3>3, <3>4
    <3>6. way = "stays" => \A s \in 1 .. Len(items) : \A f \in ItemFields \ F : rows[s][f] = items[s][f]
      <4>1. \A f \in ItemFields \ {w.field} : [items[i] EXCEPT ![w.field] = w.value][f] = items[i][f]
        BY <1>1, <2>2 DEF IsRow
      <4> QED
        BY <3>2, <4>1
    <3> QED
      BY <3>3, <3>5, <3>6, RowsWithin DEF items
  <2> HIDE DEF rows, items
  <2> QED
    BY <1>3, <2>1, <2>2
<1>5. ASSUME IsList(w.vals)
      PROVE  Within(fr, RowWriteColumn(fr, w).frame, C, F, way)
  <2> DEFINE rows == [i \in DOMAIN items |-> [items[i] EXCEPT ![w.field] = w.vals[i]]]
  <2>1. \/ RowWriteColumn(fr, w).frame = fr
        \/ RowWriteColumn(fr, w).frame = [fr EXCEPT !.items = rows]
    <3>1. [fr EXCEPT !.items = [i \in DOMAIN @ |-> [@[i] EXCEPT ![w.field] = w.vals[i]]]] = [fr EXCEPT !.items = rows]
      BY DEF IsRowFrame
    <3> HIDE DEF rows
    <3> QED
      BY <3>1 DEF RowWriteColumn, Good, Bad
  <2>2. Within(fr, [fr EXCEPT !.items = rows], C, F, way)
    <3> HIDE DEF items
    <3>1. rows = [k \in 1 .. Len(items) |-> rows[k]]
      BY <1>2
    <3>2. \A k \in 1 .. Len(items) : rows[k] = [items[k] EXCEPT ![w.field] = w.vals[k]]
      BY <1>2
    <3> HIDE DEF rows
    <3>3. IsList(rows) /\ Len(rows) = Len(items)
      BY <1>2, <3>1, FunctionIsList
    <3>4. \A k \in 1 .. Len(rows) : IsRow(rows[k])
      BY <1>1, <3>2, <3>3 DEF IsRow
    <3>5. way = "stays" => \A s \in 1 .. Len(items) : \A f \in ItemFields \ F : rows[s][f] = items[s][f]
      BY <1>1, <3>2 DEF IsRow
    <3> QED
      BY <3>3, <3>4, <3>5, RowsWithin DEF items
  <2> HIDE DEF rows, items
  <2> QED
    BY <1>3, <2>1, <2>2
<1> QED
  BY <1>4, <1>5

LEMMA RowMovesWithin ==
    ASSUME NEW fr, IsRowFrame(fr), NEW C, NEW F, NEW way, way # "stays"
    PROVE  /\ \A S : Within(fr, RowRemove(fr, S).frame, C, F, way)
           /\ \A order : Within(fr, RowReorder(fr, order, OrderError(order, RowCount(fr))).frame, C, F, way)
           /\ \A row, name, recall : IsRow(row) => Within(fr, RowAdd(fr, row, name, recall).frame, C, F, way)
<1> DEFINE items == fr.items
<1>1. IsList(items) /\ \A k \in 1 .. Len(items) : IsRow(items[k])
  BY DEF IsRowFrame
<1>2. Len(items) \in Nat /\ DOMAIN items = 1 .. Len(items)
  BY <1>1, ListDomain
<1>3. Within(fr, fr, C, F, way)
  BY WithinItself DEF IsFrame
<1>4. ASSUME NEW rows, IsList(rows), \A k \in 1 .. Len(rows) : IsRow(rows[k])
      PROVE  Within(fr, [fr EXCEPT !.items = rows], C, F, way)
  BY <1>4, RowsWithin
<1>5. ASSUME NEW S
      PROVE  Within(fr, RowRemove(fr, S).frame, C, F, way)
  <2> DEFINE rows == Without(items, S)
  <2>1. RowRemove(fr, S).frame = fr \/ RowRemove(fr, S).frame = [fr EXCEPT !.items = rows]
    BY DEF RowRemove, Good, Bad, IsRowFrame
  <2>2. IsList(rows) /\ \A k \in 1 .. Len(rows) : IsRow(rows[k])
    <3>1. /\ IsList(rows)
          /\ \A k \in 1 .. Len(rows) : \E j \in 1 .. Len(items) : rows[k] = items[j]
      BY <1>1, WithoutIsList
    <3> HIDE DEF rows, items
    <3> QED
      BY <1>1, <3>1
  <2> HIDE DEF rows
  <2> QED
    BY <1>3, <1>4, <2>1, <2>2
<1>6. ASSUME NEW order
      PROVE  Within(fr, RowReorder(fr, order, OrderError(order, RowCount(fr))).frame, C, F, way)
  <2> DEFINE rows == [k \in DOMAIN items |-> items[order[k]]]
             e == OrderError(order, RowCount(fr))
  <2>1. \/ RowReorder(fr, order, e).frame = fr
        \/ e = "none" /\ RowReorder(fr, order, e).frame = [fr EXCEPT !.items = rows]
    <3> HIDE DEF e
    <3> QED
      BY DEF RowReorder, Good, Bad, IsRowFrame
  <2>2. ASSUME e = "none"
        PROVE  IsList(rows) /\ \A k \in 1 .. Len(rows) : IsRow(rows[k])
    <3>1. \A k \in 1 .. Len(items) : order[k] \in 1 .. Len(items)
      BY <2>2 DEF OrderError, RowCount
    <3> HIDE DEF items, e
    <3>2. rows = [k \in 1 .. Len(items) |-> rows[k]] /\ \A k \in 1 .. Len(items) : rows[k] = items[order[k]]
      BY <1>2
    <3> HIDE DEF rows
    <3>3. IsList(rows) /\ Len(rows) = Len(items)
      BY <1>2, <3>2, FunctionIsList
    <3> QED
      BY <1>1, <3>1, <3>2, <3>3
  <2> HIDE DEF rows, e
  <2>3. Within(fr, RowReorder(fr, order, e).frame, C, F, way)
    BY <1>3, <1>4, <2>1, <2>2
  <2> QED
    BY <2>3 DEF e
<1>7. ASSUME NEW row, NEW name, NEW recall, IsRow(row)
      PROVE  Within(fr, RowAdd(fr, row, name, recall).frame, C, F, way)
  <2> DEFINE new == IF recall THEN [row EXCEPT ![Source] = NameOf(name)] ELSE row
             rows == Append(items, new)
  <2>1. \/ RowAdd(fr, row, name, recall).frame = fr
        \/ RowAdd(fr, row, name, recall).frame = [fr EXCEPT !.items = rows]
    <3>1. [fr EXCEPT !.items = Append(@, IF recall THEN [row EXCEPT ![Source] = NameOf(name)] ELSE row)]
            = [fr EXCEPT !.items = rows]
      BY DEF IsRowFrame
    <3> HIDE DEF rows, new
    <3> QED
      BY <3>1 DEF RowAdd, Good, Bad
  <2>2. IsRow(new)
    BY <1>7 DEF IsRow
  <2> HIDE DEF new, items
  <2>3. /\ IsList(rows) /\ Len(rows) = Len(items) + 1
        /\ \A k \in 1 .. Len(items) : rows[k] = items[k]
        /\ rows[Len(items) + 1] = new
    BY <1>1, Appending
  <2> HIDE DEF rows
  <2>4. \A k \in 1 .. Len(rows) : IsRow(rows[k])
    BY <1>1, <1>2, <2>2, <2>3
  <2> QED
    BY <1>3, <1>4, <2>1, <2>3, <2>4
<1> QED
  BY <1>5, <1>6, <1>7

LEMMA RowPartWithin ==
    ASSUME NEW fr, IsRowFrame(fr), NEW part, NEW C, NEW F, NEW way, Fits(part, C, F, way),
           NEW name, NEW recall
    PROVE  Within(fr, RowPart(fr, part, name, recall).frame, C, F, way)
<1>1. IsFrame(fr)
  BY DEF IsFrame
<1> DEFINE Fine(r) == Within(fr, r.frame, C, F, way)
<1>2. part.what = "common" => Fine(WriteCommon(fr, part.arg))
  BY <1>1, CommonWithin DEF Fits
<1>3. /\ part.what = "item" => Fine(RowWriteItem(fr, part.arg))
      /\ part.what = "column" => Fine(RowWriteColumn(fr, part.arg))
  BY RowWritesWithin DEF Fits
<1>4. /\ part.what = "remove" => Fine(RowRemove(fr, part.arg))
      /\ part.what = "order" => Fine(RowReorder(fr, part.arg, OrderError(part.arg, RowCount(fr))))
      /\ part.what = "add" => Fine(RowAdd(fr, part.arg.row, name, recall))
  BY RowMovesWithin DEF Fits
<1>5. part.what = "extend" => Fine(Good(fr))
  BY <1>1, WithinItself, Outcomes
<1>6. part.what \in {"common", "item", "column", "remove", "order", "extend", "add"}
  BY DEF Fits
<1> HIDE DEF Fine
<1>7. Fine(RowPart(fr, part, name, recall))
  BY <1>2, <1>3, <1>4, <1>5, <1>6 DEF RowPart
<1> QED
  BY <1>7 DEF Fine

LEMMA CellWithin ==
    ASSUME NEW fr, IsColumnFrame(fr), NEW h, NEW x, NEW C, NEW F, NEW way, way # "stays" \/ h \in F
    PROVE  Within(fr, [fr EXCEPT !.cols[h] = x], C, F, way)
<1> DEFINE cols == [fr.cols EXCEPT ![h] = x]
<1>1. fr.n \in Nat /\ IsColumns(fr.cols)
  BY DEF IsColumnFrame
<1>2. IsColumns(cols) /\ \A f \in ItemFields \ {h} : cols[f] = fr.cols[f]
  BY <1>1 DEF IsColumns
<1>3. [fr EXCEPT !.cols[h] = x] = Rebuilt(fr, fr.n, cols)
  BY DEF IsColumnFrame, Rebuilt
<1> HIDE DEF cols
<1> DEFINE m == fr.n
<1>4. way = "stays" => m = fr.n /\ \A f \in ItemFields \ F : cols[f] = fr.cols[f]
  BY <1>2
<1>5. m \in Nat
  BY <1>1
<1> HIDE DEF m
<1>6. Within(fr, Rebuilt(fr, m, cols), C, F, way)
  BY <1>2, <1>4, <1>5, ColumnsWithin
<1> QED
  BY <1>3, <1>6 DEF m

LEMMA WriteCellWithin ==
    ASSUME NEW fr, IsColumnFrame(fr), NEW i, NEW f, NEW v, NEW C, NEW F, NEW way, way # "stays" \/ f \in F
    PROVE  Within(fr, WriteCell(fr, i, f, v), C, F, way)
<1>1. \E x : WriteCell(fr, i, f, v) = [fr EXCEPT !.cols[f] = x]
  BY Zenon DEF WriteCell
<1>2. PICK x : WriteCell(fr, i, f, v) = [fr EXCEPT !.cols[f] = x]
  BY <1>1
<1>3. Within(fr, [fr EXCEPT !.cols[f] = x], C, F, way)
  BY CellWithin
<1> QED
  BY <1>2, <1>3, Zenon

LEMMA ColumnWritesWithin ==
    ASSUME NEW fr, IsColumnFrame(fr), NEW w, NEW C, NEW F, NEW way, way # "stays" \/ w.field \in F
    PROVE  /\ Within(fr, ColumnWriteItem(fr, w).frame, C, F, way)
           /\ Within(fr, ColumnWriteColumn(fr, w).frame, C, F, way)
<1>1. Within(fr, fr, C, F, way)
  BY WithinItself DEF IsFrame
<1>2. Within(fr, ColumnWriteItem(fr, w).frame, C, F, way)
  <2>1. \/ ColumnWriteItem(fr, w).frame = fr
        \/ ColumnWriteItem(fr, w).frame = WriteCell(fr, w.index, w.field, w.value)
    BY DEF ColumnWriteItem, Good, Bad
  <2> QED
    BY <1>1, <2>1, WriteCellWithin
<1>3. Within(fr, ColumnWriteColumn(fr, w).frame, C, F, way)
  <2> DEFINE x == [type |-> "double", data |-> w.vals, present |-> [i \in DOMAIN w.vals |-> TRUE]]
  <2>1. \/ ColumnWriteColumn(fr, w) = Bad(fr, "column length")
        \/ ColumnWriteColumn(fr, w) = Bad(fr, "item value")
        \/ ColumnWriteColumn(fr, w) = Good([fr EXCEPT !.cols[w.field] = x])
    BY Zenon DEF ColumnWriteColumn
  <2> HIDE DEF x
  <2>2. Within(fr, [fr EXCEPT !.cols[w.field] = x], C, F, way)
    BY CellWithin
  <2> DEFINE g == [fr EXCEPT !.cols[w.field] = x]
  <2>3. Within(fr, g, C, F, way)
    BY <2>2
  <2>4. \/ ColumnWriteColumn(fr, w) = Bad(fr, "column length")
        \/ ColumnWriteColumn(fr, w) = Bad(fr, "item value")
        \/ ColumnWriteColumn(fr, w) = Good(g)
    BY <2>1
  <2> HIDE DEF g
  <2> QED
    BY <1>1, <2>3, <2>4, Outcomes
<1> QED
  BY <1>2, <1>3

LEMMA FirstNumbers == \A n \in Nat : IsFiniteSet(1 .. n) /\ Cardinality(1 .. n) = n
BY FS_Interval

LEMMA ColumnMovesWithin ==
    ASSUME NEW fr, IsColumnFrame(fr), NEW C, NEW F, NEW way, way # "stays"
    PROVE  /\ \A S : Within(fr, ColumnRemove(fr, S).frame, C, F, way)
           /\ \A order, e : Within(fr, ColumnReorder(fr, order, e).frame, C, F, way)
           /\ \A n \in Nat : Within(fr, Extend(fr, n), C, F, way)
<1>1. Within(fr, fr, C, F, way)
  BY WithinItself DEF IsFrame
<1>2. fr.n \in Nat
  BY DEF IsColumnFrame
<1>3. ASSUME NEW n \in Nat, NEW cols, IsColumns(cols)
      PROVE  Within(fr, Rebuilt(fr, n, cols), C, F, way)
  BY <1>3, ColumnsWithin
<1>4. ASSUME NEW S
      PROVE  Within(fr, ColumnRemove(fr, S).frame, C, F, way)
  <2> DEFINE n == fr.n - Cardinality(S)
             cols == [f \in ItemFields |->
                        IF fr.cols[f] = NoColumn THEN NoColumn
                        ELSE [fr.cols[f] EXCEPT !.data = CompactSeq(@, S), !.present = CompactSeq(@, S)]]
  <2>1. \/ ColumnRemove(fr, S) = Bad(fr, "remove index")
        \/ S \subseteq 1 .. fr.n /\ ColumnRemove(fr, S) = Good(Rebuilt(fr, n, cols))
    BY Zenon DEF ColumnRemove, OnRows, Rebuilt
  <2>2. S \subseteq 1 .. fr.n => n \in Nat
    <3> SUFFICES ASSUME S \subseteq 1 .. fr.n
                 PROVE  n \in Nat
      OBVIOUS
    <3>1. IsFiniteSet(1 .. fr.n) /\ Cardinality(1 .. fr.n) = fr.n
      BY <1>2, FirstNumbers
    <3>2. Cardinality(S) \in Nat /\ Cardinality(S) <= fr.n
      <4>1. IsFiniteSet(S) /\ Cardinality(S) <= Cardinality(1 .. fr.n)
        <5>1. S \in SUBSET (1 .. fr.n)
          OBVIOUS
        <5> QED
          BY <3>1, <5>1, FS_Subset
      <4>2. Cardinality(S) \in Nat
        BY <4>1, FS_CardinalityType
      <4> QED
        BY <3>1, <4>1, <4>2
    <3> QED
      BY <1>2, <3>2
  <2>3. IsColumns(cols)
    BY DEF IsColumns
  <2> HIDE DEF n, cols
  <2>4. S \subseteq 1 .. fr.n => Within(fr, Rebuilt(fr, n, cols), C, F, way)
    BY <1>3, <2>2, <2>3
  <2> HIDE DEF Rebuilt
  <2> QED
    BY <1>1, <2>1, <2>4, Outcomes
<1>5. ASSUME NEW order, NEW e
      PROVE  Within(fr, ColumnReorder(fr, order, e).frame, C, F, way)
  <2> DEFINE cols == [f \in ItemFields |->
                        IF fr.cols[f] = NoColumn THEN NoColumn
                        ELSE [fr.cols[f] EXCEPT !.data = ReorderSeq(@, order), !.present = ReorderSeq(@, order)]]
  <2>1. \/ ColumnReorder(fr, order, e) = Bad(fr, e)
        \/ ColumnReorder(fr, order, e) = Good(Rebuilt(fr, fr.n, cols))
    BY Zenon DEF ColumnReorder, OnRows, Rebuilt
  <2>2. IsColumns(cols)
    BY DEF IsColumns
  <2> HIDE DEF cols
  <2>3. Within(fr, Rebuilt(fr, fr.n, cols), C, F, way)
    BY <1>2, <1>3, <2>2
  <2> QED
    BY <1>1, <2>1, <2>3, Outcomes
<1>6. ASSUME NEW n \in Nat
      PROVE  Within(fr, Extend(fr, n), C, F, way)
  <2> DEFINE blank == NewColumn("json", n)
             cols == [f \in ItemFields |->
                        IF fr.cols[f] = NoColumn THEN NoColumn
                        ELSE [fr.cols[f] EXCEPT !.data = @ \o blank.data, !.present = @ \o blank.present]]
  <2>1. Extend(fr, n) = Rebuilt(fr, fr.n + n, cols)
    BY Zenon DEF Extend, Rebuilt
  <2>2. IsColumns(cols)
    BY DEF IsColumns
  <2> HIDE DEF cols, blank
  <2>3. fr.n + n \in Nat
    BY <1>2
  <2> QED
    BY <1>3, <2>1, <2>2, <2>3
<1> QED
  BY <1>4, <1>5, <1>6

(* The fields of an added row are written one after another.               *)
LEMMA AddFieldWithin ==
    ASSUME NEW fr, IsColumnFrame(fr), NEW i, NEW f, NEW v, NEW C, NEW F, NEW way, way # "stays"
    PROVE  Within(fr, AddField(fr, i, f, v).frame, C, F, way)
<1>1. \/ AddField(fr, i, f, v).frame = fr
      \/ AddField(fr, i, f, v).frame = WriteCell(fr, i, f, v)
  BY DEF AddField, Good, Bad
<1>2. Within(fr, fr, C, F, way)
  BY WithinItself DEF IsFrame
<1> QED
  BY <1>1, <1>2, WriteCellWithin

LEMMA StillColumns ==
    ASSUME NEW fr, IsColumnFrame(fr), NEW g, NEW C, NEW F, NEW way, Within(fr, g, C, F, way)
    PROVE  IsColumnFrame(g)
BY LayoutOf DEF Within

LEMMA ColumnAddWithin ==
    ASSUME NEW fr, IsColumnFrame(fr), NEW i, NEW row, NEW name, NEW recall, NEW C, NEW F, NEW way, way # "stays"
    PROVE  Within(fr, ColumnAdd(fr, i, row, name, recall).frame, C, F, way)
<1>0. \E n : n \in Nat /\ \E g : AddRun(g, fr, i, row, name, n) /\ ColumnAdd(fr, i, row, name, recall) = g[n]
  BY AddResult
<1>1. PICK n : n \in Nat /\ \E g : AddRun(g, fr, i, row, name, n) /\ ColumnAdd(fr, i, row, name, recall) = g[n]
  BY <1>0
<1>2. PICK g : AddRun(g, fr, i, row, name, n) /\ ColumnAdd(fr, i, row, name, recall) = g[n]
  BY <1>1
<1>10. n \in Nat
  BY <1>1
<1> DEFINE Fine(h) == Within(fr, h, C, F, way)
           P == {k \in Nat : k \in 0 .. n => Fine(g[k].frame)}
<1>3. 0 \in P
  <2>1. Fine(fr)
    BY WithinItself DEF IsFrame
  <2>2. g[0].frame = fr
    BY <1>1, <1>2, Outcomes DEF AddRun
  <2> HIDE DEF Fine
  <2> QED
    BY <2>1, <2>2
<1>4. ASSUME NEW x, Fine(x.frame), NEW k
      PROVE  Fine(AddNext(x, i, row, name, k).frame)
  <2> DEFINE y == AddNext(x, i, row, name, k)
  <2>1. IsColumnFrame(x.frame)
    BY <1>4, StillColumns
  <2>2. \/ y = x
        \/ \E f, v : y = AddField(x.frame, i, f, v)
    BY Zenon DEF AddNext
  <2> HIDE DEF y
  <2>3. ASSUME NEW f, NEW v, y = AddField(x.frame, i, f, v)
        PROVE  Fine(y.frame)
    <3>1. Within(x.frame, y.frame, C, F, way)
      BY <2>1, <2>3, AddFieldWithin
    <3>2. Within(fr, x.frame, C, F, way)
      BY <1>4
    <3>3. Within(fr, y.frame, C, F, way)
      BY <3>1, <3>2, WithinTransitive
    <3> QED
      BY <3>3
  <2>4. Fine(y.frame)
    <3> HIDE DEF Fine
    <3> QED
      BY <1>4, <2>2, <2>3
  <2> QED
    BY <2>4 DEF y
<1> HIDE DEF Fine
<1>5. ASSUME NEW k \in 1 .. n, k - 1 \in P
      PROVE  k \in P
  <2>1. Fine(g[k - 1].frame)
    BY <1>10, <1>5
  <2>2. g[k] = AddNext(g[k - 1], i, row, name, k)
    BY <1>10, <1>2 DEF AddRun
  <2>3. Fine(g[k].frame)
    BY <1>4, <2>1, <2>2
  <2> QED
    BY <1>10, <2>3
<1>6. 0 .. n \subseteq P
  <2> HIDE DEF P
  <2> QED
    BY <1>10, <1>3, <1>5, AscentFromZero
<1>7. n \in P
  <2> HIDE DEF P
  <2> QED
    BY <1>10, <1>6
<1>8. Fine(g[n].frame)
  BY <1>10, <1>7
<1> QED
  BY <1>2, <1>8 DEF Fine

LEMMA ColumnPartWithin ==
    ASSUME NEW fr, IsColumnFrame(fr), NEW part, NEW C, NEW F, NEW way, Fits(part, C, F, way),
           NEW name, NEW recall
    PROVE  Within(fr, ColumnPart(fr, part, name, recall).frame, C, F, way)
<1>1. IsFrame(fr)
  BY DEF IsFrame
<1> DEFINE Fine(r) == Within(fr, r.frame, C, F, way)
<1>2. part.what = "common" => Fine(WriteCommon(fr, part.arg))
  BY <1>1, CommonWithin DEF Fits
<1>3. /\ part.what = "item" => Fine(ColumnWriteItem(fr, part.arg))
      /\ part.what = "column" => Fine(ColumnWriteColumn(fr, part.arg))
  BY ColumnWritesWithin DEF Fits
<1>4. /\ part.what = "remove" => Fine(ColumnRemove(fr, part.arg))
      /\ part.what = "order" => Fine(ColumnReorder(fr, part.arg, OrderError(part.arg, fr.n)))
  BY ColumnMovesWithin DEF Fits
<1>5. part.what = "extend" => Fine(Good(Extend(fr, part.arg)))
  <2> SUFFICES ASSUME part.what = "extend"
               PROVE  Fine(Good(Extend(fr, part.arg)))
    OBVIOUS
  <2>1. way # "stays" /\ part.arg \in Nat
    BY DEF Fits
  <2>2. Within(fr, Extend(fr, part.arg), C, F, way)
    BY <2>1, ColumnMovesWithin
  <2> QED
    BY <2>1, <2>2, Outcomes
<1>6. part.what = "add" => Fine(ColumnAdd(fr, fr.n - part.arg.left, part.arg.row, name, recall))
  BY ColumnAddWithin DEF Fits
<1>7. part.what \in {"common", "item", "column", "remove", "order", "extend", "add"}
  BY DEF Fits
<1> HIDE DEF Fine
<1>8. Fine(ColumnPart(fr, part, name, recall))
  BY <1>2, <1>3, <1>4, <1>5, <1>6, <1>7 DEF ColumnPart
<1> QED
  BY <1>8 DEF Fine

LEMMA PartWithin ==
    ASSUME NEW fr, IsFrame(fr), NEW part, NEW C, NEW F, NEW way, Fits(part, C, F, way),
           NEW name, NEW recall
    PROVE  Within(fr, ApplyPart(fr, part, name, recall).frame, C, F, way)
<1>1. IF fr.layout = "row" THEN IsRowFrame(fr) ELSE IsColumnFrame(fr)
  BY LayoutOf
<1> QED
  BY <1>1, RowPartWithin, ColumnPartWithin DEF ApplyPart

(* So does a list of such parts, up to the first that throws.              *)
LEMMA PartsWithin ==
    ASSUME NEW fr, IsFrame(fr), NEW ps, IsList(ps), NEW C, NEW F, NEW way,
           \A k \in 1 .. Len(ps) : Fits(ps[k], C, F, way), NEW name, NEW recall
    PROVE  Within(fr, ApplyParts(fr, ps, name, recall).frame, C, F, way)
<1> DEFINE n == Len(ps)
<1>1. n \in Nat
  BY ListDomain
<1>2. PICK g : PartsRun(g, fr, ps, name, recall, n) /\ ApplyParts(fr, ps, name, recall) = g[n]
  BY PartsResult
<1>3. \A k \in 1 .. n : Fits(ps[k], C, F, way)
  OBVIOUS
<1> HIDE DEF n
<1> DEFINE P == {k \in Nat : k \in 0 .. n => Within(fr, g[k].frame, C, F, way)}
<1>4. 0 \in P
  <2>1. Within(fr, fr, C, F, way)
    BY WithinItself
  <2>2. g[0] = Good(fr)
    BY <1>2 DEF PartsRun
  <2> QED
    BY <2>1, <2>2, Outcomes
<1>5. ASSUME NEW k \in 1 .. n, k - 1 \in P
      PROVE  k \in P
  <2> DEFINE a == g[k - 1]
             b == g[k]
  <2>1. Within(fr, a.frame, C, F, way)
    BY <1>1, <1>5
  <2>2. b = IF a.error # "none" THEN a ELSE ApplyPart(a.frame, ps[k], name, recall)
    BY <1>1, <1>2 DEF PartsRun
  <2> HIDE DEF a, b
  <2>3. Within(fr, b.frame, C, F, way)
    <3>1. CASE a.error # "none"
      BY <2>1, <2>2, <3>1
    <3>2. CASE ~(a.error # "none")
      <4>1. IsFrame(a.frame)
        BY <2>1 DEF Within
      <4>2. Fits(ps[k], C, F, way)
        BY <1>1, <1>3
      <4>3. Within(a.frame, b.frame, C, F, way)
        BY <2>2, <3>2, <4>1, <4>2, PartWithin
      <4> QED
        BY <2>1, <4>3, WithinTransitive
    <3> QED
      BY <3>1, <3>2
  <2> QED
    BY <1>1, <2>3 DEF b
<1>6. 0 .. n \subseteq P
  <2> HIDE DEF P
  <2> QED
    BY <1>1, <1>4, <1>5, AscentFromZero
<1>7. n \in P
  <2> HIDE DEF P
  <2> QED
    BY <1>1, <1>6
<1> QED
  BY <1>1, <1>2, <1>7

---------------------------------------------------------------------------
(* What an operator's declaration and type let its output change.          *)

Way(op) == IF op.mutates \/ op.additive THEN "moves" ELSE "stays"

AllFit(ps, C, F, way) == IsList(ps) /\ \A k \in 1 .. Len(ps) : Fits(ps[k], C, F, way)

LEMMA AllFitConcatenation ==
    ASSUME NEW C, NEW F, NEW way, NEW s, NEW t, AllFit(s, C, F, way), AllFit(t, C, F, way)
    PROVE  AllFit(s \o t, C, F, way)
<1> DEFINE u == s \o t
<1>1. IsList(u) /\ \A k \in 1 .. Len(u) : \/ \E j \in 1 .. Len(s) : u[k] = s[j]
                                        \/ \E j \in 1 .. Len(t) : u[k] = t[j]
  BY ConcatenationElements DEF AllFit
<1> HIDE DEF u
<1>2. AllFit(u, C, F, way)
  BY <1>1 DEF AllFit
<1> QED
  BY <1>2 DEF u

LEMMA AllFitMap ==
    ASSUME NEW C, NEW F, NEW way, NEW n \in Nat, NEW s, s = [k \in 1 .. n |-> s[k]],
           \A k \in 1 .. n : Fits(s[k], C, F, way)
    PROVE  AllFit(s, C, F, way)
<1>1. IsList(s) /\ Len(s) = n
  BY FunctionIsList
<1>2. \A k \in 1 .. Len(s) : Fits(s[k], C, F, way)
  BY <1>1, Zenon
<1> QED
  BY <1>1, <1>2, Zenon DEF AllFit

LEMMA AllFitOne ==
    ASSUME NEW C, NEW F, NEW way, NEW part, Fits(part, C, F, way)
    PROVE  AllFit(<<part>>, C, F, way)
<1> DEFINE s == <<part>>
<1>1. s = [k \in 1 .. 1 |-> s[k]] /\ s[1] = part
  OBVIOUS
<1> HIDE DEF s
<1>2. 1 \in Nat /\ \A k \in 1 .. 1 : Fits(s[k], C, F, way)
  BY <1>1
<1>3. AllFit(s, C, F, way)
  BY <1>1, <1>2, AllFitMap
<1> QED
  BY <1>3 DEF s

LEMMA AllFitNone == \A C, F, way : AllFit(<<>>, C, F, way)
BY EmptyIsList DEF AllFit

LEMMA MethodsCalled ==
    ASSUME NEW out
    PROVE  /\ out.added_items # <<>> => "AddItem" \in Methods(out)
           /\ out.removed_items # {} => "RemoveItem" \in Methods(out)
           /\ out.has_item_order => "SetItemOrder" \in Methods(out)
BY DEF Methods

LEMMA MovesAllowed ==
    ASSUME NEW op, WellFormed(op), WellMarked(op), NEW out, ValidType(op, out)
    PROVE  out.added_items # <<>> \/ out.removed_items # {} \/ out.has_item_order => Way(op) = "moves"
<1>1. /\ out.added_items # <<>> => "AddItem" \in Allowed[op.operator_type]
      /\ out.removed_items # {} => "RemoveItem" \in Allowed[op.operator_type]
      /\ out.has_item_order => "SetItemOrder" \in Allowed[op.operator_type]
  BY MethodsCalled, Zenon DEF ValidType
<1>2. op.operator_type \in {"recall", "transform", "filter", "merge", "reorder", "observe"}
  BY DEF WellFormed, Allowed
<1>3. /\ "AddItem" \in Allowed[op.operator_type] => op.operator_type = "recall"
      /\ "RemoveItem" \in Allowed[op.operator_type] => op.operator_type \in {"filter", "merge"}
      /\ "SetItemOrder" \in Allowed[op.operator_type] => op.operator_type = "reorder"
  BY <1>2 DEF Allowed
<1>4. op.operator_type \in {"recall", "filter", "merge", "reorder"} => op.additive \/ op.mutates
  BY DEF WellMarked
<1>5. "AddItem" \in Allowed[op.operator_type] \/ "RemoveItem" \in Allowed[op.operator_type]
        \/ "SetItemOrder" \in Allowed[op.operator_type] => Way(op) = "moves"
  BY <1>3, <1>4 DEF Way
<1> QED
  BY <1>1, <1>5, Zenon

LEMMA PartsFit ==
    ASSUME NEW out, IsOutput(out), NEW C, NEW F, NEW way,
           Keys(out.common_writes) \subseteq C,
           way = "moves" \/ WrittenOnExisting(out) \subseteq F,
           out.removed_items # {} => way \in {"moves", "thins"},
           out.has_item_order => way \in {"moves", "permutes"},
           out.added_items # <<>> => way \in {"moves", "grows"}
    PROVE  AllFit(Parts(out), C, F, way)
<1> DEFINE p1 == [k \in DOMAIN CommonOrder |->
                     Part("common", [field |-> CommonOrder[k], value |-> out.common_writes[CommonOrder[k]]])]
           p2 == [k \in DOMAIN out.item_writes |-> Part("item", out.item_writes[k])]
           p3 == [k \in DOMAIN out.column_writes |-> Part("column", out.column_writes[k])]
           p4 == IF out.removed_items # {} THEN <<Part("remove", out.removed_items)>> ELSE <<>>
           p5 == IF out.has_item_order THEN <<Part("order", out.item_order)>> ELSE <<>>
           p6 == IF out.added_items # <<>> THEN <<Part("extend", Len(out.added_items))>> ELSE <<>>
           p7 == [k \in DOMAIN out.added_items |->
                     Part("add", [left |-> Len(out.added_items) - k, row |-> out.added_items[k]])]
<1>1. Parts(out) = p1 \o p2 \o p3 \o p4 \o p5 \o p6 \o p7
  BY Zenon DEF Parts
<1>2. AllFit(p1, C, F, way)
  <2>1. IsList(CommonOrder) /\ \A k \in 1 .. Len(CommonOrder) : CommonOrder[k] \in CommonFields
    BY OrderIsList, PipelineAssumption DEF CommonOrder
  <2>2. Len(CommonOrder) \in Nat /\ DOMAIN CommonOrder = 1 .. Len(CommonOrder)
    BY <2>1, ListDomain
  <2>3. p1 = [k \in 1 .. Len(CommonOrder) |-> p1[k]]
    BY <2>2
  <2>4. DOMAIN out.common_writes = CommonFields
    BY DEF IsOutput, IsCommon
  <2>5. ASSUME NEW k \in 1 .. Len(CommonOrder)
        PROVE  Fits(p1[k], C, F, way)
    <3>1. /\ p1[k].what = "common" /\ p1[k].arg.field = CommonOrder[k]
          /\ p1[k].arg.value = out.common_writes[CommonOrder[k]]
      BY <2>2 DEF Part
    <3>2. out.common_writes[CommonOrder[k]] # Absent => CommonOrder[k] \in C
      BY <2>1, <2>4 DEF Keys
    <3> HIDE DEF p1
    <3> QED
      BY <3>1, <3>2 DEF Fits
  <2> HIDE DEF p1
  <2> QED
    BY <2>2, <2>3, <2>5, AllFitMap
<1>3. \A f : f \in WrittenOnExisting(out) => way = "moves" \/ f \in F
  OBVIOUS
<1>4. AllFit(p2, C, F, way)
  <2> DEFINE s == out.item_writes
  <2>1. Len(s) \in Nat /\ DOMAIN s = 1 .. Len(s)
    BY ListDomain DEF IsOutput
  <2>2. p2 = [k \in 1 .. Len(s) |-> p2[k]] /\ \A k \in 1 .. Len(s) : p2[k] = Part("item", s[k])
    BY <2>1
  <2>3. ASSUME NEW k \in 1 .. Len(s)
        PROVE  s[k].field \in WrittenOnExisting(out)
    BY <2>1 DEF WrittenOnExisting, ToSet
  <2>4. \A k \in 1 .. Len(s) : Fits(p2[k], C, F, way)
    <3> HIDE DEF p2, s
    <3> QED
      BY <1>3, <2>2, <2>3 DEF Fits, Part
  <2> HIDE DEF p2, s
  <2> QED
    BY <2>1, <2>2, <2>4, AllFitMap
<1>5. AllFit(p3, C, F, way)
  <2> DEFINE s == out.column_writes
  <2>1. /\ Len(s) \in Nat /\ DOMAIN s = 1 .. Len(s)
        /\ \A k \in 1 .. Len(s) : IsList(s[k].vals)
    BY ListDomain DEF IsOutput
  <2>2. p3 = [k \in 1 .. Len(s) |-> p3[k]] /\ \A k \in 1 .. Len(s) : p3[k] = Part("column", s[k])
    BY <2>1
  <2>3. ASSUME NEW k \in 1 .. Len(s)
        PROVE  s[k].field \in WrittenOnExisting(out)
    BY <2>1 DEF WrittenOnExisting, ToSet
  <2>4. \A k \in 1 .. Len(s) : Fits(p3[k], C, F, way)
    <3> HIDE DEF p3, s
    <3> QED
      BY <1>3, <2>1, <2>2, <2>3 DEF Fits, Part
  <2> HIDE DEF p3, s
  <2> QED
    BY <2>1, <2>2, <2>4, AllFitMap
<1>6. AllFit(p4, C, F, way)
  <2>1. out.removed_items # {} => Fits(Part("remove", out.removed_items), C, F, way)
    BY DEF Fits, Part
  <2> QED
    BY <2>1, AllFitNone, AllFitOne
<1>7. AllFit(p5, C, F, way)
  <2> DEFINE part == Part("order", out.item_order)
  <2>1. part.what = "order"
    BY DEF Part
  <2> HIDE DEF part
  <2>2. out.has_item_order => Fits(part, C, F, way)
    BY <2>1 DEF Fits
  <2>3. out.has_item_order => AllFit(<<part>>, C, F, way)
    BY <2>2, AllFitOne
  <2> QED
    BY <2>3, AllFitNone, Zenon DEF part
<1>8. AllFit(p6, C, F, way) /\ AllFit(p7, C, F, way)
  <2> DEFINE s == out.added_items
  <2>1. /\ Len(s) \in Nat /\ DOMAIN s = 1 .. Len(s)
        /\ \A k \in 1 .. Len(s) : IsRow(s[k])
    BY ListDomain DEF IsOutput
  <2>2. s # <<>> => way \in {"moves", "grows"}
    OBVIOUS
  <2>3. s # <<>> => Fits(Part("extend", Len(s)), C, F, way)
    <3> HIDE DEF s
    <3> QED
      BY <2>1, <2>2 DEF Fits, Part
  <2>4. AllFit(p6, C, F, way)
    BY <2>3, AllFitNone, AllFitOne
  <2>5. /\ p7 = [k \in 1 .. Len(s) |-> p7[k]]
        /\ \A k \in 1 .. Len(s) : p7[k].what = "add" /\ p7[k].arg.row = s[k]
    BY <2>1 DEF Part
  <2>6. ASSUME NEW k \in 1 .. Len(s)
        PROVE  Fits(p7[k], C, F, way)
    <3>1. s # <<>>
      BY <2>1, EmptyIsList
    <3> HIDE DEF s, p7
    <3> QED
      BY <2>1, <2>2, <2>5, <3>1 DEF Fits
  <2>7. AllFit(p7, C, F, way)
    <3> HIDE DEF s, p7
    <3> QED
      BY <2>1, <2>5, <2>6, AllFitMap
  <2> QED
    BY <2>4, <2>7
<1> HIDE DEF p1, p2, p3, p4, p5, p6, p7
<1>9. AllFit(p1 \o p2 \o p3 \o p4, C, F, way)
  <2>1. AllFit(p1 \o p2, C, F, way)
    BY <1>2, <1>4, AllFitConcatenation
  <2>2. AllFit(p1 \o p2 \o p3, C, F, way)
    BY <1>5, <2>1, AllFitConcatenation
  <2> QED
    BY <1>6, <2>2, AllFitConcatenation
<1>10. AllFit(p1 \o p2 \o p3 \o p4 \o p5, C, F, way)
  BY <1>7, <1>9, AllFitConcatenation
<1>11. AllFit(p1 \o p2 \o p3 \o p4 \o p5 \o p6, C, F, way)
  BY <1>8, <1>10, AllFitConcatenation
<1>12. AllFit(p1 \o p2 \o p3 \o p4 \o p5 \o p6 \o p7, C, F, way)
  BY <1>8, <1>11, AllFitConcatenation
<1> QED
  BY <1>1, <1>12

(* apply_output leaves what the operator may not change, also when it      *)
(* refuses the output or throws in the middle of it.                       *)
LEMMA AppliedWithin ==
    ASSUME NEW fr, IsFrame(fr), NEW op, WellFormed(op), WellMarked(op), NEW i, NEW out, IsOutput(out)
    PROVE  Within(fr, Applied(fr, op, i, out).frame, op.common_output, op.item_output, Way(op))
<1>1. Within(fr, fr, op.common_output, op.item_output, Way(op))
  BY WithinItself
<1>2. CASE ~ValidType(op, out)
  BY <1>1, <1>2, Outcomes DEF Applied
<1>3. CASE ValidType(op, out) /\ ~ValidDeclared(op, out)
  BY <1>1, <1>3, Outcomes DEF Applied
<1>4. CASE ValidType(op, out) /\ ValidDeclared(op, out)
  <2> DEFINE recall == op.operator_type = "recall"
  <2>1. Applied(fr, op, i, out) = ApplyParts(fr, Parts(out), i, recall)
    BY <1>4, Zenon DEF Applied, ApplyOutput
  <2>2. AllFit(Parts(out), op.common_output, op.item_output, Way(op))
    <3>1. out.added_items # <<>> \/ out.removed_items # {} \/ out.has_item_order => Way(op) = "moves"
      BY <1>4, MovesAllowed
    <3>2. Keys(out.common_writes) \subseteq op.common_output
      BY <1>4 DEF ValidDeclared
    <3>3. Way(op) = "moves" \/ WrittenOnExisting(out) \subseteq op.item_output
      BY <1>4 DEF ValidDeclared, SourceRewrite, Way
    <3> QED
      BY <3>1, <3>2, <3>3, PartsFit
  <2> HIDE DEF recall
  <2>3. Within(fr, ApplyParts(fr, Parts(out), i, recall).frame, op.common_output, op.item_output, Way(op))
    BY <2>2, PartsWithin DEF AllFit
  <2> QED
    BY <2>1, <2>3
<1> QED
  BY <1>2, <1>3, <1>4

---------------------------------------------------------------------------
(* An operator that does not conflict with another sees the same of the    *)
(* frame before and after the other's output is applied.                   *)

Apart(a, b) ==
    \A p \in Dag!Scans : \A f \in Dag!Fields(p) : ~Dag!Conflict(p, f, Shape(a), Shape(b))

LEMMA ApartFields ==
    ASSUME NEW a, NEW b, Apart(a, b)
    PROVE  /\ \A f \in CommonFields : f \in b.common_input \cup Excluded(b) => f \notin a.common_output
           /\ Way(a) # "moves" => \A f \in ItemFields : f \in b.item_input => f \notin a.item_output
           /\ Way(a) = "moves" => ~Dag!ReadsRowSet(Shape(b))
<1> DEFINE x == Shape(a)
           y == Shape(b)
<1>1. /\ x.commonWrites = a.common_output /\ x.itemWrites = a.item_output
      /\ y.commonReads = b.common_input \cup Excluded(b) /\ y.itemReads = b.item_input
  BY DEF Shape
<1>2. x.additive <=> a.additive
  BY Zenon DEF Shape
<1>3. x.mutates <=> a.mutates
  BY Zenon DEF Shape
<1>4. \A p \in {"common", "item"} : \A f \in Dag!Fields(p) : ~Dag!Conflict(p, f, x, y)
  BY Zenon DEF Apart, Dag!Scans
<1> HIDE DEF x, y
<1>5. ASSUME NEW f \in CommonFields, f \in b.common_input \cup Excluded(b)
      PROVE  f \notin a.common_output
  <2>1. ~Dag!Conflict("common", f, x, y)
    BY <1>4 DEF Dag!Fields
  <2> QED
    BY <1>1, <1>5, <2>1 DEF Dag!Conflict, Dag!Mutates, Dag!Touches, Dag!Reads
<1>6. ASSUME Way(a) # "moves", NEW f \in ItemFields, f \in b.item_input
      PROVE  f \notin a.item_output
  <2>1. ~Dag!Conflict("item", f, x, y)
    BY <1>4 DEF Dag!Fields
  <2>2. ~x.additive
    BY <1>2, <1>6 DEF Way
  <2> QED
    BY <1>1, <1>6, <2>1, <2>2 DEF Dag!Conflict, Dag!Mutates, Dag!Touches, Dag!Reads
<1>7. ASSUME Way(a) = "moves"
      PROVE  ~Dag!ReadsRowSet(y)
  <2>1. ~Dag!Conflict("item", RowSet, x, y)
    BY <1>4 DEF Dag!Fields
  <2>2. x.mutates \/ x.additive
    BY <1>2, <1>3, <1>7 DEF Way
  <2> QED
    BY <2>1, <2>2 DEF Dag!Conflict, Dag!Mutates, Dag!Touches, Dag!Reads, Dag!Adds
<1> QED
  BY <1>5, <1>6, <1>7 DEF y

(* So does one whose fields are left alone, on rows that stay.             *)
(* The parts of what b sees of the frame h.                                *)
Columns(h, b) == {f \in b.item_input : h.layout = "row" \/ h.cols[f] # NoColumn}
Cells(h, b) == [f \in b.item_input |-> [s \in 1 .. ItemCount(h) |-> <<Has(h, s, f), Item(h, s, f)>>]]
Commons(h, b) == [f \in b.common_input \cup Excluded(b) |-> h.common[f]]
Counted(h, b) == IF Dag!ReadsRowSet(Shape(b)) THEN ItemCount(h) ELSE 0

LEMMA SeenIs ==
    \A h, b : Seen(h, b) = [fields |-> [common |-> Commons(h, b), columns |-> Columns(h, b), items |-> Cells(h, b)],
                            count |-> Counted(h, b)]
BY Zenon DEF Seen, Visibly, Commons, Columns, Cells, Counted

LEMMA SeenUntouched ==
    ASSUME NEW b, WellFormed(b), NEW fr, NEW g, NEW C, NEW F, NEW way, Within(fr, g, C, F, way), way = "stays",
           \A f \in CommonFields : f \in b.common_input \cup Excluded(b) => f \notin C,
           \A f \in ItemFields : f \in b.item_input => f \notin F
    PROVE  Seen(g, b) = Seen(fr, b)
<1>1. b.common_input \cup Excluded(b) \subseteq CommonFields /\ b.item_input \subseteq ItemFields
  BY DEF WellFormed
<1>2. Commons(g, b) = Commons(fr, b)
  <2> DEFINE S == b.common_input \cup Excluded(b)
  <2>1. \A f \in S : g.common[f] = fr.common[f]
    BY <1>1 DEF Within
  <2>2. \A h : Commons(h, b) = [f \in S |-> h.common[f]]
    BY Zenon DEF Commons
  <2> HIDE DEF S
  <2> QED
    BY <2>1, <2>2
<1>4. SameItems(fr, g, F) /\ g.layout = fr.layout
  BY DEF Within
<1>5. ItemCount(g) = ItemCount(fr)
  BY <1>4 DEF SameItems, ItemCount, RowCount
<1>6. ASSUME NEW f \in b.item_input, NEW s \in 1 .. ItemCount(fr)
      PROVE  Has(g, s, f) = Has(fr, s, f) /\ Item(g, s, f) = Item(fr, s, f)
  <2>1. f \in ItemFields \ F
    BY <1>1
  <2>2. CASE fr.layout = "row"
    <3>1. g.items[s][f] = fr.items[s][f]
      BY <1>4, <2>1, <2>2 DEF SameItems, ItemCount, RowCount
    <3> QED
      BY <1>4, <2>2, <3>1 DEF Has, Item, RowHas, RowGet
  <2>3. CASE fr.layout # "row"
    <3>1. g.cols[f] = fr.cols[f]
      BY <1>4, <2>1, <2>3 DEF SameItems
    <3> QED
      BY <1>4, <2>3, <3>1 DEF Has, Item, ColumnHas, ColumnItem
  <2> QED
    BY <2>2, <2>3
<1>7. Cells(g, b) = Cells(fr, b)
  BY <1>5, <1>6 DEF Cells
<1>8. Counted(g, b) = Counted(fr, b)
  BY <1>5 DEF Counted
<1>9. Columns(g, b) = Columns(fr, b)
  <2>1. \A f \in b.item_input : fr.layout # "row" => g.cols[f] = fr.cols[f]
    BY <1>1, <1>4 DEF SameItems
  <2> QED
    BY <1>4, <2>1 DEF Columns
<1> QED
  BY <1>2, <1>7, <1>8, <1>9, SeenIs

(* An operator that reads items reads the row set.                         *)
LEMMA ItemsAreCounted ==
    ASSUME NEW b, WellMarked(b)
    PROVE  /\ b.item_input # {} \/ b.consumes => Dag!ReadsRowSet(Shape(b))
           /\ b.item_output # {} /\ ~b.additive => Dag!ReadsRowSet(Shape(b))
<1> DEFINE y == Shape(b)
<1>1. y.consumes <=> b.consumes
  BY Zenon DEF Shape
<1>2. y.additive <=> b.additive
  BY Zenon DEF Shape
<1>3. y.itemReads = b.item_input /\ y.itemWrites = b.item_output
  BY DEF Shape
<1>4. b.additive /\ b.item_input # {} => b.consumes
  BY DEF WellMarked
<1> HIDE DEF y
<1>5. Dag!ReadsRowSet(y) <=> y.consumes \/ (~y.additive /\ y.itemReads \cup y.itemWrites # {})
  BY Zenon DEF Dag!ReadsRowSet
<1>6. b.item_input # {} \/ b.consumes => Dag!ReadsRowSet(y)
  BY <1>1, <1>2, <1>3, <1>4, <1>5
<1>7. b.item_output # {} /\ ~b.additive => Dag!ReadsRowSet(y)
  BY <1>1, <1>2, <1>3, <1>5
<1> QED
  BY <1>6, <1>7 DEF y

LEMMA SeenUnchanged ==
    ASSUME NEW a, NEW b, Apart(a, b), WellFormed(b), WellMarked(b), NEW fr, IsFrame(fr), NEW g,
           Within(fr, g, a.common_output, a.item_output, Way(a))
    PROVE  Seen(g, b) = Seen(fr, b)
<1>1. CASE Way(a) = "moves"
  <2>1. ~Dag!ReadsRowSet(Shape(b))
    BY <1>1, ApartFields
  <2>2. b.item_input = {}
    BY <2>1, ItemsAreCounted
  <2>3. Cells(g, b) = Cells(fr, b) /\ Columns(g, b) = Columns(fr, b)
    BY <2>2 DEF Cells, Columns
  <2>4. Counted(g, b) = Counted(fr, b)
    BY <2>1 DEF Counted
  <2>5. Commons(g, b) = Commons(fr, b)
    <3> DEFINE S == b.common_input \cup Excluded(b)
    <3>1. S \subseteq CommonFields
      BY DEF WellFormed
    <3>2. \A f \in S : f \notin a.common_output
      BY <3>1, ApartFields
    <3>3. \A h : Commons(h, b) = [f \in S |-> h.common[f]]
      BY Zenon DEF Commons
    <3> HIDE DEF S
    <3>4. \A f \in S : g.common[f] = fr.common[f]
      BY <3>1, <3>2 DEF Within
    <3> QED
      BY <3>3, <3>4
  <2> QED
    BY <2>3, <2>4, <2>5, SeenIs
<1>2. CASE Way(a) # "moves"
  <2>1. Way(a) = "stays"
    BY <1>2 DEF Way
  <2> QED
    BY <1>2, <2>1, ApartFields, SeenUntouched
<1> QED
  BY <1>1, <1>2

---------------------------------------------------------------------------
(* The invariant.                                                          *)

Busy   == {"common", "strict", "nullable", "ready", "shards", "executed"}
Caught == {"caught", "failing"}
Held   == Busy \cup Caught

IsView(v)     == v = [templated |-> v.templated, count |-> v.count, seen |-> v.seen] /\ v.count \in Nat
IsShards(vs)  == IsList(vs) /\ \A k \in 1 .. Len(vs) : vs[k].count \in Nat
IsOutputs(os) == IsList(os) /\ \A k \in 1 .. Len(os) : IsOutput(os[k])

Buffers ==
    /\ shards = [i \in Nodes |-> shards[i]] /\ \A i \in Nodes : IsShards(shards[i])
    /\ tls_out = [w \in Workers |-> tls_out[w]] /\ \A w \in Workers : IsOutput(tls_out[w])
    /\ shard_outs = [i \in Nodes |-> shard_outs[i]] /\ \A i \in Nodes : IsOutputs(shard_outs[i])

(* A node starts when all that it conflicts with have ended, so that nodes *)
(* that are busy at a time do not conflict.                                *)
OrderInv ==
    /\ plan \in Plans
    /\ edges = Required(plan)
    /\ phase \in [Nodes -> Held \cup {"waiting", "ended"}]
    /\ worker \in [Nodes -> 0 .. MaxOps]
    /\ \A i \in Nodes : phase[i] \in Held <=> worker[i] \in Workers
    /\ \A e \in edges : phase[e[2]] # "waiting" => phase[e[1]] = "ended"

ViewInv ==
    /\ IsFrame(frame)
    /\ view = [i \in Nodes |-> view[i]] /\ \A i \in Nodes : IsView(view[i])
    /\ \A i \in Nodes : phase[i] \in Busy => view[i].seen = Seen(frame, plan[i])

PipelineInv == OrderInv /\ ViewInv /\ Buffers

LEMMA PlanNodes ==
    ASSUME plan \in Plans
    PROVE  /\ Len(plan) \in Nat /\ Nodes = 1 .. Len(plan) /\ Len(plan) <= MaxOps /\ MaxOps \in Nat
           /\ \A i \in Nodes : WellFormed(plan[i]) /\ WellMarked(plan[i])
<1>1. IsList(plan) /\ Len(plan) <= MaxOps /\ \A i \in 1 .. Len(plan) : WellFormed(plan[i]) /\ WellMarked(plan[i])
  BY PipelineAssumption
<1>2. Len(plan) \in Nat /\ DOMAIN plan = 1 .. Len(plan)
  BY <1>1, ListDomain
<1> QED
  BY <1>1, <1>2, PipelineAssumption DEF Nodes

LEMMA ApartSymmetric ==
    ASSUME NEW a, NEW b, Apart(a, b)
    PROVE  Apart(b, a)
BY Zenon DEF Apart, Dag!Conflict

(* A node that may run, or does, and another that runs are apart.          *)
Clear(i) == phase[i] # "ended" /\ \A e \in edges : e[2] = i => phase[e[1]] = "ended"

LEMMA HeldIsClear ==
    ASSUME OrderInv, NEW i \in Nodes, phase[i] \in Held
    PROVE  Clear(i)
BY DEF OrderInv, Clear, Held, Busy, Caught

LEMMA ClearAreApart ==
    ASSUME OrderInv, NEW j \in Nodes, Clear(j), NEW i \in Nodes, i # j, phase[i] \in Busy
    PROVE  Apart(plan[j], plan[i])
<1>1. i \in Nat /\ j \in Nat
  BY PlanNodes DEF OrderInv
<1>2. phase[i] # "ended" /\ phase[i] # "waiting" /\ phase[j] # "ended"
  BY DEF Busy, Clear
<1>3. <<i, j>> \notin edges
  BY <1>2 DEF Clear
<1>4. <<j, i>> \notin edges
  BY <1>2 DEF OrderInv
<1>5. \A a, b \in Nodes : a < b /\ <<a, b>> \notin edges => Apart(plan[a], plan[b])
  <2> SUFFICES ASSUME NEW a \in Nodes, NEW b \in Nodes, a < b, <<a, b>> \notin edges
               PROVE  Apart(plan[a], plan[b])
    OBVIOUS
  <2> DEFINE Clash(x, y) == \E p \in Dag!Scans : \E f \in Dag!Fields(p) : Dag!Conflict(p, f, Shape(x), Shape(y))
  <2>1. edges = {e \in Nodes \X Nodes : e[1] < e[2] /\ Clash(plan[e[1]], plan[e[2]])}
    BY Zenon DEF OrderInv, Required, Nodes
  <2> HIDE DEF Clash
  <2>2. ~Clash(plan[a], plan[b])
    BY <2>1
  <2> QED
    BY <2>2, Zenon DEF Clash, Apart
<1>6. CASE j < i
  BY <1>4, <1>5, <1>6
<1>7. CASE i < j
  BY <1>3, <1>5, <1>7, ApartSymmetric
<1> QED
  BY <1>1, <1>6, <1>7

(* What a step of a node needs to do to keep the invariant.                *)
LEMMA StepKeeps ==
    ASSUME PipelineInv, NEW i \in Nodes, Clear(i), UNCHANGED <<plan, edges>>, Buffers',
           NEW p \in Held \cup {"ended"}, phase' = [phase EXCEPT ![i] = p],
           NEW w \in 0 .. MaxOps, worker' = [worker EXCEPT ![i] = w], p \in Held <=> w \in Workers,
           Within(frame, frame', plan[i].common_output, plan[i].item_output, Way(plan[i])),
           NEW v, IsView(v), view' = [view EXCEPT ![i] = v], p \in Busy => v.seen = Seen(frame', plan[i])
    PROVE  PipelineInv'
<1>1. Nodes' = Nodes /\ plan' = plan /\ edges' = edges
  BY DEF Nodes
<1>2. OrderInv'
  <2>1. phase' \in [Nodes -> Held \cup {"waiting", "ended"}]
    BY DEF PipelineInv, OrderInv
  <2>2. worker' \in [Nodes -> 0 .. MaxOps]
    BY DEF PipelineInv, OrderInv
  <2>3. \A j \in Nodes : phase'[j] \in Held <=> worker'[j] \in Workers
    BY DEF PipelineInv, OrderInv
  <2>4. \A e \in edges : phase'[e[2]] # "waiting" => phase'[e[1]] = "ended"
    <3> SUFFICES ASSUME NEW e \in edges, phase'[e[2]] # "waiting"
                 PROVE  phase'[e[1]] = "ended"
      OBVIOUS
    <3>1. e[1] \in Nodes /\ e[2] \in Nodes
      BY DEF PipelineInv, OrderInv, Required, Nodes
    <3>2. phase[e[1]] = "ended"
      BY <3>1 DEF PipelineInv, OrderInv, Clear
    <3>3. e[1] # i
      BY <3>2 DEF Clear
    <3> QED
      BY <3>1, <3>2, <3>3 DEF PipelineInv, OrderInv
  <2> QED
    BY <1>1, <2>1, <2>2, <2>3, <2>4 DEF PipelineInv, OrderInv
<1>3. ViewInv'
  <2>1. IsFrame(frame')
    BY DEF Within
  <2>2. view' = [j \in Nodes |-> view'[j]] /\ \A j \in Nodes : IsView(view'[j])
    <3> HIDE DEF IsView
    <3> QED
      BY DEF PipelineInv, ViewInv
  <2>3. ASSUME NEW j \in Nodes, phase'[j] \in Busy
        PROVE  view'[j].seen = Seen(frame', plan[j])
    <3>1. CASE j = i
      BY <2>3, <3>1 DEF PipelineInv, ViewInv, OrderInv
    <3>2. CASE j # i
      <4>1. phase[j] \in Busy /\ view'[j] = view[j]
        BY <2>3, <3>2 DEF PipelineInv, ViewInv, OrderInv
      <4>2. Apart(plan[i], plan[j])
        BY <3>2, <4>1, ClearAreApart DEF PipelineInv
      <4>3. WellFormed(plan[j]) /\ WellMarked(plan[j])
        BY PlanNodes DEF PipelineInv, OrderInv
      <4>4. IsFrame(frame) /\ view[j].seen = Seen(frame, plan[j])
        BY <4>1 DEF PipelineInv, ViewInv
      <4>5. Seen(frame', plan[j]) = Seen(frame, plan[j])
        BY <4>2, <4>3, <4>4, SeenUnchanged
      <4> QED
        BY <4>1, <4>4, <4>5
    <3> QED
      BY <3>1, <3>2
  <2> QED
    BY <1>1, <2>1, <2>2, <2>3 DEF ViewInv
<1> QED
  BY <1>2, <1>3 DEF PipelineInv

LEMMA BuffersKept ==
    ASSUME Buffers, NEW i \in Nodes, plan' = plan,
           NEW vs, IsShards(vs), shards' = [shards EXCEPT ![i] = vs],
           NEW w \in Workers, NEW out, IsOutput(out), tls_out' = [tls_out EXCEPT ![w] = out],
           NEW os, IsOutputs(os), shard_outs' = [shard_outs EXCEPT ![i] = os]
    PROVE  Buffers'
<1>1. Nodes' = Nodes
  BY DEF Nodes
<1> HIDE DEF IsShards, IsOutputs, IsOutput
<1>2. shards' = [j \in Nodes |-> shards'[j]] /\ \A j \in Nodes : IsShards(shards'[j])
  BY DEF Buffers
<1>3. tls_out' = [j \in Workers |-> tls_out'[j]] /\ \A j \in Workers : IsOutput(tls_out'[j])
  BY DEF Buffers
<1>4. shard_outs' = [j \in Nodes |-> shard_outs'[j]] /\ \A j \in Nodes : IsOutputs(shard_outs'[j])
  BY DEF Buffers
<1> QED
  BY <1>1, <1>2, <1>3, <1>4, Zenon DEF Buffers

LEMMA BuffersSame ==
    ASSUME Buffers, NEW i \in Nodes, NEW w \in Workers
    PROVE  /\ IsShards(shards[i]) /\ shards = [shards EXCEPT ![i] = shards[i]]
           /\ IsOutput(tls_out[w]) /\ tls_out = [tls_out EXCEPT ![w] = tls_out[w]]
           /\ IsOutputs(shard_outs[i]) /\ shard_outs = [shard_outs EXCEPT ![i] = shard_outs[i]]
<1> HIDE DEF IsShards, IsOutputs, IsOutput
<1> QED
  BY DEF Buffers

(* There is a worker for a node that waits: no more nodes than workers.    *)
LEMMA AWorkerIsFree ==
    ASSUME OrderInv, NEW i \in Nodes, phase[i] = "waiting"
    PROVE  FreeWorker \in Workers /\ \A j \in Nodes : worker[j] # FreeWorker
<1> DEFINE S == Nodes \ {i}
           f == [j \in S |-> worker[j]]
           T == {worker[j] : j \in S}
           Free(w) == \A j \in Nodes : worker[j] # w
<1>1. /\ Len(plan) \in Nat /\ Nodes = 1 .. Len(plan) /\ Len(plan) <= MaxOps /\ MaxOps \in Nat
  BY PlanNodes DEF OrderInv
<1>2. worker[i] \notin Workers
  BY DEF OrderInv, Held, Busy, Caught
<1>3. IsFiniteSet(Nodes) /\ Cardinality(Nodes) = Len(plan)
  <2> DEFINE n == Len(plan)
  <2>1. n \in Nat /\ Nodes = 1 .. n
    BY <1>1
  <2> HIDE DEF n
  <2>2. IsFiniteSet(1 .. n) /\ Cardinality(1 .. n) = n
    BY <2>1, FS_Interval
  <2> QED
    BY <2>1, <2>2 DEF n
<1>4. IsFiniteSet(S) /\ Cardinality(S) = Len(plan) - 1
  BY <1>1, <1>3, FS_RemoveElement
<1>5. f \in Surjection(S, T)
  BY DEF Surjection
<1> HIDE DEF f
<1>6. IsFiniteSet(T) /\ Cardinality(T) <= Cardinality(S)
  BY <1>4, <1>5, FS_Surjection
<1>7. IsFiniteSet(Workers) /\ Cardinality(Workers) = MaxOps
  BY <1>1, FS_Interval DEF Workers
<1>8. ~(Workers \subseteq T)
  <2> HIDE DEF T, S
  <2> SUFFICES ASSUME Workers \subseteq T
               PROVE  FALSE
    OBVIOUS
  <2>1. Cardinality(Workers) <= Cardinality(T) /\ Cardinality(T) \in Nat
    BY <1>6, FS_Subset, FS_CardinalityType
  <2> QED
    BY <1>1, <1>4, <1>6, <1>7, <2>1
<1>9. PICK u \in Workers : Free(u)
  BY <1>2, <1>8
<1> DEFINE U == {w \in Workers : Free(w)}
<1> HIDE DEF Free
<1>10. U \subseteq Nat /\ U # {}
  BY <1>1, <1>9 DEF Workers
<1>11. PICK w \in U : \A v \in U : w <= v
  BY <1>10, LeastNatural
<1>12. w \in Workers /\ Free(w) /\ \A v \in 1 .. w - 1 : ~Free(v)
  BY <1>1, <1>11 DEF Workers
<1>13. \E x \in Workers : (\A j \in Nodes : worker[j] # x) /\ \A v \in 1 .. x - 1 : \E j \in Nodes : worker[j] = v
  BY <1>12 DEF Free
<1> QED
  BY <1>13, Zenon DEF FreeWorker

(* The ways a step leaves a node's place and its buffers.                  *)
LEMMA Values ==
    ASSUME PipelineInv, NEW i \in Nodes
    PROVE  /\ phase = [phase EXCEPT ![i] = phase[i]] /\ phase[i] \in Held \cup {"waiting", "ended"}
           /\ worker = [worker EXCEPT ![i] = worker[i]] /\ worker[i] \in 0 .. MaxOps
           /\ phase[i] \in Held <=> worker[i] \in Workers
           /\ phase[i] \in Busy => phase[i] \in Held /\ worker[i] \in Workers
           /\ IsView(view[i]) /\ view = [view EXCEPT ![i] = view[i]]
           /\ phase[i] \in Busy => view[i].seen = Seen(frame, plan[i])
           /\ WellFormed(plan[i]) /\ WellMarked(plan[i]) /\ IsFrame(frame)
           /\ MaxOps \in Nat /\ Workers = 1 .. MaxOps
<1> HIDE DEF IsView
<1>1. /\ phase \in [Nodes -> Held \cup {"waiting", "ended"}] /\ worker \in [Nodes -> 0 .. MaxOps]
      /\ phase[i] \in Held <=> worker[i] \in Workers
      /\ phase[i] \in Busy => phase[i] \in Held
  BY DEF PipelineInv, OrderInv, Held
<1>2. /\ view = [j \in Nodes |-> view[j]] /\ IsView(view[i]) /\ IsFrame(frame)
      /\ phase[i] \in Busy => view[i].seen = Seen(frame, plan[i])
  BY DEF PipelineInv, ViewInv
<1>3. WellFormed(plan[i]) /\ WellMarked(plan[i]) /\ MaxOps \in Nat
  BY PlanNodes DEF PipelineInv, OrderInv
<1>4. phase = [phase EXCEPT ![i] = phase[i]] /\ worker = [worker EXCEPT ![i] = worker[i]]
  BY <1>1
<1>5. view = [view EXCEPT ![i] = view[i]]
  BY <1>2
<1> QED
  BY <1>1, <1>2, <1>3, <1>4, <1>5 DEF Workers

(* A node that ends leaves no more to be seen.                             *)
LEMMA EndKeeps ==
    ASSUME PipelineInv, NEW i \in Nodes, Clear(i), UNCHANGED <<plan, edges, view>>, Buffers',
           NEW how, End(i, how),
           Within(frame, frame', plan[i].common_output, plan[i].item_output, Way(plan[i]))
    PROVE  PipelineInv'
<1>1. phase' = [phase EXCEPT ![i] = "ended"] /\ worker' = [worker EXCEPT ![i] = 0]
  BY DEF End
<1>2. /\ "ended" \in Held \cup {"ended"} /\ "ended" \notin Held /\ "ended" \notin Busy
      /\ 0 \in 0 .. MaxOps /\ 0 \notin Workers
  BY Values DEF Held, Busy, Caught
<1>3. IsView(view[i]) /\ view' = [view EXCEPT ![i] = view[i]]
  BY Values
<1> QED
  BY <1>1, <1>2, <1>3, StepKeeps

(* Nor does one that throws.                                               *)
LEMMA ThrowKeeps ==
    ASSUME PipelineInv, NEW i \in Nodes, Clear(i), UNCHANGED <<plan, edges>>, Buffers',
           NEW how, Throw(i, how), NEW w \in Workers, worker' = [worker EXCEPT ![i] = w],
           NEW v, IsView(v), view' = [view EXCEPT ![i] = v],
           Within(frame, frame', plan[i].common_output, plan[i].item_output, Way(plan[i]))
    PROVE  PipelineInv'
<1>1. phase' = [phase EXCEPT ![i] = "caught"]
  BY DEF Throw
<1>2. "caught" \in Held \cup {"ended"} /\ "caught" \in Held /\ "caught" \notin Busy /\ w \in 0 .. MaxOps
  BY Values DEF Held, Busy, Caught
<1> QED
  BY <1>1, <1>2, StepKeeps

LEMMA SameWithin ==
    ASSUME PipelineInv, NEW i \in Nodes
    PROVE  Within(frame, frame, plan[i].common_output, plan[i].item_output, Way(plan[i]))
BY WithinItself DEF PipelineInv, ViewInv

(* The node goes on or throws, with the frame as it is.                    *)
LEMMA ProceedKeeps ==
    ASSUME PipelineInv, NEW i \in Nodes, Clear(i), UNCHANGED <<plan, edges, frame>>, Buffers',
           NEW to \in Busy, NEW error, Proceed(i, to, error),
           NEW w \in Workers, worker' = [worker EXCEPT ![i] = w],
           NEW v, IsView(v), view' = [view EXCEPT ![i] = v], v.seen = Seen(frame, plan[i])
    PROVE  PipelineInv'
<1>1. Within(frame, frame', plan[i].common_output, plan[i].item_output, Way(plan[i]))
  BY SameWithin
<1>2. CASE phase' = [phase EXCEPT ![i] = to]
  <2>1. to \in Held \cup {"ended"} /\ to \in Held /\ w \in 0 .. MaxOps
    BY Values DEF Held
  <2>2. v.seen = Seen(frame', plan[i])
    OBVIOUS
  <2> QED
    BY <1>1, <1>2, <2>1, <2>2, StepKeeps
<1>3. CASE Throw(i, error)
  BY <1>1, <1>3, ThrowKeeps
<1> QED
  BY <1>2, <1>3, Zenon DEF Proceed

(* It does so on the worker it has.                                        *)
LEMMA GoesOnKeeps ==
    ASSUME PipelineInv, NEW i \in Nodes, phase[i] \in Busy, UNCHANGED <<plan, edges, frame, worker>>, Buffers',
           NEW to \in Busy, NEW error, Proceed(i, to, error),
           NEW v, IsView(v), view' = [view EXCEPT ![i] = v], v.seen = view[i].seen
    PROVE  PipelineInv'
<1>1. Clear(i)
  BY HeldIsClear, Values DEF PipelineInv
<1>2. worker' = [worker EXCEPT ![i] = worker[i]] /\ worker[i] \in Workers
  BY Values
<1>3. v.seen = Seen(frame, plan[i])
  BY Values
<1> QED
  BY <1>1, <1>2, <1>3, ProceedKeeps

---------------------------------------------------------------------------
(* One lemma per action.                                                   *)

LEMMA CountIsNat ==
    ASSUME NEW fr, IsFrame(fr)
    PROVE  ItemCount(fr) \in Nat
<1>1. CASE IsRowFrame(fr)
  BY <1>1, ListDomain, LayoutOf DEF ItemCount, RowCount, IsRowFrame
<1>2. CASE IsColumnFrame(fr)
  BY <1>2, LayoutOf DEF ItemCount, IsColumnFrame
<1> QED
  BY <1>1, <1>2 DEF IsFrame

LEMMA BeginKeeps ==
    ASSUME PipelineInv, NEW i \in Nodes, Begin(i)
    PROVE  PipelineInv'
<1> DEFINE w == FreeWorker
           op == plan[i]
           params == ResolveTemplate(frame, op)
           items == ItemCount(frame)
           sharded == params.error = "none" /\ op.data_parallel > 1 /\ items > 0
           vs == IF sharded THEN ShardViews(items, Min({op.data_parallel, items})) ELSE <<>>
           v == [templated |-> params.value, count |-> 0, seen |-> Seen(frame, op)]
           to == IF sharded THEN "shards" ELSE "common"
<1>1. /\ Startable(i) /\ tls_out' = [tls_out EXCEPT ![w] = Reset(@)]
      /\ UNCHANGED <<plan, edges, request, frame, shard_outs>>
      /\ \/ End(i, "skipped") /\ UNCHANGED <<warnings, view, shards, fatal>>
         \/ Begun(i, op, w, params, items)
  BY Zenon DEF Begin
<1>2. phase[i] = "waiting" /\ Clear(i)
  BY <1>1 DEF Startable, Ended, Clear
<1>3. w \in Workers
  BY <1>2, AWorkerIsFree DEF PipelineInv
<1> HIDE DEF w
<1>4. tls_out' = [tls_out EXCEPT ![w] = EmptyOutput] /\ IsOutput(EmptyOutput)
  BY <1>1, EmptyIsOutput DEF Reset
<1>5. /\ IsShards(shards[i]) /\ shards = [shards EXCEPT ![i] = shards[i]]
      /\ IsOutputs(shard_outs[i]) /\ shard_outs = [shard_outs EXCEPT ![i] = shard_outs[i]]
      /\ Buffers
  BY <1>3, BuffersSame DEF PipelineInv
<1>6. CASE End(i, "skipped") /\ UNCHANGED <<warnings, view, shards, fatal>>
  <2>1. Buffers'
    BY <1>1, <1>3, <1>4, <1>5, <1>6, BuffersKept
  <2>2. Within(frame, frame', op.common_output, op.item_output, Way(op))
    BY <1>1, SameWithin
  <2> QED
    BY <1>1, <1>2, <1>6, <2>1, <2>2, EndKeeps
<1>7. CASE Begun(i, op, w, params, items)
  <2>1. /\ Proceed(i, to, params.error)
        /\ worker' = [worker EXCEPT ![i] = w]
        /\ view' = [view EXCEPT ![i] = v]
        /\ shards' = [shards EXCEPT ![i] = vs]
    BY <1>7, Zenon DEF Begun
  <2>2. IsShards(vs)
    <3>1. items \in Nat /\ op.data_parallel \in Nat
      BY Values, CountIsNat DEF WellFormed
    <3>2. CASE sharded
      <4> DEFINE n == Min({op.data_parallel, items})
      <4>1. n \in Nat /\ n # 0
        BY <3>1, <3>2, LeastOfTwo
      <4>2. vs = ShardViews(items, n)
        BY <3>2
      <4> HIDE DEF n, vs, items
      <4> QED
        BY <3>1, <4>1, <4>2, ShardViewsCounted DEF IsShards
    <3>3. CASE ~sharded
      BY <3>3, EmptyIsList DEF IsShards
    <3> QED
      BY <3>2, <3>3
  <2> HIDE DEF vs
  <2>3. Buffers'
    BY <1>1, <1>3, <1>4, <1>5, <2>1, <2>2, BuffersKept
  <2>4. to \in Busy
    BY DEF Busy
  <2>5. IsView(v) /\ v.seen = Seen(frame, op)
    BY DEF IsView
  <2> HIDE DEF v, to
  <2> QED
    BY <1>1, <1>2, <1>3, <2>1, <2>3, <2>4, <2>5, ProceedKeeps
<1> QED
  BY <1>1, <1>6, <1>7

(* A node that runs leaves the buffers as they are, or its own empty.      *)
LEMMA BuffersStand ==
    ASSUME PipelineInv, NEW i \in Nodes, phase[i] \in Held, plan' = plan, UNCHANGED <<shards, shard_outs>>,
           NEW out, IsOutput(out), tls_out' = [tls_out EXCEPT ![worker[i]] = out]
    PROVE  Buffers'
<1>1. worker[i] \in Workers /\ Buffers
  BY Values DEF PipelineInv
<1>2. /\ IsShards(shards[i]) /\ shards' = [shards EXCEPT ![i] = shards[i]]
      /\ IsOutputs(shard_outs[i]) /\ shard_outs' = [shard_outs EXCEPT ![i] = shard_outs[i]]
  BY <1>1, BuffersSame
<1> QED
  BY <1>1, <1>2, BuffersKept

LEMMA BuffersUntouched ==
    ASSUME PipelineInv, plan' = plan, UNCHANGED <<shards, shard_outs, tls_out>>
    PROVE  Buffers'
BY DEF PipelineInv, Buffers, Nodes

LEMMA OwnOutput ==
    ASSUME PipelineInv, NEW i \in Nodes, phase[i] \in Held
    PROVE  IsOutput(tls_out[worker[i]])
BY Values, BuffersSame DEF PipelineInv

LEMMA CheckKeeps ==
    ASSUME PipelineInv, NEW i \in Nodes, NEW from \in Busy, NEW to \in Busy, NEW error, Check(i, from, to, error),
           NEW v, IsView(v), view' = [view EXCEPT ![i] = v], v.seen = view[i].seen
    PROVE  PipelineInv'
<1>1. /\ phase[i] \in Busy /\ Proceed(i, to, error)
      /\ UNCHANGED <<plan, edges, frame, worker, shards, shard_outs, tls_out>>
  BY Zenon DEF Check
<1>2. Buffers'
  BY <1>1, BuffersUntouched
<1> QED
  BY <1>1, <1>2, GoesOnKeeps

LEMMA ChecksKeep ==
    ASSUME PipelineInv, NEW i \in Nodes
    PROVE  /\ CheckCommon(i) => PipelineInv'
           /\ CheckStrict(i) => PipelineInv'
           /\ CheckNullable(i) => PipelineInv'
<1>1. IsView(view[i]) /\ view = [view EXCEPT ![i] = view[i]]
  BY Values
<1>2. "common" \in Busy /\ "strict" \in Busy /\ "nullable" \in Busy /\ "ready" \in Busy
  BY DEF Busy
<1>3. ASSUME CheckCommon(i)
      PROVE  PipelineInv'
  <2>1. Check(i, "common", "strict", CommonWindow(frame, plan[i])) /\ view' = view
    BY <1>3, Zenon DEF CheckCommon
  <2> QED
    BY <1>1, <1>2, <2>1, CheckKeeps
<1>4. ASSUME CheckStrict(i)
      PROVE  PipelineInv'
  <2>1. Check(i, "strict", "nullable", StrictWindow(frame, Master, plan[i])) /\ view' = view
    BY <1>4, Zenon DEF CheckStrict
  <2> QED
    BY <1>1, <1>2, <2>1, CheckKeeps
<1>5. ASSUME CheckNullable(i)
      PROVE  PipelineInv'
  <2> DEFINE v == [view[i] EXCEPT !.count = ItemCount(frame)]
  <2>1. /\ Check(i, "nullable", "ready", NullableWindow(frame, Master, plan[i]))
        /\ view' = [view EXCEPT ![i].count = ItemCount(frame)]
    BY <1>5, Zenon DEF CheckNullable
  <2>2. view' = [view EXCEPT ![i] = v]
    BY <2>1, <1>1
  <2>3. ItemCount(frame) \in Nat
    BY Values, CountIsNat
  <2>4. IsView(v) /\ v.seen = view[i].seen
    BY <1>1, <2>3 DEF IsView
  <2> HIDE DEF v
  <2> QED
    BY <1>2, <2>1, <2>2, <2>4, CheckKeeps
<1> QED
  BY <1>3, <1>4, <1>5

LEMMA DispatchedPutsOut ==
    ASSUME IsFrame(frame), NEW op, WellFormed(op), NEW range, range = Master \/ range.count \in Nat,
           NEW count \in Nat, NEW params, NEW error
    PROVE  IsOutput(Dispatched(op, range, count, params, error).out)
<1> DEFINE in == OperatorInput(frame, range, op, count, params)
<1>1. \/ Dispatched(op, range, count, params, error) = Throws(EmptyOutput, error)
      \/ Dispatched(op, range, count, params, error) = Execute(op, in)
  BY Zenon DEF Dispatched
<1>2. IsInput(in)
  <2>1. in.count = count
    BY DEF OperatorInput
  <2>2. \A f \in ItemFields : in.column[f] = InputColumn(frame, range, op, f)
    BY DEF OperatorInput
  <2>3. Extent(frame, range) \in Nat
    BY CountIsNat DEF Extent
  <2>4. ASSUME NEW f \in ItemFields
        PROVE  IsList(InputColumn(frame, range, op, f))
    <3> DEFINE n == Extent(frame, range)
               c == [k \in 1 .. n |-> WithDefault(Item(frame, range.offset + k, f),
                                        IF f \in op.item_input THEN op.item_defaults[f] ELSE Absent)]
    <3>1. InputColumn(frame, range, op, f) = c
      BY Zenon DEF InputColumn
    <3>2. n \in Nat
      BY <2>3
    <3> HIDE DEF n
    <3>3. c = [k \in 1 .. n |-> c[k]]
      OBVIOUS
    <3> HIDE DEF c
    <3> QED
      BY <3>1, <3>2, <3>3, FunctionIsList
  <2> HIDE DEF in
  <2> QED
    BY <2>1, <2>2, <2>4 DEF IsInput
<1> HIDE DEF in
<1>3. IsOutput(Execute(op, in).out)
  BY <1>2, ExecutePutsOut
<1> QED
  BY <1>1, <1>3, EmptyIsOutput, Produced

LEMMA RunKeeps ==
    ASSUME PipelineInv, NEW i \in Nodes, Run(i)
    PROVE  PipelineInv'
<1> DEFINE r == Dispatched(plan[i], Master, view[i].count, view[i].templated, "none")
           out == Onto(tls_out[worker[i]], r.out)
<1>1. /\ phase[i] = "ready" /\ tls_out' = [tls_out EXCEPT ![worker[i]] = Onto(@, r.out)]
      /\ Proceed(i, "executed", r.error)
      /\ UNCHANGED <<plan, edges, frame, view, shards, worker, shard_outs>>
  BY Zenon DEF Run
<1>2. phase[i] \in Busy /\ "executed" \in Busy
  BY <1>1 DEF Busy
<1>3. /\ IsView(view[i]) /\ view' = [view EXCEPT ![i] = view[i]] /\ view[i].count \in Nat
      /\ phase[i] \in Held
  BY <1>1, <1>2, Values DEF IsView
<1>4. IsOutput(r.out)
  BY <1>3, Values, DispatchedPutsOut
<1> HIDE DEF r
<1>5. IsOutput(out)
  BY <1>3, <1>4, OwnOutput, OntoIsOutput
<1>6. tls_out' = [tls_out EXCEPT ![worker[i]] = out]
  BY <1>1
<1> HIDE DEF out
<1>7. Buffers'
  BY <1>1, <1>3, <1>5, <1>6, BuffersStand
<1> QED
  BY <1>1, <1>2, <1>3, <1>7, GoesOnKeeps

LEMMA OneMoreOutput ==
    ASSUME NEW s, IsOutputs(s), NEW out, IsOutput(out)
    PROVE  IsOutputs(Append(s, out))
<1>1. IsList(s) /\ \A k \in 1 .. Len(s) : IsOutput(s[k])
  BY DEF IsOutputs
<1>2. Len(s) \in Nat
  BY <1>1, ListDomain
<1> DEFINE t == Append(s, out)
<1>3. IsList(t) /\ Len(t) = Len(s) + 1 /\ (\A k \in 1 .. Len(s) : t[k] = s[k]) /\ t[Len(s) + 1] = out
  BY <1>1, Appending
<1> HIDE DEF t
<1>4. IsOutputs(t)
  BY <1>1, <1>2, <1>3 DEF IsOutputs
<1> QED
  BY <1>4 DEF t

LEMMA RunShardKeeps ==
    ASSUME PipelineInv, NEW i \in Nodes, RunShard(i)
    PROVE  PipelineInv'
<1> DEFINE v == shards[i][Len(shard_outs[i]) + 1]
           r == Dispatched(plan[i], v, v.count, view[i].templated, BuildError(frame, v, plan[i]))
           os == Append(shard_outs[i], r.out)
<1>1. /\ phase[i] = "shards" /\ Len(shard_outs[i]) < Len(shards[i])
      /\ shard_outs' = [shard_outs EXCEPT ![i] = os] /\ Proceed(i, "shards", r.error)
      /\ UNCHANGED <<plan, edges, frame, view, shards, worker, tls_out>>
  BY Zenon DEF RunShard
<1>2. v.count \in Nat
  <2>1. IsShards(shards[i]) /\ IsOutputs(shard_outs[i])
    BY DEF PipelineInv, Buffers
  <2>2. Len(shards[i]) \in Nat /\ Len(shard_outs[i]) \in Nat
    BY <2>1, ListDomain DEF IsShards, IsOutputs
  <2>3. Len(shard_outs[i]) + 1 \in 1 .. Len(shards[i])
    BY <1>1, <2>2
  <2> QED
    BY <2>1, <2>3 DEF IsShards
<1> HIDE DEF v
<1>3. IsOutput(r.out)
  BY <1>2, Values, DispatchedPutsOut
<1> HIDE DEF r
<1>4. phase[i] \in Busy
  BY <1>1 DEF Busy
<1>5. /\ IsView(view[i]) /\ view' = [view EXCEPT ![i] = view[i]] /\ worker[i] \in Workers
  BY <1>1, <1>4, Values
<1>6. /\ IsShards(shards[i]) /\ shards' = [shards EXCEPT ![i] = shards[i]]
      /\ IsOutput(tls_out[worker[i]]) /\ tls_out' = [tls_out EXCEPT ![worker[i]] = tls_out[worker[i]]]
      /\ IsOutputs(shard_outs[i]) /\ Buffers
  BY <1>1, <1>5, BuffersSame DEF PipelineInv
<1>7. IsOutputs(os)
  BY <1>3, <1>6, OneMoreOutput
<1> HIDE DEF os
<1>8. Buffers'
  BY <1>1, <1>5, <1>6, <1>7, BuffersKept
<1>9. "shards" \in Busy
  BY DEF Busy
<1> QED
  BY <1>1, <1>4, <1>5, <1>8, <1>9, GoesOnKeeps

LEMMA MergeableAreOutputs ==
    ASSUME NEW os, IsOutputs(os)
    PROVE  IsOutputs(Mergeable(os))
<1> DEFINE S == {k \in DOMAIN os : \E j \in 1 .. k : ~ShardMayMerge(os[j])}
<1>1. Mergeable(os) = Without(os, S)
  BY Zenon DEF Mergeable
<1> HIDE DEF S
<1> DEFINE t == Without(os, S)
<1>2. IsList(t) /\ \A k \in 1 .. Len(t) : \E j \in 1 .. Len(os) : t[k] = os[j]
  BY WithoutIsList DEF IsOutputs
<1> HIDE DEF t
<1>3. IsOutputs(t)
  BY <1>2 DEF IsOutputs
<1> QED
  BY <1>1, <1>3 DEF t

LEMMA MergeKeeps ==
    ASSUME PipelineInv, NEW i \in Nodes, Merge(i)
    PROVE  PipelineInv'
<1> DEFINE offsets == [k \in DOMAIN shards[i] |-> shards[i][k].offset]
           out == MergeShards(tls_out[worker[i]], Mergeable(shard_outs[i]), offsets)
           error == IF \A k \in DOMAIN shards[i] : ShardMayMerge(shard_outs[i][k]) THEN "none" ELSE "shard output"
<1>1. /\ phase[i] = "shards" /\ tls_out' = [tls_out EXCEPT ![worker[i]] = out]
      /\ Proceed(i, "executed", error)
      /\ UNCHANGED <<plan, edges, frame, view, shards, worker, shard_outs>>
  BY Zenon DEF Merge
<1>2. phase[i] \in Busy /\ "executed" \in Busy
  BY <1>1 DEF Busy
<1>3. IsView(view[i]) /\ view' = [view EXCEPT ![i] = view[i]] /\ phase[i] \in Held
  BY <1>1, <1>2, Values
<1>4. IsOutput(tls_out[worker[i]]) /\ IsOutputs(Mergeable(shard_outs[i]))
  <2>1. IsOutputs(shard_outs[i])
    BY DEF PipelineInv, Buffers
  <2> QED
    BY <1>3, <2>1, OwnOutput, MergeableAreOutputs
<1> HIDE DEF offsets, error
<1>5. IsOutput(out)
  BY <1>4, MergeShardsIsOutput DEF IsOutputs
<1> HIDE DEF out
<1>6. Buffers'
  BY <1>1, <1>3, <1>5, BuffersStand
<1> QED
  BY <1>1, <1>2, <1>3, <1>6, GoesOnKeeps

LEMMA FinishKeeps ==
    ASSUME PipelineInv, NEW i \in Nodes, Finish(i)
    PROVE  PipelineInv'
<1> DEFINE out == tls_out[worker[i]]
           r == Applied(frame, plan[i], i, out)
<1>1. phase[i] \in Held
  BY DEF Finish, Held, Busy
<1>2. Clear(i) /\ IsOutput(out) /\ worker[i] \in Workers
  BY <1>1, HeldIsClear, OwnOutput, Values DEF PipelineInv
<1>3. AfterApply(i, r, out) /\ UNCHANGED <<plan, edges, request, view, shards, shard_outs>>
  BY Zenon DEF Finish
<1>4. Within(frame, r.frame, plan[i].common_output, plan[i].item_output, Way(plan[i]))
  BY <1>2, Values, AppliedWithin
<1> HIDE DEF r, out
<1>5. /\ frame' = r.frame
      /\ \/ End(i, "done") /\ tls_out' = [tls_out EXCEPT ![worker[i]] = Reset(Husk(@, frame.layout))]
         \/ Throw(i, r.error) /\ UNCHANGED <<worker, tls_out>>
  BY <1>3, Zenon DEF AfterApply
<1>6. CASE End(i, "done") /\ tls_out' = [tls_out EXCEPT ![worker[i]] = Reset(Husk(@, frame.layout))]
  <2>1. Buffers'
    BY <1>1, <1>3, <1>6, EmptyIsOutput, BuffersStand DEF Reset
  <2> QED
    BY <1>2, <1>3, <1>4, <1>5, <1>6, <2>1, EndKeeps
<1>7. CASE Throw(i, r.error) /\ UNCHANGED <<worker, tls_out>>
  <2>1. Buffers'
    BY <1>3, <1>7, BuffersUntouched
  <2>2. IsView(view[i]) /\ view' = [view EXCEPT ![i] = view[i]] /\ worker' = [worker EXCEPT ![i] = worker[i]]
    BY <1>3, <1>7, Values
  <2> QED
    BY <1>2, <1>3, <1>4, <1>5, <1>7, <2>1, <2>2, ThrowKeeps
<1> QED
  BY <1>5, <1>6, <1>7

LEMMA PushWarningKeeps ==
    ASSUME PipelineInv, NEW i \in Nodes, PushWarning(i)
    PROVE  PipelineInv'
<1>1. /\ phase[i] = "caught" /\ phase' = [phase EXCEPT ![i] = "failing"]
      /\ UNCHANGED <<plan, edges, frame, view, shards, worker, tls_out, shard_outs>>
  BY Zenon DEF PushWarning
<1>2. /\ phase[i] \in Held /\ "failing" \in Held /\ "failing" \in Held \cup {"ended"}
      /\ "failing" \notin Busy
  BY <1>1 DEF Held, Busy, Caught
<1>3. Clear(i) /\ Buffers'
  BY <1>1, <1>2, HeldIsClear, BuffersUntouched DEF PipelineInv
<1>4. /\ IsView(view[i]) /\ view' = [view EXCEPT ![i] = view[i]]
      /\ worker' = [worker EXCEPT ![i] = worker[i]] /\ worker[i] \in 0 .. MaxOps /\ worker[i] \in Workers
  BY <1>1, <1>2, Values
<1>5. Within(frame, frame', plan[i].common_output, plan[i].item_output, Way(plan[i]))
  BY <1>1, SameWithin
<1> QED
  BY <1>1, <1>2, <1>3, <1>4, <1>5, StepKeeps

LEMMA FailKeeps ==
    ASSUME PipelineInv, NEW i \in Nodes, Fail(i)
    PROVE  PipelineInv'
<1>1. /\ phase[i] \in {"caught", "failing"} /\ End(i, outcome[i])
      /\ tls_out' = [tls_out EXCEPT ![worker[i]] = Reset(@)]
      /\ UNCHANGED <<plan, edges, frame, view, shards, shard_outs>>
  BY DEF Fail
<1>2. phase[i] \in Held
  BY <1>1 DEF Held, Caught
<1>3. Clear(i) /\ Buffers'
  BY <1>1, <1>2, HeldIsClear, EmptyIsOutput, BuffersStand DEF PipelineInv, Reset
<1>4. Within(frame, frame', plan[i].common_output, plan[i].item_output, Way(plan[i]))
  BY <1>1, SameWithin
<1> QED
  BY <1>1, <1>3, <1>4, EndKeeps

LEMMA NextKeeps ==
    ASSUME PipelineInv, [Next]_vars
    PROVE  PipelineInv'
<1>1. ASSUME NEW i \in Nodes,
             \/ Begin(i) \/ CheckCommon(i) \/ CheckStrict(i) \/ CheckNullable(i)
             \/ Run(i) \/ RunShard(i) \/ Merge(i) \/ Finish(i) \/ PushWarning(i) \/ Fail(i)
      PROVE  PipelineInv'
  BY <1>1, BeginKeeps, ChecksKeep, RunKeeps, RunShardKeeps, MergeKeeps, FinishKeeps, PushWarningKeeps, FailKeeps
<1>2. CASE UNCHANGED vars
  BY <1>2 DEF vars, PipelineInv, OrderInv, ViewInv, Buffers, Nodes
<1> QED
  BY <1>1, <1>2, Zenon DEF Next, Returned

LEMMA MadeFrames ==
    ASSUME NEW mode, NEW common, IsCommon(common), NEW items, IsList(items),
           \A k \in 1 .. Len(items) : IsRow(items[k])
    PROVE  IsFrame(MakeFrame(mode, common, items))
<1> DEFINE row == MakeRowFrame(common, items)
           cols == [f \in ItemFields |-> ColumnFrom(items, f)]
           column == [layout |-> "column", common |-> common, n |-> Len(items), cols |-> cols]
<1>1. MakeFrame(mode, common, items) \in {row, column}
  <2>1. MakeFrame(mode, common, items) = row \/ MakeFrame(mode, common, items) = column
    BY Zenon DEF MakeFrame, MakeColumnFrame
  <2> QED
    BY <2>1, Zenon
<1>2. IsRowFrame(row)
  <2> HIDE DEF IsCommon, IsList, IsRow
  <2> QED
    BY DEF IsRowFrame, MakeRowFrame
<1>3. IsColumnFrame(column)
  <2>1. IsColumns(cols)
    BY DEF IsColumns
  <2>2. Len(items) \in Nat
    BY ListDomain
  <2> HIDE DEF cols, IsCommon, IsColumns
  <2> QED
    BY <2>1, <2>2 DEF IsColumnFrame
<1> HIDE DEF row, column
<1> QED
  BY <1>1, <1>2, <1>3 DEF IsFrame

LEMMA InitHolds ==
    ASSUME Init
    PROVE  PipelineInv
<1>1. /\ plan \in Plans /\ edges = Required(plan) /\ request \in Requests
      /\ phase = [i \in Nodes |-> "waiting"]
      /\ view = [i \in Nodes |-> NoView]
      /\ shards = [i \in Nodes |-> <<>>]
      /\ worker = [i \in Nodes |-> 0]
      /\ tls_out = [w \in Workers |-> EmptyOutput]
      /\ shard_outs = [i \in Nodes |-> <<>>]
  BY Zenon DEF Init
<1>2. \E mode : frame = MakeFrame(mode, request.common, request.items)
  BY Zenon DEF Init
<1>3. MaxOps \in Nat /\ 0 \notin Workers /\ "waiting" \notin Held /\ "waiting" \notin Busy
  BY <1>1, PlanNodes DEF Workers, Held, Busy, Caught
<1>4. OrderInv
  <2>1. \A e \in edges : e[2] \in Nodes
    BY <1>1 DEF Required, Nodes
  <2> QED
    BY <1>1, <1>3, <2>1 DEF OrderInv
<1>5. ViewInv
  <2>1. IsFrame(frame)
    BY <1>1, <1>2, MadeFrames, PipelineAssumption
  <2>2. IsView(NoView)
    BY DEF IsView, NoView
  <2> QED
    BY <1>1, <1>3, <2>1, <2>2 DEF ViewInv
<1>6. Buffers
  <2>1. IsShards(<<>>) /\ IsOutputs(<<>>) /\ IsOutput(EmptyOutput)
    BY EmptyIsList, EmptyIsOutput DEF IsShards, IsOutputs
  <2> HIDE DEF IsShards, IsOutputs, IsOutput
  <2> QED
    BY <1>1, <2>1 DEF Buffers
<1> QED
  BY <1>4, <1>5, <1>6 DEF PipelineInv

LEMMA Invariance == Spec => []PipelineInv
<1>1. Init => PipelineInv
  BY InitHolds
<1>2. PipelineInv /\ [Next]_vars => PipelineInv'
  BY NextKeeps
<1> QED
  BY <1>1, <1>2, PTL DEF Spec

(* What an operator may read stays as it is from the moment its node looks *)
(* at its input until its output is applied (run_dag, engine.cpp).         *)
THEOREM StableViewHolds == Spec => []StableView
<1>1. PipelineInv => StableView
  <2> SUFFICES ASSUME PipelineInv, NEW i \in Nodes,
                      phase[i] \in {"common", "strict", "nullable", "ready", "shards", "executed"}
               PROVE  view[i].seen = Seen(frame, plan[i])
    BY Zenon DEF StableView
  <2> QED
    BY DEF PipelineInv, ViewInv, Busy
<1> QED
  BY <1>1, Invariance, PTL

(* Two nodes whose bodies are running at the same time do not conflict: no *)
(* field one of them writes is read or written by the other.               *)
THEOREM NoTwoConflict ==
    Spec => [](\A i, j \in Nodes : i # j /\ phase[i] \in Busy /\ phase[j] \in Busy => Apart(plan[i], plan[j]))
<1>1. PipelineInv => \A i, j \in Nodes : i # j /\ phase[i] \in Busy /\ phase[j] \in Busy => Apart(plan[i], plan[j])
  BY HeldIsClear, ClearAreApart DEF PipelineInv, Held
<1> QED
  BY <1>1, Invariance, PTL

---------------------------------------------------------------------------
(* The algorithms that take rows out and put rows in order.                *)

(* A recursion along an interval that stays in a set has a solution.       *)
Solution(g, n, V, base, step) ==
    g \in [0 .. n -> V] /\ g[0] = base /\ \A k \in 1 .. n : g[k] = step[k][g[k - 1]]

LEMMA Recursion ==
    ASSUME NEW n, n \in Nat, NEW V, NEW base, base \in V, NEW step, step \in [1 .. n -> [V -> V]]
    PROVE  \E g : Solution(g, n, V, base, step)
<1> DEFINE Solves(g, m) == g \in [0 .. m -> V] /\ g[0] = base /\ \A k \in 1 .. m : g[k] = step[k][g[k - 1]]
           P == {m \in 0 .. n : \E g : Solves(g, m)}
<1>1. 0 \in P
  <2> DEFINE h == [k \in 0 .. 0 |-> base]
  <2>1. h \in [0 .. 0 -> V] /\ h[0] = base /\ 1 .. 0 = {}
    OBVIOUS
  <2> HIDE DEF h
  <2>2. Solves(h, 0)
    BY <2>1
  <2> QED
    BY <2>2
<1>2. ASSUME NEW m \in 1 .. n, m - 1 \in P
      PROVE  m \in P
  <2>1. PICK g : Solves(g, m - 1)
    BY <1>2
  <2> DEFINE x == step[m][g[m - 1]]
             h == [k \in 0 .. m |-> IF k = m THEN x ELSE g[k]]
  <2>2. m \in 1 .. n /\ m - 1 \in 0 .. m - 1
    OBVIOUS
  <2>3. x \in V
    BY <2>1, <2>2
  <2> HIDE DEF x
  <2>4. h \in [0 .. m -> V] /\ h[0] = g[0] /\ h[m] = x /\ h[m - 1] = g[m - 1]
    BY <2>1, <2>2, <2>3
  <2>5. \A k \in 1 .. m - 1 : h[k] = g[k] /\ h[k - 1] = g[k - 1]
    BY <2>2
  <2> HIDE DEF h
  <2>6. ASSUME NEW k \in 1 .. m
        PROVE  h[k] = step[k][h[k - 1]]
    <3>1. CASE k = m
      BY <2>4, <3>1 DEF x
    <3>2. CASE k # m
      <4>1. k \in 1 .. m - 1
        BY <2>2, <3>2
      <4> QED
        BY <2>1, <2>5, <4>1
    <3> QED
      BY <3>1, <3>2
  <2>7. Solves(h, m)
    BY <2>1, <2>4, <2>6
  <2>8. \E f : Solves(f, m)
    BY <2>7, Zenon
  <2>9. m \in 0 .. n
    BY <2>2
  <2> HIDE DEF Solves
  <2> QED
    BY <2>8, <2>9
<1>3. 0 .. n \subseteq P
  <2> HIDE DEF P
  <2> QED
    BY <1>1, <1>2, AscentFromZero
<1>4. n \in P
  <2> HIDE DEF P
  <2> QED
    BY <1>3
<1>5. PICK g : Solves(g, n)
  BY <1>4
<1> QED
  BY <1>5 DEF Solution

(* A list of w values in order, each up to m, and m + 1 as one more.       *)
Prolonged(p, w, m) == [j \in 1 .. w + 1 |-> IF j = w + 1 THEN m + 1 ELSE p[j]]
Prolongs(q, p, w, m) ==
    /\ q \in [1 .. w + 1 -> 1 .. m + 1] /\ Ascending(q)
    /\ q[w + 1] = m + 1 /\ \A j \in 1 .. w : q[j] = p[j]
    /\ Len(p) = w /\ Len(q) = w + 1

LEMMA OneMore ==
    ASSUME NEW w \in Nat, NEW m \in Nat, NEW p \in [1 .. w -> 1 .. m], Ascending(p)
    PROVE  Prolongs(Prolonged(p, w, m), p, w, m)
<1> DEFINE q == [j \in 1 .. w + 1 |-> IF j = w + 1 THEN m + 1 ELSE p[j]]
<1>1. /\ DOMAIN q = 1 .. w + 1 /\ q \in [1 .. w + 1 -> {q[j] : j \in 1 .. w + 1}]
      /\ q[w + 1] = m + 1 /\ \A j \in 1 .. w : q[j] = p[j]
  OBVIOUS
<1>2. \A j \in 1 .. w : p[j] \in 1 .. m
  OBVIOUS
<1>3. \A j \in 1 .. w + 1 : j = w + 1 \/ j \in 1 .. w
  OBVIOUS
<1> HIDE DEF q
<1>4. ASSUME NEW j \in 1 .. w + 1
      PROVE  q[j] \in 1 .. m + 1
  <2>1. CASE j = w + 1
    BY <1>1, <2>1
  <2>2. CASE j # w + 1
    <3>1. j \in 1 .. w
      BY <2>2
    <3>2. q[j] = p[j] /\ p[j] \in 1 .. m
      BY <1>1, <1>2, <3>1
    <3> QED
      BY <3>2
  <2> QED
    BY <2>1, <2>2
<1>5. q \in [1 .. w + 1 -> 1 .. m + 1]
  BY <1>1, <1>4
<1>6. ASSUME NEW a \in 1 .. w + 1, NEW b \in 1 .. w + 1, a < b
      PROVE  q[a] < q[b]
  <2>1. a \in 1 .. w
    BY <1>6
  <2>2. CASE b = w + 1
    BY <1>1, <1>2, <2>1, <2>2
  <2>3. CASE b # w + 1
    <3>1. b \in 1 .. w
      BY <2>3
    <3>2. p[a] < p[b]
      BY <1>6, <2>1, <3>1 DEF Ascending
    <3> QED
      BY <1>1, <2>1, <3>1, <3>2
  <2> QED
    BY <2>2, <2>3
<1>7. Ascending(q)
  BY <1>1, <1>6 DEF Ascending
<1>8. Len(p) = w /\ Len(q) = w + 1
  <2>1. p = [j \in 1 .. w |-> p[j]] /\ q = [j \in 1 .. w + 1 |-> q[j]]
    BY <1>5
  <2>2. w + 1 \in Nat
    OBVIOUS
  <2> QED
    BY <2>1, <2>2, FunctionIsList
<1>9. Prolongs(q, p, w, m)
  BY <1>1, <1>5, <1>7, <1>8 DEF Prolongs
<1> QED
  BY <1>9 DEF Prolonged, q

(* The places that a list less some of its places comes from.              *)
Comes(t, s, m, p) ==
    /\ IsList(t) /\ p \in [1 .. Len(t) -> 1 .. m] /\ Ascending(p)
    /\ \A j \in 1 .. Len(t) : t[j] = s[p[j]]

LEMMA WithoutComes ==
    ASSUME NEW s, IsList(s), NEW S
    PROVE  \E p : Comes(Without(s, S), s, Len(s), p)
<1> DEFINE n == Len(s)
<1>1. n \in Nat
  BY ListDomain
<1>2. PICK g : WithoutRun(g, s, S, n) /\ Without(s, S) = g[n]
  BY WithoutResult
<1> HIDE DEF n
<1> DEFINE P == {k \in Nat : \E p : Comes(g[k], s, k, p)}
<1>3. 0 \in P
  <2> DEFINE p == [j \in 1 .. 0 |-> j]
  <2>1. 1 .. 0 = {} /\ p \in [1 .. 0 -> 1 .. 0] /\ DOMAIN p = {}
    OBVIOUS
  <2> HIDE DEF p
  <2>2. g[0] = <<>>
    BY <1>2 DEF WithoutRun
  <2>3. Comes(g[0], s, 0, p)
    BY <2>1, <2>2, EmptyIsList DEF Comes, Ascending
  <2> QED
    BY <2>3
<1>4. ASSUME NEW k \in 1 .. n, k - 1 \in P
      PROVE  k \in P
  <2> DEFINE m == k - 1
             a == g[m]
  <2>1. PICK p : Comes(a, s, m, p)
    BY <1>4
  <2>2. m \in Nat /\ k = m + 1 /\ k \in Nat /\ k \in 1 .. n
    BY <1>1
  <2>3. g[k] = IF k \in S THEN a ELSE Append(a, s[k])
    BY <1>2, <2>2 DEF WithoutRun
  <2> HIDE DEF a, m
  <2>4. IsList(a) /\ Len(a) \in Nat /\ p \in [1 .. Len(a) -> 1 .. m] /\ Ascending(p)
    BY <2>1, ListDomain DEF Comes
  <2>5. CASE k \in S
    <3>1. p \in [1 .. Len(a) -> 1 .. k]
      <4>1. 1 .. m \subseteq 1 .. k
        BY <2>2
      <4> QED
        BY <2>4, <4>1
    <3>2. Comes(g[k], s, k, p)
      BY <2>1, <2>3, <2>5, <3>1 DEF Comes
    <3> QED
      BY <2>2, <3>2
  <2>6. CASE k \notin S
    <3> DEFINE w == Len(a)
               q == Prolonged(p, w, m)
               t == Append(a, s[k])
    <3>1. /\ q \in [1 .. w + 1 -> 1 .. m + 1] /\ Ascending(q)
          /\ q[w + 1] = m + 1 /\ \A j \in 1 .. w : q[j] = p[j]
          /\ Len(p) = w /\ Len(q) = w + 1
      <4>1. w \in Nat /\ m \in Nat /\ p \in [1 .. w -> 1 .. m] /\ Ascending(p)
        BY <2>2, <2>4
      <4> HIDE DEF w
      <4>2. Prolongs(Prolonged(p, w, m), p, w, m)
        BY Zenon, <4>1, OneMore
      <4>3. Prolongs(q, p, w, m)
        BY <4>2
      <4> HIDE DEF q
      <4> QED
        BY <4>3 DEF Prolongs
    <3>2. /\ IsList(t) /\ Len(t) = w + 1 /\ t[w + 1] = s[k]
          /\ \A j \in 1 .. w : t[j] = a[j]
      BY <2>4, Appending
    <3>3. \A j \in 1 .. w + 1 : j = w + 1 \/ j \in 1 .. w
      BY <2>4
    <3>4. \A j \in 1 .. w : a[j] = s[p[j]]
      BY <2>1 DEF Comes
    <3> HIDE DEF q, t, w
    <3>5. Comes(t, s, k, q)
      BY <2>2, <3>1, <3>2, <3>3, <3>4 DEF Comes
    <3> QED
      BY <2>2, <2>3, <2>6, <3>5 DEF t
  <2> QED
    BY <2>5, <2>6
<1>5. 0 .. n \subseteq P
  <2> HIDE DEF P
  <2> QED
    BY <1>1, <1>3, <1>4, AscentFromZero
<1>6. n \in P
  <2> HIDE DEF P
  <2> QED
    BY <1>1, <1>5
<1> QED
  BY <1>2, <1>6 DEF n

(* The partial results of CompactSeq.                                      *)
CompactRun(g, s, S) ==
    /\ g[0] = [data |-> s, write |-> 1]
    /\ \A k \in 1 .. Len(s) : g[k] = IF k \in S THEN g[k - 1] ELSE CompactStep(g[k - 1], k)

LEMMA CompactResult ==
    ASSUME NEW s, IsList(s), NEW S
    PROVE  \E g : CompactRun(g, s, S) /\ CompactSeq(s, S) = SubSeq(g[Len(s)].data, 1, g[Len(s)].write - 1)
<1> DEFINE n == Len(s)
           T == {s[k] : k \in 1 .. n}
           V == [data : [1 .. n -> T], write : Nat]
           base == [data |-> s, write |-> 1]
           step == [k \in 1 .. n |-> [a \in V |-> IF k \in S THEN a ELSE CompactStep(a, k)]]
           Body(f) == [k \in 0 .. n |-> IF k = 0 THEN base
                                        ELSE IF k \in S THEN f[k - 1] ELSE CompactStep(f[k - 1], k)]
           g == CHOOSE f : f = Body(f)
<1>1. n \in Nat /\ s \in [1 .. n -> T]
  <2>1. n \in Nat /\ s = [k \in 1 .. n |-> s[k]]
    BY DEF IsList
  <2> HIDE DEF n
  <2> QED
    BY <2>1
<1>2. CompactSeq(s, S) = SubSeq(g[n].data, 1, g[n].write - 1)
  BY Zenon DEF CompactSeq
<1> HIDE DEF n, T
<1>3. base \in V
  BY <1>1
<1>4. ASSUME NEW k \in 1 .. n, NEW a \in V
      PROVE  CompactStep(a, k) \in V
  <2> DEFINE d == a.data
             e == [d EXCEPT ![a.write] = d[k]]
  <2>1. d \in [1 .. n -> T] /\ a.write \in Nat
    OBVIOUS
  <2>2. e \in [1 .. n -> T]
    <3> HIDE DEF d
    <3> QED
      BY <2>1
  <2>3. CompactStep(a, k) = [data |-> e, write |-> a.write + 1]
    BY DEF CompactStep
  <2> HIDE DEF d, e
  <2> QED
    BY <2>1, <2>2, <2>3
<1> HIDE DEF V, base
<1>5. step \in [1 .. n -> [V -> V]]
  BY <1>4
<1>6. PICK f : Solution(f, n, V, base, step)
  <2> HIDE DEF step
  <2> QED
    BY <1>1, <1>3, <1>5, Recursion
<1>7. \A k \in 1 .. n : f[k - 1] \in V /\ f[k] = IF k \in S THEN f[k - 1] ELSE CompactStep(f[k - 1], k)
  <2>1. \A k \in 1 .. n : k - 1 \in 0 .. n
    BY <1>1
  <2>2. \A k \in 1 .. n : f[k - 1] \in V
    BY <1>6, <2>1 DEF Solution
  <2>3. \A k \in 1 .. n : f[k] = step[k][f[k - 1]]
    BY <1>6 DEF Solution
  <2> QED
    BY <2>2, <2>3
<1>8. f = Body(f)
  <2>1. \A k \in 0 .. n : k = 0 \/ k \in 1 .. n
    BY <1>1
  <2>2. f \in [0 .. n -> V] /\ f[0] = base
    BY <1>6 DEF Solution
  <2> HIDE DEF step
  <2> QED
    BY <1>7, <2>1, <2>2
<1>9. g = Body(g)
  BY <1>8, Zenon
<1>10. g[0] = base /\ \A k \in 1 .. n : g[k] = IF k \in S THEN g[k - 1] ELSE CompactStep(g[k - 1], k)
  <2>1. g = [k \in 0 .. n |-> IF k = 0 THEN base
                              ELSE IF k \in S THEN g[k - 1] ELSE CompactStep(g[k - 1], k)]
    BY <1>9
  <2> HIDE DEF g, Body
  <2>2. 0 \in 0 .. n /\ \A k \in 1 .. n : k \in 0 .. n /\ k # 0
    BY <1>1
  <2> QED
    BY <2>1, <2>2
<1> HIDE DEF g
<1>11. CompactRun(g, s, S)
  BY <1>10 DEF CompactRun, base, n
<1> QED
  BY <1>2, <1>11 DEF n

(* Compacting is removing: the slots that stay move down, the same ones in *)
(* every list of that length.                                              *)
Compacted(g, s, k, p) ==
    /\ g[k].write = Len(p) + 1
    /\ IsList(g[k].data) /\ Len(g[k].data) = Len(s)
    /\ \A j \in 1 .. Len(p) : g[k].data[j] = s[p[j]]
    /\ \A j \in k + 1 .. Len(s) : g[k].data[j] = s[j]

LEMMA CompactStays ==
    ASSUME NEW s, IsList(s), NEW S, NEW g, CompactRun(g, s, S), NEW k \in 1 .. Len(s), NEW p, k \in S,
           Compacted(g, s, k - 1, p)
    PROVE  Compacted(g, s, k, p)
<1>1. g[k] = g[k - 1] /\ Len(s) \in Nat
  BY ListDomain DEF CompactRun
<1>2. \A j \in k + 1 .. Len(s) : j \in (k - 1) + 1 .. Len(s)
  BY <1>1
<1> QED
  BY <1>1, <1>2 DEF Compacted

LEMMA CompactMoves ==
    ASSUME NEW s, IsList(s), NEW S, NEW g, CompactRun(g, s, S), NEW k \in 1 .. Len(s), k \notin S,
           NEW w \in Nat, w < k, NEW p, Len(p) = w, Compacted(g, s, k - 1, p),
           NEW q, Len(q) = w + 1, q[w + 1] = k, \A j \in 1 .. w : q[j] = p[j]
    PROVE  Compacted(g, s, k, q)
<1> DEFINE a == g[k - 1]
           d == a.data
           e == [d EXCEPT ![w + 1] = d[k]]
           n == Len(s)
<1>1. n \in Nat
  BY ListDomain
<1>2. a.write = w + 1 /\ IsList(d) /\ Len(d) = n
  BY DEF Compacted
<1>3. g[k] = [data |-> [a.data EXCEPT ![a.write] = a.data[k]], write |-> a.write + 1]
  BY DEF CompactRun, CompactStep
<1>4. g[k].data = e /\ g[k].write = w + 2
  BY <1>2, <1>3
<1>5. \A j \in 1 .. w : d[j] = s[p[j]]
  BY DEF Compacted
<1>6. \A j \in (k - 1) + 1 .. n : d[j] = s[j]
  BY DEF Compacted
<1>7. k \in 1 .. n /\ k \in (k - 1) + 1 .. n /\ w + 1 \in 1 .. n
  BY <1>1
<1> HIDE DEF a, d, n
<1>8. DOMAIN d = 1 .. n
  BY <1>2, ListDomain
<1>9. /\ e = [j \in 1 .. n |-> e[j]] /\ e[w + 1] = d[k]
      /\ \A j \in 1 .. n : j # w + 1 => e[j] = d[j]
  BY <1>7, <1>8
<1> HIDE DEF e
<1>10. IsList(e) /\ Len(e) = n
  BY <1>1, <1>9, FunctionIsList
<1>11. ASSUME NEW j \in 1 .. w + 1
       PROVE  e[j] = s[q[j]]
  <2>1. CASE j = w + 1
    BY <1>6, <1>7, <1>9, <2>1
  <2>2. CASE j # w + 1
    <3>1. j \in 1 .. w /\ j \in 1 .. n
      BY <1>1, <1>7, <2>2
    <3> QED
      BY <1>5, <1>9, <2>2, <3>1
  <2> QED
    BY <2>1, <2>2
<1>12. ASSUME NEW j \in k + 1 .. n
       PROVE  e[j] = s[j]
  <2>1. j \in (k - 1) + 1 .. n /\ j \in 1 .. n /\ j # w + 1
    BY <1>1, <1>7
  <2> QED
    BY <1>6, <1>9, <2>1
<1> QED
  BY <1>4, <1>10, <1>11, <1>12 DEF Compacted, n

(* Rows drawn from others, in every list of them alike.                    *)
Drawn(t, s, n, p) == IsList(t) /\ Len(t) = n /\ \A k \in 1 .. n : t[k] = s[p[k]]
Compacts(S, n, m, p) ==
    /\ p \in [1 .. m -> 1 .. n] /\ Ascending(p)
    /\ \A s : IsList(s) /\ Len(s) = n => Drawn(CompactSeq(s, S), s, m, p)

LEMMA Compacting ==
    ASSUME NEW n \in Nat, NEW S, S \subseteq 1 .. n
    PROVE  n - Cardinality(S) \in Nat /\ \E p : Compacts(S, n, n - Cardinality(S), p)
<1> DEFINE W(k) == Cardinality((1 .. k) \ S)
           Takes(k, p) == \A s, g : IsList(s) /\ Len(s) = n /\ CompactRun(g, s, S) => Compacted(g, s, k, p)
           P == {k \in Nat : \E p \in [1 .. W(k) -> 1 .. k] : Ascending(p) /\ Takes(k, p)}
<1>1. ASSUME NEW k \in Nat
      PROVE  IsFiniteSet((1 .. k) \ S) /\ W(k) \in Nat /\ W(k) <= k
  <2>1. IsFiniteSet(1 .. k) /\ Cardinality(1 .. k) = k
    BY FS_Interval
  <2>2. (1 .. k) \ S \in SUBSET (1 .. k)
    OBVIOUS
  <2> QED
    BY <2>1, <2>2, FS_Subset, FS_CardinalityType
<1>2. 0 \in P
  <2>1. (1 .. 0) \ S = {} /\ W(0) = 0
    BY FS_EmptySet
  <2> DEFINE p == [j \in 1 .. 0 |-> j]
  <2>2. p \in [1 .. 0 -> 1 .. 0] /\ DOMAIN p = {} /\ 1 .. 0 = {} /\ p = [j \in 1 .. 0 |-> p[j]]
    OBVIOUS
  <2>3. p = <<>> /\ Len(p) = 0
    OBVIOUS
  <2> HIDE DEF p
  <2>4. ASSUME NEW s, NEW g, IsList(s), Len(s) = n, CompactRun(g, s, S)
        PROVE  Compacted(g, s, 0, p)
    BY <2>2, <2>3, <2>4 DEF CompactRun, Compacted
  <2>5. Ascending(p)
    BY <2>2 DEF Ascending
  <2> QED
    BY <2>1, <2>2, <2>4, <2>5
<1>3. ASSUME NEW k \in 1 .. n, k - 1 \in P
      PROVE  k \in P
  <2> DEFINE m == k - 1
             w == W(m)
  <2>1. m \in Nat /\ k = m + 1 /\ k \in Nat /\ k \in 1 .. n
    OBVIOUS
  <2>2. PICK p \in [1 .. w -> 1 .. m] : Ascending(p) /\ Takes(m, p)
    BY <1>3
  <2>3. w \in Nat /\ w <= m /\ IsFiniteSet((1 .. m) \ S)
    BY <1>1, <2>1
  <2>4. Len(p) = w /\ IsList(p)
    <3>1. p = [j \in 1 .. w |-> p[j]]
      OBVIOUS
    <3> HIDE DEF w
    <3> QED
      BY <2>3, <3>1, FunctionIsList
  <2>5. CASE k \in S
    <3>1. W(k) = w
      <4>1. (1 .. k) \ S = (1 .. m) \ S
        BY <2>1, <2>5
      <4> QED
        BY <4>1
    <3>2. p \in [1 .. w -> 1 .. k]
      <4>1. 1 .. m \subseteq 1 .. k
        BY <2>1
      <4> HIDE DEF w, m
      <4> QED
        BY <4>1
    <3> HIDE DEF w, W
    <3>3. Takes(k, p)
      <4> SUFFICES ASSUME NEW s, NEW g, IsList(s), Len(s) = n, CompactRun(g, s, S)
                   PROVE  Compacted(g, s, k, p)
        OBVIOUS
      <4>1. Compacted(g, s, k - 1, p)
        BY <2>2
      <4>2. k \in 1 .. Len(s)
        BY <2>1
      <4> QED
        BY <2>5, <4>1, <4>2, CompactStays
    <3> HIDE DEF Takes
    <3> QED
      BY <2>1, <2>2, <3>1, <3>2, <3>3
  <2>6. CASE k \notin S
    <3>1. W(k) = w + 1
      <4>1. (1 .. k) \ S = ((1 .. m) \ S) \cup {k} /\ k \notin (1 .. m) \ S
        BY <2>1, <2>6
      <4> QED
        BY <2>3, <4>1, FS_AddElement
    <3> HIDE DEF w, W
    <3> DEFINE q == Prolonged(p, w, m)
    <3>2. /\ q \in [1 .. w + 1 -> 1 .. m + 1] /\ Ascending(q)
          /\ q[w + 1] = m + 1 /\ \A j \in 1 .. w : q[j] = p[j]
          /\ Len(p) = w /\ Len(q) = w + 1
      <4> HIDE DEF m
      <4>1. w \in Nat /\ m \in Nat /\ p \in [1 .. w -> 1 .. m] /\ Ascending(p)
        BY <2>1, <2>2, <2>3
      <4>2. Prolongs(Prolonged(p, w, m), p, w, m)
        BY Zenon, <4>1, OneMore
      <4>3. Prolongs(q, p, w, m)
        BY <4>2
      <4> HIDE DEF q
      <4> QED
        BY <4>3 DEF Prolongs
    <3>3. Len(q) = w + 1
      BY <3>2
    <3> HIDE DEF q
    <3>4. Takes(k, q)
      <4> SUFFICES ASSUME NEW s, NEW g, IsList(s), Len(s) = n, CompactRun(g, s, S)
                   PROVE  Compacted(g, s, k, q)
        OBVIOUS
      <4>1. Compacted(g, s, k - 1, p)
        BY <2>2
      <4>2. k \in 1 .. Len(s) /\ w < k /\ q[w + 1] = k
        BY <2>1, <2>3, <3>2
      <4> QED
        BY <2>3, <2>4, <2>6, <3>2, <3>3, <4>1, <4>2, CompactMoves
    <3>5. q \in [1 .. W(k) -> 1 .. k]
      BY <2>1, <3>1, <3>2
    <3> HIDE DEF Takes
    <3> QED
      BY <2>1, <3>2, <3>4, <3>5
  <2> QED
    BY <2>5, <2>6
<1>4. n \in P
  <2> HIDE DEF P
  <2>1. 0 .. n \subseteq P
    BY <1>2, <1>3, AscentFromZero
  <2> QED
    BY <2>1
<1>5. PICK p \in [1 .. W(n) -> 1 .. n] : Ascending(p) /\ Takes(n, p)
  BY <1>4
<1>6. W(n) = n - Cardinality(S)
  <2>1. IsFiniteSet(1 .. n) /\ Cardinality(1 .. n) = n
    BY FS_Interval
  <2>2. (1 .. n) \cap S = S
    OBVIOUS
  <2>3. Cardinality((1 .. n) \ S) = Cardinality(1 .. n) - Cardinality((1 .. n) \cap S)
    BY <2>1, FS_Difference
  <2> QED
    BY <2>1, <2>2, <2>3
<1> DEFINE w == W(n)
<1>7. w \in Nat /\ w <= n
  BY <1>1
<1>8. Len(p) = w
  <2>1. p = [j \in 1 .. w |-> p[j]]
    OBVIOUS
  <2> HIDE DEF w
  <2> QED
    BY <1>7, <2>1, FunctionIsList
<1>9. ASSUME NEW s, IsList(s), Len(s) = n
      PROVE  Drawn(CompactSeq(s, S), s, w, p)
  <2>1. PICK g : CompactRun(g, s, S) /\ CompactSeq(s, S) = SubSeq(g[n].data, 1, g[n].write - 1)
    BY <1>9, CompactResult
  <2> DEFINE d == g[n].data
             D == {d[j] : j \in 1 .. n}
  <2>2. Compacted(g, s, n, p)
    BY <1>5, <1>9, <2>1
  <2> HIDE DEF w, W, Takes
  <2>3. g[n].write = w + 1 /\ IsList(d) /\ Len(d) = n /\ \A j \in 1 .. w : d[j] = s[p[j]]
    BY <1>8, <1>9, <2>2 DEF Compacted
  <2>4. CompactSeq(s, S) = SubSeq(d, 1, w)
    BY <1>7, <2>1, <2>3
  <2>5. \A j \in 1 .. w : d[j] \in D
    BY <1>7
  <2> HIDE DEF d, D
  <2>6. /\ SubSeq(d, 1, w) \in Seq(D) /\ Len(SubSeq(d, 1, w)) = IF 1 <= w THEN w - 1 + 1 ELSE 0
        /\ \A j \in 1 .. w - 1 + 1 : SubSeq(d, 1, w)[j] = d[1 + j - 1]
    BY <1>7, <2>5, SubSeqProperties
  <2>7. Len(SubSeq(d, 1, w)) = w /\ \A j \in 1 .. w : SubSeq(d, 1, w)[j] = d[j]
    BY <1>7, <2>6
  <2>8. IsList(SubSeq(d, 1, w))
    BY <2>6, SeqIsList
  <2> QED
    BY <2>3, <2>4, <2>7, <2>8 DEF Drawn
<1> HIDE DEF W, Takes
<1>10. Compacts(S, n, w, p)
  BY <1>5, <1>9 DEF Compacts
<1> QED
  BY <1>6, <1>7, <1>10

(* Compacting a column in place takes away what was removed and nothing    *)
(* else: the slots compact_with_bitmap leaves are, one by one, the values  *)
(* that were not removed, in the order that was.                           *)
THEOREM Compaction ==
    ASSUME NEW s, IsList(s), NEW S
    PROVE  CompactSeq(s, S) = Without(s, S)
<1> DEFINE n == Len(s)
<1>1. n \in Nat
  BY ListDomain
<1>2. PICK g : CompactRun(g, s, S) /\ CompactSeq(s, S) = SubSeq(g[n].data, 1, g[n].write - 1)
  BY CompactResult
<1>3. PICK r : WithoutRun(r, s, S, n) /\ Without(s, S) = r[n]
  BY WithoutResult
<1> DEFINE Follows(k, p) == Comes(r[k], s, k, p) /\ Compacted(g, s, k, p) /\ Len(r[k]) <= k
           P == {k \in Nat : \E p : Follows(k, p)}
<1>4. 0 \in P
  <2> DEFINE p == [j \in 1 .. 0 |-> j]
  <2>1. 1 .. 0 = {} /\ p \in [1 .. 0 -> 1 .. 0] /\ DOMAIN p = {}
    OBVIOUS
  <2>2. p = <<>> /\ Len(p) = 0
    OBVIOUS
  <2> HIDE DEF p
  <2>3. r[0] = <<>> /\ g[0] = [data |-> s, write |-> 1]
    BY <1>2, <1>3 DEF WithoutRun, CompactRun
  <2>4. Comes(r[0], s, 0, p)
    BY <2>1, <2>3, EmptyIsList DEF Comes, Ascending
  <2>5. Compacted(g, s, 0, p)
    BY <2>1, <2>2, <2>3 DEF Compacted
  <2>6. Len(r[0]) <= 0
    BY <2>3, EmptyIsList
  <2> QED
    BY <2>4, <2>5, <2>6
<1>5. ASSUME NEW k \in 1 .. n, k - 1 \in P
      PROVE  k \in P
  <2> DEFINE m == k - 1
             a == r[m]
             w == Len(a)
  <2>1. PICK p : Follows(m, p)
    BY <1>5
  <2>2. m \in Nat /\ k = m + 1 /\ k \in Nat /\ k \in 1 .. n /\ k \in 1 .. Len(s)
    BY <1>1
  <2>3. r[k] = IF k \in S THEN a ELSE Append(a, s[k])
    BY <1>3, <2>2 DEF WithoutRun
  <2>4. IsList(a) /\ w \in Nat /\ p \in [1 .. w -> 1 .. m] /\ Ascending(p)
    BY <2>1, ListDomain DEF Comes
  <2>5. CompactRun(g, s, S)
    BY <1>2
  <2>6. Compacted(g, s, k - 1, p) /\ w <= m
    BY <2>1
  <2>7. CASE k \in S
    <3>1. p \in [1 .. w -> 1 .. k]
      <4>1. 1 .. m \subseteq 1 .. k
        BY <2>2
      <4> HIDE DEF w, m
      <4> QED
        BY <2>4, <4>1
    <3>2. Comes(r[k], s, k, p)
      BY <2>1, <2>3, <2>7, <3>1 DEF Comes
    <3>3. Compacted(g, s, k, p)
      BY <2>2, <2>5, <2>6, <2>7, CompactStays
    <3>4. Len(r[k]) <= k
      BY <2>2, <2>3, <2>4, <2>6, <2>7
    <3> QED
      BY <2>2, <3>2, <3>3, <3>4
  <2>8. CASE k \notin S
    <3> DEFINE q == Prolonged(p, w, m)
               t == Append(a, s[k])
    <3> HIDE DEF m, w
    <3>1. /\ q \in [1 .. w + 1 -> 1 .. m + 1] /\ Ascending(q)
          /\ q[w + 1] = m + 1 /\ \A j \in 1 .. w : q[j] = p[j]
          /\ Len(p) = w /\ Len(q) = w + 1
      <4>1. w \in Nat /\ m \in Nat /\ p \in [1 .. w -> 1 .. m] /\ Ascending(p)
        BY <2>2, <2>4
      <4>2. Prolongs(Prolonged(p, w, m), p, w, m)
        BY Zenon, <4>1, OneMore
      <4>3. Prolongs(q, p, w, m)
        BY <4>2
      <4> HIDE DEF q
      <4> QED
        BY <4>3 DEF Prolongs
    <3>2. /\ IsList(t) /\ Len(t) = w + 1 /\ t[w + 1] = s[k]
          /\ \A j \in 1 .. w : t[j] = a[j]
      BY <2>4, Appending DEF w
    <3>3. \A j \in 1 .. w + 1 : j = w + 1 \/ j \in 1 .. w
      BY <2>4
    <3>4. \A j \in 1 .. w : a[j] = s[p[j]]
      BY <2>1 DEF Comes, w
    <3> HIDE DEF q, t
    <3>5. Len(p) = w /\ Len(q) = w + 1
      BY <3>1
    <3>6. Comes(t, s, k, q)
      BY <2>2, <3>1, <3>2, <3>3, <3>4 DEF Comes
    <3>7. w < k /\ q[w + 1] = k
      BY <2>2, <2>4, <2>6, <3>1
    <3>8. Compacted(g, s, k, q)
      BY <2>2, <2>4, <2>5, <2>6, <2>8, <3>1, <3>5, <3>7, CompactMoves
    <3>9. r[k] = t
      BY <2>3, <2>8 DEF t
    <3>10. Len(t) <= k
      BY <2>2, <2>4, <2>6, <3>2
    <3> QED
      BY <2>2, <3>6, <3>8, <3>9, <3>10
  <2> QED
    BY <2>7, <2>8
<1>6. n \in P
  <2> HIDE DEF P
  <2>1. 0 .. n \subseteq P
    BY <1>1, <1>4, <1>5, AscentFromZero
  <2> QED
    BY <1>1, <2>1
<1>7. PICK p : Follows(n, p)
  BY <1>6
<1> DEFINE d == g[n].data
           b == r[n]
           w == Len(b)
<1>8. /\ IsList(b) /\ p \in [1 .. w -> 1 .. n] /\ \A j \in 1 .. w : b[j] = s[p[j]]
      /\ w \in Nat
  BY <1>7, ListDomain DEF Comes
<1>9. Len(p) = w
  <2>1. p = [j \in 1 .. w |-> p[j]]
    BY <1>8
  <2> HIDE DEF w
  <2> QED
    BY <1>8, <2>1, FunctionIsList
<1>10. g[n].write = w + 1 /\ \A j \in 1 .. w : d[j] = s[p[j]]
  BY <1>7, <1>9 DEF Compacted
<1> HIDE DEF n, d, w
<1>11. CompactSeq(s, S) = SubSeq(d, 1, w)
  BY <1>2, <1>8, <1>10 DEF d
<1> DEFINE D == {b[i] : i \in 1 .. w}
           c == SubSeq(d, 1, w)
<1>12. \A j \in 1 .. w : d[j] = b[j] /\ d[j] \in D
  BY <1>8, <1>10
<1> HIDE DEF D
<1>13. c \in Seq(D) /\ Len(c) = w /\ \A j \in 1 .. w : c[j] = d[j]
  <2>1. /\ c \in Seq(D) /\ Len(c) = IF 1 <= w THEN w - 1 + 1 ELSE 0
        /\ \A j \in 1 .. w - 1 + 1 : c[j] = d[1 + j - 1]
    BY <1>8, <1>12, SubSeqProperties
  <2> QED
    BY <1>8, <2>1
<1>14. IsList(c)
  BY <1>13, SeqIsList
<1> HIDE DEF c, b
<1>15. c = [j \in 1 .. w |-> c[j]] /\ b = [j \in 1 .. w |-> b[j]]
  BY <1>8, <1>13, <1>14 DEF IsList, w
<1>16. c = b
  BY <1>12, <1>13, <1>15
<1> QED
  BY <1>3, <1>11, <1>16 DEF c, b, n

(* An order of n things, and the state of the walk along its cycles: every *)
(* visited slot has what the order puts there, the others what they had.   *)
IsOrder(o, n) ==
    /\ Len(o) = n /\ \A i \in 1 .. n : o[i] \in 1 .. n
    /\ \A i, j \in 1 .. n : o[i] = o[j] => i = j
Cursors(n, T) == [data : [1 .. n -> T], visited : SUBSET (1 .. n), at : 0 .. n]
Placed(b, s, o, n) == \A j \in 1 .. n : b.data[j] = IF j \in b.visited THEN s[o[j]] ELSE s[j]

(* Whole cycles have been walked; or all of them but the one of `first',   *)
(* up to the slot `at'.                                                    *)
Cycles(v, o) == \A i \in v : o[i] \in v /\ \E j \in v : o[j] = i
Underway(b, o, first) ==
    /\ b.at \notin b.visited
    /\ b.at # first => first \in b.visited /\ \E i \in b.visited : o[i] = b.at
    /\ \A i \in b.visited : o[i] \in b.visited \cup {b.at}
    /\ \A i \in b.visited : i # first => \E j \in b.visited : o[j] = i
Walked(b, o, first) ==
    /\ b.at = 0 => first \in b.visited /\ Cycles(b.visited, o)
    /\ b.at # 0 => Underway(b, o, first)

LEMMA WalkStepWalks ==
    ASSUME NEW n \in Nat, NEW o, IsOrder(o, n), NEW s, NEW T, \A k \in 1 .. n : s[k] \in T,
           NEW first \in 1 .. n, NEW b \in Cursors(n, T), b.at # 0, Placed(b, s, o, n), Walked(b, o, first)
    PROVE  LET c == WalkStep(b, o, first, s[first])
           IN  /\ c \in Cursors(n, T) /\ Placed(c, s, o, n) /\ Walked(c, o, first)
               /\ b.at \notin b.visited /\ c.visited = b.visited \cup {b.at}
<1> DEFINE c == WalkStep(b, o, first, s[first])
           at == b.at
           v == b.visited
           d == b.data
           src == o[at]
           x == IF src = first THEN s[first] ELSE d[src]
           e == [d EXCEPT ![at] = x]
<1>1. at \in 1 .. n /\ v \subseteq 1 .. n /\ d \in [1 .. n -> T]
  BY DEF Cursors
<1>2. Underway(b, o, first)
  BY DEF Walked
<1>3. /\ at \notin v
      /\ at # first => first \in v /\ \E i \in v : o[i] = at
      /\ \A i \in v : o[i] \in v \cup {at}
      /\ \A i \in v : i # first => \E j \in v : o[j] = i
  BY <1>2 DEF Underway
<1>4. src \in 1 .. n /\ \A i, j \in 1 .. n : o[i] = o[j] => i = j
  BY <1>1 DEF IsOrder
<1>5. c = [data |-> e, visited |-> v \cup {at}, at |-> IF src = first THEN 0 ELSE src]
  BY DEF WalkStep
<1>6. \A j \in 1 .. n : d[j] = IF j \in v THEN s[o[j]] ELSE s[j]
  BY DEF Placed
<1> HIDE DEF c, at, v, d
<1>7. src # first => src \notin v /\ src # at
  <2> SUFFICES ASSUME src # first
               PROVE  src \notin v /\ src # at
    OBVIOUS
  <2>1. ASSUME src \in v
        PROVE  FALSE
    <3>1. PICK j \in v : o[j] = src
      BY <1>3, <2>1
    <3>2. j = at
      BY <1>1, <1>4, <3>1
    <3> QED
      BY <1>3, <3>1, <3>2
  <2>2. ASSUME src = at
        PROVE  FALSE
    <3>1. PICK i \in v : o[i] = at
      BY <1>3, <2>2
    <3>2. i = at
      BY <1>1, <1>4, <2>2, <3>1
    <3> QED
      BY <1>3, <3>1, <3>2
  <2> QED
    BY <2>1, <2>2
<1>8. x = s[src] /\ x \in T
  BY <1>4, <1>6, <1>7
<1>9. src = o[at]
  OBVIOUS
<1> HIDE DEF src
<1> HIDE DEF x
<1>10. e \in [1 .. n -> T] /\ e[at] = x /\ \A j \in 1 .. n : j # at => e[j] = d[j]
  BY <1>1, <1>8
<1> HIDE DEF e
<1>11. c \in Cursors(n, T)
  <2> DEFINE next == IF src = first THEN 0 ELSE src
  <2>1. v \cup {at} \in SUBSET (1 .. n)
    BY <1>1
  <2>2. next \in 0 .. n
    <3>1. src \in 0 .. n /\ 0 \in 0 .. n
      BY <1>4
    <3> QED
      BY <3>1
  <2>3. c = [data |-> e, visited |-> v \cup {at}, at |-> next]
    BY <1>5
  <2> HIDE DEF next
  <2> QED
    BY <1>10, <2>1, <2>2, <2>3 DEF Cursors
<1>12. c.data = e /\ c.visited = v \cup {at} /\ c.at = IF src = first THEN 0 ELSE src
  BY <1>5
<1>13. Placed(c, s, o, n)
  <2> SUFFICES ASSUME NEW j \in 1 .. n
               PROVE  e[j] = IF j \in v \cup {at} THEN s[o[j]] ELSE s[j]
    BY <1>12 DEF Placed
  <2>1. CASE j = at
    BY <1>8, <1>9, <1>10, <2>1
  <2>2. CASE j # at
    BY <1>6, <1>10, <2>2
  <2> QED
    BY <2>1, <2>2
<1>14. Walked(c, o, first)
  <2>1. CASE src = first
    <3>1. c.at = 0 /\ first \in v \cup {at}
      BY <1>3, <1>12, <2>1
    <3>2. ASSUME NEW i \in v \cup {at}
          PROVE  o[i] \in v \cup {at} /\ \E j \in v \cup {at} : o[j] = i
      <4>1. o[i] \in v \cup {at}
        BY <1>3, <1>9, <2>1, <3>1
      <4>2. CASE i = first
        <5>1. at \in v \cup {at} /\ o[at] = i
          BY <1>9, <2>1, <4>2
        <5> QED
          BY <4>1, <5>1
      <4>3. CASE i # first
        <5>1. \E j \in v \cup {at} : o[j] = i
          <6>1. CASE i \in v
            BY <1>3, <4>3, <6>1
          <6>2. CASE i = at
            BY <1>3, <4>3, <6>2
          <6> QED
            BY <6>1, <6>2
        <5> QED
          BY <4>1, <5>1
      <4> QED
        BY <4>2, <4>3
    <3>3. Cycles(c.visited, o)
      BY <1>12, <3>2 DEF Cycles
    <3> QED
      BY <1>12, <3>1, <3>3 DEF Walked
  <2>2. CASE src # first
    <3>1. c.at = src /\ c.at # 0 /\ src \notin v \cup {at}
      BY <1>4, <1>7, <1>12, <2>2
    <3>2. first \in v \cup {at} /\ \E i \in v \cup {at} : o[i] = src
      BY <1>3, <1>9
    <3>3. \A i \in v \cup {at} : o[i] \in (v \cup {at}) \cup {src}
      BY <1>3, <1>9
    <3>4. \A i \in v \cup {at} : i # first => \E j \in v \cup {at} : o[j] = i
      BY <1>3
    <3>5. Underway(c, o, first)
      BY <1>12, <3>1, <3>2, <3>3, <3>4 DEF Underway
    <3> QED
      BY <3>1, <3>5 DEF Walked
  <2> QED
    BY <2>1, <2>2
<1> QED
  BY <1>3, <1>11, <1>12, <1>13, <1>14 DEF c, v, at

(* The partial results of WalkCycle.                                       *)
WalkRun(g, a, o, first, n) ==
    /\ g[0] = [a EXCEPT !.at = first]
    /\ \A k \in 1 .. n : g[k] = IF g[k - 1].at = 0 THEN g[k - 1]
                                     ELSE WalkStep(g[k - 1], o, first, a.data[first])

LEMMA WalkResult ==
    ASSUME NEW n \in Nat, NEW o, IsOrder(o, n), NEW T, NEW first \in 1 .. n, NEW a \in Cursors(n, T)
    PROVE  \E g : WalkRun(g, a, o, first, n) /\ WalkCycle(a, o, first) = g[n]
<1> DEFINE V == Cursors(n, T)
           base == [a EXCEPT !.at = first]
           aside == a.data[first]
           Next1(b) == IF b.at = 0 THEN b ELSE WalkStep(b, o, first, aside)
           step == [k \in 1 .. n |-> [b \in V |-> Next1(b)]]
           Body(f) == [k \in 0 .. n |-> IF k = 0 THEN base
                                        ELSE IF f[k - 1].at = 0 THEN f[k - 1]
                                        ELSE WalkStep(f[k - 1], o, first, aside)]
           g == CHOOSE f : f = Body(f)
<1>1. Len(o) = n
  BY DEF IsOrder
<1>2. WalkCycle(a, o, first) = g[n]
  <2>1. WalkCycle(a, o, first) =
          LET walk[k \in 0 .. Len(o)] ==
                  IF k = 0 THEN [a EXCEPT !.at = first]
                  ELSE IF walk[k - 1].at = 0 THEN walk[k - 1]
                  ELSE WalkStep(walk[k - 1], o, first, a.data[first])
          IN  walk[Len(o)]
    BY Zenon DEF WalkCycle
  <2> QED
    BY <1>1, <2>1, Zenon
<1>3. base \in V /\ aside \in T
  BY DEF Cursors
<1> HIDE DEF base, aside
<1>4. ASSUME NEW b \in V
      PROVE  Next1(b) \in V
  <2>1. CASE b.at = 0
    BY <2>1
  <2>2. CASE b.at # 0
    <3> DEFINE src == o[b.at]
               x == IF src = first THEN aside ELSE b.data[src]
               e == [b.data EXCEPT ![b.at] = x]
    <3>1. b.data \in [1 .. n -> T] /\ b.at \in 1 .. n /\ b.visited \subseteq 1 .. n
      BY <2>2 DEF Cursors
    <3>2. src \in 1 .. n
      BY <3>1 DEF IsOrder
    <3>3. x \in T
      BY <1>3, <3>1, <3>2
    <3>4. WalkStep(b, o, first, aside) =
             [data |-> e, visited |-> b.visited \cup {b.at}, at |-> IF src = first THEN 0 ELSE src]
      BY DEF WalkStep
    <3> HIDE DEF src, x
    <3>5. e \in [1 .. n -> T]
      BY <3>1, <3>3
    <3>6. b.visited \cup {b.at} \subseteq 1 .. n /\ (IF src = first THEN 0 ELSE src) \in 0 .. n
      BY <3>1, <3>2
    <3> HIDE DEF e
    <3> QED
      BY <2>2, <3>4, <3>5, <3>6 DEF Cursors
  <2> QED
    BY <2>1, <2>2
<1> HIDE DEF V, Next1
<1>5. step \in [1 .. n -> [V -> V]]
  BY <1>4
<1>6. PICK f : Solution(f, n, V, base, step)
  <2> HIDE DEF step
  <2> QED
    BY <1>3, <1>5, Recursion
<1>7. \A k \in 1 .. n : f[k - 1] \in V /\ f[k] = Next1(f[k - 1])
  <2>1. \A k \in 1 .. n : k - 1 \in 0 .. n
    OBVIOUS
  <2>2. \A k \in 1 .. n : f[k - 1] \in V
    BY <1>6, <2>1 DEF Solution
  <2>3. \A k \in 1 .. n : f[k] = step[k][f[k - 1]]
    BY <1>6 DEF Solution
  <2> QED
    BY <2>2, <2>3
<1>8. f = Body(f)
  <2>1. \A k \in 0 .. n : k = 0 \/ k \in 1 .. n
    OBVIOUS
  <2>2. f \in [0 .. n -> V] /\ f[0] = base
    BY <1>6 DEF Solution
  <2> HIDE DEF step
  <2> QED
    BY <1>7, <2>1, <2>2 DEF Next1
<1>9. g = Body(g)
  BY <1>8, Zenon
<1>10. g[0] = base /\ \A k \in 1 .. n : g[k] = Next1(g[k - 1])
  <2>1. g = [k \in 0 .. n |-> IF k = 0 THEN base
                              ELSE IF g[k - 1].at = 0 THEN g[k - 1]
                              ELSE WalkStep(g[k - 1], o, first, aside)]
    BY <1>9
  <2> HIDE DEF g, Body
  <2>2. 0 \in 0 .. n /\ \A k \in 1 .. n : k \in 0 .. n /\ k # 0
    OBVIOUS
  <2> QED
    BY <2>1, <2>2 DEF Next1
<1> HIDE DEF g
<1>11. WalkRun(g, a, o, first, n)
  BY <1>10, Zenon DEF WalkRun, Next1, base, aside
<1> QED
  BY <1>2, <1>11

(* A walk comes back to where it began before it runs out of steps: each   *)
(* step visits one more of the n slots.                                    *)
LEMMA WalkCycleWalks ==
    ASSUME NEW n \in Nat, NEW o, IsOrder(o, n), NEW s, NEW T, \A k \in 1 .. n : s[k] \in T,
           NEW first \in 1 .. n, NEW a \in Cursors(n, T), Placed(a, s, o, n), Cycles(a.visited, o),
           first \notin a.visited
    PROVE  LET r == WalkCycle(a, o, first)
           IN  /\ r \in Cursors(n, T) /\ Placed(r, s, o, n) /\ Cycles(r.visited, o)
               /\ a.visited \cup {first} \subseteq r.visited
<1>1. PICK g : WalkRun(g, a, o, first, n) /\ WalkCycle(a, o, first) = g[n]
  BY WalkResult
<1> DEFINE Sound(b, k) == /\ b \in Cursors(n, T) /\ Placed(b, s, o, n) /\ Walked(b, o, first)
                          /\ a.visited \subseteq b.visited
                          /\ b.at # 0 => Cardinality(b.visited) >= k
           P == {k \in Nat : Sound(g[k], k)}
<1>2. a.data[first] = s[first]
  BY DEF Placed
<1>3. \A b \in Cursors(n, T) : b.visited \subseteq 1 .. n /\ IsFiniteSet(b.visited) /\ Cardinality(b.visited) \in Nat
  <2> SUFFICES ASSUME NEW b \in Cursors(n, T)
               PROVE  b.visited \subseteq 1 .. n /\ IsFiniteSet(b.visited) /\ Cardinality(b.visited) \in Nat
    OBVIOUS
  <2>1. b.visited \in SUBSET (1 .. n)
    BY DEF Cursors
  <2>2. IsFiniteSet(1 .. n)
    BY FS_Interval
  <2>3. IsFiniteSet(b.visited)
    BY <2>1, <2>2, FS_Subset
  <2> QED
    BY <2>1, <2>3, FS_CardinalityType
<1>4. 0 \in P
  <2> DEFINE b == [a EXCEPT !.at = first]
  <2>1. b \in Cursors(n, T) /\ b.at = first /\ b.visited = a.visited /\ b.data = a.data
    BY DEF Cursors
  <2> HIDE DEF b
  <2>2. Placed(b, s, o, n)
    BY <2>1 DEF Placed
  <2>3. Walked(b, o, first)
    <3>1. Underway(b, o, first)
      BY <2>1 DEF Underway, Cycles
    <3>2. b.at # 0
      BY <2>1
    <3> QED
      BY <3>1, <3>2 DEF Walked
  <2>4. Cardinality(b.visited) >= 0
    BY <1>3, <2>1
  <2>5. g[0] = b
    BY <1>1 DEF WalkRun, b
  <2> QED
    BY <2>1, <2>2, <2>3, <2>4, <2>5
<1>5. ASSUME NEW k \in 1 .. n, k - 1 \in P
      PROVE  k \in P
  <2> DEFINE b == g[k - 1]
  <2>1. Sound(b, k - 1)
    BY <1>5
  <2>2. g[k] = IF b.at = 0 THEN b ELSE WalkStep(b, o, first, s[first])
    BY <1>1, <1>2 DEF WalkRun
  <2> HIDE DEF b
  <2>3. b \in Cursors(n, T) /\ Placed(b, s, o, n) /\ Walked(b, o, first) /\ a.visited \subseteq b.visited
    BY <2>1
  <2>4. CASE b.at = 0
    BY <2>2, <2>3, <2>4
  <2>5. CASE b.at # 0
    <3> DEFINE c == WalkStep(b, o, first, s[first])
    <3>1. /\ c \in Cursors(n, T) /\ Placed(c, s, o, n) /\ Walked(c, o, first)
          /\ b.at \notin b.visited /\ c.visited = b.visited \cup {b.at}
      BY <2>3, <2>5, WalkStepWalks
    <3>2. g[k] = c
      BY <2>2, <2>5
    <3> HIDE DEF c
    <3>3. Cardinality(b.visited) >= k - 1 /\ Cardinality(b.visited) \in Nat /\ IsFiniteSet(b.visited)
      BY <1>3, <2>1, <2>3, <2>5
    <3>4. Cardinality(c.visited) = Cardinality(b.visited) + 1
      BY <3>1, <3>3, FS_AddElement
    <3>5. Cardinality(c.visited) >= k
      BY <3>3, <3>4
    <3>6. a.visited \subseteq c.visited
      BY <2>3, <3>1
    <3>7. Sound(c, k)
      BY <3>1, <3>5, <3>6
    <3> QED
      BY <3>2, <3>7
  <2> QED
    BY <2>4, <2>5
<1>6. n \in P
  <2> HIDE DEF P
  <2>1. 0 .. n \subseteq P
    BY <1>4, <1>5, AscentFromZero
  <2> QED
    BY <2>1
<1> DEFINE r == g[n]
<1>7. Sound(r, n)
  BY <1>6
<1> HIDE DEF r
<1>8. r.at = 0
  <2> SUFFICES ASSUME r.at # 0
               PROVE  FALSE
    OBVIOUS
  <2> DEFINE S == r.visited \cup {r.at}
  <2>1. r \in Cursors(n, T) /\ r.at \in 1 .. n /\ r.at \notin r.visited /\ Cardinality(r.visited) >= n
    BY <1>7 DEF Cursors, Walked, Underway
  <2>2. IsFiniteSet(r.visited) /\ Cardinality(r.visited) \in Nat /\ r.visited \subseteq 1 .. n
    BY <1>3, <2>1
  <2>3. Cardinality(S) = Cardinality(r.visited) + 1
    BY <2>1, <2>2, FS_AddElement
  <2>4. S \in SUBSET (1 .. n)
    BY <2>1, <2>2
  <2>5. IsFiniteSet(1 .. n) /\ Cardinality(1 .. n) = n
    BY FS_Interval
  <2> HIDE DEF S
  <2>6. Cardinality(S) <= n
    BY <2>4, <2>5, FS_Subset
  <2> QED
    BY <2>1, <2>2, <2>3, <2>6
<1>9. first \in r.visited /\ Cycles(r.visited, o) /\ a.visited \subseteq r.visited
  BY <1>7, <1>8 DEF Walked
<1>10. r \in Cursors(n, T) /\ Placed(r, s, o, n)
  BY <1>7
<1> QED
  BY <1>1, <1>9, <1>10 DEF r

(* Reordering in place gives what the order asks for, cycle by cycle: the  *)
(* reorder_by of every typed column writes each row once, from the value   *)
(* it was asked to take, whatever the cycles of the order are.             *)
THEOREM Reordering ==
    ASSUME NEW s, IsList(s), NEW o, IsOrder(o, Len(s))
    PROVE  ReorderSeq(s, o) = [k \in 1 .. Len(s) |-> s[o[k]]]
<1> DEFINE n == Len(s)
           T == {s[k] : k \in 1 .. n}
           Sound(b) == b \in Cursors(n, T) /\ Placed(b, s, o, n) /\ Cycles(b.visited, o)
           V == {b \in Cursors(n, T) : Sound(b)}
           base == [data |-> s, visited |-> {}, at |-> 0]
           Next1(b, k) == IF k \in b.visited THEN b ELSE WalkCycle(b, o, k)
           step == [k \in 1 .. n |-> [b \in V |-> Next1(b, k)]]
           Body(f) == [k \in 0 .. n |-> IF k = 0 THEN base
                                        ELSE IF k \in f[k - 1].visited THEN f[k - 1]
                                        ELSE WalkCycle(f[k - 1], o, k)]
           g == CHOOSE f : f = Body(f)
<1>1. n \in Nat /\ s \in [1 .. n -> T] /\ IsOrder(o, n)
  <2>1. n \in Nat /\ s = [k \in 1 .. n |-> s[k]] /\ IsOrder(o, n)
    BY DEF IsList
  <2> HIDE DEF n
  <2> QED
    BY <2>1
<1>2. ReorderSeq(s, o) = g[n].data
  BY Zenon DEF ReorderSeq
<1> HIDE DEF n
<1>3. \A k \in 1 .. n : s[k] \in T
  OBVIOUS
<1> HIDE DEF T
<1>4. base \in V
  <2>1. base \in Cursors(n, T) /\ base.visited = {} /\ base.data = s
    BY <1>1 DEF Cursors
  <2> HIDE DEF base
  <2>2. Placed(base, s, o, n) /\ Cycles(base.visited, o)
    BY <2>1 DEF Placed, Cycles
  <2> QED
    BY <2>1, <2>2
<1>5. ASSUME NEW k \in 1 .. n, NEW b \in V
      PROVE  /\ Next1(b, k) \in V /\ k \in Next1(b, k).visited
             /\ b.visited \subseteq Next1(b, k).visited
  <2>1. b \in Cursors(n, T) /\ Placed(b, s, o, n) /\ Cycles(b.visited, o)
    OBVIOUS
  <2>2. CASE k \in b.visited
    BY <2>2
  <2>3. CASE k \notin b.visited
    <3> DEFINE r == WalkCycle(b, o, k)
    <3>1. /\ r \in Cursors(n, T) /\ Placed(r, s, o, n) /\ Cycles(r.visited, o)
          /\ b.visited \cup {k} \subseteq r.visited
      BY <1>1, <1>3, <2>1, <2>3, WalkCycleWalks
    <3>2. Next1(b, k) = r
      BY <2>3
    <3> HIDE DEF r, Next1
    <3> QED
      BY <3>1, <3>2
  <2> QED
    BY <2>2, <2>3
<1> HIDE DEF V, base, Next1
<1>6. step \in [1 .. n -> [V -> V]]
  BY <1>5
<1>7. PICK f : Solution(f, n, V, base, step)
  <2> HIDE DEF step
  <2> QED
    BY <1>1, <1>4, <1>6, Recursion
<1>8. \A k \in 1 .. n : f[k - 1] \in V /\ f[k] = Next1(f[k - 1], k)
  <2>1. \A k \in 1 .. n : k - 1 \in 0 .. n
    BY <1>1
  <2>2. \A k \in 1 .. n : f[k - 1] \in V
    BY <1>7, <2>1 DEF Solution
  <2>3. \A k \in 1 .. n : f[k] = step[k][f[k - 1]]
    BY <1>7 DEF Solution
  <2> QED
    BY <2>2, <2>3
<1>9. f = Body(f)
  <2>1. \A k \in 0 .. n : k = 0 \/ k \in 1 .. n
    BY <1>1
  <2>2. f \in [0 .. n -> V] /\ f[0] = base
    BY <1>7 DEF Solution
  <2> HIDE DEF step
  <2> QED
    BY <1>8, <2>1, <2>2 DEF Next1
<1>10. g = Body(g)
  BY <1>9, Zenon
<1>11. g[0] = base /\ \A k \in 1 .. n : g[k] = Next1(g[k - 1], k)
  <2>1. g = [k \in 0 .. n |-> IF k = 0 THEN base
                              ELSE IF k \in g[k - 1].visited THEN g[k - 1]
                              ELSE WalkCycle(g[k - 1], o, k)]
    BY <1>10
  <2> HIDE DEF g, Body
  <2>2. 0 \in 0 .. n /\ \A k \in 1 .. n : k \in 0 .. n /\ k # 0
    BY <1>1
  <2> QED
    BY <2>1, <2>2 DEF Next1
<1> HIDE DEF g, step, Body
<1> DEFINE P == {k \in Nat : g[k] \in V /\ 1 .. k \subseteq g[k].visited}
<1>12. 0 \in P
  <2>1. 1 .. 0 = {}
    OBVIOUS
  <2> QED
    BY <1>4, <1>11, <2>1
<1>13. ASSUME NEW k \in 1 .. n, k - 1 \in P
       PROVE  k \in P
  <2> DEFINE b == g[k - 1]
  <2>1. b \in V /\ 1 .. k - 1 \subseteq b.visited
    BY <1>13
  <2>2. g[k] = Next1(b, k)
    BY <1>11
  <2> HIDE DEF b
  <2>3. /\ Next1(b, k) \in V /\ k \in Next1(b, k).visited
        /\ b.visited \subseteq Next1(b, k).visited
    BY <1>5, <2>1
  <2>4. \A j \in 1 .. k : j = k \/ j \in 1 .. k - 1
    OBVIOUS
  <2> QED
    BY <2>1, <2>2, <2>3, <2>4
<1>14. n \in P
  <2> HIDE DEF P
  <2>1. 0 .. n \subseteq P
    BY <1>1, <1>12, <1>13, AscentFromZero
  <2> QED
    BY <1>1, <2>1
<1> DEFINE d == g[n].data
<1>15. d \in [1 .. n -> T] /\ \A j \in 1 .. n : d[j] = s[o[j]]
  <2>1. g[n] \in Cursors(n, T) /\ Placed(g[n], s, o, n) /\ 1 .. n \subseteq g[n].visited
    BY <1>14 DEF V
  <2> QED
    BY <2>1 DEF Cursors, Placed
<1> HIDE DEF d
<1>16. d = [k \in 1 .. n |-> s[o[k]]]
  BY <1>15
<1> QED
  BY <1>2, <1>16 DEF d, n

---------------------------------------------------------------------------
(* The cells of a frame, and columns that are as long as the frame.        *)

Slot(col, k) == IF col # NoColumn /\ col.present[k] THEN col.data[k] ELSE Absent
Cell(fr, k, f) == IF fr.layout = "row" THEN fr.items[k][f] ELSE Slot(fr.cols[f], k)

Wide(col, n) ==
    /\ col = [type |-> col.type, data |-> col.data, present |-> col.present]
    /\ IsList(col.data) /\ Len(col.data) = n
    /\ IsList(col.present) /\ Len(col.present) = n
AllWide(cols, n) == \A f \in ItemFields : cols[f] = NoColumn \/ Wide(cols[f], n)
Even(fr) == fr.layout # "row" => AllWide(fr.cols, fr.n)

LEMMA WideDomains ==
    ASSUME NEW n \in Nat, NEW col, Wide(col, n)
    PROVE  /\ col.data = [k \in 1 .. n |-> col.data[k]] /\ col.present = [k \in 1 .. n |-> col.present[k]]
           /\ n # 0 => col # NoColumn
<1>1. col.data = [k \in 1 .. n |-> col.data[k]] /\ col.present = [k \in 1 .. n |-> col.present[k]]
  BY DEF Wide, IsList
<1>2. Len(col.data) = n
  BY DEF Wide
<1>3. NoColumn.data = <<>> /\ Len(<<>>) = 0
  BY EmptyIsList DEF NoColumn
<1> QED
  BY <1>1, <1>2, <1>3

LEMMA NewIsWide ==
    ASSUME NEW n \in Nat, NEW type
    PROVE  /\ Wide(NewColumn(type, n), n) /\ NewColumn(type, n).type = type
           /\ \A k \in 1 .. n : Slot(NewColumn(type, n), k) = Absent
<1> DEFINE col == NewColumn(type, n)
           d == [i \in 1 .. n |-> Null]
           p == [i \in 1 .. n |-> FALSE]
<1>1. /\ col = [type |-> col.type, data |-> col.data, present |-> col.present]
      /\ col.type = type /\ col.data = d /\ col.present = p
  BY DEF NewColumn
<1>2. d = [i \in 1 .. n |-> d[i]] /\ p = [i \in 1 .. n |-> p[i]] /\ \A i \in 1 .. n : ~p[i]
  OBVIOUS
<1> HIDE DEF d, p, col
<1>3. Wide(col, n)
  BY <1>1, <1>2, FunctionIsList DEF Wide
<1>4. \A k \in 1 .. n : Slot(col, k) = Absent
  BY <1>1, <1>2 DEF Slot
<1> QED
  BY <1>1, <1>3, <1>4 DEF col

(* A value set in a column, and a column promoted.                         *)
LEMMA SetIsWide ==
    ASSUME NEW n \in Nat, NEW col, Wide(col, n), NEW i, NEW v
    PROVE  /\ Wide(ColumnSet(col, i, v), n)
           /\ \A k \in 1 .. n : k # i => Slot(ColumnSet(col, i, v), k) = Slot(col, k)
<1> DEFINE new == ColumnSet(col, i, v)
           d == [col.data EXCEPT ![i] = v]
           p == [col.present EXCEPT ![i] = TRUE]
<1>1. new = [type |-> col.type, data |-> d, present |-> p]
  <2> DEFINE mid == [col EXCEPT !.data[i] = v]
  <2>1. mid = [type |-> col.type, data |-> d, present |-> col.present]
    BY DEF Wide
  <2>2. new = [mid EXCEPT !.present[i] = TRUE]
    BY DEF ColumnSet, Wide
  <2> HIDE DEF mid, new, d
  <2> QED
    BY <2>1, <2>2
<1>2. /\ d = [k \in 1 .. n |-> d[k]] /\ p = [k \in 1 .. n |-> p[k]]
      /\ \A k \in 1 .. n : k # i => d[k] = col.data[k] /\ p[k] = col.present[k]
  <2> DEFINE c == col.data
             q == col.present
  <2>1. c = [k \in 1 .. n |-> c[k]] /\ q = [k \in 1 .. n |-> q[k]]
    BY WideDomains
  <2> HIDE DEF c, q
  <2>2. LET e == [c EXCEPT ![i] = v]
        IN  e = [k \in 1 .. n |-> e[k]] /\ \A k \in 1 .. n : k # i => e[k] = c[k]
    BY <2>1
  <2>3. LET e == [q EXCEPT ![i] = TRUE]
        IN  e = [k \in 1 .. n |-> e[k]] /\ \A k \in 1 .. n : k # i => e[k] = q[k]
    BY <2>1
  <2> QED
    BY <2>2, <2>3, Zenon DEF c, q
<1> HIDE DEF d, p, new
<1>3. Wide(new, n)
  BY <1>1, <1>2, FunctionIsList DEF Wide
<1>4. ASSUME NEW k \in 1 .. n, k # i
      PROVE  Slot(new, k) = Slot(col, k)
  <2>1. n # 0
    OBVIOUS
  <2>2. new # NoColumn /\ col # NoColumn
    BY <1>3, <2>1, WideDomains
  <2>3. new.data[k] = col.data[k] /\ new.present[k] = col.present[k]
    BY <1>1, <1>2, <1>4
  <2> QED
    BY <2>2, <2>3 DEF Slot
<1> QED
  BY <1>3, <1>4 DEF new

LEMMA JsonIsWide ==
    ASSUME NEW n \in Nat, NEW col, Wide(col, n)
    PROVE  /\ Wide(Json(col), n)
           /\ \A k \in 1 .. n : Slot(Json(col), k) = Slot(col, k)
<1> DEFINE new == Json(col)
<1>1. new = [type |-> "json", data |-> col.data, present |-> col.present]
  BY DEF Json, Wide
<1> HIDE DEF new
<1>2. Wide(new, n)
  BY <1>1 DEF Wide
<1>3. ASSUME NEW k \in 1 .. n
      PROVE  Slot(new, k) = Slot(col, k)
  <2>1. n # 0
    OBVIOUS
  <2>2. new # NoColumn /\ col # NoColumn
    BY <1>2, <2>1, WideDomains
  <2> QED
    BY <1>1, <2>2 DEF Slot
<1> QED
  BY <1>2, <1>3 DEF new

(* One column replaced by another.                                         *)
LEMMA ColumnReplaced ==
    ASSUME NEW fr, IsColumnFrame(fr), Even(fr), NEW f, NEW x, f \in ItemFields => Wide(x, fr.n)
    PROVE  LET g == [fr EXCEPT !.cols[f] = x]
           IN  /\ IsColumnFrame(g) /\ Even(g) /\ g.n = fr.n
               /\ \A h \in ItemFields : g.cols[h] = IF h = f THEN x ELSE fr.cols[h]
<1> DEFINE g == [fr EXCEPT !.cols[f] = x]
           cols == [fr.cols EXCEPT ![f] = x]
<1>1. g = [layout |-> "column", common |-> fr.common, n |-> fr.n, cols |-> cols]
  BY DEF IsColumnFrame
<1>2. IsCommon(fr.common) /\ fr.n \in Nat /\ IsColumns(fr.cols)
  BY DEF IsColumnFrame
<1>3. IsColumns(cols) /\ \A h \in ItemFields : cols[h] = IF h = f THEN x ELSE fr.cols[h]
  BY <1>2 DEF IsColumns
<1>4. AllWide(fr.cols, fr.n)
  BY LayoutOf DEF Even
<1> HIDE DEF cols, g
<1>5. IsColumnFrame(g)
  <2> HIDE DEF IsCommon, IsColumns
  <2> QED
    BY <1>1, <1>2, <1>3 DEF IsColumnFrame
<1>6. AllWide(cols, fr.n)
  <2> HIDE DEF Wide
  <2> QED
    BY <1>3, <1>4 DEF AllWide
<1>7. Even(g) /\ g.n = fr.n /\ g.cols = cols
  BY <1>1, <1>6 DEF Even
<1> QED
  BY <1>3, <1>5, <1>7 DEF g

(* write_item_field_locked: one cell and no other.                         *)
LEMMA CellWritten ==
    ASSUME NEW fr, IsColumnFrame(fr), Even(fr), NEW i, NEW f, NEW v
    PROVE  LET g == WriteCell(fr, i, f, v)
           IN  /\ IsColumnFrame(g) /\ Even(g) /\ g.n = fr.n
               /\ \A k \in 1 .. fr.n : \A h \in ItemFields :
                     k # i \/ h # f => Slot(g.cols[h], k) = Slot(fr.cols[h], k)
<1> DEFINE n == fr.n
           new  == CASE v.kind \in {"bool", "string"} -> v.kind
                     [] v.kind = "number" -> "double"
                     [] OTHER -> "json"
           old == fr.cols[f]
           col == IF old = NoColumn THEN NewColumn(new, n) ELSE old
           room == IF Admits(col.type, v) THEN col ELSE Json(col)
           w == Kept(room.type, v)
           x == ColumnSet(room, i, w)
           g == [fr EXCEPT !.cols[f] = x]
<1>1. WriteCell(fr, i, f, v) = g
  BY Zenon DEF WriteCell
<1>2. n \in Nat
  BY DEF IsColumnFrame
<1>3. f \in ItemFields => old = NoColumn \/ Wide(old, n)
  BY LayoutOf DEF Even, AllWide
<1> HIDE DEF new, old, n
<1>4. f \in ItemFields => Wide(col, n) /\ \A k \in 1 .. n : Slot(col, k) = Slot(old, k)
  <2>1. Wide(NewColumn(new, n), n) /\ \A k \in 1 .. n : Slot(NewColumn(new, n), k) = Absent
    BY <1>2, NewIsWide
  <2>2. \A k \in 1 .. n : Slot(NoColumn, k) = Absent
    BY DEF Slot
  <2>3. CASE old = NoColumn
    BY <2>1, <2>2, <2>3
  <2>4. CASE old # NoColumn
    BY <1>3, <2>4
  <2> QED
    BY <2>3, <2>4
<1> HIDE DEF col
<1>5. f \in ItemFields => Wide(room, n) /\ \A k \in 1 .. n : Slot(room, k) = Slot(old, k)
  <2> SUFFICES ASSUME f \in ItemFields
               PROVE  Wide(room, n) /\ \A k \in 1 .. n : Slot(room, k) = Slot(old, k)
    OBVIOUS
  <2>1. Wide(Json(col), n) /\ \A k \in 1 .. n : Slot(Json(col), k) = Slot(col, k)
    BY <1>2, <1>4, JsonIsWide
  <2>2. room = col \/ room = Json(col)
    OBVIOUS
  <2> HIDE DEF room
  <2> QED
    BY <1>4, <2>1, <2>2
<1> HIDE DEF room, w
<1>6. f \in ItemFields => Wide(x, n) /\ \A k \in 1 .. n : k # i => Slot(x, k) = Slot(old, k)
  <2> SUFFICES ASSUME f \in ItemFields
               PROVE  Wide(x, n) /\ \A k \in 1 .. n : k # i => Slot(x, k) = Slot(old, k)
    OBVIOUS
  <2>1. Wide(x, n) /\ \A k \in 1 .. n : k # i => Slot(x, k) = Slot(room, k)
    BY <1>2, <1>5, SetIsWide
  <2> HIDE DEF x
  <2> QED
    BY <1>5, <2>1
<1> HIDE DEF x
<1>7. /\ IsColumnFrame(g) /\ Even(g) /\ g.n = fr.n
      /\ \A h \in ItemFields : g.cols[h] = IF h = f THEN x ELSE fr.cols[h]
  BY <1>6, ColumnReplaced DEF n
<1> HIDE DEF g
<1>8. ASSUME NEW k \in 1 .. n, NEW h \in ItemFields, k # i \/ h # f
      PROVE  Slot(g.cols[h], k) = Slot(fr.cols[h], k)
  <2>1. CASE h = f
    BY <1>6, <1>7, <1>8, <2>1 DEF old
  <2>2. CASE h # f
    BY <1>7, <2>2
  <2> QED
    BY <2>1, <2>2
<1> QED
  BY <1>1, <1>7, <1>8 DEF n

(* Rows drawn from others, in both lists of the columns alike.             *)
DrawnColumn(new, old, n, p) ==
    IF old = NoColumn THEN new = NoColumn
    ELSE /\ new = [type |-> new.type, data |-> new.data, present |-> new.present]
         /\ Drawn(new.data, old.data, n, p) /\ Drawn(new.present, old.present, n, p)

LEMMA RebuiltColumns ==
    ASSUME NEW fr, IsColumnFrame(fr), NEW n \in Nat, NEW cols, IsColumns(cols), AllWide(cols, n)
    PROVE  LET g == Rebuilt(fr, n, cols)
           IN  IsColumnFrame(g) /\ Even(g) /\ g.n = n /\ g.cols = cols
<1> DEFINE mid == [fr EXCEPT !.n = n]
           g == Rebuilt(fr, n, cols)
<1>1. /\ mid = [layout |-> "column", common |-> fr.common, n |-> n, cols |-> fr.cols]
      /\ IsCommon(fr.common)
  BY DEF IsColumnFrame
<1>2. g = [mid EXCEPT !.cols = cols]
  BY DEF Rebuilt, IsColumnFrame
<1> HIDE DEF mid, g, IsCommon, IsColumns
<1>3. g = [layout |-> "column", common |-> fr.common, n |-> n, cols |-> cols]
  BY <1>1, <1>2
<1>4. IsColumnFrame(g) /\ g.n = n /\ g.cols = cols
  BY <1>1, <1>3 DEF IsColumnFrame
<1>5. Even(g)
  BY <1>4 DEF Even
<1> QED
  BY <1>4, <1>5 DEF g

ColumnOf(col, n) == col = NoColumn \/ Wide(col, n)
SlotsDrawn(new, old, n, p) == \A k \in 1 .. n : Slot(new, k) = Slot(old, p[k])

LEMMA DrawnSlots ==
    ASSUME NEW n \in Nat, NEW m \in Nat, NEW p, NEW new, NEW old, ColumnOf(old, m), DrawnColumn(new, old, n, p)
    PROVE  ColumnOf(new, n) /\ SlotsDrawn(new, old, n, p)
<1>1. CASE old = NoColumn
  BY <1>1 DEF DrawnColumn, Slot, ColumnOf, SlotsDrawn
<1>2. CASE old # NoColumn
  <2>1. Wide(new, n)
    BY <1>2 DEF DrawnColumn, Drawn, Wide, ColumnOf
  <2>2. ASSUME NEW k \in 1 .. n
        PROVE  Slot(new, k) = Slot(old, p[k])
    <3>1. n # 0
      OBVIOUS
    <3>2. new # NoColumn
      BY <2>1, <3>1, WideDomains
    <3>3. new.data[k] = old.data[p[k]] /\ new.present[k] = old.present[p[k]]
      BY <1>2 DEF DrawnColumn, Drawn
    <3> QED
      BY <1>2, <3>2, <3>3 DEF Slot
  <2> QED
    BY <2>1, <2>2 DEF ColumnOf, SlotsDrawn
<1> QED
  BY <1>1, <1>2

LEMMA ChangedColumn ==
    ASSUME NEW n, NEW p, NEW m, NEW old, old = NoColumn \/ Wide(old, m),
           NEW d, NEW q, Wide(old, m) => Drawn(d, old.data, n, p) /\ Drawn(q, old.present, n, p),
           NEW new, new = IF old = NoColumn THEN NoColumn ELSE [old EXCEPT !.data = d, !.present = q]
    PROVE  DrawnColumn(new, old, n, p)
<1>1. CASE old = NoColumn
  BY <1>1 DEF DrawnColumn
<1>2. CASE old # NoColumn
  <2> DEFINE mid == [old EXCEPT !.data = d]
  <2>1. mid = [type |-> old.type, data |-> d, present |-> old.present] /\ new = [mid EXCEPT !.present = q]
    BY <1>2 DEF Wide
  <2> HIDE DEF mid
  <2>2. new = [type |-> old.type, data |-> d, present |-> q]
    BY <2>1
  <2> QED
    BY <1>2, <2>2 DEF DrawnColumn
<1> QED
  BY <1>1, <1>2

LEMMA DrawnColumns ==
    ASSUME NEW fr, IsColumnFrame(fr), Even(fr), NEW n \in Nat, NEW p \in [1 .. n -> 1 .. fr.n],
           NEW cols, IsColumns(cols), \A f \in ItemFields : DrawnColumn(cols[f], fr.cols[f], n, p)
    PROVE  LET g == Rebuilt(fr, n, cols)
           IN  /\ IsColumnFrame(g) /\ Even(g) /\ g.n = n
               /\ \A k \in 1 .. n : \A f \in ItemFields : Slot(g.cols[f], k) = Slot(fr.cols[f], p[k])
<1> DEFINE g == Rebuilt(fr, n, cols)
<1>1. fr.n \in Nat /\ AllWide(fr.cols, fr.n)
  BY LayoutOf DEF IsColumnFrame, Even
<1>2. ASSUME NEW f \in ItemFields
      PROVE  /\ cols[f] = NoColumn \/ Wide(cols[f], n)
             /\ \A k \in 1 .. n : Slot(cols[f], k) = Slot(fr.cols[f], p[k])
  <2>1. DrawnColumn(cols[f], fr.cols[f], n, p)
    OBVIOUS
  <2>2. ColumnOf(fr.cols[f], fr.n)
    BY <1>1 DEF AllWide, ColumnOf
  <2>3. ColumnOf(cols[f], n) /\ SlotsDrawn(cols[f], fr.cols[f], n, p)
    BY <1>1, <2>1, <2>2, DrawnSlots
  <2> QED
    BY <2>3, Zenon DEF ColumnOf, SlotsDrawn
<1>3. AllWide(cols, n)
  BY <1>2, Zenon DEF AllWide
<1>4. IsColumnFrame(g) /\ Even(g) /\ g.n = n /\ g.cols = cols
  BY <1>3, RebuiltColumns
<1> HIDE DEF g
<1>5. \A k \in 1 .. n : \A f \in ItemFields : Slot(g.cols[f], k) = Slot(fr.cols[f], p[k])
  BY <1>2, <1>4, Zenon
<1> QED
  BY <1>4, <1>5 DEF g

SlotsFrom(fr, g, p) ==
    /\ IsColumnFrame(g) /\ Even(g) /\ p \in [1 .. g.n -> 1 .. fr.n]
    /\ \A k \in 1 .. g.n : \A f \in ItemFields : Slot(g.cols[f], k) = Slot(fr.cols[f], p[k])

LEMMA ColumnsTakenOut ==
    ASSUME NEW fr, IsColumnFrame(fr), Even(fr), NEW S, S \subseteq 1 .. fr.n
    PROVE  \E p : Ascending(p) /\ SlotsFrom(fr, ColumnRemove(fr, S).frame, p)
<1> DEFINE n == fr.n
           m == n - Cardinality(S)
           cols == [f \in ItemFields |->
                      IF fr.cols[f] = NoColumn THEN NoColumn
                      ELSE [fr.cols[f] EXCEPT !.data = CompactSeq(@, S), !.present = CompactSeq(@, S)]]
           g == Rebuilt(fr, m, cols)
<1>1. ColumnRemove(fr, S) = Good(g)
  BY Zenon DEF ColumnRemove, OnRows, Rebuilt
<1>2. n \in Nat /\ AllWide(fr.cols, n)
  BY LayoutOf DEF IsColumnFrame, Even
<1> HIDE DEF n
<1>3. S \subseteq 1 .. n
  BY DEF n
<1>4. m \in Nat /\ \E p : Compacts(S, n, m, p)
  BY <1>2, <1>3, Compacting
<1> HIDE DEF m
<1>5. PICK p : Compacts(S, n, m, p)
  BY <1>4
<1>11. p \in [1 .. m -> 1 .. n] /\ Ascending(p) /\ \A s : IsList(s) /\ Len(s) = n => Drawn(CompactSeq(s, S), s, m, p)
  BY <1>5, Zenon DEF Compacts
<1>6. IsColumns(cols)
  BY DEF IsColumns
<1>7. ASSUME NEW f \in ItemFields
      PROVE  DrawnColumn(cols[f], fr.cols[f], m, p)
  <2> DEFINE old == fr.cols[f]
             d == CompactSeq(old.data, S)
             q == CompactSeq(old.present, S)
  <2>1. cols[f] = IF old = NoColumn THEN NoColumn ELSE [old EXCEPT !.data = d, !.present = q]
    BY Zenon
  <2>2. old = NoColumn \/ Wide(old, n)
    BY <1>2 DEF AllWide
  <2> HIDE DEF old, cols
  <2>3. Wide(old, n) => Drawn(d, old.data, m, p) /\ Drawn(q, old.present, m, p)
    BY <1>11 DEF Wide
  <2> DEFINE new == cols[f]
  <2> HIDE DEF d, q, new
  <2>4. new = IF old = NoColumn THEN NoColumn ELSE [old EXCEPT !.data = d, !.present = q]
    BY <2>1 DEF new
  <2>5. DrawnColumn(new, old, m, p)
    BY <2>2, <2>3, <2>4, ChangedColumn
  <2> QED
    BY <2>5 DEF old, new
<1> HIDE DEF cols
<1>8. p \in [1 .. m -> 1 .. fr.n]
  BY <1>11 DEF n
<1>9. /\ IsColumnFrame(g) /\ Even(g) /\ g.n = m
      /\ \A k \in 1 .. m : \A f \in ItemFields : Slot(g.cols[f], k) = Slot(fr.cols[f], p[k])
  BY <1>4, <1>6, <1>7, <1>8, DrawnColumns
<1> HIDE DEF g
<1>10. ColumnRemove(fr, S).frame = g
  BY <1>1, Outcomes
<1>12. Ascending(p) /\ SlotsFrom(fr, g, p)
  BY <1>8, <1>9, <1>11 DEF SlotsFrom
<1> QED
  BY <1>10, <1>12

(* What OrderError accepts is an order.                                    *)
LEMMA AcceptedOrder ==
    ASSUME NEW n \in Nat, NEW order, OrderError(order, n) = "none"
    PROVE  IsOrder(order, n)
<1>1. /\ Len(order) = n /\ \A k \in 1 .. n : order[k] \in 1 .. n
      /\ \A k \in 1 .. n : \A j \in 1 .. k - 1 : order[j] # order[k]
  BY DEF OrderError
<1>2. ASSUME NEW i \in 1 .. n, NEW j \in 1 .. n, order[i] = order[j]
      PROVE  i = j
  <2>1. i < j => i \in 1 .. j - 1
    OBVIOUS
  <2>2. j < i => j \in 1 .. i - 1
    OBVIOUS
  <2> QED
    BY <1>1, <1>2, <2>1, <2>2
<1> QED
  BY <1>1, <1>2 DEF IsOrder

LEMMA ColumnsPutInOrder ==
    ASSUME NEW fr, IsColumnFrame(fr), Even(fr), NEW order, IsOrder(order, fr.n)
    PROVE  LET g == ColumnReorder(fr, order, "none").frame
           IN  g.n = fr.n /\ SlotsFrom(fr, g, [k \in 1 .. fr.n |-> order[k]])
<1> DEFINE n == fr.n
           p == [k \in 1 .. n |-> order[k]]
           cols == [f \in ItemFields |->
                      IF fr.cols[f] = NoColumn THEN NoColumn
                      ELSE [fr.cols[f] EXCEPT !.data = ReorderSeq(@, order), !.present = ReorderSeq(@, order)]]
           g == Rebuilt(fr, n, cols)
<1>1. ColumnReorder(fr, order, "none") = Good(g)
  BY Zenon DEF ColumnReorder, OnRows, Rebuilt
<1>2. n \in Nat /\ AllWide(fr.cols, n)
  BY LayoutOf DEF IsColumnFrame, Even
<1>3. IsOrder(order, n)
  OBVIOUS
<1> HIDE DEF n
<1>4. p \in [1 .. n -> 1 .. n] /\ \A k \in 1 .. n : p[k] = order[k]
  BY <1>3 DEF IsOrder
<1> HIDE DEF p
<1>5. ASSUME NEW s, IsList(s), Len(s) = n
      PROVE  Drawn(ReorderSeq(s, order), s, n, p)
  <2> DEFINE t == ReorderSeq(s, order)
  <2>1. t = [k \in 1 .. n |-> s[order[k]]]
    BY <1>3, <1>5, Reordering
  <2> HIDE DEF t
  <2>2. t = [k \in 1 .. n |-> t[k]] /\ \A k \in 1 .. n : t[k] = s[p[k]]
    BY <1>4, <2>1
  <2>3. Drawn(t, s, n, p)
    BY <1>2, <2>2, FunctionIsList DEF Drawn
  <2> QED
    BY <2>3 DEF t
<1>6. IsColumns(cols)
  BY DEF IsColumns
<1>7. ASSUME NEW f \in ItemFields
      PROVE  DrawnColumn(cols[f], fr.cols[f], n, p)
  <2> DEFINE old == fr.cols[f]
             d == ReorderSeq(old.data, order)
             q == ReorderSeq(old.present, order)
  <2>1. cols[f] = IF old = NoColumn THEN NoColumn ELSE [old EXCEPT !.data = d, !.present = q]
    BY Zenon
  <2>2. old = NoColumn \/ Wide(old, n)
    BY <1>2 DEF AllWide
  <2> HIDE DEF old, cols
  <2>3. Wide(old, n) => Drawn(d, old.data, n, p) /\ Drawn(q, old.present, n, p)
    BY <1>5 DEF Wide
  <2> DEFINE new == cols[f]
  <2> HIDE DEF d, q, new
  <2>4. new = IF old = NoColumn THEN NoColumn ELSE [old EXCEPT !.data = d, !.present = q]
    BY <2>1 DEF new
  <2>5. DrawnColumn(new, old, n, p)
    BY <2>2, <2>3, <2>4, ChangedColumn
  <2> QED
    BY <2>5 DEF old, new
<1> HIDE DEF cols
<1>8. p \in [1 .. n -> 1 .. fr.n]
  BY <1>4 DEF n
<1>9. /\ IsColumnFrame(g) /\ Even(g) /\ g.n = n
      /\ \A k \in 1 .. n : \A f \in ItemFields : Slot(g.cols[f], k) = Slot(fr.cols[f], p[k])
  BY <1>2, <1>6, <1>7, <1>8, DrawnColumns
<1> HIDE DEF g
<1>10. ColumnReorder(fr, order, "none").frame = g
  BY <1>1, Outcomes
<1>11. g.n = fr.n /\ SlotsFrom(fr, g, p)
  BY <1>8, <1>9 DEF n, SlotsFrom
<1> QED
  BY <1>10, <1>11 DEF n, p

---------------------------------------------------------------------------
(* Rows that are taken out or put in another order: every row there is now *)
(* was there before, and but for the fields F it has not changed.          *)

Sound(fr) == IsFrame(fr) /\ Even(fr)
Placing(p, m, n, way) ==
    /\ p \in [1 .. m -> 1 .. n]
    /\ way = "stays" => m = n /\ \A k \in 1 .. m : p[k] = k
    /\ way = "thins" => Ascending(p)
    /\ way = "permutes" => m = n /\ \A i, j \in 1 .. m : p[i] = p[j] => i = j
SameCells(fr, g, F, p) ==
    \A k \in 1 .. ItemCount(g) : \A f \in ItemFields \ F : Cell(g, k, f) = Cell(fr, p[k], f)
Turned(fr, g, F, way) ==
    /\ Sound(g) /\ g.layout = fr.layout
    /\ \E p : Placing(p, ItemCount(g), ItemCount(fr), way) /\ SameCells(fr, g, F, p)

LEMMA CountsOf ==
    ASSUME NEW fr, IsFrame(fr)
    PROVE  /\ fr.layout = "row" => IsRowFrame(fr) /\ ItemCount(fr) = Len(fr.items)
           /\ fr.layout # "row" => IsColumnFrame(fr) /\ ItemCount(fr) = fr.n
           /\ ItemCount(fr) \in Nat
<1>1. /\ fr.layout = "row" => IsRowFrame(fr) /\ ItemCount(fr) = Len(fr.items)
      /\ fr.layout # "row" => IsColumnFrame(fr) /\ ItemCount(fr) = fr.n
  BY LayoutOf DEF ItemCount, RowCount
<1>2. CASE fr.layout = "row"
  BY <1>1, <1>2, ListDomain DEF IsRowFrame
<1>3. CASE fr.layout # "row"
  BY <1>1, <1>3 DEF IsColumnFrame
<1> QED
  BY <1>1, <1>2, <1>3

LEMMA TurnedStill ==
    ASSUME NEW fr, IsFrame(fr), NEW g, Sound(g), g.layout = fr.layout, NEW F, NEW way,
           ItemCount(g) = ItemCount(fr),
           \A k \in 1 .. ItemCount(fr) : \A f \in ItemFields \ F : Cell(g, k, f) = Cell(fr, k, f)
    PROVE  Turned(fr, g, F, way)
<1> DEFINE n == ItemCount(fr)
           p == [k \in 1 .. n |-> k]
<1>1. n \in Nat
  BY CountsOf
<1>2. ItemCount(g) = n /\ \A k \in 1 .. n : \A f \in ItemFields \ F : Cell(g, k, f) = Cell(fr, k, f)
  OBVIOUS
<1> HIDE DEF n
<1>3. p \in [1 .. n -> 1 .. n] /\ DOMAIN p = 1 .. n /\ \A k \in 1 .. n : p[k] = k
  OBVIOUS
<1> HIDE DEF p
<1>4. Placing(p, n, n, way)
  BY <1>3 DEF Placing, Ascending
<1>5. SameCells(fr, g, F, p)
  BY <1>2, <1>3 DEF SameCells
<1>6. Placing(p, ItemCount(g), ItemCount(fr), way)
  BY <1>2, <1>4 DEF n
<1> QED
  BY <1>5, <1>6, Zenon DEF Turned

LEMMA PlacingTransitive ==
    ASSUME NEW l \in Nat, NEW m \in Nat, NEW n \in Nat, NEW way,
           NEW p, Placing(p, m, n, way), NEW q, Placing(q, l, m, way), NEW r, r = [k \in 1 .. l |-> p[q[k]]]
    PROVE  Placing(r, l, n, way)
<1>1. p \in [1 .. m -> 1 .. n] /\ q \in [1 .. l -> 1 .. m]
  BY DEF Placing
<1>2. DOMAIN r = 1 .. l /\ \A k \in 1 .. l : r[k] = p[q[k]] /\ q[k] \in 1 .. m
  BY <1>1
<1>3. r \in [1 .. l -> 1 .. n]
  BY <1>1
<1>4. CASE way = "stays"
  BY <1>2, <1>3, <1>4 DEF Placing
<1>5. CASE way = "thins"
  <2>1. DOMAIN p = 1 .. m /\ DOMAIN q = 1 .. l
    BY <1>1
  <2>2. (\A a, b \in 1 .. m : a < b => p[a] < p[b]) /\ \A a, b \in 1 .. l : a < b => q[a] < q[b]
    BY <1>5, <2>1, Zenon DEF Placing, Ascending
  <2>3. \A a, b \in 1 .. l : a < b => r[a] < r[b]
    BY <1>2, <2>2
  <2>4. Ascending(r)
    BY <1>2, <2>3 DEF Ascending
  <2> QED
    BY <1>3, <1>5, <2>4 DEF Placing
<1>6. CASE way = "permutes"
  <2>1. /\ l = m /\ m = n /\ \A i, j \in 1 .. m : p[i] = p[j] => i = j
        /\ \A i, j \in 1 .. l : q[i] = q[j] => i = j
    BY <1>6, Zenon DEF Placing
  <2>2. \A i, j \in 1 .. l : r[i] = r[j] => i = j
    BY <1>2, <2>1
  <2> QED
    BY <1>3, <1>6, <2>1, <2>2 DEF Placing
<1>7. CASE way \notin {"stays", "thins", "permutes"}
  BY <1>3, <1>7 DEF Placing
<1> QED
  BY <1>4, <1>5, <1>6, <1>7

LEMMA TurnedTransitive ==
    ASSUME NEW fr, IsFrame(fr), NEW g, NEW h, NEW F, NEW way, Turned(fr, g, F, way), Turned(g, h, F, way)
    PROVE  Turned(fr, h, F, way)
<1> DEFINE l == ItemCount(h)
           m == ItemCount(g)
           n == ItemCount(fr)
<1>1. /\ IsFrame(g) /\ IsFrame(h) /\ Sound(h) /\ g.layout = fr.layout /\ h.layout = g.layout
  BY DEF Turned, Sound
<1>2. l \in Nat /\ m \in Nat /\ n \in Nat
  BY <1>1, CountsOf
<1>3. PICK p : Placing(p, m, n, way) /\ SameCells(fr, g, F, p)
  BY DEF Turned
<1>4. PICK q : Placing(q, l, m, way) /\ SameCells(g, h, F, q)
  BY DEF Turned
<1> DEFINE r == [k \in 1 .. l |-> p[q[k]]]
<1>5. /\ \A k \in 1 .. m : \A f \in ItemFields \ F : Cell(g, k, f) = Cell(fr, p[k], f)
      /\ \A k \in 1 .. l : \A f \in ItemFields \ F : Cell(h, k, f) = Cell(g, q[k], f)
  BY <1>3, <1>4 DEF SameCells
<1> HIDE DEF l, m, n
<1>6. \A k \in 1 .. l : q[k] \in 1 .. m /\ r[k] = p[q[k]]
  BY <1>4 DEF Placing
<1>11. r = [k \in 1 .. l |-> p[q[k]]]
  OBVIOUS
<1> HIDE DEF r
<1>7. Placing(r, l, n, way)
  BY <1>11, <1>2, <1>3, <1>4, PlacingTransitive
<1>8. \A k \in 1 .. l : \A f \in ItemFields \ F : Cell(h, k, f) = Cell(fr, r[k], f)
  BY <1>5, <1>6
<1>9. Placing(r, ItemCount(h), ItemCount(fr), way) /\ SameCells(fr, h, F, r)
  BY <1>7, <1>8, Zenon DEF l, n, SameCells
<1>10. h.layout = fr.layout
  BY <1>1
<1> QED
  BY <1>1, <1>9, <1>10, Zenon DEF Turned

LEMMA WithinCells ==
    ASSUME NEW fr, IsFrame(fr), NEW g, NEW C, NEW F, Within(fr, g, C, F, "stays")
    PROVE  /\ ItemCount(g) = ItemCount(fr) /\ g.layout = fr.layout /\ IsFrame(g)
           /\ \A k \in 1 .. ItemCount(fr) : \A f \in ItemFields \ F : Cell(g, k, f) = Cell(fr, k, f)
<1>1. IsFrame(g) /\ g.layout = fr.layout /\ SameItems(fr, g, F)
  BY DEF Within
<1>2. CASE fr.layout = "row"
  <2>1. ItemCount(g) = ItemCount(fr) /\ ItemCount(fr) = Len(fr.items)
    BY <1>1, <1>2, CountsOf DEF SameItems
  <2>2. \A k \in 1 .. ItemCount(fr) : \A f \in ItemFields \ F : Cell(g, k, f) = Cell(fr, k, f)
    BY <1>1, <1>2, <2>1 DEF SameItems, Cell
  <2> QED
    BY <1>1, <2>1, <2>2
<1>3. CASE fr.layout # "row"
  <2>1. ItemCount(g) = ItemCount(fr) /\ ItemCount(fr) = fr.n
    BY <1>1, <1>3, CountsOf DEF SameItems
  <2>2. \A k \in 1 .. ItemCount(fr) : \A f \in ItemFields \ F : Cell(g, k, f) = Cell(fr, k, f)
    BY <1>1, <1>3, <2>1 DEF SameItems, Cell
  <2> QED
    BY <1>1, <2>1, <2>2
<1> QED
  BY <1>2, <1>3

LEMMA WithinTurned ==
    ASSUME NEW fr, IsFrame(fr), NEW g, Even(g), NEW C, NEW F, Within(fr, g, C, F, "stays"), NEW way
    PROVE  Turned(fr, g, F, way)
BY WithinCells, TurnedStill DEF Sound

LEMMA StillEven ==
    ASSUME NEW fr, Even(fr), NEW g, NEW C, Within(fr, g, C, {}, "stays")
    PROVE  Even(g)
<1>1. g.layout = fr.layout /\ SameItems(fr, g, {})
  BY DEF Within
<1>2. SUFFICES ASSUME fr.layout # "row"
               PROVE  AllWide(g.cols, g.n)
  BY <1>1 DEF Even
<1>3. AllWide(fr.cols, fr.n)
  BY <1>2 DEF Even
<1>4. g.n = fr.n /\ \A f \in ItemFields : g.cols[f] = fr.cols[f]
  BY <1>1, <1>2 DEF SameItems
<1> HIDE DEF Wide
<1> QED
  BY <1>3, <1>4 DEF AllWide

LEMMA RowIsEven ==
    ASSUME NEW fr, fr.layout = "row"
    PROVE  Even(fr)
BY DEF Even

LEMMA FitsFewer ==
    ASSUME NEW part, NEW C, NEW F, NEW way, Fits(part, C, F, way), part.what = "common"
    PROVE  Fits(part, C, {}, "stays") /\ Fits(part, C, F, "stays")
BY DEF Fits

(* The single writes leave every column as long as the frame.              *)
LEMMA WriteIsEven ==
    ASSUME NEW fr, IsColumnFrame(fr), Even(fr), NEW w
    PROVE  /\ Even(ColumnWriteItem(fr, w).frame)
           /\ IsList(w.vals) => Even(ColumnWriteColumn(fr, w).frame)
<1>1. Even(ColumnWriteItem(fr, w).frame)
  <2>1. \/ ColumnWriteItem(fr, w).frame = fr
        \/ ColumnWriteItem(fr, w).frame = WriteCell(fr, w.index, w.field, w.value)
    BY DEF ColumnWriteItem, Good, Bad
  <2>2. Even(WriteCell(fr, w.index, w.field, w.value))
    BY CellWritten, Zenon
  <2> QED
    BY <2>1, <2>2
<1>2. ASSUME IsList(w.vals)
      PROVE  Even(ColumnWriteColumn(fr, w).frame)
  <2> DEFINE p == [i \in DOMAIN w.vals |-> TRUE]
             x == [type |-> "double", data |-> w.vals, present |-> p]
             g == [fr EXCEPT !.cols[w.field] = x]
  <2>1. \/ ColumnWriteColumn(fr, w) = Bad(fr, "column length")
        \/ ColumnWriteColumn(fr, w) = Bad(fr, "item value")
        \/ Len(w.vals) = fr.n /\ ColumnWriteColumn(fr, w) = Good(g)
    BY Zenon DEF ColumnWriteColumn
  <2>2. Len(w.vals) \in Nat /\ p = [i \in 1 .. Len(w.vals) |-> p[i]]
    BY <1>2, ListDomain
  <2> HIDE DEF p
  <2>3. IsList(p) /\ Len(p) = Len(w.vals)
    BY <2>2, FunctionIsList
  <2>4. Len(w.vals) = fr.n => Wide(x, fr.n)
    BY <1>2, <2>3 DEF Wide
  <2> HIDE DEF x
  <2>5. Len(w.vals) = fr.n => Even(g)
    <3> SUFFICES ASSUME Len(w.vals) = fr.n
                 PROVE  Even(g)
      OBVIOUS
    <3> QED
      BY <2>4, ColumnReplaced, Zenon
  <2> HIDE DEF g
  <2> QED
    BY <2>1, <2>5, Outcomes
<1> QED
  BY <1>1, <1>2

LEMMA RowsTurned ==
    ASSUME NEW fr, IsRowFrame(fr), NEW F, NEW way
    PROVE  /\ \A S : way = "thins" => Turned(fr, RowRemove(fr, S).frame, F, way)
           /\ \A order : way = "permutes" =>
                 Turned(fr, RowReorder(fr, order, OrderError(order, RowCount(fr))).frame, F, way)
<1> DEFINE items == fr.items
           n == Len(items)
<1>1. /\ IsList(items) /\ \A k \in 1 .. Len(items) : IsRow(items[k])
      /\ fr.layout = "row" /\ IsFrame(fr) /\ ItemCount(fr) = n /\ n \in Nat /\ DOMAIN items = 1 .. n
  BY LayoutOf, CountsOf, ListDomain DEF IsRowFrame, IsFrame
<1>2. Turned(fr, fr, F, way)
  BY <1>1, TurnedStill, RowIsEven DEF Sound
<1>3. ASSUME NEW rows, IsList(rows), NEW p, Placing(p, Len(rows), n, way),
             \A k \in 1 .. Len(rows) : rows[k] = items[p[k]]
      PROVE  Turned(fr, [fr EXCEPT !.items = rows], F, way)
  <2> DEFINE g == [fr EXCEPT !.items = rows]
  <2>1. g = [layout |-> "row", common |-> fr.common, items |-> rows] /\ IsCommon(fr.common)
    BY DEF IsRowFrame
  <2> HIDE DEF g
  <2>2. \A k \in 1 .. Len(rows) : p[k] \in 1 .. n
    BY <1>3 DEF Placing
  <2>3. \A k \in 1 .. Len(rows) : IsRow(rows[k])
    BY <1>1, <1>3, <2>2
  <2>4. IsRowFrame(g)
    <3> HIDE DEF IsCommon, IsRow, IsList
    <3> QED
      BY <1>3, <2>1, <2>3 DEF IsRowFrame
  <2>5. g.layout = "row" /\ g.items = rows /\ IsFrame(g) /\ ItemCount(g) = Len(rows)
    <3>1. IsFrame(g)
      BY <2>4 DEF IsFrame
    <3> QED
      BY <2>1, <3>1, CountsOf
  <2>6. Sound(g)
    BY <2>5, RowIsEven DEF Sound
  <2>7. SameCells(fr, g, F, p)
    BY <1>1, <1>3, <2>5 DEF SameCells, Cell
  <2>8. Placing(p, ItemCount(g), ItemCount(fr), way)
    BY <1>1, <1>3, <2>5
  <2>9. Turned(fr, g, F, way)
    BY <1>1, <2>5, <2>6, <2>7, <2>8 DEF Turned
  <2> QED
    BY <2>9 DEF g
<1>4. ASSUME NEW S, way = "thins"
      PROVE  Turned(fr, RowRemove(fr, S).frame, F, way)
  <2> DEFINE rows == Without(items, S)
  <2>1. RowRemove(fr, S).frame = fr \/ RowRemove(fr, S).frame = [fr EXCEPT !.items = rows]
    BY DEF RowRemove, Good, Bad, IsRowFrame
  <2>2. PICK p : Comes(rows, items, n, p)
    BY <1>1, WithoutComes
  <2> HIDE DEF rows, items, n
  <2>3. /\ IsList(rows) /\ p \in [1 .. Len(rows) -> 1 .. n] /\ Ascending(p)
        /\ \A k \in 1 .. Len(rows) : rows[k] = items[p[k]]
    BY <2>2 DEF Comes
  <2>4. Placing(p, Len(rows), n, way)
    BY <1>4, <2>3 DEF Placing
  <2>5. Turned(fr, [fr EXCEPT !.items = rows], F, way)
    BY <1>3, <2>3, <2>4
  <2> QED
    BY <1>2, <2>1, <2>5
<1>5. ASSUME NEW order, way = "permutes"
      PROVE  Turned(fr, RowReorder(fr, order, OrderError(order, RowCount(fr))).frame, F, way)
  <2> DEFINE rows == [k \in DOMAIN items |-> items[order[k]]]
             p == [k \in 1 .. n |-> order[k]]
             e == OrderError(order, RowCount(fr))
  <2>1. \/ RowReorder(fr, order, e).frame = fr
        \/ e = "none" /\ RowReorder(fr, order, e).frame = [fr EXCEPT !.items = rows]
    <3> HIDE DEF e
    <3> QED
      BY DEF RowReorder, Good, Bad, IsRowFrame
  <2>2. ASSUME e = "none"
        PROVE  Turned(fr, [fr EXCEPT !.items = rows], F, way)
    <3>1. OrderError(order, n) = "none"
      BY <2>2 DEF RowCount
    <3>2. IsOrder(order, n)
      BY <1>1, <3>1, AcceptedOrder
    <3>3. DOMAIN items = 1 .. n /\ n \in Nat
      BY <1>1
    <3> HIDE DEF items, n
    <3>4. p \in [1 .. n -> 1 .. n] /\ \A k \in 1 .. n : p[k] = order[k]
      BY <3>2 DEF IsOrder
    <3>5. rows = [k \in 1 .. n |-> rows[k]] /\ \A k \in 1 .. n : rows[k] = items[p[k]]
      BY <3>3, <3>4
    <3> HIDE DEF p, rows
    <3>6. IsList(rows) /\ Len(rows) = n
      BY <3>3, <3>5, FunctionIsList
    <3>7. \A i, j \in 1 .. n : p[i] = p[j] => i = j
      BY <3>2, <3>4 DEF IsOrder
    <3>8. Placing(p, n, n, way)
      BY <2>2, <1>5, <3>4, <3>7 DEF Placing
    <3>9. Placing(p, Len(rows), n, way) /\ \A k \in 1 .. Len(rows) : rows[k] = items[p[k]]
      BY <3>5, <3>6, <3>8
    <3> QED
      BY <1>3, <3>6, <3>9
  <2> HIDE DEF rows, e
  <2>3. Turned(fr, RowReorder(fr, order, e).frame, F, way)
    BY <1>2, <2>1, <2>2
  <2> QED
    BY <2>3 DEF e
<1> QED
  BY <1>4, <1>5

LEMMA ColumnsTurned ==
    ASSUME NEW fr, IsColumnFrame(fr), Even(fr), NEW F, NEW way
    PROVE  /\ \A S : way = "thins" => Turned(fr, ColumnRemove(fr, S).frame, F, way)
           /\ \A order : way = "permutes" => Turned(fr, ColumnReorder(fr, order, OrderError(order, fr.n)).frame, F, way)
<1> DEFINE n == fr.n
<1>1. fr.layout # "row" /\ IsFrame(fr) /\ ItemCount(fr) = n /\ n \in Nat
  BY LayoutOf, CountsOf DEF IsFrame, IsColumnFrame
<1>2. Turned(fr, fr, F, way)
  BY <1>1, TurnedStill DEF Sound
<1>3. ASSUME NEW g, NEW p, SlotsFrom(fr, g, p), Placing(p, g.n, n, way)
      PROVE  Turned(fr, g, F, way)
  <2>5. IsColumnFrame(g) /\ Even(g)
    BY <1>3 DEF SlotsFrom
  <2>1. g.layout # "row" /\ g.layout = fr.layout /\ IsFrame(g)
    BY <2>5, LayoutOf DEF IsFrame
  <2>2. ItemCount(g) = g.n /\ Sound(g)
    BY <2>1, <2>5, CountsOf DEF Sound
  <2>3. SameCells(fr, g, F, p)
    BY <1>1, <1>3, <2>1, <2>2 DEF SameCells, Cell, SlotsFrom
  <2>4. Placing(p, ItemCount(g), ItemCount(fr), way)
    BY <1>1, <1>3, <2>2
  <2> QED
    BY <2>1, <2>2, <2>3, <2>4 DEF Turned
<1>4. ASSUME NEW S, way = "thins"
      PROVE  Turned(fr, ColumnRemove(fr, S).frame, F, way)
  <2> DEFINE g == ColumnRemove(fr, S).frame
  <2>1. CASE ~(S \subseteq 1 .. n)
    <3>1. g = fr
      BY <2>1, Outcomes DEF ColumnRemove
    <3> QED
      BY <1>2, <3>1
  <2>2. CASE S \subseteq 1 .. n
    <3>1. \E p : Ascending(p) /\ SlotsFrom(fr, g, p)
      BY <2>2, ColumnsTakenOut
    <3> HIDE DEF g
    <3>2. PICK p : Ascending(p) /\ SlotsFrom(fr, g, p)
      BY <3>1
    <3>3. Placing(p, g.n, n, way)
      BY <1>4, <3>2 DEF Placing, SlotsFrom
    <3>4. Turned(fr, g, F, way)
      BY <1>3, <3>2, <3>3
    <3> QED
      BY <3>4 DEF g
  <2> QED
    BY <2>1, <2>2
<1>5. ASSUME NEW order, way = "permutes"
      PROVE  Turned(fr, ColumnReorder(fr, order, OrderError(order, fr.n)).frame, F, way)
  <2> DEFINE e == OrderError(order, n)
             g == ColumnReorder(fr, order, e).frame
  <2>1. CASE e # "none"
    <3>1. g = fr
      BY <2>1, Outcomes DEF ColumnReorder
    <3> QED
      BY <1>2, <3>1
  <2>2. CASE e = "none"
    <3> DEFINE h == ColumnReorder(fr, order, "none").frame
               p == [k \in 1 .. n |-> order[k]]
    <3>1. IsOrder(order, n)
      BY <1>1, <2>2, AcceptedOrder
    <3>2. h.n = n /\ SlotsFrom(fr, h, p)
      BY <3>1, ColumnsPutInOrder, Zenon
    <3>3. g = h
      BY <2>2
    <3> HIDE DEF g, h, n
    <3>4. p \in [1 .. n -> 1 .. n] /\ \A i, j \in 1 .. n : p[i] = p[j] => i = j
      BY <3>1 DEF IsOrder
    <3> HIDE DEF p
    <3>5. Placing(p, h.n, n, way)
      BY <1>5, <3>2, <3>4 DEF Placing
    <3>7. Turned(fr, h, F, way)
      BY <1>3, <3>2, <3>5
    <3>8. Turned(fr, g, F, way)
      BY <3>3, <3>7
    <3> QED
      BY <3>8 DEF g, n
  <2> QED
    BY <2>1, <2>2
<1> QED
  BY <1>4, <1>5

(* One part of apply_output, and then a list of them.                      *)
LEMMA PartTurned ==
    ASSUME NEW fr, Sound(fr), NEW part, NEW C, NEW F, NEW way, way \in {"stays", "thins", "permutes"},
           Fits(part, C, F, way), NEW name, NEW recall
    PROVE  Turned(fr, ApplyPart(fr, part, name, recall).frame, F, way)
<1> DEFINE g == ApplyPart(fr, part, name, recall).frame
<1>1. IsFrame(fr) /\ Even(fr)
  BY DEF Sound
<1>2. IF fr.layout = "row" THEN IsRowFrame(fr) ELSE IsColumnFrame(fr)
  BY <1>1, LayoutOf
<1>3. part.what \in {"common", "item", "column", "remove", "order"}
  BY DEF Fits
<1>4. ASSUME part.what = "common"
      PROVE  Turned(fr, g, F, way)
  <2>1. Fits(part, C, {}, "stays") /\ Fits(part, C, F, "stays")
    BY <1>4, FitsFewer
  <2>2. Within(fr, g, C, {}, "stays") /\ Within(fr, g, C, F, "stays")
    BY <1>1, <2>1, PartWithin
  <2> HIDE DEF g
  <2>3. Even(g)
    BY <1>1, <2>2, StillEven
  <2> QED
    BY <1>1, <2>2, <2>3, WithinTurned
<1>5. ASSUME part.what \in {"item", "column"}
      PROVE  Turned(fr, g, F, way)
  <2>1. Fits(part, C, F, "stays") /\ (part.what = "column" => IsList(part.arg.vals))
    BY <1>5 DEF Fits
  <2>2. Within(fr, g, C, F, "stays")
    BY <1>1, <2>1, PartWithin
  <2>3. Even(g)
    <3>1. CASE fr.layout = "row"
      <4>1. g.layout = "row"
        BY <2>2, <3>1 DEF Within
      <4> QED
        BY <4>1, RowIsEven
    <3>2. CASE fr.layout # "row"
      <4>1. g = ColumnPart(fr, part, name, recall).frame
        BY <3>2 DEF ApplyPart
      <4>2. \/ part.what = "item" /\ g = ColumnWriteItem(fr, part.arg).frame
            \/ part.what = "column" /\ g = ColumnWriteColumn(fr, part.arg).frame
        BY <1>5, <4>1 DEF ColumnPart
      <4> HIDE DEF g
      <4> QED
        BY <1>1, <1>2, <2>1, <3>2, <4>2, WriteIsEven
    <3> QED
      BY <3>1, <3>2
  <2> HIDE DEF g
  <2> QED
    BY <1>1, <2>2, <2>3, WithinTurned
<1>6. ASSUME part.what \in {"remove", "order"}
      PROVE  Turned(fr, g, F, way)
  <2>1. \/ part.what = "remove" /\ way = "thins"
        \/ part.what = "order" /\ way = "permutes"
    BY <1>6 DEF Fits
  <2>2. CASE fr.layout = "row"
    <3>1. g = RowPart(fr, part, name, recall).frame
      BY <2>2 DEF ApplyPart
    <3>2. \/ part.what = "remove" /\ g = RowRemove(fr, part.arg).frame
          \/ part.what = "order" /\ g = RowReorder(fr, part.arg, OrderError(part.arg, RowCount(fr))).frame
      BY <2>1, <3>1 DEF RowPart
    <3> HIDE DEF g
    <3> QED
      BY <1>2, <2>1, <2>2, <3>2, RowsTurned
  <2>3. CASE fr.layout # "row"
    <3>1. g = ColumnPart(fr, part, name, recall).frame
      BY <2>3 DEF ApplyPart
    <3>2. \/ part.what = "remove" /\ g = ColumnRemove(fr, part.arg).frame
          \/ part.what = "order" /\ g = ColumnReorder(fr, part.arg, OrderError(part.arg, fr.n)).frame
      BY <2>1, <3>1 DEF ColumnPart
    <3> HIDE DEF g
    <3> QED
      BY <1>1, <1>2, <2>1, <2>3, <3>2, ColumnsTurned
  <2> QED
    BY <2>2, <2>3
<1> HIDE DEF g
<1>7. Turned(fr, g, F, way)
  BY <1>3, <1>4, <1>5, <1>6
<1> QED
  BY <1>7 DEF g

LEMMA PartsTurned ==
    ASSUME NEW fr, Sound(fr), NEW ps, NEW C, NEW F, NEW way, way \in {"stays", "thins", "permutes"},
           AllFit(ps, C, F, way), NEW name, NEW recall
    PROVE  Turned(fr, ApplyParts(fr, ps, name, recall).frame, F, way)
<1> DEFINE n == Len(ps)
<1>1. n \in Nat /\ IsList(ps)
  BY ListDomain DEF AllFit
<1>2. PICK g : PartsRun(g, fr, ps, name, recall, n) /\ ApplyParts(fr, ps, name, recall) = g[n]
  BY <1>1, PartsResult
<1>3. \A k \in 1 .. n : Fits(ps[k], C, F, way)
  BY DEF AllFit
<1>8. IsFrame(fr)
  BY DEF Sound
<1> HIDE DEF n
<1> DEFINE P == {k \in Nat : k \in 0 .. n => Turned(fr, g[k].frame, F, way)}
<1>4. 0 \in P
  <2>1. Turned(fr, fr, F, way)
    BY <1>8, TurnedStill
  <2>2. g[0] = Good(fr)
    BY <1>2 DEF PartsRun
  <2> QED
    BY <2>1, <2>2, Outcomes
<1>5. ASSUME NEW k \in 1 .. n, k - 1 \in P
      PROVE  k \in P
  <2> DEFINE a == g[k - 1]
             b == g[k]
  <2>1. Turned(fr, a.frame, F, way)
    BY <1>1, <1>5
  <2>2. b = IF a.error # "none" THEN a ELSE ApplyPart(a.frame, ps[k], name, recall)
    BY <1>1, <1>2 DEF PartsRun
  <2> HIDE DEF a, b
  <2>3. Turned(fr, b.frame, F, way)
    <3>1. CASE a.error # "none"
      BY <2>1, <2>2, <3>1
    <3>2. CASE ~(a.error # "none")
      <4>1. Sound(a.frame)
        BY <2>1 DEF Turned
      <4>2. Fits(ps[k], C, F, way)
        BY <1>1, <1>3
      <4>3. Turned(a.frame, b.frame, F, way)
        BY <2>2, <3>2, <4>1, <4>2, PartTurned
      <4> QED
        BY <1>8, <2>1, <4>3, TurnedTransitive
    <3> QED
      BY <3>1, <3>2
  <2> QED
    BY <1>1, <2>3 DEF b
<1>6. 0 .. n \subseteq P
  <2> HIDE DEF P
  <2> QED
    BY <1>1, <1>4, <1>5, AscentFromZero
<1>7. n \in P
  <2> HIDE DEF P
  <2> QED
    BY <1>1, <1>6
<1> QED
  BY <1>1, <1>2, <1>7

---------------------------------------------------------------------------
(* Rows that are added: they come after those there were, which stay as    *)
(* they are, and have the fields F only.                                   *)

Reached(fr, g, F) ==
    /\ Sound(g) /\ g.layout = fr.layout /\ ItemCount(g) >= ItemCount(fr)
    /\ \A k \in 1 .. ItemCount(fr) : \A f \in ItemFields : Cell(g, k, f) = Cell(fr, k, f)
    /\ \A k \in ItemCount(fr) + 1 .. ItemCount(g) : \A f \in ItemFields \ F : Cell(g, k, f) = Absent

LEMMA ReachedItself ==
    ASSUME NEW fr, Sound(fr), NEW F
    PROVE  Reached(fr, fr, F)
<1>1. ItemCount(fr) \in Nat
  BY CountsOf DEF Sound
<1>2. ItemCount(fr) + 1 .. ItemCount(fr) = {}
  BY <1>1
<1> QED
  BY <1>1, <1>2 DEF Reached

(* A step that leaves the old rows, and gives what there is of the new     *)
(* ones, or adds to them, the fields F only.                               *)
LEMMA ReachedFurther ==
    ASSUME NEW fr, IsFrame(fr), NEW a, NEW b, NEW F, Reached(fr, a, F), Sound(b), b.layout = a.layout,
           ItemCount(b) >= ItemCount(a),
           \A k \in 1 .. ItemCount(a) : \A f \in ItemFields :
              k <= ItemCount(fr) \/ f \notin F => Cell(b, k, f) = Cell(a, k, f),
           \A k \in ItemCount(a) + 1 .. ItemCount(b) : \A f \in ItemFields \ F : Cell(b, k, f) = Absent
    PROVE  Reached(fr, b, F)
<1> DEFINE n == ItemCount(fr)
           m == ItemCount(a)
           l == ItemCount(b)
<1>1. /\ Sound(a) /\ a.layout = fr.layout /\ m >= n
      /\ \A k \in 1 .. n : \A f \in ItemFields : Cell(a, k, f) = Cell(fr, k, f)
      /\ \A k \in n + 1 .. m : \A f \in ItemFields \ F : Cell(a, k, f) = Absent
  BY DEF Reached
<1>2. n \in Nat /\ m \in Nat /\ l \in Nat
  BY <1>1, CountsOf DEF Sound
<1>3. /\ l >= m
      /\ \A k \in 1 .. m : \A f \in ItemFields : k <= n \/ f \notin F => Cell(b, k, f) = Cell(a, k, f)
      /\ \A k \in m + 1 .. l : \A f \in ItemFields \ F : Cell(b, k, f) = Absent
  OBVIOUS
<1> HIDE DEF n, m, l
<1>4. l >= n
  BY <1>1, <1>2, <1>3
<1>5. \A k \in 1 .. n : \A f \in ItemFields : Cell(b, k, f) = Cell(fr, k, f)
  BY <1>1, <1>2, <1>3
<1>6. \A k \in n + 1 .. l : \A f \in ItemFields \ F : Cell(b, k, f) = Absent
  <2> SUFFICES ASSUME NEW k \in n + 1 .. l, NEW f \in ItemFields \ F
               PROVE  Cell(b, k, f) = Absent
    OBVIOUS
  <2>1. CASE k <= m
    <3>1. k \in 1 .. m /\ k \in n + 1 .. m
      BY <1>2, <2>1
    <3> QED
      BY <1>1, <1>3, <3>1
  <2>2. CASE ~(k <= m)
    <3>1. k \in m + 1 .. l
      BY <1>2, <2>2
    <3> QED
      BY <1>3, <3>1
  <2> QED
    BY <2>1, <2>2
<1>7. b.layout = fr.layout
  BY <1>1
<1> QED
  BY <1>4, <1>5, <1>6, <1>7, Zenon DEF Reached, n, l

LEMMA ReachedStill ==
    ASSUME NEW fr, IsFrame(fr), NEW a, NEW b, NEW C, NEW F, Reached(fr, a, F), Within(a, b, C, {}, "stays")
    PROVE  Reached(fr, b, F)
<1>1. Sound(a) /\ IsFrame(a) /\ Even(a)
  BY DEF Reached, Sound
<1>2. /\ ItemCount(b) = ItemCount(a) /\ b.layout = a.layout /\ IsFrame(b)
      /\ \A k \in 1 .. ItemCount(a) : \A f \in ItemFields : Cell(b, k, f) = Cell(a, k, f)
  BY <1>1, WithinCells
<1>3. Sound(b)
  BY <1>1, <1>2, StillEven DEF Sound
<1>4. ItemCount(a) \in Nat /\ ItemCount(a) + 1 .. ItemCount(b) = {} /\ ItemCount(b) >= ItemCount(a)
  <2>1. ItemCount(a) \in Nat
    BY <1>1, CountsOf
  <2> QED
    BY <1>2, <2>1
<1> QED
  BY <1>2, <1>3, <1>4, ReachedFurther

(* extend_rows.                                                            *)
ListOf(s, n) == IsList(s) /\ Len(s) = n
Joined(x, d, c, n, m) ==
    /\ ListOf(x, n + m)
    /\ \A k \in 1 .. n : x[k] = d[k]
    /\ \A k \in n + 1 .. n + m : x[k] = c[k - n]
Lengthened(new, old, n, m) ==
    /\ ColumnOf(new, n + m)
    /\ \A k \in 1 .. n : Slot(new, k) = Slot(old, k)
    /\ \A k \in n + 1 .. n + m : Slot(new, k) = Absent
Longer(new, old, blank) ==
    new = IF old = NoColumn THEN NoColumn
          ELSE [old EXCEPT !.data = @ \o blank.data, !.present = @ \o blank.present]

LEMMA Joining ==
    ASSUME NEW n \in Nat, NEW m \in Nat, NEW d, ListOf(d, n), NEW c, ListOf(c, m)
    PROVE  Joined(d \o c, d, c, n, m)
<1> DEFINE x == d \o c
<1>1. IsList(d) /\ Len(d) = n /\ IsList(c) /\ Len(c) = m
  BY DEF ListOf
<1>2. /\ IsList(x) /\ Len(x) = n + m
      /\ \A k \in 1 .. n + m : x[k] = IF k <= n THEN d[k] ELSE c[k - n]
  BY <1>1, Concatenation
<1> HIDE DEF x
<1>3. Joined(x, d, c, n, m)
  BY <1>2 DEF Joined, ListOf
<1> QED
  BY <1>3 DEF x

LEMMA NewData ==
    ASSUME NEW old, NEW n, Wide(old, n), NEW x, NEW y
    PROVE  [old EXCEPT !.data = x, !.present = y] = [type |-> old.type, data |-> x, present |-> y]
<1> DEFINE mid == [old EXCEPT !.data = x]
           new == [old EXCEPT !.data = x, !.present = y]
<1>1. mid = [type |-> old.type, data |-> x, present |-> old.present] /\ new = [mid EXCEPT !.present = y]
  BY DEF Wide
<1> HIDE DEF mid, new
<1>2. new = [type |-> old.type, data |-> x, present |-> y]
  BY <1>1
<1> QED
  BY <1>2 DEF new

LEMMA LongerLists ==
    ASSUME NEW n \in Nat, NEW m \in Nat, NEW old, NEW t, NEW d, NEW q, NEW c, NEW r, NEW x, NEW y,
           old = [type |-> t, data |-> d, present |-> q], old # NoColumn,
           \A k \in 1 .. m : ~r[k], Joined(x, d, c, n, m), Joined(y, q, r, n, m)
    PROVE  Lengthened([type |-> t, data |-> x, present |-> y], old, n, m)
<1> DEFINE new == [type |-> t, data |-> x, present |-> y]
<1>1. /\ new.type = t /\ new.data = x /\ new.present = y
      /\ new = [type |-> new.type, data |-> new.data, present |-> new.present]
      /\ old.data = d /\ old.present = q
  OBVIOUS
<1> HIDE DEF new
<1>2. Wide(new, n + m)
  BY <1>1, Zenon DEF Wide, Joined, ListOf
<1>3. n + m \in Nat
  OBVIOUS
<1>4. \A k : /\ Slot(new, k) = IF new # NoColumn /\ y[k] THEN x[k] ELSE Absent
             /\ Slot(old, k) = IF q[k] THEN d[k] ELSE Absent
  BY <1>1, Zenon DEF Slot
<1>5. ASSUME NEW k \in 1 .. n
      PROVE  Slot(new, k) = Slot(old, k)
  <2>1. n + m # 0
    OBVIOUS
  <2>2. new # NoColumn
    BY <1>2, <1>3, <2>1, WideDomains
  <2>3. x[k] = d[k] /\ y[k] = q[k]
    BY DEF Joined
  <2> QED
    BY <1>4, <2>2, <2>3, Zenon
<1>6. ASSUME NEW k \in n + 1 .. n + m
      PROVE  Slot(new, k) = Absent
  <2>1. k - n \in 1 .. m
    OBVIOUS
  <2>2. y[k] = r[k - n]
    BY DEF Joined
  <2>3. ~r[k - n]
    BY <2>1
  <2>4. ~y[k]
    BY <2>2, <2>3
  <2> QED
    BY <1>4, <2>4, Zenon
<1>7. ColumnOf(new, n + m)
  BY <1>2, Zenon DEF ColumnOf
<1>8. Lengthened(new, old, n, m)
  BY <1>5, <1>6, <1>7 DEF Lengthened
<1> QED
  BY <1>8 DEF new

LEMMA LongerColumn ==
    ASSUME NEW n \in Nat, NEW m \in Nat, NEW old, ColumnOf(old, n), NEW new, Longer(new, old, NewColumn("json", m))
    PROVE  Lengthened(new, old, n, m)
<1>1. CASE old = NoColumn
  <2>1. new = NoColumn
    BY <1>1, Zenon DEF Longer
  <2> QED
    BY <1>1, <2>1 DEF ColumnOf, Slot, Lengthened
<1>2. CASE old # NoColumn
  <2> DEFINE blank == NewColumn("json", m)
             t == old.type
             d == old.data
             q == old.present
             c == blank.data
             r == blank.present
             x == d \o c
             y == q \o r
  <2>1. Wide(old, n)
    BY <1>2, Zenon DEF ColumnOf
  <2>2. ListOf(d, n) /\ ListOf(q, n) /\ old = [type |-> t, data |-> d, present |-> q]
    BY <2>1, Zenon DEF Wide, ListOf
  <2>3. ListOf(c, m) /\ ListOf(r, m)
    BY NewIsWide, Zenon DEF Wide, ListOf
  <2>4. \A k \in 1 .. m : ~r[k]
    BY DEF NewColumn
  <2>5. new = [old EXCEPT !.data = x, !.present = y]
    BY <1>2, Zenon DEF Longer
  <2> HIDE DEF x, y, c, r
  <2>6. new = [type |-> t, data |-> x, present |-> y]
    BY <2>1, <2>5, NewData, Zenon
  <2> HIDE DEF t, d, q
  <2>7. Joined(x, d, c, n, m) /\ Joined(y, q, r, n, m)
    BY <2>2, <2>3, Joining, Zenon DEF x, y
  <2>8. Lengthened([type |-> t, data |-> x, present |-> y], old, n, m)
    BY <1>2, <2>2, <2>4, <2>7, LongerLists, Zenon
  <2> QED
    BY <2>6, <2>8, Zenon
<1> QED
  BY <1>1, <1>2

LEMMA ExtendedCells ==
    ASSUME NEW fr, IsColumnFrame(fr), Even(fr), NEW m \in Nat
    PROVE  LET g == Extend(fr, m)
           IN  /\ IsColumnFrame(g) /\ Even(g) /\ g.n = fr.n + m
               /\ \A f \in ItemFields : Lengthened(g.cols[f], fr.cols[f], fr.n, m)
<1> DEFINE n == fr.n
           blank == NewColumn("json", m)
           Longed(old) == IF old = NoColumn THEN NoColumn
                          ELSE [old EXCEPT !.data = @ \o blank.data, !.present = @ \o blank.present]
           cols == [f \in ItemFields |-> Longed(fr.cols[f])]
           l == n + m
           g == Rebuilt(fr, l, cols)
<1>1. Extend(fr, m) = g
  BY Zenon DEF Extend, Rebuilt
<1>2. n \in Nat /\ l \in Nat
  BY DEF IsColumnFrame
<1>3. AllWide(fr.cols, n)
  BY LayoutOf DEF Even
<1>4. IsColumns(cols) /\ \A f \in ItemFields : Longer(cols[f], fr.cols[f], NewColumn("json", m))
  BY Zenon DEF IsColumns, Longer
<1> HIDE DEF cols, n
<1>5. ASSUME NEW f \in ItemFields
      PROVE  Lengthened(cols[f], fr.cols[f], n, m)
  <2>1. ColumnOf(fr.cols[f], n)
    BY <1>3, Zenon DEF AllWide, ColumnOf
  <2> QED
    BY <1>2, <1>4, <2>1, LongerColumn
<1>6. AllWide(cols, l)
  BY <1>5, Zenon DEF AllWide, ColumnOf, Lengthened
<1> HIDE DEF l
<1>7. IsColumnFrame(g) /\ Even(g) /\ g.n = l /\ g.cols = cols
  BY <1>2, <1>4, <1>6, RebuiltColumns
<1> HIDE DEF g
<1> QED
  BY <1>1, <1>5, <1>7 DEF n, l

(* The fields of an added row: the cells of that row, at the fields F.     *)
Added(a, b, i, F) ==
    /\ IsColumnFrame(b) /\ Even(b) /\ b.n = a.n
    /\ \A k \in 1 .. a.n : \A h \in ItemFields :
          k # i \/ h \notin F => Slot(b.cols[h], k) = Slot(a.cols[h], k)

LEMMA AddedItself ==
    ASSUME NEW fr, IsColumnFrame(fr), Even(fr), NEW i, NEW F
    PROVE  Added(fr, fr, i, F)
BY DEF Added

LEMMA AddedTransitive ==
    ASSUME NEW a, NEW b, NEW c, NEW i, NEW F, Added(a, b, i, F), Added(b, c, i, F)
    PROVE  Added(a, c, i, F)
<1>1. /\ b.n = a.n /\ c.n = b.n /\ IsColumnFrame(c) /\ Even(c)
      /\ \A k \in 1 .. a.n : \A h \in ItemFields : k # i \/ h \notin F => Slot(b.cols[h], k) = Slot(a.cols[h], k)
      /\ \A k \in 1 .. b.n : \A h \in ItemFields : k # i \/ h \notin F => Slot(c.cols[h], k) = Slot(b.cols[h], k)
  BY DEF Added
<1>2. \A k \in 1 .. a.n : \A h \in ItemFields : k # i \/ h \notin F => Slot(c.cols[h], k) = Slot(a.cols[h], k)
  BY <1>1
<1> QED
  BY <1>1, <1>2 DEF Added

LEMMA FieldAdded ==
    ASSUME NEW fr, IsColumnFrame(fr), Even(fr), NEW i, NEW F, NEW f, NEW v, v # Absent => f \in F
    PROVE  Added(fr, AddField(fr, i, f, v).frame, i, F)
<1> DEFINE g == WriteCell(fr, i, f, v)
<1>1. \/ AddField(fr, i, f, v).frame = fr
      \/ v # Absent /\ AddField(fr, i, f, v).frame = g
  BY Zenon, Outcomes DEF AddField
<1>2. Added(fr, fr, i, F)
  BY AddedItself
<1>3. /\ IsColumnFrame(g) /\ Even(g) /\ g.n = fr.n
      /\ \A k \in 1 .. fr.n : \A h \in ItemFields : k # i \/ h # f => Slot(g.cols[h], k) = Slot(fr.cols[h], k)
  BY CellWritten
<1> HIDE DEF g
<1>4. v # Absent => Added(fr, g, i, F)
  BY <1>3 DEF Added
<1> QED
  BY <1>1, <1>2, <1>4

LEMMA RowAdded ==
    ASSUME NEW fr, IsColumnFrame(fr), Even(fr), NEW i, NEW F, NEW row, IsRow(row), Keys(row) \subseteq F, Source \in F,
           NEW name, NEW recall
    PROVE  Added(fr, ColumnAdd(fr, i, row, name, recall).frame, i, F)
<1>0. \E n : n \in Nat /\ \E g : AddRun(g, fr, i, row, name, n) /\ ColumnAdd(fr, i, row, name, recall) = g[n]
  BY AddResult
<1>1. PICK n : n \in Nat /\ \E g : AddRun(g, fr, i, row, name, n) /\ ColumnAdd(fr, i, row, name, recall) = g[n]
  BY <1>0
<1>2. PICK g : AddRun(g, fr, i, row, name, n) /\ ColumnAdd(fr, i, row, name, recall) = g[n]
  BY <1>1
<1>10. n \in Nat
  BY <1>1
<1>11. \A k \in 1 .. Len(ItemOrder) : row[ItemOrder[k]] # Absent => ItemOrder[k] \in F
  <2>1. \A k \in 1 .. Len(ItemOrder) : ItemOrder[k] \in ItemFields
    BY OrderIsList, PipelineAssumption DEF ItemOrder
  <2>2. DOMAIN row = ItemFields
    BY DEF IsRow
  <2> QED
    BY <2>1, <2>2 DEF Keys
<1>12. Len(ItemOrder) \in Nat
  BY ItemOrderIsList, ListDomain
<1> DEFINE Fine(h) == Added(fr, h, i, F)
           P == {k \in Nat : k \in 0 .. n => Fine(g[k].frame)}
<1>3. 0 \in P
  <2>1. Fine(fr)
    BY AddedItself
  <2>2. g[0].frame = fr
    BY <1>2, Outcomes DEF AddRun
  <2> HIDE DEF Fine
  <2> QED
    BY <2>1, <2>2
<1>4. ASSUME NEW x, Fine(x.frame), NEW k \in 1 .. n
      PROVE  Fine(AddNext(x, i, row, name, k).frame)
  <2> DEFINE y == AddNext(x, i, row, name, k)
  <2>1. IsColumnFrame(x.frame) /\ Even(x.frame)
    BY <1>4 DEF Added
  <2>2. \/ y = x
        \/ \E f, v : y = AddField(x.frame, i, f, v) /\ (v # Absent => f \in F)
    <3>1. \/ y = x
          \/ y = AddField(x.frame, i, Source, NameOf(name))
          \/ ~(k > Len(ItemOrder)) /\ y = AddField(x.frame, i, ItemOrder[k], row[ItemOrder[k]])
      BY Zenon DEF AddNext
    <3>2. ~(k > Len(ItemOrder)) => k \in 1 .. Len(ItemOrder)
      BY <1>10, <1>12
    <3> HIDE DEF y
    <3> QED
      BY <1>11, <3>1, <3>2
  <2> HIDE DEF y
  <2>3. ASSUME NEW f, NEW v, y = AddField(x.frame, i, f, v), v # Absent => f \in F
        PROVE  Fine(y.frame)
    <3>1. Added(x.frame, y.frame, i, F)
      BY <2>1, <2>3, FieldAdded
    <3>2. Added(fr, x.frame, i, F)
      BY <1>4
    <3>3. Added(fr, y.frame, i, F)
      BY <3>1, <3>2, AddedTransitive
    <3> QED
      BY <3>3
  <2>4. Fine(y.frame)
    <3> HIDE DEF Fine
    <3> QED
      BY <1>4, <2>2, <2>3
  <2> QED
    BY <2>4 DEF y
<1> HIDE DEF Fine
<1>5. ASSUME NEW k \in 1 .. n, k - 1 \in P
      PROVE  k \in P
  <2>1. Fine(g[k - 1].frame)
    BY <1>10, <1>5
  <2>2. g[k] = AddNext(g[k - 1], i, row, name, k)
    BY <1>10, <1>2 DEF AddRun
  <2>3. Fine(g[k].frame)
    BY <1>4, <2>1, <2>2
  <2> QED
    BY <1>10, <2>3
<1>6. 0 .. n \subseteq P
  <2> HIDE DEF P
  <2> QED
    BY <1>10, <1>3, <1>5, AscentFromZero
<1>7. n \in P
  <2> HIDE DEF P
  <2> QED
    BY <1>10, <1>6
<1>8. Fine(g[n].frame)
  BY <1>10, <1>7
<1> QED
  BY <1>2, <1>8 DEF Fine

(* One part of a recall's output.                                          *)
LEMMA RowsGrow ==
    ASSUME NEW fr, IsFrame(fr), NEW a, NEW F, Reached(fr, a, F), IsRowFrame(a),
           NEW row, IsRow(row), Keys(row) \subseteq F, Source \in F, NEW name, NEW recall
    PROVE  Reached(fr, RowAdd(a, row, name, recall).frame, F)
<1> DEFINE items == a.items
           m == Len(items)
           new == IF recall THEN [row EXCEPT ![Source] = NameOf(name)] ELSE row
           rows == Append(items, new)
           g == [a EXCEPT !.items = rows]
<1>1. /\ a.layout = "row" /\ IsFrame(a) /\ ItemCount(a) = m /\ m \in Nat
      /\ IsList(items) /\ \A k \in 1 .. m : IsRow(items[k])
  BY LayoutOf, CountsOf, ListDomain DEF IsRowFrame, IsFrame
<1>2. RowAdd(a, row, name, recall).frame = a \/ RowAdd(a, row, name, recall).frame = g
  BY Zenon, Outcomes DEF RowAdd
<1>3. IsRow(new) /\ \A f \in ItemFields \ F : new[f] = Absent
  <2>1. \A f \in ItemFields \ F : row[f] = Absent
    BY DEF IsRow, Keys
  <2> QED
    BY <2>1 DEF IsRow
<1> HIDE DEF new, items
<1>4. /\ IsList(rows) /\ Len(rows) = m + 1 /\ rows[m + 1] = new
      /\ \A k \in 1 .. m : rows[k] = items[k]
  BY <1>1, Appending
<1>5. /\ g = [layout |-> "row", common |-> a.common, items |-> rows]
      /\ IsCommon(a.common)
  BY DEF IsRowFrame
<1> HIDE DEF rows, g
<1>6. \A k \in 1 .. m + 1 : IsRow(rows[k])
  <2>1. \A k \in 1 .. m + 1 : k \in 1 .. m \/ k = m + 1
    BY <1>1
  <2> HIDE DEF IsRow, m
  <2> QED
    BY <1>1, <1>3, <1>4, <2>1
<1> HIDE DEF m
<1>7. IsRowFrame(g) /\ g.items = rows /\ g.layout = "row"
  <2> HIDE DEF IsRow, IsList, IsCommon
  <2> QED
    BY <1>4, <1>5, <1>6 DEF IsRowFrame
<1>8. IsFrame(g) /\ ItemCount(g) = m + 1 /\ Sound(g)
  <2>1. IsFrame(g)
    BY <1>7 DEF IsFrame
  <2> QED
    BY <1>4, <1>7, <2>1, CountsOf, RowIsEven DEF Sound
<1>9. ASSUME NEW k \in 1 .. ItemCount(a), NEW f \in ItemFields
      PROVE  Cell(g, k, f) = Cell(a, k, f)
  BY <1>1, <1>4, <1>7 DEF Cell, items
<1>10. ASSUME NEW k \in ItemCount(a) + 1 .. ItemCount(g), NEW f \in ItemFields \ F
       PROVE  Cell(g, k, f) = Absent
  <2>1. k = m + 1
    BY <1>1, <1>8
  <2> QED
    BY <1>3, <1>4, <1>7, <2>1 DEF Cell
<1>11. Reached(fr, g, F)
  <2>1. ItemCount(g) >= ItemCount(a) /\ g.layout = a.layout
    BY <1>1, <1>7, <1>8
  <2> QED
    BY <1>8, <1>9, <1>10, <2>1, ReachedFurther
<1> QED
  BY <1>2, <1>11

LEMMA ColumnsGrow ==
    ASSUME NEW fr, IsFrame(fr), NEW a, NEW F, Reached(fr, a, F), IsColumnFrame(a), Even(a)
    PROVE  /\ \A m \in Nat : Reached(fr, Extend(a, m), F) /\ Extend(a, m).n = a.n + m
           /\ \A i, row, name, recall :
                 IsRow(row) /\ Keys(row) \subseteq F /\ Source \in F /\ i > ItemCount(fr) =>
                    LET g == ColumnAdd(a, i, row, name, recall).frame
                    IN  Reached(fr, g, F) /\ g.n = a.n
<1>1. /\ a.layout # "row" /\ a.layout = "column" /\ IsFrame(a) /\ ItemCount(a) = a.n /\ a.n \in Nat
      /\ ItemCount(fr) \in Nat
  BY LayoutOf, CountsOf DEF IsColumnFrame, IsFrame
<1>2. ASSUME NEW g, IsColumnFrame(g), Even(g)
      PROVE  Sound(g) /\ g.layout = a.layout /\ g.layout # "row" /\ ItemCount(g) = g.n
  <2>1. IsFrame(g)
    BY <1>2 DEF IsFrame
  <2>2. g.layout = "column"
    BY <1>2, LayoutOf
  <2> QED
    BY <1>1, <1>2, <2>1, <2>2, CountsOf DEF Sound
<1>3. ASSUME NEW m \in Nat
      PROVE  Reached(fr, Extend(a, m), F) /\ Extend(a, m).n = a.n + m
  <2> DEFINE g == Extend(a, m)
             n == a.n
  <2>1. /\ IsColumnFrame(g) /\ Even(g) /\ g.n = n + m
        /\ \A f \in ItemFields : Lengthened(g.cols[f], a.cols[f], n, m)
    BY ExtendedCells
  <2> HIDE DEF g
  <2>2. Sound(g) /\ g.layout = a.layout /\ g.layout # "row" /\ ItemCount(g) = n + m
    BY <1>2, <2>1
  <2>3. n \in Nat /\ ItemCount(a) = n
    BY <1>1
  <2> HIDE DEF n
  <2>4. ItemCount(g) >= ItemCount(a)
    BY <2>2, <2>3
  <2>5. \A k \in 1 .. ItemCount(a) : \A f \in ItemFields : Cell(g, k, f) = Cell(a, k, f)
    BY <1>1, <2>1, <2>2, <2>3 DEF Lengthened, Cell
  <2>6. \A k \in ItemCount(a) + 1 .. ItemCount(g) : \A f \in ItemFields \ F : Cell(g, k, f) = Absent
    BY <2>1, <2>2, <2>3 DEF Lengthened, Cell
  <2>7. Reached(fr, g, F)
    BY <2>2, <2>4, <2>5, <2>6, ReachedFurther
  <2> QED
    BY <2>1, <2>7 DEF g, n
<1>4. ASSUME NEW i, NEW row, NEW name, NEW recall,
             IsRow(row) /\ Keys(row) \subseteq F /\ Source \in F /\ i > ItemCount(fr)
      PROVE  LET g == ColumnAdd(a, i, row, name, recall).frame
             IN  Reached(fr, g, F) /\ g.n = a.n
  <2> DEFINE g == ColumnAdd(a, i, row, name, recall).frame
  <2>1. Added(a, g, i, F)
    BY <1>4, RowAdded
  <2> HIDE DEF g
  <2>2. /\ IsColumnFrame(g) /\ Even(g) /\ g.n = a.n
        /\ \A k \in 1 .. a.n : \A h \in ItemFields : k # i \/ h \notin F => Slot(g.cols[h], k) = Slot(a.cols[h], k)
    BY <2>1 DEF Added
  <2>3. Sound(g) /\ g.layout = a.layout /\ g.layout # "row" /\ ItemCount(g) = ItemCount(a)
    BY <1>1, <1>2, <2>2
  <2>4. ASSUME NEW k \in 1 .. ItemCount(a), NEW f \in ItemFields, k <= ItemCount(fr) \/ f \notin F
        PROVE  Cell(g, k, f) = Cell(a, k, f)
    <3>1. k # i \/ f \notin F
      <4>1. CASE k <= ItemCount(fr)
        BY <1>1, <1>4, <4>1
      <4>2. CASE f \notin F
        BY <4>2
      <4> QED
        BY <2>4, <4>1, <4>2
    <3> QED
      BY <1>1, <2>2, <2>3, <3>1 DEF Cell
  <2>5. ItemCount(g) >= ItemCount(a) /\ ItemCount(a) + 1 .. ItemCount(g) = {}
    BY <1>1, <2>3
  <2>6. Reached(fr, g, F)
    BY <2>3, <2>4, <2>5, ReachedFurther
  <2> QED
    BY <2>2, <2>6 DEF g
<1> QED
  BY <1>3, <1>4

(* What an added row needs: fields in F only, and in the column layout a   *)
(* place beyond the rows there were.                                       *)
AddFits(fr, a, part, F) ==
    part.what = "add" =>
        Keys(part.arg.row) \subseteq F /\ (a.layout # "row" => a.n - part.arg.left > ItemCount(fr))
Lengths(a, r, part) ==
    a.layout # "row" => /\ r.frame.n >= a.n
                        /\ part.what = "extend" => r.frame.n = a.n + part.arg

LEMMA PartGrows ==
    ASSUME NEW fr, IsFrame(fr), NEW a, NEW C, NEW F, Source \in F, Reached(fr, a, F),
           NEW part, Fits(part, C, {}, "grows"), AddFits(fr, a, part, F), NEW name, NEW recall
    PROVE  LET r == ApplyPart(a, part, name, recall)
           IN  Reached(fr, r.frame, F) /\ Lengths(a, r, part)
<1> DEFINE r == ApplyPart(a, part, name, recall)
<1>1. Sound(a) /\ IsFrame(a) /\ Even(a)
  BY DEF Reached, Sound
<1>2. /\ a.layout = "row" => IsRowFrame(a)
      /\ a.layout # "row" => IsColumnFrame(a) /\ a.n \in Nat /\ ItemCount(a) = a.n
  BY <1>1, CountsOf DEF IsColumnFrame
<1>3. \/ part.what = "common"
      \/ part.what = "extend" /\ part.arg \in Nat
      \/ part.what = "add" /\ IsRow(part.arg.row)
  BY DEF Fits
<1>4. ASSUME part.what = "common"
      PROVE  Reached(fr, r.frame, F) /\ Lengths(a, r, part)
  <2>1. Fits(part, C, {}, "stays")
    BY <1>4, FitsFewer
  <2>2. Within(a, r.frame, C, {}, "stays")
    BY <1>1, <2>1, PartWithin
  <2> HIDE DEF r
  <2>3. Reached(fr, r.frame, F)
    BY <2>2, ReachedStill
  <2>4. a.layout # "row" => r.frame.n = a.n
    BY <2>2 DEF Within, SameItems
  <2>5. Lengths(a, r, part)
    BY <1>2, <1>4, <2>4 DEF Lengths
  <2> QED
    BY <2>3, <2>5
<1>5. ASSUME part.what = "extend", part.arg \in Nat
      PROVE  Reached(fr, r.frame, F) /\ Lengths(a, r, part)
  <2>1. CASE a.layout = "row"
    <3>1. r.frame = a
      BY <1>5, <2>1, Outcomes DEF ApplyPart, RowPart
    <3> QED
      BY <2>1, <3>1 DEF Lengths
  <2>2. CASE a.layout # "row"
    <3>1. r.frame = Extend(a, part.arg)
      BY <1>5, <2>2, Outcomes DEF ApplyPart, ColumnPart
    <3>2. Reached(fr, Extend(a, part.arg), F) /\ Extend(a, part.arg).n = a.n + part.arg
      BY <1>1, <1>2, <1>5, <2>2, ColumnsGrow
    <3> HIDE DEF r
    <3>3. r.frame.n = a.n + part.arg /\ r.frame.n >= a.n
      BY <1>2, <1>5, <2>2, <3>1, <3>2
    <3> QED
      BY <3>1, <3>2, <3>3 DEF Lengths
  <2> QED
    BY <2>1, <2>2
<1>6. ASSUME part.what = "add", IsRow(part.arg.row)
      PROVE  Reached(fr, r.frame, F) /\ Lengths(a, r, part)
  <2> DEFINE row == part.arg.row
             i == a.n - part.arg.left
  <2>1. Keys(row) \subseteq F /\ (a.layout # "row" => i > ItemCount(fr)) /\ IsRow(row)
    BY <1>6 DEF AddFits
  <2>2. CASE a.layout = "row"
    <3>1. r = RowAdd(a, row, name, recall)
      BY <1>6, <2>2 DEF ApplyPart, RowPart
    <3>2. Reached(fr, RowAdd(a, row, name, recall).frame, F)
      BY <1>2, <2>1, <2>2, RowsGrow
    <3> QED
      BY <2>2, <3>1, <3>2 DEF Lengths
  <2>3. CASE a.layout # "row"
    <3>1. r = ColumnAdd(a, i, row, name, recall)
      BY <1>6, <2>3 DEF ApplyPart, ColumnPart
    <3> DEFINE g == ColumnAdd(a, i, row, name, recall).frame
    <3> HIDE DEF row, i
    <3>2. Reached(fr, g, F) /\ g.n = a.n
      BY <1>1, <1>2, <2>1, <2>3, ColumnsGrow
    <3>3. r.frame = g
      BY <3>1
    <3> HIDE DEF g, r
    <3>4. r.frame.n >= a.n
      BY <1>2, <2>3, <3>2, <3>3
    <3> QED
      BY <1>6, <3>2, <3>3, <3>4 DEF Lengths
  <2> QED
    BY <2>2, <2>3
<1> HIDE DEF r
<1>7. Reached(fr, r.frame, F) /\ Lengths(a, r, part)
  BY <1>3, <1>4, <1>5, <1>6
<1> QED
  BY <1>7 DEF r

(* The rows a list of parts adds come after the room that is made for them. *)
AddsFit(ps, F) ==
    \A k \in 1 .. Len(ps) : ps[k].what = "add" =>
        /\ Keys(ps[k].arg.row) \subseteq F
        /\ \E j \in 1 .. k - 1 : ps[j].what = "extend" /\ ps[k].arg.left < ps[j].arg /\ ps[k].arg.left \in Nat

LEMMA PartsGrow ==
    ASSUME NEW fr, Sound(fr), NEW ps, NEW C, NEW F, Source \in F,
           AllFit(ps, C, {}, "grows"), AddsFit(ps, F), NEW name, NEW recall
    PROVE  Reached(fr, ApplyParts(fr, ps, name, recall).frame, F)
<1> DEFINE n == Len(ps)
<1>1. n \in Nat /\ IsList(ps)
  BY ListDomain DEF AllFit
<1>2. PICK g : PartsRun(g, fr, ps, name, recall, n) /\ ApplyParts(fr, ps, name, recall) = g[n]
  BY <1>1, PartsResult
<1>3. \A k \in 1 .. n : Fits(ps[k], C, {}, "grows")
  BY DEF AllFit
<1>8. IsFrame(fr) /\ ItemCount(fr) \in Nat
  BY CountsOf DEF Sound
<1>9. \A k \in 1 .. n : ps[k].what = "add" =>
        /\ Keys(ps[k].arg.row) \subseteq F
        /\ \E j \in 1 .. k - 1 : ps[j].what = "extend" /\ ps[k].arg.left < ps[j].arg /\ ps[k].arg.left \in Nat
  BY DEF AddsFit
<1>10. \A k \in 1 .. n : ps[k].what = "extend" => ps[k].arg \in Nat
  BY <1>3 DEF Fits
<1> HIDE DEF n
<1> DEFINE Room(a, k) == \A j \in 1 .. k : ps[j].what = "extend" => a.n >= ItemCount(fr) + ps[j].arg
           Fine(r, k) == /\ Reached(fr, r.frame, F)
                         /\ r.error = "none" /\ fr.layout # "row" => Room(r.frame, k)
           P == {k \in Nat : k \in 0 .. n => Fine(g[k], k)}
<1>4. 0 \in P
  <2>1. Reached(fr, fr, F)
    BY ReachedItself
  <2>2. g[0] = Good(fr)
    BY <1>2 DEF PartsRun
  <2>3. \A a : Room(a, 0)
    OBVIOUS
  <2> HIDE DEF Room
  <2> QED
    BY <2>1, <2>2, <2>3, Outcomes
<1>5. ASSUME NEW k \in 1 .. n, k - 1 \in P
      PROVE  k \in P
  <2> DEFINE r == g[k - 1]
             b == g[k]
             a == r.frame
  <2>1. Fine(r, k - 1)
    BY <1>1, <1>5
  <2>2. b = IF r.error # "none" THEN r ELSE ApplyPart(a, ps[k], name, recall)
    BY <1>1, <1>2 DEF PartsRun
  <2>4. CASE r.error # "none"
    <3> HIDE DEF r, b
    <3>1. Fine(b, k)
      BY <2>1, <2>2, <2>4
    <3> QED
      BY <1>1, <3>1 DEF b
  <2>5. CASE r.error = "none"
    <3> HIDE DEF r, b
    <3>1. Reached(fr, a, F) /\ (fr.layout # "row" => Room(a, k - 1)) /\ b = ApplyPart(a, ps[k], name, recall)
      BY <2>1, <2>2, <2>5
    <3> HIDE DEF a
    <3>2. a.layout = fr.layout /\ (a.layout # "row" => a.n \in Nat /\ a.n >= ItemCount(fr))
      <4>1. a.layout = fr.layout /\ IsFrame(a) /\ ItemCount(a) >= ItemCount(fr)
        BY <3>1 DEF Reached, Sound
      <4> QED
        BY <4>1, CountsOf DEF IsColumnFrame
    <3>3. AddFits(fr, a, ps[k], F)
      <4>1. SUFFICES ASSUME ps[k].what = "add"
                     PROVE  /\ Keys(ps[k].arg.row) \subseteq F
                            /\ a.layout # "row" => a.n - ps[k].arg.left > ItemCount(fr)
        BY DEF AddFits
      <4>2. PICK j \in 1 .. k - 1 : ps[j].what = "extend" /\ ps[k].arg.left < ps[j].arg /\ ps[k].arg.left \in Nat
        BY <1>9, <4>1
      <4>3. j \in 1 .. n /\ ps[j].arg \in Nat
        BY <1>1, <1>10, <4>2
      <4>4. a.layout # "row" => a.n >= ItemCount(fr) + ps[j].arg
        BY <3>1, <3>2, <4>2
      <4>5. a.layout # "row" => a.n - ps[k].arg.left > ItemCount(fr)
        BY <1>8, <3>2, <4>2, <4>3, <4>4
      <4> QED
        BY <1>9, <4>1, <4>5
    <3>4. Fits(ps[k], C, {}, "grows")
      BY <1>3
    <3>5. Reached(fr, b.frame, F) /\ Lengths(a, b, ps[k])
      BY <1>8, <3>1, <3>3, <3>4, PartGrows, Zenon
    <3>6. b.frame.layout = fr.layout /\ (fr.layout # "row" => b.frame.n \in Nat)
      <4>1. b.frame.layout = fr.layout /\ IsFrame(b.frame)
        BY <3>5 DEF Reached, Sound
      <4> QED
        BY <4>1, CountsOf DEF IsColumnFrame
    <3>7. ASSUME fr.layout # "row", NEW j \in 1 .. k, ps[j].what = "extend"
          PROVE  b.frame.n >= ItemCount(fr) + ps[j].arg
      <4>1. j \in 1 .. n /\ ps[j].arg \in Nat
        BY <1>1, <1>10, <3>7
      <4>2. b.frame.n >= a.n /\ (ps[k].what = "extend" => b.frame.n = a.n + ps[k].arg)
        BY <3>2, <3>5, <3>7 DEF Lengths
      <4>3. CASE j = k
        BY <1>8, <3>2, <3>7, <4>1, <4>2, <4>3
      <4>4. CASE j # k
        <5>1. j \in 1 .. k - 1
          BY <4>4
        <5>2. a.n >= ItemCount(fr) + ps[j].arg
          BY <3>1, <3>7, <5>1
        <5> QED
          BY <1>8, <3>2, <3>6, <3>7, <4>1, <4>2, <5>2
      <4> QED
        BY <4>3, <4>4
    <3>8. Fine(b, k)
      BY <3>5, <3>7
    <3> QED
      BY <1>1, <3>8 DEF b
  <2> QED
    BY <2>4, <2>5
<1>6. 0 .. n \subseteq P
  <2> HIDE DEF P
  <2> QED
    BY <1>1, <1>4, <1>5, AscentFromZero
<1>7. Fine(g[n], n)
  <2>1. n \in P
    <3> HIDE DEF P
    <3> QED
      BY <1>1, <1>6
  <2> HIDE DEF Fine
  <2> QED
    BY <1>1, <2>1
<1> QED
  BY <1>2, <1>7

NoAdds(ps) == IsList(ps) /\ \A k \in 1 .. Len(ps) : ps[k].what # "add"
Supplied(part, ps, F) ==
    part.what = "add" =>
        /\ Keys(part.arg.row) \subseteq F
        /\ \E j \in 1 .. Len(ps) : ps[j].what = "extend" /\ part.arg.left < ps[j].arg /\ part.arg.left \in Nat

LEMMA AddsAfter ==
    ASSUME NEW F, NEW s, IsList(s), AddsFit(s, F), NEW t, IsList(t), \A k \in 1 .. Len(t) : Supplied(t[k], s, F)
    PROVE  AddsFit(s \o t, F) /\ IsList(s \o t)
<1> DEFINE u == s \o t
           n == Len(s)
<1>1. /\ IsList(u) /\ Len(u) = n + Len(t)
      /\ \A k \in 1 .. n + Len(t) : u[k] = IF k <= n THEN s[k] ELSE t[k - n]
  BY Concatenation
<1>2. n \in Nat /\ Len(t) \in Nat
  BY ListDomain
<1>3. \A k \in 1 .. n : s[k].what = "add" =>
        /\ Keys(s[k].arg.row) \subseteq F
        /\ \E j \in 1 .. k - 1 : s[j].what = "extend" /\ s[k].arg.left < s[j].arg /\ s[k].arg.left \in Nat
  BY DEF AddsFit
<1>4. \A k \in 1 .. Len(t) : t[k].what = "add" =>
        /\ Keys(t[k].arg.row) \subseteq F
        /\ \E j \in 1 .. n : s[j].what = "extend" /\ t[k].arg.left < s[j].arg /\ t[k].arg.left \in Nat
  BY DEF Supplied
<1> HIDE DEF u, n
<1>5. \A k \in 1 .. n : u[k] = s[k]
  BY <1>1, <1>2
<1>6. ASSUME NEW k \in 1 .. Len(u), u[k].what = "add"
      PROVE  /\ Keys(u[k].arg.row) \subseteq F
             /\ \E j \in 1 .. k - 1 : u[j].what = "extend" /\ u[k].arg.left < u[j].arg /\ u[k].arg.left \in Nat
  <2>1. CASE k <= n
    <3>1. k \in 1 .. n /\ u[k] = s[k]
      BY <1>1, <1>2, <2>1
    <3>2. PICK j \in 1 .. k - 1 : s[j].what = "extend" /\ s[k].arg.left < s[j].arg /\ s[k].arg.left \in Nat
      BY <1>3, <1>6, <3>1
    <3>3. j \in 1 .. n /\ u[j] = s[j]
      BY <1>2, <1>5, <3>1
    <3> QED
      BY <1>3, <1>6, <3>1, <3>2, <3>3
  <2>2. CASE ~(k <= n)
    <3>1. k - n \in 1 .. Len(t) /\ u[k] = t[k - n]
      BY <1>1, <1>2, <2>2
    <3>2. t[k - n].what = "add"
      BY <1>6, <3>1
    <3>3. PICK j \in 1 .. n : s[j].what = "extend" /\ t[k - n].arg.left < s[j].arg /\ t[k - n].arg.left \in Nat
      BY <1>4, <3>1, <3>2
    <3>4. j \in 1 .. k - 1 /\ u[j] = s[j]
      BY <1>2, <1>5, <2>2
    <3>5. Keys(t[k - n].arg.row) \subseteq F
      BY <1>4, <3>1, <3>2
    <3> QED
      BY <3>1, <3>3, <3>4, <3>5
  <2> QED
    BY <2>1, <2>2
<1>7. AddsFit(u, F)
  BY <1>6 DEF AddsFit
<1> QED
  BY <1>1, <1>7 DEF u

LEMMA NoAddsAfter ==
    ASSUME NEW F, NEW s, IsList(s), AddsFit(s, F), NEW t, NoAdds(t)
    PROVE  AddsFit(s \o t, F) /\ IsList(s \o t)
<1>1. IsList(t) /\ \A k \in 1 .. Len(t) : Supplied(t[k], s, F)
  BY DEF NoAdds, Supplied
<1> QED
  BY <1>1, AddsAfter

LEMMA NoAddsConcatenation ==
    ASSUME NEW s, NoAdds(s), NEW t, NoAdds(t)
    PROVE  NoAdds(s \o t)
<1> DEFINE u == s \o t
<1>1. IsList(u) /\ \A k \in 1 .. Len(u) : \/ \E j \in 1 .. Len(s) : u[k] = s[j]
                                        \/ \E j \in 1 .. Len(t) : u[k] = t[j]
  BY ConcatenationElements DEF NoAdds
<1> HIDE DEF u
<1>2. NoAdds(u)
  BY <1>1 DEF NoAdds
<1> QED
  BY <1>2 DEF u

LEMMA NoAddsMap ==
    ASSUME NEW s, IsList(s), NEW p, p = [k \in DOMAIN s |-> p[k]], \A k \in 1 .. Len(s) : p[k].what # "add"
    PROVE  NoAdds(p)
<1>1. Len(s) \in Nat /\ DOMAIN s = 1 .. Len(s)
  BY ListDomain
<1>2. p = [k \in 1 .. Len(s) |-> p[k]]
  BY <1>1
<1>3. IsList(p) /\ Len(p) = Len(s)
  BY <1>1, <1>2, FunctionIsList
<1> QED
  BY <1>3 DEF NoAdds

LEMMA OneIsList ==
    ASSUME NEW x
    PROVE  IsList(<<x>>) /\ Len(<<x>>) = 1 /\ <<x>>[1] = x
<1> DEFINE s == <<x>>
<1>1. s = [k \in 1 .. 1 |-> s[k]] /\ s[1] = x
  OBVIOUS
<1> HIDE DEF s
<1>2. 1 \in Nat
  OBVIOUS
<1>3. IsList(s) /\ Len(s) = 1 /\ s[1] = x
  BY <1>1, <1>2, FunctionIsList
<1> QED
  BY <1>3, Zenon DEF s

LEMMA NoAddsOne ==
    ASSUME NEW part, part.what # "add"
    PROVE  NoAdds(<<part>>)
<1> DEFINE s == <<part>>
<1>1. IsList(s) /\ Len(s) = 1 /\ s[1] = part
  BY OneIsList, Zenon
<1> HIDE DEF s
<1>2. NoAdds(s)
  BY <1>1 DEF NoAdds
<1> QED
  BY <1>2 DEF s

LEMMA NoAddsNone == NoAdds(<<>>)
BY EmptyIsList DEF NoAdds

LEMMA PartsAdd ==
    ASSUME NEW out, IsOutput(out), NEW F, WrittenOnAdded(out) \subseteq F
    PROVE  AddsFit(Parts(out), F)
<1> DEFINE p1 == [k \in DOMAIN CommonOrder |->
                     Part("common", [field |-> CommonOrder[k], value |-> out.common_writes[CommonOrder[k]]])]
           p2 == [k \in DOMAIN out.item_writes |-> Part("item", out.item_writes[k])]
           p3 == [k \in DOMAIN out.column_writes |-> Part("column", out.column_writes[k])]
           p4 == IF out.removed_items # {} THEN <<Part("remove", out.removed_items)>> ELSE <<>>
           p5 == IF out.has_item_order THEN <<Part("order", out.item_order)>> ELSE <<>>
           p6 == IF out.added_items # <<>> THEN <<Part("extend", Len(out.added_items))>> ELSE <<>>
           p7 == [k \in DOMAIN out.added_items |->
                     Part("add", [left |-> Len(out.added_items) - k, row |-> out.added_items[k]])]
           s5 == p1 \o p2 \o p3 \o p4 \o p5
           s6 == s5 \o p6
           rows == out.added_items
<1>1. Parts(out) = s6 \o p7
  BY Zenon DEF Parts
<1>2. \A what, arg : Part(what, arg).what = what /\ Part(what, arg).arg = arg
  BY DEF Part
<1>3. NoAdds(p1)
  <2>1. IsList(CommonOrder)
    BY OrderIsList, PipelineAssumption DEF CommonOrder
  <2>2. p1 = [k \in DOMAIN CommonOrder |-> p1[k]]
    OBVIOUS
  <2>3. \A k \in 1 .. Len(CommonOrder) : p1[k].what # "add"
    BY <1>2, <2>1, ListDomain
  <2> HIDE DEF p1
  <2> QED
    BY <2>1, <2>2, <2>3, NoAddsMap
<1>4. NoAdds(p2)
  <2>1. IsList(out.item_writes)
    BY DEF IsOutput
  <2>2. p2 = [k \in DOMAIN out.item_writes |-> p2[k]]
    OBVIOUS
  <2>3. \A k \in 1 .. Len(out.item_writes) : p2[k].what # "add"
    BY <1>2, <2>1, ListDomain
  <2> HIDE DEF p2
  <2> QED
    BY <2>1, <2>2, <2>3, NoAddsMap
<1>5. NoAdds(p3)
  <2>1. IsList(out.column_writes)
    BY DEF IsOutput
  <2>2. p3 = [k \in DOMAIN out.column_writes |-> p3[k]]
    OBVIOUS
  <2>3. \A k \in 1 .. Len(out.column_writes) : p3[k].what # "add"
    BY <1>2, <2>1, ListDomain
  <2> HIDE DEF p3
  <2> QED
    BY <2>1, <2>2, <2>3, NoAddsMap
<1>6. NoAdds(p4) /\ NoAdds(p5) /\ NoAdds(p6)
  <2>1. ASSUME NEW what, what # "add", NEW arg
        PROVE  NoAdds(<<Part(what, arg)>>)
    BY <1>2, <2>1, NoAddsOne
  <2>2. "remove" # "add" /\ "order" # "add" /\ "extend" # "add"
    OBVIOUS
  <2> QED
    BY <2>1, <2>2, NoAddsNone, Zenon
<1> HIDE DEF p1, p2, p3, p4, p5
<1>7. NoAdds(s5)
  BY <1>3, <1>4, <1>5, <1>6, NoAddsConcatenation
<1> HIDE DEF s5
<1>8. AddsFit(s6, F) /\ IsList(s6)
  <2>1. AddsFit(s5, F) /\ IsList(s5)
    BY <1>7 DEF NoAdds, AddsFit
  <2> HIDE DEF p6
  <2> QED
    BY <1>6, <2>1, NoAddsAfter
<1>9. /\ IsList(rows) /\ Len(rows) \in Nat /\ DOMAIN rows = 1 .. Len(rows)
  BY ListDomain DEF IsOutput
<1>10. /\ IsList(p7) /\ Len(p7) = Len(rows)
       /\ \A k \in 1 .. Len(rows) : p7[k].what = "add" /\ p7[k].arg.left = Len(rows) - k /\ p7[k].arg.row = rows[k]
  <2>1. p7 = [k \in 1 .. Len(rows) |-> p7[k]]
    BY <1>9
  <2>2. \A k \in 1 .. Len(rows) : p7[k].what = "add" /\ p7[k].arg.left = Len(rows) - k /\ p7[k].arg.row = rows[k]
    BY <1>9 DEF Part
  <2> HIDE DEF p7, rows
  <2> QED
    BY <1>9, <2>1, <2>2, FunctionIsList
<1>11. ASSUME NEW k \in 1 .. Len(rows)
       PROVE  Keys(rows[k]) \subseteq F
  <2>1. rows[k] \in ToSet(rows)
    BY <1>9 DEF ToSet
  <2> QED
    BY <2>1 DEF WrittenOnAdded
<1>12. rows # <<>> => \E j \in 1 .. Len(s6) : s6[j] = Part("extend", Len(rows))
  <2> SUFFICES ASSUME rows # <<>>
               PROVE  \E j \in 1 .. Len(s6) : s6[j] = Part("extend", Len(rows))
    OBVIOUS
  <2> DEFINE x == Part("extend", Len(rows))
             e == <<x>>
  <2>1. p6 = e
    BY Zenon
  <2>2. IsList(e) /\ Len(e) = 1 /\ e[1] = x
    BY OneIsList, Zenon
  <2>3. IsList(s5) /\ Len(s5) \in Nat
    BY <1>7, ListDomain DEF NoAdds
  <2> HIDE DEF x, e
  <2> DEFINE l == Len(s5)
             w == s5 \o e
  <2>4. Len(w) = l + 1 /\ \A k \in 1 .. l + 1 : w[k] = IF k <= l THEN s5[k] ELSE e[k - l]
    BY <2>2, <2>3, Concatenation
  <2>5. s6 = w
    BY <2>1
  <2> HIDE DEF l, w, s6
  <2>6. l \in Nat
    BY <2>3 DEF l
  <2>7. l + 1 \in 1 .. Len(w) /\ w[l + 1] = x
    <3>1. l + 1 \in 1 .. l + 1 /\ ~(l + 1 <= l) /\ (l + 1) - l = 1
      BY <2>6
    <3> QED
      BY <2>2, <2>4, <2>6, <3>1
  <2> QED
    BY <2>5, <2>7 DEF x
<1> HIDE DEF s6, p7, rows, p6
<1>13. \A k \in 1 .. Len(p7) : Supplied(p7[k], s6, F)
  <2> SUFFICES ASSUME NEW k \in 1 .. Len(rows)
               PROVE  Supplied(p7[k], s6, F)
    BY <1>10
  <2>1. rows # <<>>
    BY <1>9, EmptyIsList
  <2>2. PICK j \in 1 .. Len(s6) : s6[j] = Part("extend", Len(rows))
    BY <1>12, <2>1
  <2>3. s6[j].what = "extend" /\ s6[j].arg = Len(rows)
    BY <1>2, <2>2
  <2>4. p7[k].arg.left < s6[j].arg /\ p7[k].arg.left \in Nat
    BY <1>9, <1>10, <2>3
  <2>5. Keys(p7[k].arg.row) \subseteq F
    BY <1>10, <1>11
  <2> QED
    BY <2>3, <2>4, <2>5 DEF Supplied
<1>14. AddsFit(s6 \o p7, F) /\ IsList(s6 \o p7)
  BY <1>8, <1>10, <1>13, AddsAfter
<1> QED
  BY <1>1, <1>14

---------------------------------------------------------------------------
(* What a caller would see of a frame, and what an operator of each type   *)
(* makes of it.                                                            *)

TableOf(t, fr) ==
    /\ IsList(t) /\ Len(t) = ItemCount(fr) /\ ItemCount(fr) \in Nat /\ DOMAIN t = 1 .. ItemCount(fr)
    /\ \A k \in 1 .. ItemCount(fr) :
          t[k] = [f \in ItemFields |-> t[k][f]] /\ \A f \in ItemFields : t[k][f] = Cell(fr, k, f)

LEMMA Tables ==
    ASSUME NEW fr, IsFrame(fr)
    PROVE  TableOf(ToResult(fr).items, fr)
<1>1. CASE fr.layout = "row"
  <2> DEFINE t == fr.items
  <2>1. ToResult(fr).items = t
    BY <1>1 DEF ToResult, RowResult
  <2>2. IsList(t) /\ Len(t) = ItemCount(fr) /\ ItemCount(fr) \in Nat /\ \A k \in 1 .. Len(t) : IsRow(t[k])
    BY <1>1, CountsOf DEF IsRowFrame
  <2>3. \A k, f : Cell(fr, k, f) = t[k][f]
    BY <1>1 DEF Cell
  <2> HIDE DEF t
  <2>4. DOMAIN t = 1 .. ItemCount(fr)
    BY <2>2, ListDomain
  <2>5. \A k \in 1 .. ItemCount(fr) : t[k] = [f \in ItemFields |-> t[k][f]]
    BY <2>2, Zenon DEF IsRow
  <2>6. TableOf(t, fr)
    BY <2>2, <2>3, <2>4, <2>5, Zenon DEF TableOf
  <2> QED
    BY <2>1, <2>6
<1>2. CASE fr.layout # "row"
  <2> DEFINE n == fr.n
             Row(i) == [f \in ItemFields |-> IF ColumnHas(fr, i, f) THEN ColumnItem(fr, i, f) ELSE Absent]
             t == [i \in 1 .. n |-> Row(i)]
  <2>1. ToResult(fr).items = t
    BY <1>2 DEF ToResult, ColumnResult
  <2>2. n \in Nat /\ ItemCount(fr) = n
    BY <1>2, CountsOf DEF IsColumnFrame
  <2> HIDE DEF n
  <2>3. \A k : Row(k) = [f \in ItemFields |-> Row(k)[f]] /\ \A f \in ItemFields : Row(k)[f] = Cell(fr, k, f)
    BY <1>2 DEF ColumnHas, ColumnItem, Cell, Slot
  <2> HIDE DEF Row
  <2>4. t = [i \in 1 .. n |-> t[i]] /\ DOMAIN t = 1 .. n /\ \A i \in 1 .. n : t[i] = Row(i)
    OBVIOUS
  <2> HIDE DEF t
  <2>5. IsList(t) /\ Len(t) = n
    BY <2>2, <2>4, FunctionIsList
  <2>6. TableOf(t, fr)
    BY <2>2, <2>3, <2>4, <2>5, Zenon DEF TableOf
  <2> QED
    BY <2>1, <2>6
<1> QED
  BY <1>1, <1>2

(* Rows that agree in every field, but for the fields F.                   *)
LEMMA SameErased ==
    ASSUME NEW r, NEW s, NEW F, \A f \in ItemFields \ F : r[f] = s[f]
    PROVE  Erased(r, F) = Erased(s, F)
BY DEF Erased

LEMMA TurnedTables ==
    ASSUME NEW a, IsFrame(a), NEW b, NEW F, NEW way, Turned(a, b, F, way),
           NEW old, TableOf(old, a), NEW new, TableOf(new, b)
    PROVE  /\ way = "stays" => SameBut(new, old, F)
           /\ way = "stays" /\ F = {} => new = old
           /\ way = "thins" => Thinned(old, new, F)
           /\ way = "permutes" /\ F = {} => Permuted(old, new)
<1> DEFINE n == ItemCount(a)
           m == ItemCount(b)
<1>1. PICK p : Placing(p, m, n, way) /\ SameCells(a, b, F, p)
  BY DEF Turned
<1>2. /\ n \in Nat /\ Len(old) = n /\ DOMAIN old = 1 .. n /\ old = [k \in 1 .. n |-> old[k]]
      /\ \A k \in 1 .. n : old[k] = [f \in ItemFields |-> old[k][f]] /\ \A f \in ItemFields : old[k][f] = Cell(a, k, f)
  BY DEF TableOf, IsList
<1>3. /\ m \in Nat /\ Len(new) = m /\ DOMAIN new = 1 .. m /\ new = [k \in 1 .. m |-> new[k]]
      /\ \A k \in 1 .. m : new[k] = [f \in ItemFields |-> new[k][f]] /\ \A f \in ItemFields : new[k][f] = Cell(b, k, f)
  BY DEF TableOf, IsList
<1>4. \A k \in 1 .. m : \A f \in ItemFields \ F : Cell(b, k, f) = Cell(a, p[k], f)
  BY <1>1, Zenon DEF SameCells
<1>5. p \in [1 .. m -> 1 .. n]
  BY <1>1, Zenon DEF Placing
<1> HIDE DEF n, m
<1> DEFINE drawn == Pick(old, p)
<1>6. drawn = [k \in 1 .. m |-> old[p[k]]]
  BY <1>5 DEF Pick
<1>12. DOMAIN drawn = 1 .. m /\ drawn = [k \in 1 .. m |-> drawn[k]] /\ \A k \in 1 .. m : drawn[k] = old[p[k]]
  BY <1>6
<1> HIDE DEF drawn
<1>7. Len(drawn) = m
  BY <1>3, <1>12, FunctionIsList
<1>8. ASSUME NEW k \in 1 .. m
      PROVE  /\ p[k] \in 1 .. n /\ \A f \in ItemFields \ F : new[k][f] = old[p[k]][f]
             /\ Erased(new[k], F) = Erased(drawn[k], F)
  <2>1. p[k] \in 1 .. n
    BY <1>5
  <2>2. \A f \in ItemFields \ F : new[k][f] = old[p[k]][f]
    BY <1>2, <1>3, <1>4, <2>1
  <2> QED
    BY <1>12, <2>1, <2>2, SameErased
<1>9. SameBut(new, drawn, F)
  BY <1>3, <1>7, <1>8, Zenon DEF SameBut
<1>10. F = {} => new = drawn
  <2> SUFFICES ASSUME F = {}
               PROVE  new = drawn
    OBVIOUS
  <2>1. ASSUME NEW k \in 1 .. m
        PROVE  new[k] = drawn[k]
    <3>1. p[k] \in 1 .. n /\ \A f \in ItemFields : new[k][f] = old[p[k]][f]
      BY <1>8
    <3>2. old[p[k]] = [f \in ItemFields |-> old[p[k]][f]] /\ new[k] = [f \in ItemFields |-> new[k][f]]
      BY <1>2, <1>3, <3>1
    <3>3. new[k] = old[p[k]]
      BY <3>1, <3>2
    <3> QED
      BY <1>12, <3>3
  <2> QED
    BY <1>3, <1>12, <2>1
<1>11. way = "stays" => drawn = old
  <2> SUFFICES ASSUME way = "stays"
               PROVE  drawn = old
    OBVIOUS
  <2>1. m = n /\ \A k \in 1 .. m : p[k] = k
    BY <1>1 DEF Placing
  <2>2. old = [k \in 1 .. n |-> old[k]] /\ drawn = [k \in 1 .. n |-> drawn[k]]
    BY <1>2, <1>12, <2>1, Zenon
  <2>3. \A k \in 1 .. n : drawn[k] = old[k]
    BY <1>12, <2>1
  <2> QED
    BY <2>2, <2>3
<1>13. way = "thins" => Thinned(old, new, F)
  <2> SUFFICES ASSUME way = "thins"
               PROVE  Thinned(old, new, F)
    OBVIOUS
  <2>1. Ascending(p)
    BY <1>1 DEF Placing
  <2>2. SameBut(new, Pick(old, p), F)
    BY <1>9 DEF drawn
  <2>3. p \in [1 .. Len(new) -> 1 .. Len(old)]
    BY <1>2, <1>3, <1>5
  <2> QED
    BY <2>1, <2>2, <2>3 DEF Thinned
<1>14. way = "permutes" /\ F = {} => Permuted(old, new)
  <2> SUFFICES ASSUME way = "permutes", F = {}
               PROVE  Permuted(old, new)
    OBVIOUS
  <2>1. m = n /\ \A i, j \in 1 .. m : p[i] = p[j] => i = j
    BY <1>1, Zenon DEF Placing
  <2>2. DOMAIN p = 1 .. m
    BY <1>5
  <2>3. IsInjective(p)
    BY <2>1, <2>2, Zenon DEF IsInjective
  <2>4. p \in [1 .. Len(old) -> 1 .. Len(old)]
    BY <1>2, <1>5, <2>1
  <2>5. new = Pick(old, p)
    BY <1>10 DEF drawn
  <2> QED
    BY <2>3, <2>4, <2>5 DEF Permuted
<1> QED
  BY <1>9, <1>10, <1>11, <1>13, <1>14

LEMMA ReachedTables ==
    ASSUME NEW a, NEW b, NEW F, Reached(a, b, F), NEW old, TableOf(old, a), NEW new, TableOf(new, b)
    PROVE  Grown(old, new, F)
<1> DEFINE n == ItemCount(a)
           m == ItemCount(b)
<1>1. /\ m >= n
      /\ \A k \in 1 .. n : \A f \in ItemFields : Cell(b, k, f) = Cell(a, k, f)
      /\ \A k \in n + 1 .. m : \A f \in ItemFields \ F : Cell(b, k, f) = Absent
  BY DEF Reached
<1>2. /\ n \in Nat /\ Len(old) = n
      /\ \A k \in 1 .. n : old[k] = [f \in ItemFields |-> old[k][f]] /\ \A f \in ItemFields : old[k][f] = Cell(a, k, f)
  BY DEF TableOf
<1>3. /\ m \in Nat /\ Len(new) = m
      /\ \A k \in 1 .. m : new[k] = [f \in ItemFields |-> new[k][f]] /\ \A f \in ItemFields : new[k][f] = Cell(b, k, f)
  BY DEF TableOf
<1> HIDE DEF n, m
<1>4. ASSUME NEW k \in 1 .. n
      PROVE  new[k] = old[k]
  <2>1. k \in 1 .. m
    BY <1>1, <1>2, <1>3
  <2>2. \A f \in ItemFields : new[k][f] = old[k][f]
    BY <1>1, <1>2, <1>3, <2>1
  <2>3. new[k] = [f \in ItemFields |-> new[k][f]] /\ old[k] = [f \in ItemFields |-> old[k][f]]
    BY <1>2, <1>3, <2>1
  <2> QED
    BY <2>2, <2>3
<1>5. ASSUME NEW k \in n + 1 .. m
      PROVE  Erased(new[k], F) = BlankItem
  <2>1. k \in 1 .. m
    BY <1>2, <1>3
  <2>2. \A f \in ItemFields \ F : new[k][f] = Absent
    BY <1>1, <1>3, <2>1
  <2> QED
    BY <2>2 DEF Erased, BlankItem
<1> QED
  BY <1>1, <1>2, <1>3, <1>4, <1>5 DEF Grown

(* What each type of operator does to the rows, and in which fields.       *)
Turning(op) == CASE op.operator_type \in {"transform", "observe"} -> "stays"
                 [] op.operator_type \in {"filter", "merge"} -> "thins"
                 [] op.operator_type = "reorder" -> "permutes"
                 [] OTHER -> "grows"
Rewritten(op) == IF op.operator_type \in {"transform", "filter", "merge"}
                 THEN op.item_output \cup (IF SourceRewrite(op) THEN {Source} ELSE {}) ELSE {}
Changed(op, fr, g) == IF op.operator_type = "recall" THEN Reached(fr, g, op.item_output \cup {Source})
                      ELSE Turned(fr, g, Rewritten(op), Turning(op))
OfSomeType(op) == op.operator_type \in {"recall", "transform", "filter", "merge", "reorder", "observe"}

LEMMA TypesOf ==
    ASSUME NEW op, WellFormed(op)
    PROVE  OfSomeType(op)
BY DEF WellFormed, Allowed, OfSomeType

LEMMA ChangedPermitted ==
    ASSUME NEW op, OfSomeType(op), NEW a, IsFrame(a), NEW b, IsFrame(b), Changed(op, a, b)
    PROVE  Permitted(op, ToResult(a).items, ToResult(b).items)
<1> DEFINE old == ToResult(a).items
           new == ToResult(b).items
           writes == op.item_output \cup (IF SourceRewrite(op) THEN {Source} ELSE {})
           way == Turning(op)
           F == Rewritten(op)
<1>1. TableOf(old, a) /\ TableOf(new, b)
  BY Tables
<1> HIDE DEF old, new
<1>2. op.operator_type = "recall" => Grown(old, new, op.item_output \cup {Source})
  BY <1>1, ReachedTables DEF Changed
<1>3. op.operator_type # "recall" =>
        /\ way = "stays" => SameBut(new, old, F)
        /\ way = "stays" /\ F = {} => new = old
        /\ way = "thins" => Thinned(old, new, F)
        /\ way = "permutes" /\ F = {} => Permuted(old, new)
  <2> SUFFICES ASSUME op.operator_type # "recall"
               PROVE  /\ way = "stays" => SameBut(new, old, F)
                      /\ way = "stays" /\ F = {} => new = old
                      /\ way = "thins" => Thinned(old, new, F)
                      /\ way = "permutes" /\ F = {} => Permuted(old, new)
    OBVIOUS
  <2>1. Turned(a, b, F, way)
    BY Zenon DEF Changed
  <2> HIDE DEF F, way
  <2> QED
    BY <1>1, <2>1, TurnedTables
<1>4. /\ op.operator_type = "transform" => way = "stays" /\ F = writes
      /\ op.operator_type = "observe" => way = "stays" /\ F = {}
      /\ op.operator_type \in {"filter", "merge"} => way = "thins" /\ F = writes
      /\ op.operator_type = "reorder" => way = "permutes" /\ F = {}
  BY DEF Turning, Rewritten
<1> HIDE DEF way, F, writes
<1>5. /\ op.operator_type = "transform" => SameBut(new, old, writes)
      /\ op.operator_type \in {"filter", "merge"} => Thinned(old, new, writes)
      /\ op.operator_type = "reorder" => Permuted(old, new)
      /\ op.operator_type = "observe" => new = old
  BY <1>3, <1>4
<1>6. Permitted(op, old, new)
  BY <1>2, <1>5 DEF Permitted, OfSomeType, writes
<1> QED
  BY <1>6 DEF old, new

LEMMA ChangedItself ==
    ASSUME NEW op, NEW fr, Sound(fr)
    PROVE  Changed(op, fr, fr)
<1>1. IsFrame(fr)
  BY DEF Sound
<1>2. \A F : Reached(fr, fr, F)
  BY ReachedItself
<1>3. \A F, way : Turned(fr, fr, F, way)
  BY <1>1, TurnedStill
<1> QED
  BY <1>2, <1>3 DEF Changed

LEMMA ChangedIsSound ==
    ASSUME NEW op, NEW a, NEW b, Changed(op, a, b)
    PROVE  Sound(b) /\ IsFrame(b) /\ Even(b)
BY DEF Changed, Reached, Turned, Sound

(* A type allows no other methods than its own.                            *)
LEMMA Uncalled ==
    ASSUME NEW op, NEW out, ValidType(op, out)
    PROVE  LET A == Allowed[op.operator_type]
           IN  /\ "AddItem" \notin A => out.added_items = <<>>
               /\ "RemoveItem" \notin A => out.removed_items = {}
               /\ "SetItemOrder" \notin A => ~out.has_item_order
               /\ "SetItem" \notin A => WrittenOnExisting(out) = {}
<1> DEFINE A == Allowed[op.operator_type]
<1>1. \A m \in Methods(out) : m \in A
  BY DEF ValidType
<1> HIDE DEF A
<1>2. /\ "AddItem" \notin A => out.added_items = <<>>
      /\ "RemoveItem" \notin A => out.removed_items = {}
      /\ "SetItemOrder" \notin A => ~out.has_item_order
  BY <1>1, MethodsCalled
<1>3. out.item_writes # <<>> \/ out.column_writes # <<>> => "SetItem" \in Methods(out)
  BY DEF Methods
<1>4. "SetItem" \notin A => out.item_writes = <<>> /\ out.column_writes = <<>>
  BY <1>1, <1>3
<1>5. ToSet(<<>>) = {}
  BY DEF ToSet
<1>6. out.item_writes = <<>> /\ out.column_writes = <<>> => WrittenOnExisting(out) = {}
  BY <1>5 DEF WrittenOnExisting
<1> QED
  BY <1>2, <1>4, <1>6 DEF A

LEMMA TypesAllow ==
    ASSUME NEW op, OfSomeType(op)
    PROVE  LET A == Allowed[op.operator_type]
           IN  /\ op.operator_type # "recall" => "AddItem" \notin A
               /\ op.operator_type \notin {"filter", "merge"} => "RemoveItem" \notin A
               /\ op.operator_type # "reorder" => "SetItemOrder" \notin A
               /\ op.operator_type \notin {"transform", "merge"} => "SetItem" \notin A
BY DEF Allowed, OfSomeType

LEMMA AppliedChanged ==
    ASSUME NEW fr, Sound(fr), NEW op, OfSomeType(op), NEW i, NEW out, IsOutput(out)
    PROVE  Changed(op, fr, Applied(fr, op, i, out).frame)
<1>1. Changed(op, fr, fr)
  BY ChangedItself
<1>2. CASE ~ValidType(op, out)
  BY <1>1, <1>2, Outcomes DEF Applied
<1>3. CASE ValidType(op, out) /\ ~ValidDeclared(op, out)
  BY <1>1, <1>3, Outcomes DEF Applied
<1>4. CASE ValidType(op, out) /\ ValidDeclared(op, out)
  <2> DEFINE recall == op.operator_type = "recall"
             C == op.common_output
             ps == Parts(out)
             writes == op.item_output \cup (IF SourceRewrite(op) THEN {Source} ELSE {})
  <2>1. Applied(fr, op, i, out) = ApplyParts(fr, ps, i, recall)
    BY <1>4, Zenon DEF Applied, ApplyOutput
  <2>2. /\ Keys(out.common_writes) \subseteq C
        /\ WrittenOnExisting(out) \subseteq writes
        /\ WrittenOnAdded(out) \subseteq op.item_output
    BY <1>4 DEF ValidDeclared
  <2>3. /\ op.operator_type # "recall" => out.added_items = <<>>
        /\ op.operator_type \notin {"filter", "merge"} => out.removed_items = {}
        /\ op.operator_type # "reorder" => ~out.has_item_order
        /\ op.operator_type \notin {"transform", "merge"} => WrittenOnExisting(out) = {}
    BY <1>4, Uncalled, TypesAllow
  <2>4. CASE op.operator_type = "recall"
    <3> DEFINE F == op.item_output \cup {Source}
    <3>1. AllFit(ps, C, {}, "grows")
      <4>1. out.removed_items = {} /\ ~out.has_item_order /\ WrittenOnExisting(out) \subseteq {}
        BY <2>3, <2>4
      <4> QED
        BY <2>2, <4>1, PartsFit
    <3>2. AddsFit(ps, F)
      <4>1. WrittenOnAdded(out) \subseteq F
        BY <2>2
      <4> HIDE DEF F
      <4> QED
        BY <4>1, PartsAdd
    <3>3. Source \in F
      OBVIOUS
    <3> HIDE DEF F, C, ps, recall
    <3>4. Reached(fr, ApplyParts(fr, ps, i, recall).frame, F)
      BY <3>1, <3>2, <3>3, PartsGrow
    <3> QED
      BY <2>1, <2>4, <3>4 DEF Changed, F
  <2>5. CASE op.operator_type # "recall"
    <3> DEFINE F == Rewritten(op)
               way == Turning(op)
    <3>1. /\ way \in {"stays", "thins", "permutes"}
          /\ op.operator_type \in {"filter", "merge"} => way = "thins"
          /\ op.operator_type = "reorder" => way = "permutes"
      BY <2>5 DEF Turning, OfSomeType
    <3>2. WrittenOnExisting(out) \subseteq F
      BY <2>2, <2>3 DEF Rewritten
    <3>3. /\ out.removed_items # {} => way = "thins"
          /\ out.has_item_order => way = "permutes"
          /\ out.added_items = <<>>
      BY <2>3, <2>5, <3>1
    <3> HIDE DEF F, way, writes
    <3>4. AllFit(ps, C, F, way)
      BY <2>2, <3>2, <3>3, PartsFit
    <3> HIDE DEF C, ps, recall
    <3>5. Turned(fr, ApplyParts(fr, ps, i, recall).frame, F, way)
      BY <3>1, <3>4, PartsTurned
    <3> QED
      BY <2>1, <2>5, <3>5 DEF Changed, F, way
  <2> QED
    BY <2>4, <2>5
<1> QED
  BY <1>2, <1>3, <1>4

---------------------------------------------------------------------------
(* No step ends a node other than its own, and its own only with such a    *)
(* change.                                                                 *)

SameCommon(op, fr, g) == \A f \in CommonFields \ op.common_output : g.common[f] = fr.common[f]

(* A step of a node goes on with it, settles its fate or leaves it.        *)
Decided == Caught \cup {"ended"}
OutcomeInv ==
    /\ outcome = [i \in Nodes |-> outcome[i]]
    /\ \A i \in Nodes : outcome[i] # "none" <=> phase[i] \in Decided
GoesOnFrom(i) ==
    /\ phase[i] \notin Decided /\ frame' = frame /\ outcome' = outcome
    /\ \E p \in Busy : phase' = [phase EXCEPT ![i] = p]
Decides(i) ==
    /\ phase[i] \notin Decided
    /\ \E p \in Decided : phase' = [phase EXCEPT ![i] = p]
    /\ \E how : how # "none" /\ outcome' = [outcome EXCEPT ![i] = how]
    /\ Changed(plan[i], frame, frame') /\ SameCommon(plan[i], frame, frame')
Leaves(i) ==
    /\ phase[i] \in Caught /\ frame' = frame /\ outcome' = outcome
    /\ \E p \in Decided : phase' = [phase EXCEPT ![i] = p]

LEMMA ThrowDecides ==
    ASSUME PipelineInv, Even(frame), NEW i \in Nodes, phase[i] \notin Decided,
           NEW how, how # "none", Throw(i, how),
           Changed(plan[i], frame, frame'), SameCommon(plan[i], frame, frame')
    PROVE  Decides(i)
<1>1. "caught" \in Decided
  BY DEF Decided, Caught
<1>2. phase' = [phase EXCEPT ![i] = "caught"] /\ outcome' = [outcome EXCEPT ![i] = how]
  BY Zenon DEF Throw
<1> QED
  BY <1>1, <1>2, Zenon DEF Decides

LEMMA EndDecides ==
    ASSUME PipelineInv, Even(frame), NEW i \in Nodes, phase[i] \notin Decided,
           NEW how, how # "none", End(i, how),
           Changed(plan[i], frame, frame'), SameCommon(plan[i], frame, frame')
    PROVE  Decides(i)
<1>1. "ended" \in Decided
  BY DEF Decided
<1>2. phase' = [phase EXCEPT ![i] = "ended"] /\ outcome' = [outcome EXCEPT ![i] = how]
  BY Zenon DEF End
<1> QED
  BY <1>1, <1>2, Zenon DEF Decides

LEMMA SameIsChanged ==
    ASSUME PipelineInv, Even(frame), NEW i \in Nodes, frame' = frame
    PROVE  Changed(plan[i], frame, frame') /\ SameCommon(plan[i], frame, frame')
<1>1. Sound(frame)
  BY DEF Sound, PipelineInv, ViewInv
<1> QED
  BY <1>1, ChangedItself DEF SameCommon

LEMMA ProceedMoves ==
    ASSUME PipelineInv, Even(frame), NEW i \in Nodes, phase[i] \in Busy \cup {"waiting"}, frame' = frame,
           NEW to \in Busy, NEW error, Proceed(i, to, error)
    PROVE  GoesOnFrom(i) \/ Decides(i)
<1>1. phase[i] \notin Decided
  BY DEF Busy, Caught, Decided
<1>2. CASE error = "none" /\ phase' = [phase EXCEPT ![i] = to] /\ UNCHANGED <<warnings, outcome, fatal>>
  BY <1>1, <1>2 DEF GoesOnFrom
<1>3. CASE error # "none" /\ Throw(i, error)
  BY <1>1, <1>3, SameIsChanged, ThrowDecides
<1> QED
  BY <1>2, <1>3, Zenon DEF Proceed

LEMMA FinishDecides ==
    ASSUME PipelineInv, Even(frame), NEW i \in Nodes, Finish(i)
    PROVE  Decides(i)
<1> DEFINE out == tls_out[worker[i]]
           r == Applied(frame, plan[i], i, out)
           op == plan[i]
<1>1. phase[i] \in Held /\ phase[i] \notin Decided
  BY DEF Finish, Held, Busy, Caught, Decided
<1>2. IsOutput(out)
  BY <1>1, OwnOutput DEF PipelineInv
<1>3. WellFormed(op) /\ WellMarked(op) /\ IsFrame(frame) /\ Sound(frame)
  BY Values DEF Sound
<1>4. AfterApply(i, r, out)
  BY Zenon DEF Finish
<1>5. Changed(op, frame, r.frame)
  BY <1>2, <1>3, TypesOf, AppliedChanged
<1>6. SameCommon(op, frame, r.frame)
  <2>1. Within(frame, r.frame, op.common_output, op.item_output, Way(op))
    BY <1>2, <1>3, AppliedWithin
  <2> HIDE DEF r
  <2> QED
    BY <2>1 DEF Within, SameCommon
<1> HIDE DEF r, out
<1>7. frame' = r.frame /\ (End(i, "done") \/ (r.error # "none" /\ Throw(i, r.error)))
  BY <1>4, Zenon DEF AfterApply
<1>8. Changed(op, frame, frame') /\ SameCommon(op, frame, frame')
  BY <1>5, <1>6, <1>7
<1>9. CASE End(i, "done")
  BY <1>1, <1>8, <1>9, EndDecides
<1>10. CASE r.error # "none" /\ Throw(i, r.error)
  BY <1>1, <1>8, <1>10, ThrowDecides
<1> QED
  BY <1>7, <1>9, <1>10

LEMMA NodeMoves ==
    ASSUME PipelineInv, Even(frame), OutcomeInv, NEW i \in Nodes,
           \/ Begin(i) \/ CheckCommon(i) \/ CheckStrict(i) \/ CheckNullable(i)
           \/ Run(i) \/ RunShard(i) \/ Merge(i) \/ Finish(i) \/ PushWarning(i) \/ Fail(i)
    PROVE  GoesOnFrom(i) \/ Decides(i) \/ Leaves(i)
<1> DEFINE Going == \E to \in Busy : \E error : Proceed(i, to, error)
<1>1. ASSUME phase[i] \in Busy \cup {"waiting"}, frame' = frame, Going
      PROVE  GoesOnFrom(i) \/ Decides(i)
  BY <1>1, ProceedMoves
<1>2. CASE Begin(i)
  <2> DEFINE params == ResolveTemplate(frame, plan[i])
             items == ItemCount(frame)
             to == IF params.error = "none" /\ plan[i].data_parallel > 1 /\ items > 0 THEN "shards" ELSE "common"
  <2>1. /\ Startable(i) /\ frame' = frame
        /\ End(i, "skipped") \/ Begun(i, plan[i], FreeWorker, params, items)
    BY <1>2, Zenon DEF Begin
  <2>2. phase[i] = "waiting" /\ phase[i] \notin Decided
    BY <2>1 DEF Startable, Decided, Caught
  <2>3. CASE End(i, "skipped")
    BY <2>1, <2>2, <2>3, SameIsChanged, EndDecides
  <2>4. CASE Begun(i, plan[i], FreeWorker, params, items)
    <3>1. to \in Busy /\ Proceed(i, to, params.error)
      <4>1. to \in Busy
        BY DEF Busy
      <4> QED
        BY <2>4, <4>1, Zenon DEF Begun
    <3> HIDE DEF to, params
    <3> QED
      BY <1>1, <2>1, <2>2, <3>1
  <2> QED
    BY <2>1, <2>3, <2>4
<1>3. ASSUME NEW from \in Busy, NEW to \in Busy, NEW error, Check(i, from, to, error)
      PROVE  GoesOnFrom(i) \/ Decides(i)
  <2>1. phase[i] = from /\ frame' = frame /\ Proceed(i, to, error)
    BY <1>3, Zenon DEF Check
  <2> QED
    BY <1>1, <1>3, <2>1
<1>4. CASE CheckCommon(i) \/ CheckStrict(i) \/ CheckNullable(i)
  <2>1. "common" \in Busy /\ "strict" \in Busy /\ "nullable" \in Busy /\ "ready" \in Busy
    BY DEF Busy
  <2>2. \/ Check(i, "common", "strict", CommonWindow(frame, plan[i]))
        \/ Check(i, "strict", "nullable", StrictWindow(frame, Master, plan[i]))
        \/ Check(i, "nullable", "ready", NullableWindow(frame, Master, plan[i]))
    BY <1>4, Zenon DEF CheckCommon, CheckStrict, CheckNullable
  <2> QED
    BY <1>3, <2>1, <2>2
<1>5. CASE Run(i) \/ RunShard(i) \/ Merge(i)
  <2>1. "ready" \in Busy /\ "shards" \in Busy /\ "executed" \in Busy
    BY DEF Busy
  <2>2. phase[i] = "ready" \/ phase[i] = "shards"
    BY <1>5, Zenon DEF Run, RunShard, Merge
  <2>3. frame' = frame /\ \E error : Proceed(i, "executed", error) \/ Proceed(i, "shards", error)
    BY <1>5, Zenon DEF Run, RunShard, Merge
  <2> QED
    BY <1>1, <2>1, <2>2, <2>3
<1>6. CASE Finish(i)
  BY <1>6, FinishDecides
<1>7. CASE PushWarning(i)
  <2>1. phase[i] = "caught" /\ phase' = [phase EXCEPT ![i] = "failing"] /\ frame' = frame /\ outcome' = outcome
    BY <1>7, Zenon DEF PushWarning
  <2> QED
    BY <2>1 DEF Leaves, Caught, Decided
<1>8. CASE Fail(i)
  <2>1. phase[i] = "failing" \/ phase[i] = "caught"
    BY <1>8, Zenon DEF Fail
  <2>2. phase' = [phase EXCEPT ![i] = "ended"] /\ outcome' = [outcome EXCEPT ![i] = outcome[i]] /\ frame' = frame
    BY <1>8, Zenon DEF Fail, End
  <2>3. outcome' = outcome
    BY <2>2 DEF OutcomeInv
  <2> QED
    BY <2>1, <2>2, <2>3 DEF Leaves, Caught, Decided
<1> QED
  BY <1>2, <1>4, <1>5, <1>6, <1>7, <1>8

LEMMA OutcomeKept ==
    ASSUME PipelineInv, OutcomeInv, NEW i \in Nodes, GoesOnFrom(i) \/ Decides(i) \/ Leaves(i), plan' = plan
    PROVE  OutcomeInv'
<1>1. /\ phase = [j \in Nodes |-> phase[j]] /\ Nodes' = Nodes
      /\ outcome = [j \in Nodes |-> outcome[j]]
      /\ \A j \in Nodes : outcome[j] # "none" <=> phase[j] \in Decided
  BY DEF PipelineInv, OrderInv, OutcomeInv, Nodes
<1>2. \A p \in Busy : p \notin Decided
  BY DEF Busy, Decided, Caught
<1>3. /\ outcome' = [j \in Nodes |-> outcome'[j]]
      /\ \A j \in Nodes : outcome'[j] # "none" <=> phase'[j] \in Decided
  <2>1. CASE GoesOnFrom(i)
    BY <1>1, <1>2, <2>1 DEF GoesOnFrom
  <2>2. CASE Decides(i)
    <3>1. PICK p \in Decided : phase' = [phase EXCEPT ![i] = p]
      BY <2>2 DEF Decides
    <3>2. PICK how : how # "none" /\ outcome' = [outcome EXCEPT ![i] = how]
      BY <2>2 DEF Decides
    <3> HIDE DEF Decided
    <3> QED
      BY <1>1, <3>1, <3>2
  <2>3. CASE Leaves(i)
    <3>1. phase[i] \in Decided
      BY <2>3 DEF Leaves, Decided
    <3>2. PICK p \in Decided : phase' = [phase EXCEPT ![i] = p]
      BY <2>3 DEF Leaves
    <3>3. outcome' = outcome
      BY <2>3 DEF Leaves
    <3> HIDE DEF Decided
    <3> QED
      BY <1>1, <3>1, <3>2, <3>3
  <2> QED
    BY <2>1, <2>2, <2>3
<1> QED
  BY <1>1, <1>3, Zenon DEF OutcomeInv, Decided, Caught

LEMMA MadeEven ==
    ASSUME NEW mode, NEW common, NEW items, IsList(items), NEW fr, fr = MakeFrame(mode, common, items)
    PROVE  Even(fr)
<1> DEFINE n == Len(items)
<1>1. fr = MakeRowFrame(common, items) \/ fr = MakeColumnFrame(common, items)
  BY Zenon DEF MakeFrame
<1>2. CASE fr = MakeRowFrame(common, items)
  <2>1. fr.layout = "row"
    BY <1>2 DEF MakeRowFrame
  <2> QED
    BY <2>1, RowIsEven
<1>3. CASE fr = MakeColumnFrame(common, items)
  <2>1. fr.n = n /\ \A f \in ItemFields : fr.cols[f] = ColumnFrom(items, f)
    BY <1>3 DEF MakeColumnFrame
  <2>2. n \in Nat /\ DOMAIN items = 1 .. n
    BY ListDomain
  <2>3. ASSUME NEW f \in ItemFields
        PROVE  ColumnFrom(items, f) = NoColumn \/ Wide(ColumnFrom(items, f), n)
    <3> DEFINE vals == {items[i][f] : i \in DOMAIN items} \ {Absent}
               type == IF Null \in vals THEN "json" ELSE CommonType(vals)
               d == [i \in DOMAIN items |-> IF items[i][f] = Absent THEN Null ELSE Kept(type, items[i][f])]
               q == [i \in DOMAIN items |-> items[i][f] # Absent]
               x == [type |-> type, data |-> d, present |-> q]
    <3>1. ColumnFrom(items, f) = NoColumn \/ ColumnFrom(items, f) = x
      BY Zenon DEF ColumnFrom
    <3>2. d = [i \in 1 .. n |-> d[i]] /\ q = [i \in 1 .. n |-> q[i]]
      <4> HIDE DEF n, type
      <4> QED
        BY <2>2
    <3> HIDE DEF d, q, type, n
    <3>3. IsList(d) /\ Len(d) = n /\ IsList(q) /\ Len(q) = n
      BY <2>2, <3>2, FunctionIsList
    <3>4. x = [type |-> x.type, data |-> x.data, present |-> x.present] /\ x.data = d /\ x.present = q
      OBVIOUS
    <3> HIDE DEF x
    <3>5. Wide(x, n)
      BY <3>3, <3>4 DEF Wide
    <3> QED
      BY <3>1, <3>5
  <2>4. AllWide(fr.cols, n)
    <3> HIDE DEF n
    <3> QED
      BY <2>1, <2>3 DEF AllWide
  <2> HIDE DEF n
  <2> QED
    BY <2>1, <2>4 DEF Even
<1> QED
  BY <1>1, <1>2, <1>3

LEMMA Planned ==
    ASSUME [Next]_vars
    PROVE  plan' = plan
BY Zenon DEF Next, Returned, vars, Begin, CheckCommon, CheckStrict, CheckNullable, Check, Run, RunShard, Merge,
             Finish, PushWarning, Fail

EvenInv == Even(frame) /\ OutcomeInv

LEMMA EvenAlways == Spec => []EvenInv
<1>1. Init => EvenInv
  <2> SUFFICES ASSUME Init
               PROVE  Even(frame) /\ OutcomeInv
    BY DEF EvenInv
  <2>1. \E mode : frame = MakeFrame(mode, request.common, request.items)
    BY Zenon DEF Init
  <2>2. request \in Requests
    BY DEF Init
  <2>3. Even(frame)
    BY <2>1, <2>2, MadeEven, PipelineAssumption
  <2>4. phase = [i \in Nodes |-> "waiting"] /\ outcome = [i \in Nodes |-> "none"] /\ "waiting" \notin Decided
    BY DEF Init, Decided, Caught
  <2>5. OutcomeInv
    BY <2>4 DEF OutcomeInv
  <2> QED
    BY <2>3, <2>5
<1>2. PipelineInv /\ EvenInv /\ [Next]_vars => EvenInv'
  <2> SUFFICES ASSUME PipelineInv, Even(frame), OutcomeInv, [Next]_vars
               PROVE  Even(frame') /\ OutcomeInv'
    BY DEF EvenInv
  <2>1. ASSUME NEW i \in Nodes,
               \/ Begin(i) \/ CheckCommon(i) \/ CheckStrict(i) \/ CheckNullable(i)
               \/ Run(i) \/ RunShard(i) \/ Merge(i) \/ Finish(i) \/ PushWarning(i) \/ Fail(i)
        PROVE  Even(frame') /\ OutcomeInv'
    <3>1. GoesOnFrom(i) \/ Decides(i) \/ Leaves(i)
      BY <2>1, NodeMoves
    <3>2. Even(frame')
      BY <3>1, ChangedIsSound DEF GoesOnFrom, Decides, Leaves
    <3> QED
      BY <3>1, <3>2, OutcomeKept, Planned
  <2>2. CASE UNCHANGED vars
    <3>1. UNCHANGED <<plan, frame, phase, outcome>>
      BY <2>2 DEF vars
    <3>2. Nodes' = Nodes
      BY <3>1 DEF Nodes
    <3> QED
      BY <3>1, <3>2 DEF OutcomeInv
  <2> QED
    BY <2>1, <2>2, Zenon DEF Next, Returned
<1> QED
  BY <1>1, <1>2, Invariance, PTL DEF Spec

(* A node whose fate is settled, also one that fails in the middle of      *)
(* apply_output, has changed only what its declaration and its type let it *)
(* change, and no other step changes the data                              *)
(* (validate_output_against_type and validate_declared_outputs of          *)
(* engine.cpp, apply_output of row_frame.cpp and column_frame.cpp).        *)
THEOREM OnlyDeclaredHolds == Spec => OnlyDeclared
<1> DEFINE Keeps(i) == /\ \A f \in CommonFields \ plan[i].common_output : frame'.common[f] = frame.common[f]
                       /\ Permitted(plan[i], Items, Items')
           A == /\ \A i \in Nodes : Settles(i) => Keeps(i)
                /\ (\A i \in Nodes : ~Settles(i)) => UNCHANGED frame
<1>1. PipelineInv /\ EvenInv /\ [Next]_vars => [A]_vars
  <2> SUFFICES ASSUME PipelineInv, EvenInv, [Next]_vars, ~UNCHANGED vars
               PROVE  A
    BY Zenon
  <2>1. Even(frame) /\ OutcomeInv
    BY DEF EvenInv
  <2>2. PICK j \in Nodes : GoesOnFrom(j) \/ Decides(j) \/ Leaves(j)
    <3>1. PICK j \in Nodes :
               \/ Begin(j) \/ CheckCommon(j) \/ CheckStrict(j) \/ CheckNullable(j)
               \/ Run(j) \/ RunShard(j) \/ Merge(j) \/ Finish(j) \/ PushWarning(j) \/ Fail(j)
      BY Zenon DEF Next, Returned
    <3> QED
      BY <2>1, <3>1, NodeMoves
  <2>3. CASE frame' = frame /\ outcome' = outcome
    BY <2>3 DEF Settles
  <2>4. CASE Decides(j)
    <3>1. PICK how : how # "none" /\ outcome' = [outcome EXCEPT ![j] = how]
      BY <2>4 DEF Decides
    <3>2. outcome[j] = "none" /\ outcome = [i \in Nodes |-> outcome[i]]
      BY <2>1, <2>4 DEF Decides, OutcomeInv
    <3>3. Settles(j) /\ \A i \in Nodes : Settles(i) => i = j
      BY <3>1, <3>2 DEF Settles
    <3>4. Changed(plan[j], frame, frame') /\ SameCommon(plan[j], frame, frame')
      BY <2>4 DEF Decides
    <3>5. WellFormed(plan[j]) /\ IsFrame(frame)
      BY Values
    <3>6. IsFrame(frame')
      BY <3>4, ChangedIsSound
    <3>7. Permitted(plan[j], ToResult(frame).items, ToResult(frame').items)
      BY <3>4, <3>5, <3>6, TypesOf, ChangedPermitted
    <3>8. Keeps(j)
      BY <3>4, <3>7, Zenon DEF SameCommon, Items
    <3> HIDE DEF Keeps
    <3> QED
      BY <3>3, <3>8
  <2> QED
    BY <2>2, <2>3, <2>4 DEF GoesOnFrom, Leaves
<1> QED
  BY <1>1, Invariance, EvenAlways, PTL DEF Spec, OnlyDeclared

---------------------------------------------------------------------------
(* What is checked before an operator runs, and what the operator returns, *)
(* is a function of what it sees.                                          *)

LEMMA SeenAgrees ==
    ASSUME NEW a, NEW b, NEW op, WellMarked(op), Seen(b, op) = Seen(a, op)
    PROVE  /\ \A f \in op.common_input \cup Excluded(op) : b.common[f] = a.common[f]
           /\ Columns(b, op) = Columns(a, op)
           /\ Dag!ReadsRowSet(Shape(op)) => ItemCount(b) = ItemCount(a)
           /\ \A f \in op.item_input : \A s \in 1 .. ItemCount(a) :
                 Has(b, s, f) = Has(a, s, f) /\ Item(b, s, f) = Item(a, s, f)
<1>1. /\ Commons(b, op) = Commons(a, op) /\ Columns(b, op) = Columns(a, op)
      /\ Cells(b, op) = Cells(a, op) /\ Counted(b, op) = Counted(a, op)
  BY SeenIs
<1>2. \A f \in op.common_input \cup Excluded(op) : b.common[f] = a.common[f]
  <2> DEFINE S == op.common_input \cup Excluded(op)
  <2>1. \A h : Commons(h, op) = [f \in S |-> h.common[f]]
    BY Zenon DEF Commons
  <2> HIDE DEF S
  <2>2. \A h : \A f \in S : Commons(h, op)[f] = h.common[f]
    BY <2>1
  <2>3. \A f \in S : b.common[f] = a.common[f]
    BY <1>1, <2>2
  <2> QED
    BY <2>3 DEF S
<1>3. Dag!ReadsRowSet(Shape(op)) => ItemCount(b) = ItemCount(a)
  BY <1>1 DEF Counted
<1>4. ASSUME NEW f \in op.item_input, NEW s \in 1 .. ItemCount(a)
      PROVE  Has(b, s, f) = Has(a, s, f) /\ Item(b, s, f) = Item(a, s, f)
  <2>1. ItemCount(b) = ItemCount(a)
    BY <1>3, ItemsAreCounted
  <2>2. \A h : Cells(h, op)[f] = [t \in 1 .. ItemCount(h) |-> <<Has(h, t, f), Item(h, t, f)>>]
    BY DEF Cells
  <2>3. \A h : s \in 1 .. ItemCount(h) => Cells(h, op)[f][s] = <<Has(h, s, f), Item(h, s, f)>>
    BY <2>2
  <2>4. <<Has(b, s, f), Item(b, s, f)>> = <<Has(a, s, f), Item(a, s, f)>>
    BY <1>1, <2>1, <2>3
  <2> QED
    BY <2>4
<1> QED
  BY <1>1, <1>2, <1>3, <1>4

LEMMA InputFields ==
    ASSUME NEW op
    PROVE  /\ StrictCommon(op) \subseteq op.common_input /\ NullableCommon(op) \subseteq op.common_input
           /\ StrictItem(op) \subseteq op.item_input /\ NullableItem(op) \subseteq op.item_input
           /\ op.skip \subseteq Excluded(op) /\ op.template \subseteq Excluded(op)
BY DEF StrictCommon, NullableCommon, StrictItem, NullableItem, Visible, Excluded

LEMMA MasterWindow ==
    ASSUME NEW fr
    PROVE  Extent(fr, Master) = ItemCount(fr) /\ Master.offset = 0
BY DEF Extent, Master

LEMMA ControlAgrees ==
    ASSUME NEW a, NEW b, NEW op, WellMarked(op), Seen(b, op) = Seen(a, op)
    PROVE  /\ ShouldSkip(b, op) <=> ShouldSkip(a, op)
           /\ ResolveTemplate(b, op) = ResolveTemplate(a, op)
           /\ CommonWindow(b, op) = CommonWindow(a, op)
<1>1. \A f \in op.common_input \cup Excluded(op) : b.common[f] = a.common[f]
  BY SeenAgrees
<1>2. ShouldSkip(b, op) <=> ShouldSkip(a, op)
  <2>1. \A f \in op.skip : b.common[f] = a.common[f]
    BY <1>1, InputFields
  <2>2. \A f \in op.skip : CommonValue(b, f) = CommonValue(a, f)
    BY <2>1, Zenon DEF CommonValue
  <2> QED
    BY <2>2, Zenon DEF ShouldSkip
<1>3. ResolveTemplate(b, op) = ResolveTemplate(a, op)
  <2> DEFINE g == CHOOSE f \in op.template : TRUE
             Value(v) == IF IsNull(v) THEN [error |-> "template missing", value |-> Null]
                         ELSE IF Coerced(v) = Absent THEN [error |-> "template coerce", value |-> Null]
                         ELSE [error |-> "none", value |-> Coerced(v)]
             blank == [error |-> "none", value |-> Null]
  <2>1. \A h : ResolveTemplate(h, op) = IF op.template = {} THEN blank ELSE Value(h.common[g])
    BY Zenon DEF ResolveTemplate
  <2>2. op.template # {} => g \in op.template
    BY Zenon
  <2> HIDE DEF g, Value, blank
  <2>3. op.template # {} => b.common[g] = a.common[g]
    BY <1>1, <2>2, InputFields
  <2> QED
    BY <2>1, <2>3
<1>4. CommonWindow(b, op) = CommonWindow(a, op)
  <2>1. \A f \in StrictCommon(op) \cup NullableCommon(op) : b.common[f] = a.common[f]
    BY <1>1, InputFields
  <2>2. (\E f \in StrictCommon(op) : IsNull(b.common[f])) <=> (\E f \in StrictCommon(op) : IsNull(a.common[f]))
    BY <2>1
  <2>3. (\E f \in NullableCommon(op) : b.common[f] = Absent) <=> (\E f \in NullableCommon(op) : a.common[f] = Absent)
    BY <2>1
  <2> QED
    BY <2>2, <2>3, Zenon DEF CommonWindow
<1> QED
  BY <1>2, <1>3, <1>4

LEMMA WindowsAgree ==
    ASSUME NEW a, NEW b, IsFrame(a), IsFrame(b), NEW op, WellMarked(op), Seen(b, op) = Seen(a, op), b.layout = a.layout
    PROVE  /\ StrictWindow(b, Master, op) = StrictWindow(a, Master, op)
           /\ NullableWindow(b, Master, op) = NullableWindow(a, Master, op)
<1> DEFINE n == ItemCount(a)
           W(h) == Window(h, Master)
<1>1. \A f \in op.item_input : \A s \in 1 .. n : Has(b, s, f) = Has(a, s, f) /\ Item(b, s, f) = Item(a, s, f)
  BY SeenAgrees
<1>2. ASSUME NEW h, IsFrame(h)
      PROVE  W(h) = 1 .. ItemCount(h)
  <2> DEFINE c == ItemCount(h)
  <2>1. W(h) = 0 + 1 .. 0 + c
    BY MasterWindow, Zenon DEF Window
  <2>2. c \in Nat
    BY <1>2, CountIsNat
  <2> HIDE DEF c, W
  <2>3. 0 + 1 .. 0 + c = 1 .. c
    BY <2>2
  <2> QED
    BY <2>1, <2>3 DEF c
<1>3. op.item_input # {} => W(b) = 1 .. n /\ W(a) = 1 .. n
  <2>1. op.item_input # {} => ItemCount(b) = n
    BY SeenAgrees, ItemsAreCounted
  <2> QED
    BY <1>2, <2>1
<1> HIDE DEF n, W
<1>4. NullableWindow(b, Master, op) = NullableWindow(a, Master, op)
  <2>1. (\E f \in NullableItem(op), s \in W(b) : ~Has(b, s, f)) <=> (\E f \in NullableItem(op), s \in W(a) : ~Has(a, s, f))
    BY <1>1, <1>3, InputFields
  <2> QED
    BY <2>1, Zenon DEF NullableWindow, W
<1>5. StrictItem(op) # {} => (StrictOk(b, Master, StrictItem(op)) <=> StrictOk(a, Master, StrictItem(op)))
  <2> SUFFICES ASSUME StrictItem(op) # {}
               PROVE  StrictOk(b, Master, StrictItem(op)) <=> StrictOk(a, Master, StrictItem(op))
    OBVIOUS
  <2> DEFINE S == StrictItem(op)
  <2>1. S \subseteq op.item_input
    BY InputFields
  <2>2. W(b) = 1 .. n /\ W(a) = 1 .. n
    BY <1>3, InputFields
  <2>3. \A f \in S : \A s \in 1 .. n : Has(b, s, f) = Has(a, s, f) /\ Item(b, s, f) = Item(a, s, f)
    BY <1>1, <2>1
  <2>4. \A f \in S : (b.layout = "row" \/ b.cols[f] # NoColumn) <=> (a.layout = "row" \/ a.cols[f] # NoColumn)
    <3>1. Columns(b, op) = Columns(a, op)
      BY SeenAgrees
    <3> HIDE DEF S
    <3> QED
      BY <2>1, <3>1 DEF Columns
  <2> HIDE DEF S
  <2>5. ASSUME a.layout = "row"
        PROVE  StrictOk(b, Master, S) <=> StrictOk(a, Master, S)
    <3>1. \A h, w : h.layout = "row" => (RowStrict(h, w, S) <=> \A f \in S, s \in w : ~IsNull(Item(h, s, f)))
      BY DEF RowStrict, Item
    <3>2. \A h : h.layout = "row" => (StrictOk(h, Master, S) <=> RowStrict(h, W(h), S))
      BY Zenon DEF StrictOk, W
    <3>3. (\A f \in S, s \in 1 .. n : ~IsNull(Item(b, s, f))) <=> \A f \in S, s \in 1 .. n : ~IsNull(Item(a, s, f))
      BY <2>3, Zenon
    <3>4. StrictOk(b, Master, S) <=> \A f \in S, s \in 1 .. n : ~IsNull(Item(b, s, f))
      BY <2>2, <2>5, <3>1, <3>2
    <3>5. StrictOk(a, Master, S) <=> \A f \in S, s \in 1 .. n : ~IsNull(Item(a, s, f))
      BY <2>2, <2>5, <3>1, <3>2
    <3> QED
      BY <3>3, <3>4, <3>5
  <2>6. ASSUME a.layout # "row"
        PROVE  StrictOk(b, Master, S) <=> StrictOk(a, Master, S)
    <3> DEFINE Fine(h) == \A f \in S : h.cols[f] # NoColumn /\ \A s \in 1 .. n : Has(h, s, f) /\ ~IsNull(Item(h, s, f))
    <3>1. \A h : h.layout # "row" => (StrictOk(h, Master, S) <=> ColumnStrict(h, W(h), S))
      BY Zenon DEF StrictOk, W
    <3>2. \A h : h.layout # "row" => (ColumnStrict(h, 1 .. n, S) <=> Fine(h))
      BY DEF ColumnStrict, ColumnNull, Has, Item, ColumnHas, ColumnItem
    <3>3. Fine(b) <=> Fine(a)
      BY <2>3, <2>4, <2>6
    <3> HIDE DEF Fine
    <3> QED
      BY <2>2, <2>6, <3>1, <3>2, <3>3
  <2> QED
    BY <2>5, <2>6 DEF S
<1>6. StrictWindow(b, Master, op) = StrictWindow(a, Master, op)
  BY <1>5, Zenon DEF StrictWindow
<1> QED
  BY <1>4, <1>6

(* The input of an operator that is not sharded.                           *)
Alike(x, y, op) ==
    /\ \A f \in op.common_input : y.common[f] = x.common[f]
    /\ \A f \in op.item_input : y.column[f] = x.column[f]
    /\ y.templated = x.templated
    /\ Dag!ReadsRowSet(Shape(op)) => y.count = x.count

LEMMA InputsAgree ==
    ASSUME NEW a, NEW b, NEW op, WellFormed(op), WellMarked(op), Seen(b, op) = Seen(a, op),
           NEW m, NEW n, Dag!ReadsRowSet(Shape(op)) => n = m, NEW params
    PROVE  Alike(OperatorInput(a, Master, op, m, params), OperatorInput(b, Master, op, n, params), op)
<1> DEFINE In(h, k) == OperatorInput(h, Master, op, k, params)
<1>1. op.common_input \subseteq CommonFields /\ op.item_input \subseteq ItemFields
  BY DEF WellFormed
<1>2. \A h, k : /\ In(h, k).common = [f \in CommonFields |-> InputCommon(h, op, f)]
                /\ In(h, k).column = [f \in ItemFields |-> InputColumn(h, Master, op, f)]
                /\ In(h, k).templated = params /\ In(h, k).count = k
  BY DEF OperatorInput
<1> HIDE DEF In
<1>3. ASSUME NEW f \in op.common_input
      PROVE  In(b, n).common[f] = In(a, m).common[f]
  <2>1. b.common[f] = a.common[f]
    BY SeenAgrees
  <2>2. InputCommon(b, op, f) = InputCommon(a, op, f)
    BY <2>1, Zenon DEF InputCommon, CommonValue
  <2>3. In(b, n).common = [g \in CommonFields |-> InputCommon(b, op, g)]
    BY <1>2, Zenon
  <2>4. In(a, m).common = [g \in CommonFields |-> InputCommon(a, op, g)]
    BY <1>2, Zenon
  <2> QED
    BY <1>1, <2>2, <2>3, <2>4
<1>4. ASSUME NEW f \in op.item_input
      PROVE  In(b, n).column[f] = In(a, m).column[f]
  <2> DEFINE default == IF f \in op.item_input THEN op.item_defaults[f] ELSE Absent
             c == ItemCount(a)
  <2>1. ItemCount(b) = c
    BY SeenAgrees, ItemsAreCounted
  <2>2. \A h : InputColumn(h, Master, op, f) =
                  [k \in 1 .. Extent(h, Master) |-> WithDefault(Item(h, Master.offset + k, f), default)]
    BY Zenon DEF InputColumn
  <2>3. \A s \in 1 .. c : Item(b, s, f) = Item(a, s, f)
    BY SeenAgrees
  <2> HIDE DEF default, c
  <2>4. \A h : ItemCount(h) = c => InputColumn(h, Master, op, f) =
                  [k \in 1 .. c |-> WithDefault(Item(h, 0 + k, f), default)]
    BY <2>2, MasterWindow
  <2>5. \A k \in 1 .. c : 0 + k = k
    OBVIOUS
  <2>6. [k \in 1 .. c |-> WithDefault(Item(b, 0 + k, f), default)] =
        [k \in 1 .. c |-> WithDefault(Item(a, 0 + k, f), default)]
    BY <2>3, <2>5
  <2>7. InputColumn(b, Master, op, f) = InputColumn(a, Master, op, f)
    BY <2>1, <2>4, <2>6 DEF c
  <2>8. In(b, n).column = [g \in ItemFields |-> InputColumn(b, Master, op, g)]
    BY <1>2, Zenon
  <2>9. In(a, m).column = [g \in ItemFields |-> InputColumn(a, Master, op, g)]
    BY <1>2, Zenon
  <2> QED
    BY <1>1, <2>7, <2>8, <2>9
<1> QED
  BY <1>2, <1>3, <1>4 DEF Alike, In

(* Every operator returns the same from inputs that are alike.  Each body  *)
(* is taken as a function of the reads it makes.                           *)
LEMMA LoopsAlike ==
    ASSUME NEW op, WellMarked(op), WellDeclared(op), NEW x, NEW y, Alike(x, y, op)
    PROVE  /\ op.type_name = "transform_resource_lookup" => ResourceLookup(op, y) = ResourceLookup(op, x)
           /\ op.type_name \in {"common_to_item", "transform_dispatch"} => CommonToItem(op, y) = CommonToItem(op, x)
           /\ op.type_name = "item_to_item" => ItemToItem(op, y) = ItemToItem(op, x)
           /\ op.type_name = "transform_normalize" => Normalize(op, y) = Normalize(op, x)
           /\ op.type_name = "transform_by_remote_pineapple" => RemotePineapple(op, y) = RemotePineapple(op, x)
<1> DEFINE g == The(op.item_input)
           c == The(op.common_input \ op.skip)
<1>1. op.item_input # {} => y.column[g] = x.column[g] /\ y.count = x.count
  BY ChosenOf, ItemsAreCounted DEF Alike
<1>2. op.common_input \ op.skip # {} => y.common[c] = x.common[c]
  <2>1. op.common_input \ op.skip # {} => c \in op.common_input
    BY ChosenOf
  <2> HIDE DEF c
  <2> QED
    BY <2>1 DEF Alike
<1>3. ASSUME op.type_name = "transform_resource_lookup"
      PROVE  ResourceLookup(op, y) = ResourceLookup(op, x)
  <2> DEFINE F(col) ==
               LET Answer(v) == IF IsNull(v) \/ LookupKey(v) \notin DOMAIN op.args.table THEN op.args.default
                                ELSE op.args.table[LookupKey(v)]
               IN  Returns(ForItems(EmptyOutput, Len(col), op.args.field, LAMBDA i : Answer(col[i]),
                                    LAMBDA i : Answer(col[i]) = Absent))
  <2>1. op.args.key \in op.item_input
    BY <1>3 DEF WellDeclared
  <2>2. ResourceLookup(op, x) = F(x.column[op.args.key]) /\ ResourceLookup(op, y) = F(y.column[op.args.key])
    BY Zenon DEF ResourceLookup, ForItems
  <2> HIDE DEF F
  <2> QED
    BY <2>1, <2>2 DEF Alike
<1>4. ASSUME op.type_name \in {"common_to_item", "transform_dispatch"}
      PROVE  CommonToItem(op, y) = CommonToItem(op, x)
  <2> DEFINE F(v, n) == Returns(ForItems(EmptyOutput, n, The(op.item_output), LAMBDA i : v, LAMBDA i : FALSE))
  <2>1. op.common_input \ op.skip # {} /\ op.item_output # {} /\ ~op.additive
    BY <1>4 DEF WellDeclared, WellMarked
  <2>2. y.count = x.count
    BY <2>1, ItemsAreCounted DEF Alike
  <2>3. CommonToItem(op, x) = F(x.common[c], x.count) /\ CommonToItem(op, y) = F(y.common[c], y.count)
    BY Zenon DEF CommonToItem, ForItems
  <2> HIDE DEF F, c
  <2> QED
    BY <1>2, <2>1, <2>2, <2>3
<1>5. ASSUME op.type_name = "item_to_item"
      PROVE  ItemToItem(op, y) = ItemToItem(op, x)
  <2> DEFINE F(col) == Returns(ForItems(EmptyOutput, Len(col), The(op.item_output), LAMBDA i : col[i], LAMBDA i : FALSE))
  <2>1. ItemToItem(op, x) = F(x.column[g]) /\ ItemToItem(op, y) = F(y.column[g])
    BY Zenon DEF ItemToItem, ForItems
  <2>2. op.item_input # {}
    BY <1>5 DEF WellDeclared
  <2> HIDE DEF F, g
  <2> QED
    BY <1>1, <2>1, <2>2
<1>6. ASSUME op.type_name = "transform_normalize"
      PROVE  Normalize(op, y) = Normalize(op, x)
  <2> DEFINE F(col, n) ==
               LET at  == {Quantity(v) : v \in ToSet(col)}
                   low == CHOOSE u \in at : \A w \in at : u <= w
                   top == CHOOSE u \in at : \A w \in at : u >= w
                   Norm(v) == Number(IF top = low THEN 0 ELSE (2 * (Quantity(v) - low)) \div (top - low))
               IN  IF n = 0 THEN Returns(EmptyOutput)
                   ELSE IF NotNumbers(col) THEN Throws(EmptyOutput, "not a number")
                   ELSE Returns(SetColumn(EmptyOutput, The(op.item_output), [i \in DOMAIN col |-> Norm(col[i])]))
  <2>1. Normalize(op, x) = F(x.column[g], x.count) /\ Normalize(op, y) = F(y.column[g], y.count)
    BY Zenon DEF Normalize
  <2>2. op.item_input # {}
    BY <1>6 DEF WellDeclared
  <2> HIDE DEF F, g
  <2> QED
    BY <1>1, <2>1, <2>2
<1>7. ASSUME op.type_name = "transform_by_remote_pineapple"
      PROVE  RemotePineapple(op, y) = RemotePineapple(op, x)
  <2> DEFINE F(k) ==
               LET reply == op.args.reply
                   n == IF k < Len(reply.rows) THEN k ELSE Len(reply.rows)
                   common == IF op.common_output = {} \/ reply.common = Absent THEN EmptyOutput
                             ELSE SetCommon(EmptyOutput, The(op.common_output), reply.common)
               IN  ForItems(common, n, The(op.item_output), LAMBDA i : reply.rows[i], LAMBDA i : reply.rows[i] = Absent)
  <2>1. op.consumes
    BY <1>7 DEF WellMarked
  <2>2. y.count = x.count
    BY <2>1, ItemsAreCounted DEF Alike
  <2>3. TakeReply(op, x, op.args.reply) = F(x.count) /\ TakeReply(op, y, op.args.reply) = F(y.count)
    BY Zenon DEF TakeReply, ForItems
  <2> HIDE DEF F
  <2>4. TakeReply(op, y, op.args.reply) = TakeReply(op, x, op.args.reply)
    BY <2>2, <2>3
  <2> QED
    BY <2>4, Zenon DEF RemotePineapple
<1> QED
  BY <1>3, <1>4, <1>5, <1>6, <1>7

LEMMA CommonsAlike ==
    ASSUME NEW op, WellMarked(op), WellDeclared(op), NEW x, NEW y, Alike(x, y, op)
    PROVE  /\ op.type_name = "common_to_common" => CommonToCommon(op, y) = CommonToCommon(op, x)
           /\ op.type_name = "item_to_common" => ItemToCommon(op, y) = ItemToCommon(op, x)
           /\ op.type_name = "transform_size" => Size(op, y) = Size(op, x)
<1> DEFINE g == The(op.item_input)
           c == The(op.common_input \ op.skip)
<1>1. op.item_input # {} => y.column[g] = x.column[g]
  BY ChosenOf DEF Alike
<1>2. op.common_input \ op.skip # {} => y.common[c] = x.common[c]
  <2>1. op.common_input \ op.skip # {} => c \in op.common_input
    BY ChosenOf
  <2> HIDE DEF c
  <2> QED
    BY <2>1 DEF Alike
<1>3. ASSUME op.type_name = "common_to_common"
      PROVE  CommonToCommon(op, y) = CommonToCommon(op, x)
  <2>1. op.common_input \ op.skip # {}
    BY <1>3 DEF WellDeclared
  <2>2. y.common[c] = x.common[c]
    BY <1>2, <2>1
  <2> QED
    BY <2>2, Zenon DEF CommonToCommon
<1>4. ASSUME op.type_name = "item_to_common"
      PROVE  ItemToCommon(op, y) = ItemToCommon(op, x)
  <2> DEFINE F(col) == Returns(SetCommon(EmptyOutput, The(op.common_output), ArrayOf(col)))
  <2>1. op.item_input # {}
    BY <1>4 DEF WellDeclared
  <2>2. ItemToCommon(op, x) = F(x.column[g]) /\ ItemToCommon(op, y) = F(y.column[g])
    BY Zenon DEF ItemToCommon
  <2> HIDE DEF F, g
  <2> QED
    BY <1>1, <2>1, <2>2
<1>5. ASSUME op.type_name = "transform_size"
      PROVE  Size(op, y) = Size(op, x)
  <2>1. op.consumes
    BY <1>5 DEF WellMarked
  <2>2. y.count = x.count
    BY <2>1, ItemsAreCounted DEF Alike
  <2> QED
    BY <2>2, Zenon DEF Size
<1> QED
  BY <1>3, <1>4, <1>5

LEMMA FiltersAlike ==
    ASSUME NEW op, WellMarked(op), WellDeclared(op), NEW x, NEW y, Alike(x, y, op)
    PROVE  /\ op.type_name = "filter_condition" => FilterCondition(op, y) = FilterCondition(op, x)
           /\ op.type_name = "filter_truncate" => Truncate(op, y) = Truncate(op, x)
           /\ op.type_name = "filter_paginate" => Paginate(op, y) = Paginate(op, x)
           /\ op.type_name = "merge_dedup" => Dedup(op, y) = Dedup(op, x)
<1>1. op.consumes => y.count = x.count
  BY ItemsAreCounted DEF Alike
<1>2. ASSUME op.type_name = "filter_condition"
      PROVE  FilterCondition(op, y) = FilterCondition(op, x)
  <2> DEFINE F(col) == Returns(RemoveItems(EmptyOutput, {i \in DOMAIN col : Sprint(col[i]) = Sprint(op.args.value)}))
             g == The(op.item_input)
  <2>1. op.item_input # {}
    BY <1>2 DEF WellDeclared
  <2>2. FilterCondition(op, x) = F(x.column[g]) /\ FilterCondition(op, y) = F(y.column[g])
    BY Zenon DEF FilterCondition
  <2>3. y.column[g] = x.column[g]
    BY <2>1, ChosenOf DEF Alike
  <2> HIDE DEF F, g
  <2> QED
    BY <2>2, <2>3
<1>3. ASSUME op.type_name = "filter_truncate"
      PROVE  Truncate(op, y) = Truncate(op, x)
  <2> DEFINE F(t, n) ==
               LET top_n == IF IsNumber(t) THEN t.at \div 2 ELSE op.args.top_n
               IN  IF top_n < 0 THEN Throws(EmptyOutput, "negative top_n")
                   ELSE Returns(RemoveItems(EmptyOutput, top_n + 1 .. n))
  <2>1. op.consumes
    BY <1>3 DEF WellMarked
  <2>2. Truncate(op, x) = F(x.templated, x.count) /\ Truncate(op, y) = F(y.templated, y.count)
    BY Zenon DEF Truncate
  <2> HIDE DEF F
  <2> QED
    BY <1>1, <2>1, <2>2 DEF Alike
<1>4. ASSUME op.type_name = "filter_paginate"
      PROVE  Paginate(op, y) = Paginate(op, x)
  <2> DEFINE F(p, s, n) ==
               LET ToInt(v) == IF IsNumber(v) THEN Quantity(v) \div 2 ELSE 0
                   page  == ToInt(p)
                   size  == IF ToInt(s) <= 0 THEN 10 ELSE ToInt(s)
                   start == (IF page < 0 THEN 0 ELSE page) * size
               IN  Returns(RemoveItems(EmptyOutput, (1 .. n) \ (start + 1 .. start + size)))
  <2>1. op.consumes
    BY <1>4 DEF WellMarked
  <2>2. /\ Paginate(op, x) = F(x.common[op.args.page], x.common[op.args.size], x.count)
        /\ Paginate(op, y) = F(y.common[op.args.page], y.common[op.args.size], y.count)
    BY Zenon DEF Paginate
  <2>3. op.args.page \in op.common_input /\ op.args.size \in op.common_input
    BY <1>4 DEF WellDeclared
  <2> HIDE DEF F
  <2> QED
    BY <1>1, <2>1, <2>2, <2>3 DEF Alike
<1>5. ASSUME op.type_name = "merge_dedup"
      PROVE  Dedup(op, y) = Dedup(op, x)
  <2> DEFINE g == The(op.item_input \ {Source})
             F(col, n) == Returns(RemoveItems(EmptyOutput,
                            {i \in 1 .. n : \E j \in 1 .. i - 1 : DedupKey(col[j]) = DedupKey(col[i])}))
  <2>1. op.consumes /\ op.item_input \ {Source} # {}
    BY <1>5 DEF WellMarked, WellDeclared
  <2>2. Dedup(op, x) = F(x.column[g], x.count) /\ Dedup(op, y) = F(y.column[g], y.count)
    BY Zenon DEF Dedup
  <2>3. g \in op.item_input
    BY <2>1, ChosenOf
  <2> HIDE DEF F, g
  <2> QED
    BY <1>1, <2>1, <2>2, <2>3 DEF Alike
<1> QED
  BY <1>2, <1>3, <1>4, <1>5

LEMMA OrdersAlike ==
    ASSUME NEW op, WellMarked(op), WellDeclared(op), NEW x, NEW y, Alike(x, y, op)
    PROVE  /\ op.type_name = "reorder_sort" => Sort(op, y) = Sort(op, x)
           /\ op.type_name = "reorder_shuffle_by_salt" => Shuffle(op, y) = Shuffle(op, x)
<1> DEFINE g == The(op.item_input)
           c == The(op.common_input)
<1>1. op.item_input # {} => y.column[g] = x.column[g] /\ y.count = x.count
  BY ChosenOf, ItemsAreCounted DEF Alike
<1>2. op.common_input # {} => y.common[c] = x.common[c]
  BY ChosenOf DEF Alike
<1>3. ASSUME op.type_name = "reorder_sort"
      PROVE  Sort(op, y) = Sort(op, x)
  <2> DEFINE F(col, n) ==
               IF n = 0 THEN Returns(EmptyOutput)
               ELSE IF NotNumbers(col) THEN Throws(EmptyOutput, "not a number")
               ELSE IF op.args.order \notin {"asc", "desc"} THEN Throws(EmptyOutput, "order")
               ELSE Returns(SetItemOrder(EmptyOutput,
                       SetToSortSeq(DOMAIN col, LAMBDA i, j : Before(op.args.order, col, i, j))))
  <2>1. op.item_input # {}
    BY <1>3 DEF WellDeclared
  <2>2. Sort(op, x) = F(x.column[g], x.count) /\ Sort(op, y) = F(y.column[g], y.count)
    BY Zenon DEF Sort, SetToSortSeq
  <2> HIDE DEF F, g
  <2> QED
    BY <1>1, <2>1, <2>2
<1>4. ASSUME op.type_name = "reorder_shuffle_by_salt"
      PROVE  Shuffle(op, y) = Shuffle(op, x)
  <2> DEFINE F(col, v, n) ==
               LET salt == ToText(v)
                   Rank(i) == <<Hash(salt, col[i]), IF ToText(col[i]).tag = "digits" THEN ToText(col[i]).at ELSE 0, i>>
                   Less(a, b) == \E k \in 1 .. 3 : a[k] < b[k] /\ \A l \in 1 .. k - 1 : a[l] = b[l]
               IN  IF n = 0 THEN Returns(EmptyOutput)
                   ELSE Returns(SetItemOrder(EmptyOutput,
                                SetToSortSeq(DOMAIN col, LAMBDA i, j : Less(Rank(i), Rank(j)))))
  <2>1. op.item_input # {} /\ op.common_input # {}
    BY <1>4 DEF WellDeclared
  <2>2. Shuffle(op, x) = F(x.column[g], x.common[c], x.count) /\ Shuffle(op, y) = F(y.column[g], y.common[c], y.count)
    BY Zenon DEF Shuffle, SetToSortSeq
  <2> HIDE DEF F, g, c
  <2> QED
    BY <1>1, <1>2, <2>1, <2>2
<1> QED
  BY <1>3, <1>4

LEMMA ExecuteAlike ==
    ASSUME NEW op, WellFormed(op), WellMarked(op), WellDeclared(op), NEW x, NEW y, Alike(x, y, op)
    PROVE  Execute(op, y) = Execute(op, x)
<1> DEFINE t == op.type_name
<1>1. /\ t = "transform_resource_lookup" => ResourceLookup(op, y) = ResourceLookup(op, x)
      /\ t \in {"common_to_item", "transform_dispatch"} => CommonToItem(op, y) = CommonToItem(op, x)
      /\ t = "item_to_item" => ItemToItem(op, y) = ItemToItem(op, x)
      /\ t = "transform_normalize" => Normalize(op, y) = Normalize(op, x)
      /\ t = "transform_by_remote_pineapple" => RemotePineapple(op, y) = RemotePineapple(op, x)
  BY LoopsAlike
<1>2. /\ t = "common_to_common" => CommonToCommon(op, y) = CommonToCommon(op, x)
      /\ t = "item_to_common" => ItemToCommon(op, y) = ItemToCommon(op, x)
      /\ t = "transform_size" => Size(op, y) = Size(op, x)
  BY CommonsAlike
<1>3. /\ t = "filter_condition" => FilterCondition(op, y) = FilterCondition(op, x)
      /\ t = "filter_truncate" => Truncate(op, y) = Truncate(op, x)
      /\ t = "filter_paginate" => Paginate(op, y) = Paginate(op, x)
      /\ t = "merge_dedup" => Dedup(op, y) = Dedup(op, x)
  BY FiltersAlike
<1>4. /\ t = "reorder_sort" => Sort(op, y) = Sort(op, x)
      /\ t = "reorder_shuffle_by_salt" => Shuffle(op, y) = Shuffle(op, x)
  BY OrdersAlike
<1>5. RecallStatic(op, y) = RecallStatic(op, x) /\ RecallResource(op, y) = RecallResource(op, x)
  BY Zenon DEF RecallStatic, RecallResource
<1>6. Observe(op, y) = Observe(op, x)
  BY Zenon DEF Observe
<1>7. CustomOperator(op, y) = CustomOperator(op, x)
  <2>1. \A f \in op.item_input : y.column[f] = x.column[f]
    BY DEF Alike
  <2>2. (\E f \in op.item_input : op.args.on \in ToSet(y.column[f]))
          <=> \E f \in op.item_input : op.args.on \in ToSet(x.column[f])
    BY <2>1, Zenon
  <2> QED
    BY <2>2, Zenon DEF CustomOperator
<1>8. t \in {"recall_static", "recall_resource", "transform_resource_lookup", "common_to_item",
             "transform_dispatch", "common_to_common", "item_to_item", "item_to_common",
             "transform_size", "transform_normalize", "filter_condition", "filter_truncate",
             "filter_paginate", "reorder_sort", "reorder_shuffle_by_salt", "merge_dedup",
             "observe_log", "transform_by_remote_pineapple", "custom"}
  BY DEF WellFormed
<1> QED
  BY <1>1, <1>2, <1>3, <1>4, <1>5, <1>6, <1>7, <1>8 DEF Execute

---------------------------------------------------------------------------
(* What an operator returns: flags that agree with what is in its output,  *)
(* and no error that reads as the fate of a node that has not failed.      *)

Told(e)  == e \notin {"done", "skipped"}
Regular(r) == Flagged(r.out) /\ Told(r.error)

LEMMA FlaggedOutputs ==
    /\ Flagged(EmptyOutput)
    /\ \A f, v : Flagged(SetCommon(EmptyOutput, f, v))
    /\ \A S : Flagged(RemoveItems(EmptyOutput, S))
    /\ \A o : Flagged(SetItemOrder(EmptyOutput, o))
    /\ Flagged(SetWarning(EmptyOutput))
    /\ \A f, vs : Flagged(SetColumn(EmptyOutput, f, vs))
<1>1. Flagged(EmptyOutput)
  BY DEF Flagged, EmptyOutput
<1>2. \A f, v : Flagged(SetCommon(EmptyOutput, f, v))
  BY DEF Flagged, EmptyOutput, SetCommon
<1>3. \A S : Flagged(RemoveItems(EmptyOutput, S))
  BY DEF Flagged, EmptyOutput, RemoveItems
<1>4. ASSUME NEW o
      PROVE  Flagged(SetItemOrder(EmptyOutput, o))
  <2> DEFINE mid == [EmptyOutput EXCEPT !.item_order = o]
             new == [mid EXCEPT !.has_item_order = TRUE]
  <2>1. SetItemOrder(EmptyOutput, o) = new
    BY Zenon DEF SetItemOrder
  <2>2. new.has_item_order = TRUE /\ new.has_warning = FALSE
    BY DEF EmptyOutput
  <2> HIDE DEF new
  <2> QED
    BY <2>1, <2>2 DEF Flagged
<1>5. Flagged(SetWarning(EmptyOutput))
  BY DEF Flagged, EmptyOutput, SetWarning
<1>6. \A f, vs : Flagged(SetColumn(EmptyOutput, f, vs))
  BY DEF Flagged, EmptyOutput, SetColumn
<1> QED
  BY <1>1, <1>2, <1>3, <1>4, <1>5, <1>6

LEMMA FlaggedWrites ==
    ASSUME NEW out, IsOutput(out), Flagged(out), NEW x
    PROVE  /\ Flagged([out EXCEPT !.item_writes = x])
           /\ Flagged([out EXCEPT !.common_writes = x])
           /\ Flagged([out EXCEPT !.added_items = x])
BY DEF Flagged, IsOutput

LEMMA RegularReturns ==
    ASSUME NEW out, Flagged(out)
    PROVE  Regular(Returns(out)) /\ \A e : Told(e) => Regular(Throws(out, e))
BY DEF Regular, Returns, Throws, Told

LEMMA LoopsAreRegular ==
    ASSUME NEW op, NEW in
    PROVE  /\ Regular(RecallStatic(op, in)) /\ Regular(RecallResource(op, in))
           /\ Regular(ResourceLookup(op, in)) /\ Regular(CommonToItem(op, in))
           /\ Regular(ItemToItem(op, in)) /\ Regular(Normalize(op, in)) /\ Regular(RemotePineapple(op, in))
<1>1. \A x : /\ Flagged([EmptyOutput EXCEPT !.item_writes = x])
             /\ Flagged([EmptyOutput EXCEPT !.common_writes = x])
             /\ Flagged([EmptyOutput EXCEPT !.added_items = x])
  BY FlaggedWrites, FlaggedOutputs, EmptyIsOutput
<1>2. Regular(RecallStatic(op, in))
  <2> DEFINE mid == [EmptyOutput EXCEPT !.common_writes = op.args.set_common]
             new == [mid EXCEPT !.added_items = op.args.items]
  <2>1. RecallStatic(op, in) = Returns(new)
    BY Zenon DEF RecallStatic
  <2>2. new.has_warning = FALSE /\ new.has_item_order = FALSE /\ new.item_order = <<>>
    BY DEF EmptyOutput
  <2> HIDE DEF new
  <2>3. Flagged(new)
    BY <2>2 DEF Flagged
  <2> QED
    BY <2>1, <2>3, RegularReturns
<1>3. Regular(RecallResource(op, in))
  <2>1. \/ RecallResource(op, in) = Throws(EmptyOutput, "resource")
        \/ \E x : RecallResource(op, in) = Throws([EmptyOutput EXCEPT !.added_items = x], "resource row")
        \/ \E x : RecallResource(op, in) = Returns([EmptyOutput EXCEPT !.added_items = x])
    BY Zenon DEF RecallResource
  <2>2. Told("resource") /\ Told("resource row")
    BY DEF Told
  <2> QED
    BY <1>1, <2>1, <2>2, FlaggedOutputs, RegularReturns
<1>4. \E x : ResourceLookup(op, in) = Returns([EmptyOutput EXCEPT !.item_writes = x])
  BY Zenon DEF ResourceLookup, ForItems
<1>5. \E x : CommonToItem(op, in) = Returns([EmptyOutput EXCEPT !.item_writes = x])
  BY Zenon DEF CommonToItem, ForItems
<1>6. \E x : ItemToItem(op, in) = Returns([EmptyOutput EXCEPT !.item_writes = x])
  BY Zenon DEF ItemToItem, ForItems
<1>7. Regular(Normalize(op, in))
  <2>1. \/ Normalize(op, in) = Returns(EmptyOutput)
        \/ Normalize(op, in) = Throws(EmptyOutput, "not a number")
        \/ \E vs : Normalize(op, in) = Returns(SetColumn(EmptyOutput, The(op.item_output), vs))
    BY Zenon DEF Normalize
  <2>2. Told("not a number")
    BY DEF Told
  <2> QED
    BY <2>1, <2>2, FlaggedOutputs, RegularReturns
<1>8. Regular(RemotePineapple(op, in))
  <2> DEFINE common == IF op.common_output = {} \/ op.args.reply.common = Absent THEN EmptyOutput
                       ELSE SetCommon(EmptyOutput, The(op.common_output), op.args.reply.common)
  <2>1. \/ \E x : RemotePineapple(op, in) = Returns([common EXCEPT !.item_writes = x])
        \/ RemotePineapple(op, in) = Throws(EmptyOutput, "remote")
        \/ RemotePineapple(op, in) = Returns(SetWarning(EmptyOutput))
    <3>1. \E x : TakeReply(op, in, op.args.reply) = [common EXCEPT !.item_writes = x]
      BY Zenon DEF TakeReply, ForItems
    <3> HIDE DEF common
    <3> QED
      BY <3>1, Zenon DEF RemotePineapple
  <2>2. IsOutput(common) /\ Flagged(common)
    BY EmptyIsOutput, SetCommonIsOutput, FlaggedOutputs
  <2>3. Told("remote")
    BY DEF Told
  <2> HIDE DEF common
  <2> QED
    BY <2>1, <2>2, <2>3, FlaggedOutputs, FlaggedWrites, RegularReturns
<1> QED
  BY <1>1, <1>2, <1>3, <1>4, <1>5, <1>6, <1>7, <1>8, RegularReturns

LEMMA OthersAreRegular ==
    ASSUME NEW op, NEW in
    PROVE  /\ Regular(CommonToCommon(op, in)) /\ Regular(ItemToCommon(op, in))
           /\ Regular(Size(op, in)) /\ Regular(FilterCondition(op, in))
           /\ Regular(Truncate(op, in)) /\ Regular(Paginate(op, in))
           /\ Regular(Sort(op, in)) /\ Regular(Shuffle(op, in))
           /\ Regular(Dedup(op, in)) /\ Regular(Observe(op, in))
<1>1. \A f, v : Regular(Returns(SetCommon(EmptyOutput, f, v)))
  BY FlaggedOutputs, RegularReturns
<1>2. \A S : Regular(Returns(RemoveItems(EmptyOutput, S)))
  BY FlaggedOutputs, RegularReturns
<1>3. \A o : Regular(Returns(SetItemOrder(EmptyOutput, o)))
  BY FlaggedOutputs, RegularReturns
<1>4. Regular(Returns(EmptyOutput)) /\ \A e : Told(e) => Regular(Throws(EmptyOutput, e))
  BY FlaggedOutputs, RegularReturns
<1>5. \E f, v : CommonToCommon(op, in) = Returns(SetCommon(EmptyOutput, f, v))
  BY Zenon DEF CommonToCommon
<1>6. \E f, v : ItemToCommon(op, in) = Returns(SetCommon(EmptyOutput, f, v))
  BY Zenon DEF ItemToCommon
<1>7. \E f, v : Size(op, in) = Returns(SetCommon(EmptyOutput, f, v))
  BY Zenon DEF Size
<1>8. \E S : FilterCondition(op, in) = Returns(RemoveItems(EmptyOutput, S))
  BY Zenon DEF FilterCondition
<1>9. \E S : Paginate(op, in) = Returns(RemoveItems(EmptyOutput, S))
  BY Zenon DEF Paginate
<1>10. \E S : Dedup(op, in) = Returns(RemoveItems(EmptyOutput, S))
  BY Zenon DEF Dedup
<1>11. \/ Truncate(op, in) = Throws(EmptyOutput, "negative top_n")
       \/ \E S : Truncate(op, in) = Returns(RemoveItems(EmptyOutput, S))
  BY Zenon DEF Truncate
<1>12. \/ Sort(op, in) = Returns(EmptyOutput)
       \/ Sort(op, in) = Throws(EmptyOutput, "not a number") \/ Sort(op, in) = Throws(EmptyOutput, "order")
       \/ \E o : Sort(op, in) = Returns(SetItemOrder(EmptyOutput, o))
  BY Zenon DEF Sort
<1>13. Shuffle(op, in) = Returns(EmptyOutput) \/ \E o : Shuffle(op, in) = Returns(SetItemOrder(EmptyOutput, o))
  BY Zenon DEF Shuffle
<1>14. Observe(op, in) = Returns(EmptyOutput)
  BY Zenon DEF Observe
<1>15. Told("negative top_n") /\ Told("not a number") /\ Told("order")
  BY DEF Told
<1>16. Regular(Truncate(op, in)) /\ Regular(Sort(op, in)) /\ Regular(Shuffle(op, in)) /\ Regular(Observe(op, in))
  BY <1>2, <1>3, <1>4, <1>11, <1>12, <1>13, <1>14, <1>15
<1> QED
  BY <1>1, <1>2, <1>5, <1>6, <1>7, <1>8, <1>9, <1>10, <1>16

LEMMA ExecuteIsRegular ==
    ASSUME NEW op, WellFormed(op), NEW in
    PROVE  Regular(Execute(op, in))
<1>1. /\ Regular(RecallStatic(op, in)) /\ Regular(RecallResource(op, in))
      /\ Regular(ResourceLookup(op, in)) /\ Regular(CommonToItem(op, in))
      /\ Regular(ItemToItem(op, in)) /\ Regular(Normalize(op, in)) /\ Regular(RemotePineapple(op, in))
  BY LoopsAreRegular
<1>2. /\ Regular(CommonToCommon(op, in)) /\ Regular(ItemToCommon(op, in))
      /\ Regular(Size(op, in)) /\ Regular(FilterCondition(op, in))
      /\ Regular(Truncate(op, in)) /\ Regular(Paginate(op, in))
      /\ Regular(Sort(op, in)) /\ Regular(Shuffle(op, in))
      /\ Regular(Dedup(op, in)) /\ Regular(Observe(op, in))
  BY OthersAreRegular
<1>3. op.type_name = "custom" => Regular(CustomOperator(op, in))
  BY DEF WellFormed, CustomOperator, Regular, Told
<1>4. op.type_name \in {"recall_static", "recall_resource", "transform_resource_lookup", "common_to_item",
                        "transform_dispatch", "common_to_common", "item_to_item", "item_to_common",
                        "transform_size", "transform_normalize", "filter_condition", "filter_truncate",
                        "filter_paginate", "reorder_sort", "reorder_shuffle_by_salt", "merge_dedup",
                        "observe_log", "transform_by_remote_pineapple", "custom"}
  BY DEF WellFormed
<1> HIDE DEF Regular
<1> QED
  BY <1>1, <1>2, <1>3, <1>4 DEF Execute

(* A buffer that has been reset holds what the operator puts there.        *)
LEMMA OntoEmpty ==
    ASSUME NEW out, IsOutput(out), Flagged(out)
    PROVE  Onto(EmptyOutput, out) = out
<1> DEFINE c == out.common_writes
<1>1. Overlay(BlankCommon, c) = c
  <2>1. c = [f \in CommonFields |-> c[f]]
    BY DEF IsOutput, IsCommon
  <2> HIDE DEF c
  <2>2. Overlay(BlankCommon, c) = [f \in CommonFields |-> IF c[f] = Absent THEN Absent ELSE c[f]]
    BY DEF Overlay, BlankCommon
  <2>3. [f \in CommonFields |-> IF c[f] = Absent THEN Absent ELSE c[f]] = [f \in CommonFields |-> c[f]]
    OBVIOUS
  <2> QED
    BY <2>1, <2>2, <2>3, Zenon
<1>2. ASSUME NEW s, IsList(s)
      PROVE  <<>> \o s = s
  <2>1. s \in Seq({s[k] : k \in 1 .. Len(s)})
    BY <1>2, ListIsSeq
  <2> QED
    BY <2>1, ConcatEmptySeq
<1>3. /\ <<>> \o out.item_writes = out.item_writes /\ <<>> \o out.column_writes = out.column_writes
      /\ <<>> \o out.added_items = out.added_items
  BY <1>2 DEF IsOutput
<1>4. /\ out.has_warning \in BOOLEAN /\ out.has_item_order \in BOOLEAN
      /\ ~out.has_item_order => out.item_order = <<>>
  BY DEF Flagged
<1>5. (FALSE \/ out.has_warning) = out.has_warning /\ (FALSE \/ out.has_item_order) = out.has_item_order
  BY <1>4
<1>6. /\ EmptyOutput.common_writes = BlankCommon /\ EmptyOutput.item_writes = <<>>
      /\ EmptyOutput.column_writes = <<>> /\ EmptyOutput.added_items = <<>>
      /\ EmptyOutput.removed_items = {} /\ EmptyOutput.item_order = <<>>
      /\ EmptyOutput.has_item_order = FALSE /\ EmptyOutput.has_warning = FALSE
  BY DEF EmptyOutput
<1>7. (IF out.has_item_order THEN out.item_order ELSE <<>>) = out.item_order
  BY <1>4
<1>8. {} \cup out.removed_items = out.removed_items
  OBVIOUS
<1> DEFINE e == EmptyOutput
<1>9. Onto(e, out) =
        [common_writes |-> Overlay(e.common_writes, out.common_writes),
         item_writes |-> e.item_writes \o out.item_writes,
         column_writes |-> e.column_writes \o out.column_writes,
         added_items |-> e.added_items \o out.added_items,
         removed_items |-> e.removed_items \cup out.removed_items,
         item_order |-> IF out.has_item_order THEN out.item_order ELSE e.item_order,
         has_item_order |-> e.has_item_order \/ out.has_item_order,
         has_warning |-> e.has_warning \/ out.has_warning]
  BY Zenon DEF Onto
<1>10. Onto(e, out) =
        [common_writes |-> out.common_writes, item_writes |-> out.item_writes,
         column_writes |-> out.column_writes, added_items |-> out.added_items,
         removed_items |-> out.removed_items, item_order |-> out.item_order,
         has_item_order |-> out.has_item_order, has_warning |-> out.has_warning]
  BY <1>1, <1>3, <1>5, <1>6, <1>7, <1>8, <1>9, Zenon
<1>11. out = [common_writes |-> out.common_writes, item_writes |-> out.item_writes,
              column_writes |-> out.column_writes, added_items |-> out.added_items,
              removed_items |-> out.removed_items, item_order |-> out.item_order,
              has_item_order |-> out.has_item_order, has_warning |-> out.has_warning]
  BY Zenon DEF IsOutput
<1> QED
  BY <1>10, <1>11, Zenon

(* Nor has an error of apply_output, or of what is checked before, such a  *)
(* name.                                                                   *)
LEMMA AddingTold ==
    ASSUME NEW fr, NEW i, NEW row, NEW name, NEW recall
    PROVE  Told(ColumnAdd(fr, i, row, name, recall).error)
<1>1. PICK n \in Nat : \E g : AddRun(g, fr, i, row, name, n) /\ ColumnAdd(fr, i, row, name, recall) = g[n]
  BY AddResult
<1>2. PICK g : AddRun(g, fr, i, row, name, n) /\ ColumnAdd(fr, i, row, name, recall) = g[n]
  BY <1>1
<1> DEFINE P == {k \in Nat : k \in 0 .. n => Told(g[k].error)}
<1>3. \A h, f, v : Told(AddField(h, i, f, v).error)
  BY DEF AddField, Good, Bad, Told
<1>4. \A a, k : Told(a.error) => Told(AddNext(a, i, row, name, k).error)
  BY <1>3, Zenon DEF AddNext
<1>5. 0 \in P
  BY <1>2 DEF AddRun, Good, Told
<1>6. ASSUME NEW k \in 1 .. n, k - 1 \in P
      PROVE  k \in P
  <2>1. Told(g[k - 1].error)
    BY <1>1, <1>6
  <2>2. g[k] = AddNext(g[k - 1], i, row, name, k)
    BY <1>1, <1>2 DEF AddRun
  <2> QED
    BY <1>1, <1>4, <2>1, <2>2
<1>7. 0 .. n \subseteq P
  <2> HIDE DEF P
  <2> QED
    BY <1>1, <1>5, <1>6, AscentFromZero
<1>8. n \in P
  <2> HIDE DEF P
  <2> QED
    BY <1>1, <1>7
<1> QED
  BY <1>1, <1>2, <1>8

LEMMA PartTold ==
    ASSUME NEW fr, NEW part, NEW C, NEW F, NEW way, Fits(part, C, F, way), NEW name, NEW recall
    PROVE  Told(ApplyPart(fr, part, name, recall).error)
<1> DEFINE w == part.what
<1>1. w \in {"common", "item", "column", "remove", "order", "extend", "add"}
  BY DEF Fits
<1>2. \A h, o, n : Told(OrderError(o, n)) /\ Told("none")
  BY Zenon DEF OrderError, Told
<1>3. Told(RowPart(fr, part, name, recall).error)
  <2>1. Told(WriteCommon(fr, part.arg).error) /\ Told(RowWriteItem(fr, part.arg).error)
    BY DEF WriteCommon, RowWriteItem, Good, Bad, Told
  <2>2. Told(RowWriteColumn(fr, part.arg).error) /\ Told(RowRemove(fr, part.arg).error)
    BY DEF RowWriteColumn, RowRemove, Good, Bad, Told
  <2>3. \A e : Told(e) => Told(RowReorder(fr, part.arg, e).error)
    BY DEF RowReorder, Good, Bad, Told
  <2>4. Told(RowAdd(fr, part.arg.row, name, recall).error)
    BY DEF RowAdd, Good, Bad, Told
  <2>5. \A h : Told(Good(h).error)
    BY DEF Good, Told
  <2> QED
    BY <1>1, <1>2, <2>1, <2>2, <2>3, <2>4, <2>5 DEF RowPart
<1>4. Told(ColumnPart(fr, part, name, recall).error)
  <2>1. Told(WriteCommon(fr, part.arg).error) /\ Told(ColumnWriteItem(fr, part.arg).error)
    BY DEF WriteCommon, ColumnWriteItem, Good, Bad, Told
  <2>2. Told(ColumnWriteColumn(fr, part.arg).error)
    BY DEF ColumnWriteColumn, Good, Bad, Told
  <2>3. \A h, e : Told(Good(h).error) /\ (Told(e) => Told(Bad(h, e).error))
    BY DEF Good, Bad, Told
  <2>4. \A e : Told(e) => Told(ColumnReorder(fr, part.arg, e).error)
    BY <2>3, Zenon DEF ColumnReorder
  <2>5. Told(ColumnRemove(fr, part.arg).error)
    <3>1. Told("remove index")
      BY DEF Told
    <3> QED
      BY <2>3, <3>1, Zenon DEF ColumnRemove
  <2>6. Told(ColumnAdd(fr, fr.n - part.arg.left, part.arg.row, name, recall).error)
    BY AddingTold
  <2> QED
    BY <1>1, <1>2, <2>1, <2>2, <2>3, <2>4, <2>5, <2>6 DEF ColumnPart
<1> QED
  BY <1>3, <1>4 DEF ApplyPart

LEMMA AppliedTold ==
    ASSUME NEW fr, NEW op, NEW i, NEW out, IsOutput(out)
    PROVE  Told(Applied(fr, op, i, out).error)
<1> DEFINE ps == Parts(out)
           n == Len(ps)
           recall == (op.operator_type = "recall")
           C == Keys(out.common_writes)
<1>1. AllFit(ps, C, {}, "moves")
  BY PartsFit
<1> HIDE DEF ps, C
<1>2. IsList(ps) /\ n \in Nat /\ \A k \in 1 .. n : Fits(ps[k], C, {}, "moves")
  BY <1>1, ListDomain DEF AllFit
<1> HIDE DEF recall
<1>3. PICK g : PartsRun(g, fr, ps, i, recall, n) /\ ApplyParts(fr, ps, i, recall) = g[n]
  BY <1>2, PartsResult
<1> HIDE DEF n
<1> DEFINE P == {k \in Nat : k \in 0 .. n => Told(g[k].error)}
<1>4. 0 \in P
  BY <1>3 DEF PartsRun, Good, Told
<1>5. ASSUME NEW k \in 1 .. n, k - 1 \in P
      PROVE  k \in P
  <2>1. Told(g[k - 1].error)
    BY <1>2, <1>5
  <2>2. g[k] = IF g[k - 1].error # "none" THEN g[k - 1] ELSE ApplyPart(g[k - 1].frame, ps[k], i, recall)
    BY <1>2, <1>3 DEF PartsRun
  <2>3. Told(ApplyPart(g[k - 1].frame, ps[k], i, recall).error)
    BY <1>2, PartTold
  <2> QED
    BY <1>2, <2>1, <2>2, <2>3
<1>6. n \in P
  <2>1. 0 .. n \subseteq P
    <3> HIDE DEF P
    <3> QED
      BY <1>2, <1>4, <1>5, AscentFromZero
  <2> HIDE DEF P
  <2> QED
    BY <1>2, <2>1
<1>7. Told(ApplyParts(fr, ps, i, recall).error)
  BY <1>2, <1>3, <1>6
<1>8. Applied(fr, op, i, out) = ApplyParts(fr, ps, i, recall)
      \/ Applied(fr, op, i, out) = Bad(fr, "type violation") \/ Applied(fr, op, i, out) = Bad(fr, "undeclared")
  BY Zenon DEF Applied, ApplyOutput, ps, recall
<1>9. Told(Bad(fr, "type violation").error) /\ Told(Bad(fr, "undeclared").error)
  BY DEF Bad, Told
<1> QED
  BY <1>7, <1>8, <1>9

LEMMA WindowsTold ==
    ASSUME NEW fr, NEW op
    PROVE  /\ Told(ResolveTemplate(fr, op).error)
           /\ Told(CommonWindow(fr, op)) /\ Told(StrictWindow(fr, Master, op)) /\ Told(NullableWindow(fr, Master, op))
<1>1. ResolveTemplate(fr, op).error \in {"none", "template missing", "template coerce"}
  <2>1. \/ \E v : ResolveTemplate(fr, op) = [error |-> "none", value |-> v]
        \/ \E v : ResolveTemplate(fr, op) = [error |-> "template missing", value |-> v]
        \/ \E v : ResolveTemplate(fr, op) = [error |-> "template coerce", value |-> v]
    BY Zenon DEF ResolveTemplate
  <2>2. \A e, v : [error |-> e, value |-> v].error = e
    OBVIOUS
  <2>3. \E e \in {"none", "template missing", "template coerce"} : ResolveTemplate(fr, op).error = e
    BY <2>1, <2>2, Zenon
  <2> QED
    BY <2>3
<1>2. CommonWindow(fr, op) = "nil in common" \/ CommonWindow(fr, op) = "missing in common" \/ CommonWindow(fr, op) = "none"
  BY Zenon DEF CommonWindow
<1>3. StrictWindow(fr, Master, op) = "nil on item" \/ StrictWindow(fr, Master, op) = "none"
  BY Zenon DEF StrictWindow
<1>4. NullableWindow(fr, Master, op) = "missing on item" \/ NullableWindow(fr, Master, op) = "none"
  BY Zenon DEF NullableWindow
<1> QED
  BY <1>1, <1>2, <1>3, <1>4 DEF Told

---------------------------------------------------------------------------
(* A node run by itself, one window after another.                         *)

LEMMA FirstOfTwo ==
    ASSUME NEW a, NEW b
    PROVE  FirstError(<<a, b>>) = IF a # "none" THEN a ELSE b
<1> DEFINE s == <<a, b>>
           First(k) == s[k] # "none" /\ \A j \in 1 .. k - 1 : s[j] = "none"
           K == CHOOSE k \in DOMAIN s : First(k)
<1>1. FirstError(s) = IF \A k \in DOMAIN s : s[k] = "none" THEN "none" ELSE s[K]
  BY Zenon DEF FirstError
<1>2. DOMAIN s = 1 .. 2 /\ s[1] = a /\ s[2] = b
  OBVIOUS
<1> HIDE DEF s
<1>3. \A k \in 1 .. 2 : First(k) => K \in 1 .. 2 /\ First(K)
  BY <1>2, Zenon
<1>4. \A k, l \in 1 .. 2 : First(k) /\ First(l) => k = l
  OBVIOUS
<1>5. a # "none" => First(1)
  BY <1>2
<1>6. a = "none" /\ b # "none" => First(2)
  BY <1>2
<1>7. \A k \in 1 .. 2 : First(k) => K = k
  <2> HIDE DEF First, K
  <2> QED
    BY <1>3, <1>4
<1> HIDE DEF First, K
<1>8. a # "none" => FirstError(s) = a
  BY <1>1, <1>2, <1>5, <1>7
<1>9. a = "none" /\ b # "none" => FirstError(s) = b
  BY <1>1, <1>2, <1>6, <1>7
<1>10. a = "none" /\ b = "none" => FirstError(s) = "none"
  BY <1>1, <1>2
<1> QED
  BY <1>8, <1>9, <1>10 DEF s

LEMMA FirstOfThree ==
    ASSUME NEW a, NEW b, NEW c
    PROVE  FirstError(<<a, b, c>>) = IF a # "none" THEN a ELSE IF b # "none" THEN b ELSE c
<1> DEFINE s == <<a, b, c>>
           First(k) == s[k] # "none" /\ \A j \in 1 .. k - 1 : s[j] = "none"
           K == CHOOSE k \in DOMAIN s : First(k)
<1>1. FirstError(s) = IF \A k \in DOMAIN s : s[k] = "none" THEN "none" ELSE s[K]
  BY Zenon DEF FirstError
<1>2. DOMAIN s = 1 .. 3 /\ s[1] = a /\ s[2] = b /\ s[3] = c
  OBVIOUS
<1> HIDE DEF s
<1>3. \A k \in 1 .. 3 : First(k) => K \in 1 .. 3 /\ First(K)
  BY <1>2, Zenon
<1>4. \A k, l \in 1 .. 3 : First(k) /\ First(l) => k = l
  OBVIOUS
<1>5. a # "none" => First(1)
  BY <1>2
<1>6. a = "none" /\ b # "none" => First(2)
  BY <1>2
<1>7. a = "none" /\ b = "none" /\ c # "none" => First(3)
  BY <1>2
<1>8. \A k \in 1 .. 3 : First(k) => K = k
  <2> HIDE DEF First, K
  <2> QED
    BY <1>3, <1>4
<1> HIDE DEF First, K
<1>9. a # "none" => FirstError(s) = a
  BY <1>1, <1>2, <1>5, <1>8
<1>10. a = "none" /\ b # "none" => FirstError(s) = b
  BY <1>1, <1>2, <1>6, <1>8
<1>11. a = "none" /\ b = "none" /\ c # "none" => FirstError(s) = c
  BY <1>1, <1>2, <1>7, <1>8
<1>12. a = "none" /\ b = "none" /\ c = "none" => FirstError(s) = "none"
  BY <1>1, <1>2
<1> QED
  BY <1>9, <1>10, <1>11, <1>12 DEF s

LEMMA AloneFails ==
    ASSUME NEW fr, NEW op, NEW i, ~ShouldSkip(fr, op), NEW e, e # "none",
           \/ ResolveTemplate(fr, op).error = e
           \/ ResolveTemplate(fr, op).error = "none" /\ BuildError(fr, Master, op) = e
    PROVE  RunAlone(fr, op, i) = Alone(fr, e, FALSE)
<1> DEFINE params == ResolveTemplate(fr, op)
           b == BuildError(fr, Master, op)
<1>1. FirstError(<<params.error, b>>) = e
  <2> HIDE DEF params, b
  <2>1. params.error = e \/ (params.error = "none" /\ b = e)
    BY DEF params, b
  <2> DEFINE p == params.error
  <2>2. FirstError(<<p, b>>) = IF p # "none" THEN p ELSE b
    BY FirstOfTwo
  <2> QED
    BY <2>1, <2>2
<1>2. RunAlone(fr, op, i) = AloneExecute(fr, op, i, params, FirstError(<<params.error, b>>))
  BY Zenon DEF RunAlone, AloneBuild
<1>3. RunAlone(fr, op, i) = AloneExecute(fr, op, i, params, e)
  <2> HIDE DEF params, b
  <2> QED
    BY <1>1, <1>2, Zenon
<1> QED
  BY <1>3, Zenon DEF AloneExecute

(* What an operator returns on the whole frame.                            *)
Answers(fr, op, params) == Execute(op, OperatorInput(fr, Master, op, ItemCount(fr), params))

LEMMA AloneRuns ==
    ASSUME NEW fr, NEW op, NEW i, ~ShouldSkip(fr, op), ResolveTemplate(fr, op).error = "none",
           BuildError(fr, Master, op) = "none"
    PROVE  RunAlone(fr, op, i) = AloneApply(fr, op, i, Answers(fr, op, ResolveTemplate(fr, op).value))
<1> DEFINE params == ResolveTemplate(fr, op)
           b == BuildError(fr, Master, op)
<1>1. FirstError(<<params.error, b>>) = "none"
  <2> HIDE DEF params, b
  <2>1. params.error = "none" /\ b = "none"
    BY DEF params, b
  <2> DEFINE p == params.error
  <2>2. FirstError(<<p, b>>) = IF p # "none" THEN p ELSE b
    BY FirstOfTwo
  <2> QED
    BY <2>1, <2>2
<1>2. RunAlone(fr, op, i) = AloneExecute(fr, op, i, params, FirstError(<<params.error, b>>))
  BY Zenon DEF RunAlone, AloneBuild
<1>3. RunAlone(fr, op, i) = AloneExecute(fr, op, i, params, "none")
  <2> HIDE DEF params, b
  <2> QED
    BY <1>1, <1>2, Zenon
<1> QED
  BY <1>3, Zenon DEF AloneExecute, Answers

---------------------------------------------------------------------------
(* Where a node's body has got to, on the frame as it is.                  *)

(* The plans the proof is about: none of the operators is sharded.         *)
Plain(ops) == \A i \in DOMAIN ops : WellDeclared(ops[i]) /\ ops[i].data_parallel <= 1

(* What the checks of build_input have found so far, and what the operator *)
(* has left in the buffer of its worker, is what they would find and leave *)
(* on the frame fr.                                                        *)
GoneOn(fr, op, ph, v, out) ==
    /\ ph # "shards"
    /\ ~ShouldSkip(fr, op)
    /\ ResolveTemplate(fr, op).error = "none" /\ ResolveTemplate(fr, op).value = v.templated
    /\ ph # "common" => CommonWindow(fr, op) = "none"
    /\ ph \in {"nullable", "ready", "executed"} => StrictWindow(fr, Master, op) = "none"
    /\ ph \in {"ready", "executed"} => NullableWindow(fr, Master, op) = "none"
    /\ ph = "ready" /\ Dag!ReadsRowSet(Shape(op)) => v.count = ItemCount(fr)
    /\ IF ph = "executed" THEN Answers(fr, op, v.templated).error = "none" /\ out = Answers(fr, op, v.templated).out
       ELSE out = EmptyOutput

LEMMA AnswersAgree ==
    ASSUME NEW a, NEW b, NEW op, WellFormed(op), WellMarked(op), WellDeclared(op), Seen(b, op) = Seen(a, op), NEW params
    PROVE  Answers(b, op, params) = Answers(a, op, params)
<1> DEFINE m == ItemCount(a)
           n == ItemCount(b)
           x == OperatorInput(a, Master, op, m, params)
           y == OperatorInput(b, Master, op, n, params)
<1>1. Dag!ReadsRowSet(Shape(op)) => n = m
  BY SeenAgrees
<1> HIDE DEF m, n
<1>2. Alike(x, y, op)
  BY <1>1, InputsAgree
<1> HIDE DEF x, y
<1>3. Execute(op, y) = Execute(op, x)
  BY <1>2, ExecuteAlike
<1> QED
  BY <1>3 DEF Answers, x, y, m, n

(* Another node's step does not take it back.                              *)
LEMMA GoneOnCarries ==
    ASSUME NEW a, NEW b, IsFrame(a), IsFrame(b), b.layout = a.layout,
           NEW op, WellFormed(op), WellMarked(op), WellDeclared(op), Seen(b, op) = Seen(a, op),
           NEW ph, NEW v, NEW out, GoneOn(a, op, ph, v, out)
    PROVE  GoneOn(b, op, ph, v, out)
<1>1. /\ ShouldSkip(b, op) <=> ShouldSkip(a, op)
      /\ ResolveTemplate(b, op) = ResolveTemplate(a, op)
      /\ CommonWindow(b, op) = CommonWindow(a, op)
  BY ControlAgrees
<1>2. /\ StrictWindow(b, Master, op) = StrictWindow(a, Master, op)
      /\ NullableWindow(b, Master, op) = NullableWindow(a, Master, op)
  BY WindowsAgree
<1>3. Dag!ReadsRowSet(Shape(op)) => ItemCount(b) = ItemCount(a)
  BY SeenAgrees
<1>4. Answers(b, op, v.templated) = Answers(a, op, v.templated)
  BY AnswersAgree
<1> QED
  BY <1>1, <1>2, <1>3, <1>4 DEF GoneOn

---------------------------------------------------------------------------
(* The steps of a node: its fate is settled as it would be by itself, or   *)
(* it goes on.                                                             *)

(* The node leaves the frame and the fate that RunAlone gives.  Its        *)
(* warning is in the frame, or still in the buffer of its worker when it   *)
(* has failed.                                                             *)
Noting(i, d) == IF d THEN Append(warnings, i) ELSE warnings
Fixes(i) ==
    /\ phase[i] \in Busy \cup {"waiting"}
    /\ \E how, d :
          /\ RunAlone(frame, plan[i], i) = Alone(frame', how, d)
          /\ how # "none" /\ outcome' = [outcome EXCEPT ![i] = how]
          /\ frame'.layout = frame.layout /\ fatal' = fatal
          /\ \/ /\ ~Failed(how) /\ phase' = [phase EXCEPT ![i] = "ended"]
                /\ warnings' = Noting(i, d)
             \/ /\ Failed(how) /\ phase' = [phase EXCEPT ![i] = "caught"]
                /\ warnings' = warnings /\ tls_out'[worker'[i]].has_warning = d

(* It moves on, and has still done nothing to the frame.                   *)
GoesOn(i) ==
    /\ phase[i] \in Busy \cup {"waiting"}
    /\ \E p \in Busy : phase' = [phase EXCEPT ![i] = p]
    /\ UNCHANGED <<frame, outcome, warnings, fatal>>
    /\ GoneOn(frame, plan[i], phase'[i], view'[i], tls_out'[worker'[i]])

LEMMA ThrowFixes ==
    ASSUME NEW i, phase[i] \in Busy \cup {"waiting"}, NEW how, how # "none", Told(how), Throw(i, how),
           NEW d, tls_out'[worker'[i]].has_warning = d,
           RunAlone(frame, plan[i], i) = Alone(frame', how, d), frame'.layout = frame.layout
    PROVE  Fixes(i)
<1>1. /\ outcome' = [outcome EXCEPT ![i] = how] /\ phase' = [phase EXCEPT ![i] = "caught"]
      /\ warnings' = warnings /\ fatal' = fatal
  BY Zenon DEF Throw
<1>2. Failed(how)
  BY DEF Failed, Told
<1> QED
  BY <1>1, <1>2, Zenon DEF Fixes

LEMMA EndFixes ==
    ASSUME NEW i, phase[i] \in Busy \cup {"waiting"}, NEW how, how \in {"done", "skipped"}, End(i, how),
           NEW d, warnings' = Noting(i, d), fatal' = fatal,
           RunAlone(frame, plan[i], i) = Alone(frame', how, d), frame'.layout = frame.layout
    PROVE  Fixes(i)
<1>1. outcome' = [outcome EXCEPT ![i] = how] /\ phase' = [phase EXCEPT ![i] = "ended"]
  BY Zenon DEF End
<1>2. how # "none" /\ ~Failed(how)
  BY DEF Failed
<1> QED
  BY <1>1, <1>2, Zenon DEF Fixes

(* A node whose input cannot be built throws with an empty buffer.         *)
LEMMA FailsSilently ==
    ASSUME NEW i, phase[i] \in Busy \cup {"waiting"}, NEW e, e # "none", Told(e), Throw(i, e), frame' = frame,
           tls_out'[worker'[i]] = EmptyOutput, RunAlone(frame, plan[i], i) = Alone(frame, e, FALSE)
    PROVE  Fixes(i)
<1>1. tls_out'[worker'[i]].has_warning = FALSE
  BY DEF EmptyOutput
<1> QED
  BY <1>1, ThrowFixes

At(i) == GoneOn(frame, plan[i], phase[i], view[i], tls_out[worker[i]])

LEMMA BeginProgress ==
    ASSUME PipelineInv, Plain(plan), NEW i \in Nodes, Begin(i)
    PROVE  Fixes(i) \/ GoesOn(i)
<1> DEFINE w == FreeWorker
           op == plan[i]
           params == ResolveTemplate(frame, op)
           items == ItemCount(frame)
           v == [templated |-> params.value, count |-> 0, seen |-> Seen(frame, op)]
<1>1. /\ Startable(i) /\ tls_out' = [tls_out EXCEPT ![w] = Reset(@)] /\ frame' = frame
      /\ \/ ShouldSkip(frame, op) /\ End(i, "skipped") /\ UNCHANGED <<warnings, view, shards, fatal>>
         \/ ~ShouldSkip(frame, op) /\ Begun(i, op, w, params, items)
  BY Zenon DEF Begin
<1>2. phase[i] = "waiting" /\ phase[i] \in Busy \cup {"waiting"}
  BY <1>1 DEF Startable
<1>3. w \in Workers
  BY <1>2, AWorkerIsFree DEF PipelineInv
<1> HIDE DEF w
<1>4. tls_out'[w] = EmptyOutput
  BY <1>1, <1>3 DEF Reset, PipelineInv, Buffers
<1>5. CASE ShouldSkip(frame, op) /\ End(i, "skipped") /\ UNCHANGED <<warnings, view, shards, fatal>>
  <2>1. RunAlone(frame, op, i) = Alone(frame', "skipped", FALSE)
    BY <1>1, <1>5, Zenon DEF RunAlone
  <2>2. warnings' = Noting(i, FALSE)
    BY <1>5 DEF Noting
  <2>3. frame'.layout = frame.layout /\ fatal' = fatal /\ End(i, "skipped") /\ "skipped" \in {"done", "skipped"}
    BY <1>1, <1>5
  <2> QED
    BY <1>2, <2>1, <2>2, <2>3, EndFixes
<1>6. CASE ~ShouldSkip(frame, op) /\ Begun(i, op, w, params, items)
  <2> DEFINE sharded == params.error = "none" /\ op.data_parallel > 1 /\ items > 0
             p == IF sharded THEN "shards" ELSE "common"
             e == params.error
  <2>1. /\ Proceed(i, p, e) /\ worker' = [worker EXCEPT ![i] = w] /\ view' = [view EXCEPT ![i] = v]
    BY <1>6, Zenon DEF Begun
  <2>2. p = "common"
    <3>1. op.data_parallel <= 1 /\ op.data_parallel \in Nat
      BY Values DEF Plain, Nodes, WellFormed
    <3> QED
      BY <3>1
  <2>3. /\ phase \in [Nodes -> Held \cup {"waiting", "ended"}] /\ worker \in [Nodes -> 0 .. MaxOps]
        /\ view = [j \in Nodes |-> view[j]]
    BY DEF PipelineInv, OrderInv, ViewInv
  <2>4. worker'[i] = w /\ view'[i] = v /\ tls_out'[worker'[i]] = EmptyOutput
    BY <1>4, <2>1, <2>3
  <2>5. v.templated = params.value
    OBVIOUS
  <2> HIDE DEF p, v
  <2>6. CASE e # "none" /\ Throw(i, e)
    <3>1. Told(e)
      BY WindowsTold
    <3>2. ~ShouldSkip(frame, op) /\ e # "none" /\ ResolveTemplate(frame, op).error = e
      BY <1>6, <2>6
    <3> HIDE DEF e
    <3>3. RunAlone(frame, op, i) = Alone(frame, e, FALSE)
      BY <3>2, AloneFails
    <3> QED
      BY <1>1, <1>2, <2>4, <2>6, <3>1, <3>3, FailsSilently
  <2>7. CASE e = "none" /\ phase' = [phase EXCEPT ![i] = p] /\ UNCHANGED <<warnings, outcome, fatal>>
    <3>1. phase'[i] = "common" /\ "common" \in Busy
      BY <2>2, <2>3, <2>7 DEF Busy
    <3>2. GoneOn(frame, op, "common", v, EmptyOutput)
      BY <1>6, <2>5, <2>7 DEF GoneOn
    <3> QED
      BY <1>1, <1>2, <2>2, <2>4, <2>7, <3>1, <3>2 DEF GoesOn
  <2> QED
    BY <2>1, <2>6, <2>7, Zenon DEF Proceed
<1> QED
  BY <1>1, <1>5, <1>6

LEMMA CheckProgress ==
    ASSUME PipelineInv, NEW i \in Nodes, At(i), NEW from \in Busy, NEW to \in Busy, NEW error,
           Check(i, from, to, error), Told(error), from # "executed",
           error = "none" => GoneOn(frame, plan[i], to, view'[i], tls_out[worker[i]]),
           error # "none" => BuildError(frame, Master, plan[i]) = error
    PROVE  Fixes(i) \/ GoesOn(i)
<1>1. /\ phase[i] = from /\ phase[i] \in Busy \cup {"waiting"} /\ Proceed(i, to, error)
      /\ UNCHANGED <<frame, worker, tls_out>>
  BY Zenon DEF Check
<1>2. CASE error = "none" /\ phase' = [phase EXCEPT ![i] = to] /\ UNCHANGED <<warnings, outcome, fatal>>
  <2>1. phase \in [Nodes -> Held \cup {"waiting", "ended"}]
    BY DEF PipelineInv, OrderInv
  <2>2. phase'[i] = to
    BY <1>2, <2>1
  <2>3. GoneOn(frame, plan[i], phase'[i], view'[i], tls_out'[worker'[i]])
    BY <1>1, <1>2, <2>2
  <2> QED
    BY <1>1, <1>2, <2>3 DEF GoesOn
<1>3. CASE error # "none" /\ Throw(i, error)
  <2>1. ~ShouldSkip(frame, plan[i]) /\ ResolveTemplate(frame, plan[i]).error = "none" /\ tls_out[worker[i]] = EmptyOutput
    BY <1>1 DEF At, GoneOn
  <2>2. RunAlone(frame, plan[i], i) = Alone(frame, error, FALSE)
    BY <1>3, <2>1, AloneFails
  <2>3. tls_out'[worker'[i]] = EmptyOutput
    BY <1>1, <2>1
  <2> QED
    BY <1>1, <1>3, <2>2, <2>3, FailsSilently
<1> QED
  BY <1>1, <1>2, <1>3, Zenon DEF Proceed

LEMMA Built ==
    ASSUME NEW fr, NEW op
    PROVE  BuildError(fr, Master, op) =
             IF CommonWindow(fr, op) # "none" THEN CommonWindow(fr, op)
             ELSE IF StrictWindow(fr, Master, op) # "none" THEN StrictWindow(fr, Master, op)
             ELSE NullableWindow(fr, Master, op)
<1> DEFINE a == CommonWindow(fr, op)
           b == StrictWindow(fr, Master, op)
           c == NullableWindow(fr, Master, op)
<1>1. BuildError(fr, Master, op) = FirstError(<<a, b, c>>)
  BY Zenon DEF BuildError
<1> HIDE DEF a, b, c
<1>2. FirstError(<<a, b, c>>) = IF a # "none" THEN a ELSE IF b # "none" THEN b ELSE c
  BY FirstOfThree
<1> QED
  BY <1>1, <1>2 DEF a, b, c

LEMMA ChecksProgress ==
    ASSUME PipelineInv, NEW i \in Nodes, At(i)
    PROVE  /\ CheckCommon(i) => Fixes(i) \/ GoesOn(i)
           /\ CheckStrict(i) => Fixes(i) \/ GoesOn(i)
           /\ CheckNullable(i) => Fixes(i) \/ GoesOn(i)
<1> DEFINE op == plan[i]
           out == tls_out[worker[i]]
<1>1. "common" \in Busy /\ "strict" \in Busy /\ "nullable" \in Busy /\ "ready" \in Busy
  BY DEF Busy
<1>2. Told(CommonWindow(frame, op)) /\ Told(StrictWindow(frame, Master, op)) /\ Told(NullableWindow(frame, Master, op))
  BY WindowsTold
<1>3. ASSUME CheckCommon(i)
      PROVE  Fixes(i) \/ GoesOn(i)
  <2> DEFINE e == CommonWindow(frame, op)
  <2>1. Check(i, "common", "strict", e) /\ view' = view
    BY <1>3, Zenon DEF CheckCommon
  <2>2. phase[i] = "common"
    BY <2>1 DEF Check
  <2>3. e = "none" => GoneOn(frame, op, "strict", view'[i], out)
    BY <2>1, <2>2 DEF At, GoneOn
  <2>4. e # "none" => BuildError(frame, Master, op) = e
    BY Built
  <2> HIDE DEF e
  <2>5. Told(e)
    BY <1>2 DEF e
  <2> QED
    BY <1>1, <2>1, <2>3, <2>4, <2>5, CheckProgress
<1>4. ASSUME CheckStrict(i)
      PROVE  Fixes(i) \/ GoesOn(i)
  <2> DEFINE e == StrictWindow(frame, Master, op)
  <2>1. Check(i, "strict", "nullable", e) /\ view' = view
    BY <1>4, Zenon DEF CheckStrict
  <2>2. phase[i] = "strict"
    BY <2>1 DEF Check
  <2>3. e = "none" => GoneOn(frame, op, "nullable", view'[i], out)
    BY <2>1, <2>2 DEF At, GoneOn
  <2>4. e # "none" => BuildError(frame, Master, op) = e
    <3>1. CommonWindow(frame, op) = "none"
      BY <2>2 DEF At, GoneOn
    <3> QED
      BY <3>1, Built
  <2> HIDE DEF e
  <2>5. Told(e)
    BY <1>2 DEF e
  <2> QED
    BY <1>1, <2>1, <2>3, <2>4, <2>5, CheckProgress
<1>5. ASSUME CheckNullable(i)
      PROVE  Fixes(i) \/ GoesOn(i)
  <2> DEFINE e == NullableWindow(frame, Master, op)
             n == ItemCount(frame)
             v == [view[i] EXCEPT !.count = n]
  <2>1. Check(i, "nullable", "ready", e) /\ view' = [view EXCEPT ![i].count = n]
    BY <1>5, Zenon DEF CheckNullable
  <2>2. phase[i] = "nullable"
    BY <2>1 DEF Check
  <2>3. view = [j \in Nodes |-> view[j]] /\ IsView(view[i])
    BY DEF PipelineInv, ViewInv
  <2> HIDE DEF n
  <2>4. view'[i] = v
    BY <2>1, <2>3
  <2>5. v.templated = view[i].templated /\ v.count = n
    BY <2>3 DEF IsView
  <2> HIDE DEF v
  <2>6. e = "none" => GoneOn(frame, op, "ready", v, out)
    BY <2>2, <2>5 DEF At, GoneOn, n
  <2>7. e # "none" => BuildError(frame, Master, op) = e
    <3>1. CommonWindow(frame, op) = "none" /\ StrictWindow(frame, Master, op) = "none"
      BY <2>2 DEF At, GoneOn
    <3> QED
      BY <3>1, Built
  <2> HIDE DEF e
  <2>8. Told(e)
    BY <1>2 DEF e
  <2> QED
    BY <1>1, <2>1, <2>4, <2>6, <2>7, <2>8, CheckProgress
<1> QED
  BY <1>3, <1>4, <1>5

LEMMA RunProgress ==
    ASSUME PipelineInv, Plain(plan), NEW i \in Nodes, At(i), Run(i)
    PROVE  Fixes(i) \/ GoesOn(i)
<1> DEFINE op == plan[i]
           v == view[i]
           out == tls_out[worker[i]]
           r == Dispatched(op, Master, v.count, v.templated, "none")
<1>1. /\ phase[i] = "ready" /\ Proceed(i, "executed", r.error)
      /\ tls_out' = [tls_out EXCEPT ![worker[i]] = Onto(@, r.out)]
      /\ UNCHANGED <<frame, view, worker>>
  BY Zenon DEF Run
<1>2. /\ ~ShouldSkip(frame, op)
      /\ ResolveTemplate(frame, op).error = "none" /\ ResolveTemplate(frame, op).value = v.templated
      /\ CommonWindow(frame, op) = "none" /\ StrictWindow(frame, Master, op) = "none"
      /\ NullableWindow(frame, Master, op) = "none"
      /\ Dag!ReadsRowSet(Shape(op)) => v.count = ItemCount(frame)
      /\ out = EmptyOutput
  BY <1>1 DEF At, GoneOn
<1>3. BuildError(frame, Master, op) = "none"
  BY <1>2, Built
<1>4. WellFormed(op) /\ WellMarked(op) /\ WellDeclared(op) /\ IsFrame(frame)
  BY Values DEF Plain, Nodes
<1>5. r = Answers(frame, op, v.templated)
  <2> DEFINE m == ItemCount(frame)
             n == v.count
             p == v.templated
             x == OperatorInput(frame, Master, op, m, p)
             y == OperatorInput(frame, Master, op, n, p)
  <2>1. r = Execute(op, y)
    BY Zenon DEF Dispatched
  <2>2. Dag!ReadsRowSet(Shape(op)) => n = m
    BY <1>2
  <2>3. Seen(frame, op) = Seen(frame, op)
    OBVIOUS
  <2> HIDE DEF m, n, p
  <2>4. Alike(x, y, op)
    BY <1>4, <2>2, <2>3, InputsAgree
  <2> HIDE DEF x, y, r
  <2>5. Execute(op, y) = Execute(op, x)
    BY <1>4, <2>4, ExecuteAlike
  <2> QED
    BY <2>1, <2>5 DEF Answers, x, m, p
<1>6. IsOutput(r.out) /\ Flagged(r.out) /\ Told(r.error)
  <2>1. v.count \in Nat
    BY Values DEF IsView
  <2>2. IsOutput(r.out)
    BY <1>4, <2>1, DispatchedPutsOut
  <2>3. Regular(r)
    <3>1. Regular(Answers(frame, op, v.templated))
      BY <1>4, ExecuteIsRegular, Zenon DEF Answers
    <3> QED
      BY <1>5, <3>1, Zenon
  <2> QED
    BY <2>2, <2>3 DEF Regular
<1>7. RunAlone(frame, op, i) = AloneApply(frame, op, i, r)
  BY <1>2, <1>3, <1>5, AloneRuns
<1> HIDE DEF r
<1>8. /\ worker[i] \in Workers /\ phase[i] \in Busy \cup {"waiting"}
      /\ phase \in [Nodes -> Held \cup {"waiting", "ended"}] /\ tls_out = [x \in Workers |-> tls_out[x]]
  BY <1>1, Values DEF PipelineInv, OrderInv, Buffers, Busy
<1>9. Onto(out, r.out) = r.out
  BY <1>2, <1>6, OntoEmpty
<1>10. tls_out'[worker'[i]] = r.out
  BY <1>1, <1>8, <1>9
<1>11. CASE r.error = "none" /\ phase' = [phase EXCEPT ![i] = "executed"] /\ UNCHANGED <<warnings, outcome, fatal>>
  <2>1. phase'[i] = "executed" /\ "executed" \in Busy
    BY <1>8, <1>11 DEF Busy
  <2>2. GoneOn(frame, op, "executed", v, r.out)
    BY <1>2, <1>5, <1>11 DEF GoneOn
  <2> QED
    BY <1>1, <1>8, <1>10, <1>11, <2>1, <2>2 DEF GoesOn
<1>12. CASE r.error # "none" /\ Throw(i, r.error)
  <2> DEFINE e == r.error
             d == r.out.has_warning
             b == Bad(frame, e)
  <2>1. AloneApply(frame, op, i, r) = Alone(b.frame, IF b.error = "none" THEN "done" ELSE b.error, d)
    BY <1>12, Zenon DEF AloneApply
  <2>2. b.frame = frame /\ b.error = e
    BY DEF Bad
  <2>3. RunAlone(frame, op, i) = Alone(frame', e, d)
    <3> HIDE DEF b, d, e
    <3>1. e # "none" /\ frame' = frame
      BY <1>1, <1>12 DEF e
    <3> QED
      BY <1>7, <2>1, <2>2, <3>1
  <2>4. /\ e # "none" /\ Told(e) /\ Throw(i, e) /\ frame'.layout = frame.layout
        /\ tls_out'[worker'[i]].has_warning = d
    BY <1>1, <1>6, <1>10, <1>12
  <2> HIDE DEF d, e
  <2> QED
    BY <1>8, <2>3, <2>4, ThrowFixes
<1> QED
  BY <1>1, <1>11, <1>12, Zenon DEF Proceed

LEMMA FinishProgress ==
    ASSUME PipelineInv, NEW i \in Nodes, At(i), Finish(i)
    PROVE  Fixes(i) \/ GoesOn(i)
<1> DEFINE op == plan[i]
           out == tls_out[worker[i]]
           a == Applied(frame, op, i, out)
           t == view[i].templated
           r == Answers(frame, op, t)
           d == out.has_warning
<1>1. phase[i] = "executed" /\ AfterApply(i, a, out)
  BY Zenon DEF Finish
<1>2. /\ ~ShouldSkip(frame, op)
      /\ ResolveTemplate(frame, op).error = "none" /\ ResolveTemplate(frame, op).value = t
      /\ CommonWindow(frame, op) = "none" /\ StrictWindow(frame, Master, op) = "none"
      /\ NullableWindow(frame, Master, op) = "none"
      /\ r.error = "none" /\ out = r.out
  BY <1>1 DEF At, GoneOn
<1>3. BuildError(frame, Master, op) = "none"
  BY <1>2, Built
<1>4. RunAlone(frame, op, i) = AloneApply(frame, op, i, r)
  BY <1>2, <1>3, AloneRuns
<1>5. IsOutput(out) /\ phase[i] \in Busy \cup {"waiting"}
  BY <1>1, OwnOutput DEF Busy, Held
<1>6. Told(a.error) /\ Within(frame, a.frame, op.common_output, op.item_output, Way(op))
  BY <1>5, Values, AppliedTold, AppliedWithin
<1>7. a.frame.layout = frame.layout
  BY <1>6 DEF Within
<1>8. AloneApply(frame, op, i, r) = Alone(a.frame, IF a.error = "none" THEN "done" ELSE a.error, d)
  <2> DEFINE b == Applied(frame, op, i, r.out)
  <2>1. AloneApply(frame, op, i, r) = Alone(b.frame, IF b.error = "none" THEN "done" ELSE b.error, r.out.has_warning)
    <3> HIDE DEF r
    <3> QED
      BY <1>2, Zenon DEF AloneApply
  <2>2. b = a
    BY <1>2
  <2> HIDE DEF r, b, a
  <2> QED
    BY <1>2, <2>1, <2>2
<1>9. UNCHANGED <<worker, tls_out>> => tls_out'[worker'[i]].has_warning = d
  OBVIOUS
<1> HIDE DEF a, r, d
<1>10. frame' = a.frame
  BY <1>1, Zenon DEF AfterApply
<1>11. \/ a.error = "none" /\ warnings' = Noting(i, d) /\ End(i, "done") /\ UNCHANGED fatal
       \/ a.error # "none" /\ Throw(i, a.error) /\ UNCHANGED <<worker, tls_out>>
  BY <1>1, Zenon DEF AfterApply, Noting, d
<1>12. CASE a.error = "none" /\ warnings' = Noting(i, d) /\ End(i, "done") /\ UNCHANGED fatal
  <2>1. RunAlone(frame, op, i) = Alone(frame', "done", d)
    BY <1>4, <1>8, <1>10, <1>12
  <2>2. "done" \in {"done", "skipped"} /\ frame'.layout = frame.layout
    BY <1>7, <1>10
  <2> QED
    BY <1>5, <1>12, <2>1, <2>2, EndFixes
<1>13. CASE a.error # "none" /\ Throw(i, a.error) /\ UNCHANGED <<worker, tls_out>>
  <2> DEFINE e == a.error
  <2>1. RunAlone(frame, op, i) = Alone(frame', e, d)
    BY <1>4, <1>8, <1>10, <1>13
  <2>2. e # "none" /\ Told(e) /\ Throw(i, e) /\ frame'.layout = frame.layout /\ tls_out'[worker'[i]].has_warning = d
    BY <1>6, <1>7, <1>9, <1>10, <1>13
  <2> HIDE DEF e
  <2> QED
    BY <1>5, <2>1, <2>2, ThrowFixes
<1> QED
  BY <1>11, <1>12, <1>13

---------------------------------------------------------------------------
(* What a step of one node leaves to the others.                           *)

(* No two nodes have the same worker, and so none has its buffer taken.    *)
Distinct == \A i, j \in Nodes : worker[i] = worker[j] /\ worker[i] # 0 => i = j
Progress == Distinct /\ \A i \in Nodes : phase[i] \in Busy => At(i)

(* A step of i leaves the others where they are, with their buffers.       *)
Aside(i) ==
    /\ UNCHANGED <<plan, edges, request>>
    /\ \A j \in Nodes \ {i} : phase'[j] = phase[j] /\ view'[j] = view[j]
    /\ \A j \in Nodes \ {i} : phase[j] \in Held => tls_out'[worker'[j]] = tls_out[worker[j]]
    /\ Distinct'

LEMMA StandAside ==
    ASSUME PipelineInv, Distinct, NEW i \in Nodes, UNCHANGED <<plan, edges, request>>,
           NEW w \in Workers, \A j \in Nodes \ {i} : worker[j] # w,
           NEW p, phase' = [phase EXCEPT ![i] = p],
           NEW x, x = 0 \/ x = w, worker' = [worker EXCEPT ![i] = x],
           NEW v, view' = [view EXCEPT ![i] = v],
           NEW out, tls_out' = [tls_out EXCEPT ![w] = out]
    PROVE  Aside(i)
<1>1. /\ phase \in [Nodes -> Held \cup {"waiting", "ended"}] /\ worker \in [Nodes -> 0 .. MaxOps]
      /\ view = [j \in Nodes |-> view[j]] /\ tls_out = [y \in Workers |-> tls_out[y]]
      /\ \A j \in Nodes : phase[j] \in Held <=> worker[j] \in Workers
  BY DEF PipelineInv, OrderInv, ViewInv, Buffers
<1>2. \A j \in Nodes \ {i} : phase'[j] = phase[j] /\ view'[j] = view[j] /\ worker'[j] = worker[j]
  BY <1>1
<1>3. \A j \in Nodes \ {i} : phase[j] \in Held => tls_out'[worker'[j]] = tls_out[worker[j]]
  BY <1>1, <1>2
<1>4. Distinct'
  <2>1. Nodes' = Nodes
    BY DEF Nodes
  <2>2. worker'[i] = x
    BY <1>1
  <2>3. \A j, k \in Nodes : worker'[j] = worker'[k] /\ worker'[j] # 0 => j = k
    BY <1>1, <1>2, <2>2 DEF Distinct
  <2> QED
    BY <2>1, <2>3 DEF Distinct
<1> QED
  BY <1>2, <1>3, <1>4 DEF Aside

LEMMA OnItsWorker ==
    ASSUME PipelineInv, Distinct, NEW i \in Nodes, phase[i] \in Held
    PROVE  /\ worker[i] \in Workers /\ \A j \in Nodes \ {i} : worker[j] # worker[i]
           /\ worker = [worker EXCEPT ![i] = worker[i]]
           /\ tls_out = [tls_out EXCEPT ![worker[i]] = tls_out[worker[i]]]
           /\ view = [view EXCEPT ![i] = view[i]]
<1>1. worker[i] \in Workers /\ worker = [worker EXCEPT ![i] = worker[i]] /\ view = [view EXCEPT ![i] = view[i]]
  BY Values
<1>2. worker[i] # 0
  BY <1>1, Values
<1>3. tls_out = [tls_out EXCEPT ![worker[i]] = tls_out[worker[i]]]
  BY <1>1, BuffersSame DEF PipelineInv
<1> QED
  BY <1>1, <1>2, <1>3 DEF Distinct

LEMMA ProceedSteps ==
    ASSUME NEW i, NEW to, NEW error, Proceed(i, to, error)
    PROVE  \E p : phase' = [phase EXCEPT ![i] = p]
BY Zenon DEF Proceed, Throw

LEMMA BeginAside ==
    ASSUME PipelineInv, Distinct, NEW i \in Nodes, Begin(i)
    PROVE  Aside(i)
<1> DEFINE w == FreeWorker
           op == plan[i]
           params == ResolveTemplate(frame, op)
           v == [templated |-> params.value, count |-> 0, seen |-> Seen(frame, op)]
<1>1. /\ Startable(i) /\ tls_out' = [tls_out EXCEPT ![w] = Reset(@)]
      /\ UNCHANGED <<plan, edges, request, shard_outs>>
      /\ \/ End(i, "skipped") /\ UNCHANGED view
         \/ Begun(i, op, w, params, ItemCount(frame))
  BY Zenon DEF Begin
<1>2. phase[i] = "waiting"
  BY <1>1 DEF Startable
<1>3. w \in Workers /\ \A j \in Nodes : worker[j] # w
  BY <1>2, AWorkerIsFree DEF PipelineInv
<1> HIDE DEF w
<1>4. tls_out' = [tls_out EXCEPT ![w] = EmptyOutput]
  BY <1>1 DEF Reset
<1>5. view = [view EXCEPT ![i] = view[i]]
  BY Values
<1> HIDE DEF v
<1>6. CASE End(i, "skipped") /\ UNCHANGED view
  <2>1. worker' = [worker EXCEPT ![i] = 0] /\ view' = view /\ phase' = [phase EXCEPT ![i] = "ended"]
    BY <1>6 DEF End
  <2> QED
    BY <1>1, <1>3, <1>4, <1>5, <2>1, StandAside
<1>7. CASE Begun(i, op, w, params, ItemCount(frame))
  <2>1. worker' = [worker EXCEPT ![i] = w] /\ view' = [view EXCEPT ![i] = v] /\ \E to, error : Proceed(i, to, error)
    BY <1>7, Zenon DEF Begun, v
  <2>2. \E p : phase' = [phase EXCEPT ![i] = p]
    BY <2>1, ProceedSteps
  <2> QED
    BY <1>1, <1>3, <1>4, <2>1, <2>2, StandAside
<1> QED
  BY <1>1, <1>6, <1>7

(* A node that is running moves on with the worker it has, or lets it go.  *)
LEMMA RunningAside ==
    ASSUME PipelineInv, Distinct, NEW i \in Nodes, phase[i] \in Held, UNCHANGED <<plan, edges, request>>,
           \E p : phase' = [phase EXCEPT ![i] = p],
           worker' = worker \/ worker' = [worker EXCEPT ![i] = 0],
           tls_out' = tls_out \/ \E out : tls_out' = [tls_out EXCEPT ![worker[i]] = out],
           \E v : view' = [view EXCEPT ![i] = v]
    PROVE  Aside(i)
<1> DEFINE w == worker[i]
<1>1. /\ w \in Workers /\ \A j \in Nodes \ {i} : worker[j] # w
      /\ worker = [worker EXCEPT ![i] = w] /\ tls_out = [tls_out EXCEPT ![w] = tls_out[w]]
  BY OnItsWorker
<1>2. \E x : (x = 0 \/ x = w) /\ worker' = [worker EXCEPT ![i] = x]
  BY <1>1
<1>3. \E out : tls_out' = [tls_out EXCEPT ![w] = out]
  BY <1>1
<1> HIDE DEF w
<1> QED
  BY <1>1, <1>2, <1>3, StandAside

LEMMA CheckAside ==
    ASSUME PipelineInv, Distinct, NEW i \in Nodes, NEW from \in Busy, NEW to, NEW error, Check(i, from, to, error),
           \E v : view' = [view EXCEPT ![i] = v]
    PROVE  Aside(i)
<1>1. phase[i] = from /\ Proceed(i, to, error) /\ UNCHANGED <<plan, edges, request, worker, tls_out>>
  BY Zenon DEF Check
<1>2. phase[i] \in Held
  BY <1>1 DEF Held
<1> QED
  BY <1>1, <1>2, ProceedSteps, RunningAside

LEMMA StepsAside ==
    ASSUME PipelineInv, Distinct, NEW i \in Nodes,
           \/ CheckCommon(i) \/ CheckStrict(i) \/ CheckNullable(i) \/ Run(i)
           \/ Finish(i) \/ PushWarning(i) \/ Fail(i)
    PROVE  Aside(i)
<1>1. view = [view EXCEPT ![i] = view[i]]
  BY Values
<1>2. /\ "common" \in Busy /\ "strict" \in Busy /\ "nullable" \in Busy
      /\ "ready" \in Held /\ "executed" \in Held /\ "caught" \in Held /\ "failing" \in Held
  BY DEF Busy, Held, Caught
<1>3. ASSUME CheckCommon(i)
      PROVE  Aside(i)
  <2>1. Check(i, "common", "strict", CommonWindow(frame, plan[i])) /\ view' = view
    BY <1>3, Zenon DEF CheckCommon
  <2> QED
    BY <1>1, <1>2, <2>1, CheckAside
<1>4. ASSUME CheckStrict(i)
      PROVE  Aside(i)
  <2>1. Check(i, "strict", "nullable", StrictWindow(frame, Master, plan[i])) /\ view' = view
    BY <1>4, Zenon DEF CheckStrict
  <2> QED
    BY <1>1, <1>2, <2>1, CheckAside
<1>5. ASSUME CheckNullable(i)
      PROVE  Aside(i)
  <2>1. /\ Check(i, "nullable", "ready", NullableWindow(frame, Master, plan[i]))
        /\ view' = [view EXCEPT ![i].count = ItemCount(frame)]
    BY <1>5, Zenon DEF CheckNullable
  <2>2. \E v : view' = [view EXCEPT ![i] = v]
    BY <2>1
  <2> QED
    BY <1>2, <2>1, <2>2, CheckAside
<1>6. ASSUME Run(i)
      PROVE  Aside(i)
  <2> DEFINE r == Dispatched(plan[i], Master, view[i].count, view[i].templated, "none")
  <2>1. /\ phase[i] = "ready" /\ Proceed(i, "executed", r.error)
        /\ tls_out' = [tls_out EXCEPT ![worker[i]] = Onto(@, r.out)]
        /\ UNCHANGED <<plan, edges, request, view, worker>>
    BY <1>6, Zenon DEF Run
  <2> HIDE DEF r
  <2>2. \E p : phase' = [phase EXCEPT ![i] = p]
    BY <2>1, ProceedSteps
  <2> QED
    BY <1>1, <1>2, <2>1, <2>2, RunningAside
<1>7. ASSUME Finish(i)
      PROVE  Aside(i)
  <2> DEFINE out == tls_out[worker[i]]
             r == Applied(frame, plan[i], i, out)
  <2>1. phase[i] = "executed" /\ AfterApply(i, r, out) /\ UNCHANGED <<plan, edges, request, view>>
    BY <1>7, Zenon DEF Finish
  <2> HIDE DEF r, out
  <2>2. \/ /\ worker' = [worker EXCEPT ![i] = 0] /\ phase' = [phase EXCEPT ![i] = "ended"]
           /\ tls_out' = [tls_out EXCEPT ![worker[i]] = Reset(Husk(@, frame.layout))]
        \/ phase' = [phase EXCEPT ![i] = "caught"] /\ UNCHANGED <<worker, tls_out>>
    BY <2>1, Zenon DEF AfterApply, Throw, End
  <2>3. \E p : phase' = [phase EXCEPT ![i] = p]
    BY <2>2
  <2> QED
    BY <1>1, <1>2, <2>1, <2>2, <2>3, RunningAside
<1>8. ASSUME PushWarning(i)
      PROVE  Aside(i)
  <2>1. /\ phase[i] = "caught" /\ phase' = [phase EXCEPT ![i] = "failing"]
        /\ UNCHANGED <<plan, edges, request, view, worker, tls_out>>
    BY <1>8, Zenon DEF PushWarning
  <2>2. \E p : phase' = [phase EXCEPT ![i] = p]
    BY <2>1
  <2> QED
    BY <1>1, <1>2, <2>1, <2>2, RunningAside
<1>9. ASSUME Fail(i)
      PROVE  Aside(i)
  <2>1. /\ phase[i] = "failing" \/ phase[i] = "caught"
        /\ phase' = [phase EXCEPT ![i] = "ended"] /\ worker' = [worker EXCEPT ![i] = 0]
        /\ tls_out' = [tls_out EXCEPT ![worker[i]] = Reset(@)]
        /\ UNCHANGED <<plan, edges, request, view>>
    BY <1>9, Zenon DEF Fail, End
  <2>2. \E p : phase' = [phase EXCEPT ![i] = p]
    BY <2>1
  <2> QED
    BY <1>1, <1>2, <2>1, <2>2, RunningAside
<1> QED
  BY <1>3, <1>4, <1>5, <1>6, <1>7, <1>8, <1>9

(* So every node that runs keeps its place, and every step is one of them. *)
LEMMA NodeSteps ==
    ASSUME PipelineInv, Plain(plan), Progress, NEW i \in Nodes,
           \/ Begin(i) \/ CheckCommon(i) \/ CheckStrict(i) \/ CheckNullable(i)
           \/ Run(i) \/ RunShard(i) \/ Merge(i) \/ Finish(i) \/ PushWarning(i) \/ Fail(i)
    PROVE  Aside(i) /\ (Fixes(i) \/ GoesOn(i) \/ PushWarning(i) \/ Fail(i))
<1>1. ASSUME Begin(i)
      PROVE  Aside(i) /\ (Fixes(i) \/ GoesOn(i))
  BY <1>1, BeginProgress, BeginAside DEF Progress
<1>2. ASSUME CheckCommon(i) \/ CheckStrict(i) \/ CheckNullable(i) \/ Run(i) \/ Finish(i)
      PROVE  Aside(i) /\ (Fixes(i) \/ GoesOn(i))
  <2>1. phase[i] \in Busy
    BY <1>2, Zenon DEF CheckCommon, CheckStrict, CheckNullable, Check, Run, Finish, Busy
  <2>2. At(i)
    BY <2>1 DEF Progress
  <2> QED
    BY <1>2, <2>2, ChecksProgress, RunProgress, FinishProgress, StepsAside DEF Progress
<1>3. ASSUME RunShard(i) \/ Merge(i)
      PROVE  FALSE
  <2>1. phase[i] = "shards"
    BY <1>3, Zenon DEF RunShard, Merge
  <2>2. At(i)
    BY <2>1 DEF Progress, Busy
  <2> QED
    BY <2>1, <2>2 DEF At, GoneOn
<1>4. ASSUME PushWarning(i) \/ Fail(i)
      PROVE  Aside(i)
  BY <1>4, StepsAside DEF Progress
<1> QED
  BY <1>1, <1>2, <1>3, <1>4

---------------------------------------------------------------------------
(* What those steps do to the node itself.                                 *)
LEMMA FixesStep ==
    ASSUME PipelineInv, OutcomeInv, NEW i \in Nodes, Fixes(i)
    PROVE  /\ outcome[i] = "none" /\ phase[i] \notin Decided
           /\ frame'.layout = frame.layout /\ fatal' = fatal
           /\ \E how, d :
                 /\ RunAlone(frame, plan[i], i) = Alone(frame', how, d)
                 /\ how # "none" /\ outcome'[i] = how /\ \A j \in Nodes \ {i} : outcome'[j] = outcome[j]
                 /\ \/ ~Failed(how) /\ phase'[i] = "ended" /\ warnings' = Noting(i, d)
                    \/ /\ Failed(how) /\ phase'[i] = "caught" /\ warnings' = warnings
                       /\ tls_out'[worker'[i]].has_warning = d
<1>1. phase[i] \notin Decided /\ frame'.layout = frame.layout /\ fatal' = fatal
  BY DEF Fixes, Decided, Caught, Busy
<1>2. outcome[i] = "none"
  BY <1>1 DEF OutcomeInv
<1>3. PICK how, d :
        /\ RunAlone(frame, plan[i], i) = Alone(frame', how, d)
        /\ how # "none" /\ outcome' = [outcome EXCEPT ![i] = how]
        /\ \/ ~Failed(how) /\ phase' = [phase EXCEPT ![i] = "ended"] /\ warnings' = Noting(i, d)
           \/ /\ Failed(how) /\ phase' = [phase EXCEPT ![i] = "caught"] /\ warnings' = warnings
              /\ tls_out'[worker'[i]].has_warning = d
  BY Zenon DEF Fixes
<1>4. phase \in [Nodes -> Held \cup {"waiting", "ended"}] /\ outcome = [j \in Nodes |-> outcome[j]]
  BY DEF PipelineInv, OrderInv, OutcomeInv
<1>5. outcome'[i] = how /\ \A j \in Nodes \ {i} : outcome'[j] = outcome[j]
  BY <1>3, <1>4
<1>6. \/ ~Failed(how) /\ phase'[i] = "ended" /\ warnings' = Noting(i, d)
      \/ /\ Failed(how) /\ phase'[i] = "caught" /\ warnings' = warnings
         /\ tls_out'[worker'[i]].has_warning = d
  BY <1>3, <1>4
<1>7. RunAlone(frame, plan[i], i) = Alone(frame', how, d) /\ how # "none"
  BY <1>3
<1> QED
  BY <1>1, <1>2, <1>5, <1>6, <1>7, Zenon

LEMMA GoesOnStep ==
    ASSUME PipelineInv, OutcomeInv, NEW i \in Nodes, GoesOn(i)
    PROVE  /\ outcome[i] = "none" /\ phase[i] \notin Decided /\ phase'[i] \in Busy
           /\ UNCHANGED <<frame, outcome, warnings, fatal>>
<1>1. phase[i] \notin Decided
  BY DEF GoesOn, Decided, Caught, Busy
<1>2. phase \in [Nodes -> Held \cup {"waiting", "ended"}]
  BY DEF PipelineInv, OrderInv
<1> QED
  BY <1>1, <1>2 DEF GoesOn, OutcomeInv

LEMMA PushWarningStep ==
    ASSUME PipelineInv, NEW i \in Nodes, PushWarning(i)
    PROVE  /\ phase[i] = "caught" /\ phase'[i] = "failing" /\ tls_out[worker[i]].has_warning
           /\ warnings' = Append(warnings, i) /\ UNCHANGED <<frame, outcome, fatal>>
<1>1. phase \in [Nodes -> Held \cup {"waiting", "ended"}]
  BY DEF PipelineInv, OrderInv
<1>2. /\ phase[i] = "caught" /\ phase' = [phase EXCEPT ![i] = "failing"] /\ tls_out[worker[i]].has_warning
      /\ warnings' = Append(warnings, i) /\ UNCHANGED <<frame, outcome, fatal>>
  BY Zenon DEF PushWarning
<1> QED
  BY <1>1, <1>2

LEMMA FailStep ==
    ASSUME PipelineInv, OutcomeInv, NEW i \in Nodes, Fail(i)
    PROVE  /\ phase[i] \in Caught /\ (phase[i] = "caught" => ~tls_out[worker[i]].has_warning)
           /\ phase'[i] = "ended" /\ fatal' = IF fatal = 0 THEN i ELSE fatal
           /\ UNCHANGED <<frame, outcome, warnings>>
<1>1. phase \in [Nodes -> Held \cup {"waiting", "ended"}] /\ outcome = [j \in Nodes |-> outcome[j]]
  BY DEF PipelineInv, OrderInv, OutcomeInv
<1>2. /\ phase[i] = "failing" \/ (phase[i] = "caught" /\ ~tls_out[worker[i]].has_warning)
      /\ phase' = [phase EXCEPT ![i] = "ended"] /\ outcome' = [outcome EXCEPT ![i] = outcome[i]]
      /\ fatal' = (IF fatal = 0 THEN i ELSE fatal) /\ UNCHANGED <<frame, warnings>>
  BY Zenon DEF Fail, End
<1>3. outcome' = outcome /\ phase'[i] = "ended"
  BY <1>1, <1>2
<1> QED
  BY <1>2, <1>3 DEF Caught

LEMMA ProgressKept ==
    ASSUME PipelineInv, PipelineInv', OutcomeInv, Plain(plan), Progress, NEW i \in Nodes, Aside(i),
           Fixes(i) \/ GoesOn(i) \/ PushWarning(i) \/ Fail(i)
    PROVE  Progress'
<1>1. UNCHANGED <<plan, edges, request>> /\ Nodes' = Nodes
  BY DEF Aside, Nodes
<1>2. frame'.layout = frame.layout
  BY FixesStep, GoesOnStep, PushWarningStep, FailStep
<1>3. ASSUME NEW j \in Nodes, phase'[j] \in Busy, j # i
      PROVE  GoneOn(frame', plan'[j], phase'[j], view'[j], tls_out'[worker'[j]])
  <2> DEFINE op == plan[j]
             ph == phase[j]
             v == view[j]
             out == tls_out[worker[j]]
  <2>1. phase'[j] = ph /\ view'[j] = v /\ plan'[j] = op /\ ph \in Busy /\ ph \in Held
    BY <1>1, <1>3 DEF Aside, Held
  <2>2. tls_out'[worker'[j]] = out
    BY <1>3, <2>1 DEF Aside
  <2>3. GoneOn(frame, op, ph, v, out)
    BY <1>3, <2>1 DEF Progress, At
  <2>4. v.seen = Seen(frame, op)
    BY <1>3, <2>1, Values
  <2>5. v.seen = Seen(frame', op)
    <3>1. view'[j].seen = Seen(frame', plan'[j])
      BY <1>1, <1>3 DEF PipelineInv, ViewInv
    <3> QED
      BY <2>1, <3>1
  <2>6. IsFrame(frame) /\ IsFrame(frame')
    BY DEF PipelineInv, ViewInv
  <2>7. WellFormed(op) /\ WellMarked(op) /\ WellDeclared(op)
    BY Values DEF Plain, Nodes
  <2> HIDE DEF op, ph, v, out
  <2>8. Seen(frame', op) = Seen(frame, op)
    BY <2>4, <2>5
  <2>9. GoneOn(frame', op, ph, v, out)
    BY <1>2, <2>3, <2>6, <2>7, <2>8, GoneOnCarries
  <2> QED
    BY <2>1, <2>2, <2>9
<1>4. ASSUME phase'[i] \in Busy
      PROVE  GoneOn(frame', plan'[i], phase'[i], view'[i], tls_out'[worker'[i]])
  <2>1. phase'[i] # "ended" /\ phase'[i] # "caught" /\ phase'[i] # "failing"
    BY <1>4 DEF Busy
  <2>2. GoesOn(i)
    BY <2>1, FixesStep, PushWarningStep, FailStep
  <2> QED
    BY <1>1, <2>2 DEF GoesOn
<1>5. Distinct'
  BY DEF Aside
<1>6. \A j \in Nodes : phase'[j] \in Busy => GoneOn(frame', plan'[j], phase'[j], view'[j], tls_out'[worker'[j]])
  BY <1>3, <1>4
<1> QED
  BY <1>1, <1>5, <1>6 DEF Progress, At

---------------------------------------------------------------------------
(* The nodes whose fate is settled, in the order in which it was: each has *)
(* done to the frame what it does by itself.                               *)

(* A node that is caught has failed, and fatal names a failed one.         *)
Fates ==
    /\ fatal \in {0} \cup Nodes
    /\ fatal # 0 => Failed(outcome[fatal])
    /\ \A i \in Nodes : phase[i] \in Caught => Failed(outcome[i])
    /\ \A i \in Nodes : phase[i] = "ended" /\ Failed(outcome[i]) => fatal # 0

LEMMA FatesKept ==
    ASSUME PipelineInv, OutcomeInv, Fates, NEW i \in Nodes, Aside(i),
           Fixes(i) \/ GoesOn(i) \/ PushWarning(i) \/ Fail(i)
    PROVE  Fates'
<1>1. Nodes' = Nodes /\ \A j \in Nodes \ {i} : phase'[j] = phase[j]
  BY DEF Aside, Nodes
<1>2. 0 \notin Nodes
  BY PlanNodes DEF PipelineInv, OrderInv
<1>3. ~Failed("none")
  BY DEF Failed
<1>4. "caught" \in Caught /\ "failing" \in Caught /\ "ended" \notin Caught /\ \A p \in Busy : p \notin Caught /\ p # "ended"
  BY DEF Caught, Busy
<1>5. CASE Fixes(i)
  <2>1. PICK how : /\ outcome[i] = "none" /\ fatal' = fatal
                   /\ outcome'[i] = how /\ \A j \in Nodes \ {i} : outcome'[j] = outcome[j]
                   /\ (~Failed(how) /\ phase'[i] = "ended") \/ (Failed(how) /\ phase'[i] = "caught")
    BY <1>5, FixesStep
  <2>2. \A j \in Nodes : phase'[j] \in Caught => Failed(outcome'[j])
    BY <1>1, <1>4, <2>1 DEF Fates
  <2>3. \A j \in Nodes : phase'[j] = "ended" /\ Failed(outcome'[j]) => fatal' # 0
    BY <1>1, <2>1 DEF Fates
  <2>4. fatal' \in {0} \cup Nodes /\ (fatal' # 0 => Failed(outcome'[fatal']))
    BY <1>2, <1>3, <2>1 DEF Fates
  <2> QED
    BY <1>1, <2>2, <2>3, <2>4 DEF Fates, Failed, Caught
<1>6. CASE GoesOn(i) \/ PushWarning(i)
  <2>1. /\ UNCHANGED <<outcome, fatal>>
        /\ phase'[i] \in Busy \/ (phase'[i] = "failing" /\ phase[i] = "caught")
    BY <1>6, GoesOnStep, PushWarningStep
  <2>2. \A j \in Nodes : phase'[j] \in Caught => Failed(outcome'[j])
    BY <1>1, <1>4, <2>1 DEF Fates
  <2>3. \A j \in Nodes : phase'[j] = "ended" /\ Failed(outcome'[j]) => fatal' # 0
    BY <1>1, <1>4, <2>1 DEF Fates
  <2> QED
    BY <1>1, <2>1, <2>2, <2>3 DEF Fates, Failed, Caught
<1>7. CASE Fail(i)
  <2>1. /\ outcome' = outcome /\ fatal' = (IF fatal = 0 THEN i ELSE fatal)
        /\ phase[i] \in Caught /\ phase'[i] = "ended"
    BY <1>7, FailStep
  <2>2. \A j \in Nodes : phase'[j] \in Caught => Failed(outcome'[j])
    BY <1>1, <1>4, <2>1 DEF Fates
  <2>3. fatal' # 0 /\ fatal' \in Nodes /\ Failed(outcome'[fatal'])
    BY <1>2, <2>1 DEF Fates
  <2> QED
    BY <1>1, <2>2, <2>3 DEF Fates, Failed, Caught
<1> QED
  BY <1>5, <1>6, <1>7

(* s is the order in which the nodes were settled, h[k] the frame after    *)
(* the k-th of them, D the nodes that a warning comes of.                  *)
Came(a, b, i, D) ==
    /\ RunAlone(a, plan[i], i).frame = b /\ RunAlone(a, plan[i], i).error = outcome[i]
    /\ RunAlone(a, plan[i], i).warned <=> i \in D
History(n, s, h, D) ==
    /\ n \in Nat /\ s \in [1 .. n -> Nodes] /\ \A a, b \in 1 .. n : s[a] = s[b] => a = b
    /\ \A i \in Nodes : outcome[i] # "none" <=> \E k \in 1 .. n : s[k] = i
    /\ \A a, b \in 1 .. n : <<s[a], s[b]>> \in edges => a < b
    /\ h[0] = MakeFrame(frame.layout, request.common, request.items) /\ h[n] = frame
    /\ \A k \in 1 .. n : Came(h[k - 1], h[k], s[k], D)

(* One more is settled.                                                    *)
Extends(n, s, D, i, t, E) ==
    /\ t \in [1 .. n + 1 -> Nodes] /\ t[n + 1] = i /\ \A k \in 1 .. n : t[k] = s[k]
    /\ \A j \in Nodes \ {i} : j \in E <=> j \in D
    /\ i \in E <=> RunAlone(frame, plan[i], i).warned

LEMMA HistoryGrows ==
    ASSUME PipelineInv, OutcomeInv, NEW i \in Nodes, Aside(i), Fixes(i),
           NEW n, NEW s, NEW h, NEW D, History(n, s, h, D)
    PROVE  \E t, g, E : History(n + 1, t, g, E)' /\ Extends(n, s, D, i, t, E)
<1>1. UNCHANGED <<plan, edges, request>> /\ Nodes' = Nodes /\ \A j \in Nodes \ {i} : phase'[j] = phase[j]
  BY DEF Aside, Nodes
<1>2. PICK how, d :
        /\ outcome[i] = "none" /\ phase[i] \notin Decided /\ frame'.layout = frame.layout
        /\ RunAlone(frame, plan[i], i) = Alone(frame', how, d)
        /\ how # "none" /\ outcome'[i] = how /\ \A j \in Nodes \ {i} : outcome'[j] = outcome[j]
  BY FixesStep
<1>3. /\ \A e \in edges : phase[e[2]] # "waiting" => phase[e[1]] = "ended"
      /\ \A e \in edges : e[1] < e[2] /\ e[1] \in Nat /\ e[1] \in Nodes /\ e[2] \in Nodes
  <2>1. \A e \in Required(plan) : e[1] < e[2] /\ e[1] \in DOMAIN plan /\ e[2] \in DOMAIN plan
    BY DEF Required
  <2>2. Nodes \subseteq Nat
    BY PlanNodes DEF PipelineInv, OrderInv
  <2> QED
    BY <2>1, <2>2 DEF PipelineInv, OrderInv, Nodes
<1>4. /\ RunAlone(frame, plan[i], i).frame = frame' /\ RunAlone(frame, plan[i], i).error = how
  BY <1>2 DEF Alone
<1>5. /\ n \in Nat /\ s \in [1 .. n -> Nodes] /\ \A a, b \in 1 .. n : s[a] = s[b] => a = b
      /\ \A j \in Nodes : outcome[j] # "none" <=> \E k \in 1 .. n : s[k] = j
      /\ \A a, b \in 1 .. n : <<s[a], s[b]>> \in edges => a < b
      /\ h[0] = MakeFrame(frame.layout, request.common, request.items) /\ h[n] = frame
      /\ \A k \in 1 .. n : Came(h[k - 1], h[k], s[k], D)
  BY DEF History
<1>6. \A k \in 1 .. n : s[k] # i /\ s[k] \in Nodes /\ outcome[s[k]] # "none"
  BY <1>2, <1>5
<1>7. PICK t : n + 1 \in Nat /\ t \in [1 .. n + 1 -> Nodes] /\ t[n + 1] = i /\ \A k \in 1 .. n : t[k] = s[k]
  <2> DEFINE f == [k \in 1 .. n + 1 |-> IF k = n + 1 THEN i ELSE s[k]]
  <2>1. n + 1 \in Nat /\ f \in [1 .. n + 1 -> Nodes] /\ f[n + 1] = i /\ \A k \in 1 .. n : f[k] = s[k]
    BY <1>5
  <2> HIDE DEF f
  <2> QED
    BY <2>1
<1>8. PICK g : g[n + 1] = frame' /\ \A k \in 0 .. n : g[k] = h[k]
  <2> DEFINE f == [k \in 0 .. n + 1 |-> IF k = n + 1 THEN frame' ELSE h[k]]
  <2>1. f[n + 1] = frame' /\ \A k \in 0 .. n : f[k] = h[k]
    BY <1>5
  <2> HIDE DEF f
  <2> QED
    BY <2>1
<1>9. PICK E : /\ \A j \in Nodes \ {i} : j \in E <=> j \in D
               /\ i \in E <=> RunAlone(frame, plan[i], i).warned
  <2> DEFINE w == RunAlone(frame, plan[i], i).warned
             S == {j \in Nodes : IF j = i THEN w ELSE j \in D}
  <2> HIDE DEF w
  <2>1. (\A j \in Nodes \ {i} : j \in S <=> j \in D) /\ (i \in S <=> w)
    OBVIOUS
  <2> HIDE DEF S
  <2> QED
    BY <2>1, Zenon DEF w
<1>10. \A k \in 1 .. n + 1 : k = n + 1 \/ k \in 1 .. n
  BY <1>5
<1>11. \A a, b \in 1 .. n + 1 : t[a] = t[b] => a = b
  BY <1>5, <1>6, <1>7, <1>10
<1>12. \A j \in Nodes : outcome'[j] # "none" <=> \E k \in 1 .. n + 1 : t[k] = j
  <2>1. ASSUME NEW j \in Nodes, j # i
        PROVE  outcome'[j] # "none" <=> \E k \in 1 .. n + 1 : t[k] = j
    <3>1. outcome'[j] = outcome[j]
      BY <1>2, <2>1
    <3>2. (\E k \in 1 .. n + 1 : t[k] = j) <=> \E k \in 1 .. n : s[k] = j
      BY <1>5, <1>7, <1>10, <2>1
    <3> QED
      BY <1>5, <3>1, <3>2
  <2>2. n + 1 \in 1 .. n + 1
    BY <1>5
  <2> QED
    BY <1>2, <1>7, <2>1, <2>2
<1>13. \A a, b \in 1 .. n + 1 : <<t[a], t[b]>> \in edges => a < b
  <2> SUFFICES ASSUME NEW a \in 1 .. n + 1, NEW b \in 1 .. n + 1, <<t[a], t[b]>> \in edges
               PROVE  a < b
    OBVIOUS
  <2>1. t[a] < t[b] /\ t[a] \in Nat /\ t[b] \in Nodes /\ (phase[t[b]] # "waiting" => phase[t[a]] = "ended")
    <3> DEFINE e == <<t[a], t[b]>>
    <3>1. e \in edges /\ e[1] = t[a] /\ e[2] = t[b]
      OBVIOUS
    <3> HIDE DEF e
    <3> QED
      BY <1>3, <3>1
  <2>2. phase[i] # "ended" /\ \A j \in Nodes : outcome[j] # "none" => phase[j] # "waiting"
    BY <1>2 DEF OutcomeInv, Decided, Caught
  <2>3. CASE a \in 1 .. n /\ b \in 1 .. n
    BY <1>5, <1>7, <2>3
  <2>4. CASE a = n + 1 /\ b \in 1 .. n
    <3>1. t[a] = i /\ outcome[t[b]] # "none"
      BY <1>6, <1>7, <2>4
    <3> QED
      BY <2>1, <2>2, <3>1
  <2>5. CASE a = n + 1 /\ b = n + 1
    BY <2>1, <2>5
  <2>6. CASE a \in 1 .. n /\ b = n + 1
    BY <1>5, <2>6
  <2> QED
    BY <1>10, <2>3, <2>4, <2>5, <2>6
<1>14. g[0] = MakeFrame(frame'.layout, request'.common, request'.items) /\ g[n + 1] = frame'
  BY <1>1, <1>2, <1>5, <1>8
<1>15. ASSUME NEW k \in 1 .. n + 1
       PROVE  /\ RunAlone(g[k - 1], plan'[t[k]], t[k]).frame = g[k]
              /\ RunAlone(g[k - 1], plan'[t[k]], t[k]).error = outcome'[t[k]]
              /\ RunAlone(g[k - 1], plan'[t[k]], t[k]).warned <=> t[k] \in E
  <2>1. CASE k = n + 1
    <3>1. g[k - 1] = frame /\ t[k] = i /\ g[k] = frame' /\ outcome'[t[k]] = how
      BY <1>2, <1>5, <1>7, <1>8, <2>1
    <3> QED
      BY <1>1, <1>4, <1>9, <3>1
  <2>2. CASE k \in 1 .. n
    <3> DEFINE r == RunAlone(h[k - 1], plan[s[k]], s[k])
    <3>1. g[k - 1] = h[k - 1] /\ t[k] = s[k] /\ g[k] = h[k] /\ outcome'[t[k]] = outcome[s[k]]
      BY <1>2, <1>5, <1>6, <1>7, <1>8, <2>2
    <3>2. r.frame = h[k] /\ r.error = outcome[s[k]] /\ (r.warned <=> s[k] \in D)
      BY <1>5, <2>2 DEF Came
    <3>3. s[k] \in D <=> t[k] \in E
      BY <1>6, <1>9, <2>2, <3>1
    <3>4. RunAlone(g[k - 1], plan'[t[k]], t[k]) = r
      BY <1>1, <3>1
    <3> HIDE DEF r
    <3> QED
      BY <3>1, <3>2, <3>3, <3>4
  <2> QED
    BY <1>10, <2>1, <2>2
<1>16. History(n + 1, t, g, E)'
  <2> DEFINE m == n + 1
  <2>1. /\ m \in Nat /\ t \in [1 .. m -> Nodes'] /\ \A a, b \in 1 .. m : t[a] = t[b] => a = b
        /\ \A j \in Nodes' : outcome'[j] # "none" <=> \E k \in 1 .. m : t[k] = j
        /\ \A a, b \in 1 .. m : <<t[a], t[b]>> \in edges' => a < b
        /\ g[0] = MakeFrame(frame'.layout, request'.common, request'.items) /\ g[m] = frame'
    BY <1>1, <1>7, <1>11, <1>12, <1>13, <1>14
  <2>2. \A k \in 1 .. m : /\ RunAlone(g[k - 1], plan'[t[k]], t[k]).frame = g[k]
                          /\ RunAlone(g[k - 1], plan'[t[k]], t[k]).error = outcome'[t[k]]
                          /\ RunAlone(g[k - 1], plan'[t[k]], t[k]).warned <=> t[k] \in E
    BY <1>15
  <2> HIDE DEF m
  <2>3. History(m, t, g, E)'
    BY <2>1, <2>2, Zenon DEF History, Came
  <2> QED
    BY <2>3 DEF m
<1>17. Extends(n, s, D, i, t, E)
  BY <1>7, <1>9, Zenon DEF Extends
<1> QED
  BY <1>16, <1>17, Zenon

LEMMA HistoryStays ==
    ASSUME UNCHANGED <<plan, edges, request, frame, outcome>>, NEW n, NEW s, NEW h, NEW D, History(n, s, h, D)
    PROVE  History(n, s, h, D)'
<1>1. Nodes' = Nodes
  BY DEF Nodes
<1> QED
  BY <1>1, Zenon DEF History, Came

---------------------------------------------------------------------------
(* The frame's warnings: each node that a warning comes of is there once,  *)
(* when it has ended or is past push_warning.                              *)
Lists(ws, S) ==
    /\ IsList(ws) /\ \A a \in 1 .. Len(ws) : ws[a] \in S
    /\ \A a, b \in 1 .. Len(ws) : ws[a] = ws[b] => a = b
    /\ \A i \in S : \E a \in 1 .. Len(ws) : ws[a] = i
(* They are in the order s, but for those of nodes that failed.            *)
InOrder(ws, how, n, s) ==
    \A a, b \in 1 .. Len(ws) : a < b /\ how[ws[b]] = "done" =>
        \A k, l \in 1 .. n : s[k] = ws[a] /\ s[l] = ws[b] => k < l

Shown(D) == {i \in Nodes : outcome[i] # "none" /\ phase[i] # "caught" /\ i \in D}
Noted(n, s, D) ==
    /\ Lists(warnings, Shown(D)) /\ InOrder(warnings, outcome, n, s)
    /\ \A i \in Nodes : phase[i] = "caught" => (tls_out[worker[i]].has_warning <=> i \in D)

LEMMA OneMoreWarning ==
    ASSUME NEW ws, NEW S, Lists(ws, S), NEW i, i \notin S
    PROVE  Lists(Append(ws, i), S \cup {i})
<1> DEFINE n == Len(ws)
           w == Append(ws, i)
<1>1. IsList(w) /\ n \in Nat /\ Len(w) = n + 1 /\ w[n + 1] = i /\ \A a \in 1 .. n : w[a] = ws[a]
  BY Appending, ListDomain DEF Lists
<1>2. /\ \A a \in 1 .. n : ws[a] \in S
      /\ \A a, b \in 1 .. n : ws[a] = ws[b] => a = b
      /\ \A j \in S : \E a \in 1 .. n : ws[a] = j
  BY DEF Lists
<1> HIDE DEF w, n
<1>3. \A a \in 1 .. n + 1 : a = n + 1 \/ a \in 1 .. n
  BY <1>1
<1>4. 1 .. n \subseteq 1 .. n + 1 /\ n + 1 \in 1 .. n + 1
  BY <1>1
<1>5. \A a \in 1 .. n + 1 : w[a] \in S \cup {i}
  BY <1>1, <1>2, <1>3
<1>6. \A a, b \in 1 .. n + 1 : w[a] = w[b] => a = b
  BY <1>1, <1>2, <1>3
<1>7. \A j \in S \cup {i} : \E a \in 1 .. n + 1 : w[a] = j
  BY <1>1, <1>2, <1>4
<1>8. Lists(w, S \cup {i})
  BY <1>1, <1>5, <1>6, <1>7 DEF Lists
<1> QED
  BY <1>8 DEF w

(* A node that is settled is the last in the order.                        *)
LEMMA OrderExtends ==
    ASSUME NEW ws, NEW S, Lists(ws, S), NEW how, NEW fate, NEW n \in Nat, NEW s, NEW t, NEW i, i \notin S,
           InOrder(ws, how, n, s), \A k \in 1 .. n : t[k] = s[k], t[n + 1] = i,
           \A j \in S : fate[j] = how[j]
    PROVE  InOrder(ws, fate, n + 1, t)
<1> SUFFICES ASSUME NEW a \in 1 .. Len(ws), NEW b \in 1 .. Len(ws), a < b, fate[ws[b]] = "done",
                    NEW k \in 1 .. n + 1, NEW l \in 1 .. n + 1, t[k] = ws[a], t[l] = ws[b]
             PROVE  k < l
  BY DEF InOrder
<1>1. ws[a] \in S /\ ws[b] \in S
  BY DEF Lists
<1>2. k \in 1 .. n /\ l \in 1 .. n
  <2>1. t[k] # i /\ t[l] # i
    BY <1>1
  <2> QED
    BY <2>1
<1>3. s[k] = ws[a] /\ s[l] = ws[b] /\ how[ws[b]] = "done"
  BY <1>1, <1>2
<1> QED
  BY <1>2, <1>3 DEF InOrder

(* A warning that comes last is of a node that failed, or of the last one. *)
LEMMA OrderAppends ==
    ASSUME NEW ws, NEW S, Lists(ws, S), NEW how, NEW m, NEW s, NEW i, i \notin S,
           InOrder(ws, how, m, s), how[i] = "done" => m \in Nat /\ \A l \in 1 .. m : s[l] = i => l = m
    PROVE  InOrder(Append(ws, i), how, m, s)
<1> DEFINE w == Append(ws, i)
<1>1. Len(ws) \in Nat /\ Len(w) = Len(ws) + 1 /\ w[Len(ws) + 1] = i /\ \A a \in 1 .. Len(ws) : w[a] = ws[a]
  BY Appending, ListDomain DEF Lists
<1> HIDE DEF w
<1> SUFFICES ASSUME NEW a \in 1 .. Len(w), NEW b \in 1 .. Len(w), a < b, how[w[b]] = "done",
                    NEW k \in 1 .. m, NEW l \in 1 .. m, s[k] = w[a], s[l] = w[b]
             PROVE  k < l
  BY DEF InOrder, w
<1>2. a \in 1 .. Len(ws) /\ w[a] = ws[a] /\ ws[a] \in S
  BY <1>1 DEF Lists
<1>3. CASE b \in 1 .. Len(ws)
  BY <1>1, <1>2, <1>3 DEF InOrder
<1>4. CASE b = Len(ws) + 1
  <2>1. m \in Nat /\ l = m
    BY <1>1, <1>4
  <2>2. s[k] # i /\ s[m] = i
    BY <1>1, <1>2, <1>4, <2>1
  <2>3. k # m
    BY <2>2
  <2> QED
    BY <2>1, <2>3
<1> QED
  BY <1>1, <1>3, <1>4

(* What another node's step leaves as it was.                              *)
LEMMA ShownAside ==
    ASSUME NEW i \in Nodes, Aside(i), \A j \in Nodes \ {i} : outcome'[j] = outcome[j],
           NEW D, NEW E, \A j \in Nodes \ {i} : j \in E <=> j \in D
    PROVE  /\ Nodes' = Nodes
           /\ \A j : j \in Shown(D) <=> j \in Nodes /\ outcome[j] # "none" /\ phase[j] # "caught" /\ j \in D
           /\ \A j : j \in Shown(E)' <=> j \in Nodes /\ outcome'[j] # "none" /\ phase'[j] # "caught" /\ j \in E
           /\ \A j \in Nodes \ {i} : j \in Shown(E)' <=> j \in Shown(D)
<1>1. Nodes' = Nodes /\ \A j \in Nodes \ {i} : phase'[j] = phase[j]
  BY DEF Aside, Nodes
<1>2. \A j : j \in Shown(D) <=> j \in Nodes /\ outcome[j] # "none" /\ phase[j] # "caught" /\ j \in D
  BY DEF Shown
<1>3. \A j : j \in Shown(E)' <=> j \in Nodes /\ outcome'[j] # "none" /\ phase'[j] # "caught" /\ j \in E
  BY <1>1 DEF Shown
<1> QED
  BY <1>1, <1>2, <1>3

LEMMA CaughtAside ==
    ASSUME NEW i \in Nodes, Aside(i), NEW D, NEW E, \A j \in Nodes \ {i} : j \in E <=> j \in D,
           \A j \in Nodes : phase[j] = "caught" => (tls_out[worker[j]].has_warning <=> j \in D)
    PROVE  \A j \in Nodes \ {i} : phase'[j] = "caught" => (tls_out'[worker'[j]].has_warning <=> j \in E)
<1> TAKE j \in Nodes \ {i}
<1> HAVE phase'[j] = "caught"
<1>1. phase[j] = "caught" /\ phase[j] \in Held
  BY DEF Aside, Held, Caught
<1>2. tls_out'[worker'[j]] = tls_out[worker[j]]
  BY <1>1 DEF Aside
<1> DEFINE x == tls_out[worker[j]]
           y == tls_out'[worker'[j]]
<1>3. x.has_warning <=> j \in D
  BY <1>1
<1>4. y = x
  BY <1>2
<1> HIDE DEF x, y
<1>5. y.has_warning <=> j \in E
  BY <1>3, <1>4
<1> QED
  BY <1>5 DEF y

LEMMA NotedFixed ==
    ASSUME PipelineInv, OutcomeInv, NEW i \in Nodes, Aside(i), Fixes(i), NEW n \in Nat, NEW s, NEW D, Noted(n, s, D),
           NEW t, NEW E, Extends(n, s, D, i, t, E), \A k \in 1 .. n + 1 : t[k] = i => k = n + 1
    PROVE  Noted(n + 1, t, E)'
<1>1. PICK how, d :
        /\ outcome[i] = "none"
        /\ RunAlone(frame, plan[i], i) = Alone(frame', how, d)
        /\ how # "none" /\ outcome'[i] = how /\ \A j \in Nodes \ {i} : outcome'[j] = outcome[j]
        /\ \/ ~Failed(how) /\ phase'[i] = "ended" /\ warnings' = Noting(i, d)
           \/ /\ Failed(how) /\ phase'[i] = "caught" /\ warnings' = warnings
              /\ tls_out'[worker'[i]].has_warning = d
  BY FixesStep
<1>2. /\ \A k \in 1 .. n : t[k] = s[k] /\ t[n + 1] = i
      /\ \A j \in Nodes \ {i} : j \in E <=> j \in D
      /\ t[n + 1] = i
  BY DEF Extends
<1>3. i \in E <=> d
  <2> DEFINE w == RunAlone(frame, plan[i], i).warned
  <2>1. w = d
    BY <1>1 DEF Alone
  <2>2. i \in E <=> w
    BY DEF Extends
  <2> HIDE DEF w
  <2> QED
    BY <2>1, <2>2
<1> DEFINE S == Shown(D)
           ws == warnings
           how1 == outcome
           how2 == outcome'
<1>4. /\ Lists(ws, S) /\ InOrder(ws, how1, n, s)
      /\ \A j \in Nodes : phase[j] = "caught" => (tls_out[worker[j]].has_warning <=> j \in D)
  BY Zenon DEF Noted
<1>5. /\ Nodes' = Nodes
      /\ \A j : j \in S <=> j \in Nodes /\ outcome[j] # "none" /\ phase[j] # "caught" /\ j \in D
      /\ \A j : j \in Shown(E)' <=> j \in Nodes /\ outcome'[j] # "none" /\ phase'[j] # "caught" /\ j \in E
      /\ \A j \in Nodes \ {i} : j \in Shown(E)' <=> j \in S
  BY <1>1, <1>2, ShownAside
<1>6. i \notin S /\ \A j \in S : how2[j] = how1[j]
  BY <1>1, <1>5
<1>7. \A j \in Nodes : phase'[j] = "caught" => (tls_out'[worker'[j]].has_warning <=> j \in E)
  <2>1. \A j \in Nodes \ {i} : phase'[j] = "caught" => (tls_out'[worker'[j]].has_warning <=> j \in E)
    BY <1>2, <1>4, CaughtAside
  <2>2. phase'[i] = "caught" => (tls_out'[worker'[i]].has_warning <=> i \in E)
    BY <1>1, <1>3
  <2> QED
    BY <2>1, <2>2
<1> HIDE DEF S, ws, how1, how2
<1>8. InOrder(ws, how2, n + 1, t)
  BY <1>2, <1>4, <1>6, OrderExtends
<1>9. Lists(warnings', Shown(E)') /\ InOrder(warnings', how2, n + 1, t)
  <2>1. CASE ~Failed(how) /\ d
    <3>1. warnings' = Append(ws, i)
      BY <1>1, <2>1 DEF Noting, ws
    <3>2. Shown(E)' = S \cup {i}
      <4>1. outcome'[i] # "none" /\ phase'[i] # "caught" /\ i \in E
        BY <1>1, <1>3, <2>1
      <4> QED
        BY <1>5, <4>1
    <3>3. Lists(Append(ws, i), S \cup {i})
      BY <1>4, <1>6, OneMoreWarning
    <3>4. InOrder(Append(ws, i), how2, n + 1, t)
      BY <1>4, <1>6, <1>8, OrderAppends
    <3> QED
      BY <3>1, <3>2, <3>3, <3>4
  <2>2. CASE Failed(how) \/ ~d
    <3>1. warnings' = ws
      BY <1>1, <2>2 DEF Noting, ws
    <3>2. Shown(E)' = S
      <4>1. ~(phase'[i] # "caught" /\ i \in E)
        BY <1>1, <1>3, <2>2
      <4> QED
        BY <1>5, <1>6, <4>1
    <3> QED
      BY <1>4, <1>8, <3>1, <3>2
  <2> QED
    BY <2>1, <2>2
<1> QED
  BY <1>5, <1>7, <1>9, Zenon DEF Noted, how2

LEMMA NotedStays ==
    ASSUME PipelineInv, OutcomeInv, Fates, NEW i \in Nodes, Aside(i), GoesOn(i) \/ PushWarning(i) \/ Fail(i),
           NEW n, NEW s, NEW D, Noted(n, s, D)
    PROVE  Noted(n, s, D)'
<1> DEFINE S == Shown(D)
           ws == warnings
           how == outcome
<1>1. /\ Lists(ws, S) /\ InOrder(ws, how, n, s)
      /\ \A j \in Nodes : phase[j] = "caught" => (tls_out[worker[j]].has_warning <=> j \in D)
  BY Zenon DEF Noted
<1>2. outcome' = outcome
  BY GoesOnStep, PushWarningStep, FailStep
<1>3. /\ Nodes' = Nodes
      /\ \A j : j \in S <=> j \in Nodes /\ outcome[j] # "none" /\ phase[j] # "caught" /\ j \in D
      /\ \A j : j \in Shown(D)' <=> j \in Nodes /\ outcome'[j] # "none" /\ phase'[j] # "caught" /\ j \in D
      /\ \A j \in Nodes \ {i} : j \in Shown(D)' <=> j \in S
  BY <1>2, ShownAside
<1>4. phase'[i] # "caught"
  BY GoesOnStep, PushWarningStep, FailStep DEF Busy
<1>5. \A j \in Nodes : phase'[j] = "caught" => (tls_out'[worker'[j]].has_warning <=> j \in D)
  <2>1. \A j \in Nodes \ {i} : phase'[j] = "caught" => (tls_out'[worker'[j]].has_warning <=> j \in D)
    BY <1>1, CaughtAside
  <2> QED
    BY <1>4, <2>1
<1>6. Lists(warnings', Shown(D)') /\ InOrder(warnings', how, n, s)
  <2>1. CASE PushWarning(i)
    <3>1. phase[i] = "caught" /\ phase'[i] = "failing" /\ tls_out[worker[i]].has_warning /\ warnings' = Append(ws, i)
      BY <2>1, PushWarningStep
    <3>2. i \in D /\ i \notin S /\ Failed(how[i])
      BY <1>1, <1>3, <3>1 DEF Fates, Caught
    <3>3. how[i] # "none" /\ how[i] # "done"
      BY <3>2 DEF Failed
    <3>4. Shown(D)' = S \cup {i}
      BY <1>2, <1>3, <1>4, <3>2, <3>3
    <3> HIDE DEF S, ws, how
    <3>5. Lists(Append(ws, i), S \cup {i})
      BY <1>1, <3>2, OneMoreWarning
    <3>6. InOrder(Append(ws, i), how, n, s)
      BY <1>1, <3>2, <3>3, OrderAppends
    <3> QED
      BY <3>1, <3>4, <3>5, <3>6
  <2>2. CASE GoesOn(i) \/ Fail(i)
    <3>1. warnings' = ws
      BY <2>2, GoesOnStep, FailStep
    <3>2. i \in Shown(D)' <=> i \in S
      <4>1. CASE GoesOn(i)
        BY <1>2, <1>3, <4>1, GoesOnStep
      <4>2. CASE Fail(i)
        <5>1. phase[i] = "caught" => i \notin D
          BY <1>1, <4>2, FailStep
        <5>2. phase[i] # "caught" => (i \in Shown(D)' <=> i \in S)
          BY <1>2, <1>3, <1>4
        <5> QED
          BY <1>3, <5>1, <5>2
      <4> QED
        BY <2>2, <4>1, <4>2
    <3>3. Shown(D)' = S
      BY <1>3, <3>2
    <3> QED
      BY <1>1, <3>1, <3>3
  <2> QED
    BY <2>1, <2>2
<1> HIDE DEF how
<1>7. how = outcome'
  BY <1>2 DEF how
<1>8. Lists(warnings', Shown(D)') /\ InOrder(warnings', outcome', n, s)
  BY <1>6, <1>7
<1> QED
  BY <1>3, <1>5, <1>8, Zenon DEF Noted

(* The invariant of the runs of such plans, next to PipelineInv.           *)
RunInv == Progress /\ Fates /\ \E n, s, h, D : History(n, s, h, D) /\ Noted(n, s, D)

LEMMA RunStarts ==
    ASSUME Init
    PROVE  RunInv
<1>1. /\ plan \in Plans /\ request \in Requests /\ PipelineInv
      /\ phase = [i \in Nodes |-> "waiting"] /\ worker = [i \in Nodes |-> 0]
      /\ outcome = [i \in Nodes |-> "none"] /\ fatal = 0 /\ warnings = <<>>
  BY InitHolds, Zenon DEF Init
<1>2. Progress
  BY <1>1 DEF Progress, Distinct, Busy
<1>3. Fates
  BY <1>1 DEF Fates, Caught
<1>4. frame = MakeFrame(frame.layout, request.common, request.items)
  <2>1. PICK mode \in {"row", "column"} : frame = MakeFrame(mode, request.common, request.items)
    BY Zenon DEF Init
  <2>2. frame.layout = mode
    BY <2>1 DEF MakeFrame, MakeColumnFrame, MakeRowFrame
  <2> QED
    BY <2>1, <2>2
<1>5. \E s, h : History(0, s, h, {}) /\ Noted(0, s, {})
  <2> DEFINE s == [k \in 1 .. 0 |-> 0]
             h == [k \in 0 .. 0 |-> frame]
  <2>1. s \in [1 .. 0 -> Nodes] /\ h[0] = frame /\ 1 .. 0 = {}
    OBVIOUS
  <2> HIDE DEF s, h
  <2>2. History(0, s, h, {})
    BY <1>1, <1>4, <2>1 DEF History
  <2>3. Lists(warnings, Shown({})) /\ InOrder(warnings, outcome, 0, s)
    <3>1. IsList(warnings) /\ Len(warnings) = 0 /\ Shown({}) = {}
      BY <1>1, EmptyIsList DEF Shown
    <3> QED
      BY <2>1, <3>1 DEF Lists, InOrder
  <2>4. Noted(0, s, {})
    BY <1>1, <2>3 DEF Noted
  <2> QED
    BY <2>2, <2>4, Zenon
<1> QED
  BY <1>2, <1>3, <1>5, Zenon DEF RunInv

LEMMA RunGoesOn ==
    ASSUME PipelineInv, PipelineInv', OutcomeInv, Plain(plan), RunInv, [Next]_vars
    PROVE  RunInv'
<1>1. ASSUME NEW i \in Nodes,
             \/ Begin(i) \/ CheckCommon(i) \/ CheckStrict(i) \/ CheckNullable(i)
             \/ Run(i) \/ RunShard(i) \/ Merge(i) \/ Finish(i) \/ PushWarning(i) \/ Fail(i)
      PROVE  RunInv'
  <2>1. Aside(i) /\ (Fixes(i) \/ GoesOn(i) \/ PushWarning(i) \/ Fail(i))
    BY <1>1, NodeSteps DEF RunInv
  <2>2. Progress'
    BY <2>1, ProgressKept DEF RunInv
  <2>3. Fates'
    BY <2>1, FatesKept DEF RunInv
  <2>4. PICK n, s, h, D : History(n, s, h, D) /\ Noted(n, s, D)
    BY Zenon DEF RunInv
  <2>5. \E m, t, g, E : History(m, t, g, E)' /\ Noted(m, t, E)'
    <3>1. CASE Fixes(i)
      <4>1. PICK t, g, E : History(n + 1, t, g, E)' /\ Extends(n, s, D, i, t, E)
        BY <2>1, <2>4, <3>1, HistoryGrows
      <4>2. n \in Nat
        BY <2>4 DEF History
      <4>3. \A k \in 1 .. n + 1 : t[k] = i => k = n + 1
        <5>1. \A a, b \in 1 .. n + 1 : t[a] = t[b] => a = b
          BY <4>1, Zenon DEF History
        <5>2. t[n + 1] = i /\ n + 1 \in 1 .. n + 1
          BY <4>1, <4>2 DEF Extends
        <5> QED
          BY <5>1, <5>2
      <4>4. Noted(n + 1, t, E)'
        BY <2>1, <2>4, <3>1, <4>1, <4>2, <4>3, NotedFixed
      <4> QED
        BY <4>1, <4>4, Zenon
    <3>2. CASE GoesOn(i) \/ PushWarning(i) \/ Fail(i)
      <4>1. UNCHANGED <<plan, edges, request, frame, outcome>>
        BY <2>1, <3>2, GoesOnStep, PushWarningStep, FailStep DEF Aside
      <4>2. History(n, s, h, D)'
        BY <2>4, <4>1, HistoryStays
      <4>3. Noted(n, s, D)'
        BY <2>1, <2>4, <3>2, NotedStays DEF RunInv
      <4> QED
        BY <4>2, <4>3, Zenon
    <3> QED
      BY <2>1, <3>1, <3>2
  <2> QED
    BY <2>2, <2>3, <2>5, Zenon DEF RunInv
<1>2. CASE UNCHANGED vars
  <2>1. UNCHANGED vars /\ Nodes' = Nodes
    BY <1>2, Zenon DEF vars, Nodes
  <2>2. (\A i \in Nodes : At(i)' = At(i)) /\ Distinct' = Distinct
    BY <2>1, Zenon DEF vars, At, Distinct
  <2>3. Progress'
    BY <2>1, <2>2 DEF vars, RunInv, Progress
  <2>4. Fates'
    BY <2>1 DEF vars, RunInv, Fates
  <2>5. PICK n, s, h, D : History(n, s, h, D) /\ Noted(n, s, D)
    BY Zenon DEF RunInv
  <2>6. History(n, s, h, D)'
    BY <2>1, <2>5, HistoryStays DEF vars
  <2>7. Noted(n, s, D)'
    BY <2>1, <2>5 DEF vars, Noted, Shown
  <2> QED
    BY <2>3, <2>4, <2>6, <2>7, Zenon DEF RunInv
<1> QED
  BY <1>1, <1>2, Zenon DEF Next, Returned

LEMMA PlainRuns == Spec => [](Plain(plan) => RunInv)
<1>1. Init => (Plain(plan) => RunInv)
  BY RunStarts
<1>2. PipelineInv /\ PipelineInv' /\ EvenInv /\ (Plain(plan) => RunInv) /\ [Next]_vars => (Plain(plan) => RunInv)'
  BY Planned, RunGoesOn DEF EvenInv
<1> QED
  BY <1>1, <1>2, Invariance, EvenAlways, PTL DEF Spec

---------------------------------------------------------------------------
(* The nodes run one at a time in that order.                              *)
LEMMA SerialFollows ==
    ASSUME OutcomeInv, NEW n, NEW s, NEW h, NEW D, History(n, s, h, D)
    PROVE  Serial(s, frame.layout) =
             [frame |-> frame, fates |-> outcome, warned |-> {i \in Nodes : outcome[i] # "none" /\ i \in D}]
<1> DEFINE start == [frame |-> MakeFrame(frame.layout, request.common, request.items), fates |-> outcome,
                     warned |-> {}]
           Body(f) == [k \in 0 .. n |-> IF k = 0 THEN start ELSE Fated(f[k - 1], s[k])]
           after == CHOOSE f : f = Body(f)
           W(k) == {i \in Nodes : i \in D /\ \E j \in 1 .. k : s[j] = i}
           g == [k \in 0 .. n |-> [frame |-> h[k], fates |-> outcome, warned |-> W(k)]]
<1>1. /\ n \in Nat /\ s \in [1 .. n -> Nodes]
      /\ h[0] = MakeFrame(frame.layout, request.common, request.items) /\ h[n] = frame
      /\ \A k \in 1 .. n : Came(h[k - 1], h[k], s[k], D)
      /\ \A i \in Nodes : outcome[i] # "none" <=> \E k \in 1 .. n : s[k] = i
  BY DEF History
<1>2. Len(s) = n
  BY <1>1, FunctionIsList
<1>3. Serial(s, frame.layout) = after[n]
  BY <1>2, Zenon DEF Serial
<1>4. \A k \in 0 .. n : /\ g[k].frame = h[k] /\ g[k].fates = outcome /\ g[k].warned = W(k)
                        /\ g[k] = [frame |-> h[k], fates |-> outcome, warned |-> W(k)]
  <2> HIDE DEF W
  <2> QED
    OBVIOUS
<1>5. ASSUME NEW k \in 1 .. n
      PROVE  Fated(g[k - 1], s[k]) = g[k]
  <2> DEFINE i == s[k]
             r == RunAlone(h[k - 1], plan[i], i)
             a == g[k - 1]
  <2>1. r.frame = h[k] /\ r.error = outcome[i] /\ (r.warned <=> i \in D) /\ i \in Nodes
    BY <1>1, Zenon DEF Came
  <2>2. k - 1 \in 0 .. n /\ k \in 0 .. n
    BY <1>1
  <2>3. a.frame = h[k - 1] /\ a.fates = outcome /\ a.warned = W(k - 1)
    BY <1>4, <2>2
  <2>4. W(k) = IF i \in D THEN W(k - 1) \cup {i} ELSE W(k - 1)
    <3>1. \A j : j \in 1 .. k <=> j \in 1 .. k - 1 \/ j = k
      BY <1>1
    <3>2. \A x : (\E j \in 1 .. k : s[j] = x) <=> (\E j \in 1 .. k - 1 : s[j] = x) \/ x = i
      BY <3>1
    <3> QED
      BY <2>1, <3>2
  <2> HIDE DEF g, a, W
  <2>5. Fated(a, i) = [frame |-> RunAlone(a.frame, plan[i], i).frame,
                       fates |-> [a.fates EXCEPT ![i] = RunAlone(a.frame, plan[i], i).error],
                       warned |-> IF RunAlone(a.frame, plan[i], i).warned THEN a.warned \cup {i} ELSE a.warned]
    BY Zenon DEF Fated
  <2>6. Fated(a, i) = [frame |-> r.frame, fates |-> [outcome EXCEPT ![i] = r.error],
                       warned |-> IF r.warned THEN W(k - 1) \cup {i} ELSE W(k - 1)]
    BY <2>3, <2>5, Zenon
  <2>7. [outcome EXCEPT ![i] = outcome[i]] = outcome
    BY <2>1 DEF OutcomeInv
  <2> HIDE DEF r, i
  <2>8. Fated(a, i) = [frame |-> h[k], fates |-> outcome, warned |-> W(k)]
    BY <2>1, <2>4, <2>6, <2>7
  <2> QED
    BY <1>4, <2>2, <2>8 DEF i, a
<1>6. g = Body(g)
  <2>1. g[0] = start
    <3>1. W(0) = {} /\ 0 \in 0 .. n
      BY <1>1
    <3> HIDE DEF g, W
    <3> QED
      BY <1>1, <1>4, <3>1
  <2>2. g = [k \in 0 .. n |-> g[k]]
    OBVIOUS
  <2> HIDE DEF g, start
  <2>3. \A k \in 0 .. n : g[k] = IF k = 0 THEN start ELSE Fated(g[k - 1], s[k])
    BY <1>1, <1>5, <2>1
  <2> QED
    BY <2>2, <2>3
<1> HIDE DEF g, W
<1>7. after = Body(after)
  <2> HIDE DEF Body
  <2> QED
    BY <1>6, Zenon
<1> HIDE DEF after
<1>8. after[0] = start /\ \A k \in 1 .. n : after[k] = Fated(after[k - 1], s[k])
  <2>1. \A k \in 0 .. n : after[k] = IF k = 0 THEN start ELSE Fated(after[k - 1], s[k])
    <3> HIDE DEF start
    <3> QED
      BY <1>7
  <2> HIDE DEF start
  <2> QED
    BY <1>1, <2>1
<1> DEFINE P == {k \in Nat : k \in 0 .. n => after[k] = g[k]}
<1>9. 0 \in P
  <2>1. g[0] = start
    <3> HIDE DEF start
    <3>1. 0 \in 0 .. n
      BY <1>1
    <3> QED
      BY <1>6, <3>1
  <2> HIDE DEF start
  <2> QED
    BY <1>8, <2>1
<1>10. ASSUME NEW k \in 1 .. n, k - 1 \in P
       PROVE  k \in P
  <2>1. after[k - 1] = g[k - 1]
    BY <1>1, <1>10
  <2> HIDE DEF start
  <2> QED
    BY <1>1, <1>5, <1>8, <2>1
<1>11. n \in P
  <2>1. 0 .. n \subseteq P
    <3> HIDE DEF P
    <3> QED
      BY <1>1, <1>9, <1>10, AscentFromZero
  <2> HIDE DEF P
  <2> QED
    BY <1>1, <2>1
<1>12. after[n] = [frame |-> h[n], fates |-> outcome, warned |-> W(n)]
  <2>1. n \in 0 .. n
    BY <1>1
  <2> QED
    BY <1>1, <1>4, <1>11, <2>1
<1>13. W(n) = {i \in Nodes : outcome[i] # "none" /\ i \in D}
  BY <1>1 DEF W
<1> QED
  BY <1>1, <1>3, <1>12, <1>13

LEMMA HistoryIsAnOrder ==
    ASSUME NEW n, NEW s, NEW h, NEW D, History(n, s, h, D)
    PROVE  s \in Orders /\ DOMAIN s = 1 .. n
<1>1. /\ n \in Nat /\ s \in [1 .. n -> Nodes] /\ \A a, b \in 1 .. n : s[a] = s[b] => a = b
      /\ \A i \in Nodes : outcome[i] # "none" <=> \E k \in 1 .. n : s[k] = i
      /\ \A a, b \in 1 .. n : <<s[a], s[b]>> \in edges => a < b
  BY DEF History
<1>2. \A i \in Nodes : i \in Started <=> \E k \in 1 .. n : s[k] = i
  BY <1>1 DEF Started
<1>3. s \in [1 .. n -> Started] /\ \A i \in Started : \E k \in 1 .. n : s[k] = i
  BY <1>1, <1>2 DEF Started
<1>4. s \in Bijection(1 .. n, Started)
  BY <1>1, <1>3 DEF Bijection, Injection, Surjection, IsInjective
<1>5. IsFiniteSet(1 .. n) /\ Cardinality(1 .. n) = n
  BY <1>1, FS_Interval
<1>6. Cardinality(Started) = n
  <2>1. ExistsBijection(1 .. n, Started)
    BY <1>4 DEF ExistsBijection
  <2> QED
    BY <1>5, <2>1, FS_Bijection
<1>7. DOMAIN s = 1 .. n /\ IsInjective(s)
  BY <1>1 DEF IsInjective
<1> QED
  BY <1>1, <1>3, <1>6, <1>7 DEF Orders

(* At the end every node whose fate is settled is past the catch block, so *)
(* that all the warnings are there.                                        *)
LEMMA WarningsFollow ==
    ASSUME PipelineInv, OutcomeInv, Plain(plan), Finished, NEW n, NEW s, NEW h, NEW D, History(n, s, h, D), Noted(n, s, D)
    PROVE  SameWarnings(s, {i \in Nodes : outcome[i] # "none" /\ i \in D})
<1> DEFINE ws == warnings
           W == {i \in Nodes : outcome[i] # "none" /\ i \in D}
<1>1. Lists(ws, Shown(D)) /\ InOrder(ws, outcome, n, s)
  BY Zenon DEF Noted
<1>2. Shown(D) = W
  <2>1. \A i \in Nodes : phase[i] # "caught"
    BY DEF Finished, Ended
  <2> QED
    BY <2>1 DEF Shown
<1> HIDE DEF W
<1>3. DOMAIN ws = 1 .. Len(ws) /\ DOMAIN s = 1 .. n
  BY <1>1, ListDomain, HistoryIsAnOrder DEF Lists
<1>4. IsInjective(ws)
  BY <1>1, <1>3 DEF Lists, IsInjective
<1>5. ToSet(ws) = W
  BY <1>1, <1>2, <1>3 DEF Lists, ToSet
<1>6. Sharded = {}
  <2>1. \A i \in Nodes : plan[i].data_parallel <= 1 /\ plan[i].data_parallel \in Nat
    BY Values DEF Plain, Nodes, WellFormed
  <2> QED
    BY <2>1 DEF Sharded
<1>7. Settled(ToSet(ws)) = Settled(W)
  BY <1>5
<1>8. \A a, b \in DOMAIN ws : a < b /\ outcome[ws[b]] = "done" =>
         \A k, l \in DOMAIN s : s[k] = ws[a] /\ s[l] = ws[b] => k < l
  BY <1>1, <1>3, Zenon DEF InOrder
<1> QED
  BY <1>4, <1>7, <1>8, Zenon DEF SameWarnings, W

(* Whatever the schedule, a run of operators that are not sharded gives    *)
(* what running them one at a time in the same layout gives: the same      *)
(* frame, and so the same answer, the same fate of each operator, and a    *)
(* warning of the same operators, once each, in that order but for those   *)
(* of operators that failed; and the error that run_dag reports            *)
(* (engine.cpp) is that of an operator that failed.  The order is that in  *)
(* which the operators ended or threw: a warning that the catch block      *)
(* pushes may come after those of operators that applied in between.       *)
THEOREM OwnLayoutInSeries == Spec => [](Plain(plan) => InSeries(frame.layout))
<1>1. PipelineInv /\ EvenInv /\ (Plain(plan) => RunInv) => (Plain(plan) => InSeries(frame.layout))
  <2> SUFFICES ASSUME PipelineInv, OutcomeInv, Plain(plan), RunInv, Finished
               PROVE  /\ fatal # 0 => Failed(outcome[fatal])
                      /\ fatal = 0 => \A i \in Nodes : outcome[i] \in {"done", "skipped"}
                      /\ \E s \in Orders : SameRun(s, Serial(s, frame.layout), ToResult(frame))
    BY Zenon DEF InSeries, EvenInv
  <2>1. PICK n, s, h, D : History(n, s, h, D) /\ Noted(n, s, D)
    BY Zenon DEF RunInv
  <2>2. Fates
    BY DEF RunInv
  <2>3. s \in Orders
    BY <2>1, HistoryIsAnOrder
  <2> DEFINE W == {i \in Nodes : outcome[i] # "none" /\ i \in D}
             end == [frame |-> frame, fates |-> outcome, warned |-> W]
  <2>4. Serial(s, frame.layout) = end
    BY <2>1, SerialFollows
  <2>5. SameWarnings(s, W)
    BY <2>1, WarningsFollow
  <2> HIDE DEF W
  <2>6. end.frame = frame /\ end.fates = outcome /\ end.warned = W
    OBVIOUS
  <2>7. SameFates(outcome)
    BY DEF SameFates
  <2> HIDE DEF end
  <2>8. SameRun(s, end, ToResult(frame))
    BY <2>5, <2>6, <2>7, Zenon DEF SameRun
  <2>9. fatal = 0 => \A i \in Nodes : outcome[i] \in {"done", "skipped"}
    <3> SUFFICES ASSUME fatal = 0, NEW i \in Nodes
                 PROVE  outcome[i] \in {"done", "skipped"}
      OBVIOUS
    <3>1. phase[i] = "ended"
      BY DEF Finished, Ended
    <3>2. outcome[i] # "none" /\ ~Failed(outcome[i])
      BY <2>2, <3>1 DEF Fates, OutcomeInv, Decided
    <3> QED
      BY <3>2 DEF Failed
  <2>10. fatal # 0 => Failed(outcome[fatal])
    BY <2>2 DEF Fates
  <2> QED
    BY <2>3, <2>4, <2>8, <2>9, <2>10
<1> QED
  BY <1>1, Invariance, EvenAlways, PlainRuns, PTL

(* Where the reference is the layout of the run itself, as it is for every *)
(* run in the row layout, that is Serializable.                            *)
THEOREM PlainSerializable ==
    Spec => [](Plain(plan) /\ ReferenceLayout = frame.layout => Serializable)
<1>1. (Plain(plan) => InSeries(frame.layout)) => (Plain(plan) /\ ReferenceLayout = frame.layout => Serializable)
  BY DEF Serializable
<1> QED
  BY <1>1, OwnLayoutInSeries, PTL
=============================================================================
