------------------------- MODULE NativeClipboardProofs -------------------------
(* Lemmas about NativeClipboard: paths and their strings, percent encoding,  *)
(* and which lists of files come back from a clipboard as they were put      *)
(* there, for lists, paths and names of any length.                          *)
EXTENDS NativeClipboard, RecursionLemmas, SequenceTheorems, FiniteSetTheorems

-------------------------------------------------------------------------------
(* Sequences.                                                                *)

\* Equal sequences have the same elements at the same places.
LEMMA SameSequence ==
    ASSUME NEW D, NEW s \in Seq(D), NEW t \in Seq(D), Len(s) = Len(t),
           \A i \in 1 .. Len(s) : s[i] = t[i]
    PROVE  s = t
  BY SeqEqual

LEMMA AppendFacts ==
    ASSUME NEW D, NEW s \in Seq(D), NEW x \in D
    PROVE  /\ Append(s, x) \in Seq(D)
           /\ Len(Append(s, x)) = Len(s) + 1
           /\ \A i \in 1 .. Len(s) : Append(s, x)[i] = s[i]
           /\ Append(s, x)[Len(s) + 1] = x
  BY AppendProperties

LEMMA ConcatFacts ==
    ASSUME NEW D, NEW s \in Seq(D), NEW t \in Seq(D)
    PROVE  /\ s \o t \in Seq(D)
           /\ Len(s \o t) = Len(s) + Len(t)
           /\ \A i \in 1 .. Len(s) : (s \o t)[i] = s[i]
           /\ \A i \in 1 .. Len(t) : (s \o t)[Len(s) + i] = t[i]
  BY ConcatProperties

\* FlattenSeq joins its sequences one after the other.
LEMMA FlattenSteps ==
    ASSUME NEW D, NEW ss \in Seq(Seq(D))
    PROVE  \E flat \in [0 .. Len(ss) -> Seq(D)] :
                /\ flat[0] = <<>>
                /\ \A i \in 1 .. Len(ss) : flat[i] = flat[i - 1] \o ss[i]
                /\ FlattenSeq(ss) = flat[Len(ss)]
<1> DEFINE n == Len(ss)
           step == [i \in 1 .. n |-> [x \in Seq(D) |-> x \o ss[i]]]
<1>1. n \in Nat /\ ss \in [1 .. n -> Seq(D)] /\ <<>> \in Seq(D)
  OBVIOUS
<1>2. step \in [1 .. n -> [Seq(D) -> Seq(D)]]
  <2>1. ASSUME NEW i \in 1 .. n, NEW x \in Seq(D) PROVE x \o ss[i] \in Seq(D)
    BY <1>1, ConcatFacts
  <2> QED BY <2>1
<1> HIDE DEF n
<1>3. PICK u \in [0 .. n -> Seq(D)] : u[0] = <<>> /\ \A k \in 1 .. n : u[k] = step[k][u[k - 1]]
  <2> DEFINE T == Seq(D)
             base == <<>>
  <2>1. n \in Nat /\ base \in T /\ step \in [1 .. n -> [T -> T]]
    BY <1>1, <1>2
  <2> HIDE DEF step, T, base
  <2>2. \E u : Follows(u, T, base, n, step)
    BY <2>1, RecursionExists
  <2> QED BY <2>2 DEF T, base, Follows
<1>4. ASSUME NEW k \in 1 .. n PROVE u[k] = u[k - 1] \o ss[k] /\ u[k - 1] \in Seq(D)
  <2>1. k - 1 \in 0 .. n
    BY <1>1
  <2> QED BY <1>3, <2>1
<1>5. CASE n = 0
  <2>1. ss = <<>>
    BY <1>5 DEF n
  <2>2. FlattenSeq(ss) = <<>>
    BY <2>1, <1>5 DEF FlattenSeq, n
  <2> QED BY <1>3, <1>4, <1>5, <2>2 DEF n
<1>6. CASE n # 0
  <2> DEFINE Def(f) == f = [i \in 1 .. n |-> IF i = 1 THEN ss[i] ELSE f[i - 1] \o ss[i]]
             flatten == CHOOSE f : Def(f)
             w == [i \in 1 .. n |-> u[i]]
  <2>1. FlattenSeq(ss) = flatten[n]
    BY <1>6 DEF FlattenSeq, n
  <2>2. Def(w)
    <3>1. ASSUME NEW i \in 1 .. n PROVE w[i] = IF i = 1 THEN ss[i] ELSE w[i - 1] \o ss[i]
      <4>1. CASE i = 1
        <5>1. u[1] = u[0] \o ss[1] /\ ss[1] \in Seq(D)
          BY <1>1, <1>4, <4>1
        <5>2. u[1] = <<>> \o ss[1]
          BY <1>3, <5>1
        <5> QED BY <4>1, <5>1, <5>2, ConcatEmptySeq
      <4>2. CASE i # 1
        <5>1. i - 1 \in 1 .. n
          BY <1>1, <4>2
        <5> QED BY <1>4, <4>2, <5>1
      <4> QED BY <4>1, <4>2
    <3> QED BY <3>1
  <2>3. Def(flatten)
    <3> HIDE DEF Def, w
    <3> QED BY <2>2
  <2> DEFINE Same == {k \in 0 .. n : k = 0 \/ flatten[k] = u[k]}
  <2>4. ASSUME NEW k \in 0 .. n - 1, k \in Same PROVE k + 1 \in Same
    <3>1. k + 1 \in 1 .. n /\ (k + 1) - 1 = k
      BY <1>1
    <3>2. flatten[k + 1] = IF k + 1 = 1 THEN ss[k + 1] ELSE flatten[k] \o ss[k + 1]
      <4> HIDE DEF flatten
      <4> QED BY <2>3, <3>1
    <3>3. u[k + 1] = u[k] \o ss[k + 1]
      BY <1>4, <3>1
    <3>4. CASE k = 0
      <4>1. u[1] = u[0] \o ss[1] /\ ss[1] \in Seq(D)
        BY <1>1, <1>6, <3>3, <3>4
      <4>2. u[1] = <<>> \o ss[1]
        BY <1>3, <4>1
      <4>3. u[1] = ss[1]
        BY <4>1, <4>2, ConcatEmptySeq
      <4> HIDE DEF flatten
      <4> QED BY <3>1, <3>2, <3>4, <4>3
    <3>5. CASE k # 0
      <4>1. flatten[k] = u[k]
        BY <2>4, <3>5
      <4>2. k + 1 # 1 /\ k + 1 \in 0 .. n
        BY <3>1, <3>5
      <4> HIDE DEF flatten
      <4> QED BY <3>2, <3>3, <4>1, <4>2
    <3> QED BY <3>4, <3>5
  <2>5. n \in Same
    <3>1. 0 \in Same
      BY <1>1
    <3>2. \A k \in 0 .. n - 1 : k \in Same => k + 1 \in Same
      BY <2>4
    <3>3. n \in 0 .. n
      BY <1>1
    <3> HIDE DEF Same
    <3>4. \A k \in 0 .. n : k \in Same
      BY <1>1, <3>1, <3>2, InductionUpTo
    <3> QED BY <3>3, <3>4
  <2>6. FlattenSeq(ss) = u[n]
    <3> HIDE DEF flatten
    <3> QED BY <1>6, <2>1, <2>5
  <2> QED BY <1>3, <1>4, <2>6 DEF n
<1> QED BY <1>5, <1>6

LEMMA SeqValues ==
    ASSUME NEW D, NEW s \in Seq(D)
    PROVE  /\ Len(s) \in Nat /\ DOMAIN s = 1 .. Len(s)
           /\ \A i \in 1 .. Len(s) : s[i] \in D
           /\ ToSet(s) \subseteq D
<1>1. Len(s) \in Nat /\ DOMAIN s = 1 .. Len(s) /\ \A i \in 1 .. Len(s) : s[i] \in D
  OBVIOUS
<1> QED BY <1>1 DEF ToSet

\* Induction over sequences, on a set.
LEMMA SeqInduction ==
    ASSUME NEW D, NEW P, <<>> \in P,
           \A s \in Seq(D), x \in D : s \in P => Append(s, x) \in P
    PROVE  Seq(D) \subseteq P
<1> SUFFICES ASSUME NEW s \in Seq(D) PROVE s \in P
  OBVIOUS
<1> DEFINE n == Len(s)
           First(k) == SubSeq(s, 1, k)
           S == {k \in 0 .. n : First(k) \in P}
<1>1. n \in Nat
  OBVIOUS
<1>2. 0 \in S
  <2>1. First(0) = <<>>
    BY SubSeqEmpty
  <2> HIDE DEF First
  <2> QED BY <1>1, <2>1
<1>3. ASSUME NEW k \in 0 .. n - 1, k \in S PROVE k + 1 \in S
  <2>1. k + 1 \in 1 .. n /\ k \in Int
    BY <1>1
  <2>2. SubSeq(s, 1, k) \in Seq(D) /\ Len(SubSeq(s, 1, k)) = k /\ s[k + 1] \in D
    BY <1>1, <2>1
  <2>3. SubSeq(s, 1, k + 1) = Append(SubSeq(s, 1, k), s[k + 1])
    <3> DEFINE t == SubSeq(s, 1, k + 1)
               u == Append(SubSeq(s, 1, k), s[k + 1])
    <3>1. t \in Seq(D) /\ Len(t) = k + 1 /\ \A i \in 1 .. k + 1 : t[i] = s[i]
      BY <1>1, <2>1
    <3>2. \A i \in 1 .. k : SubSeq(s, 1, k)[i] = s[i]
      BY <1>1, <2>1
    <3>3. u \in Seq(D) /\ Len(u) = k + 1 /\ \A i \in 1 .. k + 1 : u[i] = s[i]
      BY <2>1, <2>2, <3>2, AppendFacts
    <3> HIDE DEF t, u
    <3>4. t = u
      BY <3>1, <3>3, SeqEqual
    <3> QED BY <3>4 DEF t, u
  <2>4. First(k) \in P /\ First(k) \in Seq(D) /\ First(k + 1) = Append(First(k), s[k + 1])
    BY <1>3, <2>2, <2>3
  <2> HIDE DEF First
  <2>5. First(k + 1) \in P
    BY <2>2, <2>4
  <2> QED BY <1>1, <2>1, <2>5
<1>4. n \in S
  <2>1. \A k \in 0 .. n - 1 : k \in S => k + 1 \in S
    BY <1>3
  <2>2. n \in 0 .. n
    BY <1>1
  <2> HIDE DEF S, n, First
  <2>3. \A k \in 0 .. n : k \in S
    BY <1>1, <1>2, <2>1, InductionUpTo
  <2> QED BY <2>2, <2>3
<1>5. SubSeq(s, 1, n) = s
  BY SubSeqFull
<1> QED BY <1>4, <1>5

\* A sequence that is not empty has a last element.
LEMMA LastElement ==
    ASSUME NEW D, NEW s \in Seq(D), s # <<>>
    PROVE  \E t \in Seq(D), x \in D : s = Append(t, x)
<1>1. Len(s) \in Nat \ {0}
  BY EmptySeq
<1> DEFINE t == SubSeq(s, 1, Len(s) - 1)
           x == s[Len(s)]
<1>2. t \in Seq(D) /\ Len(t) = Len(s) - 1 /\ x \in D /\ \A i \in 1 .. Len(s) - 1 : t[i] = s[i]
  BY <1>1
<1>3. s = Append(t, x)
  <2>1. Append(t, x) \in Seq(D) /\ Len(Append(t, x)) = Len(s)
        /\ \A i \in 1 .. Len(s) : Append(t, x)[i] = s[i]
    <3> HIDE DEF t
    <3>1. Append(t, x) \in Seq(D) /\ Len(Append(t, x)) = Len(t) + 1
          /\ (\A i \in 1 .. Len(t) : Append(t, x)[i] = t[i]) /\ Append(t, x)[Len(t) + 1] = x
      BY <1>2, AppendFacts
    <3> QED BY <1>1, <1>2, <3>1
  <2> HIDE DEF t, x
  <2> QED BY <2>1, SeqEqual
<1> QED BY <1>2, <1>3

LEMMA FlattenEmpty == FlattenSeq(<<>>) = <<>>
  BY DEF FlattenSeq

LEMMA FlattenAppend ==
    ASSUME NEW D, NEW ss \in Seq(Seq(D)), NEW t \in Seq(D)
    PROVE  FlattenSeq(ss) \in Seq(D) /\ FlattenSeq(Append(ss, t)) = FlattenSeq(ss) \o t
<1> DEFINE n == Len(ss)
           tt == Append(ss, t)
<1>1. n \in Nat /\ tt \in Seq(Seq(D)) /\ Len(tt) = n + 1
      /\ (\A i \in 1 .. n : tt[i] = ss[i]) /\ tt[n + 1] = t
  BY AppendFacts
<1>2. PICK f \in [0 .. n -> Seq(D)] :
        f[0] = <<>> /\ (\A i \in 1 .. n : f[i] = f[i - 1] \o ss[i]) /\ FlattenSeq(ss) = f[n]
  BY FlattenSteps
<1> HIDE DEF tt
<1>3. PICK g \in [0 .. Len(tt) -> Seq(D)] :
        g[0] = <<>> /\ (\A i \in 1 .. Len(tt) : g[i] = g[i - 1] \o tt[i]) /\ FlattenSeq(tt) = g[Len(tt)]
  BY <1>1, FlattenSteps
<1> HIDE DEF n
<1>4. \A k \in 0 .. n : g[k] = f[k]
  <2> DEFINE Same == {k \in 0 .. n : g[k] = f[k]}
  <2>1. 0 \in Same /\ n \in Nat
    BY <1>1, <1>2, <1>3
  <2>2. ASSUME NEW k \in 0 .. n - 1, k \in Same PROVE k + 1 \in Same
    <3>1. k + 1 \in 1 .. n /\ k + 1 \in 1 .. Len(tt) /\ (k + 1) - 1 = k /\ tt[k + 1] = ss[k + 1]
      BY <1>1
    <3>2. g[k + 1] = g[k] \o tt[k + 1] /\ f[k + 1] = f[k] \o ss[k + 1]
      BY <1>2, <1>3, <3>1
    <3>3. g[k + 1] = f[k + 1]
      BY <2>2, <3>1, <3>2
    <3> QED BY <1>1, <3>1, <3>3
  <2>3. \A k \in 0 .. n - 1 : k \in Same => k + 1 \in Same
    BY <2>2
  <2> HIDE DEF Same
  <2>4. \A k \in 0 .. n : k \in Same
    BY <2>1, <2>3, InductionUpTo
  <2> QED BY <2>4 DEF Same
<1>5. g[n + 1] = g[n] \o t /\ g[n] = f[n] /\ f[n] \in Seq(D)
  <2>1. n + 1 \in 1 .. Len(tt) /\ (n + 1) - 1 = n /\ n \in 0 .. n
    BY <1>1
  <2> QED BY <1>1, <1>2, <1>3, <1>4, <2>1
<1> QED BY <1>1, <1>2, <1>3, <1>5 DEF tt

\* The elements of joined sequences.
LEMMA FlattenElements ==
    ASSUME NEW D, NEW ss \in Seq(Seq(D))
    PROVE  FlattenSeq(ss) \in Seq(D) /\ ToSet(FlattenSeq(ss)) = UNION {ToSet(ss[i]) : i \in DOMAIN ss}
<1> DEFINE All(x) == UNION {ToSet(x[i]) : i \in DOMAIN x}
           P == {x \in Seq(Seq(D)) : ToSet(FlattenSeq(x)) = All(x)}
<1>1. <<>> \in P
  BY FlattenEmpty DEF ToSet
<1>2. ASSUME NEW x \in Seq(Seq(D)), NEW t \in Seq(D), x \in P PROVE Append(x, t) \in P
  <2>1. FlattenSeq(x) \in Seq(D) /\ FlattenSeq(Append(x, t)) = FlattenSeq(x) \o t
    BY FlattenAppend
  <2>2. ToSet(FlattenSeq(x) \o t) = ToSet(FlattenSeq(x)) \cup ToSet(t)
    <3> PICK s \in Seq(D) : s = FlattenSeq(x)
      BY <2>1
    <3>1. /\ Len(s) \in Nat /\ Len(t) \in Nat /\ DOMAIN s = 1 .. Len(s) /\ DOMAIN t = 1 .. Len(t)
          /\ DOMAIN (s \o t) = 1 .. Len(s) + Len(t)
      OBVIOUS
    <3>2. /\ \A i \in 1 .. Len(s) : i \in DOMAIN (s \o t) /\ (s \o t)[i] = s[i]
          /\ \A i \in 1 .. Len(t) : Len(s) + i \in DOMAIN (s \o t) /\ (s \o t)[Len(s) + i] = t[i]
      BY <3>1, ConcatFacts
    <3>3. \A i \in DOMAIN (s \o t) : i \in 1 .. Len(s) \/ (i - Len(s) \in 1 .. Len(t) /\ i = Len(s) + (i - Len(s)))
      BY <3>1
    <3>4. ASSUME NEW y \in ToSet(s \o t) PROVE y \in ToSet(s) \cup ToSet(t)
      <4> PICK i \in DOMAIN (s \o t) : y = (s \o t)[i]
        BY DEF ToSet
      <4>1. CASE i \in 1 .. Len(s)
        BY <3>1, <3>2, <4>1 DEF ToSet
      <4>2. CASE i - Len(s) \in 1 .. Len(t) /\ i = Len(s) + (i - Len(s))
        <5> PICK j \in 1 .. Len(t) : i = Len(s) + j
          BY <4>2
        <5>1. y = t[j]
          BY <3>2
        <5> QED BY <3>1, <5>1 DEF ToSet
      <4> QED BY <3>3, <4>1, <4>2
    <3>5. ASSUME NEW y \in ToSet(s) \cup ToSet(t) PROVE y \in ToSet(s \o t)
      <4>1. CASE y \in ToSet(s)
        <5> PICK i \in 1 .. Len(s) : y = s[i]
          BY <3>1, <4>1 DEF ToSet
        <5> QED BY <3>2 DEF ToSet
      <4>2. CASE y \in ToSet(t)
        <5> PICK i \in 1 .. Len(t) : y = t[i]
          BY <3>1, <4>2 DEF ToSet
        <5> QED BY <3>2 DEF ToSet
      <4> QED BY <4>1, <4>2
    <3> QED BY <3>4, <3>5
  <2>3. All(Append(x, t)) = All(x) \cup ToSet(t)
    <3>1. /\ Len(x) \in Nat /\ DOMAIN x = 1 .. Len(x) /\ DOMAIN Append(x, t) = 1 .. Len(x) + 1
          /\ (\A i \in 1 .. Len(x) : Append(x, t)[i] = x[i]) /\ Append(x, t)[Len(x) + 1] = t
      BY AppendFacts
    <3>2. \A i \in 1 .. Len(x) + 1 : i \in 1 .. Len(x) \/ i = Len(x) + 1
      BY <3>1
    <3>3. \A i \in 1 .. Len(x) : i \in 1 .. Len(x) + 1
      BY <3>1
    <3>4. Len(x) + 1 \in 1 .. Len(x) + 1
      BY <3>1
    <3>5. All(Append(x, t)) \subseteq All(x) \cup ToSet(t)
      BY <3>1, <3>2
    <3>6. All(x) \cup ToSet(t) \subseteq All(Append(x, t))
      BY <3>1, <3>3, <3>4
    <3> QED BY <3>5, <3>6
  <2>4. Append(x, t) \in Seq(Seq(D))
    BY AppendFacts
  <2> QED BY <1>2, <2>1, <2>2, <2>3, <2>4
<1>3. ss \in P
  <2> DEFINE E == Seq(D)
  <2>1. \A x \in Seq(E), t \in E : x \in P => Append(x, t) \in P
    BY <1>2
  <2> HIDE DEF P, E
  <2>2. Seq(E) \subseteq P
    BY <1>1, <2>1, SeqInduction
  <2> QED BY <2>2 DEF E
<1>4. FlattenSeq(ss) \in Seq(D)
  <2>1. <<>> \in Seq(D)
    OBVIOUS
  <2> QED BY <2>1, FlattenAppend
<1> QED BY <1>3, <1>4

\* A sequence is made of its elements one by one.
LEMMA FlattenSingles ==
    ASSUME NEW D, NEW s \in Seq(D)
    PROVE  FlattenSeq([i \in DOMAIN s |-> <<s[i]>>]) = s
<1> DEFINE Singles(x) == [i \in DOMAIN x |-> <<x[i]>>]
           P == {x \in Seq(D) : FlattenSeq(Singles(x)) = x}
<1>1. <<>> \in P
  <2>1. Singles(<<>>) = <<>>
    OBVIOUS
  <2> QED BY <2>1, FlattenEmpty
<1>2. ASSUME NEW x \in Seq(D), NEW y \in D, x \in P PROVE Append(x, y) \in P
  <2>1. Singles(x) \in Seq(Seq(D)) /\ Len(Singles(x)) = Len(x) /\ <<y>> \in Seq(D)
    <3>1. Len(x) \in Nat /\ DOMAIN x = 1 .. Len(x) /\ \A i \in 1 .. Len(x) : <<x[i]>> \in Seq(D)
      OBVIOUS
    <3> QED BY <3>1
  <2>2. Singles(Append(x, y)) = Append(Singles(x), <<y>>)
    <3>1. Append(x, y) \in Seq(D) /\ Len(Append(x, y)) = Len(x) + 1 /\ Len(x) \in Nat
          /\ (\A i \in 1 .. Len(x) : Append(x, y)[i] = x[i]) /\ Append(x, y)[Len(x) + 1] = y
      BY AppendFacts
    <3>2. DOMAIN Append(x, y) = 1 .. Len(x) + 1 /\ DOMAIN x = 1 .. Len(x)
      BY <3>1
    <3> DEFINE t == Singles(Append(x, y))
               u == Append(Singles(x), <<y>>)
    <3>3. u \in Seq(Seq(D)) /\ Len(u) = Len(x) + 1
          /\ (\A i \in 1 .. Len(x) : u[i] = Singles(x)[i]) /\ u[Len(x) + 1] = <<y>>
      <4> PICK z \in Seq(Seq(D)) : z = Singles(x)
        BY <2>1
      <4> QED BY <2>1, AppendFacts
    <3>4. t \in Seq(Seq(D)) /\ Len(t) = Len(x) + 1
      <4>1. \A i \in 1 .. Len(x) + 1 : <<Append(x, y)[i]>> \in Seq(D)
        BY <3>1
      <4> QED BY <3>1, <3>2, <4>1
    <3>5. \A i \in 1 .. Len(x) + 1 : t[i] = u[i]
      BY <3>1, <3>2, <3>3
    <3> HIDE DEF t, u
    <3>6. t = u
      BY <3>3, <3>4, <3>5, SeqEqual
    <3> QED BY <3>6 DEF t, u
  <2>3. FlattenSeq(Append(Singles(x), <<y>>)) = x \o <<y>>
    <3> PICK z \in Seq(Seq(D)) : z = Singles(x)
      BY <2>1
    <3>1. FlattenSeq(z) = x
      BY <1>2
    <3>2. FlattenSeq(Append(z, <<y>>)) = FlattenSeq(z) \o <<y>>
      BY <2>1, FlattenAppend
    <3> QED BY <3>1, <3>2
  <2>4. x \o <<y>> = Append(x, y) /\ Append(x, y) \in Seq(D)
    OBVIOUS
  <2> HIDE DEF Singles
  <2> QED BY <2>2, <2>3, <2>4
<1>3. Seq(D) \subseteq P
  <2>1. \A x \in Seq(D), y \in D : x \in P => Append(x, y) \in P
    BY <1>2
  <2> HIDE DEF P
  <2> QED BY <1>1, <2>1, SeqInduction
<1> QED BY <1>3

\* A finite set as a sequence, in one order or another.
LEMMA SetAsSequence ==
    ASSUME NEW S, IsFiniteSet(S)
    PROVE  /\ SetToSeq(S) \in Seq(S) /\ ToSet(SetToSeq(S)) = S
           /\ \A i, j \in DOMAIN SetToSeq(S) : SetToSeq(S)[i] = SetToSeq(S)[j] => i = j
           /\ \A s \in SetToSeqs(S) : s \in Seq(S) /\ ToSet(s) = S
<1> DEFINE n == Cardinality(S)
<1>1. n \in Nat /\ ExistsBijection(1 .. n, S)
  BY FS_CardinalityType
<1>2. IsFiniteSet(1 .. n) /\ Cardinality(1 .. n) = n
  BY <1>1, FS_Interval
<1>3. ASSUME NEW f \in [1 .. n -> S], \A i, j \in 1 .. n : f[i] = f[j] => i = j
      PROVE  f \in Seq(S) /\ ToSet(f) = S
  <2>1. f \in Injection(1 .. n, S)
    BY <1>3 DEF Injection, IsInjective
  <2>2. f \in Surjection(1 .. n, S)
    BY <1>2, <2>1, FS_Injection
  <2>3. \A t \in S : \E i \in 1 .. n : f[i] = t
    BY <2>2 DEF Surjection
  <2>4. DOMAIN f = 1 .. n /\ \A i \in 1 .. n : f[i] \in S
    OBVIOUS
  <2>5. ToSet(f) = S
    BY <2>3, <2>4 DEF ToSet
  <2> QED BY <1>1, <2>5
<1>4. PICK g \in [1 .. n -> S] : IsInjective(g)
  BY <1>1 DEF ExistsBijection, Bijection, Injection
<1>5. SetToSeq(S) \in [1 .. n -> S] /\ IsInjective(SetToSeq(S))
  BY <1>4 DEF SetToSeq
<1> HIDE DEF n
<1>6. \A i, j \in 1 .. n : SetToSeq(S)[i] = SetToSeq(S)[j] => i = j
  BY <1>5 DEF IsInjective
<1>7. SetToSeq(S) \in Seq(S) /\ ToSet(SetToSeq(S)) = S
  BY <1>3, <1>5, <1>6
<1>8. ASSUME NEW s \in SetToSeqs(S) PROVE s \in Seq(S) /\ ToSet(s) = S
  BY <1>3, <1>8 DEF SetToSeqs, n
<1> QED BY <1>5, <1>6, <1>7, <1>8

\* The image of a finite set, under a function.
LEMMA FiniteImage ==
    ASSUME NEW S, IsFiniteSet(S), NEW f, DOMAIN f = S
    PROVE  IsFiniteSet({f[x] : x \in S})
<1> DEFINE T == {f[x] : x \in S}
           g == [x \in S |-> f[x]]
<1>1. g \in Surjection(S, T)
  BY DEF Surjection
<1> HIDE DEF g, T
<1>2. IsFiniteSet(T)
  BY <1>1, FS_Surjection
<1> QED BY <1>2 DEF T

-------------------------------------------------------------------------------
(* Paths and their strings.                                                  *)

ByteStrings == Seq(Bytes)

LEMMA NameFacts ==
    ASSUME NEW name \in FileNames
    PROVE  /\ name \in ByteStrings /\ Len(name) \in Nat \ {0}
           /\ \A i \in 1 .. Len(name) : name[i] # Slash
<1> DEFINE D == Bytes \ {Slash}
<1>1. name \in Seq(D) /\ name # <<>>
  BY DEF FileNames
<1>2. \A i \in 1 .. Len(name) : name[i] \in D
  BY <1>1, SeqValues
<1>3. Len(name) \in Nat \ {0}
  <2> HIDE DEF D
  <2> QED BY <1>1, EmptySeq
<1>4. name \in Seq(Bytes)
  <2>1. D \subseteq Bytes
    OBVIOUS
  <2> HIDE DEF D
  <2> QED BY <1>1, <2>1, SeqMonotonic
<1> QED BY <1>2, <1>3, <1>4 DEF ByteStrings

\* The string of one name.
Step(name) == <<Slash>> \o name
Steps(p) == [i \in DOMAIN p |-> Step(p[i])]

LEMMA StepFacts ==
    ASSUME NEW name \in FileNames
    PROVE  /\ Step(name) \in ByteStrings
           /\ Len(Step(name)) = Len(name) + 1
           /\ Step(name)[1] = Slash
           /\ \A i \in 1 .. Len(name) : Step(name)[i + 1] = name[i]
<1>1. name \in Seq(Bytes) /\ <<Slash>> \in Seq(Bytes) /\ Len(<<Slash>>) = 1 /\ <<Slash>>[1] = Slash
  BY NameFacts DEF ByteStrings, Bytes, Slash
<1>2. Len(name) \in Nat
  BY <1>1
<1>3. \A i \in 1 .. Len(name) : i + 1 = 1 + i
  BY <1>2
<1> PICK s \in Seq(Bytes) : s = <<Slash>> /\ Len(s) = 1 /\ s[1] = Slash
  BY <1>1
<1>4. /\ s \o name \in Seq(Bytes) /\ Len(s \o name) = 1 + Len(name)
      /\ (s \o name)[1] = Slash
      /\ \A i \in 1 .. Len(name) : (s \o name)[1 + i] = name[i]
  BY <1>1, ConcatFacts
<1> QED BY <1>2, <1>3, <1>4 DEF Step, ByteStrings

LEMMA StepsFacts ==
    ASSUME NEW p \in Seq(FileNames), NEW name \in FileNames
    PROVE  /\ Steps(p) \in Seq(ByteStrings) /\ Len(Steps(p)) = Len(p)
           /\ Steps(Append(p, name)) = Append(Steps(p), Step(name))
<1>1. Len(p) \in Nat /\ DOMAIN p = 1 .. Len(p) /\ \A i \in 1 .. Len(p) : p[i] \in FileNames
  BY SeqValues
<1>2. Steps(p) \in Seq(ByteStrings) /\ Len(Steps(p)) = Len(p)
  <2>1. \A i \in 1 .. Len(p) : Step(p[i]) \in ByteStrings
    BY <1>1, StepFacts
  <2> QED BY <1>1, <2>1 DEF Steps
<1>3. /\ Append(p, name) \in Seq(FileNames) /\ Len(Append(p, name)) = Len(p) + 1
      /\ (\A i \in 1 .. Len(p) : Append(p, name)[i] = p[i]) /\ Append(p, name)[Len(p) + 1] = name
  BY AppendFacts
<1>4. DOMAIN Append(p, name) = 1 .. Len(p) + 1
  BY <1>3
<1> DEFINE t == Steps(Append(p, name))
           u == Append(Steps(p), Step(name))
<1>5. /\ u \in Seq(ByteStrings) /\ Len(u) = Len(p) + 1
      /\ (\A i \in 1 .. Len(p) : u[i] = Steps(p)[i]) /\ u[Len(p) + 1] = Step(name)
  <2>1. Step(name) \in ByteStrings
    BY StepFacts
  <2> QED BY <1>2, <2>1, AppendFacts
<1>6. /\ t = [i \in 1 .. Len(p) + 1 |-> Step(Append(p, name)[i])]
      /\ Steps(p) = [i \in 1 .. Len(p) |-> Step(p[i])]
  BY <1>1, <1>4 DEF Steps
<1>7. t \in Seq(ByteStrings) /\ Len(t) = Len(p) + 1
  <2>1. \A i \in 1 .. Len(p) + 1 : Step(Append(p, name)[i]) \in ByteStrings
    BY <1>1, <1>3, StepFacts
  <2> HIDE DEF t
  <2> QED BY <1>1, <1>6, <2>1
<1>8. \A i \in 1 .. Len(p) + 1 : t[i] = u[i]
  <2>1. \A i \in 1 .. Len(p) + 1 : i \in 1 .. Len(p) \/ i = Len(p) + 1
    BY <1>1
  <2>2. \A i \in 1 .. Len(p) : i \in 1 .. Len(p) + 1
    BY <1>1
  <2> HIDE DEF t, u
  <2> QED BY <1>3, <1>5, <1>6, <2>1, <2>2
<1> HIDE DEF t, u
<1>9. t = u
  BY <1>5, <1>7, <1>8, SeqEqual
<1> QED BY <1>2, <1>9 DEF t, u

LEMMA PathStringAppend ==
    ASSUME NEW p \in Seq(FileNames), NEW name \in FileNames
    PROVE  PathString(p) \in ByteStrings /\ PathString(Append(p, name)) = PathString(p) \o Step(name)
<1>1. \A q : PathString(q) = FlattenSeq(Steps(q))
  BY DEF PathString, Steps, Step
<1>2. Steps(p) \in Seq(ByteStrings) /\ Steps(Append(p, name)) = Append(Steps(p), Step(name))
  BY StepsFacts
<1>3. Step(name) \in ByteStrings
  BY StepFacts
<1>4. FlattenSeq(Steps(p)) \in ByteStrings
      /\ FlattenSeq(Append(Steps(p), Step(name))) = FlattenSeq(Steps(p)) \o Step(name)
  BY <1>2, <1>3, FlattenAppend DEF ByteStrings
<1> QED BY <1>1, <1>2, <1>4

LEMMA PathStringEmpty == PathString(<<>>) = <<>>
<1>1. [i \in DOMAIN <<>> |-> <<Slash>> \o <<>>[i]] = <<>>
  OBVIOUS
<1> QED BY <1>1, FlattenEmpty DEF PathString

\* Names have no "/": the last name of a path can be told from its string.
LEMMA LastSlash ==
    ASSUME NEW s \in ByteStrings, NEW t \in ByteStrings, NEW a \in FileNames, NEW b \in FileNames,
           NEW w, w = s \o Step(a), w = t \o Step(b)
    PROVE  s = t /\ a = b
<1>1. /\ Len(s) \in Nat /\ Len(t) \in Nat /\ Len(a) \in Nat \ {0} /\ Len(b) \in Nat \ {0}
      /\ Step(a) \in ByteStrings /\ Step(b) \in ByteStrings
      /\ Len(Step(a)) = Len(a) + 1 /\ Len(Step(b)) = Len(b) + 1
  BY NameFacts, StepFacts DEF ByteStrings
<1>2. w = s \o Step(a) /\ w = t \o Step(b)
  OBVIOUS
<1>3. /\ Len(w) = Len(s) + Len(a) + 1
      /\ \A i \in 1 .. Len(s) : w[i] = s[i]
      /\ \A i \in 1 .. Len(a) + 1 : w[Len(s) + i] = Step(a)[i]
  <2>0. PICK x \in Seq(Bytes), y \in Seq(Bytes) :
        x = s /\ y = Step(a) /\ Len(x) = Len(s) /\ Len(y) = Len(a) + 1
    BY <1>1 DEF ByteStrings
  <2>1. w = x \o y
    BY <1>2, <2>0
  <2>2. /\ Len(x \o y) = Len(x) + Len(y)
        /\ \A i \in 1 .. Len(x) : (x \o y)[i] = x[i]
        /\ \A i \in 1 .. Len(y) : (x \o y)[Len(x) + i] = y[i]
    BY ConcatFacts
  <2> QED BY <1>1, <2>0, <2>1, <2>2
<1>4. /\ Len(w) = Len(t) + Len(b) + 1
      /\ \A i \in 1 .. Len(t) : w[i] = t[i]
      /\ \A i \in 1 .. Len(b) + 1 : w[Len(t) + i] = Step(b)[i]
  <2>0. PICK x \in Seq(Bytes), y \in Seq(Bytes) :
        x = t /\ y = Step(b) /\ Len(x) = Len(t) /\ Len(y) = Len(b) + 1
    BY <1>1 DEF ByteStrings
  <2>1. w = x \o y
    BY <1>2, <2>0
  <2>2. /\ Len(x \o y) = Len(x) + Len(y)
        /\ \A i \in 1 .. Len(x) : (x \o y)[i] = x[i]
        /\ \A i \in 1 .. Len(y) : (x \o y)[Len(x) + i] = y[i]
    BY ConcatFacts
  <2> QED BY <1>1, <2>0, <2>1, <2>2
<1>5. w[Len(s) + 1] = Slash /\ w[Len(t) + 1] = Slash
  <2>1. Step(a)[1] = Slash /\ Step(b)[1] = Slash
    BY StepFacts
  <2>2. 1 \in 1 .. Len(a) + 1 /\ 1 \in 1 .. Len(b) + 1
    BY <1>1
  <2> QED BY <1>3, <1>4, <2>1, <2>2
<1>6. ASSUME NEW i \in Len(s) + 2 .. Len(w) PROVE w[i] # Slash
  <2>1. i - Len(s) - 1 \in 1 .. Len(a) /\ (i - Len(s) - 1) + 1 \in 1 .. Len(a) + 1
        /\ i = Len(s) + ((i - Len(s) - 1) + 1)
    BY <1>1, <1>3
  <2> PICK j \in 1 .. Len(a) : j + 1 \in 1 .. Len(a) + 1 /\ i = Len(s) + (j + 1)
    BY <2>1
  <2>2. w[i] = a[j]
    BY <1>3, StepFacts
  <2> QED BY <2>2, NameFacts
<1>7. ASSUME NEW i \in Len(t) + 2 .. Len(w) PROVE w[i] # Slash
  <2>1. i - Len(t) - 1 \in 1 .. Len(b) /\ (i - Len(t) - 1) + 1 \in 1 .. Len(b) + 1
        /\ i = Len(t) + ((i - Len(t) - 1) + 1)
    BY <1>1, <1>4
  <2> PICK j \in 1 .. Len(b) : j + 1 \in 1 .. Len(b) + 1 /\ i = Len(t) + (j + 1)
    BY <2>1
  <2>2. w[i] = b[j]
    BY <1>4, StepFacts
  <2> QED BY <2>2, NameFacts
<1>8. Len(s) = Len(t)
  <2>1. ~(Len(s) < Len(t))
    <3> SUFFICES ASSUME Len(s) < Len(t) PROVE FALSE
      OBVIOUS
    <3>1. Len(t) + 1 \in Len(s) + 2 .. Len(w)
      BY <1>1, <1>4
    <3> QED BY <1>5, <1>6, <3>1
  <2>2. ~(Len(t) < Len(s))
    <3> SUFFICES ASSUME Len(t) < Len(s) PROVE FALSE
      OBVIOUS
    <3>1. Len(s) + 1 \in Len(t) + 2 .. Len(w)
      BY <1>1, <1>3
    <3> QED BY <1>5, <1>7, <3>1
  <2> QED BY <1>1, <2>1, <2>2
<1>9. s = t
  <2>1. \A i \in 1 .. Len(s) : s[i] = t[i]
    BY <1>3, <1>4, <1>8
  <2> QED BY <1>8, <2>1, SeqEqual DEF ByteStrings
<1>10. a = b
  <2>1. Len(a) = Len(b)
    BY <1>1, <1>3, <1>4, <1>8
  <2>2. ASSUME NEW i \in 1 .. Len(a) PROVE a[i] = b[i]
    <3>1. i + 1 \in 1 .. Len(a) + 1
      BY <1>1
    <3>2. Step(a)[i + 1] = a[i] /\ Step(b)[i + 1] = b[i]
      BY <2>1, StepFacts
    <3>3. w[Len(s) + (i + 1)] = Step(a)[i + 1] /\ w[Len(s) + (i + 1)] = Step(b)[i + 1]
      BY <1>3, <1>4, <1>8, <2>1, <3>1
    <3> QED BY <3>2, <3>3
  <2>3. a \in Seq(Bytes) /\ b \in Seq(Bytes)
    BY NameFacts DEF ByteStrings
  <2> QED BY <2>1, <2>2, <2>3, SeqEqual
<1> QED BY <1>9, <1>10

LEMMA PathStringType ==
    ASSUME NEW p \in Seq(FileNames)
    PROVE  PathString(p) \in ByteStrings
<1>1. <<65>> \in FileNames
  BY DEF FileNames, Bytes, Slash
<1> QED BY <1>1, PathStringAppend

\* Different paths have different strings.
LEMMA PathInjective ==
    ASSUME NEW p \in Seq(FileNames), NEW q \in Seq(FileNames), PathString(p) = PathString(q)
    PROVE  p = q
<1> DEFINE P == {x \in Seq(FileNames) : \A y \in Seq(FileNames) : PathString(x) = PathString(y) => x = y}
<1>1. ASSUME NEW x \in Seq(FileNames), NEW a \in FileNames PROVE PathString(Append(x, a)) # <<>>
  <2>1. PathString(x) \in ByteStrings /\ PathString(Append(x, a)) = PathString(x) \o Step(a)
    BY PathStringAppend
  <2>2. Step(a) \in ByteStrings /\ Len(Step(a)) = Len(a) + 1 /\ Len(a) \in Nat
    BY StepFacts, NameFacts
  <2>3. Len(PathString(x) \o Step(a)) # 0
    <3> PICK s, t \in ByteStrings : s = PathString(x) /\ t = Step(a) /\ Len(t) # 0
      BY <2>1, <2>2
    <3> QED BY ConcatFacts DEF ByteStrings
  <2> QED BY <2>1, <2>3
<1>2. <<>> \in P
  <2>1. ASSUME NEW y \in Seq(FileNames), PathString(<<>>) = PathString(y) PROVE <<>> = y
    <3> SUFFICES ASSUME y # <<>> PROVE FALSE
      OBVIOUS
    <3>1. PICK z \in Seq(FileNames), a \in FileNames : y = Append(z, a)
      BY LastElement
    <3> QED BY <1>1, <2>1, <3>1, PathStringEmpty
  <2>2. <<>> \in Seq(FileNames)
    OBVIOUS
  <2> QED BY <2>1, <2>2
<1>3. ASSUME NEW x \in Seq(FileNames), NEW a \in FileNames, x \in P PROVE Append(x, a) \in P
  <2>1. ASSUME NEW y \in Seq(FileNames), PathString(Append(x, a)) = PathString(y) PROVE Append(x, a) = y
    <3>1. y # <<>>
      BY <1>1, <2>1, PathStringEmpty
    <3>2. PICK z \in Seq(FileNames), b \in FileNames : y = Append(z, b)
      BY <3>1, LastElement
    <3>3. /\ PathString(x) \in ByteStrings /\ PathString(z) \in ByteStrings
          /\ PathString(Append(x, a)) = PathString(x) \o Step(a)
          /\ PathString(y) = PathString(z) \o Step(b)
      BY <3>2, PathStringAppend
    <3>4. PathString(x) = PathString(z) /\ a = b
      <4>0. PICK s, t \in ByteStrings : s = PathString(x) /\ t = PathString(z)
        BY <3>3
      <4>1. PICK w : w = s \o Step(a) /\ w = t \o Step(b)
        BY <2>1, <3>3, <4>0
      <4>2. s = t /\ a = b
        BY <4>1, LastSlash
      <4> QED BY <4>0, <4>2
    <3>5. x = z
      BY <1>3, <3>4
    <3> QED BY <3>2, <3>4, <3>5
  <2>2. Append(x, a) \in Seq(FileNames)
    BY AppendFacts
  <2> QED BY <2>1, <2>2
<1>4. Seq(FileNames) \subseteq P
  <2>1. \A x \in Seq(FileNames), a \in FileNames : x \in P => Append(x, a) \in P
    BY <1>3
  <2> HIDE DEF P
  <2> QED BY <1>2, <2>1, SeqInduction
<1> QED BY <1>4

\* The bytes of the string of a path.
LEMMA PathBytes ==
    ASSUME NEW p \in Seq(FileNames)
    PROVE  ToSet(PathString(p)) \subseteq {Slash} \cup UNION {ToSet(name) : name \in ToSet(p)}
<1>1. Steps(p) \in Seq(ByteStrings)
  <2>1. <<65>> \in FileNames
    BY DEF FileNames, Bytes, Slash
  <2> QED BY <2>1, StepsFacts
<1>2. ToSet(FlattenSeq(Steps(p))) = UNION {ToSet(Steps(p)[i]) : i \in DOMAIN Steps(p)}
  BY <1>1, FlattenElements DEF ByteStrings
<1>3. PathString(p) = FlattenSeq(Steps(p)) /\ DOMAIN Steps(p) = DOMAIN p
      /\ \A i \in DOMAIN p : Steps(p)[i] = Step(p[i])
  BY DEF PathString, Steps, Step
<1>4. ASSUME NEW name \in FileNames PROVE ToSet(Step(name)) \subseteq {Slash} \cup ToSet(name)
  <2>1. /\ Len(name) \in Nat /\ Step(name) \in ByteStrings
        /\ Len(Step(name)) = Len(name) + 1
        /\ Step(name)[1] = Slash
        /\ \A i \in 1 .. Len(name) : Step(name)[i + 1] = name[i]
    BY NameFacts, StepFacts
  <2>2. DOMAIN Step(name) = 1 .. Len(name) + 1 /\ DOMAIN name = 1 .. Len(name)
    BY <2>1, NameFacts DEF ByteStrings
  <2>3. ASSUME NEW i \in 1 .. Len(name) + 1 PROVE Step(name)[i] \in {Slash} \cup ToSet(name)
    <3>1. CASE i = 1
      BY <2>1, <3>1
    <3>2. CASE i # 1
      <4> PICK j \in 1 .. Len(name) : i = j + 1
        <5>1. i - 1 \in 1 .. Len(name) /\ i = (i - 1) + 1
          BY <2>1, <3>2
        <5> QED BY <5>1
      <4> QED BY <2>1, <2>2 DEF ToSet
    <3> QED BY <3>1, <3>2
  <2> QED BY <2>2, <2>3 DEF ToSet
<1>5. \A i \in DOMAIN p : p[i] \in FileNames /\ p[i] \in ToSet(p)
  BY SeqValues DEF ToSet
<1>6. ASSUME NEW b \in ToSet(PathString(p)), b # Slash PROVE \E name \in ToSet(p) : b \in ToSet(name)
  <2>1. PICK i \in DOMAIN p : b \in ToSet(Step(p[i]))
    BY <1>2, <1>3
  <2> QED BY <1>4, <1>5, <1>6, <2>1
<1> QED BY <1>6

\* The last byte of the string of a path is that of its last name.
LEMMA PathLast ==
    ASSUME NEW p \in Seq(FileNames), p # <<>>
    PROVE  LET s == PathString(p)
               name == p[Len(p)]
           IN  Len(s) \in Nat \ {0} /\ s[Len(s)] = name[Len(name)]
<1>1. PICK x \in Seq(FileNames), a \in FileNames : p = Append(x, a)
  BY LastElement
<1>2. p[Len(p)] = a
  BY <1>1, AppendFacts
<1>3. PathString(x) \in ByteStrings /\ PathString(p) = PathString(x) \o Step(a)
  BY <1>1, PathStringAppend
<1>4. /\ Step(a) \in ByteStrings /\ Len(a) \in Nat \ {0} /\ Len(Step(a)) = Len(a) + 1
      /\ Step(a)[Len(a) + 1] = a[Len(a)]
  BY StepFacts, NameFacts
<1>5. PICK s \in Seq(Bytes), t \in Seq(Bytes) : s = PathString(x) /\ t = Step(a)
  BY <1>3, <1>4 DEF ByteStrings
<1>6. /\ Len(s) \in Nat /\ Len(s \o t) = Len(s) + Len(t)
      /\ \A i \in 1 .. Len(t) : (s \o t)[Len(s) + i] = t[i]
  BY ConcatFacts
<1>7. Len(t) = Len(a) + 1 /\ t[Len(a) + 1] = a[Len(a)] /\ PathString(p) = s \o t
  BY <1>3, <1>4, <1>5
<1>8. Len(a) + 1 \in 1 .. Len(t) /\ Len(s \o t) \in Nat \ {0}
  BY <1>4, <1>6, <1>7
<1>9. (s \o t)[Len(s \o t)] = a[Len(a)]
  BY <1>6, <1>7, <1>8
<1> QED BY <1>2, <1>7, <1>8, <1>9

-------------------------------------------------------------------------------
(* Percent encoding.                                                         *)

States == [out : ByteStrings, held : {h \in ByteStrings : Len(h) <= 2}]
Start == [out |-> <<>>, held |-> <<>>]

\* Where Unescape is after a string.
Reads(s) ==
    LET after[k \in 0 .. Len(s)] ==
            IF k = 0 THEN [out |-> <<>>, held |-> <<>>] ELSE ReadByte(after[k - 1], s[k])
    IN  after[Len(s)]

LEMMA EscapeIsByte ==
    ASSUME NEW h, NEW l, IsEscape(h, l)
    PROVE  EscapeValue(h, l) \in Bytes
<1>1. ASSUME NEW b \in HexDigits PROVE HexValue(b) \in 0 .. 15
  BY DEF HexDigits, HexValue
<1>2. HexValue(l) \in 0 .. 15
  BY <1>1 DEF IsEscape
<1>3. CASE h = Plus
  BY <1>2, <1>3 DEF EscapeValue, Bytes
<1>4. CASE h # Plus
  <2>1. HexValue(h) \in 0 .. 15
    BY <1>1, <1>4 DEF IsEscape
  <2>2. \A x, y \in 0 .. 15 : 16 * x + y \in 0 .. 255
    OBVIOUS
  <2> QED BY <1>2, <1>4, <2>1, <2>2 DEF EscapeValue, Bytes
<1> QED BY <1>3, <1>4

LEMMA ReadByteType ==
    ASSUME NEW acc \in States, NEW b \in Bytes
    PROVE  ReadByte(acc, b) \in States
<1>1. acc.out \in ByteStrings /\ acc.held \in ByteStrings /\ Len(acc.held) \in 0 .. 2
  <2>1. acc.out \in ByteStrings /\ acc.held \in ByteStrings /\ Len(acc.held) <= 2
    BY DEF States
  <2>2. Len(acc.held) \in Nat
    BY <2>1, SeqValues DEF ByteStrings
  <2>3. \A x \in Nat : x <= 2 => x \in 0 .. 2
    OBVIOUS
  <2> QED BY <2>1, <2>2, <2>3
<1>2. Percent \in Bytes
  BY DEF Bytes, Percent
<1>3. CASE Len(acc.held) = 0 /\ b # Percent
  <2>1. ReadByte(acc, b) = [acc EXCEPT !.out = Append(acc.out, b)]
    BY <1>3 DEF ReadByte
  <2>2. Append(acc.out, b) \in ByteStrings
    BY <1>1, AppendFacts DEF ByteStrings
  <2> QED BY <2>1, <2>2 DEF States
<1>4. CASE Len(acc.held) = 0 /\ b = Percent
  <2>1. ReadByte(acc, b) = [acc EXCEPT !.held = <<b>>]
    BY <1>4 DEF ReadByte
  <2>2. <<b>> \in ByteStrings /\ Len(<<b>>) <= 2
    BY DEF ByteStrings
  <2> QED BY <2>1, <2>2 DEF States
<1>5. CASE Len(acc.held) = 1
  <2>1. ReadByte(acc, b) = [acc EXCEPT !.held = Append(acc.held, b)]
    BY <1>5 DEF ReadByte
  <2>2. PICK h \in Seq(Bytes) : h = acc.held /\ Len(h) = 1
    BY <1>1, <1>5 DEF ByteStrings
  <2>3. Append(h, b) \in Seq(Bytes) /\ Len(Append(h, b)) = Len(h) + 1
    BY AppendFacts
  <2>4. Append(acc.held, b) \in ByteStrings /\ Len(Append(acc.held, b)) <= 2
    BY <2>2, <2>3 DEF ByteStrings
  <2>5. PICK g : g = Append(acc.held, b)
    OBVIOUS
  <2> QED BY <2>1, <2>4, <2>5 DEF States
<1>6. CASE Len(acc.held) = 2
  <2> DEFINE x == IF IsEscape(acc.held[2], b) THEN EscapeValue(acc.held[2], b) ELSE Percent
  <2>1. ReadByte(acc, b) = [out |-> Append(acc.out, x), held |-> <<>>]
    BY <1>6 DEF ReadByte
  <2>2. x \in Bytes
    BY <1>2, EscapeIsByte
  <2> HIDE DEF x
  <2>3. Append(acc.out, x) \in ByteStrings /\ <<>> \in ByteStrings /\ Len(<<>>) <= 2
    BY <1>1, <2>2, AppendFacts DEF ByteStrings
  <2> QED BY <2>1, <2>3 DEF States
<1> QED BY <1>1, <1>3, <1>4, <1>5, <1>6

LEMMA ReadsSteps ==
    ASSUME NEW s \in ByteStrings
    PROVE  \E f \in [0 .. Len(s) -> States] :
                /\ f[0] = Start
                /\ \A i \in 1 .. Len(s) : f[i] = ReadByte(f[i - 1], s[i])
                /\ Reads(s) = f[Len(s)]
<1> DEFINE n == Len(s)
           step == [i \in 1 .. n |-> [x \in States |-> ReadByte(x, s[i])]]
           Def(f) == f = [k \in 0 .. n |-> IF k = 0 THEN Start ELSE ReadByte(f[k - 1], s[k])]
           after == CHOOSE f : Def(f)
<1>1. n \in Nat /\ Start \in States /\ \A i \in 1 .. n : s[i] \in Bytes
  BY SeqValues DEF States, Start, ByteStrings
<1>2. step \in [1 .. n -> [States -> States]]
  BY <1>1, ReadByteType
<1>3. Reads(s) = after[n]
  BY DEF Reads, Start
<1> HIDE DEF n
<1>4. PICK u : Follows(u, States, Start, n, step)
  <2> HIDE DEF step
  <2> QED BY <1>1, <1>2, RecursionExists
<1>5. u \in [0 .. n -> States] /\ u[0] = Start /\ \A k \in 1 .. n : u[k] = ReadByte(u[k - 1], s[k])
  <2>1. u \in [0 .. n -> States] /\ u[0] = Start /\ \A k \in 1 .. n : u[k] = step[k][u[k - 1]]
    BY <1>4 DEF Follows
  <2>2. \A k \in 1 .. n : k - 1 \in 0 .. n
    BY <1>1
  <2> QED BY <2>1, <2>2
<1> HIDE DEF step
<1>6. Def(u)
  <2>1. \A k \in 0 .. n : k = 0 \/ k \in 1 .. n
    BY <1>1
  <2>2. \A k \in 0 .. n : u[k] = IF k = 0 THEN Start ELSE ReadByte(u[k - 1], s[k])
    BY <1>5, <2>1
  <2> QED BY <1>5, <2>2
<1>7. Def(after)
  <2> HIDE DEF Def
  <2> QED BY <1>6
<1> HIDE DEF after
<1>8. n \in {k \in 0 .. n : after[k] = u[k]}
  <2> DEFINE Same == {k \in 0 .. n : after[k] = u[k]}
  <2>1. 0 \in Same
    BY <1>1, <1>5, <1>7
  <2>2. ASSUME NEW k \in 0 .. n - 1, k \in Same PROVE k + 1 \in Same
    <3>1. k + 1 \in 1 .. n /\ k + 1 \in 0 .. n /\ k + 1 # 0 /\ (k + 1) - 1 = k
      BY <1>1
    <3>2. after[k + 1] = ReadByte(after[k], s[k + 1]) /\ u[k + 1] = ReadByte(u[k], s[k + 1])
      BY <1>5, <1>7, <3>1
    <3> QED BY <2>2, <3>1, <3>2
  <2>3. \A k \in 0 .. n - 1 : k \in Same => k + 1 \in Same
    BY <2>2
  <2>4. n \in 0 .. n
    BY <1>1
  <2> HIDE DEF Same
  <2>5. \A k \in 0 .. n : k \in Same
    BY <1>1, <2>1, <2>3, InductionUpTo
  <2>6. n \in Same
    BY <2>4, <2>5
  <2> QED BY <2>6 DEF Same
<1> QED BY <1>3, <1>5, <1>8 DEF n

LEMMA ReadsEmpty == Reads(<<>>) = Start
<1>1. <<>> \in ByteStrings
  BY DEF ByteStrings
<1>2. PICK f \in [0 .. Len(<<>>) -> States] : f[0] = Start /\ Reads(<<>>) = f[Len(<<>>)]
  BY <1>1, ReadsSteps
<1>3. Len(<<>>) = 0
  OBVIOUS
<1> QED BY <1>2, <1>3

LEMMA ReadsAppend ==
    ASSUME NEW s \in ByteStrings, NEW b \in Bytes
    PROVE  Reads(s) \in States /\ Reads(Append(s, b)) = ReadByte(Reads(s), b)
<1> DEFINE n == Len(s)
           t == Append(s, b)
<1>1. n \in Nat /\ t \in ByteStrings /\ Len(t) = n + 1
      /\ (\A i \in 1 .. n : t[i] = s[i]) /\ t[n + 1] = b
  BY SeqValues, AppendFacts DEF ByteStrings
<1>2. PICK f \in [0 .. n -> States] :
        f[0] = Start /\ (\A i \in 1 .. n : f[i] = ReadByte(f[i - 1], s[i])) /\ Reads(s) = f[n]
  BY ReadsSteps
<1> HIDE DEF n, t
<1>3. PICK g \in [0 .. Len(t) -> States] :
        g[0] = Start /\ (\A i \in 1 .. Len(t) : g[i] = ReadByte(g[i - 1], t[i])) /\ Reads(t) = g[Len(t)]
  BY <1>1, ReadsSteps
<1>4. \A k \in 0 .. n : g[k] = f[k]
  <2> DEFINE Same == {k \in 0 .. n : g[k] = f[k]}
  <2>1. 0 \in Same /\ n \in Nat
    BY <1>1, <1>2, <1>3
  <2>2. ASSUME NEW k \in 0 .. n - 1, k \in Same PROVE k + 1 \in Same
    <3>1. k + 1 \in 1 .. n /\ k + 1 \in 1 .. Len(t) /\ (k + 1) - 1 = k /\ t[k + 1] = s[k + 1]
      BY <1>1
    <3>2. g[k + 1] = ReadByte(g[k], t[k + 1]) /\ f[k + 1] = ReadByte(f[k], s[k + 1])
      BY <1>2, <1>3, <3>1
    <3>3. g[k + 1] = f[k + 1]
      BY <2>2, <3>1, <3>2
    <3> QED BY <1>1, <3>1, <3>3
  <2>3. \A k \in 0 .. n - 1 : k \in Same => k + 1 \in Same
    BY <2>2
  <2> HIDE DEF Same
  <2>4. \A k \in 0 .. n : k \in Same
    BY <2>1, <2>3, InductionUpTo
  <2> QED BY <2>4 DEF Same
<1>5. g[n + 1] = ReadByte(g[n], b) /\ g[n] = f[n] /\ f[n] \in States
  <2>1. n + 1 \in 1 .. Len(t) /\ (n + 1) - 1 = n /\ n \in 0 .. n
    BY <1>1
  <2> QED BY <1>1, <1>2, <1>3, <1>4, <2>1
<1> QED BY <1>1, <1>2, <1>3, <1>5 DEF t

LEMMA UnescapeReads ==
    ASSUME NEW s
    PROVE  Unescape(s) = IF Reads(s).held = <<>> THEN Reads(s).out ELSE Append(Reads(s).out, Percent)
  BY DEF Unescape, Reads

\* A string without "%" stands for itself.
LEMMA UnescapePlain ==
    ASSUME NEW s \in ByteStrings, Percent \notin ToSet(s)
    PROVE  Unescape(s) = s
<1> DEFINE D == Bytes \ {Percent}
           P == {x \in Seq(D) : Reads(x) = [out |-> x, held |-> <<>>]}
<1>1. <<>> \in P
  BY ReadsEmpty DEF Start
<1>2. ASSUME NEW x \in Seq(D), NEW b \in D, x \in P PROVE Append(x, b) \in P
  <2>1. x \in ByteStrings /\ b \in Bytes /\ b # Percent
    <3>1. D \subseteq Bytes
      OBVIOUS
    <3>2. b \in Bytes /\ b # Percent
      OBVIOUS
    <3> HIDE DEF D, P
    <3> QED BY <3>1, <3>2, SeqMonotonic DEF ByteStrings
  <2>2. Reads(Append(x, b)) = ReadByte([out |-> x, held |-> <<>>], b)
    BY <1>2, <2>1, ReadsAppend
  <2>3. ReadByte([out |-> x, held |-> <<>>], b) = [out |-> Append(x, b), held |-> <<>>]
    <3>1. PICK acc : acc = [out |-> x, held |-> <<>>]
      OBVIOUS
    <3>2. Len(acc.held) = 0 /\ acc.out = x
      BY <3>1
    <3>3. ReadByte(acc, b) = [acc EXCEPT !.out = Append(acc.out, b)]
      BY <2>1, <3>2 DEF ReadByte
    <3> QED BY <3>1, <3>2, <3>3
  <2>4. Append(x, b) \in Seq(D)
    <3> HIDE DEF D
    <3> QED BY AppendFacts
  <2> QED BY <2>2, <2>3, <2>4
<1>3. Seq(D) \subseteq P
  <2>1. \A x \in Seq(D), b \in D : x \in P => Append(x, b) \in P
    BY <1>2
  <2> HIDE DEF P, D
  <2> QED BY <1>1, <2>1, SeqInduction
<1>4. s \in Seq(D)
  <2>1. s \in Seq(Bytes) /\ DOMAIN s = 1 .. Len(s) /\ Len(s) \in Nat /\ \A i \in 1 .. Len(s) : s[i] \in Bytes
    BY SeqValues DEF ByteStrings
  <2>2. \A i \in 1 .. Len(s) : s[i] \in D
    BY <2>1 DEF ToSet
  <2> HIDE DEF D
  <2>3. s = [i \in 1 .. Len(s) |-> s[i]]
    BY <2>1
  <2> QED BY <2>1, <2>2, <2>3
<1>5. Reads(s) = [out |-> s, held |-> <<>>]
  BY <1>3, <1>4
<1> QED BY <1>5, UnescapeReads

\* Sequences of values of a function.
LEMMA MapAppend ==
    ASSUME NEW D, NEW E, NEW f \in [D -> E], NEW s \in Seq(D), NEW x \in D
    PROVE  /\ [i \in DOMAIN s |-> f[s[i]]] \in Seq(E)
           /\ [i \in DOMAIN Append(s, x) |-> f[Append(s, x)[i]]] = Append([i \in DOMAIN s |-> f[s[i]]], f[x])
<1> DEFINE r == Append(s, x)
           v == [i \in DOMAIN s |-> f[s[i]]]
           t == [i \in DOMAIN r |-> f[r[i]]]
           u == Append(v, f[x])
<1>1. Len(s) \in Nat /\ DOMAIN s = 1 .. Len(s) /\ \A i \in 1 .. Len(s) : s[i] \in D
  BY SeqValues
<1>2. r \in Seq(D) /\ Len(r) = Len(s) + 1 /\ (\A i \in 1 .. Len(s) : r[i] = s[i]) /\ r[Len(s) + 1] = x
  BY AppendFacts
<1>3. DOMAIN r = 1 .. Len(s) + 1 /\ \A i \in 1 .. Len(s) + 1 : r[i] \in D
  BY <1>2, SeqValues
<1> HIDE DEF r
<1>4. v \in Seq(E) /\ Len(v) = Len(s) /\ \A i \in 1 .. Len(s) : v[i] = f[s[i]]
  BY <1>1
<1>5. t \in Seq(E) /\ Len(t) = Len(s) + 1 /\ \A i \in 1 .. Len(s) + 1 : t[i] = f[r[i]]
  BY <1>1, <1>3
<1>6. f[x] \in E
  OBVIOUS
<1> HIDE DEF v, t
<1>7. u \in Seq(E) /\ Len(u) = Len(s) + 1 /\ (\A i \in 1 .. Len(s) : u[i] = v[i]) /\ u[Len(s) + 1] = f[x]
  BY <1>4, <1>6, AppendFacts
<1>8. \A i \in 1 .. Len(s) + 1 : t[i] = u[i]
  <2>1. \A i \in 1 .. Len(s) + 1 : i \in 1 .. Len(s) \/ i = Len(s) + 1
    BY <1>1
  <2> HIDE DEF u
  <2> QED BY <1>2, <1>4, <1>5, <1>7, <2>1
<1> HIDE DEF u
<1>9. t = u
  BY <1>5, <1>7, <1>8, SeqEqual
<1> QED BY <1>4, <1>9 DEF r, t, u, v

\* What a file manager writes for one byte.
Block(b) == IF b \in Unreserved THEN <<b>> ELSE <<Percent, HexDigit(b \div 16), HexDigit(b % 16)>>

LEMMA HexFacts ==
    ASSUME NEW v \in 0 .. 15
    PROVE  /\ HexDigit(v) \in HexDigits /\ HexDigit(v) \in Bytes /\ HexDigit(v) # Plus
           /\ HexValue(HexDigit(v)) = v
<1>1. CASE v < 10
  <2>1. HexDigit(v) = v + 48 /\ v + 48 \in 48 .. 57
    BY <1>1 DEF HexDigit
  <2> QED BY <2>1 DEF HexDigits, HexValue, Bytes, Plus
<1>2. CASE ~(v < 10)
  <2>1. HexDigit(v) = v + 55 /\ v + 55 \in 65 .. 70 /\ v + 55 \notin 48 .. 57
    BY <1>2 DEF HexDigit
  <2> QED BY <2>1 DEF HexDigits, HexValue, Bytes, Plus
<1> QED BY <1>1, <1>2

LEMMA ByteDigits ==
    ASSUME NEW b \in Bytes
    PROVE  b \div 16 \in 0 .. 15 /\ b % 16 \in 0 .. 15 /\ b = 16 * (b \div 16) + (b % 16)
<1>1. b \in 0 .. 255
  BY DEF Bytes
<1>2. b % 16 \in 0 .. 15
  BY <1>1
<1>3. b = 16 * (b \div 16) + (b % 16)
  BY <1>1
<1>4. b \div 16 \in 0 .. 15
  BY <1>1
<1> QED BY <1>2, <1>3, <1>4

LEMMA BlockFacts ==
    ASSUME NEW b \in Bytes
    PROVE  Block(b) \in ByteStrings /\ Blank \notin ToSet(Block(b))
<1>1. CASE b \in Unreserved
  <2>1. Block(b) = <<b>> /\ b # Blank
    BY <1>1 DEF Block, Unreserved, Blank, Slash
  <2>2. ToSet(<<b>>) = {b}
    BY DEF ToSet
  <2> QED BY <2>1, <2>2 DEF ByteStrings
<1>2. CASE b \notin Unreserved
  <2>1. PICK h \in Bytes, l \in Bytes : h = HexDigit(b \div 16) /\ l = HexDigit(b % 16)
                                       /\ h \in HexDigits /\ l \in HexDigits
    BY ByteDigits, HexFacts
  <2>2. Block(b) = <<Percent, h, l>>
    BY <1>2, <2>1 DEF Block
  <2>3. Percent \in Bytes /\ Percent # Blank /\ h # Blank /\ l # Blank
    BY <2>1 DEF Bytes, Percent, Blank, HexDigits
  <2>4. ToSet(<<Percent, h, l>>) = {Percent, h, l}
    BY DEF ToSet
  <2> QED BY <2>2, <2>3, <2>4 DEF ByteStrings
<1> QED BY <1>1, <1>2

LEMMA EncodeAppend ==
    ASSUME NEW s \in ByteStrings, NEW b \in Bytes
    PROVE  Encode(s) \in ByteStrings /\ Encode(Append(s, b)) = Encode(s) \o Block(b)
<1> DEFINE f == [x \in Bytes |-> Block(x)]
           Map(x) == [i \in DOMAIN x |-> f[x[i]]]
<1>1. f \in [Bytes -> ByteStrings]
  BY BlockFacts
<1>2. ASSUME NEW x \in ByteStrings PROVE Encode(x) = FlattenSeq(Map(x))
  <2>1. \A i \in DOMAIN x : x[i] \in Bytes
    BY SeqValues DEF ByteStrings
  <2>2. Map(x) = [i \in DOMAIN x |-> Block(x[i])]
    BY <2>1
  <2> QED BY <2>2 DEF Encode, Block
<1>3. Append(s, b) \in ByteStrings
  BY AppendFacts DEF ByteStrings
<1>4. f[b] = Block(b) /\ Block(b) \in ByteStrings
  BY BlockFacts
<1> HIDE DEF f
<1>5. Map(s) \in Seq(ByteStrings) /\ Map(Append(s, b)) = Append(Map(s), f[b])
  <2>1. s \in Seq(Bytes)
    BY DEF ByteStrings
  <2> QED BY <1>1, <2>1, MapAppend
<1> HIDE DEF Map
<1>6. FlattenSeq(Map(s)) \in ByteStrings
      /\ FlattenSeq(Append(Map(s), Block(b))) = FlattenSeq(Map(s)) \o Block(b)
  BY <1>4, <1>5, FlattenAppend DEF ByteStrings
<1> QED BY <1>2, <1>3, <1>4, <1>5, <1>6

LEMMA EncodeEmpty == Encode(<<>>) = <<>>
<1>1. [i \in DOMAIN <<>> |-> Block(<<>>[i])] = <<>>
  OBVIOUS
<1> QED BY <1>1, FlattenEmpty DEF Encode, Block

\* Reading what has been written for one byte.
LEMMA ReadsBlock ==
    ASSUME NEW w \in ByteStrings, NEW x \in ByteStrings, NEW b \in Bytes,
           Reads(w) = [out |-> x, held |-> <<>>]
    PROVE  Reads(w \o Block(b)) = [out |-> Append(x, b), held |-> <<>>]
<1>1. CASE b \in Unreserved
  <2>1. Block(b) = <<b>> /\ b # Percent
    BY <1>1 DEF Block, Unreserved, Percent, Slash
  <2>2. w \o <<b>> = Append(w, b)
    BY DEF ByteStrings
  <2>3. PICK acc : acc = [out |-> x, held |-> <<>>]
    OBVIOUS
  <2>4. Reads(Append(w, b)) = ReadByte(acc, b)
    BY <2>3, ReadsAppend
  <2>5. Len(acc.held) = 0 /\ acc.out = x
    BY <2>3
  <2>6. ReadByte(acc, b) = [acc EXCEPT !.out = Append(acc.out, b)]
    BY <2>1, <2>5 DEF ReadByte
  <2>7. [acc EXCEPT !.out = Append(acc.out, b)] = [out |-> Append(x, b), held |-> <<>>]
    BY <2>3
  <2> QED BY <2>1, <2>2, <2>4, <2>6, <2>7
<1>2. CASE b \notin Unreserved
  <2>1. PICK h \in Bytes, l \in Bytes : h = HexDigit(b \div 16) /\ l = HexDigit(b % 16)
    BY ByteDigits, HexFacts
  <2>2. h \in HexDigits /\ l \in HexDigits /\ h # Plus /\ EscapeValue(h, l) = b
    <3>1. /\ HexValue(h) = b \div 16 /\ HexValue(l) = b % 16 /\ h # Plus
          /\ h \in HexDigits /\ l \in HexDigits
      BY <2>1, ByteDigits, HexFacts
    <3>2. EscapeValue(h, l) = 16 * HexValue(h) + HexValue(l)
      BY <3>1 DEF EscapeValue
    <3> QED BY <3>1, <3>2, ByteDigits
  <2>3. Block(b) = <<Percent, h, l>> /\ Percent \in Bytes
    BY <1>2, <2>1 DEF Block, Percent, Bytes
  <2>4. w \o <<Percent, h, l>> = Append(Append(Append(w, Percent), h), l)
    BY <2>3 DEF ByteStrings
  <2>5. Append(w, Percent) \in ByteStrings /\ Append(Append(w, Percent), h) \in ByteStrings
    BY <2>3, AppendFacts DEF ByteStrings
  <2>6. Reads(Append(w, Percent)) = [out |-> x, held |-> <<Percent>>]
    <3>1. PICK acc : acc = [out |-> x, held |-> <<>>]
      OBVIOUS
    <3>2. Len(acc.held) = 0
      BY <3>1
    <3>3. ReadByte(acc, Percent) = [acc EXCEPT !.held = <<Percent>>]
      BY <3>2 DEF ReadByte
    <3>4. [acc EXCEPT !.held = <<Percent>>] = [out |-> x, held |-> <<Percent>>]
      BY <3>1
    <3>5. Reads(Append(w, Percent)) = ReadByte(acc, Percent)
      BY <2>3, <3>1, ReadsAppend
    <3> QED BY <3>3, <3>4, <3>5
  <2>7. Reads(Append(Append(w, Percent), h)) = [out |-> x, held |-> Append(<<Percent>>, h)]
    <3>1. PICK acc : acc = [out |-> x, held |-> <<Percent>>]
      OBVIOUS
    <3>2. Len(acc.held) = 1 /\ acc.held = <<Percent>>
      BY <3>1
    <3>3. ReadByte(acc, h) = [acc EXCEPT !.held = Append(acc.held, h)]
      BY <3>2 DEF ReadByte
    <3>4. [acc EXCEPT !.held = Append(<<Percent>>, h)] = [out |-> x, held |-> Append(<<Percent>>, h)]
      BY <3>1
    <3>5. Reads(Append(Append(w, Percent), h)) = ReadByte(acc, h)
      BY <2>5, <2>6, <3>1, ReadsAppend
    <3> QED BY <3>2, <3>3, <3>4, <3>5
  <2>8. Reads(Append(Append(Append(w, Percent), h), l)) = [out |-> Append(x, b), held |-> <<>>]
    <3>1. PICK acc : acc = [out |-> x, held |-> Append(<<Percent>>, h)]
      OBVIOUS
    <3>2. Len(acc.held) = 2 /\ acc.held[2] = h /\ acc.out = x
      <4>0. <<Percent>> \in Seq(Bytes) /\ Len(<<Percent>>) = 1
        BY DEF Bytes, Percent
      <4>1. PICK y \in Seq(Bytes) : y = <<Percent>> /\ Len(y) = 1
        BY <4>0
      <4>2. Len(Append(y, h)) = Len(y) + 1 /\ Append(y, h)[Len(y) + 1] = h
        BY AppendFacts
      <4>3. Len(Append(y, h)) = 2 /\ Append(y, h)[2] = h
        BY <4>1, <4>2
      <4> QED BY <3>1, <4>1, <4>3
    <3>3. IsEscape(h, l)
      BY <2>2 DEF IsEscape
    <3>4. ReadByte(acc, l) = [out |-> Append(acc.out, EscapeValue(acc.held[2], l)), held |-> <<>>]
      BY <3>2, <3>3 DEF ReadByte
    <3>5. Reads(Append(Append(Append(w, Percent), h), l)) = ReadByte(acc, l)
      BY <2>5, <2>7, <3>1, ReadsAppend
    <3> QED BY <2>2, <3>2, <3>4, <3>5
  <2> QED BY <2>3, <2>4, <2>8
<1> QED BY <1>1, <1>2

\* What a file manager has encoded is decoded to the same bytes.
LEMMA UnescapeEncode ==
    ASSUME NEW s \in ByteStrings
    PROVE  Encode(s) \in ByteStrings /\ Blank \notin ToSet(Encode(s)) /\ Unescape(Encode(s)) = s
<1> DEFINE P == {x \in ByteStrings : /\ Encode(x) \in ByteStrings
                                     /\ Blank \notin ToSet(Encode(x))
                                     /\ Reads(Encode(x)) = [out |-> x, held |-> <<>>]}
<1>1. <<>> \in P
  <2>1. <<>> \in ByteStrings /\ Blank \notin ToSet(<<>>)
    BY DEF ByteStrings, ToSet
  <2>2. Reads(<<>>) = [out |-> <<>>, held |-> <<>>]
    BY ReadsEmpty DEF Start
  <2> QED BY <2>1, <2>2, EncodeEmpty
<1>2. ASSUME NEW x \in ByteStrings, NEW b \in Bytes, x \in P PROVE Append(x, b) \in P
  <2>1. Encode(x) \in ByteStrings /\ Encode(Append(x, b)) = Encode(x) \o Block(b)
    BY EncodeAppend
  <2>2. PICK w \in ByteStrings : w = Encode(x)
    BY <2>1
  <2>3. Reads(w) = [out |-> x, held |-> <<>>] /\ Blank \notin ToSet(w)
    BY <1>2, <2>2
  <2>4. Reads(w \o Block(b)) = [out |-> Append(x, b), held |-> <<>>]
    BY <2>3, ReadsBlock
  <2>5. PICK v \in ByteStrings : v = Block(b) /\ Blank \notin ToSet(v)
    BY BlockFacts
  <2>6. w \o v \in ByteStrings /\ Blank \notin ToSet(w \o v)
    <3>1. w \in Seq(Bytes) /\ v \in Seq(Bytes)
      BY DEF ByteStrings
    <3>2. /\ w \o v \in Seq(Bytes) /\ Len(w \o v) = Len(w) + Len(v) /\ Len(w) \in Nat /\ Len(v) \in Nat
          /\ \A i \in 1 .. Len(w) : (w \o v)[i] = w[i]
          /\ \A i \in 1 .. Len(v) : (w \o v)[Len(w) + i] = v[i]
      BY <3>1, ConcatFacts
    <3>3. DOMAIN w = 1 .. Len(w) /\ DOMAIN v = 1 .. Len(v) /\ DOMAIN (w \o v) = 1 .. Len(w) + Len(v)
      BY <3>1, <3>2, SeqValues
    <3>4. ASSUME NEW i \in 1 .. Len(w) + Len(v) PROVE (w \o v)[i] # Blank
      <4>1. CASE i \in 1 .. Len(w)
        BY <2>3, <3>2, <3>3, <4>1 DEF ToSet
      <4>2. CASE i \notin 1 .. Len(w)
        <5>1. i - Len(w) \in 1 .. Len(v) /\ i = Len(w) + (i - Len(w))
          BY <3>2, <4>2
        <5>2. PICK j \in 1 .. Len(v) : i = Len(w) + j
          BY <5>1
        <5>3. (w \o v)[i] = v[j]
          BY <3>2, <5>2
        <5> QED BY <2>5, <3>3, <5>3 DEF ToSet
      <4> QED BY <4>1, <4>2
    <3>5. Blank \notin ToSet(w \o v)
      BY <3>3, <3>4 DEF ToSet
    <3> QED BY <3>2, <3>5 DEF ByteStrings
  <2>7. Append(x, b) \in ByteStrings
    BY AppendFacts DEF ByteStrings
  <2> QED BY <2>1, <2>2, <2>4, <2>5, <2>6, <2>7
<1>3. Seq(Bytes) \subseteq P
  <2>1. \A x \in Seq(Bytes), b \in Bytes : x \in P => Append(x, b) \in P
    BY <1>2 DEF ByteStrings
  <2> HIDE DEF P
  <2> QED BY <1>1, <2>1, SeqInduction
<1>4. s \in P
  BY <1>3 DEF ByteStrings
<1>5. Reads(Encode(s)) = [out |-> s, held |-> <<>>]
  BY <1>4
<1> QED BY <1>4, <1>5, UnescapeReads

\* In ASCII each byte is a character.
LEMMA DecodedAscii ==
    ASSUME NEW s, NEW t \in ByteStrings, Unescape(s) = t, \A b \in ToSet(t) : b < 128
    PROVE  url_decode(s) = t
<1>1. \A i \in DOMAIN t : AsChar(t[i]) = <<t[i]>>
  BY DEF AsChar, ToSet
<1>2. [i \in DOMAIN t |-> AsChar(t[i])] = [i \in DOMAIN t |-> <<t[i]>>]
  BY <1>1
<1>3. FlattenSeq([i \in DOMAIN t |-> <<t[i]>>]) = t
  BY FlattenSingles DEF ByteStrings
<1> QED BY <1>2, <1>3 DEF url_decode

LEMMA TrimNothing ==
    ASSUME NEW line \in ByteStrings, line # <<>>, line[Len(line)] # Blank
    PROVE  Trim(line) = line
<1> DEFINE n == Len(line)
           S == {0} \cup {i \in DOMAIN line : line[i] # Blank}
<1>1. n \in Nat \ {0} /\ DOMAIN line = 1 .. n /\ SubSeq(line, 1, n) = line
  BY SeqValues, EmptySeq, SubSeqFull DEF ByteStrings
<1>2. n \in S /\ \A y \in S : n >= y
  BY <1>1
<1>3. \A y \in S : y \in Int
  BY <1>1
<1>4. Max(S) \in S /\ \A y \in S : Max(S) >= y
  <2> HIDE DEF S, n
  <2> QED BY <1>2 DEF Max
<1>5. Max(S) = n
  <2>1. n \in Int /\ Max(S) \in Int /\ n >= Max(S) /\ Max(S) >= n
    BY <1>2, <1>3, <1>4
  <2> HIDE DEF S, n
  <2> QED BY <2>1
<1>6. Trim(line) = SubSeq(line, 1, Max(S))
  BY DEF Trim
<1> QED BY <1>1, <1>5, <1>6

-------------------------------------------------------------------------------
(* Reading a list of lines.                                                  *)

\* The existing paths that a line names.
NamedBy(line, paths) == {p \in paths : PathString(p) = url_decode(Trim(line))}

LEMMA ParseSteps ==
    ASSUME NEW lines, Len(lines) \in Nat, NEW paths
    PROVE  \E f \in [0 .. Len(lines) -> Seq(paths)] :
                /\ f[0] = <<>>
                /\ \A k \in 1 .. Len(lines) :
                        f[k] = IF NamedBy(lines[k], paths) = {} THEN f[k - 1]
                               ELSE Append(f[k - 1], CHOOSE p \in NamedBy(lines[k], paths) : TRUE)
                /\ parse_uri_list(lines, paths) = f[Len(lines)]
<1> DEFINE n == Len(lines)
           T == Seq(paths)
           base == <<>>
           More(x, k) == IF NamedBy(lines[k], paths) = {} THEN x
                         ELSE Append(x, CHOOSE p \in NamedBy(lines[k], paths) : TRUE)
           step == [k \in 1 .. n |-> [x \in T |-> More(x, k)]]
           Def(f) == f = [k \in 0 .. n |-> IF k = 0 THEN <<>> ELSE More(f[k - 1], k)]
           files == CHOOSE f : Def(f)
<1>1. parse_uri_list(lines, paths) = files[n]
  BY DEF parse_uri_list, NamedBy
<1>2. n \in Nat /\ base \in T
  OBVIOUS
<1>3. ASSUME NEW x \in T, NEW k \in 1 .. n PROVE More(x, k) \in T
  <2>1. CASE NamedBy(lines[k], paths) = {}
    BY <2>1
  <2>2. CASE NamedBy(lines[k], paths) # {}
    <3>1. PICK y \in NamedBy(lines[k], paths) : y = CHOOSE p \in NamedBy(lines[k], paths) : TRUE
      BY <2>2
    <3>2. y \in paths
      BY <3>1 DEF NamedBy
    <3>3. Append(x, y) \in T
      BY <3>2, AppendFacts
    <3> QED BY <2>2, <3>1, <3>3
  <2> QED BY <2>1, <2>2
<1> HIDE DEF n
<1>4. step \in [1 .. n -> [T -> T]]
  <2> HIDE DEF More, T
  <2> QED BY <1>3
<1>5. PICK u : Follows(u, T, base, n, step)
  <2> HIDE DEF step, T, base
  <2> QED BY <1>2, <1>4, RecursionExists
<1> HIDE DEF More
<1>6. u \in [0 .. n -> T] /\ u[0] = <<>> /\ \A k \in 1 .. n : u[k] = More(u[k - 1], k)
  <2> HIDE DEF T
  <2>1. u \in [0 .. n -> T] /\ u[0] = <<>> /\ \A k \in 1 .. n : u[k] = step[k][u[k - 1]]
    BY <1>5 DEF Follows
  <2>2. \A k \in 1 .. n : k - 1 \in 0 .. n
    BY <1>2
  <2> QED BY <2>1, <2>2
<1> HIDE DEF step
<1>7. Def(u)
  <2> HIDE DEF T
  <2>1. \A k \in 0 .. n : k = 0 \/ k \in 1 .. n
    BY <1>2
  <2>2. \A k \in 0 .. n : u[k] = IF k = 0 THEN <<>> ELSE More(u[k - 1], k)
    BY <1>6, <2>1
  <2> QED BY <1>6, <2>2
<1>8. Def(files)
  <2> HIDE DEF Def
  <2> QED BY <1>7
<1> HIDE DEF files
<1>9. n \in {k \in 0 .. n : files[k] = u[k]}
  <2> DEFINE Same == {k \in 0 .. n : files[k] = u[k]}
  <2>1. 0 \in Same
    BY <1>2, <1>6, <1>8
  <2>2. ASSUME NEW k \in 0 .. n - 1, k \in Same PROVE k + 1 \in Same
    <3>1. k + 1 \in 1 .. n /\ k + 1 \in 0 .. n /\ k + 1 # 0 /\ (k + 1) - 1 = k
      BY <1>2
    <3>2. files[k + 1] = More(files[k], k + 1) /\ u[k + 1] = More(u[k], k + 1)
      BY <1>6, <1>8, <3>1
    <3> QED BY <2>2, <3>1, <3>2
  <2>3. \A k \in 0 .. n - 1 : k \in Same => k + 1 \in Same
    BY <2>2
  <2>4. n \in 0 .. n
    BY <1>2
  <2> HIDE DEF Same
  <2>5. \A k \in 0 .. n : k \in Same
    BY <1>2, <2>1, <2>3, InductionUpTo
  <2>6. n \in Same
    BY <2>4, <2>5
  <2> QED BY <2>6 DEF Same
<1> QED BY <1>1, <1>6, <1>9 DEF n, More, T

LEMMA ParseType ==
    ASSUME NEW lines, Len(lines) \in Nat, NEW paths
    PROVE  parse_uri_list(lines, paths) \in Seq(paths)
<1>1. PICK f \in [0 .. Len(lines) -> Seq(paths)] : parse_uri_list(lines, paths) = f[Len(lines)]
  BY ParseSteps
<1>2. Len(lines) \in 0 .. Len(lines)
  OBVIOUS
<1> QED BY <1>1, <1>2

LEMMA ParseNothing == \A paths : parse_uri_list(<<>>, paths) = <<>>
<1> SUFFICES ASSUME NEW paths PROVE parse_uri_list(<<>>, paths) = <<>>
  OBVIOUS
<1>1. Len(<<>>) = 0
  OBVIOUS
<1>2. PICK f \in [0 .. Len(<<>>) -> Seq(paths)] :
        f[0] = <<>> /\ parse_uri_list(<<>>, paths) = f[Len(<<>>)]
  BY <1>1, ParseSteps
<1> QED BY <1>1, <1>2

\* Lines of which each names one path are read as the list of these paths.
LEMMA ParseExact ==
    ASSUME NEW paths, NEW list \in Seq(paths), NEW lines, Len(lines) = Len(list),
           \A k \in 1 .. Len(list) : NamedBy(lines[k], paths) = {list[k]}
    PROVE  parse_uri_list(lines, paths) = list
<1> DEFINE n == Len(list)
           First(k) == SubSeq(list, 1, k)
<1>1. n \in Nat /\ Len(lines) = n /\ First(n) = list
  BY SeqValues, SubSeqFull
<1>2. PICK f \in [0 .. n -> Seq(paths)] :
                /\ f[0] = <<>>
                /\ \A k \in 1 .. n :
                        f[k] = IF NamedBy(lines[k], paths) = {} THEN f[k - 1]
                               ELSE Append(f[k - 1], CHOOSE p \in NamedBy(lines[k], paths) : TRUE)
                /\ parse_uri_list(lines, paths) = f[n]
  BY <1>1, ParseSteps
<1>3. ASSUME NEW k \in 1 .. n PROVE f[k] = Append(f[k - 1], list[k])
  <2>1. NamedBy(lines[k], paths) = {list[k]}
    OBVIOUS
  <2>2. (CHOOSE p \in {list[k]} : TRUE) = list[k]
    OBVIOUS
  <2> QED BY <1>2, <2>1, <2>2
<1>4. ASSUME NEW k \in 0 .. n - 1 PROVE First(k + 1) = Append(First(k), list[k + 1])
  <2>1. k \in Nat /\ k + 1 \in 1 .. n
    BY <1>1
  <2>2. First(k) \in Seq(paths) /\ Len(First(k)) = k /\ \A i \in 1 .. k : First(k)[i] = list[i]
    BY <1>1, <2>1
  <2>3. First(k + 1) \in Seq(paths) /\ Len(First(k + 1)) = k + 1
        /\ \A i \in 1 .. k + 1 : First(k + 1)[i] = list[i]
    BY <1>1, <2>1
  <2>4. list[k + 1] \in paths
    BY <2>1, SeqValues
  <2> HIDE DEF First
  <2> DEFINE u == Append(First(k), list[k + 1])
  <2>5. u \in Seq(paths) /\ Len(u) = k + 1 /\ (\A i \in 1 .. k : u[i] = list[i]) /\ u[k + 1] = list[k + 1]
    BY <2>2, <2>4, AppendFacts
  <2>6. \A i \in 1 .. k + 1 : i \in 1 .. k \/ i = k + 1
    BY <2>1
  <2> HIDE DEF u
  <2>7. First(k + 1) = u
    BY <2>3, <2>5, <2>6, SeqEqual
  <2> QED BY <2>7 DEF u
<1>5. First(0) = <<>>
  BY SubSeqEmpty
<1> HIDE DEF n, First
<1>6. n \in {k \in 0 .. n : f[k] = First(k)}
  <2> DEFINE Same == {k \in 0 .. n : f[k] = First(k)}
  <2>1. 0 \in Same
    BY <1>1, <1>2, <1>5
  <2>2. ASSUME NEW k \in 0 .. n - 1, k \in Same PROVE k + 1 \in Same
    <3>1. k + 1 \in 1 .. n /\ k + 1 \in 0 .. n /\ (k + 1) - 1 = k
      BY <1>1
    <3>2. f[k + 1] = Append(f[k], list[k + 1])
      BY <1>3, <3>1
    <3>3. First(k + 1) = Append(First(k), list[k + 1])
      BY <1>4
    <3> QED BY <2>2, <3>1, <3>2, <3>3
  <2>3. \A k \in 0 .. n - 1 : k \in Same => k + 1 \in Same
    BY <2>2
  <2>4. n \in 0 .. n
    BY <1>1
  <2> HIDE DEF Same
  <2>5. \A k \in 0 .. n : k \in Same
    BY <1>1, <2>1, <2>3, InductionUpTo
  <2>6. n \in Same
    BY <2>4, <2>5
  <2> QED BY <2>6 DEF Same
<1> QED BY <1>1, <1>2, <1>6

LEMMA PathIsNames == Paths \subseteq Seq(FileNames) /\ \A p \in Paths : p # <<>>
  BY DEF Paths

\* A line names the path whose string it gives.
LEMMA NamesOne ==
    ASSUME NEW paths, paths \subseteq Paths, NEW p \in paths, NEW line,
           url_decode(Trim(line)) = PathString(p)
    PROVE  NamedBy(line, paths) = {p}
<1>1. ASSUME NEW q \in paths, PathString(q) = PathString(p) PROVE q = p
  <2>1. p \in Seq(FileNames) /\ q \in Seq(FileNames)
    BY PathIsNames
  <2> QED BY <1>1, <2>1, PathInjective
<1> QED BY <1>1 DEF NamedBy

LEMMA AsciiString ==
    ASSUME NEW p \in Paths, IsAscii(p)
    PROVE  PathString(p) \in ByteStrings /\ \A b \in ToSet(PathString(p)) : b < 128
<1>1. p \in Seq(FileNames)
  BY PathIsNames
<1>2. ToSet(PathString(p)) \subseteq {Slash} \cup UNION {ToSet(name) : name \in ToSet(p)}
  BY <1>1, PathBytes
<1>3. \A b \in UNION {ToSet(name) : name \in ToSet(p)} : b < 128
  BY DEF IsAscii
<1>4. Slash < 128
  BY DEF Slash
<1> QED BY <1>1, <1>2, <1>3, <1>4, PathStringType

\* The URI of a path in ASCII, as a file manager writes it, names the path.
LEMMA EncodedNames ==
    ASSUME NEW paths, paths \subseteq Paths, NEW p \in paths, IsAscii(p)
    PROVE  NamedBy(Encode(PathString(p)), paths) = {p}
<1>1. PICK s \in ByteStrings : s = PathString(p) /\ \A b \in ToSet(s) : b < 128
  BY AsciiString
<1>2. PICK t \in ByteStrings : t = Encode(s) /\ Blank \notin ToSet(t) /\ Unescape(t) = s
  BY UnescapeEncode
<1>3. t # <<>>
  <2> SUFFICES ASSUME t = <<>> PROVE FALSE
    OBVIOUS
  <2>1. Percent \notin ToSet(<<>>) /\ <<>> \in ByteStrings
    BY DEF ToSet, ByteStrings
  <2>2. s = <<>>
    BY <1>2, <2>1, UnescapePlain
  <2>3. Len(PathString(p)) # 0
    BY PathIsNames, PathLast
  <2> QED BY <1>1, <2>2, <2>3
<1>4. t[Len(t)] # Blank
  <2>1. Len(t) \in DOMAIN t
    BY <1>3 DEF ByteStrings
  <2>2. t[Len(t)] \in ToSet(t)
    BY <2>1 DEF ToSet
  <2> QED BY <1>2, <2>2
<1>5. Trim(t) = t
  BY <1>3, <1>4, TrimNothing
<1>6. url_decode(t) = s
  BY <1>1, <1>2, DecodedAscii
<1> QED BY <1>1, <1>2, <1>5, <1>6, NamesOne

LEMMA PlainIsAscii ==
    ASSUME NEW p, IsPlain(p)
    PROVE  IsAscii(p)
  BY DEF IsPlain, IsAscii

\* The string of a path with plain names has no escape and nothing to trim.
LEMMA PlainString ==
    ASSUME NEW p \in Paths, IsPlain(p)
    PROVE  /\ PathString(p) \in ByteStrings
           /\ Percent \notin ToSet(PathString(p))
           /\ Unescape(PathString(p)) = PathString(p)
           /\ Trim(PathString(p)) = PathString(p)
<1>1. p \in Seq(FileNames) /\ p # <<>>
  BY PathIsNames
<1>2. PICK s \in ByteStrings : s = PathString(p)
  BY <1>1, PathStringType
<1>3. Percent \notin ToSet(s)
  <2>1. ToSet(s) \subseteq {Slash} \cup UNION {ToSet(name) : name \in ToSet(p)}
    BY <1>1, <1>2, PathBytes
  <2>2. Percent # Slash
    BY DEF Percent, Slash
  <2> QED BY <2>1, <2>2 DEF IsPlain
<1>4. Unescape(s) = s
  BY <1>3, UnescapePlain
<1>5. Trim(s) = s
  <2>1. Len(s) # 0 /\ s[Len(s)] = Last(p[Len(p)])
    BY <1>1, <1>2, PathLast DEF Last
  <2>2. p[Len(p)] \in ToSet(p)
    <3>1. Len(p) \in DOMAIN p
      BY <1>1
    <3> QED BY <3>1 DEF ToSet
  <2>3. s # <<>> /\ s[Len(s)] # Blank
    BY <2>1, <2>2 DEF IsPlain
  <2> QED BY <2>3, TrimNothing
<1> QED BY <1>2, <1>3, <1>4, <1>5

LEMMA PlainNamed ==
    ASSUME NEW paths, paths \subseteq Paths, NEW p \in paths, IsPlain(p)
    PROVE  NamedBy(PathString(p), paths) = {p}
<1>1. PICK s \in ByteStrings : s = PathString(p) /\ Unescape(s) = s /\ Trim(s) = s
  BY PlainString
<1>2. \A b \in ToSet(s) : b < 128
  BY <1>1, PlainIsAscii, AsciiString
<1>3. url_decode(s) = s
  BY <1>1, <1>2, DecodedAscii
<1> QED BY <1>1, <1>3, NamesOne

-------------------------------------------------------------------------------
(* What is read of a clipboard.                                              *)

Uris(paths) == [i \in DOMAIN paths |-> Encode(PathString(paths[i]))]
Strings(paths) == [i \in DOMAIN paths |-> PathString(paths[i])]

LEMMA ListLines ==
    ASSUME NEW D, NEW list \in Seq(D), list # <<>>
    PROVE  /\ Len(Uris(list)) = Len(list) /\ Uris(list) # <<>>
           /\ Len(Strings(list)) = Len(list) /\ Strings(list) # <<>>
           /\ Len(list) \in Nat /\ DOMAIN list = 1 .. Len(list)
<1>1. Len(list) \in Nat \ {0} /\ DOMAIN list = 1 .. Len(list)
  BY EmptySeq, SeqValues
<1>2. Len(Uris(list)) = Len(list) /\ Len(Strings(list)) = Len(list)
  BY <1>1 DEF Uris, Strings
<1>3. Len(<<>>) = 0
  OBVIOUS
<1>4. Uris(list) # <<>> /\ Strings(list) # <<>>
  BY <1>1, <1>2, <1>3
<1> QED BY <1>1, <1>2, <1>4

\* Whatever is in the clipboard, what is read is a list of existing paths, or on
\* Windows what is offered.
LEMMA ReadType ==
    ASSUME NEW m \in AllMachines, NEW offers, NEW paths, paths \subseteq Paths,
           \A t \in DOMAIN offers : t \in Types /\ Len(offers[t]) \in Nat,
           "hdrop" \in DOMAIN offers => offers["hdrop"] \in Seq(Paths)
    PROVE  get_clipboard_file_list(m, offers, paths) \in Seq(Paths)
<1>1. m.os \in {"linux", "windows", "other"}
  BY DEF AllMachines, Systems
<1>2. <<>> \in Seq(Paths)
  OBVIOUS
<1>3. CASE m.os = "linux"
  <2> DEFINE lines == ReadUriList(m.tools, offers)
  <2>1. lines = <<>> \/ \E t \in DOMAIN offers : lines = offers[t]
    BY DEF ReadUriList, Has
  <2>2. Len(lines) \in Nat
    <3>1. Len(<<>>) = 0
      OBVIOUS
    <3> QED BY <2>1, <3>1
  <2> HIDE DEF lines
  <2>3. parse_uri_list(lines, paths) \in Seq(paths)
    BY <2>2, ParseType
  <2>4. parse_uri_list(lines, paths) \in Seq(Paths)
    BY <2>3, SeqMonotonic
  <2>5. get_clipboard_file_list(m, offers, paths) = parse_uri_list(lines, paths)
    BY <1>3 DEF get_clipboard_file_list, lines
  <2> QED BY <2>4, <2>5
<1>4. CASE m.os = "windows"
  <2>1. get_clipboard_file_list(m, offers, paths) = IF Has(offers, "hdrop") THEN offers["hdrop"] ELSE <<>>
    BY <1>4 DEF get_clipboard_file_list
  <2> QED BY <1>2, <2>1 DEF Has
<1>5. CASE m.os = "other"
  <2>1. get_clipboard_file_list(m, offers, paths) = <<>>
    BY <1>5 DEF get_clipboard_file_list
  <2> QED BY <1>2, <2>1
<1> QED BY <1>1, <1>3, <1>4, <1>5

\* What a file manager offers.
LEMMA ManagerOfferFacts ==
    ASSUME NEW m \in AllMachines, NEW list
    PROVE  LET offers == ManagerOffer(m, list)
           IN  /\ DOMAIN offers \subseteq Types
               /\ \A t \in DOMAIN offers : offers[t] = IF t \in {"paths", "hdrop"} THEN list ELSE Uris(list)
               /\ m.os = "linux" => DOMAIN offers = {"uri-list", "gnome"} \cup ({m.text} \ {"none"})
               /\ m.os = "windows" => DOMAIN offers = {"hdrop"}
               /\ m.os = "other" => DOMAIN offers = {m.text} \ {"none"}
               /\ DOMAIN offers \cap TextTypes \subseteq {m.text}
<1> DEFINE offers == ManagerOffer(m, list)
           types == CASE m.os = "linux" -> {"uri-list", "gnome", m.text}
                      [] m.os = "windows" -> {"hdrop"}
                      [] m.os = "other" -> {m.text}
<1>1. m.os \in {"linux", "windows", "other"} /\ m.text \in TextTypes \cup {"none"}
  BY DEF AllMachines, Systems
<1>2. offers = [t \in types \ {"none"} |-> IF t \in {"paths", "hdrop"} THEN list ELSE Uris(list)]
  BY DEF ManagerOffer, Uris
<1>3. DOMAIN offers = types \ {"none"}
  BY <1>2
<1>4. CASE m.os = "linux"
  BY <1>1, <1>2, <1>3, <1>4 DEF Types, TextTypes
<1>5. CASE m.os = "windows"
  BY <1>1, <1>2, <1>3, <1>5 DEF Types, TextTypes
<1>6. CASE m.os = "other"
  BY <1>1, <1>2, <1>3, <1>6 DEF Types, TextTypes
<1> QED BY <1>1, <1>4, <1>5, <1>6

\* A list that a file manager has copied is read as it is, on machines that read lists.
LEMMA ReadsCopy ==
    ASSUME NEW m \in AllMachines, NEW paths, paths \subseteq Paths, NEW list \in Seq(paths), list # <<>>,
           m.os = "linux" => \A p \in ToSet(list) : IsAscii(p)
    PROVE  get_clipboard_file_list(m, ManagerOffer(m, list), paths) = IF ReadsLists(m) THEN list ELSE <<>>
<1> DEFINE offers == ManagerOffer(m, list)
<1>1. m.os \in {"linux", "windows", "other"} /\ m.text \in {"paths", "uris", "none"}
      /\ m.tools \subseteq {"xclip", "xsel", "wl-clipboard"}
  BY DEF AllMachines, Systems, TextTypes, Tools
<1>2. /\ \A t \in DOMAIN offers : offers[t] = IF t \in {"paths", "hdrop"} THEN list ELSE Uris(list)
      /\ m.os = "linux" => DOMAIN offers = {"uri-list", "gnome"} \cup ({m.text} \ {"none"})
      /\ m.os = "windows" => DOMAIN offers = {"hdrop"}
  BY ManagerOfferFacts
<1>3. /\ Len(Uris(list)) = Len(list) /\ Uris(list) # <<>>
      /\ Len(list) \in Nat /\ DOMAIN list = 1 .. Len(list)
  BY ListLines
<1> HIDE DEF offers
<1>4. CASE m.os = "linux"
  <2>1. Has(offers, "uri-list") /\ offers["uri-list"] = Uris(list)
        /\ (Has(offers, "uris") <=> m.text = "uris") /\ (m.text = "uris" => offers["uris"] = Uris(list))
    BY <1>1, <1>2, <1>3, <1>4 DEF Has
  <2>2. ReadUriList(m.tools, offers) = IF ReadsLists(m) THEN Uris(list) ELSE <<>>
    BY <1>1, <1>3, <1>4, <2>1 DEF ReadUriList, ReadsLists
  <2>3. ASSUME NEW k \in 1 .. Len(list) PROVE NamedBy(Uris(list)[k], paths) = {list[k]}
    <3>1. Uris(list)[k] = Encode(PathString(list[k])) /\ list[k] \in paths /\ IsAscii(list[k])
      BY <1>3, <1>4, SeqValues DEF Uris, ToSet
    <3> QED BY <3>1, EncodedNames
  <2>4. parse_uri_list(Uris(list), paths) = list
    BY <1>3, <2>3, ParseExact
  <2>5. parse_uri_list(<<>>, paths) = <<>>
    BY ParseNothing
  <2>6. get_clipboard_file_list(m, offers, paths) = parse_uri_list(ReadUriList(m.tools, offers), paths)
    BY <1>4 DEF get_clipboard_file_list
  <2> QED BY <2>2, <2>4, <2>5, <2>6 DEF offers
<1>5. CASE m.os = "windows"
  <2>1. get_clipboard_file_list(m, offers, paths) = IF Has(offers, "hdrop") THEN offers["hdrop"] ELSE <<>>
    BY <1>5 DEF get_clipboard_file_list
  <2>2. Has(offers, "hdrop") /\ offers["hdrop"] = list
    BY <1>2, <1>5 DEF Has
  <2> QED BY <1>5, <2>1, <2>2 DEF ReadsLists, offers
<1>6. CASE m.os = "other"
  <2>1. get_clipboard_file_list(m, offers, paths) = <<>>
    BY <1>6 DEF get_clipboard_file_list
  <2> QED BY <1>6, <2>1 DEF ReadsLists, offers
<1> QED BY <1>1, <1>4, <1>5, <1>6

\* What the program offers.
LEMMA NativeFacts ==
    ASSUME NEW m \in AllMachines, NEW t \in NativeTypes(m), NEW list
    PROVE  /\ t \in {"uri-list", "gnome", "hdrop"}
           /\ m.os = "windows" => t = "hdrop"
           /\ m.os = "linux" => t \in {"uri-list", "gnome"} /\ m.tools \cap {"xclip", "wl-clipboard"} # {}
           /\ m.os # "other"
           /\ DOMAIN NativeOffer(t, list) = {t}
           /\ NativeOffer(t, list)[t] = IF t = "hdrop" THEN list ELSE Strings(list)
<1>1. m.os \in {"linux", "windows", "other"} /\ m.fails \in BOOLEAN
  BY DEF AllMachines, Systems
<1>2. DOMAIN NativeOffer(t, list) = {t} /\ NativeOffer(t, list)[t] = IF t = "hdrop" THEN list ELSE Strings(list)
  BY DEF NativeOffer, Strings
<1>3. CASE m.os = "linux"
  BY <1>2, <1>3 DEF NativeTypes
<1>4. CASE m.os = "windows"
  BY <1>2, <1>4 DEF NativeTypes
<1>5. CASE m.os = "other"
  BY <1>5 DEF NativeTypes
<1> QED BY <1>1, <1>3, <1>4, <1>5

\* The list that the program has offered is read as it was written, or not at all.
LEMMA ReadsOwnList ==
    ASSUME NEW m \in AllMachines, NEW t \in NativeTypes(m),
           NEW paths, paths \subseteq Paths, NEW list \in Seq(paths), list # <<>>,
           \A p \in ToSet(list) : IsPlain(p)
    PROVE  /\ get_clipboard_file_list(m, NativeOffer(t, list), paths) \in {<<>>, list}
           /\ DOMAIN NativeOffer(t, list) \cap TextTypes = {}
<1> DEFINE offers == NativeOffer(t, list)
<1>1. /\ m.os \in {"linux", "windows"}
      /\ m.os = "windows" => t = "hdrop"
      /\ m.os = "linux" => t \in {"uri-list", "gnome"} /\ m.tools \cap {"xclip", "wl-clipboard"} # {}
      /\ t \in {"uri-list", "gnome", "hdrop"}
      /\ DOMAIN offers = {t} /\ offers[t] = IF t = "hdrop" THEN list ELSE Strings(list)
  <2>1. m.os \in {"linux", "windows", "other"}
    BY DEF AllMachines, Systems
  <2>2. /\ m.os = "windows" => t = "hdrop"
        /\ m.os = "linux" => t \in {"uri-list", "gnome"} /\ m.tools \cap {"xclip", "wl-clipboard"} # {}
        /\ m.os # "other"
        /\ DOMAIN NativeOffer(t, list) = {t}
        /\ NativeOffer(t, list)[t] = IF t = "hdrop" THEN list ELSE Strings(list)
    BY ONLY m \in AllMachines, t \in NativeTypes(m), NativeFacts
  <2> HIDE DEF offers
  <2>3. m.os \in {"linux", "windows"}
    BY <2>1, <2>2
  <2>4. t \in {"uri-list", "gnome", "hdrop"}
    BY <2>2, <2>3
  <2> QED BY <2>2, <2>3, <2>4 DEF offers
<1>2. /\ Len(Strings(list)) = Len(list) /\ Strings(list) # <<>>
      /\ Len(list) \in Nat /\ DOMAIN list = 1 .. Len(list)
  BY ListLines
<1> HIDE DEF offers
<1>3. DOMAIN offers \cap TextTypes = {}
  BY <1>1 DEF TextTypes
<1>4. CASE m.os = "windows"
  <2>1. get_clipboard_file_list(m, offers, paths) = IF Has(offers, "hdrop") THEN offers["hdrop"] ELSE <<>>
    BY <1>4 DEF get_clipboard_file_list
  <2>2. Has(offers, "hdrop") /\ offers["hdrop"] = list
    BY <1>1, <1>4 DEF Has
  <2> QED BY <1>3, <2>1, <2>2 DEF offers
<1>5. CASE m.os = "linux"
  <2>1. ~Has(offers, "uris") /\ (Has(offers, "uri-list") => offers["uri-list"] = Strings(list))
    BY <1>1, <1>5 DEF Has
  <2>2. ReadUriList(m.tools, offers) \in {<<>>, Strings(list)}
    BY <2>1 DEF ReadUriList
  <2>3. ASSUME NEW k \in 1 .. Len(list) PROVE NamedBy(Strings(list)[k], paths) = {list[k]}
    <3>1. Strings(list)[k] = PathString(list[k]) /\ list[k] \in paths /\ IsPlain(list[k])
      BY <1>2, SeqValues DEF Strings, ToSet
    <3> QED BY <3>1, PlainNamed
  <2>4. parse_uri_list(Strings(list), paths) = list
    BY <1>2, <2>3, ParseExact
  <2>5. parse_uri_list(<<>>, paths) = <<>>
    BY ParseNothing
  <2>6. get_clipboard_file_list(m, offers, paths) = parse_uri_list(ReadUriList(m.tools, offers), paths)
    BY <1>5 DEF get_clipboard_file_list
  <2> QED BY <1>3, <2>2, <2>4, <2>5, <2>6 DEF offers
<1> QED BY <1>1, <1>4, <1>5

\* Paths as text, or nothing, are no list of files.
LEMMA ReadsNoList ==
    ASSUME NEW m \in AllMachines, NEW offers, DOMAIN offers \subseteq {"paths"}, NEW paths
    PROVE  get_clipboard_file_list(m, offers, paths) = <<>>
<1>1. m.os \in {"linux", "windows", "other"}
  BY DEF AllMachines, Systems
<1>2. ~Has(offers, "uris") /\ ~Has(offers, "uri-list") /\ ~Has(offers, "hdrop")
  BY DEF Has
<1>3. ReadUriList(m.tools, offers) = <<>>
  BY <1>2 DEF ReadUriList
<1> QED BY <1>1, <1>2, <1>3, ParseNothing DEF get_clipboard_file_list

\* A file manager that pastes gets every path of the list.
LEMMA ManagerReadsAll ==
    ASSUME NEW t \in {"uri-list", "gnome", "hdrop"}, NEW list \in Seq(Paths),
           NEW q \in ToSet(list), IsPlain(q)
    PROVE  PathString(q) \in ManagerReads(NativeOffer(t, list))
<1> DEFINE offers == NativeOffer(t, list)
<1>1. DOMAIN offers = {t} /\ offers[t] = IF t = "hdrop" THEN list ELSE Strings(list)
  BY DEF NativeOffer, Strings
<1>2. PICK i \in DOMAIN list : q = list[i]
  BY DEF ToSet
<1>3. q \in Paths /\ list # <<>>
  <2>1. DOMAIN <<>> = {}
    OBVIOUS
  <2> QED BY <1>2, <2>1, SeqValues
<1> HIDE DEF offers
<1>4. CASE t = "hdrop"
  <2>1. Has(offers, "hdrop") /\ offers["hdrop"] = list
    BY <1>1, <1>3, <1>4 DEF Has
  <2> QED BY <2>1 DEF ManagerReads, offers
<1>5. CASE t # "hdrop"
  <2>1. ~Has(offers, "hdrop") /\ t \in DOMAIN offers \cap {"uri-list", "gnome"}
    BY <1>1, <1>5 DEF Has
  <2>2. PathString(q) \in ToSet(offers[t])
    BY <1>1, <1>2, <1>5 DEF Strings, ToSet
  <2>3. Unescape(PathString(q)) = PathString(q)
    BY <1>3, PlainString
  <2>4. PathString(q) \in UNION {ToSet(offers[u]) : u \in DOMAIN offers \cap {"uri-list", "gnome"}}
    BY <2>1, <2>2
  <2>5. PathString(q) \in ManagerReads(offers)
    BY <2>1, <2>3, <2>4 DEF ManagerReads
  <2> QED BY <2>5 DEF offers
<1> QED BY <1>4, <1>5
===============================================================================
