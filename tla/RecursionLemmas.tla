---------------------------- MODULE RecursionLemmas ----------------------------
(* Induction and recursion over the natural numbers up to a bound, stated    *)
(* with sets and functions, so that the proofs about the recursive functions *)
(* of the models can use them.                                               *)
EXTENDS Integers, WellFoundedInduction, TLAPS

\* A non-empty set of natural numbers has a least element.
LEMMA LeastNatural ==
    ASSUME NEW T, T \subseteq Nat, T # {}
    PROVE  \E x \in T : \A y \in T : x <= y
<1> DEFINE Below == {ss \in Nat \X Nat : ss[1] < ss[2]}
<1>1. OpToRel(<, Nat) = Below
  BY DEF OpToRel
<1> HIDE DEF Below
<1>2. IsWellFoundedOn(Below, Nat)
  BY <1>1, NatLessThanWellFounded
<1>3. PICK x \in T : \A y \in T : ~(<<y, x>> \in Below)
  BY <1>2, WFMin
<1>4. \A x1, y1 \in Nat : y1 < x1 => <<y1, x1>> \in Below
  BY DEF Below
<1>5. ASSUME NEW y \in T PROVE x <= y
  <2>1. x \in Nat /\ y \in Nat
    OBVIOUS
  <2>2. ~(<<y, x>> \in Below)
    BY <1>3
  <2>3. ~(y < x)
    BY <1>4, <2>1, <2>2
  <2> QED BY <2>1, <2>3
<1> QED BY <1>5

\* Induction, on a set: the natural numbers are in every set that has 0 and, with
\* a number below a bound, its successor.
LEMMA InductionUpTo ==
    ASSUME NEW S, NEW bound \in Nat, 0 \in S,
           \A k \in 0 .. bound - 1 : k \in S => k + 1 \in S
    PROVE  \A k \in 0 .. bound : k \in S
<1> DEFINE Missing == {k \in 0 .. bound : k \notin S}
<1> SUFFICES ASSUME Missing # {} PROVE FALSE
  OBVIOUS
<1>1. PICK x \in Missing : \A y \in Missing : x <= y
  <2>1. Missing \subseteq Nat
    OBVIOUS
  <2> HIDE DEF Missing
  <2> QED BY <2>1, LeastNatural
<1>2. x # 0 /\ x - 1 \in 0 .. bound - 1
  BY <1>1
<1>3. x - 1 \notin Missing
  BY <1>1, <1>2
<1>4. x - 1 \in S
  BY <1>2, <1>3
<1> QED BY <1>1, <1>2, <1>4

\* A function can be defined by recursion: by its value for 0 and by a step from each
\* number to the next.
Follows(u, D, base, bound, step) ==
    u \in [0 .. bound -> D] /\ u[0] = base /\ \A k \in 1 .. bound : u[k] = step[k][u[k - 1]]
LEMMA RecursionExists ==
    ASSUME NEW D, NEW base \in D, NEW bound \in Nat, NEW step \in [1 .. bound -> [D -> D]]
    PROVE  \E u : Follows(u, D, base, bound, step)
<1> DEFINE Goes(u, m) == u[0] = base /\ \A k \in 1 .. m : u[k] = step[k][u[k - 1]]
           S == {m \in 0 .. bound : \E u \in [0 .. m -> D] : Goes(u, m)}
<1>1. 0 \in S
  <2>1. [k \in 0 .. 0 |-> base] \in [0 .. 0 -> D] /\ Goes([k \in 0 .. 0 |-> base], 0)
    OBVIOUS
  <2> HIDE DEF Goes
  <2> QED BY <2>1
<1>2. ASSUME NEW m \in 0 .. bound - 1, m \in S PROVE m + 1 \in S
  <2>1. PICK u \in [0 .. m -> D] : Goes(u, m)
    BY <1>2
  <2> DEFINE w == [k \in 0 .. m + 1 |-> IF k = m + 1 THEN step[m + 1][u[m]] ELSE u[k]]
  <2>2. step[m + 1] \in [D -> D] /\ u[m] \in D
    OBVIOUS
  <2>3. w \in [0 .. m + 1 -> D]
    BY <2>2
  <2>4. Goes(w, m + 1)
    BY <2>1
  <2> HIDE DEF w, Goes
  <2> QED BY <2>3, <2>4
<1>3. bound \in S
  <2>1. \A m \in 0 .. bound - 1 : m \in S => m + 1 \in S
    BY <1>2
  <2>2. bound \in 0 .. bound
    OBVIOUS
  <2> HIDE DEF S
  <2>3. \A k \in 0 .. bound : k \in S
    BY <1>1, <2>1, InductionUpTo
  <2> QED BY <2>2, <2>3
<1> QED BY <1>3 DEF Follows

\* Two functions are the same up to a bound if they begin alike and continue alike.
LEMMA SameValues ==
    ASSUME NEW bound \in Nat, NEW f, NEW u, f[0] = u[0],
           \A k \in 1 .. bound : f[k - 1] = u[k - 1] => f[k] = u[k]
    PROVE  \A k \in 0 .. bound : f[k] = u[k]
<1> DEFINE Same == {k \in 0 .. bound : f[k] = u[k]}
<1>1. 0 \in Same
  OBVIOUS
<1>2. ASSUME NEW k \in 0 .. bound - 1, k \in Same PROVE k + 1 \in Same
  <2>1. k + 1 \in 1 .. bound /\ (k + 1) - 1 = k
    OBVIOUS
  <2>2. f[k] = u[k]
    BY <1>2
  <2>3. f[k + 1] = u[k + 1]
    BY <2>1, <2>2
  <2> QED BY <2>1, <2>3
<1>3. \A k \in 0 .. bound - 1 : k \in Same => k + 1 \in Same
  BY <1>2
<1> HIDE DEF Same
<1>4. \A k \in 0 .. bound : k \in Same
  BY <1>1, <1>3, InductionUpTo
<1> QED BY <1>4 DEF Same
===============================================================================
