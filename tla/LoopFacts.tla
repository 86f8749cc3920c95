------------------------------ MODULE LoopFacts -----------------------------
(***************************************************************************)
(* What the library leaves out and several components need: the least and  *)
(* the greatest element of a finite set of integers, induction on an       *)
(* interval for a set, that what a loop over an interval computes exists,  *)
(* and what concatenating and flattening sequences keeps.                  *)
(***************************************************************************)
EXTENDS Integers, Sequences, SequencesExt, FiniteSetTheorems, WellFoundedInduction, TLAPS

LEMMA LeastElement ==
    ASSUME NEW S \in SUBSET Int, S # {}, IsFiniteSet(S)
    PROVE  \E x \in S : \A y \in S : x =< y
<1> DEFINE Below(x) == {y \in S : y =< x}
           Parts == {Below(x) : x \in S}
<1>1. \A x \in S : IsFiniteSet(Below(x)) /\ Below(x) \in SUBSET S
  <2> TAKE x \in S
  <2>1. Below(x) \in SUBSET S
        OBVIOUS
  <2> HIDE DEF Below
  <2>. QED BY <2>1, FS_Subset
<1>2. Parts \subseteq FiniteSubsetsOf(S) /\ Parts # {}
      BY <1>1 DEF FiniteSubsetsOf
<1>3. PICK part \in Parts : \A other \in Parts : <<other, part>> \notin StrictSubsetOrdering(S)
  <2> HIDE DEF Parts
  <2>. QED BY <1>2, FS_StrictSubsetOrderingWellFounded, WFMin
<1>4. PICK x \in S : part = Below(x)
      BY <1>3
<1>5. ASSUME NEW y \in S, y < x PROVE FALSE
  <2>1. Below(y) \subseteq Below(x) /\ x \in Below(x) /\ x \notin Below(y)
    <3>1. x \in Int /\ y \in Int
          OBVIOUS
    <3>2. \A z \in S : z <= y => z <= x
          BY <1>5, <3>1
    <3>3. Below(y) \subseteq Below(x)
          BY <3>2
    <3>4. x \in Below(x)
          BY <3>1
    <3>5. x \notin Below(y)
          BY <1>5, <3>1
    <3>. QED BY <3>3, <3>4, <3>5
  <2>2. Below(y) \in SUBSET S /\ Below(x) \in SUBSET S /\ Below(y) \in Parts
        BY <1>1
  <2> HIDE DEF Below, Parts
  <2>3. <<Below(y), Below(x)>> \in StrictSubsetOrdering(S)
        BY <2>1, <2>2 DEF StrictSubsetOrdering
  <2>. QED BY <1>3, <1>4, <2>2, <2>3
<1>6. \A y \in S : x =< y
      BY <1>5
<1>. QED BY <1>6

LEMMA GreatestElement ==
    ASSUME NEW S \in SUBSET Int, S # {}, IsFiniteSet(S)
    PROVE  \E x \in S : \A y \in S : y =< x
<1> DEFINE Above(x) == {y \in S : y >= x}
           Parts == {Above(x) : x \in S}
<1>1. \A x \in S : IsFiniteSet(Above(x)) /\ Above(x) \in SUBSET S
  <2> TAKE x \in S
  <2>1. Above(x) \in SUBSET S
        OBVIOUS
  <2> HIDE DEF Above
  <2>. QED BY <2>1, FS_Subset
<1>2. Parts \subseteq FiniteSubsetsOf(S) /\ Parts # {}
      BY <1>1 DEF FiniteSubsetsOf
<1>3. IsWellFoundedOn(StrictSubsetOrdering(S), FiniteSubsetsOf(S))
      BY FS_StrictSubsetOrderingWellFounded
<1>4. PICK part \in Parts : \A other \in Parts : <<other, part>> \notin StrictSubsetOrdering(S)
  <2> HIDE DEF Parts
  <2>. QED BY <1>2, <1>3, WFMin
<1>5. PICK x \in S : part = Above(x)
      BY <1>4
<1>6. \A y \in S : y =< x
  <2> SUFFICES ASSUME NEW y \in S, ~(y =< x) PROVE FALSE
      OBVIOUS
  <2>1. Above(y) \subseteq Above(x) /\ x \in Above(x) /\ x \notin Above(y)
    <3>1. x \in Int /\ y \in Int /\ x < y
          OBVIOUS
    <3>2. \A z \in S : z >= y => z >= x
          BY <3>1
    <3>3. Above(y) \subseteq Above(x)
          BY <3>2
    <3>4. x \in Above(x)
          BY <3>1
    <3>5. x \notin Above(y)
          BY <3>1
    <3>. QED BY <3>3, <3>4, <3>5
  <2>2. Above(y) \in SUBSET S /\ Above(x) \in SUBSET S /\ Above(y) \in Parts
        BY <1>1
  <2> HIDE DEF Above, Parts
  <2>3. <<Above(y), Above(x)>> \in StrictSubsetOrdering(S)
        BY <2>1, <2>2 DEF StrictSubsetOrdering
  <2>. QED BY <1>4, <1>5, <2>2, <2>3
<1>. QED BY <1>6

\* Induction on an interval, for a set.
LEMMA Counting ==
    ASSUME NEW a \in Int, NEW n \in Int, NEW S, a \in S,
           \A i \in a .. n - 1 : i \in S => i + 1 \in S
    PROVE  a .. n \subseteq S
<1> DEFINE T == {i \in a .. n : i \notin S}
<1>1. SUFFICES ASSUME T # {} PROVE FALSE
      OBVIOUS
<1>2. PICK x \in T : \A y \in T : x =< y
  <2>1. T \in SUBSET (a .. n) /\ a .. n \in SUBSET Int
        OBVIOUS
  <2> HIDE DEF T
  <2>2. IsFiniteSet(T)
        BY <2>1, FS_Interval, FS_Subset
  <2>. QED BY <1>1, <2>1, <2>2, LeastElement
<1>3. x # a
      OBVIOUS
<1>4. x - 1 \in a .. n - 1 /\ x - 1 \notin T
      BY <1>2, <1>3
<1>5. x - 1 \in S
      BY <1>4
<1>6. x - 1 + 1 = x
      OBVIOUS
<1>. QED BY <1>4, <1>5, <1>6

\* What is defined by recursion on an interval exists.
\* f[i] is what a loop from a to n holds after its i-th step.
Loop(f, a, n, base, next) ==
    \A i \in a .. n : f[i] = IF i = a THEN base ELSE next[<<i, f[i - 1]>>]

LEMMA Recursion ==
    ASSUME NEW a \in Int, NEW n \in Int, NEW V, NEW base \in V,
           NEW next \in [(a .. n) \X V -> V]
    PROVE  \E f \in [a .. n -> V] : Loop(f, a, n, base, next)
<1> USE DEF Loop
<1> DEFINE Good(m, f) == \A i \in a .. m : f[i] = IF i = a THEN base ELSE next[<<i, f[i - 1]>>]
           S == {m \in a .. n : \E f \in [a .. m -> V] : Good(m, f)}
<1>0. CASE n < a
  <2>1. a .. n = {}
        BY <1>0
  <2>2. [i \in a .. n |-> base] \in [a .. n -> V]
        OBVIOUS
  <2> QED BY <2>1, <2>2
<1> SUFFICES ASSUME a =< n PROVE \E f \in [a .. n -> V] : Good(n, f)
  BY <1>0
<1>1. a \in S
  <2>1. [i \in a .. a |-> base] \in [a .. a -> V] /\ Good(a, [i \in a .. a |-> base])
    OBVIOUS
  <2>2. a \in a .. n
    OBVIOUS
  <2> HIDE DEF Good
  <2> QED BY <2>1, <2>2
<1>2. ASSUME NEW m \in a .. n - 1, m \in S PROVE m + 1 \in S
  <2>0. m + 1 \in a .. n
    OBVIOUS
  <2>1. PICK f \in [a .. m -> V] : Good(m, f)
    BY <1>2
  <2> DEFINE g == [i \in a .. m + 1 |-> IF i = m + 1 THEN next[<<m + 1, f[m]>>] ELSE f[i]]
  <2>2. m + 1 \in a .. n /\ f[m] \in V
    OBVIOUS
  <2>3. next[<<m + 1, f[m]>>] \in V
    BY <2>2
  <2>4. g \in [a .. m + 1 -> V]
    BY <2>3
  <2>5. \A i \in a .. m : g[i] = f[i]
    OBVIOUS
  <2>6. g[m + 1] = next[<<m + 1, f[m]>>]
    OBVIOUS
  <2>7. Good(m + 1, g)
    <3> SUFFICES ASSUME NEW i \in a .. m + 1
                 PROVE  g[i] = IF i = a THEN base ELSE next[<<i, g[i - 1]>>]
      OBVIOUS
    <3> HIDE DEF g
    <3>1. CASE i = m + 1
      <4>1. i # a /\ i - 1 = m /\ m \in a .. m
        BY <3>1
      <4> QED BY <2>5, <2>6, <3>1, <4>1
    <3>2. CASE i \in a .. m
      <4>1. i # a => g[i - 1] = f[i - 1]
        BY <2>5, <3>2
      <4> QED BY <2>1, <2>5, <3>2, <4>1
    <3> QED BY <3>1, <3>2
  <2> HIDE DEF g, Good
  <2> QED BY <2>0, <2>4, <2>7
<1>3. n \in S
  <2> HIDE DEF S
  <2>1. a .. n \subseteq S
    BY <1>1, <1>2, Counting
  <2> QED BY <2>1
<1> QED BY <1>3

LEMMA Concatenated ==
    ASSUME NEW V, NEW s \in Seq(V), NEW t \in Seq(V)
    PROVE  \A x : x \in ToSet(s \o t) <=> x \in ToSet(s) \/ x \in ToSet(t)
<1> TAKE x
<1>1. DOMAIN (s \o t) = 1 .. Len(s) + Len(t) /\ DOMAIN s = 1 .. Len(s) /\ DOMAIN t = 1 .. Len(t)
  OBVIOUS
<1>2. \A k \in 1 .. Len(s) : (s \o t)[k] = s[k] /\ k \in 1 .. Len(s) + Len(t)
  OBVIOUS
<1>3. \A k \in 1 .. Len(t) : (s \o t)[Len(s) + k] = t[k] /\ Len(s) + k \in 1 .. Len(s) + Len(t)
  OBVIOUS
<1>4. ASSUME x \in ToSet(s) PROVE x \in ToSet(s \o t)
  BY <1>1, <1>2, <1>4 DEF ToSet
<1>5. ASSUME x \in ToSet(t) PROVE x \in ToSet(s \o t)
  <2>1. PICK k \in 1 .. Len(t) : x = t[k]
    BY <1>1, <1>5 DEF ToSet
  <2>2. x = (s \o t)[Len(s) + k] /\ Len(s) + k \in DOMAIN (s \o t)
    BY <1>1, <1>3, <2>1
  <2> QED BY <2>2 DEF ToSet
<1>6. ASSUME x \in ToSet(s \o t) PROVE x \in ToSet(s) \/ x \in ToSet(t)
  <2>1. PICK k \in 1 .. Len(s) + Len(t) : x = (s \o t)[k]
    BY <1>1, <1>6 DEF ToSet
  <2>2. CASE k \in 1 .. Len(s)
    BY <1>1, <1>2, <2>1, <2>2 DEF ToSet
  <2>3. CASE k \notin 1 .. Len(s)
    <3>1. k - Len(s) \in 1 .. Len(t) /\ Len(s) + (k - Len(s)) = k
      BY <2>3
    <3>2. x = t[k - Len(s)]
      BY <1>3, <2>1, <3>1
    <3> QED BY <1>1, <3>1, <3>2 DEF ToSet
  <2> QED BY <2>2, <2>3
<1> QED BY <1>4, <1>5, <1>6

\* Flattening is a loop that appends one sequence after the other.
\* f[i] is the concatenation of the first i sequences.
Concatenation(f, ss) ==
    /\ f[1] = ss[1]
    /\ \A i, k \in 1 .. Len(ss) : k = i + 1 => f[k] = f[i] \o ss[k]

LEMMA FlattenedIsRecursive ==
    ASSUME NEW V, NEW ss \in Seq(Seq(V)), Len(ss) # 0
    PROVE  \E f \in [1 .. Len(ss) -> Seq(V)] :
              FlattenSeq(ss) = f[Len(ss)] /\ Concatenation(f, ss)
<1> USE DEF Concatenation
<1> DEFINE n == Len(ss)
           W == Seq(V)
           Def(g) == [i \in 1 .. n |-> IF i = 1 THEN ss[i] ELSE g[i - 1] \o ss[i]]
           f == CHOOSE g : g = Def(g)
           next == [x \in (1 .. n) \X W |-> x[2] \o ss[x[1]]]
<1>1. n \in Nat /\ DOMAIN ss = 1 .. n /\ \A i \in 1 .. n : ss[i] \in W
  OBVIOUS
<1>2. FlattenSeq(ss) = f[n]
  BY DEF FlattenSeq
<1>3. n \in Int /\ 1 \in Int /\ 1 \in 1 .. n /\ n \in 1 .. n /\ ss[1] \in W
  BY <1>1
<1>4. next \in [(1 .. n) \X W -> W]
  <2>1. \A s, t \in W : s \o t \in W
    OBVIOUS
  <2> HIDE DEF W, n
  <2> QED BY <1>1, <2>1
<1>5. \E g \in [1 .. n -> W] : Loop(g, 1, n, ss[1], next)
  <2> HIDE DEF next, n, W
  <2> QED BY <1>3, <1>4, Recursion
<1>6. PICK g \in [1 .. n -> W] : \A i \in 1 .. n : g[i] = IF i = 1 THEN ss[1] ELSE next[<<i, g[i - 1]>>]
  BY <1>5 DEF Loop
<1>7. g = Def(g)
  <2>1. \A i \in 1 .. n : i # 1 => next[<<i, g[i - 1]>>] = g[i - 1] \o ss[i]
    <3> TAKE i \in 1 .. n
    <3> HAVE i # 1
    <3>1. i - 1 \in 1 .. n
      BY <1>1
    <3>2. g[i - 1] \in W
      <4> HIDE DEF W
      <4> QED BY <3>1
    <3>3. <<i, g[i - 1]>> \in (1 .. n) \X W
      BY <3>2
    <3> HIDE DEF W
    <3> QED BY <3>3
  <2>2. \A i \in 1 .. n : g[i] = IF i = 1 THEN ss[i] ELSE g[i - 1] \o ss[i]
    <3> HIDE DEF next, W, n
    <3> QED BY <1>6, <2>1
  <2>3. g \in [1 .. n -> W]
    OBVIOUS
  <2> HIDE DEF next, W, n
  <2> QED BY <2>2, <2>3
<1>8. f = Def(f)
  <2>1. \E x : x = Def(x)
    BY <1>7
  <2> HIDE DEF Def
  <2> QED BY <2>1
<1> HIDE DEF f
<1>9. \A i \in 1 .. n : f[i] = IF i = 1 THEN ss[i] ELSE f[i - 1] \o ss[i]
  <2> HIDE DEF n
  <2> QED BY <1>8
<1>10. f[1] = ss[1]
  BY <1>3, <1>9
<1>11. \A i, k \in 1 .. n : k = i + 1 => f[k] = f[i] \o ss[k]
  <2> TAKE i, k \in 1 .. n
  <2> HAVE k = i + 1
  <2>1. k # 1 /\ k - 1 = i
    OBVIOUS
  <2>2. f[k] = f[k - 1] \o ss[k]
    <3> HIDE DEF n
    <3> QED BY <1>9, <2>1
  <2> QED BY <2>1, <2>2
<1> DEFINE S == {i \in 1 .. n : f[i] \in W}
<1>12. 1 .. n \subseteq S
  <2>1. 1 \in S
    BY <1>3, <1>10
  <2>2. ASSUME NEW i \in 1 .. n - 1, i \in S PROVE i + 1 \in S
    <3>1. PICK k : k = i + 1
      OBVIOUS
    <3>2. k \in 1 .. n /\ i \in 1 .. n
      BY <3>1
    <3>3. f[k] = f[i] \o ss[k] /\ f[i] \in W /\ ss[k] \in W
      <4> HIDE DEF n, W
      <4> QED BY <1>1, <1>11, <2>2, <3>1, <3>2
    <3>4. f[k] \in W
      BY <3>3
    <3> HIDE DEF n, W
    <3> QED BY <3>1, <3>2, <3>4
  <2> HIDE DEF S, n
  <2> QED BY <1>3, <2>1, <2>2, Counting
<1>13. f \in [1 .. n -> W]
  <2> HIDE DEF W, n
  <2> QED BY <1>8, <1>12
<1> HIDE DEF n, W
<1> QED BY <1>2, <1>10, <1>11, <1>13 DEF n, W

\* What the flattened sequences hold, all of them hold together.
LEMMA Flattened ==
    ASSUME NEW V, NEW ss \in Seq(Seq(V))
    PROVE  /\ FlattenSeq(ss) \in Seq(V)
           /\ \A x : x \in ToSet(FlattenSeq(ss)) <=> \E i \in DOMAIN ss : x \in ToSet(ss[i])
<1> DEFINE n == Len(ss)
           W == Seq(V)
           Union(i, s) == \A x : x \in ToSet(s) <=> \E j \in 1 .. i : x \in ToSet(ss[j])
<1>0. n \in Nat /\ n \in Int /\ 1 \in Int /\ DOMAIN ss = 1 .. n /\ \A i \in 1 .. n : ss[i] \in W
  OBVIOUS
<1>a. CASE n = 0
  <2>1. ss = <<>> /\ FlattenSeq(ss) = ss
    BY <1>a DEF FlattenSeq
  <2>2. ToSet(<<>>) = {} /\ DOMAIN ss = {}
    BY <2>1 DEF ToSet
  <2>3. <<>> \in Seq(V)
    OBVIOUS
  <2> QED BY <2>1, <2>2, <2>3
<1>b. CASE n # 0
  <2>1. PICK f \in [1 .. n -> W] :
          /\ FlattenSeq(ss) = f[n] /\ f[1] = ss[1]
          /\ \A i, k \in 1 .. n : k = i + 1 => f[k] = f[i] \o ss[k]
    <3>1. \E f \in [1 .. Len(ss) -> Seq(V)] : FlattenSeq(ss) = f[Len(ss)] /\ Concatenation(f, ss)
      <4>1. Len(ss) # 0
        BY <1>b
      <4> HIDE DEF n, W, Union
      <4> QED BY <4>1, FlattenedIsRecursive
    <3> HIDE DEF Union
    <3> QED BY <3>1 DEF Concatenation
  <2> DEFINE S == {i \in 1 .. n : Union(i, f[i])}
  <2>2. 1 \in 1 .. n /\ n \in 1 .. n
    BY <1>0, <1>b
  <2>3. 1 \in S
    <3>1. 1 .. 1 = {1}
      OBVIOUS
    <3> QED BY <2>1, <2>2, <3>1
  <2>4. ASSUME NEW i \in 1 .. n - 1, i \in S PROVE i + 1 \in S
    <3>1. PICK k : k = i + 1
      OBVIOUS
    <3>2. k \in 1 .. n /\ i \in 1 .. n
      BY <3>1
    <3>3. f[k] = f[i] \o ss[k] /\ f[i] \in W /\ ss[k] \in W /\ Union(i, f[i])
      <4>1. Union(i, f[i])
        BY <2>4
      <4> HIDE DEF n, W, Union
      <4> QED BY <1>0, <2>1, <3>1, <3>2, <4>1
    <3>4. \A x : x \in ToSet(f[k]) <=> x \in ToSet(f[i]) \/ x \in ToSet(ss[k])
      BY <3>3, Concatenated
    <3>5. \A j : j \in 1 .. k <=> j \in 1 .. i \/ j = k
      BY <3>1
    <3>6. Union(k, f[k])
      <4> HIDE DEF W, n
      <4> QED BY <3>3, <3>4, <3>5
    <3> HIDE DEF Union, W, n
    <3> QED BY <3>1, <3>2, <3>6
  <2>5. n \in S
    <3>1. 1 .. n \subseteq S
      <4> HIDE DEF S, n
      <4> QED BY <1>0, <2>3, <2>4, Counting
    <3> HIDE DEF S, n
    <3> QED BY <2>2, <3>1
  <2>6. Union(n, f[n]) /\ f[n] \in W
    <3>1. Union(n, f[n])
      BY <2>5
    <3> HIDE DEF Union, W, n
    <3> QED BY <2>2, <3>1
  <2> HIDE DEF n
  <2> QED BY <1>0, <2>1, <2>6
<1> QED BY <1>a, <1>b
=============================================================================
