------------------------------ MODULE Induction -----------------------------
(***************************************************************************)
(* Induction and recursion in a form the provers can use: a property is a  *)
(* set, a step of a recursion a function, so that nothing takes an         *)
(* operator as a parameter.  It rests on the well-foundedness of the       *)
(* finite subsets of Nat.  Then what it is first needed for: powers of     *)
(* two, division by them and the bits of a number.                         *)
(***************************************************************************)
EXTENDS Binary, SequencesExt, FiniteSetTheorems, SequenceTheorems, TLAPS

\* The least member of a set of naturals: the initial segments 0..n for n in the
\* set are finite, and so one of them has none of the others as a proper part.
LEMMA LeastNatural ==
    ASSUME NEW A \in SUBSET Nat, A # {}
    PROVE  \E n \in A : \A m \in A : n <= m
<1> DEFINE R == StrictSubsetOrdering(Nat)
           F == FiniteSubsetsOf(Nat)
           T == {0..n : n \in A}
<1>1. IsWellFoundedOn(R, F)
  BY FS_StrictSubsetOrderingWellFounded
<1>2. \A n \in Nat : 0..n \in F
  BY FS_Interval DEF FiniteSubsetsOf
<1>3. T \subseteq F /\ T # {}
  BY <1>2
<1>4. PICK x \in T : \A y \in T : ~ (<<y, x>> \in R)
  <2> HIDE DEF T, R, F
  <2> QED BY <1>1, <1>3, WFMin
<1>5. PICK n \in A : x = 0..n
  OBVIOUS
<1>6. ASSUME NEW m \in A, m < n PROVE FALSE
  <2>1. 0..m \in SUBSET Nat /\ 0..n \in SUBSET Nat /\ 0..m \subseteq 0..n
    BY <1>6
  <2>2. n \in 0..n /\ n \notin 0..m
    BY <1>6
  <2>3. <<0..m, 0..n>> \in R
    BY <2>1, <2>2 DEF StrictSubsetOrdering
  <2> QED BY <1>4, <1>5, <2>3
<1> QED BY <1>6

\* Induction up to a bound: what holds of 0 and passes from each number to the
\* next holds of all.
LEMMA BoundedInduction ==
    ASSUME NEW n \in Nat, NEW S, 0 \in S, \A i \in 0..n-1 : i \in S => i + 1 \in S
    PROVE  0..n \subseteq S
<1> SUFFICES ASSUME ~ (0..n \subseteq S) PROVE FALSE
  OBVIOUS
<1> DEFINE A == (0..n) \ S
<1>1. A \in SUBSET Nat /\ A # {}
  OBVIOUS
<1>2. PICK k \in A : \A m \in A : k <= m
  <2> HIDE DEF A
  <2> QED BY <1>1, LeastNatural
<1>3. k \in 0..n /\ k \notin S /\ k # 0
  OBVIOUS
<1>4. k - 1 \in 0..n-1 /\ k - 1 \in S
  BY <1>2, <1>3
<1>5. (k - 1) + 1 \in S
  BY <1>4
<1> QED BY <1>3, <1>5

LEMMA NaturalInduction ==
    ASSUME NEW S, 0 \in S, \A i \in Nat : i \in S => i + 1 \in S
    PROVE  Nat \subseteq S
<1> SUFFICES ASSUME NEW n \in Nat PROVE n \in S
  OBVIOUS
<1>1. 0..n \subseteq S
  BY BoundedInduction
<1> QED BY <1>1

\* Induction where each number may use all smaller ones.
LEMMA CompleteInduction ==
    ASSUME NEW S, \A n \in Nat : (\A m \in Nat : m < n => m \in S) => n \in S
    PROVE  Nat \subseteq S
<1> SUFFICES ASSUME ~ (Nat \subseteq S) PROVE FALSE
  OBVIOUS
<1> DEFINE A == Nat \ S
<1>1. A \in SUBSET Nat /\ A # {}
  OBVIOUS
<1>2. PICK k \in A : \A m \in A : k <= m
  <2> HIDE DEF A
  <2> QED BY <1>1, LeastNatural
<1>3. \A m \in Nat : m < k => m \in S
  BY <1>2
<1> QED BY <1>3

\* Three sequences, put together in either order.
Associate(s, t, u) == (s \o t) \o u = s \o (t \o u)

LEMMA ConcatAssociates ==
    ASSUME NEW S, NEW s \in Seq(S), NEW t \in Seq(S), NEW u \in Seq(S)
    PROVE  Associate(s, t, u)
BY ConcatAssociative DEF Associate

\* A prefix grows at its end.
LEMMA PrefixGrows ==
    ASSUME NEW M, NEW s \in Seq(M), NEW i \in 0..Len(s)-1
    PROVE  /\ SubSeq(s, 1, i) \in Seq(M) /\ s[i + 1] \in M
           /\ SubSeq(s, 1, i + 1) = Append(SubSeq(s, 1, i), s[i + 1])
<1>1. SubSeq(s, 1, i) \in Seq(M) /\ s[i + 1] \in M
  BY SubSeqProperties, ElementOfSeq
<1>2. SubSeq(s, 1, i + 1) = SubSeq(s, 1, i) \o <<s[i + 1]>>
  <2>1. 1 \in 1..Len(s) /\ i + 1 \in 1..Len(s) /\ (i + 1) - 1 = i
    OBVIOUS
  <2> QED BY <2>1, SubSeqRecursiveSecond
<1> QED BY <1>1, <1>2, AppendIsConcat

\* Sequences grow from the empty one at their end.
LEMMA SequenceInduction ==
    ASSUME NEW M, NEW S, <<>> \in S, \A s \in Seq(M), e \in M : s \in S => Append(s, e) \in S
    PROVE  Seq(M) \subseteq S
<1> SUFFICES ASSUME NEW s \in Seq(M) PROVE s \in S
  OBVIOUS
<1> DEFINE T == {i \in 0..Len(s) : SubSeq(s, 1, i) \in S}
<1>1. Len(s) \in Nat
  OBVIOUS
<1>2. 0 \in T
  <2>1. SubSeq(s, 1, 0) = <<>>
    BY SubSeqEmpty
  <2>2. 0 \in 0..Len(s)
    BY <1>1
  <2>3. SubSeq(s, 1, 0) \in S
    BY <2>1
  <2> QED BY <2>2, <2>3, Zenon
<1>3. ASSUME NEW i \in 0..Len(s)-1, i \in T PROVE i + 1 \in T
  <2>1. SubSeq(s, 1, i) \in Seq(M) /\ s[i + 1] \in M
        /\ SubSeq(s, 1, i + 1) = Append(SubSeq(s, 1, i), s[i + 1])
    BY PrefixGrows
  <2>3. SubSeq(s, 1, i) \in S
    BY <1>3, Zenon
  <2>4. SubSeq(s, 1, i + 1) \in S
    BY <2>1, <2>3
  <2>5. i + 1 \in 0..Len(s)
    BY <1>1
  <2> QED BY <2>4, <2>5, Zenon
<1>4. 0..Len(s) \subseteq T
  <2> HIDE DEF T
  <2> QED BY <1>1, <1>2, <1>3, BoundedInduction
<1>5. Len(s) \in T
  BY <1>1, <1>4
<1>6. SubSeq(s, 1, Len(s)) \in S
  BY <1>5
<1> QED BY <1>6, SubSeqFull

\* What a recursive function on D is at i, computed from i and the values below i.
Recursion(step, D, V) ==
    /\ V # {}
    /\ D \in SUBSET Nat
    /\ step \in [D \X [D -> V] -> V]
    /\ \A i \in D, f, g \in [D -> V] :
           (\A j \in D : j < i => f[j] = g[j]) => step[<<i, f>>] = step[<<i, g>>]

Solves(h, step, D, V) == h \in [D -> V] /\ \A i \in D : h[i] = step[<<i, h>>]

\* A recursive definition has a value.
LEMMA RecursionExists ==
    ASSUME NEW step, NEW D, NEW V, Recursion(step, D, V)
    PROVE  \E h : Solves(h, step, D, V)
<1> /\ V # {}
    /\ D \in SUBSET Nat
    /\ step \in [D \X [D -> V] -> V]
    /\ \A i \in D, f, g \in [D -> V] :
           (\A j \in D : j < i => f[j] = g[j]) => step[<<i, f>>] = step[<<i, g>>]
  BY DEF Recursion
<1> DEFINE F == [D -> V]
           Good(f, k) == \A i \in D : i < k => f[i] = step[<<i, f>>]
           S == {k \in Nat : \E f \in F : Good(f, k)}
<1>1. 0 \in S
  <2>1. PICK v \in V : TRUE
    OBVIOUS
  <2>2. [i \in D |-> v] \in F
    OBVIOUS
  <2>3. Good([i \in D |-> v], 0)
    OBVIOUS
  <2> HIDE DEF F, Good
  <2> QED BY <2>2, <2>3
<1>2. ASSUME NEW k \in Nat, k \in S PROVE k + 1 \in S
  <2>1. PICK f \in F : Good(f, k)
    BY <1>2
  <2>2. CASE k \notin D
    <3>1. Good(f, k + 1)
      BY <2>1, <2>2
    <3> HIDE DEF F, Good
    <3> QED BY <2>1, <3>1
  <2>3. CASE k \in D
    <3>1. step[<<k, f>>] \in V
      BY <2>1, <2>3
    <3> DEFINE g == [f EXCEPT ![k] = step[<<k, f>>]]
    <3>2. g \in F /\ g[k] = step[<<k, f>>] /\ \A j \in D : j # k => g[j] = f[j]
      BY <2>1, <2>3, <3>1
    <3> HIDE DEF g
    <3>3. ASSUME NEW i \in D, i < k + 1 PROVE g[i] = step[<<i, g>>]
      <4>1. \A j \in D : j < i => g[j] = f[j]
        BY <3>2, <3>3
      <4>2. step[<<i, g>>] = step[<<i, f>>]
        BY <2>1, <3>2, <4>1
      <4>3. CASE i = k
        BY <3>2, <4>2, <4>3
      <4>4. CASE i < k
        BY <2>1, <3>2, <4>2, <4>4
      <4> QED BY <3>3, <4>3, <4>4
    <3>4. Good(g, k + 1)
      BY <3>3
    <3> HIDE DEF F, Good
    <3> QED BY <3>2, <3>4
  <2> QED BY <2>2, <2>3
<1>3. Nat \subseteq S
  <2> HIDE DEF S
  <2> QED BY <1>1, <1>2, NaturalInduction
<1>4. ASSUME NEW f \in F, NEW g \in F, NEW k \in Nat, NEW l \in Nat, Good(f, k), Good(g, l)
      PROVE  \A i \in D : i < k /\ i < l => f[i] = g[i]
  <2> DEFINE T == {i \in Nat : i \in D /\ i < k /\ i < l => f[i] = g[i]}
  <2>1. ASSUME NEW n \in Nat, \A m \in Nat : m < n => m \in T PROVE n \in T
    <3>1. SUFFICES ASSUME n \in D, n < k, n < l PROVE f[n] = g[n]
      OBVIOUS
    <3>2. ASSUME NEW j \in D, j < n PROVE f[j] = g[j]
      <4>1. j \in Nat /\ j < k /\ j < l
        BY <3>1, <3>2
      <4> QED BY <2>1, <3>2, <4>1
    <3>3. step[<<n, f>>] = step[<<n, g>>]
      BY <3>1, <3>2
    <3>4. f[n] = step[<<n, f>>] /\ g[n] = step[<<n, g>>]
      BY <1>4, <3>1
    <3> QED BY <3>3, <3>4
  <2>2. Nat \subseteq T
    <3> HIDE DEF T
    <3> QED BY <2>1, CompleteInduction
  <2> QED BY <2>2
<1> DEFINE a(k) == CHOOSE f \in F : Good(f, k)
           h == [i \in D |-> a(i + 1)[i]]
<1>5. \A k \in Nat : a(k) \in F /\ Good(a(k), k)
  <2> SUFFICES ASSUME NEW k \in Nat PROVE a(k) \in F /\ Good(a(k), k)
    OBVIOUS
  <2>1. \E f \in F : Good(f, k)
    BY <1>3
  <2> HIDE DEF F, Good
  <2> QED BY <2>1
<1>6. h \in F /\ \A i \in D : h[i] = a(i + 1)[i]
  <2> HIDE DEF a
  <2>1. \A i \in D : a(i + 1) \in F
    BY <1>5
  <2> QED BY <2>1
<1> HIDE DEF a, h
<1>7. ASSUME NEW i \in D PROVE h[i] = step[<<i, h>>]
  <2>1. i \in Nat /\ i + 1 \in Nat /\ a(i + 1) \in F /\ Good(a(i + 1), i + 1)
    <3>1. i \in Nat /\ i + 1 \in Nat
      OBVIOUS
    <3> QED BY <1>5, <3>1
  <2>2. a(i + 1)[i] = step[<<i, a(i + 1)>>]
    <3>1. i < i + 1
      BY <2>1
    <3> QED BY <2>1, <3>1
  <2>3. \A j \in D : j < i => h[j] = a(i + 1)[j]
    <3> SUFFICES ASSUME NEW j \in D, j < i PROVE h[j] = a(i + 1)[j]
      OBVIOUS
    <3>1. j \in Nat /\ j + 1 \in Nat /\ a(j + 1) \in F /\ Good(a(j + 1), j + 1)
      <4>1. j \in Nat /\ j + 1 \in Nat
        OBVIOUS
      <4> QED BY <1>5, <4>1
    <3>2. j < j + 1 /\ j < i + 1
      BY <2>1, <3>1
    <3>3. a(j + 1)[j] = a(i + 1)[j]
      <4> HIDE DEF F, Good
      <4> QED BY <1>4, <2>1, <3>1, <3>2
    <3> QED BY <1>6, <3>3
  <2>4. step[<<i, h>>] = step[<<i, a(i + 1)>>]
    BY <1>6, <2>1, <2>3
  <2> QED BY <1>6, <2>2, <2>4
<1> QED BY <1>6, <1>7 DEF Solves
-----------------------------------------------------------------------------
(* Folds from the left.                                                    *)

\* A value for each of 0..n, made by step from the one before.
Folded(f, base, step, n, V) ==
    /\ f \in [0..n -> V] /\ f[0] = base
    /\ \A i \in 1..n : f[i] = step[<<i, f[i - 1]>>]

LEMMA FoldExists ==
    ASSUME NEW n \in Nat, NEW V, NEW base \in V, NEW step \in [(1..n) \X V -> V]
    PROVE  \E f : Folded(f, base, step, n, V)
<1> DEFINE D == 0..n
           next == [x \in D \X [D -> V] |-> IF x[1] = 0 THEN base ELSE step[<<x[1], x[2][x[1] - 1]>>]]
<1>1. \A i \in D : i # 0 => i \in 1..n /\ i - 1 \in D /\ i - 1 < i
  OBVIOUS
<1>2. \A i \in D, f \in [D -> V] :
          /\ next[<<i, f>>] = IF i = 0 THEN base ELSE step[<<i, f[i - 1]>>]
          /\ next[<<i, f>>] \in V
  <2> SUFFICES ASSUME NEW i \in D, NEW f \in [D -> V]
               PROVE  /\ next[<<i, f>>] = IF i = 0 THEN base ELSE step[<<i, f[i - 1]>>]
                      /\ next[<<i, f>>] \in V
    OBVIOUS
  <2>1. next[<<i, f>>] = IF i = 0 THEN base ELSE step[<<i, f[i - 1]>>]
    OBVIOUS
  <2>2. i # 0 => step[<<i, f[i - 1]>>] \in V
    <3> HIDE DEF D
    <3> QED BY <1>1
  <2> QED BY <2>1, <2>2
<1>3. next \in [D \X [D -> V] -> V]
  <2>1. next = [x \in D \X [D -> V] |-> next[x]]
    OBVIOUS
  <2>2. \A x \in D \X [D -> V] : next[x] \in V
    <3> SUFFICES ASSUME NEW i \in D, NEW f \in [D -> V] PROVE next[<<i, f>>] \in V
      OBVIOUS
    <3> HIDE DEF next, D
    <3> QED BY <1>2
  <2> HIDE DEF next, D
  <2> QED BY <2>1, <2>2
<1> HIDE DEF next
<1>4. Recursion(next, D, V)
  <2>1. ASSUME NEW i \in D, NEW f \in [D -> V], NEW g \in [D -> V], \A j \in D : j < i => f[j] = g[j]
        PROVE  next[<<i, f>>] = next[<<i, g>>]
    <3>1. i # 0 => f[i - 1] = g[i - 1]
      <4> HIDE DEF D
      <4> QED BY <1>1, <2>1
    <3> QED BY <1>2, <3>1
  <2>2. D \in SUBSET Nat /\ V # {}
    OBVIOUS
  <2> HIDE DEF D
  <2> QED BY <1>3, <2>1, <2>2 DEF Recursion
<1>5. PICK f : Solves(f, next, D, V)
  BY <1>4, RecursionExists
<1>6. Folded(f, base, step, n, V)
  <2>1. f \in [D -> V] /\ \A i \in D : f[i] = IF i = 0 THEN base ELSE step[<<i, f[i - 1]>>]
    <3>1. f \in [D -> V] /\ \A i \in D : f[i] = next[<<i, f>>]
      BY <1>5 DEF Solves
    <3>2. \A i \in D : next[<<i, f>>] = IF i = 0 THEN base ELSE step[<<i, f[i - 1]>>]
      BY <1>2, <3>1
    <3> QED BY <3>1, <3>2
  <2>2. 0 \in D /\ \A i \in 1..n : i \in D /\ i # 0
    OBVIOUS
  <2> QED BY <2>1, <2>2 DEF Folded
<1> QED BY <1>6

\* What unfolds like that is that: its values are in V.
LEMMA FoldUnfolds ==
    ASSUME NEW n \in Nat, NEW V, NEW base \in V, NEW step \in [(1..n) \X V -> V],
           NEW f, f = [i \in 0..n |-> f[i]], f[0] = base,
           \A i \in 1..n : f[i - 1] \in V => f[i] = step[<<i, f[i - 1]>>]
    PROVE  Folded(f, base, step, n, V)
<1> DEFINE S == {i \in Nat : i <= n => f[i] \in V}
<1>1. 0 \in S
  OBVIOUS
<1>2. ASSUME NEW i \in Nat, i \in S PROVE i + 1 \in S
  <2>1. i + 1 <= n => i + 1 \in 1..n /\ (i + 1) - 1 = i /\ f[i] \in V
    BY <1>2
  <2>2. ASSUME i + 1 <= n PROVE f[i + 1] \in V
    <3>1. f[i + 1] = step[<<i + 1, f[i]>>]
      BY <2>1, <2>2
    <3> QED BY <2>1, <2>2, <3>1
  <2> QED BY <2>2
<1>3. Nat \subseteq S
  <2> HIDE DEF S
  <2> QED BY <1>1, <1>2, NaturalInduction
<1>4. \A i \in 0..n : f[i] \in V
  BY <1>3
<1>5. f \in [0..n -> V]
  BY <1>4
<1>6. \A i \in 1..n : i - 1 \in 0..n
  OBVIOUS
<1> QED BY <1>4, <1>5, <1>6 DEF Folded

\* FlattenSeq puts the sequences of s together, one after the other.
Flattens(f, s, M) ==
    /\ f \in [1..Len(s) -> Seq(M)]
    /\ f[1] = s[1]
    /\ \A i \in 2..Len(s) : f[i] = f[i - 1] \o s[i]

LEMMA FlattenDef ==
    ASSUME NEW M, NEW s \in Seq(Seq(M)), Len(s) # 0
    PROVE  \E f : Flattens(f, s, M) /\ FlattenSeq(s) = f[Len(s)]
<1> DEFINE D == 1..Len(s)
           V == Seq(M)
           step == [p \in D \X [D -> V] |-> IF p[1] = 1 THEN s[1] ELSE p[2][p[1] - 1] \o s[p[1]]]
           body(f) == [i \in 1..Len(s) |-> IF i = 1 THEN s[i] ELSE f[i - 1] \o s[i]]
<1>0. Len(s) \in Nat \ {0} /\ \A i \in D : s[i] \in V /\ (i # 1 => i - 1 \in D)
  BY ElementOfSeq
<1>1. \A i \in D, f \in [D -> V] :
          step[<<i, f>>] = IF i = 1 THEN s[1] ELSE f[i - 1] \o s[i]
  OBVIOUS
<1>2. ASSUME NEW i \in D, NEW f \in [D -> V]
      PROVE  (IF i = 1 THEN s[1] ELSE f[i - 1] \o s[i]) \in V
  <2>1. CASE i = 1
    <3> HIDE DEF D, V
    <3> QED BY <1>0, <2>1
  <2>2. CASE i # 1
    <3>1. f[i - 1] \in V /\ s[i] \in V
      <4> HIDE DEF D, V
      <4> QED BY <1>0, <2>2
    <3>2. f[i - 1] \o s[i] \in V
      BY <3>1, ConcatProperties
    <3> QED BY <2>2, <3>2
  <2> QED BY <2>1, <2>2
<1>3. Recursion(step, D, V)
  <2>1. V # {} /\ D \in SUBSET Nat
    BY <1>0
  <2>2. step \in [D \X [D -> V] -> V]
    <3> HIDE DEF D, V
    <3> QED BY <1>2
  <2>3. ASSUME NEW i \in D, NEW f \in [D -> V], NEW g \in [D -> V],
               \A j \in D : j < i => f[j] = g[j]
        PROVE  step[<<i, f>>] = step[<<i, g>>]
    <3>1. CASE i = 1
      BY <1>1, <3>1
    <3>2. CASE i # 1
      <4>1. i - 1 \in D /\ i - 1 < i
        BY <1>0, <3>2
      <4>2. f[i - 1] = g[i - 1]
        BY <2>3, <4>1
      <4> QED BY <1>1, <3>2, <4>2
    <3> QED BY <3>1, <3>2
  <2> HIDE DEF D, V, step
  <2> QED BY <2>1, <2>2, <2>3 DEF Recursion
<1> HIDE DEF step
<1>4. PICK f : Solves(f, step, D, V)
  BY <1>3, RecursionExists
<1>5. f \in [D -> V] /\ \A i \in D : f[i] = IF i = 1 THEN s[1] ELSE f[i - 1] \o s[i]
  BY <1>1, <1>4 DEF Solves
<1>6. f = body(f)
  BY <1>5
<1> DEFINE flatten == CHOOSE g : g = body(g)
<1>7. flatten = body(flatten)
  <2> HIDE DEF body
  <2> QED BY <1>6
<1>8. FlattenSeq(s) = flatten[Len(s)]
  BY <1>0 DEF FlattenSeq
<1> HIDE DEF flatten
<1>9. flatten[1] = s[1] /\ \A i \in 2..Len(s) : flatten[i] = flatten[i - 1] \o s[i]
  <2>1. \A i \in D : flatten[i] = IF i = 1 THEN s[i] ELSE flatten[i - 1] \o s[i]
    BY <1>7
  <2>2. 1 \in D /\ \A i \in 2..Len(s) : i \in D /\ i # 1
    BY <1>0
  <2> HIDE DEF body, D, V
  <2> QED BY <2>1, <2>2
<1>10. flatten \in [D -> V]
  <2> DEFINE S == {i \in Nat : i \in D => flatten[i] \in V}
  <2>1. 0 \in S
    OBVIOUS
  <2>2. ASSUME NEW i \in Nat, i \in S PROVE i + 1 \in S
    <3>1. CASE i + 1 \notin D
      BY <3>1
    <3>2. CASE i + 1 = 1
      BY <1>0, <1>9, <3>2
    <3>3. CASE i + 1 \in D /\ i + 1 # 1
      <4>1. i + 1 \in 2..Len(s) /\ i \in D /\ (i + 1) - 1 = i
        BY <1>0, <3>3
      <4>2. flatten[i + 1] = flatten[i] \o s[i + 1] /\ flatten[i] \in V /\ s[i + 1] \in V
        BY <1>0, <1>9, <2>2, <3>3, <4>1
      <4>3. flatten[i + 1] \in V
        BY <4>2
      <4> QED BY <4>3
    <3> QED BY <3>1, <3>2, <3>3
  <2>3. Nat \subseteq S
    <3> HIDE DEF S
    <3> QED BY <2>1, <2>2, NaturalInduction
  <2>4. \A i \in D : flatten[i] \in V
    BY <1>0, <2>3
  <2>5. flatten = [i \in D |-> flatten[i]]
    BY <1>7
  <2> QED BY <2>4, <2>5
<1> QED BY <1>8, <1>9, <1>10 DEF Flattens

LEMMA FlattenType ==
    ASSUME NEW M, NEW s \in Seq(Seq(M))
    PROVE  FlattenSeq(s) \in Seq(M)
<1>1. CASE Len(s) = 0
  <2>1. s = <<>>
    BY <1>1
  <2> QED BY <2>1 DEF FlattenSeq
<1>2. CASE Len(s) # 0
  <2>1. PICK f : Flattens(f, s, M) /\ FlattenSeq(s) = f[Len(s)]
    BY <1>2, FlattenDef
  <2>2. Len(s) \in 1..Len(s)
    BY <1>2
  <2> QED BY <2>1, <2>2 DEF Flattens
<1> QED BY <1>1, <1>2

-----------------------------------------------------------------------------
(* Powers of two and division.                                             *)

LEMMA Pow2Def ==
    /\ Pow2 \in [Nat -> Nat]
    /\ Pow2[0] = 1
    /\ \A n \in Nat : Pow2[n + 1] = 2 * Pow2[n]
<1> DEFINE step == [p \in Nat \X [Nat -> Nat] |->
                        IF p[1] = 0 THEN 1 ELSE 2 * p[2][p[1] - 1]]
           body(f) == [n \in Nat |-> IF n = 0 THEN 1 ELSE 2 * f[n - 1]]
<1>1. \A n \in Nat, f \in [Nat -> Nat] :
          step[<<n, f>>] = IF n = 0 THEN 1 ELSE 2 * f[n - 1]
  OBVIOUS
<1>2. step \in [Nat \X [Nat -> Nat] -> Nat]
  <2>1. ASSUME NEW p \in Nat \X [Nat -> Nat]
        PROVE  (IF p[1] = 0 THEN 1 ELSE 2 * p[2][p[1] - 1]) \in Nat
    <3>1. p[1] # 0 => p[1] - 1 \in Nat /\ p[2][p[1] - 1] \in Nat
      OBVIOUS
    <3> QED BY <3>1
  <2> QED BY <2>1
<1> HIDE DEF step
<1>3. ASSUME NEW n \in Nat, NEW f \in [Nat -> Nat], NEW g \in [Nat -> Nat],
             \A j \in Nat : j < n => f[j] = g[j]
      PROVE  step[<<n, f>>] = step[<<n, g>>]
  BY <1>1, <1>3
<1>4. Recursion(step, Nat, Nat)
  <2>1. \A n \in Nat : 0..n \subseteq Nat
    OBVIOUS
  <2>2. 0 \in Nat
    OBVIOUS
  <2> QED BY <1>2, <1>3, <2>1, <2>2 DEF Recursion
<1>5. PICK f : Solves(f, step, Nat, Nat)
  BY <1>4, RecursionExists
<1>6. f = body(f)
  BY <1>1, <1>5 DEF Solves
<1>14. Pow2 = CHOOSE g : g = body(g)
  BY DEF Pow2
<1>7. Pow2 = body(Pow2)
  <2> HIDE DEF body
  <2> QED BY <1>6, <1>14
<1>8. \A n \in Nat : Pow2[n] = IF n = 0 THEN 1 ELSE 2 * Pow2[n - 1]
  BY <1>7
<1> DEFINE S == {n \in Nat : Pow2[n] \in Nat}
<1>9. Nat \subseteq S
  <2>1. 0 \in S
    BY <1>8
  <2>2. ASSUME NEW n \in Nat, n \in S PROVE n + 1 \in S
    <3>1. n + 1 \in Nat /\ n + 1 # 0 /\ (n + 1) - 1 = n
      OBVIOUS
    <3>2. Pow2[n + 1] = 2 * Pow2[n]
      BY <1>8, <3>1
    <3> QED BY <2>2, <3>1, <3>2
  <2> HIDE DEF S
  <2> QED BY <2>1, <2>2, NaturalInduction
<1>10. Pow2 = [n \in Nat |-> Pow2[n]]
  BY <1>7
<1>11. Pow2 \in [Nat -> Nat]
  BY <1>9, <1>10
<1>12. \A n \in Nat : Pow2[n + 1] = 2 * Pow2[n]
  <2> TAKE n \in Nat
  <2>1. n + 1 \in Nat /\ n + 1 # 0 /\ (n + 1) - 1 = n
    OBVIOUS
  <2> QED BY <1>8, <2>1
<1>13. Pow2[0] = 1
  BY <1>8
<1> QED BY <1>11, <1>12, <1>13

LEMMA Pow2Positive == \A n \in Nat : Pow2[n] \in Nat \ {0}
<1> DEFINE S == {n \in Nat : Pow2[n] # 0}
<1>1. 0 \in S
  BY Pow2Def
<1>2. ASSUME NEW n \in Nat, n \in S PROVE n + 1 \in S
  <2>1. Pow2[n] \in Nat /\ Pow2[n] # 0 /\ Pow2[n + 1] = 2 * Pow2[n]
    BY <1>2, Pow2Def
  <2> QED BY <2>1
<1>3. Nat \subseteq S
  <2> HIDE DEF S
  <2> QED BY <1>1, <1>2, NaturalInduction
<1> QED BY <1>3, Pow2Def

LEMMA Pow2Sum == \A a, b \in Nat : Pow2[a + b] = Pow2[a] * Pow2[b]
<1> TAKE a \in Nat
<1> DEFINE S == {b \in Nat : Pow2[a + b] = Pow2[a] * Pow2[b]}
<1>1. 0 \in S
  <2>1. Pow2[0] = 1 /\ a + 0 = a /\ Pow2[a] \in Nat
    BY Pow2Def
  <2> QED BY <2>1
<1>2. ASSUME NEW b \in Nat, b \in S PROVE b + 1 \in S
  <2>1. a + (b + 1) = (a + b) + 1 /\ a + b \in Nat
    OBVIOUS
  <2>2. Pow2[a + (b + 1)] = 2 * Pow2[a + b] /\ Pow2[b + 1] = 2 * Pow2[b]
    BY <2>1, Pow2Def
  <2>3. Pow2[a] \in Nat /\ Pow2[b] \in Nat
    BY Pow2Def
  <2>4. 2 * (Pow2[a] * Pow2[b]) = Pow2[a] * (2 * Pow2[b])
    <3> DEFINE x == Pow2[a] y == Pow2[b]
    <3>1. x \in Nat /\ y \in Nat
      BY <2>3
    <3> HIDE DEF x, y
    <3>2. 2 * (x * y) = x * (2 * y)
      BY <3>1
    <3> QED BY <3>2 DEF x, y
  <2> QED BY <1>2, <2>2, <2>4
<1>3. Nat \subseteq S
  <2> HIDE DEF S
  <2> QED BY <1>1, <1>2, NaturalInduction
<1> QED BY <1>3

LEMMA Pow2Monotone ==
    ASSUME NEW a \in Nat, NEW b \in Nat, a <= b
    PROVE  Pow2[a] <= Pow2[b]
<1>1. b - a \in Nat /\ b = a + (b - a)
  OBVIOUS
<1>2. Pow2[b] = Pow2[a] * Pow2[b - a]
  BY <1>1, Pow2Sum
<1> DEFINE x == Pow2[a] y == Pow2[b - a]
<1>3. x \in Nat /\ y \in Nat \ {0}
  BY <1>1, Pow2Positive
<1> HIDE DEF x, y
<1>4. x <= x * y
  BY <1>3
<1> QED BY <1>2, <1>4 DEF x, y

LEMMA DivMod ==
    ASSUME NEW v \in Nat, NEW n \in Nat \ {0}
    PROVE  v \div n \in Nat /\ v % n \in 0..n-1 /\ v = n * (v \div n) + (v % n)
OBVIOUS

LEMMA DivModUnique ==
    ASSUME NEW n \in Nat \ {0}, NEW q \in Nat, NEW r \in 0..n-1
    PROVE  (n * q + r) \div n = q /\ (n * q + r) % n = r
<1> DEFINE v == n * q + r
<1>1. v \in Nat
  OBVIOUS
<1>2. v \div n \in Nat /\ v % n \in 0..n-1 /\ v = n * (v \div n) + (v % n)
  <2> HIDE DEF v
  <2> QED BY <1>1, DivMod
<1> QED BY <1>2

LEMMA ModSmall ==
    ASSUME NEW n \in Nat \ {0}, NEW v \in 0..n-1
    PROVE  v % n = v /\ v \div n = 0
<1>1. 0 \in Nat /\ n * 0 + v = v
  OBVIOUS
<1> QED BY <1>1, DivModUnique

\* Division by a product, one factor after the other.
LEMMA ModProduct ==
    ASSUME NEW v \in Nat, NEW p \in Nat \ {0}, NEW c \in Nat \ {0}
    PROVE  /\ p * c \in Nat \ {0}
           /\ v % (p * c) = (v % p) + ((v \div p) % c) * p
           /\ v \div (p * c) = (v \div p) \div c
<1> DEFINE q == v \div p
           r == v % p
           s == q \div c
           u == q % c
<1>1. q \in Nat /\ r \in 0..p-1 /\ v = p * q + r
  BY DivMod
<1> HIDE DEF q, r
<1>2. s \in Nat /\ u \in 0..c-1 /\ q = c * s + u
  BY <1>1, DivMod
<1> HIDE DEF s, u
<1> DEFINE n == p * c
           w == r + u * p
<1>3. n \in Nat \ {0}
  OBVIOUS
<1>4. w \in 0..n-1
  <2>1. u * p \in Nat /\ u * p <= (c - 1) * p
    BY <1>2
  <2>2. (c - 1) * p = p * c - p
    OBVIOUS
  <2> QED BY <1>1, <2>1, <2>2
<1>5. v = n * s + w
  <2>1. p * (c * s + u) = (p * c) * s + u * p
    BY <1>2
  <2> QED BY <1>1, <1>2, <2>1
<1> HIDE DEF n, w
<1>6. v \div n = s /\ v % n = w
  BY <1>2, <1>3, <1>4, <1>5, DivModUnique
<1> QED BY <1>3, <1>6 DEF n, w, s, u, q, r

LEMMA DivProduct ==
    ASSUME NEW v \in Nat, NEW p \in Nat \ {0}, NEW c \in Nat \ {0}
    PROVE  v \div (p * c) = (v \div p) \div c
<1> DEFINE Split(a, b, d) == /\ b * d \in Nat \ {0}
                             /\ a % (b * d) = (a % b) + ((a \div b) % d) * b
                             /\ a \div (b * d) = (a \div b) \div d
<1>1. \A a \in Nat : \A b \in Nat \ {0} : \A d \in Nat \ {0} : Split(a, b, d)
  BY ModProduct, Zenon
<1>2. Split(v, p, c)
  <2> HIDE DEF Split
  <2> QED BY <1>1, Zenon
<1> QED BY <1>2, Zenon

-----------------------------------------------------------------------------
(* Bits.                                                                   *)

LEMMA BitOfSum ==
    ASSUME NEW x \in Nat, NEW y \in Nat, NEW k \in Nat, NEW j \in 0..k-1
    PROVE  Bit(x + y * Pow2[k], j) = Bit(x, j)
<1> DEFINE p == Pow2[j]
           h == Pow2[k - j - 1]
           q == x \div p
           r == x % p
           z == y * h
<1>1. p \in Nat \ {0} /\ h \in Nat \ {0}
  BY Pow2Positive
<1>2. Pow2[k] = 2 * p * h
  <2>1. j + 1 \in Nat /\ k - j - 1 \in Nat /\ (j + 1) + (k - j - 1) = k /\ j \in Nat
    OBVIOUS
  <2>2. Pow2[k] = Pow2[j + 1] * h
    BY <2>1, Pow2Sum
  <2>3. Pow2[j + 1] = 2 * p
    BY <2>1, Pow2Def
  <2> QED BY <2>2, <2>3
<1>3. q \in Nat /\ r \in 0..p-1 /\ x = p * q + r
  <2> HIDE DEF p
  <2> QED BY <1>1, DivMod
<1> HIDE DEF p, h, q, r
<1>4. z \in Nat
  BY <1>1
<1>5. x + y * (2 * p * h) = p * (q + 2 * z) + r
  <2>1. y * (2 * p * h) = p * (2 * z)
    BY <1>1
  <2>2. p * (q + 2 * z) = p * q + p * (2 * z)
    BY <1>1, <1>3, <1>4
  <2> DEFINE a == p * q b == p * (2 * z)
  <2>3. a \in Nat /\ b \in Nat
    BY <1>1, <1>3, <1>4
  <2> HIDE DEF a, b
  <2>4. (a + r) + b = (a + b) + r
    BY <1>3, <2>3
  <2> QED BY <1>3, <2>1, <2>2, <2>4 DEF a, b
<1> HIDE DEF z
<1>6. (p * (q + 2 * z) + r) \div p = q + 2 * z
  <2>1. q + 2 * z \in Nat
    BY <1>3, <1>4
  <2> QED BY <1>1, <1>3, <2>1, DivModUnique
<1>7. (q + 2 * z) % 2 = q % 2
  BY <1>3, <1>4
<1> QED BY <1>2, <1>5, <1>6, <1>7 DEF Bit, p, q

LEMMA BitOfMod ==
    ASSUME NEW x \in Nat, NEW k \in Nat, NEW j \in 0..k-1
    PROVE  Bit(x % Pow2[k], j) = Bit(x, j)
<1> DEFINE n == Pow2[k]
           q == x \div n
           r == x % n
<1>1. n \in Nat \ {0}
  BY Pow2Positive
<1>2. q \in Nat /\ r \in Nat /\ x = n * q + r
  <2> HIDE DEF n
  <2>1. q \in Nat /\ r \in 0..n-1 /\ x = n * q + r
    BY <1>1, DivMod
  <2> QED BY <1>1, <2>1
<1>3. Bit(r + q * n, j) = Bit(r, j)
  <2> HIDE DEF q, r
  <2> QED BY <1>2, BitOfSum
<1>4. r + q * n = x
  <2> HIDE DEF n, q, r
  <2>1. n * q = q * n /\ n * q \in Nat
    BY <1>1, <1>2
  <2> QED BY <1>2, <2>1
<1> QED BY <1>3, <1>4

LEMMA BitShifted ==
    ASSUME NEW k \in Nat, NEW x \in 0..Pow2[k]-1, NEW y \in Nat, NEW j \in Nat, k <= j
    PROVE  Bit(x + y * Pow2[k], j) = Bit(y, j - k)
<1> DEFINE p == Pow2[k]
           h == Pow2[j - k]
           v == x + y * p
<1>1. p \in Nat \ {0} /\ h \in Nat \ {0} /\ x \in 0..p-1 /\ j - k \in Nat
  BY Pow2Positive
<1>2. Pow2[j] = p * h
  <2>1. j - k \in Nat /\ k + (j - k) = j
    OBVIOUS
  <2> QED BY <2>1, Pow2Sum
<1> HIDE DEF p, h
<1>3. v = p * y + x /\ v \in Nat
  <2>1. p * y = y * p /\ p * y \in Nat
    BY <1>1
  <2> QED BY <1>1, <2>1
<1> HIDE DEF v
<1>4. v \div p = y
  BY <1>1, <1>3, DivModUnique
<1>5. v \div (p * h) = y \div h
  <2>1. v \in Nat /\ p \in Nat \ {0} /\ h \in Nat \ {0}
    BY <1>1, <1>3
  <2>2. v \div (p * h) = (v \div p) \div h
    BY <2>1, DivProduct, Zenon
  <2> QED BY <1>4, <2>2
<1> QED BY <1>2, <1>5 DEF Bit, v, p, h

LEMMA BitAbove ==
    ASSUME NEW k \in Nat, NEW x \in 0..Pow2[k]-1, NEW j \in Nat, k <= j
    PROVE  Bit(x, j) = 0
<1>1. Pow2[k] \in Nat \ {0} /\ Pow2[j] \in Nat \ {0} /\ Pow2[k] <= Pow2[j]
  BY Pow2Positive, Pow2Monotone
<1>2. x \div Pow2[j] = 0
  BY <1>1, ModSmall
<1> QED BY <1>2 DEF Bit
=============================================================================
