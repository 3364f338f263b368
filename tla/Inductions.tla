------------------------------ MODULE Inductions ------------------------------
(***************************************************************************)
(* Induction on an interval, with a set for what is proved, and recursive  *)
(* functions on one: the library states both for operators, which the      *)
(* provers cannot instantiate, but has the least element of a set of       *)
(* numbers, which they can.                                                *)
(***************************************************************************)
EXTENDS Filters, Integers, TLAPS, WellFoundedInduction

\* A set of naturals has a least element.
LEMMA LeastElement ==
    ASSUME NEW T, T \subseteq Nat, T # {}
    PROVE  \E n \in T : \A m \in T : n <= m
<1>1. PICK n \in T : \A m \in T : <<m, n>> \notin OpToRel(<, Nat)
  BY NatLessThanWellFounded, WFMin, Zenon
<1>2. \A m \in T : ~(m < n)
  BY <1>1 DEF OpToRel
<1> QED
  BY <1>2

\* What holds of 0, and of a number if it holds of the one before, holds up to n.
LEMMA UpTo ==
    ASSUME NEW n \in Nat, NEW S, 0 \in S, \A i \in 1..n : i - 1 \in S => i \in S
    PROVE  \A i \in 0..n : i \in S
<1> SUFFICES ASSUME NEW k \in 0..n, k \notin S PROVE FALSE
  OBVIOUS
<1> DEFINE T == {i \in 0..n : i \notin S}
<1>1. PICK m \in T : \A i \in T : m <= i
  <2>1. T \subseteq Nat /\ T # {}
    OBVIOUS
  <2> HIDE DEF T
  <2> QED
    BY <2>1, LeastElement
<1>2. m \in 1..n
  BY <1>1
<1>3. m - 1 \in S
  BY <1>1, <1>2
<1> QED
  BY <1>1, <1>2, <1>3

\* A function on 0..n whose value at i is F at i and its value at i - 1.
Recurs(g, n, a, F) == g[0] = a /\ \A i \in 1..n : g[i] = F[<<i, g[i - 1]>>]

\* There is a function that recurs, for every start and every step.
LEMMA Recursion ==
    ASSUME NEW n \in Nat, NEW V, NEW a \in V, NEW F \in [(1..n) \X V -> V]
    PROVE  \E g \in [0..n -> V] : Recurs(g, n, a, F)
<1> DEFINE Is(g, k) == /\ g \in [0..k -> V] /\ g[0] = a
                       /\ \A i \in 1..k : g[i] = F[<<i, g[i - 1]>>]
           S == {k \in 0..n : \E g : Is(g, k)}
<1>1. 0 \in S
  <2>1. Is([i \in 0..0 |-> a], 0)
    OBVIOUS
  <2>2. \E g : Is(g, 0)
    BY <2>1
  <2> HIDE DEF Is
  <2> QED
    BY <2>2
<1>2. ASSUME NEW i \in 1..n, i - 1 \in S PROVE i \in S
  <2>1. PICK g : Is(g, i - 1)
    BY <1>2
  <2> DEFINE h == [j \in 0..i |-> IF j < i THEN g[j] ELSE F[<<i, g[i - 1]>>]]
  <2>2. g[i - 1] \in V
    BY <2>1
  <2>3. F[<<i, g[i - 1]>>] \in V
    BY <2>2
  <2>4. h \in [0..i -> V] /\ h[0] = a
    BY <2>1, <2>3
  <2>5. ASSUME NEW j \in 1..i PROVE h[j] = F[<<j, h[j - 1]>>]
    <3>1. CASE j < i
      <4>1. h[j] = g[j] /\ h[j - 1] = g[j - 1]
        BY <3>1
      <4> HIDE DEF h
      <4> QED
        BY <2>1, <3>1, <4>1
    <3>2. CASE j = i
      <4>1. h[i] = F[<<i, g[i - 1]>>] /\ h[i - 1] = g[i - 1]
        OBVIOUS
      <4> HIDE DEF h
      <4> QED
        BY <3>2, <4>1
    <3> QED
      BY <3>1, <3>2
  <2>6. Is(h, i)
    BY <2>4, <2>5
  <2>7. \E f : Is(f, i)
    BY <2>6
  <2> HIDE DEF Is
  <2> QED
    BY <2>7
<1> HIDE DEF S
<1>3. \A i \in 0..n : i \in S
  BY <1>1, <1>2, UpTo
<1>4. n \in S
  BY <1>3
<1> QED
  BY <1>4 DEF S, Recurs
-----------------------------------------------------------------------------
\* Sequences.

\* A sequence is its length and its elements.
LEMMA SameSequence ==
    ASSUME NEW T, NEW s \in Seq(T), NEW t \in Seq(T), Len(s) = Len(t),
           \A i \in 1..Len(s) : s[i] = t[i]
    PROVE  s = t
<1>1. s \in [1..Len(s) -> T] /\ t \in [1..Len(s) -> T]
  OBVIOUS
<1> QED
  BY <1>1

\* What is left of a sequence when its first elements are dropped.
LEMMA DropFirst ==
    ASSUME NEW T, NEW s \in Seq(T), NEW k \in 0..Len(s)
    PROVE  /\ SubSeq(s, k + 1, Len(s)) \in Seq(T)
           /\ Len(SubSeq(s, k + 1, Len(s))) = Len(s) - k
           /\ \A i \in 1..(Len(s) - k) : SubSeq(s, k + 1, Len(s))[i] = s[k + i]
<1>1. Len(s) \in Nat
  OBVIOUS
<1>2. CASE k = Len(s)
  BY <1>1, <1>2
<1>3. CASE k < Len(s)
  BY <1>1, <1>3
<1> QED
  BY <1>1, <1>2, <1>3

\* To drop some, and then more.
LEMMA DropMore ==
    ASSUME NEW T, NEW s \in Seq(T), NEW k \in 0..Len(s), NEW d \in 0..(Len(s) - k),
           NEW t, t = SubSeq(s, k + 1, Len(s))
    PROVE  SubSeq(t, d + 1, Len(t)) = SubSeq(s, k + d + 1, Len(s))
<1>1. Len(s) \in Nat /\ k + d \in 0..Len(s)
  OBVIOUS
<1>2. t \in Seq(T) /\ Len(t) = Len(s) - k /\ \A i \in 1..(Len(s) - k) : t[i] = s[k + i]
  BY DropFirst
<1> DEFINE u == SubSeq(t, d + 1, Len(t))
           v == SubSeq(s, k + d + 1, Len(s))
<1>3. u \in Seq(T) /\ Len(u) = Len(t) - d /\ \A i \in 1..(Len(t) - d) : u[i] = t[d + i]
  <2>1. d \in 0..Len(t)
    BY <1>1, <1>2
  <2> QED
    BY <1>2, <2>1, DropFirst
<1>4. v \in Seq(T) /\ Len(v) = Len(s) - (k + d)
      /\ \A i \in 1..(Len(s) - (k + d)) : v[i] = s[(k + d) + i]
  BY <1>1, DropFirst
<1> HIDE DEF u, v
<1>5. Len(u) = Len(v)
  BY <1>1, <1>2, <1>3, <1>4
<1>6. ASSUME NEW i \in 1..Len(u) PROVE u[i] = v[i]
  <2>1. d + i \in 1..(Len(s) - k) /\ k + (d + i) = (k + d) + i /\ i \in 1..(Len(t) - d)
    BY <1>1, <1>2, <1>3
  <2>2. u[i] = s[(k + d) + i]
    BY <1>2, <1>3, <2>1
  <2> QED
    BY <1>1, <1>4, <1>5, <2>2
<1>7. u = v
  BY <1>3, <1>4, <1>5, <1>6, SameSequence
<1> QED
  BY <1>7 DEF u, v

\* To drop some, and add one at the end.
LEMMA DropAppend ==
    ASSUME NEW T, NEW s \in Seq(T), NEW k \in 0..Len(s), NEW x \in T
    PROVE  Append(SubSeq(s, k + 1, Len(s)), x) = SubSeq(Append(s, x), k + 1, Len(s) + 1)
<1> DEFINE u == SubSeq(s, k + 1, Len(s))
           a == Append(s, x)
           v == SubSeq(a, k + 1, Len(a))
           w == Append(u, x)
<1>1. Len(s) \in Nat /\ a \in Seq(T) /\ Len(a) = Len(s) + 1 /\ a[Len(s) + 1] = x
      /\ \A i \in 1..Len(s) : a[i] = s[i]
  OBVIOUS
<1>2. u \in Seq(T) /\ Len(u) = Len(s) - k /\ \A i \in 1..(Len(s) - k) : u[i] = s[k + i]
  BY DropFirst
<1> HIDE DEF u, a
<1>3. v \in Seq(T) /\ Len(v) = Len(a) - k /\ \A i \in 1..(Len(a) - k) : v[i] = a[k + i]
  <2>1. k \in 0..Len(a)
    BY <1>1
  <2> QED
    BY <1>1, <2>1, DropFirst
<1>4. w \in Seq(T) /\ Len(w) = Len(u) + 1 /\ w[Len(u) + 1] = x
      /\ \A i \in 1..Len(u) : w[i] = u[i]
  BY <1>2
<1> HIDE DEF v, w
<1>5. Len(w) = Len(v)
  BY <1>1, <1>2, <1>3, <1>4
<1>6. ASSUME NEW i \in 1..Len(w) PROVE w[i] = v[i]
  <2>1. v[i] = a[k + i]
    BY <1>1, <1>3, <1>5
  <2>2. CASE i = Len(u) + 1
    BY <1>1, <1>2, <1>4, <2>1, <2>2
  <2>3. CASE i # Len(u) + 1
    <3>1. i \in 1..(Len(s) - k) /\ i \in 1..Len(u) /\ k + i \in 1..Len(s)
      <4>1. Len(u) = Len(s) - k /\ Len(w) = Len(u) + 1 /\ Len(s) \in Nat
        BY <1>1, <1>2, <1>4
      <4>2. i \in Nat /\ i >= 1 /\ i <= Len(w)
        BY <4>1
      <4> QED
        BY <2>3, <4>1, <4>2
    <3> QED
      BY <1>1, <1>2, <1>4, <2>1, <3>1
  <2> QED
    BY <2>2, <2>3
<1>7. w = v
  BY <1>3, <1>4, <1>5, <1>6, SameSequence
<1> QED
  BY <1>1, <1>7 DEF u, a, v, w

-----------------------------------------------------------------------------
\* SelectIn.

Filters(g, s, S) ==
    /\ g[0] = <<>>
    /\ \A i \in 1..Len(s) :
           g[i] = IF s[i] \in S THEN Append(g[i - 1], s[i]) ELSE g[i - 1]

\* What SelectIn makes of each beginning of a sequence.
LEMMA SelectInDef ==
    ASSUME NEW T, NEW s \in Seq(T), NEW S
    PROVE  \E g \in [0..Len(s) -> Seq(T)] : Filters(g, s, S) /\ SelectIn(s, S) = g[Len(s)]
<1> DEFINE n == Len(s)
           V == Seq(T)
           Next(i, v) == IF s[i] \in S THEN Append(v, s[i]) ELSE v
           F == [p \in (1..n) \X V |-> Next(p[1], p[2])]
           Is(g) == g = [i \in 0..n |-> IF i = 0 THEN <<>> ELSE Next(i, g[i - 1])]
<1>1. n \in Nat /\ <<>> \in V
  OBVIOUS
<1>2. ASSUME NEW i \in 1..n, NEW v \in V PROVE Next(i, v) \in V
  <2>1. s[i] \in T
    OBVIOUS
  <2> QED
    BY <2>1
<1> HIDE DEF n, V
<1>3. F \in [(1..n) \X V -> V]
  <2> HIDE DEF Next
  <2>1. ASSUME NEW p \in (1..n) \X V PROVE Next(p[1], p[2]) \in V
    BY <1>2
  <2> QED
    BY <2>1
<1>4. PICK g \in [0..n -> V] : g[0] = <<>> /\ \A i \in 1..n : g[i] = F[<<i, g[i - 1]>>]
  <2> HIDE DEF F
  <2>1. \E g \in [0..n -> V] : Recurs(g, n, <<>>, F)
    BY <1>1, <1>3, Recursion
  <2> QED
    BY <2>1 DEF Recurs
<1>5. ASSUME NEW i \in 1..n PROVE g[i] = Next(i, g[i - 1])
  <2> HIDE DEF Next
  <2>1. g[i - 1] \in V
    BY <1>1, <1>4
  <2>2. F[<<i, g[i - 1]>>] = Next(i, g[i - 1])
    BY <2>1
  <2> QED
    BY <1>4, <2>2
<1>6. Is(g)
  <2> HIDE DEF Next
  <2>1. ASSUME NEW i \in 0..n
        PROVE  g[i] = IF i = 0 THEN <<>> ELSE Next(i, g[i - 1])
    <3>1. CASE i = 0
      BY <1>4, <3>1
    <3>2. CASE i # 0
      <4>1. i \in 1..n
        BY <1>1, <3>2
      <4> QED
        BY <1>5, <3>2, <4>1
    <3> QED
      BY <3>1, <3>2
  <2> QED
    BY <1>4, <2>1
<1>7. Is(CHOOSE f : Is(f))
  <2>1. \E f : Is(f)
    BY <1>6
  <2> HIDE DEF Is
  <2> QED
    BY <2>1
<1> DEFINE f == CHOOSE f : Is(f)
<1>8. SelectIn(s, S) = f[n]
  BY DEF SelectIn, n
<1> HIDE DEF f
<1>9. \A i \in 0..n : f[i] = IF i = 0 THEN <<>> ELSE Next(i, f[i - 1])
  BY <1>7 DEF f
<1> DEFINE E == {i \in 0..n : f[i] = g[i]}
<1>10. 0 \in E
  BY <1>1, <1>4, <1>9
<1>11. ASSUME NEW i \in 1..n, i - 1 \in E PROVE i \in E
  <2> HIDE DEF Next
  <2>1. f[i] = Next(i, f[i - 1])
    BY <1>1, <1>9
  <2>2. f[i - 1] = g[i - 1]
    BY <1>11
  <2>3. f[i] = g[i]
    BY <1>5, <2>1, <2>2
  <2> QED
    BY <1>1, <2>3
<1>12. n \in E
  <2> HIDE DEF E
  <2>1. \A i \in 0..n : i \in E
    BY <1>1, <1>10, <1>11, UpTo
  <2> QED
    BY <1>1, <2>1
<1> QED
  BY <1>4, <1>5, <1>8, <1>12 DEF Filters, n, V

\* The elements of s that are in S are those of SelectIn(s, S).
LEMMA SelectInElements ==
    ASSUME NEW T, NEW s \in Seq(T), NEW S
    PROVE  /\ SelectIn(s, S) \in Seq(T)
           /\ \A x : (\E i \in 1..Len(SelectIn(s, S)) : SelectIn(s, S)[i] = x)
                         <=> x \in S /\ \E i \in 1..Len(s) : s[i] = x
<1> DEFINE n == Len(s)
           Elements(q) == {q[i] : i \in 1..Len(q)}
           Chosen(k) == {x \in S : \E i \in 1..k : s[i] = x}
<1>1. PICK g \in [0..n -> Seq(T)] : Filters(g, s, S) /\ SelectIn(s, S) = g[n]
  BY SelectInDef
<1>2. n \in Nat /\ \A i \in 1..n : s[i] \in T
  OBVIOUS
<1> HIDE DEF n
<1> DEFINE E == {i \in 0..n : Elements(g[i]) = Chosen(i)}
<1>3. 0 \in E
  <2>1. g[0] = <<>>
    BY <1>1 DEF Filters
  <2> QED
    BY <1>2, <2>1
<1>4. ASSUME NEW i \in 1..n, i - 1 \in E PROVE i \in E
  <2>1. i - 1 \in 0..n /\ Elements(g[i - 1]) = Chosen(i - 1)
    BY <1>4
  <2>2. g[i] = IF s[i] \in S THEN Append(g[i - 1], s[i]) ELSE g[i - 1]
    BY <1>1 DEF Filters, n
  <2>3. Chosen(i) = IF s[i] \in S THEN Chosen(i - 1) \cup {s[i]} ELSE Chosen(i - 1)
    BY <1>2
  <2>4. ASSUME NEW q \in Seq(T), NEW y \in T
        PROVE  Elements(Append(q, y)) = Elements(q) \cup {y}
    <3>1. Len(Append(q, y)) = Len(q) + 1 /\ Append(q, y)[Len(q) + 1] = y
      OBVIOUS
    <3>2. \A j \in 1..Len(q) : Append(q, y)[j] = q[j]
      OBVIOUS
    <3>3. Len(q) \in Nat
      OBVIOUS
    <3>4. 1..(Len(q) + 1) = (1..Len(q)) \cup {Len(q) + 1}
      BY <3>3
    <3> QED
      BY <3>1, <3>2, <3>4
  <2> HIDE DEF Elements, Chosen
  <2>5. g[i - 1] \in Seq(T) /\ s[i] \in T
    BY <1>1, <1>2, <2>1
  <2>6. Elements(g[i]) = Chosen(i)
    BY <2>1, <2>2, <2>3, <2>4, <2>5
  <2> QED
    BY <2>6
<1>5. n \in E
  <2> HIDE DEF E
  <2>1. \A i \in 0..n : i \in E
    BY <1>2, <1>3, <1>4, UpTo
  <2> QED
    BY <1>2, <2>1
<1>6. Elements(SelectIn(s, S)) = Chosen(n)
  BY <1>1, <1>5
<1>7. SelectIn(s, S) \in Seq(T)
  BY <1>1, <1>2
<1> QED
  BY <1>6, <1>7 DEF n

\* Where the elements in S are the last ones, SelectIn(s, S) is that end of s.
LEMMA SelectInSuffix ==
    ASSUME NEW T, NEW s \in Seq(T), NEW S, NEW k \in 0..Len(s),
           \A i \in 1..k : s[i] \notin S, \A i \in (k + 1)..Len(s) : s[i] \in S
    PROVE  SelectIn(s, S) = SubSeq(s, k + 1, Len(s))
<1> DEFINE n == Len(s)
<1>1. PICK g \in [0..n -> Seq(T)] : Filters(g, s, S) /\ SelectIn(s, S) = g[n]
  BY SelectInDef
<1>2. n \in Nat /\ k \in 0..n
  OBVIOUS
<1> DEFINE E == {i \in 0..n : g[i] = SubSeq(s, k + 1, i)}
<1>3. 0 \in E
  <2>1. g[0] = <<>>
    BY <1>1 DEF Filters
  <2>2. SubSeq(s, k + 1, 0) = <<>>
    BY <1>2
  <2> QED
    BY <1>2, <2>1, <2>2
<1>4. ASSUME NEW i \in 1..n, i - 1 \in E PROVE i \in E
  <2>1. g[i - 1] = SubSeq(s, k + 1, i - 1)
    BY <1>4
  <2>2. g[i] = IF s[i] \in S THEN Append(g[i - 1], s[i]) ELSE g[i - 1]
    BY <1>1 DEF Filters
  <2>5. SUFFICES g[i] = SubSeq(s, k + 1, i)
    BY <1>2
  <2> HIDE DEF E
  <2>3. CASE i <= k
    <3>1. g[i] = g[i - 1]
      BY <1>2, <2>2, <2>3
    <3>2. SubSeq(s, k + 1, i - 1) = <<>> /\ SubSeq(s, k + 1, i) = <<>>
      BY <1>2, <2>3
    <3> QED
      BY <2>1, <3>1, <3>2
  <2>4. CASE i > k
    <3>1. g[i] = Append(SubSeq(s, k + 1, i - 1), s[i])
      BY <1>2, <2>1, <2>2, <2>4
    <3>2. Append(SubSeq(s, k + 1, i - 1), s[i]) = SubSeq(s, k + 1, i)
      BY <1>2, <2>4
    <3> QED
      BY <3>1, <3>2
  <2> QED
    BY <1>2, <2>3, <2>4
<1>5. n \in E
  <2> HIDE DEF E, n
  <2>1. \A i \in 0..n : i \in E
    BY <1>2, <1>3, <1>4, UpTo
  <2> QED
    BY <1>2, <2>1
<1> QED
  BY <1>1, <1>5

\* An element that is selected is found in what was selected.
LEMMA SelectInHas ==
    ASSUME NEW T, NEW s \in Seq(T), NEW S, NEW i \in 1..Len(s), s[i] \in S
    PROVE  \E j \in 1..Len(SelectIn(s, S)) : SelectIn(s, S)[j] = s[i]
<1> DEFINE q == SelectIn(s, S)
<1>1. \A x : (\E j \in 1..Len(q) : q[j] = x) <=> x \in S /\ \E j \in 1..Len(s) : s[j] = x
  BY SelectInElements
<1> HIDE DEF q
<1>2. (\E j \in 1..Len(q) : q[j] = s[i]) <=> s[i] \in S /\ \E j \in 1..Len(s) : s[j] = s[i]
  BY <1>1
<1> QED
  BY <1>2 DEF q

\* x is among the elements selected from s.
Selects(s, S, x) == \E j \in 1..Len(SelectIn(s, S)) : SelectIn(s, S)[j] = x

\* A place of a sequence of places is selected when it is in the set.
LEMMA PlaceIsTaken ==
    ASSUME NEW T, NEW s \in Seq(T), NEW S, NEW i \in S, i \in 1..Len(s), s[i] = i
    PROVE  Selects(s, S, i)
<1> DEFINE q == SelectIn(s, S)
<1>1. \A x : (\E j \in 1..Len(q) : q[j] = x) <=> x \in S /\ \E j \in 1..Len(s) : s[j] = x
  BY SelectInElements
<1> HIDE DEF q
<1>2. \E j \in 1..Len(q) : q[j] = i
  BY <1>1
<1> QED
  BY <1>2 DEF q, Selects

\* What is selected is in the set and in the sequence.
LEMMA SelectInFrom ==
    ASSUME NEW T, NEW s \in Seq(T), NEW S, NEW i \in 1..Len(SelectIn(s, S))
    PROVE  SelectIn(s, S)[i] \in S /\ \E j \in 1..Len(s) : s[j] = SelectIn(s, S)[i]
<1> DEFINE q == SelectIn(s, S)
<1>1. \A x : (\E j \in 1..Len(q) : q[j] = x) <=> x \in S /\ \E j \in 1..Len(s) : s[j] = x
  BY SelectInElements
<1> HIDE DEF q
<1>2. \E j \in 1..Len(q) : q[j] = q[i]
  BY DEF q
<1>3. q[i] \in S /\ \E j \in 1..Len(s) : s[j] = q[i]
  BY <1>1, <1>2
<1> QED
  BY <1>3 DEF q

\* Of a sequence that repeats nothing SelectIn makes one that repeats nothing.
LEMMA SelectInDistinct ==
    ASSUME NEW T, NEW s \in Seq(T), NEW S, \A i, j \in 1..Len(s) : s[i] = s[j] => i = j
    PROVE  \A i, j \in 1..Len(SelectIn(s, S)) : SelectIn(s, S)[i] = SelectIn(s, S)[j] => i = j
<1> DEFINE n == Len(s)
           Apart(q) == \A i, j \in 1..Len(q) : q[i] = q[j] => i = j
           Within(q, k) == \A i \in 1..Len(q) : \E m \in 1..k : q[i] = s[m]
<1>1. PICK g \in [0..n -> Seq(T)] : Filters(g, s, S) /\ SelectIn(s, S) = g[n]
  BY SelectInDef
<1>2. n \in Nat /\ \A i \in 1..n : s[i] \in T
  OBVIOUS
<1>3. \A i, j \in 1..n : s[i] = s[j] => i = j
  OBVIOUS
<1> HIDE DEF n
<1> DEFINE E == {k \in 0..n : Apart(g[k]) /\ Within(g[k], k)}
<1>4. 0 \in E
  <2>1. g[0] = <<>>
    BY <1>1 DEF Filters
  <2> QED
    BY <1>2, <2>1
<1>5. ASSUME NEW k \in 1..n, k - 1 \in E PROVE k \in E
  <2> DEFINE q == g[k - 1]
             y == s[k]
  <2>1. Apart(q) /\ Within(q, k - 1)
    BY <1>5
  <2>2. g[k] = IF y \in S THEN Append(q, y) ELSE q
    BY <1>1 DEF Filters, n
  <2>3. q \in Seq(T) /\ y \in T
    BY <1>1, <1>2
  <2> HIDE DEF q
  <2>4. CASE y \notin S
    <3>1. Within(q, k)
      BY <1>2, <2>1
    <3>2. g[k] = q /\ k \in 0..n
      BY <1>2, <2>2, <2>4
    <3> HIDE DEF Apart, Within
    <3> QED
      BY <2>1, <3>1, <3>2
  <2>5. CASE y \in S
    <3> DEFINE a == Append(q, y)
    <3>1. /\ Len(a) = Len(q) + 1 /\ Len(q) \in Nat /\ a[Len(q) + 1] = y
          /\ \A i \in 1..Len(q) : a[i] = q[i]
      BY <2>3
    <3>2. ASSUME NEW i \in 1..Len(q) PROVE q[i] # y
      <4>1. PICK m \in 1..(k - 1) : q[i] = s[m]
        BY <2>1
      <4>2. m \in 1..n /\ m # k /\ k \in 1..n
        BY <1>2
      <4>3. s[m] # s[k]
        BY <1>3, <4>2
      <4> QED
        BY <4>1, <4>3
    <3> HIDE DEF a
    <3>3. \A i \in 1..Len(a) : i \in 1..Len(q) \/ i = Len(q) + 1
      BY <3>1
    <3>4. Apart(a)
      BY <2>1, <3>1, <3>2, <3>3
    <3>5. Within(a, k)
      <4> SUFFICES ASSUME NEW i \in 1..Len(a) PROVE \E m \in 1..k : a[i] = s[m]
        OBVIOUS
      <4>1. CASE i \in 1..Len(q)
        <5>1. PICK m \in 1..(k - 1) : q[i] = s[m]
          BY <2>1, <4>1
        <5> QED
          BY <1>2, <3>1, <4>1, <5>1
      <4>2. CASE i = Len(q) + 1
        BY <1>2, <3>1, <4>2
      <4> QED
        BY <3>3, <4>1, <4>2
    <3>6. g[k] = a
      BY <2>2, <2>5 DEF a
    <3> HIDE DEF Apart, Within
    <3> QED
      BY <1>2, <3>4, <3>5, <3>6
  <2> QED
    BY <2>4, <2>5
<1>6. n \in E
  <2> HIDE DEF E
  <2>1. \A i \in 0..n : i \in E
    BY <1>2, <1>4, <1>5, UpTo
  <2> QED
    BY <1>2, <2>1
<1> QED
  BY <1>1, <1>6

\* What SelectIn makes of one more element.
LEMMA SelectInAppend ==
    ASSUME NEW T, NEW s \in Seq(T), NEW x \in T, NEW S
    PROVE  SelectIn(Append(s, x), S) =
               IF x \in S THEN Append(SelectIn(s, S), x) ELSE SelectIn(s, S)
<1> DEFINE n == Len(s)
           a == Append(s, x)
<1>1. /\ n \in Nat /\ a \in Seq(T) /\ Len(a) = n + 1 /\ a[n + 1] = x
      /\ \A i \in 1..n : a[i] = s[i]
  OBVIOUS
<1>2. PICK g \in [0..n -> Seq(T)] : Filters(g, s, S) /\ SelectIn(s, S) = g[n]
  BY SelectInDef
<1> HIDE DEF a
<1>3. PICK h \in [0..Len(a) -> Seq(T)] : Filters(h, a, S) /\ SelectIn(a, S) = h[Len(a)]
  BY <1>1, SelectInDef
<1> HIDE DEF n
<1> DEFINE E == {i \in 0..n : g[i] = h[i]}
<1>4. 0 \in E
  BY <1>1, <1>2, <1>3 DEF Filters
<1>5. ASSUME NEW i \in 1..n, i - 1 \in E PROVE i \in E
  <2>1. g[i] = IF s[i] \in S THEN Append(g[i - 1], s[i]) ELSE g[i - 1]
    BY <1>2 DEF Filters, n
  <2>2. h[i] = IF a[i] \in S THEN Append(h[i - 1], a[i]) ELSE h[i - 1]
    <3>1. i \in 1..Len(a)
      BY <1>1
    <3> QED
      BY <1>3, <3>1 DEF Filters
  <2> QED
    BY <1>1, <1>5, <2>1, <2>2
<1>6. g[n] = h[n]
  <2> HIDE DEF E
  <2>1. \A i \in 0..n : i \in E
    BY <1>1, <1>4, <1>5, UpTo
  <2> QED
    BY <1>1, <2>1 DEF E
<1>7. h[n + 1] = IF a[n + 1] \in S THEN Append(h[n], a[n + 1]) ELSE h[n]
  <2>1. n + 1 \in 1..Len(a) /\ (n + 1) - 1 = n
    BY <1>1
  <2> QED
    BY <1>3, <2>1 DEF Filters
<1>8. SelectIn(a, S) = IF x \in S THEN Append(SelectIn(s, S), x) ELSE SelectIn(s, S)
  BY <1>1, <1>2, <1>3, <1>6, <1>7
<1> QED
  BY <1>8 DEF a

\* Of a sequence that increases SelectIn makes one that increases.
LEMMA SelectInIncreasing ==
    ASSUME NEW s \in Seq(Nat), NEW S, \A i, j \in 1..Len(s) : i < j => s[i] < s[j]
    PROVE  \A i, j \in 1..Len(SelectIn(s, S)) : i < j => SelectIn(s, S)[i] < SelectIn(s, S)[j]
<1> DEFINE n == Len(s)
           Upward(q) == \A i, j \in 1..Len(q) : i < j => q[i] < q[j]
           Within(q, k) == \A i \in 1..Len(q) : \E m \in 1..k : q[i] = s[m]
<1>1. PICK g \in [0..n -> Seq(Nat)] : Filters(g, s, S) /\ SelectIn(s, S) = g[n]
  BY SelectInDef
<1>2. n \in Nat /\ \A i \in 1..n : s[i] \in Nat
  OBVIOUS
<1>3. \A i, j \in 1..n : i < j => s[i] < s[j]
  OBVIOUS
<1> HIDE DEF n
<1> DEFINE E == {k \in 0..n : Upward(g[k]) /\ Within(g[k], k)}
<1>4. 0 \in E
  <2>1. g[0] = <<>>
    BY <1>1 DEF Filters
  <2> QED
    BY <1>2, <2>1
<1>5. ASSUME NEW k \in 1..n, k - 1 \in E PROVE k \in E
  <2> DEFINE q == g[k - 1]
             y == s[k]
  <2>1. Upward(q) /\ Within(q, k - 1)
    BY <1>5
  <2>2. g[k] = IF y \in S THEN Append(q, y) ELSE q
    BY <1>1 DEF Filters, n
  <2>3. q \in Seq(Nat) /\ y \in Nat /\ k \in 0..n
    BY <1>1, <1>2
  <2> HIDE DEF q
  <2>4. CASE y \notin S
    <3>1. Within(q, k)
      BY <1>2, <2>1
    <3>2. g[k] = q
      BY <2>2, <2>4
    <3> HIDE DEF Upward, Within
    <3> QED
      BY <2>1, <2>3, <3>1, <3>2
  <2>5. CASE y \in S
    <3> DEFINE a == Append(q, y)
    <3>1. /\ Len(a) = Len(q) + 1 /\ Len(q) \in Nat /\ a[Len(q) + 1] = y
          /\ \A i \in 1..Len(q) : a[i] = q[i]
      BY <2>3
    <3>2. ASSUME NEW i \in 1..Len(q) PROVE q[i] < y
      <4>1. PICK m \in 1..(k - 1) : q[i] = s[m]
        BY <2>1
      <4>2. m \in 1..n /\ m < k /\ k \in 1..n
        BY <1>2
      <4>3. s[m] < s[k]
        BY <1>3, <4>2
      <4> QED
        BY <4>1, <4>3
    <3> HIDE DEF a
    <3>3. \A i \in 1..Len(a) : i \in 1..Len(q) \/ i = Len(q) + 1
      BY <3>1
    <3>4. Upward(a)
      <4> SUFFICES ASSUME NEW i \in 1..Len(a), NEW j \in 1..Len(a), i < j PROVE a[i] < a[j]
        OBVIOUS
      <4>1. i \in 1..Len(q)
        BY <3>1, <3>3
      <4>2. CASE j \in 1..Len(q)
        BY <2>1, <3>1, <4>1, <4>2
      <4>3. CASE j = Len(q) + 1
        BY <3>1, <3>2, <4>1, <4>3
      <4> QED
        BY <3>3, <4>2, <4>3
    <3>5. Within(a, k)
      <4> SUFFICES ASSUME NEW i \in 1..Len(a) PROVE \E m \in 1..k : a[i] = s[m]
        OBVIOUS
      <4>1. CASE i \in 1..Len(q)
        <5>1. PICK m \in 1..(k - 1) : q[i] = s[m]
          BY <2>1, <4>1
        <5> QED
          BY <1>2, <3>1, <4>1, <5>1
      <4>2. CASE i = Len(q) + 1
        BY <1>2, <3>1, <4>2
      <4> QED
        BY <3>3, <4>1, <4>2
    <3>6. g[k] = a
      BY <2>2, <2>5 DEF a
    <3> HIDE DEF Upward, Within
    <3> QED
      BY <2>3, <3>4, <3>5, <3>6
  <2> QED
    BY <2>4, <2>5
<1>6. n \in E
  <2> HIDE DEF E
  <2>1. \A i \in 0..n : i \in E
    BY <1>2, <1>4, <1>5, UpTo
  <2> QED
    BY <1>2, <2>1
<1> QED
  BY <1>1, <1>6

\* The indices in S, in order: what is left out between two of them is not in S.
LEMMA SelectIndices ==
    ASSUME NEW n \in Nat, NEW s, DOMAIN s = 1..n, \A i \in 1..n : s[i] = i,
           s \in Seq(1..n), NEW S, NEW kept, kept = SelectIn(s, S)
    PROVE  /\ kept \in Seq(1..n) /\ \A j \in 1..Len(kept) : kept[j] \in S
           /\ \A j \in 1..(Len(kept) - 1) :
                /\ kept[j] < kept[j + 1]
                /\ \A i \in 1..n : kept[j] < i /\ i < kept[j + 1] => i \notin S
<1>1. s \in Seq(1..n) /\ s \in Seq(Nat) /\ Len(s) = n /\ \A i \in 1..n : s[i] = i
  OBVIOUS
<1>2. kept = SelectIn(s, S)
  OBVIOUS
<1>3. kept \in Seq(1..n) /\ \A j \in 1..Len(kept) : kept[j] \in S
  BY <1>1, <1>2, SelectInElements
<1>4. \A i, j \in 1..Len(kept) : i < j => kept[i] < kept[j]
  BY <1>1, <1>2, SelectInIncreasing
<1>5. \A i \in 1..n : i \in S => \E j \in 1..Len(kept) : kept[j] = i
  <2> SUFFICES ASSUME NEW i \in 1..n, i \in S PROVE \E j \in 1..Len(kept) : kept[j] = i
    OBVIOUS
  <2>1. i \in 1..Len(s) /\ s[i] = i
    BY <1>1
  <2>2. \E j \in 1..Len(SelectIn(s, S)) : SelectIn(s, S)[j] = s[i]
    BY <1>1, <2>1, SelectInHas
  <2> QED
    BY <1>2, <2>1, <2>2
<1>6. ASSUME NEW j \in 1..(Len(kept) - 1)
      PROVE  /\ kept[j] < kept[j + 1]
             /\ \A i \in 1..n : kept[j] < i /\ i < kept[j + 1] => i \notin S
  <2>1. j \in 1..Len(kept) /\ j + 1 \in 1..Len(kept) /\ j < j + 1 /\ Len(kept) \in Nat
    BY <1>3
  <2>2. kept[j] < kept[j + 1]
    BY <1>4, <2>1
  <2>3. ASSUME NEW i \in 1..n, kept[j] < i, i < kept[j + 1], i \in S PROVE FALSE
    <3>1. PICK m \in 1..Len(kept) : kept[m] = i
      BY <1>5, <2>3
    <3>2. CASE m <= j
      <4>1. m = j \/ m < j
        BY <2>1, <3>2
      <4>2. kept[m] <= kept[j]
        BY <1>3, <1>4, <2>1, <4>1
      <4> QED
        BY <1>3, <2>1, <2>3, <3>1, <4>2
    <3>3. CASE m > j
      <4>1. m = j + 1 \/ j + 1 < m
        BY <2>1, <3>3
      <4>2. kept[j + 1] <= kept[m]
        <5>1. kept[j + 1] \in Nat
          BY <1>3, <2>1
        <5>2. CASE m = j + 1
          BY <5>1, <5>2
        <5>3. CASE j + 1 < m
          <6>1. kept[j + 1] < kept[m] /\ kept[m] \in Nat
            BY <1>3, <1>4, <2>1, <5>3
          <6> QED
            BY <5>1, <6>1
        <5> QED
          BY <4>1, <5>2, <5>3
      <4> QED
        BY <1>3, <2>1, <2>3, <3>1, <4>2
    <3> QED
      BY <2>1, <3>2, <3>3
  <2> QED
    BY <2>2, <2>3
<1> QED
  BY <1>3, <1>6

\* What SelectIn makes of a sequence in which the elements of S come last.
LEMMA SelectInLater ==
    ASSUME NEW T, NEW s \in Seq(T), NEW S,
           \A i, j \in 1..Len(s) : i <= j /\ s[i] \in S => s[j] \in S
    PROVE  \E l \in 0..Len(s) : /\ SelectIn(s, S) = SubSeq(s, l + 1, Len(s))
                                /\ \A i \in 1..l : s[i] \notin S
                                /\ \A i \in (l + 1)..Len(s) : s[i] \in S
<1> DEFINE I == {i \in 1..Len(s) : s[i] \in S}
<1>0. Len(s) \in Nat
  OBVIOUS
<1>1. PICK l \in 0..Len(s) : /\ \A i \in 1..l : s[i] \notin S
                             /\ \A i \in (l + 1)..Len(s) : s[i] \in S
  <2>1. CASE I = {}
    <3>1. \A i \in 1..Len(s) : s[i] \notin S
      BY <2>1
    <3>2. \A i \in (Len(s) + 1)..Len(s) : s[i] \in S
      BY <1>0
    <3> QED
      BY <1>0, <3>1, <3>2
  <2>2. CASE I # {}
    <3>1. PICK f \in I : \A i \in I : f <= i
      <4>1. I \subseteq Nat
        BY <1>0
      <4> HIDE DEF I
      <4> QED
        BY <2>2, <4>1, LeastElement
    <3>2. \A i \in 1..(f - 1) : s[i] \notin S
      BY <1>0, <3>1
    <3>3. \A i \in f..Len(s) : s[i] \in S
      BY <1>0, <3>1
    <3>4. f - 1 \in 0..Len(s) /\ (f - 1) + 1 = f
      BY <1>0, <3>1
    <3> QED
      BY <3>2, <3>3, <3>4
  <2> QED
    BY <2>1, <2>2
<1> QED
  BY <1>1, SelectInSuffix

-----------------------------------------------------------------------------
\* AddsUp.

AddsUp(g, q, W) == g[0] = 0 /\ \A i \in 1..Len(q) : g[i] = g[i - 1] + W[q[i]]

\* The sums of the beginnings of a sequence.
LEMMA WeightDef ==
    ASSUME NEW T, NEW q \in Seq(T), NEW W \in [T -> Nat]
    PROVE  \E g \in [0..Len(q) -> Nat] : AddsUp(g, q, W) /\ Weight(q, W) = g[Len(q)]
<1> DEFINE n == Len(q)
           Next(i, v) == v + W[q[i]]
           F == [p \in (1..n) \X Nat |-> Next(p[1], p[2])]
           Is(g) == g = [i \in 0..n |-> IF i = 0 THEN 0 ELSE Next(i, g[i - 1])]
<1>1. n \in Nat
  OBVIOUS
<1>2. ASSUME NEW i \in 1..n, NEW v \in Nat PROVE Next(i, v) \in Nat
  <2>1. q[i] \in T
    OBVIOUS
  <2>2. W[q[i]] \in Nat
    BY <2>1
  <2> QED
    BY <2>2
<1> HIDE DEF n
<1>3. F \in [(1..n) \X Nat -> Nat]
  <2> HIDE DEF Next
  <2>1. ASSUME NEW p \in (1..n) \X Nat PROVE Next(p[1], p[2]) \in Nat
    BY <1>2
  <2> QED
    BY <2>1
<1>4. PICK g \in [0..n -> Nat] : g[0] = 0 /\ \A i \in 1..n : g[i] = F[<<i, g[i - 1]>>]
  <2> HIDE DEF F
  <2>1. \E g \in [0..n -> Nat] : Recurs(g, n, 0, F)
    BY <1>1, <1>3, Recursion
  <2> QED
    BY <2>1 DEF Recurs
<1>5. ASSUME NEW i \in 1..n PROVE g[i] = Next(i, g[i - 1])
  <2> HIDE DEF Next
  <2>1. g[i - 1] \in Nat
    BY <1>1, <1>4
  <2>2. F[<<i, g[i - 1]>>] = Next(i, g[i - 1])
    BY <2>1
  <2> QED
    BY <1>4, <2>2
<1>6. Is(g)
  <2> HIDE DEF Next
  <2>1. ASSUME NEW i \in 0..n
        PROVE  g[i] = IF i = 0 THEN 0 ELSE Next(i, g[i - 1])
    <3>1. CASE i = 0
      BY <1>4, <3>1
    <3>2. CASE i # 0
      <4>1. i \in 1..n
        BY <1>1, <3>2
      <4> QED
        BY <1>5, <3>2, <4>1
    <3> QED
      BY <3>1, <3>2
  <2> QED
    BY <1>4, <2>1
<1>7. Is(CHOOSE f : Is(f))
  <2>1. \E f : Is(f)
    BY <1>6
  <2> HIDE DEF Is
  <2> QED
    BY <2>1
<1> DEFINE f == CHOOSE f : Is(f)
<1>8. Weight(q, W) = f[n]
  BY DEF Weight, n
<1> HIDE DEF f
<1>9. \A i \in 0..n : f[i] = IF i = 0 THEN 0 ELSE Next(i, f[i - 1])
  BY <1>7 DEF f
<1> DEFINE E == {i \in 0..n : f[i] = g[i]}
<1>10. 0 \in E
  BY <1>1, <1>4, <1>9
<1>11. ASSUME NEW i \in 1..n, i - 1 \in E PROVE i \in E
  <2> HIDE DEF Next
  <2>1. f[i] = Next(i, f[i - 1])
    BY <1>1, <1>9
  <2>2. f[i - 1] = g[i - 1]
    BY <1>11
  <2>3. f[i] = g[i]
    BY <1>5, <2>1, <2>2
  <2> QED
    BY <1>1, <2>3
<1>12. n \in E
  <2> HIDE DEF E
  <2>1. \A i \in 0..n : i \in E
    BY <1>1, <1>10, <1>11, UpTo
  <2> QED
    BY <1>1, <2>1
<1> QED
  BY <1>4, <1>5, <1>8, <1>12 DEF AddsUp, n

\* A total is a number, that of nothing 0.
LEMMA WeightType ==
    ASSUME NEW T, NEW q \in Seq(T), NEW W \in [T -> Nat]
    PROVE  Weight(q, W) \in Nat /\ (Len(q) = 0 => Weight(q, W) = 0)
<1>1. PICK g \in [0..Len(q) -> Nat] : AddsUp(g, q, W) /\ Weight(q, W) = g[Len(q)]
  BY WeightDef
<1>2. Len(q) \in 0..Len(q)
  OBVIOUS
<1> QED
  BY <1>1, <1>2 DEF AddsUp

\* The total of two sequences.
LEMMA WeightConcat ==
    ASSUME NEW T, NEW q \in Seq(T), NEW r \in Seq(T), NEW W \in [T -> Nat]
    PROVE  Weight(q \o r, W) = Weight(q, W) + Weight(r, W)
<1> DEFINE n == Len(q)
           k == Len(r)
           a == q \o r
<1>1. /\ n \in Nat /\ k \in Nat /\ a \in Seq(T) /\ Len(a) = n + k
      /\ \A i \in 1..n : a[i] = q[i]
      /\ \A i \in 1..k : a[n + i] = r[i]
  OBVIOUS
<1>2. PICK g \in [0..n -> Nat] : AddsUp(g, q, W) /\ Weight(q, W) = g[n]
  BY WeightDef
<1>3. PICK h \in [0..k -> Nat] : AddsUp(h, r, W) /\ Weight(r, W) = h[k]
  BY WeightDef
<1> HIDE DEF a
<1>4. PICK f \in [0..Len(a) -> Nat] : AddsUp(f, a, W) /\ Weight(a, W) = f[Len(a)]
  BY <1>1, WeightDef
<1> HIDE DEF n, k
<1> DEFINE E == {i \in 0..n : f[i] = g[i]}
<1>5. \A i \in 0..n : i \in E
  <2>1. 0 \in E
    BY <1>1, <1>2, <1>4 DEF AddsUp
  <2>2. ASSUME NEW i \in 1..n, i - 1 \in E PROVE i \in E
    <3>1. i \in 1..Len(a)
      BY <1>1
    <3>2. f[i] = f[i - 1] + W[q[i]] /\ g[i] = g[i - 1] + W[q[i]]
      BY <1>1, <1>2, <1>4, <3>1 DEF AddsUp, n
    <3> QED
      BY <2>2, <3>2
  <2> HIDE DEF E
  <2> QED
    BY <1>1, <2>1, <2>2, UpTo
<1> DEFINE D == {i \in 0..k : f[n + i] = g[n] + h[i]}
<1>6. \A i \in 0..k : i \in D
  <2>1. 0 \in D
    <3>1. f[n] = g[n] /\ g[n] \in Nat /\ h[0] = 0 /\ n + 0 = n
      BY <1>1, <1>2, <1>3, <1>5 DEF AddsUp
    <3> QED
      BY <1>1, <3>1
  <2>2. ASSUME NEW i \in 1..k, i - 1 \in D PROVE i \in D
    <3>1. n + i \in 1..Len(a) /\ (n + i) - 1 = n + (i - 1)
      BY <1>1
    <3>2. f[n + i] = f[n + (i - 1)] + W[r[i]]
      BY <1>1, <1>4, <3>1 DEF AddsUp
    <3>3. h[i] = h[i - 1] + W[r[i]] /\ r[i] \in T
      BY <1>3 DEF AddsUp, k
    <3>4. f[n + (i - 1)] = g[n] + h[i - 1]
      BY <2>2
    <3>5. g[n] \in Nat /\ h[i - 1] \in Nat /\ W[r[i]] \in Nat
      <4>1. n \in 0..n /\ i - 1 \in 0..k
        BY <1>1
      <4>2. g[n] \in Nat /\ h[i - 1] \in Nat
        BY <1>2, <1>3, <4>1
      <4>3. W[r[i]] \in Nat
        BY <3>3
      <4> QED
        BY <4>2, <4>3
    <3> QED
      BY <3>2, <3>3, <3>4, <3>5
  <2> HIDE DEF D
  <2> QED
    BY <1>1, <2>1, <2>2, UpTo
<1>7. f[n + k] = g[n] + h[k]
  BY <1>1, <1>6
<1> QED
  BY <1>1, <1>2, <1>3, <1>4, <1>7 DEF a

\* One more element adds what W says of it.
LEMMA WeightAppend ==
    ASSUME NEW T, NEW q \in Seq(T), NEW x \in T, NEW W \in [T -> Nat]
    PROVE  Weight(Append(q, x), W) = Weight(q, W) + W[x]
<1>1. <<x>> \in Seq(T) /\ Len(<<x>>) = 1 /\ <<x>>[1] = x /\ Append(q, x) = q \o <<x>>
  OBVIOUS
<1>2. PICK g \in [0..1 -> Nat] : AddsUp(g, <<x>>, W) /\ Weight(<<x>>, W) = g[1]
  BY <1>1, WeightDef
<1>3. g[1] = W[x]
  BY <1>1, <1>2 DEF AddsUp
<1>4. Weight(q \o <<x>>, W) = Weight(q, W) + Weight(<<x>>, W)
  BY <1>1, WeightConcat
<1> QED
  BY <1>1, <1>2, <1>3, <1>4

\* To select some lowers the total, or leaves it.
LEMMA WeightSelected ==
    ASSUME NEW T, NEW q \in Seq(T), NEW S, NEW W \in [T -> Nat]
    PROVE  Weight(SelectIn(q, S), W) <= Weight(q, W)
<1> DEFINE n == Len(q)
<1>1. PICK f \in [0..n -> Seq(T)] : Filters(f, q, S) /\ SelectIn(q, S) = f[n]
  BY SelectInDef
<1>2. PICK g \in [0..n -> Nat] : AddsUp(g, q, W) /\ Weight(q, W) = g[n]
  BY WeightDef
<1>3. n \in Nat /\ \A i \in 1..n : q[i] \in T
  OBVIOUS
<1> HIDE DEF n
<1> DEFINE E == {i \in 0..n : Weight(f[i], W) <= g[i]}
<1>4. 0 \in E
  <2>1. f[0] = <<>> /\ g[0] = 0 /\ <<>> \in Seq(T) /\ Len(<<>>) = 0
    BY <1>1, <1>2 DEF Filters, AddsUp
  <2>2. Weight(<<>>, W) = 0
    BY <2>1, WeightType
  <2> QED
    BY <1>3, <2>1, <2>2
<1>5. ASSUME NEW i \in 1..n, i - 1 \in E PROVE i \in E
  <2>1. /\ f[i] = IF q[i] \in S THEN Append(f[i - 1], q[i]) ELSE f[i - 1]
        /\ g[i] = g[i - 1] + W[q[i]]
    BY <1>1, <1>2 DEF Filters, AddsUp, n
  <2>2. q[i] \in T /\ W[q[i]] \in Nat /\ f[i - 1] \in Seq(T) /\ g[i - 1] \in Nat
    BY <1>1, <1>2, <1>3
  <2>3. Weight(Append(f[i - 1], q[i]), W) = Weight(f[i - 1], W) + W[q[i]]
        /\ Weight(f[i - 1], W) \in Nat
    BY <2>2, WeightAppend, WeightType
  <2>4. Weight(f[i - 1], W) <= g[i - 1]
    BY <1>5
  <2>5. Weight(f[i], W) <= g[i]
    BY <2>1, <2>2, <2>3, <2>4
  <2> QED
    BY <2>5
<1>6. n \in E
  <2> HIDE DEF E
  <2>1. \A i \in 0..n : i \in E
    BY <1>3, <1>4, <1>5, UpTo
  <2> QED
    BY <1>3, <2>1
<1> QED
  BY <1>1, <1>2, <1>6

\* Where W says less of no element it says no less of all, and more of all where it
\* says more of one.
LEMMA WeightLowered ==
    ASSUME NEW T, NEW q \in Seq(T), NEW r \in Seq(T), NEW W \in [T -> Nat], Len(q) = Len(r),
           \A i \in 1..Len(q) : W[r[i]] <= W[q[i]]
    PROVE  /\ Weight(r, W) <= Weight(q, W)
           /\ \A k \in 1..Len(q) : W[r[k]] < W[q[k]] => Weight(r, W) < Weight(q, W)
<1> DEFINE n == Len(q)
<1>1. PICK g \in [0..n -> Nat] : AddsUp(g, q, W) /\ Weight(q, W) = g[n]
  BY WeightDef
<1>2. PICK h \in [0..n -> Nat] : AddsUp(h, r, W) /\ Weight(r, W) = h[n]
  <2>1. \E h \in [0..Len(r) -> Nat] : AddsUp(h, r, W) /\ Weight(r, W) = h[Len(r)]
    BY WeightDef
  <2> QED
    BY <2>1
<1>3. n \in Nat /\ \A i \in 1..n : q[i] \in T /\ r[i] \in T
  OBVIOUS
<1>4. ASSUME NEW i \in 1..n
      PROVE  /\ g[i] = g[i - 1] + W[q[i]] /\ h[i] = h[i - 1] + W[r[i]]
             /\ g[i - 1] \in Nat /\ h[i - 1] \in Nat /\ W[q[i]] \in Nat /\ W[r[i]] \in Nat
             /\ W[r[i]] <= W[q[i]]
  <2>1. g[i] = g[i - 1] + W[q[i]] /\ h[i] = h[i - 1] + W[r[i]]
    BY <1>1, <1>2 DEF AddsUp
  <2>2. i - 1 \in 0..n
    BY <1>3
  <2>3. g[i - 1] \in Nat /\ h[i - 1] \in Nat
    BY <1>1, <1>2, <2>2
  <2>4. W[q[i]] \in Nat /\ W[r[i]] \in Nat
    BY <1>3
  <2> QED
    BY <2>1, <2>3, <2>4
<1> HIDE DEF n
<1>5. g[0] = 0 /\ h[0] = 0
  BY <1>1, <1>2 DEF AddsUp
<1> DEFINE E == {i \in 0..n : h[i] <= g[i]}
<1>6. \A i \in 0..n : i \in E
  <2>1. 0 \in E
    BY <1>3, <1>5
  <2>2. ASSUME NEW i \in 1..n, i - 1 \in E PROVE i \in E
    BY <1>4, <2>2
  <2> HIDE DEF E
  <2> QED
    BY <1>3, <2>1, <2>2, UpTo
<1>7. ASSUME NEW k \in 1..n, W[r[k]] < W[q[k]] PROVE h[n] < g[n]
  <2> DEFINE D == {i \in 0..n : i < k \/ h[i] < g[i]}
  <2>1. 0 \in D
    BY <1>3
  <2>2. ASSUME NEW i \in 1..n, i - 1 \in D PROVE i \in D
    <3>1. CASE i < k
      BY <1>3, <3>1
    <3>2. CASE i = k
      <4>1. h[i - 1] <= g[i - 1]
        BY <1>3, <1>6
      <4> QED
        BY <1>4, <1>7, <3>2, <4>1
    <3>3. CASE i > k
      <4>1. h[i - 1] < g[i - 1]
        BY <1>3, <2>2, <3>3
      <4>2. /\ g[i] = g[i - 1] + W[q[i]] /\ h[i] = h[i - 1] + W[r[i]] /\ W[r[i]] <= W[q[i]]
            /\ g[i - 1] \in Nat /\ h[i - 1] \in Nat /\ W[q[i]] \in Nat /\ W[r[i]] \in Nat
        BY <1>4
      <4>3. h[i] < g[i]
        <5> HIDE DEF D, E
        <5> QED
          BY <4>1, <4>2
      <4> QED
        BY <4>3
    <3> QED
      BY <3>1, <3>2, <3>3
  <2>3. n \in D
    <3> HIDE DEF D
    <3>1. \A i \in 0..n : i \in D
      BY <1>3, <2>1, <2>2, UpTo
    <3> QED
      BY <1>3, <3>1
  <2> QED
    BY <1>3, <2>3
<1>8. h[n] <= g[n]
  BY <1>3, <1>6
<1> QED
  BY <1>1, <1>2, <1>7, <1>8 DEF n

\* Where at most one element weighs more, and by no more than d, so does the whole.
LEMMA WeightRaised ==
    ASSUME NEW T, NEW q \in Seq(T), NEW r \in Seq(T), NEW W \in [T -> Nat], Len(q) = Len(r),
           NEW d \in Nat, \A i \in 1..Len(q) : W[r[i]] <= W[q[i]] + d,
           \A i, j \in 1..Len(q) : W[r[i]] > W[q[i]] /\ W[r[j]] > W[q[j]] => i = j
    PROVE  Weight(r, W) <= Weight(q, W) + d
<1> DEFINE n == Len(q)
<1>1. PICK g \in [0..n -> Nat] : AddsUp(g, q, W) /\ Weight(q, W) = g[n]
  BY WeightDef
<1>2. PICK h \in [0..n -> Nat] : AddsUp(h, r, W) /\ Weight(r, W) = h[n]
  <2>1. \E h \in [0..Len(r) -> Nat] : AddsUp(h, r, W) /\ Weight(r, W) = h[Len(r)]
    BY WeightDef
  <2> QED
    BY <2>1
<1>3. n \in Nat /\ \A i \in 1..n : q[i] \in T /\ r[i] \in T
  OBVIOUS
<1>4. ASSUME NEW i \in 1..n
      PROVE  /\ g[i] = g[i - 1] + W[q[i]] /\ h[i] = h[i - 1] + W[r[i]]
             /\ g[i - 1] \in Nat /\ h[i - 1] \in Nat /\ W[q[i]] \in Nat /\ W[r[i]] \in Nat
             /\ W[r[i]] <= W[q[i]] + d
  <2>1. g[i] = g[i - 1] + W[q[i]] /\ h[i] = h[i - 1] + W[r[i]]
    BY <1>1, <1>2 DEF AddsUp
  <2>2. i - 1 \in 0..n
    BY <1>3
  <2>3. g[i - 1] \in Nat /\ h[i - 1] \in Nat
    BY <1>1, <1>2, <2>2
  <2>4. W[q[i]] \in Nat /\ W[r[i]] \in Nat
    BY <1>3
  <2> QED
    BY <2>1, <2>3, <2>4
<1>5. g[0] = 0 /\ h[0] = 0
  BY <1>1, <1>2 DEF AddsUp
<1>6. \A i, j \in 1..n : W[r[i]] > W[q[i]] /\ W[r[j]] > W[q[j]] => i = j
  OBVIOUS
<1> HIDE DEF n
<1> DEFINE E == {i \in 0..n : \/ h[i] <= g[i]
                              \/ h[i] <= g[i] + d /\ \E j \in 1..i : W[r[j]] > W[q[j]]}
<1>7. 0 \in E
  <2>1. h[0] <= g[0] /\ 0 \in 0..n
    BY <1>3, <1>5
  <2> QED
    BY <2>1
<1>8. ASSUME NEW i \in 1..n, i - 1 \in E PROVE i \in E
  <2> DEFINE x == h[i - 1]
             y == g[i - 1]
             u == W[r[i]]
             v == W[q[i]]
  <2>1. /\ x \in Nat /\ y \in Nat /\ u \in Nat /\ v \in Nat /\ u <= v + d
        /\ h[i] = x + u /\ g[i] = y + v
    BY <1>4
  <2>2. i \in 0..n /\ i \in 1..i /\ 1..(i - 1) \subseteq 1..i
    BY <1>3
  <2>3. \/ x <= y
        \/ x <= y + d /\ \E j \in 1..(i - 1) : W[r[j]] > W[q[j]]
    BY <1>8
  <2>4. u > v => \A j \in 1..(i - 1) : ~(W[r[j]] > W[q[j]])
    <3>1. \A j \in 1..(i - 1) : j \in 1..n /\ j # i
      BY <1>3
    <3> QED
      BY <1>6, <3>1, Zenon
  <2>5. \/ h[i] <= g[i]
        \/ h[i] <= g[i] + d /\ (u > v \/ \E j \in 1..(i - 1) : W[r[j]] > W[q[j]])
    <3> DEFINE raised == \E j \in 1..(i - 1) : W[r[j]] > W[q[j]]
    <3>1. x <= y \/ (x <= y + d /\ raised)
      BY <2>3
    <3>2. u > v => ~raised
      BY <2>4
    <3> HIDE DEF raised, E, x, y, u, v
    <3>3. h[i] <= g[i] \/ (h[i] <= g[i] + d /\ (u > v \/ raised))
      BY <2>1, <3>1, <3>2
    <3> QED
      BY <3>3 DEF raised
  <2> HIDE DEF x, y
  <2>6. u > v => \E j \in 1..i : W[r[j]] > W[q[j]]
    BY <2>2
  <2> HIDE DEF u, v
  <2>7. h[i] <= g[i] \/ (h[i] <= g[i] + d /\ \E j \in 1..i : W[r[j]] > W[q[j]])
    BY <2>2, <2>5, <2>6, Zenon
  <2> QED
    BY <2>2, <2>7
<1>9. n \in E
  <2> HIDE DEF E
  <2>1. \A i \in 0..n : i \in E
    BY <1>3, <1>7, <1>8, UpTo
  <2> QED
    BY <1>3, <2>1
<1>10. h[n] <= g[n] + d
  <2>1. g[n] \in Nat /\ h[n] \in Nat
    BY <1>1, <1>2, <1>3
  <2> QED
    BY <1>9, <2>1
<1> QED
  BY <1>1, <1>2, <1>10

\* Where W is not 0 of at most one element, the total is what it says of that one.
LEMMA WeightOne ==
    ASSUME NEW T, NEW q \in Seq(T), NEW W \in [T -> Nat], NEW m \in Nat,
           \A i \in 1..Len(q) : W[q[i]] <= m,
           \A i, j \in 1..Len(q) : W[q[i]] # 0 /\ W[q[j]] # 0 => i = j
    PROVE  Weight(q, W) <= m
<1> DEFINE n == Len(q)
<1>1. PICK g \in [0..n -> Nat] : AddsUp(g, q, W) /\ Weight(q, W) = g[n]
  BY WeightDef
<1>2. n \in Nat /\ \A i \in 1..n : q[i] \in T
  OBVIOUS
<1>3. ASSUME NEW i \in 1..n
      PROVE  g[i] = g[i - 1] + W[q[i]] /\ g[i - 1] \in Nat /\ W[q[i]] \in Nat
  BY <1>1, <1>2 DEF AddsUp
<1> HIDE DEF n
<1> DEFINE E == {i \in 0..n : g[i] <= m /\ (g[i] # 0 => \E j \in 1..i : W[q[j]] # 0)}
<1>4. 0 \in E
  BY <1>1, <1>2 DEF AddsUp
<1>5. ASSUME NEW i \in 1..n, i - 1 \in E PROVE i \in E
  <2>1. CASE W[q[i]] = 0
    <3>1. g[i] = g[i - 1]
      BY <1>3, <2>1
    <3>2. 1..(i - 1) \subseteq 1..i
      BY <1>2
    <3> QED
      BY <1>5, <3>1, <3>2
  <2>2. CASE W[q[i]] # 0
    <3>1. g[i - 1] = 0
      <4>1. ~ \E j \in 1..(i - 1) : W[q[j]] # 0
        <5> SUFFICES ASSUME NEW j \in 1..(i - 1), W[q[j]] # 0 PROVE FALSE
          OBVIOUS
        <5>1. j \in 1..n /\ j # i
          BY <1>2
        <5> QED
          BY <2>2, <5>1 DEF n
      <4> QED
        BY <1>5, <4>1
    <3>2. g[i] = W[q[i]] /\ W[q[i]] <= m
      BY <1>3, <3>1 DEF n
    <3>3. i \in 1..i
      BY <1>2
    <3> QED
      BY <2>2, <3>2, <3>3
  <2> QED
    BY <2>1, <2>2
<1>6. n \in E
  <2> HIDE DEF E
  <2>1. \A i \in 0..n : i \in E
    BY <1>2, <1>4, <1>5, UpTo
  <2> QED
    BY <1>2, <2>1
<1> QED
  BY <1>1, <1>6

\* Two sequences of the same length whose elements weigh the same.
Alike(q, W, r, V) == Len(q) = Len(r) /\ \A i \in 1..Len(q) : W[q[i]] = V[r[i]]

SameWeight(q, W, r, V) == Weight(q, W) = Weight(r, V)

\* They weigh the same.
LEMMA WeightSame ==
    ASSUME NEW T, NEW q \in Seq(T), NEW W \in [T -> Nat],
           NEW U, NEW r \in Seq(U), NEW V \in [U -> Nat], Alike(q, W, r, V)
    PROVE  SameWeight(q, W, r, V)
<1> DEFINE n == Len(q)
<1>0. Len(q) = Len(r) /\ \A i \in 1..n : W[q[i]] = V[r[i]]
  BY DEF Alike
<1>1. PICK g \in [0..n -> Nat] : AddsUp(g, q, W) /\ Weight(q, W) = g[n]
  BY WeightDef
<1>2. PICK h \in [0..n -> Nat] : AddsUp(h, r, V) /\ Weight(r, V) = h[n]
  <2>1. \E h \in [0..Len(r) -> Nat] : AddsUp(h, r, V) /\ Weight(r, V) = h[Len(r)]
    BY WeightDef
  <2> QED
    BY <1>0, <2>1
<1>3. n \in Nat /\ g[0] = h[0]
      /\ \A i \in 1..n : g[i] = g[i - 1] + W[q[i]] /\ h[i] = h[i - 1] + V[r[i]]
  BY <1>0, <1>1, <1>2 DEF AddsUp
<1>4. \A i \in 1..n : W[q[i]] = V[r[i]]
  BY <1>0
<1> HIDE DEF n
<1> DEFINE E == {i \in 0..n : g[i] = h[i]}
<1>5. 0 \in E
  BY <1>3
<1>6. \A i \in 1..n : i - 1 \in E => i \in E
  BY <1>3, <1>4
<1>7. n \in E
  <2> HIDE DEF E
  <2>1. \A i \in 0..n : i \in E
    BY <1>3, <1>5, <1>6, UpTo
  <2> QED
    BY <1>3, <2>1
<1> QED
  BY <1>0, <1>1, <1>2, <1>7 DEF SameWeight

\* What is selected weighs what the sequence does when the rest weighs nothing.
LEMMA WeightMasked ==
    ASSUME NEW T, NEW q \in Seq(T), NEW S, NEW W \in [T -> Nat]
    PROVE  Weight(SelectIn(q, S), W) = Weight(q, [x \in T |-> IF x \in S THEN W[x] ELSE 0])
<1> DEFINE n == Len(q)
           M == [x \in T |-> IF x \in S THEN W[x] ELSE 0]
<1>0. M \in [T -> Nat] /\ \A x \in T : M[x] = IF x \in S THEN W[x] ELSE 0
  OBVIOUS
<1>1. PICK f \in [0..n -> Seq(T)] : Filters(f, q, S) /\ SelectIn(q, S) = f[n]
  BY SelectInDef
<1> HIDE DEF M
<1>2. PICK g \in [0..n -> Nat] : AddsUp(g, q, M) /\ Weight(q, M) = g[n]
  BY <1>0, WeightDef
<1>3. n \in Nat /\ \A i \in 1..n : q[i] \in T
  OBVIOUS
<1> HIDE DEF n
<1> DEFINE E == {i \in 0..n : Weight(f[i], W) = g[i]}
<1>4. 0 \in E
  <2>1. f[0] = <<>> /\ g[0] = 0 /\ <<>> \in Seq(T) /\ Len(<<>>) = 0
    BY <1>1, <1>2 DEF Filters, AddsUp
  <2>2. Weight(<<>>, W) = 0
    BY <2>1, WeightType
  <2> QED
    BY <1>3, <2>1, <2>2
<1>5. ASSUME NEW i \in 1..n, i - 1 \in E PROVE i \in E
  <2>1. /\ f[i] = IF q[i] \in S THEN Append(f[i - 1], q[i]) ELSE f[i - 1]
        /\ g[i] = g[i - 1] + M[q[i]]
    BY <1>1, <1>2 DEF Filters, AddsUp, n
  <2>2. q[i] \in T /\ W[q[i]] \in Nat /\ f[i - 1] \in Seq(T) /\ g[i - 1] \in Nat
    BY <1>1, <1>2, <1>3
  <2>3. Weight(Append(f[i - 1], q[i]), W) = Weight(f[i - 1], W) + W[q[i]]
    BY <2>2, WeightAppend
  <2>4. Weight(f[i - 1], W) = g[i - 1]
    BY <1>5
  <2>5. M[q[i]] = IF q[i] \in S THEN W[q[i]] ELSE 0
    BY <1>0, <2>2
  <2>6. Weight(f[i], W) = g[i]
    <3>1. CASE q[i] \in S
      BY <2>1, <2>3, <2>4, <2>5, <3>1
    <3>2. CASE q[i] \notin S
      BY <2>1, <2>2, <2>4, <2>5, <3>2
    <3> QED
      BY <3>1, <3>2
  <2> QED
    BY <2>6
<1>6. n \in E
  <2> HIDE DEF E
  <2>1. \A i \in 0..n : i \in E
    BY <1>3, <1>4, <1>5, UpTo
  <2> QED
    BY <1>3, <2>1
<1> QED
  BY <1>1, <1>2, <1>6 DEF M

\* The place k weighs d more in V than in W, and no other of p.
Raises(p, W, V, k, d) ==
    /\ \A i \in 1..Len(p) : p[i] = i
    /\ V[k] = W[k] + d
    /\ \A i \in 1..Len(p) : i # k => V[i] = W[i]

Heavier(p, W, V, d) == Weight(p, V) = Weight(p, W) + d

\* Where the one at place k weighs d more, all places do.
LEMMA PlacesRaised ==
    ASSUME NEW S, NEW p \in Seq(S), NEW W \in [S -> Nat], NEW V \in [S -> Nat],
           NEW k \in 1..Len(p), NEW d \in Nat, Raises(p, W, V, k, d)
    PROVE  Heavier(p, W, V, d)
<1> DEFINE n == Len(p)
<1>1. PICK g \in [0..n -> Nat] : AddsUp(g, p, W) /\ Weight(p, W) = g[n]
  BY WeightDef
<1>2. PICK h \in [0..n -> Nat] : AddsUp(h, p, V) /\ Weight(p, V) = h[n]
  BY WeightDef
<1>3. /\ n \in Nat /\ k \in 1..n /\ g[0] = 0 /\ h[0] = 0
      /\ \A i \in 1..n : W[i] \in Nat
      /\ \A i \in 1..n : g[i] = g[i - 1] + W[i] /\ h[i] = h[i - 1] + V[i]
  <2>1. \A i \in 1..n : p[i] = i /\ p[i] \in S
    BY DEF Raises
  <2>2. \A i \in 1..n : W[i] \in Nat
    BY <2>1
  <2>3. \A i \in 1..n : W[p[i]] = W[i] /\ V[p[i]] = V[i]
    BY <2>1
  <2>4. n \in Nat /\ k \in 1..n
    OBVIOUS
  <2>5. /\ g[0] = 0 /\ \A i \in 1..n : g[i] = g[i - 1] + W[p[i]]
        /\ h[0] = 0 /\ \A i \in 1..n : h[i] = h[i - 1] + V[p[i]]
    BY <1>1, <1>2 DEF AddsUp
  <2> QED
    BY <2>2, <2>3, <2>4, <2>5
<1>4. V[k] = W[k] + d /\ \A i \in 1..n : i # k => V[i] = W[i]
  BY DEF Raises
<1> HIDE DEF n
<1> DEFINE E == {i \in 0..n : h[i] = IF i < k THEN g[i] ELSE g[i] + d}
<1>5. 0 \in E
  BY <1>3
<1>6. ASSUME NEW i \in 1..n, i - 1 \in E PROVE i \in E
  <2>1. /\ h[i - 1] = IF i - 1 < k THEN g[i - 1] ELSE g[i - 1] + d
        /\ g[i - 1] \in Nat /\ h[i - 1] \in Nat /\ W[i] \in Nat
        /\ g[i] = g[i - 1] + W[i] /\ h[i] = h[i - 1] + V[i]
    BY <1>1, <1>2, <1>3, <1>6
  <2>2. i \in Int /\ k \in Int /\ i \in 0..n
    BY <1>3
  <2> DEFINE w == W[i]
             x == V[i]
             before == g[i - 1]
  <2>3. x = IF i = k THEN w + d ELSE w
    BY <1>4
  <2>4. h[i] = IF i < k THEN g[i] ELSE g[i] + d
    <3>1. w \in Nat /\ before \in Nat /\ g[i] = before + w /\ h[i] = h[i - 1] + x
          /\ h[i - 1] = IF i - 1 < k THEN before ELSE before + d
      BY <2>1
    <3> HIDE DEF w, x, before
    <3>2. CASE i < k
      <4>1. i - 1 < k /\ i # k
        BY <2>2, <3>2
      <4> QED
        BY <2>3, <3>1, <3>2, <4>1
    <3>3. CASE i = k
      <4>1. i - 1 < k /\ ~(i < k)
        BY <2>2, <3>3
      <4> QED
        BY <2>3, <3>1, <3>3, <4>1
    <3>4. CASE i > k
      <4>1. ~(i - 1 < k) /\ ~(i < k) /\ i # k
        BY <2>2, <3>4
      <4> QED
        BY <2>3, <3>1, <4>1
    <3> QED
      BY <2>2, <3>2, <3>3, <3>4
  <2> QED
    BY <2>2, <2>4
<1>7. n \in E
  <2> HIDE DEF E
  <2>1. \A i \in 0..n : i \in E
    BY <1>3, <1>5, <1>6, UpTo
  <2> QED
    BY <1>3, <2>1
<1> QED
  BY <1>1, <1>2, <1>3, <1>7 DEF Heavier

\* A set of numbers with a bound has a greatest one.
LEMMA GreatestElement ==
    ASSUME NEW n \in Nat, NEW T, T \subseteq 0..n, T # {}
    PROVE  \E m \in T : \A k \in T : k <= m
<1> DEFINE D == {n - k : k \in T}
<1>1. D \subseteq Nat /\ D # {}
  <2>1. \A k \in T : k \in 0..n /\ n - k \in Nat
    OBVIOUS
  <2> QED
    BY <2>1
<1>2. PICK d \in D : \A x \in D : d <= x
  <2> HIDE DEF D
  <2> QED
    BY <1>1, LeastElement
<1>3. PICK m \in T : d = n - m
  OBVIOUS
<1>4. ASSUME NEW k \in T PROVE k <= m
  <2>1. d <= n - k
    BY <1>2
  <2> QED
    BY <1>3, <2>1
<1> QED
  BY <1>4

\* Where the elements of two sequences are when one follows the other.
LEMMA JoinedElements ==
    ASSUME NEW T, NEW q \in Seq(T), NEW r \in Seq(T)
    PROVE  /\ q \o r \in Seq(T) /\ Len(q \o r) = Len(q) + Len(r)
           /\ \A i \in 1..Len(q) : (q \o r)[i] = q[i]
           /\ \A i \in 1..Len(r) : (q \o r)[Len(q) + i] = r[i]
OBVIOUS
=============================================================================
