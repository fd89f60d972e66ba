------------------------------ MODULE NatFacts ------------------------------
(***************************************************************************)
(* Induction over the natural numbers for a set instead of a predicate, so *)
(* that it can be used where the prover cannot instantiate an operator,    *)
(* and what is proved with it about functions defined by recursion.        *)
(***************************************************************************)
EXTENDS Integers, Sequences, WellFoundedInduction, TLAPS

\* A non-empty set of natural numbers has a least element.
LEMMA LeastElement ==
  ASSUME NEW T, T \subseteq Nat, T # {}
  PROVE  \E x \in T : \A y \in T : x <= y
  <1>. DEFINE R == {ss \in Nat \X Nat : ss[1] < ss[2]}
  <1>1. IsWellFoundedOn(R, Nat)
    BY NatLessThanWellFounded DEF OpToRel
  <1>2. PICK x \in T : \A y \in T : ~(<<y, x>> \in R)
    BY <1>1, WFMin
  <1>3. ASSUME NEW y \in T, ~(x <= y) PROVE FALSE
    <2>1. x \in Nat /\ y \in Nat /\ y < x
      BY <1>3
    <2>. QED  BY <1>2, <2>1
  <1>. QED  BY <1>3

\* A set that holds 0 and, with a number, its successor, holds every natural number.
LEMMA SetInduction ==
  ASSUME NEW S, 0 \in S, \A n \in Nat : n \in S => n + 1 \in S
  PROVE  Nat \subseteq S
  <1>. SUFFICES ASSUME Nat \ S # {} PROVE FALSE
    OBVIOUS
  <1>1. PICK x \in Nat \ S : \A y \in Nat \ S : x <= y
    BY LeastElement
  <1>2. x - 1 \in Nat /\ ~(x <= x - 1) /\ (x - 1) + 1 = x
    BY <1>1
  <1>3. x - 1 \in S
    BY <1>1, <1>2
  <1>4. (x - 1) + 1 \in S
    BY <1>2, <1>3
  <1>. QED  BY <1>1, <1>2, <1>4

\* The numbers 1 to n are counted in one way only: an increasing function of them into a set of
\* numbers that leaves none of the set out is determined by the set, n included.
Enumerates(f, n, T) ==
  /\ n \in Nat
  /\ \A i \in 1..n : f[i] \in T
  /\ \A x \in T : \E i \in 1..n : f[i] = x
  /\ \A i, j \in 1..n : i < j => f[i] < f[j]

SameCount(f, m, g, n) == m = n /\ \A i \in 1..n : f[i] = g[i]

LEMMA EnumeratedOnce ==
  \A T, f, m, g, n :
    T \in SUBSET Int /\ Enumerates(f, m, T) /\ Enumerates(g, n, T) => SameCount(f, m, g, n)
  <1>. SUFFICES ASSUME NEW T, T \in SUBSET Int, NEW f, NEW m, Enumerates(f, m, T),
                       NEW g, NEW n, Enumerates(g, n, T)
                PROVE  SameCount(f, m, g, n)
    OBVIOUS
  <1>1. m \in Nat /\ n \in Nat
    BY DEF Enumerates
  <1>2. ASSUME NEW f1, NEW m1, Enumerates(f1, m1, T), NEW g1, NEW n1, Enumerates(g1, n1, T),
               NEW x \in 1..m1, x \in 1..n1,
               \A y \in 1..m1 : y < x => f1[y] = g1[y], f1[x] < g1[x]
        PROVE  FALSE
    <2>1. f1[x] \in T /\ f1[x] \in Int /\ m1 \in Nat /\ n1 \in Nat
      BY <1>2 DEF Enumerates
    <2>2. PICK j \in 1..n1 : g1[j] = f1[x]
      BY <1>2, <2>1 DEF Enumerates
    <2>3. g1[x] \in Int /\ g1[j] \in Int
      BY <1>2, <2>2 DEF Enumerates
    <2>4. CASE j < x
      <3>1. j \in 1..m1
        BY <2>1, <2>4
      <3>2. f1[j] = g1[j]
        BY <1>2, <2>4, <3>1
      <3>3. f1[j] < f1[x]
        BY <1>2, <2>4, <3>1 DEF Enumerates
      <3>. QED  BY <2>1, <2>2, <3>2, <3>3
    <2>5. CASE j = x
      BY <1>2, <2>1, <2>2, <2>5
    <2>6. CASE x < j
      <3>1. g1[x] < g1[j]
        BY <1>2, <2>6 DEF Enumerates
      <3>. QED  BY <1>2, <2>1, <2>2, <2>3, <3>1
    <2>. QED  BY <1>2, <2>1, <2>4, <2>5, <2>6
  <1>3. ASSUME NEW i \in 1..m, i \in 1..n PROVE f[i] = g[i]
    <2>. DEFINE D == {k \in 1..m : k \in 1..n /\ f[k] # g[k]}
    <2>. SUFFICES ASSUME D # {} PROVE FALSE
      BY <1>3
    <2>1. D \subseteq Nat
      BY <1>1
    <2>2. PICK x \in D : \A y \in D : x <= y
      <3>. HIDE DEF D
      <3>. QED  BY <2>1, LeastElement
    <2>3. ASSUME NEW y \in 1..m, y < x PROVE f[y] = g[y]
      <3>1. y \in 1..n /\ ~(x <= y)
        BY <1>1, <2>3
      <3>. QED  BY <2>2, <3>1
    <2>4. f[x] \in Int /\ g[x] \in Int
      BY <2>2 DEF Enumerates
    <2>5. f[x] < g[x] \/ g[x] < f[x]
      BY <2>2, <2>4
    <2>6. \A y \in 1..n : y < x => g[y] = f[y]
      <3>1. \A y \in 1..n : y < x => y \in 1..m
        BY <1>1
      <3>. QED  BY <2>3, <3>1
    <2>7. CASE f[x] < g[x]
      BY <1>2, <2>2, <2>3, <2>7
    <2>8. CASE g[x] < f[x]
      BY <1>2, <2>2, <2>6, <2>8
    <2>. QED  BY <2>5, <2>7, <2>8
  <1>4. ASSUME NEW f1, NEW m1, Enumerates(f1, m1, T), NEW g1, NEW n1, Enumerates(g1, n1, T),
               \A i \in 1..m1 : i \in 1..n1 => f1[i] = g1[i], m1 < n1
        PROVE  FALSE
    <2>1. m1 \in Nat /\ n1 \in Nat
      BY <1>4 DEF Enumerates
    <2>2. m1 + 1 \in 1..n1
      BY <1>4, <2>1
    <2>3. g1[m1 + 1] \in T /\ g1[m1 + 1] \in Int
      BY <1>4, <2>2 DEF Enumerates
    <2>4. PICK j \in 1..m1 : f1[j] = g1[m1 + 1]
      BY <1>4, <2>3 DEF Enumerates
    <2>5. j \in 1..n1 /\ j < m1 + 1
      BY <1>4, <2>1
    <2>6. g1[j] < g1[m1 + 1]
      BY <1>4, <2>2, <2>5 DEF Enumerates
    <2>. QED  BY <1>4, <2>3, <2>4, <2>5, <2>6
  <1>5. ~(m < n)
    BY <1>3, <1>4
  <1>6. ~(n < m)
    BY <1>3, <1>4
  <1>7. m = n
    BY <1>1, <1>5, <1>6
  <1>. QED  BY <1>3, <1>7 DEF SameCount

\* Two functions begin alike and go on alike up to n.
GoAlike(g, h, n) ==
  g[0] = h[0] /\ \A k \in 1..n : g[k - 1] = h[k - 1] => g[k] = h[k]

Alike(g, h, n) == \A k \in 0..n : g[k] = h[k]

\* Two functions that begin alike and go on alike are alike.
LEMMA RecursionsAgree ==
  \A g, h : \A n \in Nat : GoAlike(g, h, n) => Alike(g, h, n)
  <1>. SUFFICES ASSUME NEW n \in Nat, NEW g, NEW h, g[0] = h[0],
                       \A k \in 1..n : g[k - 1] = h[k - 1] => g[k] = h[k]
                PROVE  \A k \in 0..n : g[k] = h[k]
    BY DEF GoAlike, Alike
  <1>. DEFINE T == {k \in Nat : k <= n => g[k] = h[k]}
  <1>1. 0 \in T
    OBVIOUS
  <1>2. ASSUME NEW k \in Nat, k \in T PROVE k + 1 \in T
    <2>1. SUFFICES ASSUME k + 1 <= n PROVE g[k + 1] = h[k + 1]
      OBVIOUS
    <2>2. k + 1 \in 1..n /\ (k + 1) - 1 = k /\ k <= n
      BY <2>1
    <2>3. g[k] = h[k]
      BY <1>2, <2>2
    <2>. QED  BY <2>2, <2>3
  <1>. HIDE DEF T
  <1>3. Nat \subseteq T
    BY <1>1, <1>2, SetInduction
  <1>4. ASSUME NEW k \in 0..n PROVE g[k] = h[k]
    <2>1. k \in Nat /\ k <= n
      OBVIOUS
    <2>2. k \in T
      BY <1>3, <2>1
    <2>. QED  BY <2>1, <2>2 DEF T
  <1>. QED  BY <1>4

IsStep(F, X) == F \in [Nat -> [X -> X]]

Iterates(g, X, first, F) ==
  g \in [Nat -> X] /\ g[0] = first /\ \A k \in Nat : g[k + 1] = F[k][g[k]]

\* A first element and a step make a function on the natural numbers.
LEMMA PrimitiveRecursion ==
  \A X, first, F : first \in X /\ IsStep(F, X) => \E g : Iterates(g, X, first, F)
  <1>0. SUFFICES ASSUME NEW X, NEW first, NEW F, first \in X, IsStep(F, X)
                 PROVE  \E g : Iterates(g, X, first, F)
    OBVIOUS
  <1>a. first \in X /\ F \in [Nat -> [X -> X]]
    BY <1>0 DEF IsStep
  <1>. DEFINE Begins(f, n) == /\ f \in [0..n -> X]
                              /\ f[0] = first
                              /\ \A k \in 1..n : f[k] = F[k - 1][f[k - 1]]
              T == {n \in Nat : \E f : Begins(f, n)}
              part == [n \in Nat |-> CHOOSE f : Begins(f, n)]
              g == [n \in Nat |-> part[n][n]]
  <1>1. 0 \in T
    <2>1. Begins([i \in 0..0 |-> first], 0)
      BY <1>a
    <2>. QED  BY <2>1
  <1>2. ASSUME NEW n \in Nat, n \in T PROVE n + 1 \in T
    <2>1. PICK f : Begins(f, n)
      BY <1>2
    <2>. DEFINE h == [i \in 0..(n + 1) |-> IF i = n + 1 THEN F[n][f[n]] ELSE f[i]]
    <2>2. n \in 0..n /\ F[n][f[n]] \in X
      BY <1>a, <2>1
    <2>3. h \in [0..(n + 1) -> X]
      BY <2>1, <2>2
    <2>4. h[0] = first
      BY <2>1
    <2>5. ASSUME NEW k \in 1..(n + 1) PROVE h[k] = F[k - 1][h[k - 1]]
      <3>1. CASE k = n + 1
        <4>1. k - 1 = n /\ h[k - 1] = f[n] /\ k \in 0..(n + 1)
          BY <3>1
        <4>. QED  BY <3>1, <4>1
      <3>2. CASE k # n + 1
        <4>1. k \in 1..n /\ k \in 0..(n + 1) /\ k - 1 \in 0..(n + 1) /\ k - 1 # n + 1
          BY <3>2
        <4>2. h[k] = f[k] /\ h[k - 1] = f[k - 1]
          BY <4>1
        <4>. QED  BY <2>1, <4>1, <4>2
      <3>. QED  BY <3>1, <3>2
    <2>6. Begins(h, n + 1)
      <3>. HIDE DEF h
      <3>. QED  BY <2>3, <2>4, <2>5
    <2>. HIDE DEF Begins, h
    <2>. QED  BY <2>6
  <1>3. Nat \subseteq T
    <2>. HIDE DEF T
    <2>. QED  BY <1>1, <1>2, SetInduction
  <1>4. ASSUME NEW n \in Nat PROVE Begins(part[n], n)
    <2>. HIDE DEF Begins
    <2>1. \E f : Begins(f, n)
      BY <1>3
    <2>. QED  BY <2>1
  <1>. HIDE DEF part
  <1>5. ASSUME NEW n \in Nat PROVE part[n + 1][n] = part[n][n]
    <2>1. Begins(part[n], n) /\ Begins(part[n + 1], n + 1)
      <3>1. n + 1 \in Nat
        OBVIOUS
      <3>. HIDE DEF Begins
      <3>. QED  BY <1>4, <3>1
    <2>2. part[n][0] = part[n + 1][0]
      BY <2>1
    <2>3. ASSUME NEW k \in 1..n, part[n][k - 1] = part[n + 1][k - 1]
          PROVE  part[n][k] = part[n + 1][k]
      <3>1. k \in 1..(n + 1)
        OBVIOUS
      <3>2. part[n][k] = F[k - 1][part[n][k - 1]]
        BY <2>1
      <3>3. part[n + 1][k] = F[k - 1][part[n + 1][k - 1]]
        BY <2>1, <3>1
      <3>. QED  BY <2>3, <3>2, <3>3
    <2>4. \A k \in 0..n : part[n][k] = part[n + 1][k]
      <3>. DEFINE a == part[n]
                  b == part[n + 1]
      <3>1. a[0] = b[0]
        BY <2>2
      <3>2. \A k \in 1..n : a[k - 1] = b[k - 1] => a[k] = b[k]
        BY <2>3
      <3>. HIDE DEF a, b
      <3>3. \A k \in 0..n : a[k] = b[k]
        <4>1. GoAlike(a, b, n)
          BY <3>1, <3>2 DEF GoAlike
        <4>2. Alike(a, b, n)
          BY <4>1, RecursionsAgree
        <4>. QED  BY <4>2 DEF Alike
      <3>. QED  BY <3>3 DEF a, b
    <2>. QED  BY <2>4
  <1>6. g \in [Nat -> X]
    <2>1. ASSUME NEW n \in Nat PROVE part[n][n] \in X
      BY <1>4
    <2>. QED  BY <2>1
  <1>7. g[0] = first
    BY <1>4
  <1>8. ASSUME NEW k \in Nat PROVE g[k + 1] = F[k][g[k]]
    <2>1. k + 1 \in Nat /\ k + 1 \in 1..(k + 1) /\ (k + 1) - 1 = k
      OBVIOUS
    <2>2. part[k + 1][k + 1] = F[k][part[k + 1][k]]
      BY <1>4, <2>1
    <2>3. g[k + 1] = part[k + 1][k + 1] /\ g[k] = part[k][k]
      BY <2>1
    <2>. QED  BY <1>5, <2>2, <2>3
  <1>. QED
    <2>. HIDE DEF g
    <2>. QED  BY <1>6, <1>7, <1>8 DEF Iterates

\* u is s and behind it t.
Follows(s, t, u) ==
  /\ Len(s) \in Nat /\ Len(t) \in Nat /\ Len(u) = Len(s) + Len(t)
  /\ \A j \in 1..Len(s) : u[j] = s[j]
  /\ \A j \in 1..Len(t) : u[Len(s) + j] = t[j]

\* What is in two sequences joined.
LEMMA JoinedTwo ==
  \A S, s, t : s \in Seq(S) /\ t \in Seq(S) => s \o t \in Seq(S) /\ Follows(s, t, s \o t)
  <1>. SUFFICES ASSUME NEW S, NEW s \in Seq(S), NEW t \in Seq(S)
                PROVE  s \o t \in Seq(S) /\ Follows(s, t, s \o t)
    OBVIOUS
  <1>1. s \o t \in Seq(S) /\ Len(s) \in Nat /\ Len(t) \in Nat /\ Len(s \o t) = Len(s) + Len(t)
    OBVIOUS
  <1>2. \A j \in 1..Len(s) : (s \o t)[j] = s[j]
    OBVIOUS
  <1>3. ASSUME NEW j \in 1..Len(t) PROVE (s \o t)[Len(s) + j] = t[j]
    OBVIOUS
  <1>. QED  BY <1>1, <1>2, <1>3 DEF Follows

\* The sequences of s joined one by one.
Joins(s, joined) ==
  /\ joined[0] = <<>>
  /\ \A i \in 1..Len(s) : joined[i] = joined[i - 1] \o s[i]

\* Each sequence is found behind those before it.
IsJoining(s, joined, S) ==
  /\ joined \in [0..Len(s) -> Seq(S)]
  /\ Joins(s, joined)
  /\ \A k \in 0..Len(s) : \A i \in 1..k :
       /\ Len(joined[i]) = Len(joined[i - 1]) + Len(s[i])
       /\ Len(joined[i]) <= Len(joined[k])
       /\ \A j \in 1..Len(s[i]) : joined[k][Len(joined[i - 1]) + j] = s[i][j]

\* Sequences can be joined one by one.
LEMMA JoinedSequences == \A S, s : s \in Seq(Seq(S)) => \E joined : IsJoining(s, joined, S)
  <1>. SUFFICES ASSUME NEW S, NEW s \in Seq(Seq(S)) PROVE \E joined : IsJoining(s, joined, S)
    OBVIOUS
  <1>. DEFINE n == Len(s)
              F == [k \in Nat |->
                      [q \in Seq(S) |-> IF k + 1 \in 1..n THEN q \o s[k + 1] ELSE q]]
  <1>1. n \in Nat /\ \A i \in 1..n : s[i] \in Seq(S)
    OBVIOUS
  <1>2. <<>> \in Seq(S)
    OBVIOUS
  <1>3. F \in [Nat -> [Seq(S) -> Seq(S)]]
    <2>1. ASSUME NEW k \in Nat, NEW q \in Seq(S)
          PROVE  (IF k + 1 \in 1..n THEN q \o s[k + 1] ELSE q) \in Seq(S)
      <3>1. CASE k + 1 \in 1..n
        <4>1. s[k + 1] \in Seq(S)
          BY <1>1, <3>1
        <4>2. q \o s[k + 1] \in Seq(S)
          BY <4>1
        <4>. QED  BY <3>1, <4>2
      <3>2. CASE ~(k + 1 \in 1..n)
        BY <3>2
      <3>. QED  BY <3>1, <3>2
    <2>. QED  BY <2>1
  <1>4. PICK g : Iterates(g, Seq(S), <<>>, F)
    <2>1. IsStep(F, Seq(S))
      <3>. HIDE DEF F
      <3>. QED  BY <1>3 DEF IsStep
    <2>. HIDE DEF F
    <2>. QED  BY <1>2, <2>1, PrimitiveRecursion, Zenon
  <1>b. g \in [Nat -> Seq(S)] /\ g[0] = <<>> /\ \A k \in Nat : g[k + 1] = F[k][g[k]]
    <2>. HIDE DEF F
    <2>. QED  BY <1>4 DEF Iterates
  <1>5. ASSUME NEW i \in 1..n PROVE g[i] = g[i - 1] \o s[i] /\ g[i - 1] \in Seq(S) /\ g[i] \in Seq(S)
    <2>1. i - 1 \in Nat /\ (i - 1) + 1 = i /\ i \in Nat
      BY <1>1
    <2>2. g[i] = F[i - 1][g[i - 1]] /\ g[i - 1] \in Seq(S)
      <3>. HIDE DEF F
      <3>. QED  BY <1>b, <2>1
    <2>3. F[i - 1][g[i - 1]] = g[i - 1] \o s[i]
      BY <2>1, <2>2
    <2>. QED  BY <1>b, <2>1, <2>2, <2>3
  <1>. HIDE DEF F
  <1>. DEFINE joined == [k \in 0..n |-> g[k]]
              Found(k, i) == /\ Len(g[i]) = Len(g[i - 1]) + Len(s[i])
                             /\ Len(g[i]) <= Len(g[k])
                             /\ \A j \in 1..Len(s[i]) : g[k][Len(g[i - 1]) + j] = s[i][j]
              T == {k \in Nat : k <= n => \A i \in 1..k : Found(k, i)}
  <1>. HIDE DEF n, Found
  <1>6. 0 \in T
    <2>1. \A i \in 1..0 : FALSE
      OBVIOUS
    <2>. QED  BY <2>1
  <1>7. ASSUME NEW k \in Nat, k \in T PROVE k + 1 \in T
    <2>1. SUFFICES ASSUME k + 1 <= n PROVE \A i \in 1..(k + 1) : Found(k + 1, i)
      OBVIOUS
    <2>2. k + 1 \in 1..n /\ (k + 1) - 1 = k /\ k <= n
      BY <1>1, <2>1
    <2>. DEFINE a == g[k]
                b == s[k + 1]
    <2>3. g[k + 1] = a \o b /\ a \in Seq(S) /\ b \in Seq(S)
      BY <1>1, <1>5, <2>2
    <2>4. /\ Len(a) \in Nat /\ Len(b) \in Nat
          /\ Len(a \o b) = Len(a) + Len(b)
          /\ \A j \in 1..Len(a) : (a \o b)[j] = a[j]
          /\ \A j \in 1..Len(b) : (a \o b)[Len(a) + j] = b[j]
      <3>. HIDE DEF a, b
      <3>1. Follows(a, b, a \o b)
        BY <2>3, JoinedTwo
      <3>. QED  BY <3>1 DEF Follows
    <2>5. Found(k + 1, k + 1)
      <3>. HIDE DEF a, b
      <3>1. Len(g[k + 1]) = Len(a) + Len(b) /\ Len(g[k + 1]) <= Len(g[k + 1])
        BY <2>3, <2>4
      <3>2. \A j \in 1..Len(b) : g[k + 1][Len(a) + j] = b[j]
        BY <2>3, <2>4
      <3>. QED  BY <2>2, <3>1, <3>2 DEF Found, a, b
    <2>6. ASSUME NEW i \in 1..k PROVE Found(k + 1, i)
      <3>1. i \in 1..n
        BY <1>1, <2>2
      <3>2. Found(k, i)
        BY <1>7, <2>2
      <3>3. Len(g[i - 1]) \in Nat /\ Len(g[i]) \in Nat /\ Len(s[i]) \in Nat
        <4>1. g[i - 1] \in Seq(S) /\ g[i] \in Seq(S) /\ s[i] \in Seq(S)
          BY <1>1, <1>5, <3>1
        <4>2. \A q \in Seq(S) : Len(q) \in Nat
          OBVIOUS
        <4>. QED  BY <4>1, <4>2, Zenon
      <3>. DEFINE before == Len(g[i - 1])
                  len == Len(s[i])
      <3>4. /\ before \in Nat /\ len \in Nat /\ Len(g[i]) = before + len /\ Len(g[i]) <= Len(a)
            /\ \A j \in 1..len : a[before + j] = s[i][j]
        BY <3>2, <3>3 DEF Found
      <3>. HIDE DEF before, len, a, b
      <3>5. Len(g[i]) <= Len(g[k + 1])
        BY <2>3, <2>4, <3>4
      <3>6. ASSUME NEW j \in 1..len PROVE g[k + 1][before + j] = s[i][j]
        <4>1. before + j \in 1..Len(a)
          BY <2>4, <3>4
        <4>2. g[k + 1][before + j] = a[before + j]
          BY <2>3, <2>4, <4>1
        <4>. QED  BY <3>4, <4>2
      <3>. QED  BY <3>4, <3>5, <3>6 DEF Found, before, len
    <2>7. ASSUME NEW i \in 1..(k + 1) PROVE i = k + 1 \/ i \in 1..k
      OBVIOUS
    <2>. QED  BY <2>5, <2>6, <2>7
  <1>8. Nat \subseteq T
    <2>. HIDE DEF T
    <2>. QED  BY <1>6, <1>7, SetInduction
  <1>9. ASSUME NEW k \in 0..n, NEW i \in 1..k PROVE Found(k, i)
    <2>1. k \in T /\ k <= n
      BY <1>1, <1>8
    <2>. QED  BY <2>1
  <1>10. joined \in [0..n -> Seq(S)] /\ Joins(s, joined)
    <2>1. joined[0] = <<>> /\ joined \in [0..n -> Seq(S)]
      BY <1>1, <1>b
    <2>2. ASSUME NEW i \in 1..n PROVE joined[i] = joined[i - 1] \o s[i]
      <3>1. i \in 0..n /\ i - 1 \in 0..n
        BY <1>1
      <3>2. joined[i] = g[i] /\ joined[i - 1] = g[i - 1]
        BY <3>1
      <3>. QED  BY <1>5, <3>2
    <2>. HIDE DEF joined
    <2>. QED  BY <2>1, <2>2 DEF Joins, n
  <1>11. ASSUME NEW k \in 0..n, NEW i \in 1..k
         PROVE  joined[k] = g[k] /\ joined[i] = g[i] /\ joined[i - 1] = g[i - 1]
    BY <1>1
  <1>. HIDE DEF joined, Found
  <1>12. ASSUME NEW k \in 0..n, NEW i \in 1..k
         PROVE  /\ Len(joined[i]) = Len(joined[i - 1]) + Len(s[i])
                /\ Len(joined[i]) <= Len(joined[k])
                /\ \A j \in 1..Len(s[i]) : joined[k][Len(joined[i - 1]) + j] = s[i][j]
    <2>1. Found(k, i)
      BY <1>9
    <2>2. joined[k] = g[k] /\ joined[i] = g[i] /\ joined[i - 1] = g[i - 1]
      BY <1>11
    <2>. QED  BY <2>1, <2>2 DEF Found
  <1>13. IsJoining(s, joined, S)
    BY <1>10, <1>12 DEF IsJoining, n
  <1>. QED  BY <1>13

\* A function that joins the sequences of s by recursion, over the places of s only, joins
\* them as they are joined one by one.
LEMMA JoinedByFunction ==
  ASSUME NEW S, NEW s \in Seq(Seq(S)), Len(s) # 0,
         NEW joined \in [0..Len(s) -> Seq(S)], Joins(s, joined)
  PROVE  LET f == CHOOSE h : h = [i \in 1..Len(s) |-> IF i = 1 THEN s[i] ELSE h[i - 1] \o s[i]]
         IN  f[Len(s)] = joined[Len(s)]
  <1>. DEFINE n == Len(s)
              P(h) == h = [i \in 1..n |-> IF i = 1 THEN s[i] ELSE h[i - 1] \o s[i]]
              g == [i \in 1..n |-> joined[i]]
              f == CHOOSE h : P(h)
  <1>a. n \in Nat /\ \A i \in 1..n : s[i] \in Seq(S)
    OBVIOUS
  <1>b. joined[0] = <<>> /\ \A i \in 1..n : joined[i] = joined[i - 1] \o s[i]
    BY DEF Joins
  <1>c. n # 0
    OBVIOUS
  <1>. HIDE DEF n
  <1>2. joined[1] = s[1]
    <2>1. 1 \in 1..n /\ 1 - 1 = 0
      BY <1>a, <1>c
    <2>. DEFINE t == s[1]
    <2>2. joined[1] = <<>> \o t /\ t \in Seq(S)
      BY <1>a, <1>b, <2>1
    <2>. HIDE DEF t
    <2>3. <<>> \o t = t
      BY <2>2
    <2>. QED  BY <2>2, <2>3 DEF t
  <1>3. P(g)
    <2>1. ASSUME NEW i \in 1..n
          PROVE  g[i] = IF i = 1 THEN s[i] ELSE g[i - 1] \o s[i]
      <3>1. CASE i = 1
        BY <1>2, <3>1
      <3>2. CASE i # 1
        <4>1. i - 1 \in 1..n /\ g[i - 1] = joined[i - 1]
          BY <1>a, <3>2
        <4>2. joined[i] = joined[i - 1] \o s[i]
          BY <1>b
        <4>. QED  BY <3>2, <4>1, <4>2
      <3>. QED  BY <3>1, <3>2
    <2>. QED  BY <2>1
  <1>4. P(f)
    <2>. HIDE DEF P, g
    <2>. QED  BY <1>3
  <1>. HIDE DEF f
  <1>5. /\ \A i \in 1..n : f[i] = IF i = 1 THEN s[i] ELSE f[i - 1] \o s[i]
        /\ \A i \in 1..n : g[i] = IF i = 1 THEN s[i] ELSE g[i - 1] \o s[i]
    <2>. HIDE DEF g
    <2>. QED  BY <1>3, <1>4
  <1>. DEFINE a == [k \in 0..(n - 1) |-> f[k + 1]]
              b == [k \in 0..(n - 1) |-> g[k + 1]]
              top == n - 1
  <1>6. top \in Nat
    BY <1>a, <1>c
  <1>7. a[0] = b[0]
    <2>1. 0 \in 0..(n - 1) /\ 1 \in 1..n /\ 0 + 1 = 1
      BY <1>a, <1>c
    <2>2. f[1] = s[1] /\ g[1] = s[1]
      <3>. HIDE DEF g
      <3>. QED  BY <1>5, <2>1
    <2>. HIDE DEF g
    <2>. QED  BY <2>1, <2>2
  <1>8. ASSUME NEW k \in 1..top, a[k - 1] = b[k - 1] PROVE a[k] = b[k]
    <2>1. k \in 0..(n - 1) /\ k - 1 \in 0..(n - 1) /\ k + 1 \in 1..n /\ k + 1 # 1
                           /\ (k + 1) - 1 = k /\ (k - 1) + 1 = k
      BY <1>a
    <2>. HIDE DEF g
    <2>2. f[k] = g[k]
      BY <1>8, <2>1
    <2>3. f[k + 1] = f[k] \o s[k + 1] /\ g[k + 1] = g[k] \o s[k + 1]
      BY <1>5, <2>1
    <2>. QED  BY <2>1, <2>2, <2>3
  <1>. HIDE DEF a, b, top
  <1>9. \A k \in 0..top : a[k] = b[k]
    <2>1. GoAlike(a, b, top)
      BY <1>7, <1>8 DEF GoAlike
    <2>2. Alike(a, b, top)
      BY <1>6, <2>1, RecursionsAgree
    <2>. QED  BY <2>2 DEF Alike
  <1>10. f[n] = g[n]
    <2>. HIDE DEF g
    <2>1. top \in 0..top /\ top \in 0..(n - 1) /\ top + 1 = n
      BY <1>a, <1>6 DEF top
    <2>2. a[top] = f[n] /\ b[top] = g[n]
      BY <2>1 DEF a, b
    <2>. QED  BY <1>9, <2>1, <2>2
  <1>. QED  BY <1>a, <1>c, <1>10 DEF n, f, P

\* What a fold over sets of positions gives: the largest position is folded in last.
IsFold(h, n, X, base, F) ==
  /\ h \in [SUBSET (1..n) -> X] /\ h[{}] = base
  /\ \A s \in SUBSET (1..n) : \A m \in s :
       (\A y \in s : m >= y) => h[s] = F[m][h[s \ {m}]]

\* A fold over sets of positions exists: the value for a set is what remains of a walk over
\* all positions when those outside the set are passed over.
LEMMA FoldExists ==
  \A X, base, F : base \in X /\ IsStep(F, X) => \A n \in Nat : \E h : IsFold(h, n, X, base, F)
  <1>. SUFFICES ASSUME NEW X, NEW base \in X, NEW F, IsStep(F, X), NEW n \in Nat
                PROVE  \E h : IsFold(h, n, X, base, F)
    OBVIOUS
  <1>a. F \in [Nat -> [X -> X]]
    BY DEF IsStep
  <1>. DEFINE S == SUBSET (1..n)
              Y == [S -> X]
              G == [k \in Nat |->
                      [a \in Y |-> [s \in S |-> IF k + 1 \in s THEN F[k + 1][a[s]] ELSE a[s]]]]
              none == [s \in S |-> base]
  <1>1. none \in Y
    OBVIOUS
  <1>2. G \in [Nat -> [Y -> Y]]
    <2>1. ASSUME NEW k \in Nat, NEW a \in Y, NEW s \in S
          PROVE  (IF k + 1 \in s THEN F[k + 1][a[s]] ELSE a[s]) \in X
      <3>1. a[s] \in X /\ k + 1 \in Nat
        OBVIOUS
      <3>2. F[k + 1] \in [X -> X]
        BY <1>a, <3>1
      <3>3. F[k + 1][a[s]] \in X
        BY <3>1, <3>2
      <3>. QED  BY <3>1, <3>3
    <2>. HIDE DEF S
    <2>. QED  BY <2>1
  <1>3. PICK g : Iterates(g, Y, none, G)
    <2>1. IsStep(G, Y)
      <3>. HIDE DEF G, Y
      <3>. QED  BY <1>2 DEF IsStep
    <2>. HIDE DEF G, Y, none
    <2>. QED  BY <1>1, <2>1, PrimitiveRecursion, Zenon
  <1>4. g \in [Nat -> Y] /\ g[0] = none /\ \A k \in Nat : g[k + 1] = G[k][g[k]]
    <2>. HIDE DEF G, Y, none
    <2>. QED  BY <1>3 DEF Iterates
  <1>5. ASSUME NEW k \in Nat, NEW s \in S
        PROVE  g[k + 1][s] = IF k + 1 \in s THEN F[k + 1][g[k][s]] ELSE g[k][s]
    <2>1. g[k] \in Y /\ g[k + 1] = G[k][g[k]]
      <3>. HIDE DEF G, Y, none
      <3>. QED  BY <1>4
    <2>2. G[k] = [a \in Y |-> [s2 \in S |-> IF k + 1 \in s2 THEN F[k + 1][a[s2]] ELSE a[s2]]]
      OBVIOUS
    <2>. HIDE DEF G, S
    <2>. QED  BY <2>1, <2>2
  <1>6. \A s \in S : g[0][s] = base
    BY <1>4
  <1>7. \A k \in Nat : g[k] \in Y
    BY <1>4
  <1>. HIDE DEF G
  <1>8. ASSUME NEW m \in Nat, NEW s \in S, \A y \in s : m >= y, m <= n
        PROVE  g[n][s] = g[m][s]
    <2>. DEFINE T == {k \in Nat : m <= k => g[k][s] = g[m][s]}
    <2>1. 0 \in T
      <3>1. m <= 0 => m = 0
        OBVIOUS
      <3>. QED  BY <3>1
    <2>2. ASSUME NEW k \in Nat, k \in T PROVE k + 1 \in T
      <3>1. CASE m <= k
        <4>1. k + 1 \notin s
          BY <1>8, <3>1
        <4>. QED  BY <1>5, <2>2, <3>1, <4>1
      <3>2. CASE ~(m <= k)
        <4>1. m <= k + 1 => m = k + 1
          BY <3>2
        <4>. QED  BY <4>1
      <3>. QED  BY <3>1, <3>2
    <2>3. n \in T
      <3>. HIDE DEF T
      <3>. QED  BY <2>1, <2>2, SetInduction
    <2>. QED  BY <1>8, <2>3
  <1>9. ASSUME NEW m \in Nat, NEW s \in S, NEW t \in S, \A y \in 1..m : y \in s <=> y \in t
        PROVE  g[m][s] = g[m][t]
    <2>. DEFINE T == {k \in Nat : k <= m => g[k][s] = g[k][t]}
    <2>1. 0 \in T
      BY <1>6
    <2>2. ASSUME NEW k \in Nat, k \in T PROVE k + 1 \in T
      <3>1. SUFFICES ASSUME k + 1 <= m PROVE g[k + 1][s] = g[k + 1][t]
        OBVIOUS
      <3>2. k + 1 \in 1..m /\ k <= m
        BY <3>1
      <3>3. g[k][s] = g[k][t] /\ (k + 1 \in s <=> k + 1 \in t)
        BY <1>9, <2>2, <3>2
      <3>. QED  BY <1>5, <3>3
    <2>3. m \in T
      <3>. HIDE DEF T
      <3>. QED  BY <2>1, <2>2, SetInduction
    <2>. QED  BY <2>3
  <1>10. ASSUME NEW s \in S, NEW m \in s, \A y \in s : m >= y
         PROVE  g[n][s] = F[m][g[n][s \ {m}]]
    <2>. DEFINE t == s \ {m}
    <2>1. m \in 1..n /\ m \in Nat /\ m <= n /\ m - 1 \in Nat /\ m - 1 <= n /\ (m - 1) + 1 = m
      OBVIOUS
    <2>2. t \in S /\ m \notin t
      OBVIOUS
    <2>3. g[n][s] = g[m][s]
      BY <1>8, <1>10, <2>1
    <2>4. g[m][s] = F[m][g[m - 1][s]]
      BY <1>5, <2>1
    <2>5. \A y \in 1..(m - 1) : y \in s <=> y \in t
      BY <2>1
    <2>. HIDE DEF t, S
    <2>6. g[m - 1][s] = g[m - 1][t]
      BY <1>9, <2>1, <2>2, <2>5
    <2>7. \A y \in t : m - 1 >= y
      <3>1. ASSUME NEW y \in t PROVE m - 1 >= y
        <4>1. y \in s /\ y # m
          BY <2>2 DEF t
        <4>2. y \in Nat /\ m >= y
          BY <1>10, <4>1 DEF S
        <4>. QED  BY <2>1, <4>1, <4>2
      <3>. QED  BY <3>1
    <2>8. g[n][t] = g[m - 1][t]
      BY <1>8, <2>1, <2>2, <2>7
    <2>. QED  BY <2>3, <2>4, <2>6, <2>8 DEF t
  <1>11. g[n][{}] = base
    <2>1. {} \in S /\ 0 \in Nat
      OBVIOUS
    <2>2. g[n][{}] = g[0][{}]
      <3>. HIDE DEF S
      <3>. QED  BY <1>8, <2>1
    <2>. QED  BY <1>6, <2>1, <2>2
  <1>12. IsFold(g[n], n, X, base, F)
    <2>. DEFINE f == g[n]
    <2>1. f \in [SUBSET (1..n) -> X] /\ f[{}] = base
      BY <1>7, <1>11
    <2>2. ASSUME NEW s \in SUBSET (1..n), NEW m \in s, \A y \in s : m >= y
          PROVE  f[s] = F[m][f[s \ {m}]]
      BY <1>10, <2>2
    <2>. HIDE DEF f
    <2>3. IsFold(f, n, X, base, F)
      BY <2>1, <2>2 DEF IsFold
    <2>. QED  BY <2>3 DEF f
  <1>. QED  BY <1>12
=============================================================================
