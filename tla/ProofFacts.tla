----------------------------- MODULE ProofFacts -----------------------------
(* What the proofs use in place of induction: the least element of a set of  *)
(* numbers, and with it the functions behind the folds of sequences and      *)
(* sets; remainders.                                                         *)
EXTENDS Integers, Sequences, FiniteSets, FiniteSetTheorems, WellFoundedInduction, TLAPS

\* A non-empty set of naturals has a least element.
LEMMA LeastNatural ==
  ASSUME NEW T, T \subseteq Nat, T # {}
  PROVE  \E m \in T : \A k \in T : m <= k
<1>1. PICK m \in T : \A k \in T : <<k, m>> \notin OpToRel(<, Nat)
  BY WFMin, NatLessThanWellFounded, Zenon
<1>2. \A k \in T : <<k, m>> \in Nat \X Nat
  OBVIOUS
<1>3. \A k \in T : ~(k < m)
  BY <1>1, <1>2, Zenon DEF OpToRel
<1> QED
  BY <1>3

\* A bounded set of naturals has a greatest element.
LEMMA GreatestNatural ==
  ASSUME NEW T, T \subseteq Nat, T # {}, NEW n \in Nat, \A k \in T : k <= n
  PROVE  \E m \in T : \A k \in T : k <= m
<1> DEFINE U == {n - k : k \in T}
<1>1. U \subseteq Nat /\ U # {}
  <2>1. \A k \in T : n - k \in Nat
    OBVIOUS
  <2>2. QED
    BY <2>1
<1>2. PICK u \in U : \A k \in U : u <= k
  <2> HIDE DEF U
  <2>1. QED
    BY <1>1, LeastNatural
<1>3. PICK m \in T : u = n - m
  BY <1>2
<1>4. \A k \in T : m >= k
  <2>1. ASSUME NEW k \in T PROVE m >= k
    <3>1. n - k \in U /\ k \in Nat /\ m \in Nat
      OBVIOUS
    <3>2. n - m <= n - k
      BY <1>2, <1>3, <3>1
    <3>3. QED
      BY <3>1, <3>2
  <2>2. QED
    BY <2>1
<1>5. QED
  BY <1>4

\* f maps every number up to n to what the first elements of u give together.
Concatenations(s, n, f) == f = [i \in 1..n |-> IF i = 1 THEN s[i] ELSE f[i - 1] \o s[i]]

LEMMA ConcatenationsExist ==
  ASSUME NEW s
  PROVE  \A n \in Nat : \E f : Concatenations(s, n, f)
<1> DEFINE T == {n \in Nat : ~\E f : Concatenations(s, n, f)}
<1>1. SUFFICES ASSUME T # {} PROVE FALSE
  OBVIOUS
<1>2. PICK n \in T : \A k \in T : n <= k
  BY <1>1, LeastNatural
<1>3. CASE n = 0
  <2> DEFINE f == [i \in 1..0 |-> i]
  <2>1. Concatenations(s, 0, f)
    BY DEF Concatenations
  <2> HIDE DEF f
  <2>2. QED
    BY <1>2, <1>3, <2>1
<1>4. CASE n # 0
  <2>1. n - 1 \in Nat /\ n \in Nat
    BY <1>2, <1>4
  <2>2. n - 1 \notin T
    BY <1>2, <2>1
  <2>3. PICK f : Concatenations(s, n - 1, f)
    BY <2>1, <2>2
  <2> DEFINE g == [i \in 1..n |-> IF i = 1 THEN s[i] ELSE f[i - 1] \o s[i]]
  <2>4. \A i \in 1..n - 1 : g[i] = f[i]
    <3>1. \A i \in 1..n - 1 : f[i] = IF i = 1 THEN s[i] ELSE f[i - 1] \o s[i]
      BY <2>3 DEF Concatenations
    <3>2. QED
      BY <2>1, <3>1
  <2>5. g = [i \in 1..n |-> IF i = 1 THEN s[i] ELSE g[i - 1] \o s[i]]
    <3>1. ASSUME NEW i \in 1..n, i # 1 PROVE g[i - 1] = f[i - 1]
      <4>1. i - 1 \in 1..n - 1
        BY <2>1, <3>1
      <4> HIDE DEF g
      <4>2. QED
        BY <2>4, <4>1
    <3> DEFINE h == [i \in 1..n |-> IF i = 1 THEN s[i] ELSE g[i - 1] \o s[i]]
    <3>2. \A i \in 1..n : g[i] = h[i]
      BY <3>1
    <3>3. g = [i \in 1..n |-> g[i]] /\ h = [i \in 1..n |-> h[i]]
      OBVIOUS
    <3> HIDE DEF g, h
    <3>4. g = h
      BY <3>2, <3>3
    <3>5. QED
      BY <3>4 DEF h
  <2> HIDE DEF g
  <2>6. \E h : Concatenations(s, n, h)
    BY <2>5 DEF Concatenations
  <2>7. QED
    BY <1>2, <2>6
<1>5. QED
  BY <1>3, <1>4

LEMMA ConcatenationsAgree ==
  ASSUME NEW s, NEW u, NEW n \in Nat, NEW m \in Nat, n <= m, NEW f, NEW g,
         Concatenations(s, n, f), Concatenations(u, m, g), \A i \in 1..n : s[i] = u[i]
  PROVE  \A i \in 1..n : f[i] = g[i]
<1> DEFINE T == {i \in 1..n : f[i] # g[i]}
<1>1. SUFFICES ASSUME T # {} PROVE FALSE
  OBVIOUS
<1>2. PICK i \in T : \A k \in T : i <= k
  <2>1. T \subseteq Nat
    OBVIOUS
  <2>2. QED
    BY <1>1, <2>1, LeastNatural
<1>3. i \in 1..n /\ i \in 1..m /\ f[i] # g[i] /\ s[i] = u[i]
  BY <1>2
<1>4. /\ f[i] = IF i = 1 THEN s[i] ELSE f[i - 1] \o s[i]
      /\ g[i] = IF i = 1 THEN u[i] ELSE g[i - 1] \o u[i]
  BY <1>3 DEF Concatenations
<1>5. CASE i = 1
  BY <1>3, <1>4, <1>5
<1>6. CASE i # 1
  <2>1. i - 1 \in 1..n /\ i - 1 < i
    BY <1>3, <1>6
  <2>2. f[i - 1] = g[i - 1]
    BY <1>2, <2>1
  <2>3. QED
    BY <1>3, <1>4, <1>6, <2>2
<1>7. QED
  BY <1>5, <1>6
-----------------------------------------------------------------------------
(* Remainders.                                                               *)

LEMMA DivisionIs ==
  ASSUME NEW m \in Nat \ {0}
  PROVE  \A a \in Int : a % m \in 0..m - 1 /\ \E q \in Int : a = m * q + (a % m)
<1>1. ASSUME NEW a \in Int
      PROVE  a % m \in 0..m - 1 /\ a \div m \in Int /\ a = m * (a \div m) + (a % m)
  OBVIOUS
<1>2. QED
  BY <1>1

LEMMA RemainderUnique ==
  ASSUME NEW m \in Nat \ {0}
  PROVE  \A q, k \in Int : \A r, s \in 0..m - 1 : m * q + r = m * k + s => r = s
<1>1. SUFFICES ASSUME NEW q \in Int, NEW k \in Int, NEW r \in 0..m - 1, NEW s \in 0..m - 1,
                      m * q + r = m * k + s
               PROVE  r = s
  OBVIOUS
<1>2. m * (q - k) = s - r
  BY <1>1
<1>3. CASE q - k >= 1
  <2>1. m * (q - k) >= m
    BY <1>3
  <2>2. QED
    BY <1>2, <2>1
<1>4. CASE q - k <= -1
  <2>1. m * (q - k) <= -m
    BY <1>4
  <2>2. QED
    BY <1>2, <2>1
<1>5. CASE q = k
  BY <1>1, <1>5
<1>6. QED
  BY <1>3, <1>4, <1>5

LEMMA RemainderSame ==
  ASSUME NEW m \in Nat \ {0}, NEW a \in Int, NEW b \in Int, NEW n \in Int, n % m = 0, b = a + n
  PROVE  b % m = a % m
<1>1. PICK i \in Int : n = m * i
  <2>1. \E q \in Int : n = m * q + (n % m)
    BY DivisionIs
  <2>2. QED
    BY <2>1
<1>2. PICK j \in Int : a = m * j + (a % m)
  BY DivisionIs
<1>3. PICK k \in Int : b = m * k + (b % m)
  BY DivisionIs
<1>4. a % m \in 0..m - 1 /\ b % m \in 0..m - 1
  BY DivisionIs
<1> DEFINE r == a % m
           s == b % m
<1>5. b = m * (i + j) + r
  BY <1>1, <1>2, <1>4
<1>6. r \in 0..m - 1 /\ s \in 0..m - 1 /\ m * (i + j) + r = m * k + s /\ i + j \in Int
  BY <1>3, <1>4, <1>5
<1> HIDE DEF r, s
<1>7. r = s
  BY <1>6, RemainderUnique
<1>8. QED
  BY <1>7 DEF r, s

\* Fewer blocks apart than the buffer holds, two blocks do not share a slot.
LEMMA SlotsApart ==
  ASSUME NEW m \in Nat \ {0}, NEW a \in Int, NEW b \in Int, b - a \in 1..m - 1
  PROVE  b % m # a % m
<1>1. SUFFICES ASSUME b % m = a % m PROVE FALSE
  OBVIOUS
<1>2. PICK j \in Int : a = m * j + (a % m)
  BY DivisionIs
<1>3. PICK k \in Int : b = m * k + (b % m)
  BY DivisionIs
<1>4. a % m \in 0..m - 1
  BY DivisionIs
<1>5. m * j + (b - a) = m * k + 0 /\ b - a \in 0..m - 1 /\ 0 \in 0..m - 1
  BY <1>1, <1>2, <1>3, <1>4
<1>6. b - a = 0
  BY <1>5, RemainderUnique
<1>7. QED
  BY <1>6

\* A number has one quotient and one remainder.
LEMMA QuotientIs ==
  ASSUME NEW m \in Nat \ {0}, NEW q \in Int, NEW r \in 0..m - 1, NEW a \in Int, a = m * q + r
  PROVE  a % m = r /\ a \div m = q
<1>1. a % m \in 0..m - 1 /\ a \div m \in Int /\ a = m * (a \div m) + (a % m)
  OBVIOUS
<1> DEFINE s == a % m
           k == a \div m
<1>2. s \in 0..m - 1 /\ k \in Int /\ m * q + r = m * k + s
  BY <1>1
<1> HIDE DEF s, k
<1>3. r = s
  BY <1>2, RemainderUnique
<1>4. m * q = m * k
  BY <1>2, <1>3
<1>5. q = k
  BY <1>2, <1>4
<1>6. QED
  BY <1>3, <1>5 DEF s, k

-----------------------------------------------------------------------------
\* Among finite sets there is a smallest one.
LEMMA SmallestSet ==
  ASSUME NEW W, W # {}, \A s \in W : IsFiniteSet(s)
  PROVE  \E m \in W : \A s \in W : ~(Cardinality(s) < Cardinality(m))
<1> DEFINE sizes == {Cardinality(s) : s \in W}
<1>1. \A s \in W : Cardinality(s) \in Nat
  BY FS_CardinalityType
<1>2. PICK n \in sizes : \A k \in sizes : n <= k
  <2>1. sizes \subseteq Nat /\ sizes # {}
    BY <1>1
  <2> HIDE DEF sizes
  <2>2. QED
    BY <2>1, LeastNatural
<1>3. PICK m \in W : n = Cardinality(m)
  BY <1>2
<1>4. \A s \in W : Cardinality(m) <= Cardinality(s)
  BY <1>2, <1>3
<1>5. QED
  BY <1>1, <1>4

-----------------------------------------------------------------------------
(* Sums over finite sets, as the community modules define them: by taking    *)
(* out one chosen element after the other.                                   *)

Pick(s) == CHOOSE x \in s : TRUE

\* g maps every subset of S to the sum of f over it.
Sums(f, S, g) == g = [s \in SUBSET S |-> IF s = {} THEN 0 ELSE f[Pick(s)] + g[s \ {Pick(s)}]]

LEMMA SumsExist ==
  ASSUME NEW f, NEW S, IsFiniteSet(S)
  PROVE  \E g : Sums(f, S, g)
<1> DEFINE Small(n) == {s \in SUBSET S : Cardinality(s) <= n}
           Upto(n, g) == g = [s \in Small(n) |->
                                IF s = {} THEN 0 ELSE f[Pick(s)] + g[s \ {Pick(s)}]]
           T == {n \in Nat : ~\E g : Upto(n, g)}
<1>0. \A s \in SUBSET S : IsFiniteSet(s) /\ Cardinality(s) \in Nat /\ Cardinality(s) <= Cardinality(S)
  BY FS_Subset, FS_CardinalityType
<1>1. \A s \in SUBSET S : s # {} =>
        Pick(s) \in s /\ s \ {Pick(s)} \in SUBSET S /\ Cardinality(s \ {Pick(s)}) = Cardinality(s) - 1
  <2>1. SUFFICES ASSUME NEW s \in SUBSET S, s # {}
                 PROVE  Pick(s) \in s /\ Cardinality(s \ {Pick(s)}) = Cardinality(s) - 1
    OBVIOUS
  <2>2. Pick(s) \in s
    BY <2>1 DEF Pick
  <2>3. QED
    BY <1>0, <2>2, FS_RemoveElement
<1>2. T = {}
  <2>1. SUFFICES ASSUME T # {} PROVE FALSE
    OBVIOUS
  <2>2. PICK n \in T : \A k \in T : n <= k
    <3>1. T \subseteq Nat
      OBVIOUS
    <3> HIDE DEF T
    <3>2. QED
      BY <2>1, <3>1, LeastNatural
  <2>3. CASE n = 0
    <3> DEFINE g == [s \in Small(0) |-> 0]
    <3>1. \A s \in Small(0) : s = {}
      BY <1>0, FS_EmptySet
    <3>2. Upto(0, g)
      BY <3>1
    <3> HIDE DEF g
    <3>3. QED
      BY <2>2, <2>3, <3>2
  <2>4. CASE n # 0
    <3>1. n - 1 \in Nat /\ n \in Nat
      BY <2>2, <2>4
    <3>2. PICK g : Upto(n - 1, g)
      <4>1. n - 1 \notin T
        <5> HIDE DEF T
        <5>1. QED
          BY <2>2, <3>1
      <4>2. QED
        BY <3>1, <4>1
    <3> DEFINE h == [s \in Small(n) |-> IF s = {} THEN 0 ELSE f[Pick(s)] + g[s \ {Pick(s)}]]
               step(k) == [s \in Small(n) |-> IF s = {} THEN 0 ELSE f[Pick(s)] + k[s \ {Pick(s)}]]
    <3>3. \A s \in Small(n - 1) : s \in Small(n) /\ h[s] = g[s]
      <4>1. \A s \in Small(n - 1) : g[s] = IF s = {} THEN 0 ELSE f[Pick(s)] + g[s \ {Pick(s)}]
        BY <3>2
      <4>2. \A s \in Small(n - 1) : s \in Small(n)
        BY <1>0, <3>1
      <4>3. QED
        BY <4>1, <4>2
    <3>4. \A s \in Small(n) : s # {} => s \ {Pick(s)} \in Small(n - 1)
      BY <1>0, <1>1, <3>1
    <3>5. \A s \in Small(n) : s # {} => h[s \ {Pick(s)}] = g[s \ {Pick(s)}]
      <4> HIDE DEF h, Small
      <4>1. QED
        BY <3>3, <3>4
    <3>6. h = step(h)
      <4>1. \A s \in Small(n) : h[s] = step(h)[s]
        <5>1. \A s \in Small(n) : h[s] = IF s = {} THEN 0 ELSE f[Pick(s)] + g[s \ {Pick(s)}]
          OBVIOUS
        <5> HIDE DEF h, Small
        <5>2. QED
          BY <3>5, <5>1
      <4>2. h = [s \in Small(n) |-> h[s]] /\ step(h) = [s \in Small(n) |-> step(h)[s]]
        <5> HIDE DEF Small
        <5>1. QED
          OBVIOUS
      <4> HIDE DEF h, step, Small
      <4>3. QED
        BY <4>1, <4>2
    <3>7. Upto(n, h)
      <4> HIDE DEF h, Small
      <4>1. QED
        BY <3>6
    <3> HIDE DEF h
    <3>8. \E k : Upto(n, k)
      BY <3>7
    <3>9. QED
      BY <2>2, <3>8
  <2>5. QED
    BY <2>3, <2>4
<1>3. PICK g : Upto(Cardinality(S), g)
  BY <1>0, <1>2
<1>4. Small(Cardinality(S)) = SUBSET S
  BY <1>0
<1>5. Sums(f, S, g)
  BY <1>3, <1>4 DEF Sums
<1>6. QED
  BY <1>5

\* What a sum over a finite set is.
LEMMA SumsAre ==
  ASSUME NEW f, NEW S, IsFiniteSet(S), NEW g, Sums(f, S, g), \A x \in S : f[x] \in Nat
  PROVE  \A s \in SUBSET S :
           /\ g[s] \in Nat
           /\ s = {} => g[s] = 0
           /\ \A x \in s : g[s] = f[x] + g[s \ {x}]
<1> DEFINE Right(s) == /\ g[s] \in Nat
                       /\ s = {} => g[s] = 0
                       /\ \A x \in s : g[s] = f[x] + g[s \ {x}]
           W == {s \in SUBSET S : ~Right(s)}
<1>0. \A s \in SUBSET S : IsFiniteSet(s) /\ Cardinality(s) \in Nat
  BY FS_Subset, FS_CardinalityType
<1>1. \A s \in SUBSET S : \A x \in s : s \ {x} \in SUBSET S /\ Cardinality(s \ {x}) = Cardinality(s) - 1
  BY <1>0, FS_RemoveElement
<1>2. \A s \in SUBSET S : g[s] = IF s = {} THEN 0 ELSE f[Pick(s)] + g[s \ {Pick(s)}]
  BY DEF Sums
<1>3. W = {}
  <2>1. SUFFICES ASSUME W # {} PROVE FALSE
    OBVIOUS
  <2>2. PICK s \in W : \A t \in W : ~(Cardinality(t) < Cardinality(s))
    <3>1. \A t \in W : IsFiniteSet(t)
      BY <1>0
    <3> HIDE DEF W
    <3>2. QED
      BY <2>1, <3>1, SmallestSet
  <2>3. s \in SUBSET S
    OBVIOUS
  <2> DEFINE y == Pick(s)
  <2>4. CASE s = {}
    BY <1>2, <2>4
  <2>5. CASE s # {}
    <3>1. y \in s
      BY <2>5 DEF Pick
    <3>2. g[s] = f[y] + g[s \ {y}] /\ f[y] \in Nat
      BY <1>2, <2>3, <2>5, <3>1
    <3> HIDE DEF y
    <3>3. \A x \in s : Right(s \ {x})
      <4>1. ASSUME NEW x \in s PROVE s \ {x} \notin W /\ s \ {x} \in SUBSET S
        <5>1. Cardinality(s \ {x}) < Cardinality(s)
          BY <1>0, <1>1, <2>3
        <5> HIDE DEF W
        <5>2. QED
          BY <2>2, <2>3, <5>1
      <4> HIDE DEF Right
      <4>2. QED
        BY <4>1
    <3>4. ASSUME NEW x \in s PROVE g[s] = f[x] + g[s \ {x}]
      <4>1. CASE x = y
        BY <3>2, <4>1
      <4>2. CASE x # y
        <5>1. g[s \ {y}] = f[x] + g[(s \ {y}) \ {x}] /\ g[s \ {x}] = f[y] + g[(s \ {x}) \ {y}]
          BY <3>1, <3>3, <4>2
        <5>2. (s \ {y}) \ {x} = (s \ {x}) \ {y}
          OBVIOUS
        <5>3. g[(s \ {x}) \ {y}] \in Nat
          <6>1. y \in s \ {x} /\ s \ {x} \in SUBSET S /\ s \ {x} # {}
            BY <2>3, <3>1, <4>2
          <6>2. g[s \ {x}] \in Nat
            BY <3>3
          <6>3. (s \ {x}) \ {y} \in SUBSET S
            BY <2>3
          <6>4. (s \ {x}) \ {y} \notin W
            <7> HIDE DEF W, Right
            <7>1. Cardinality(s \ {x}) = Cardinality(s) - 1
              BY <1>1, <2>3
            <7>2. Cardinality((s \ {x}) \ {y}) = Cardinality(s \ {x}) - 1
              BY <1>1, <6>1
            <7>3. Cardinality(s) \in Nat
              BY <1>0, <2>3
            <7>4. Cardinality((s \ {x}) \ {y}) < Cardinality(s)
              BY <7>1, <7>2, <7>3
            <7>5. QED
              BY <2>2, <7>4
          <6>5. QED
            BY <6>3, <6>4
        <5>4. f[x] \in Nat
          BY <2>3
        <5>5. \A a, b, c \in Nat : a + (b + c) = b + (a + c)
          OBVIOUS
        <5>6. g[s] = f[y] + (f[x] + g[(s \ {x}) \ {y}])
          BY <3>2, <5>1, <5>2, Zenon
        <5>7. f[y] + (f[x] + g[(s \ {x}) \ {y}]) = f[x] + (f[y] + g[(s \ {x}) \ {y}])
          BY <3>2, <5>3, <5>4, <5>5, Zenon
        <5>8. QED
          BY <5>1, <5>6, <5>7, Zenon
      <4>3. QED
        BY <4>1, <4>2
    <3>5. g[s] \in Nat
      BY <3>1, <3>2, <3>3
    <3>6. QED
      BY <2>5, <3>4, <3>5
  <2>6. QED
    BY <2>4, <2>5
<1>4. QED
  BY <1>3

\* Two sums over the same elements are the same.
LEMMA SumsAgree ==
  ASSUME NEW f, NEW S, IsFiniteSet(S), NEW g, Sums(f, S, g),
         NEW h, NEW T, IsFiniteSet(T), NEW k, Sums(h, T, k),
         NEW U \in SUBSET (S \cap T), \A x \in U : f[x] = h[x]
  PROVE  g[U] = k[U]
<1> DEFINE W == {s \in SUBSET U : g[s] # k[s]}
<1>1. SUFFICES ASSUME W # {} PROVE FALSE
  OBVIOUS
<1>2. \A s \in SUBSET U : s \in SUBSET S /\ s \in SUBSET T /\ IsFiniteSet(s) /\ Cardinality(s) \in Nat
  BY FS_Subset, FS_CardinalityType
<1>3. PICK s \in W : \A t \in W : ~(Cardinality(t) < Cardinality(s))
  <2>1. \A t \in W : IsFiniteSet(t)
    BY <1>2
  <2> HIDE DEF W
  <2>2. QED
    BY <1>1, <2>1, SmallestSet
<1>4. /\ g[s] = IF s = {} THEN 0 ELSE f[Pick(s)] + g[s \ {Pick(s)}]
      /\ k[s] = IF s = {} THEN 0 ELSE h[Pick(s)] + k[s \ {Pick(s)}]
  <2>1. s \in SUBSET S /\ s \in SUBSET T
    BY <1>2
  <2>2. QED
    BY <2>1 DEF Sums
<1>5. CASE s = {}
  BY <1>4, <1>5
<1>6. CASE s # {}
  <2>1. Pick(s) \in s /\ s \in SUBSET U
    BY <1>6 DEF Pick
  <2>2. s \ {Pick(s)} \notin W
    <3>1. Cardinality(s \ {Pick(s)}) < Cardinality(s)
      BY <1>2, <2>1, FS_RemoveElement
    <3> HIDE DEF W
    <3>2. QED
      BY <1>3, <3>1
  <2>3. g[s \ {Pick(s)}] = k[s \ {Pick(s)}] /\ f[Pick(s)] = h[Pick(s)]
    BY <2>1, <2>2
  <2>4. QED
    BY <1>4, <1>6, <2>3
<1>7. QED
  BY <1>5, <1>6
=============================================================================
