--------------------------- MODULE StreamOpsProofs ---------------------------
(* Proofs about the scans, Advance and the repetitions made of it, and the   *)
(* deletion of positions, for every size of fields and blocks, and of bytes, *)
(* and for every shift and bound. The scans rest on binary addition: of two  *)
(* numbers, of the fields of a block, and of masks of fields; the deletion   *)
(* on the numbers of ones between two positions.                             *)
EXTENDS StreamOps, ProofFacts, FiniteSetTheorems, SequenceTheorems, TLAPS

-----------------------------------------------------------------------------
(* Powers of two, numbers and their bits.                                    *)

LEMMA PowerIs ==
  ASSUME NEW k \in Nat
  PROVE  2^k \in Nat \ {0} /\ k <= 2^k
<1>1. IsFiniteSet(1..k) /\ Cardinality(1..k) = k
  BY FS_Interval
<1>2. IsFiniteSet(SUBSET (1..k)) /\ Cardinality(SUBSET (1..k)) = 2^k
  BY <1>1, FS_SUBSET
<1>3. 2^k \in Nat
  BY <1>2, FS_CardinalityType
<1>4. k <= 2^k
  <2> DEFINE f == [x \in 1..k |-> {x}]
  <2>1. f \in Injection(1..k, SUBSET (1..k))
    BY DEF Injection, IsInjective
  <2> HIDE DEF f
  <2>2. Cardinality(1..k) <= Cardinality(SUBSET (1..k))
    BY <1>2, <2>1, FS_Injection
  <2>3. QED
    BY <1>1, <1>2, <2>2
<1>5. CASE k = 0
  BY <1>5
<1>6. CASE k # 0
  BY <1>3, <1>4, <1>6
<1>7. QED
  BY <1>3, <1>4, <1>5, <1>6

LEMMA PowerDoubles ==
  ASSUME NEW k \in Nat
  PROVE  2^(k + 1) = 2 * 2^k
<1> DEFINE A == SUBSET (1..k)
           B == {s \union {k + 1} : s \in A}
           f == [s \in A |-> s \union {k + 1}]
<1>1. IsFiniteSet(1..k) /\ Cardinality(1..k) = k /\ IsFiniteSet(1..k + 1) /\ Cardinality(1..k + 1) = k + 1
  <2>1. k + 1 \in Int /\ 1 \in Int /\ k \in Int
    OBVIOUS
  <2>2. QED
    BY <2>1, FS_Interval
<1>2. /\ IsFiniteSet(A) /\ Cardinality(A) = 2^k
      /\ Cardinality(SUBSET (1..k + 1)) = 2^(k + 1)
  BY <1>1, FS_SUBSET
<1>3. \A s \in A : k + 1 \notin s
  OBVIOUS
<1>4. f \in Bijection(A, B)
  <2>1. f \in Injection(A, B)
    <3>1. f \in [A -> B]
      OBVIOUS
    <3>2. ASSUME NEW s \in A, NEW t \in A, f[s] = f[t] PROVE s = t
      <4>1. s \union {k + 1} = t \union {k + 1}
        BY <3>2
      <4> HIDE DEF A
      <4>2. QED
        BY <1>3, <3>2, <4>1
    <3> HIDE DEF A, B, f
    <3>3. QED
      BY <3>1, <3>2 DEF Injection, IsInjective
  <2>2. f \in Surjection(A, B)
    BY DEF Surjection
  <2>3. QED
    BY <2>1, <2>2 DEF Bijection
<1>5. IsFiniteSet(B) /\ Cardinality(B) = Cardinality(A)
  <2>1. ExistsBijection(A, B)
    BY <1>4 DEF ExistsBijection
  <2> HIDE DEF A, B
  <2>2. QED
    BY <1>2, <2>1, FS_Bijection
<1>6. A \cap B = {}
  BY <1>3
<1>7. SUBSET (1..k + 1) = A \union B
  <2>1. ASSUME NEW s \in SUBSET (1..k + 1) PROVE s \in A \union B
    <3>1. CASE k + 1 \in s
      <4>1. s \ {k + 1} \in A
        OBVIOUS
      <4>2. s = (s \ {k + 1}) \union {k + 1}
        BY <3>1
      <4> HIDE DEF A
      <4>3. s \in B
        BY <4>1, <4>2
      <4>4. QED
        BY <4>3
    <3>2. CASE k + 1 \notin s
      BY <3>2
    <3>3. QED
      BY <3>1, <3>2
  <2>2. A \union B \subseteq SUBSET (1..k + 1)
    <3>1. 1..k \subseteq 1..k + 1 /\ k + 1 \in 1..k + 1
      OBVIOUS
    <3>2. QED
      BY <3>1
  <2> HIDE DEF A, B
  <2>3. QED
    BY <2>1, <2>2
<1> HIDE DEF A, B
<1>8. Cardinality(A \union B) = Cardinality(A) + Cardinality(B) - Cardinality(A \cap B)
  BY <1>2, <1>5, FS_Union
<1>9. Cardinality(A \cap B) = 0
  BY <1>6, FS_EmptySet
<1> DEFINE p == 2^k
           r == 2^(k + 1)
<1>10. r = Cardinality(A \union B) /\ Cardinality(A) = p /\ Cardinality(B) = p
  BY <1>2, <1>5, <1>7
<1>11. p \in Nat
  BY PowerIs
<1> HIDE DEF p, r
<1>12. r = 2 * p
  BY <1>8, <1>9, <1>10, <1>11
<1>13. QED
  BY <1>12 DEF p, r

LEMMA PowerZero == 2^0 = 1
OBVIOUS

\* A number is the sum of the powers of its bits.
Power == [i \in Nat |-> 2^i]
Values(S, g) == g = [s \in SUBSET S |-> IF s = {} THEN 0 ELSE 2^Pick(s) + g[s \ {Pick(s)}]]

LEMMA NumberIsLast ==
  ASSUME NEW S
  PROVE  Number(S) = (CHOOSE g : Values(S, g))[S]
BY DEF Number, MapThenSumSet, MapThenFoldSet, Values, Pick

LEMMA ValuesAreSums ==
  ASSUME NEW S \in SUBSET Nat, NEW g
  PROVE  Values(S, g) <=> Sums(Power, S, g)
<1> DEFINE A == [s \in SUBSET S |-> IF s = {} THEN 0 ELSE 2^Pick(s) + g[s \ {Pick(s)}]]
           B == [s \in SUBSET S |-> IF s = {} THEN 0 ELSE Power[Pick(s)] + g[s \ {Pick(s)}]]
<1>1. ASSUME NEW s \in SUBSET S, s # {} PROVE Power[Pick(s)] = 2^Pick(s)
  <2>1. Pick(s) \in s
    BY <1>1 DEF Pick
  <2>2. Pick(s) \in Nat
    BY <2>1
  <2>3. QED
    BY <2>2 DEF Power
<1>2. \A s \in SUBSET S : A[s] = B[s]
  BY <1>1
<1>3. A = [s \in SUBSET S |-> A[s]] /\ B = [s \in SUBSET S |-> B[s]]
  OBVIOUS
<1> HIDE DEF A, B
<1>4. A = B
  BY <1>2, <1>3
<1>5. (Values(S, g) <=> g = A) /\ (Sums(Power, S, g) <=> g = B)
  BY DEF Values, Sums, A, B
<1>6. QED
  BY <1>4, <1>5

LEMMA NumberIs ==
  ASSUME NEW S, S \in SUBSET Nat, IsFiniteSet(S)
  PROVE  /\ Number(S) \in Nat
         /\ S = {} => Number(S) = 0
         /\ \A x \in S : Number(S) = 2^x + Number(S \ {x})
<1>1. ASSUME NEW T \in SUBSET Nat, IsFiniteSet(T)
      PROVE  \E g : Sums(Power, T, g) /\ Number(T) = g[T]
  <2> DEFINE g == CHOOSE g : Values(T, g)
  <2>1. \E h : Values(T, h)
    BY <1>1, SumsExist, ValuesAreSums
  <2>2. Values(T, g)
    BY <2>1
  <2>3. Number(T) = g[T]
    BY NumberIsLast
  <2> HIDE DEF g
  <2>4. QED
    BY <2>2, <2>3, ValuesAreSums
<1>2. \A x \in S : Power[x] = 2^x /\ Power[x] \in Nat
  BY PowerIs DEF Power
<1>3. PICK g : Sums(Power, S, g) /\ Number(S) = g[S]
  BY <1>1
<1>4. /\ g[S] \in Nat
      /\ S = {} => g[S] = 0
      /\ \A x \in S : g[S] = Power[x] + g[S \ {x}]
  <2>1. S \in SUBSET S
    OBVIOUS
  <2>2. \A s \in SUBSET S :
          /\ g[s] \in Nat
          /\ s = {} => g[s] = 0
          /\ \A x \in s : g[s] = Power[x] + g[s \ {x}]
    <3> DEFINE f == Power
               U == S
    <3>1. IsFiniteSet(U) /\ Sums(f, U, g) /\ \A x \in U : f[x] \in Nat
      BY <1>2, <1>3
    <3> HIDE DEF f, U
    <3>2. \A s \in SUBSET U :
            /\ g[s] \in Nat
            /\ s = {} => g[s] = 0
            /\ \A x \in s : g[s] = f[x] + g[s \ {x}]
      BY <3>1, SumsAre
    <3>3. QED
      BY <3>2 DEF f, U
  <2>3. QED
    BY <2>1, <2>2
<1>5. ASSUME NEW x \in S PROVE g[S \ {x}] = Number(S \ {x})
  <2> DEFINE T == S \ {x}
  <2>1. IsFiniteSet(T) /\ T \in SUBSET Nat /\ T \in SUBSET (S \cap T)
    BY FS_RemoveElement
  <2> HIDE DEF T
  <2>2. PICK k : Sums(Power, T, k) /\ Number(T) = k[T]
    BY <1>1, <2>1
  <2> DEFINE f == Power
             U == S
  <2>3. /\ Sums(f, U, g) /\ Sums(f, T, k) /\ IsFiniteSet(U) /\ IsFiniteSet(T)
        /\ T \in SUBSET (U \cap T)
    BY <1>3, <2>1, <2>2
  <2> HIDE DEF f, U
  <2>4. \A y \in T : f[y] = f[y]
    OBVIOUS
  <2>5. g[T] = k[T]
    BY <2>3, <2>4, SumsAgree
  <2>6. QED
    BY <2>2, <2>5 DEF T
<1>6. QED
  BY <1>2, <1>3, <1>4, <1>5

Bit(b) == IF b THEN 1 ELSE 0

\* The value of the bits below i.
Below(S, i) == Number(S \cap 0..i - 1)

LEMMA BelowIs ==
  ASSUME NEW S
  PROVE  /\ Below(S, 0) = 0
         /\ \A i \in Nat : Below(S, i) \in Nat /\ Below(S, i + 1) = Below(S, i) + Bit(i \in S) * 2^i
<1>1. ASSUME NEW i \in Nat PROVE IsFiniteSet(S \cap 0..i - 1) /\ S \cap 0..i - 1 \in SUBSET Nat
  <2>1. IsFiniteSet(0..i - 1)
    BY FS_Interval
  <2>2. S \cap 0..i - 1 \subseteq 0..i - 1
    OBVIOUS
  <2>3. QED
    BY <2>1, <2>2, FS_Subset
<1>2. Below(S, 0) = 0
  <2>1. S \cap 0..0 - 1 = {}
    OBVIOUS
  <2>2. {} \in SUBSET Nat /\ IsFiniteSet({})
    BY FS_EmptySet
  <2>3. QED
    BY <2>1, <2>2, NumberIs DEF Below
<1>3. \A i \in Nat : Below(S, i) \in Nat
  BY <1>1, NumberIs DEF Below
<1>4. ASSUME NEW i \in Nat PROVE Below(S, i + 1) = Below(S, i) + Bit(i \in S) * 2^i
  <2> DEFINE new == S \cap 0..(i + 1) - 1
             old == S \cap 0..i - 1
             p == 2^i
  <2>1. IsFiniteSet(new) /\ new \in SUBSET Nat
    <3>1. i + 1 \in Nat
      OBVIOUS
    <3>2. QED
      BY <1>1, <3>1
  <2>2. p \in Nat
    BY PowerIs
  <2>3. Number(old) \in Nat
    BY <1>3 DEF Below
  <2>4. CASE i \in S
    <3>1. i \in new /\ new \ {i} = old
      BY <2>4
    <3> HIDE DEF new, old
    <3>2. Number(new) = p + Number(old)
      BY <2>1, <3>1, NumberIs
    <3>3. Bit(i \in S) = 1
      BY <2>4 DEF Bit
    <3> HIDE DEF p
    <3>4. Number(new) = Number(old) + Bit(i \in S) * p
      BY <2>2, <2>3, <3>2, <3>3
    <3>5. QED
      BY <3>4 DEF Below, new, old, p
  <2>5. CASE i \notin S
    <3>1. new = old
      BY <2>5
    <3> HIDE DEF p, new, old
    <3>2. Bit(i \in S) = 0
      BY <2>5 DEF Bit
    <3>3. Number(new) = Number(old) + Bit(i \in S) * p
      BY <2>2, <2>3, <3>1, <3>2
    <3>4. QED
      BY <3>3 DEF Below, new, old, p
  <2>6. QED
    BY <2>4, <2>5
<1>5. QED
  BY <1>2, <1>3, <1>4

\* They make less than the next power.
LEMMA BelowSmall ==
  ASSUME NEW S
  PROVE  \A i \in Nat : Below(S, i) \in 0..2^i - 1
<1> DEFINE T == {i \in Nat : ~(Below(S, i) < 2^i)}
<1>1. T = {}
  <2>1. SUFFICES ASSUME T # {} PROVE FALSE
    OBVIOUS
  <2>2. PICK i \in T : \A j \in T : i <= j
    BY <2>1, LeastNatural
  <2>3. i # 0
    <3>1. Below(S, 0) < 2^0
      BY BelowIs, PowerZero
    <3>2. QED
      BY <2>2, <3>1
  <2> DEFINE j == i - 1
             p == 2^j
             u == Below(S, j)
  <2>4. j \in Nat /\ j + 1 = i /\ j \notin T
    BY <2>2, <2>3
  <2> HIDE DEF j
  <2>5. u < p /\ u \in Nat /\ p \in Nat
    BY <2>4, BelowIs, PowerIs
  <2>6. Below(S, i) = u + Bit(j \in S) * p /\ 2^i = 2 * p
    BY <2>4, BelowIs, PowerDoubles
  <2>7. Bit(j \in S) \in {0, 1}
    BY DEF Bit
  <2> HIDE DEF u, p
  <2>8. u + Bit(j \in S) * p < 2 * p
    BY <2>5, <2>7
  <2>9. QED
    BY <2>2, <2>6, <2>8
<1>2. QED
  BY <1>1, BelowIs, PowerIs

LEMMA PowerMultiple ==
  ASSUME NEW i \in Nat
  PROVE  \A m \in Nat : \E k \in Nat : 2^(i + m) = 2^i * k
<1> DEFINE T == {m \in Nat : ~\E k \in Nat : 2^(i + m) = 2^i * k}
           p == 2^i
<1>1. SUFFICES ASSUME T # {} PROVE FALSE
  OBVIOUS
<1>2. PICK m \in T : \A n \in T : m <= n
  BY <1>1, LeastNatural
<1>3. p \in Nat
  BY PowerIs
<1>4. m # 0
  <2>1. 2^(i + 0) = p * 1
    BY <1>3
  <2>2. QED
    BY <1>2, <2>1
<1> DEFINE n == m - 1
<1>5. n \in Nat /\ i + n \in Nat /\ (i + n) + 1 = i + m /\ n \notin T
  BY <1>2, <1>4
<1> HIDE DEF n
<1>6. PICK k \in Nat : 2^(i + n) = p * k
  BY <1>5
<1>7. 2^(i + m) = 2 * (p * k)
  BY <1>5, <1>6, PowerDoubles
<1> HIDE DEF p
<1>8. 2 * (p * k) = p * (2 * k) /\ 2 * k \in Nat
  BY <1>3
<1>9. QED
  BY <1>2, <1>7, <1>8 DEF p

\* The bits from i on make a multiple of its power.
LEMMA BelowHigh ==
  ASSUME NEW S, NEW i \in Nat
  PROVE  \A m \in Nat : \E d \in Nat : Below(S, i + m) = Below(S, i) + 2^i * d
<1> DEFINE p == 2^i
           u == Below(S, i)
           T == {m \in Nat : ~\E d \in Nat : Below(S, i + m) = u + p * d}
<1>1. SUFFICES ASSUME T # {} PROVE FALSE
  OBVIOUS
<1>2. PICK m \in T : \A n \in T : m <= n
  BY <1>1, LeastNatural
<1>3. p \in Nat /\ u \in Nat
  BY PowerIs, BelowIs
<1>4. m # 0
  <2>1. i + 0 = i /\ u = u + p * 0
    BY <1>3
  <2>2. QED
    BY <1>2, <2>1
<1> DEFINE n == m - 1
<1>5. n \in Nat /\ i + n \in Nat /\ (i + n) + 1 = i + m /\ n \notin T
  <2>1. m \in Nat
    OBVIOUS
  <2>2. n \in Nat /\ i + n \in Nat /\ (i + n) + 1 = i + m /\ n < m
    BY <1>4, <2>1
  <2> HIDE DEF T
  <2>3. QED
    BY <1>2, <2>1, <2>2
<1> HIDE DEF n
<1>6. PICK d \in Nat : Below(S, i + n) = u + p * d
  BY <1>5
<1>7. PICK k \in Nat : 2^(i + n) = p * k
  BY <1>5, PowerMultiple
<1> DEFINE b == Bit(i + n \in S)
<1>8. Below(S, i + m) = (u + p * d) + b * (p * k)
  BY <1>5, <1>6, <1>7, BelowIs
<1>9. b \in Nat
  BY DEF Bit
<1> HIDE DEF p, u, b
<1>10. (u + p * d) + b * (p * k) = u + p * (d + b * k) /\ d + b * k \in Nat
  BY <1>3, <1>9
<1>11. QED
  BY <1>2, <1>8, <1>10 DEF p, u

LEMMA NumberBelow ==
  ASSUME NEW w \in Nat, NEW S, S \subseteq 0..w - 1
  PROVE  /\ Number(S) = Below(S, w) /\ Number(S) \in 0..2^w - 1
         /\ Number(S) \in Nat /\ Number(S) < 2^w /\ 2^w \in Nat
<1>1. S \cap 0..w - 1 = S
  OBVIOUS
<1>2. Number(S) = Below(S, w)
  BY <1>1 DEF Below
<1>3. Below(S, w) \in Nat /\ Below(S, w) \in 0..2^w - 1 /\ 2^w \in Nat
  BY BelowIs, BelowSmall, PowerIs
<1>4. QED
  BY <1>2, <1>3

\* A number has one set of bits, whatever lies above them.
LEMMA BitsAre ==
  ASSUME NEW w \in Nat, NEW S, NEW d \in Nat, NEW n, S \subseteq 0..w - 1,
         n = Number(S) + 2^w * d
  PROVE  Bits(n, w) = S
<1>1. ASSUME NEW i \in 0..w - 1 PROVE (n \div 2^i) % 2 = Bit(i \in S)
  <2> DEFINE p == 2^i
             r == Below(S, i)
             b == Bit(i \in S)
             m == w - (i + 1)
  <2>1. i \in Nat /\ i + 1 \in Nat /\ m \in Nat /\ (i + 1) + m = w
    OBVIOUS
  <2>2. p \in Nat \ {0} /\ r \in 0..p - 1 /\ b \in {0, 1}
    <3>1. p \in Nat \ {0}
      BY <2>1, PowerIs
    <3>2. r \in 0..p - 1
      BY <2>1, BelowSmall
    <3>3. b \in {0, 1}
      BY DEF Bit
    <3>4. QED
      BY <3>1, <3>2, <3>3
  <2> HIDE DEF m
  <2>3. /\ \E h \in Nat : Below(S, w) = Below(S, i + 1) + 2^(i + 1) * h
        /\ \E k \in Nat : 2^w = 2^(i + 1) * k
    <3> DEFINE next == i + 1
    <3>1. next \in Nat /\ next + m = w
      BY <2>1
    <3> HIDE DEF next
    <3>2. \E h \in Nat : Below(S, next + m) = Below(S, next) + 2^next * h
      BY <2>1, <3>1, BelowHigh
    <3>3. \E k \in Nat : 2^(next + m) = 2^next * k
      BY <2>1, <3>1, PowerMultiple
    <3> DEFINE total == next + m
    <3>4. /\ \E h \in Nat : Below(S, total) = Below(S, next) + 2^next * h
          /\ \E k \in Nat : 2^total = 2^next * k
      BY <3>2, <3>3
    <3> HIDE DEF total
    <3>5. total = w
      BY <3>1 DEF total
    <3>6. QED
      BY <3>4, <3>5 DEF next
  <2>4. PICK h \in Nat, k \in Nat :
          Below(S, w) = Below(S, i + 1) + 2^(i + 1) * h /\ 2^w = 2^(i + 1) * k
    BY <2>3
  <2>5. 2^(i + 1) = 2 * p /\ Below(S, i + 1) = r + b * p
    BY <2>1, PowerDoubles, BelowIs
  <2>6. Number(S) = Below(S, w)
    BY NumberBelow
  <2> HIDE DEF p, r, b
  <2>7. n = ((r + b * p) + (2 * p) * h) + ((2 * p) * k) * d
    BY <2>4, <2>5, <2>6
  <2> DEFINE e == k * d
  <2>8. e \in Nat
    OBVIOUS
  <2>9. ((2 * p) * k) * d = (2 * p) * e
    BY <2>2
  <2> HIDE DEF e
  <2>10. n = p * (b + 2 * (h + e)) + r /\ h + e \in Nat
    <3>1. n = ((r + b * p) + (2 * p) * h) + (2 * p) * e
      BY <2>7, <2>9
    <3>2. QED
      BY <2>2, <2>8, <3>1
  <2> DEFINE x == b + 2 * (h + e)
             y == h + e
  <2>11. x \in Int /\ n \in Int /\ n = p * x + r /\ x = 2 * y + b /\ y \in Int
    <3>1. p * (b + 2 * (h + e)) + r \in Int
      BY <2>2, <2>8
    <3>2. QED
      BY <2>2, <2>8, <2>10, <3>1
  <2> HIDE DEF x, y
  <2>12. n \div p = x
    <3>1. p \in Nat \ {0} /\ r \in 0..p - 1 /\ n \in Int /\ x \in Int /\ n = p * x + r
      BY <2>2, <2>11
    <3>2. QED
      BY <3>1, QuotientIs, Zenon
  <2>13. x % 2 = b
    BY <2>2, <2>11
  <2>14. QED
    BY <2>12, <2>13 DEF p, b
<1>2. \A i \in 0..w - 1 : (n \div 2^i) % 2 = 1 <=> i \in S
  BY <1>1 DEF Bit
<1>3. QED
  BY <1>2 DEF Bits

-----------------------------------------------------------------------------
(* Binary addition.                                                          *)

\* c holds the positions into which there is a carry.
Carries(w, a, b, c) ==
  /\ c \subseteq 0..w
  /\ \A i \in 0..w - 1 : i + 1 \in c <=> (i \in a /\ i \in b) \/ ((i \in a \/ i \in b) /\ i \in c)
Total(w, a, b, c) == {i \in 0..w - 1 : i \in a <=> (i \in b <=> i \in c)}

LEMMA CarriesExist ==
  ASSUME NEW a, NEW b, NEW q
  PROVE  \A w \in Nat : \E c : Carries(w, a, b, c) /\ (0 \in c <=> 0 \in q)
<1> DEFINE T == {w \in Nat : ~\E c : Carries(w, a, b, c) /\ (0 \in c <=> 0 \in q)}
<1>1. SUFFICES ASSUME T # {} PROVE FALSE
  OBVIOUS
<1>2. PICK w \in T : \A n \in T : w <= n
  BY <1>1, LeastNatural
<1>3. w # 0
  <2> DEFINE c == q \cap {0}
  <2>1. Carries(0, a, b, c) /\ (0 \in c <=> 0 \in q)
    BY DEF Carries
  <2> HIDE DEF c
  <2>2. QED
    BY <1>2, <2>1
<1> DEFINE n == w - 1
<1>4. n \in Nat /\ n + 1 = w /\ n \notin T
  BY <1>2, <1>3
<1> HIDE DEF n
<1>5. PICK c : Carries(n, a, b, c) /\ (0 \in c <=> 0 \in q)
  BY <1>4
<1> DEFINE d == c \union {i \in {w} : (n \in a /\ n \in b) \/ ((n \in a \/ n \in b) /\ n \in c)}
<1>6. \A i \in 0..n : (i \in d <=> i \in c) /\ i \in 0..w
  BY <1>4
<1>7. d \subseteq 0..w
  <2>1. c \subseteq 0..n
    BY <1>5 DEF Carries
  <2>2. w \in 0..w /\ 0..n \subseteq 0..w
    BY <1>4
  <2>3. d \subseteq c \union {w}
    OBVIOUS
  <2> HIDE DEF d, T
  <2>4. QED
    BY <2>1, <2>2, <2>3
<1>8. w \in d <=> (n \in a /\ n \in b) \/ ((n \in a \/ n \in b) /\ n \in c)
  <2>1. c \subseteq 0..n
    BY <1>5 DEF Carries
  <2>2. w \notin c
    BY <1>4, <2>1
  <2>3. QED
    BY <2>2
<1> HIDE DEF d
<1>9. ASSUME NEW i \in 0..w - 1
      PROVE  i + 1 \in d <=> (i \in a /\ i \in b) \/ ((i \in a \/ i \in b) /\ i \in d)
  <2>1. CASE i = n
    BY <1>4, <1>6, <1>8, <2>1
  <2>2. CASE i # n
    <3>1. i \in 0..n - 1 /\ i + 1 \in 0..n /\ i \in 0..n
      BY <1>4, <2>2
    <3>2. (i + 1 \in d <=> i + 1 \in c) /\ (i \in d <=> i \in c)
      BY <1>6, <3>1
    <3>3. i + 1 \in c <=> (i \in a /\ i \in b) \/ ((i \in a \/ i \in b) /\ i \in c)
      BY <1>5, <3>1 DEF Carries
    <3>4. QED
      BY <3>2, <3>3
  <2>3. QED
    BY <2>1, <2>2
<1>10. Carries(w, a, b, d) /\ (0 \in d <=> 0 \in q)
  BY <1>4, <1>5, <1>6, <1>7, <1>9 DEF Carries
<1>11. QED
  BY <1>2, <1>10

LEMMA AddNumbers ==
  ASSUME NEW w \in Nat, NEW a, NEW b, NEW c, Carries(w, a, b, c)
  PROVE  \A i \in 0..w :
           Below(a, i) + Below(b, i) + Bit(0 \in c) = Below(Total(w, a, b, c), i) + 2^i * Bit(i \in c)
<1> DEFINE s == Total(w, a, b, c)
           Right(i) == Below(a, i) + Below(b, i) + Bit(0 \in c) = Below(s, i) + 2^i * Bit(i \in c)
           T == {i \in 0..w : ~Right(i)}
<1>1. SUFFICES ASSUME T # {} PROVE FALSE
  OBVIOUS
<1>2. PICK i \in T : \A n \in T : i <= n
  <2>1. T \subseteq Nat
    OBVIOUS
  <2> HIDE DEF T
  <2>2. QED
    BY <1>1, <2>1, LeastNatural
<1>3. \A x : Bit(x) \in {0, 1}
  BY DEF Bit
<1>4. i # 0
  <2>1. Right(0)
    <3>1. Below(a, 0) = 0 /\ Below(b, 0) = 0 /\ Below(s, 0) = 0 /\ 2^0 = 1
      BY BelowIs, PowerZero
    <3>2. Bit(0 \in c) \in Nat
      BY DEF Bit
    <3> HIDE DEF s
    <3>3. QED
      BY <3>1, <3>2
  <2>2. QED
    BY <1>2, <2>1
<1> DEFINE n == i - 1
<1>5. n \in Nat /\ n + 1 = i /\ n \in 0..w - 1 /\ n \in 0..w /\ n < i
  BY <1>2, <1>4
<1>6. Right(n)
  <2> HIDE DEF Right, n
  <2>1. QED
    BY <1>2, <1>5
<1> DEFINE p == 2^n
           x == Bit(n \in a)
           y == Bit(n \in b)
           z == Bit(n \in c)
           t == Bit(n \in s)
           o == Bit(i \in c)
<1>7. x + y + z = t + 2 * o
  <2>1. i \in c <=> (n \in a /\ n \in b) \/ ((n \in a \/ n \in b) /\ n \in c)
    BY <1>5 DEF Carries
  <2>2. n \in s <=> (n \in a <=> (n \in b <=> n \in c))
    BY <1>5 DEF Total
  <2> HIDE DEF n, s
  <2>3. QED
    BY <2>1, <2>2 DEF Bit
<1>8. /\ Below(a, i) = Below(a, n) + x * p /\ Below(b, i) = Below(b, n) + y * p
      /\ Below(s, i) = Below(s, n) + t * p /\ 2^i = 2 * p
  <2> HIDE DEF n, s
  <2>1. QED
    BY <1>5, BelowIs, PowerDoubles
<1> DEFINE A == Below(a, n)
           B == Below(b, n)
           S == Below(s, n)
           k == Bit(0 \in c)
<1>9. /\ A \in Nat /\ B \in Nat /\ S \in Nat /\ p \in Nat
  <2> HIDE DEF n, s
  <2>1. QED
    BY <1>5, BelowIs, PowerIs
<1>90. k \in Nat /\ x \in Nat /\ y \in Nat /\ z \in Nat /\ t \in Nat /\ o \in Nat
  <2> HIDE DEF n, s
  <2>1. QED
    BY DEF Bit
<1>10. A + B + k = S + p * z
  BY <1>6
<1>11. Right(i) <=> (A + x * p) + (B + y * p) + k = (S + t * p) + (2 * p) * o
  BY <1>8
<1> HIDE DEF A, B, S, k, p, x, y, z, t, o, Right, n
<1>12. (A + x * p) + (B + y * p) + k = (A + B + k) + p * (x + y)
  BY <1>9, <1>90
<1>13. (S + p * z) + p * (x + y) = S + p * (x + y + z)
  BY <1>9, <1>90
<1>14. S + p * (t + 2 * o) = (S + t * p) + (2 * p) * o
  BY <1>9, <1>90
<1>15. Right(i)
  BY <1>7, <1>10, <1>11, <1>12, <1>13, <1>14
<1>16. QED
  BY <1>2, <1>15

AddsUp(w, a, b, c) ==
  /\ Number(a) + Number(b) + Bit(0 \in c) = Number(Total(w, a, b, c)) + 2^w * Bit(w \in c)
  /\ Total(w, a, b, c) \subseteq 0..w - 1

LEMMA CarriesAdd ==
  ASSUME NEW w \in Nat, NEW a, NEW b, NEW c, a \subseteq 0..w - 1, b \subseteq 0..w - 1,
         Carries(w, a, b, c)
  PROVE  AddsUp(w, a, b, c)
<1>1. Total(w, a, b, c) \subseteq 0..w - 1
  BY DEF Total
<1>2. w \in 0..w
  OBVIOUS
<1>3. Below(a, w) + Below(b, w) + Bit(0 \in c) = Below(Total(w, a, b, c), w) + 2^w * Bit(w \in c)
  BY <1>2, AddNumbers
<1>4. Number(a) = Below(a, w) /\ Number(b) = Below(b, w)
      /\ Number(Total(w, a, b, c)) = Below(Total(w, a, b, c), w)
  BY <1>1, NumberBelow
<1>5. QED
  BY <1>1, <1>3, <1>4 DEF AddsUp

\* Without a carry in, the addition of two fields of one register.
LEMMA BitsOfSum ==
  ASSUME NEW w \in Nat, NEW a, NEW b, NEW c, a \subseteq 0..w - 1, b \subseteq 0..w - 1,
         Carries(w, a, b, c), 0 \notin c
  PROVE  Bits(Number(a) + Number(b), w) = Total(w, a, b, c)
<1> DEFINE s == Total(w, a, b, c)
           d == Bit(w \in c)
           n == Number(a) + Number(b)
<1>1. Number(a) + Number(b) + Bit(0 \in c) = Number(s) + 2^w * d /\ s \subseteq 0..w - 1
  BY CarriesAdd DEF AddsUp
<1>2. Bit(0 \in c) = 0 /\ d \in Nat
  BY DEF Bit
<1>3. Number(a) \in Nat /\ Number(b) \in Nat
  BY NumberBelow
<1>4. n = Number(s) + 2^w * d
  BY <1>1, <1>2, <1>3
<1> HIDE DEF s, d, n
<1>5. Bits(n, w) = s
  BY <1>1, <1>2, <1>4, BitsAre
<1>6. QED
  BY <1>5 DEF s, n

LEMMA SameNumber ==
  ASSUME NEW w \in Nat, NEW a, NEW b, a \subseteq 0..w - 1, b \subseteq 0..w - 1,
         Number(a) = Number(b)
  PROVE  a = b
<1>1. Number(a) \in Nat /\ 2^w \in Nat
  BY NumberBelow
<1>2. Number(a) = Number(a) + 2^w * 0 /\ Number(a) = Number(b) + 2^w * 0 /\ 0 \in Nat
  BY <1>1
<1> DEFINE n == Number(a)
           d == 0
<1>3. n = Number(a) + 2^w * d /\ n = Number(b) + 2^w * d /\ d \in Nat
  BY <1>2
<1> HIDE DEF n, d
<1>4. Bits(n, w) = a
  BY <1>3, BitsAre
<1>5. Bits(n, w) = b
  BY <1>3, BitsAre
<1>6. QED
  BY <1>4, <1>5

LEMMA BitsOfNumber ==
  ASSUME NEW w \in Nat, NEW a, a \subseteq 0..w - 1
  PROVE  Bits(Number(a) + Number({}), w) = a
<1>1. Number({}) = 0
  <2>1. {} \in SUBSET Nat /\ IsFiniteSet({})
    BY FS_EmptySet
  <2>2. QED
    BY <2>1, NumberIs
<1>2. Number(a) \in Nat /\ 2^w \in Nat
  BY NumberBelow
<1> DEFINE n == Number(a) + Number({})
           d == 0
<1>3. n = Number(a) + 2^w * d /\ d \in Nat
  BY <1>1, <1>2
<1> HIDE DEF n, d
<1>4. Bits(n, w) = a
  BY <1>3, BitsAre
<1>5. QED
  BY <1>4 DEF n

LEMMA NumberOne ==
  Number({0}) = 1 /\ Number({}) = 0
<1>1. {} \in SUBSET Nat /\ IsFiniteSet({}) /\ {0} \in SUBSET Nat /\ IsFiniteSet({0})
  <2>1. IsFiniteSet({}) /\ IsFiniteSet({0})
    BY FS_EmptySet, FS_Singleton
  <2>2. {} \in SUBSET Nat /\ {0} \in SUBSET Nat
    OBVIOUS
  <2>3. QED
    BY <2>1, <2>2
<1>2. Number({}) = 0
  BY <1>1, NumberIs
<1>3. {0} \ {0} = {} /\ 0 \in {0}
  OBVIOUS
<1>4. Number({0}) = 2^0 + Number({0} \ {0})
  BY <1>1, <1>3, NumberIs
<1>5. QED
  BY <1>2, <1>3, <1>4, PowerZero

\* The carry out of a field can be read off its most significant bits.
LEMMA CarryOutIs ==
  ASSUME NEW w \in Nat \ {0}, NEW a, NEW b, NEW c, Carries(w, a, b, c)
  PROVE  w \in c <=> w - 1 \in CarryStream(a, b, Total(w, a, b, c))
<1> DEFINE i == w - 1
<1>1. i \in 0..w - 1 /\ i + 1 = w
  OBVIOUS
<1> HIDE DEF i
<1>2. w \in c <=> (i \in a /\ i \in b) \/ ((i \in a \/ i \in b) /\ i \in c)
  BY <1>1 DEF Carries
<1>3. i \in Total(w, a, b, c) <=> (i \in a <=> (i \in b <=> i \in c))
  BY <1>1 DEF Total
<1>4. i \in CarryStream(a, b, Total(w, a, b, c))
        <=> (i \in a /\ i \in b) \/ ((i \in a \/ i \in b) /\ i \notin Total(w, a, b, c))
  BY DEF CarryStream
<1>5. QED
  BY <1>2, <1>3, <1>4 DEF i

LEMMA AllOnes ==
  ASSUME NEW w \in Nat
  PROVE  Number(0..w - 1) = 2^w - 1
<1> DEFINE T == {i \in Nat : ~(Below(Nat, i) = 2^i - 1)}
<1>1. T = {}
  <2>1. SUFFICES ASSUME T # {} PROVE FALSE
    OBVIOUS
  <2>2. PICK i \in T : \A j \in T : i <= j
    BY <2>1, LeastNatural
  <2>3. i # 0
    <3>1. Below(Nat, 0) = 2^0 - 1
      BY BelowIs, PowerZero
    <3>2. QED
      BY <2>2, <3>1
  <2> DEFINE j == i - 1
             p == 2^j
  <2>4. j \in Nat /\ j + 1 = i /\ j \notin T
    BY <2>2, <2>3
  <2> HIDE DEF j
  <2>5. Below(Nat, j) = p - 1 /\ p \in Nat
    BY <2>4, PowerIs
  <2>6. Below(Nat, i) = Below(Nat, j) + Bit(j \in Nat) * p /\ 2^i = 2 * p
    BY <2>4, BelowIs, PowerDoubles
  <2>7. Bit(j \in Nat) = 1
    BY <2>4 DEF Bit
  <2> HIDE DEF p
  <2>8. Below(Nat, i) = 2^i - 1
    BY <2>5, <2>6, <2>7
  <2>9. QED
    BY <2>2, <2>8
<1>2. Nat \cap 0..w - 1 = 0..w - 1
  OBVIOUS
<1>3. Below(Nat, w) = 2^w - 1
  BY <1>1
<1>4. QED
  BY <1>2, <1>3 DEF Below

LEMMA SameDigits ==
  ASSUME NEW p \in Nat \ {0}, NEW x \in Nat, NEW y \in Nat, NEW a \in Int, NEW b \in Int, x < p,
         y < p, x + p * a = y + p * b
  PROVE  x = y /\ a = b
<1> DEFINE n == x + p * a
<1>1. n \in Int /\ n = p * a + x /\ n = p * b + y /\ x \in 0..p - 1 /\ y \in 0..p - 1
  OBVIOUS
<1> HIDE DEF n
<1>2. n \div p = a /\ n % p = x
  <2>1. p \in Nat \ {0} /\ a \in Int /\ x \in 0..p - 1 /\ n \in Int /\ n = p * a + x
    BY <1>1
  <2>2. QED
    BY <2>1, QuotientIs, Zenon
<1>3. n \div p = b /\ n % p = y
  <2>1. p \in Nat \ {0} /\ b \in Int /\ y \in 0..p - 1 /\ n \in Int /\ n = p * b + y
    BY <1>1
  <2>2. QED
    BY <2>1, QuotientIs, Zenon
<1>4. QED
  BY <1>2, <1>3

LEMMA NoCarryIn ==
  ASSUME NEW w \in Nat, NEW a, NEW b
  PROVE  \E c : Carries(w, a, b, c) /\ 0 \notin c
<1> DEFINE none == {}
<1>1. 0 \notin none
  OBVIOUS
<1> HIDE DEF none
<1>2. PICK c : Carries(w, a, b, c) /\ (0 \in c <=> 0 \in none)
  BY CarriesExist
<1>3. QED
  BY <1>1, <1>2

\* The carry in may be added afterwards, as long as its own carry is not forgotten.
AddedTwice(w, a, b, q, c, first) ==
  /\ first \subseteq 0..w - 1
  /\ Bits(Number(first) + Number(q), w) = Total(w, a, b, c)
  /\ w \in c <=> w - 1 \in CarryStream(a, b, first) \/ (0 \in q /\ first = 0..w - 1)
  /\ w - 1 \in CarryStream(a, b, first) => first # 0..w - 1

LEMMA AddTwice ==
  ASSUME NEW w \in Nat \ {0}, NEW a, NEW b, NEW q \in {{}, {0}}, NEW c, NEW first,
         a \subseteq 0..w - 1, b \subseteq 0..w - 1, Carries(w, a, b, c), 0 \in c <=> 0 \in q,
         first = Bits(Number(a) + Number(b), w)
  PROVE  AddedTwice(w, a, b, q, c, first)
<1>1. PICK c1 : Carries(w, a, b, c1) /\ 0 \notin c1
  BY NoCarryIn
<1>2. first = Total(w, a, b, c1)
  BY <1>1, BitsOfSum
<1>3. first \subseteq 0..w - 1 /\ q \subseteq 0..w - 1
  BY <1>2 DEF Total
<1>4. PICK c2 : Carries(w, first, q, c2) /\ 0 \notin c2
  BY NoCarryIn
<1> DEFINE second == Total(w, first, q, c2)
           s == Total(w, a, b, c)
           p == 2^w
           o == Bit(w \in c)
           o1 == Bit(w \in c1)
           o2 == Bit(w \in c2)
<1>5. Bits(Number(first) + Number(q), w) = second
  BY <1>3, <1>4, BitsOfSum
<1>6. /\ Number(a) + Number(b) + Bit(0 \in c) = Number(s) + p * o
      /\ s \subseteq 0..w - 1
  BY CarriesAdd DEF AddsUp
<1>7. Number(a) + Number(b) + Bit(0 \in c1) = Number(first) + p * o1
  <2>1. Number(a) + Number(b) + Bit(0 \in c1) = Number(Total(w, a, b, c1)) + p * o1
    <3>1. AddsUp(w, a, b, c1)
      BY <1>1, CarriesAdd
    <3>2. QED
      BY <3>1 DEF AddsUp
  <2>2. QED
    BY <1>2, <2>1
<1>8. /\ Number(first) + Number(q) + Bit(0 \in c2) = Number(second) + p * o2
      /\ second \subseteq 0..w - 1
  <2> DEFINE r == q
  <2>1. AddsUp(w, first, r, c2)
    BY <1>3, <1>4, CarriesAdd
  <2> HIDE DEF r
  <2>2. /\ Number(first) + Number(r) + Bit(0 \in c2) = Number(Total(w, first, r, c2)) + p * o2
        /\ Total(w, first, r, c2) \subseteq 0..w - 1
    BY <2>1 DEF AddsUp
  <2>3. QED
    BY <2>2 DEF r
<1>9. Bit(0 \in c1) = 0 /\ Bit(0 \in c2) = 0 /\ Bit(0 \in c) = Bit(0 \in q)
  BY <1>1, <1>4 DEF Bit
<1>10. Number(q) = Bit(0 \in q)
  <2>1. CASE q = {}
    BY <2>1, NumberOne DEF Bit
  <2>2. CASE q = {0}
    BY <2>2, NumberOne DEF Bit
  <2>3. QED
    BY <2>1, <2>2
<1>11. o \in {0, 1} /\ o1 \in {0, 1} /\ o2 \in {0, 1} /\ Bit(0 \in q) \in {0, 1}
  BY DEF Bit
<1>12. /\ Number(a) \in Nat /\ Number(b) \in Nat
       /\ Number(first) \in Nat /\ Number(first) < p
  BY <1>3, NumberBelow
<1>13. /\ Number(s) \in Nat /\ Number(s) < p
       /\ Number(second) \in Nat /\ Number(second) < p
  <2> HIDE DEF s, second
  <2>1. QED
    BY <1>6, <1>8, NumberBelow
<1>14. p \in Nat \ {0}
  BY PowerIs
<1> DEFINE k == Bit(0 \in q)
           N == Number(a) + Number(b)
           N1 == Number(first)
           N2 == Number(second)
           N3 == Number(s)
<1>15. /\ N + k = N3 + p * o /\ N + 0 = N1 + p * o1 /\ N1 + k + 0 = N2 + p * o2
       /\ N \in Nat /\ N1 \in Nat /\ N2 \in Nat /\ N3 \in Nat /\ N1 < p /\ N2 < p /\ N3 < p
  BY <1>6, <1>7, <1>8, <1>9, <1>10, <1>12, <1>13
<1> HIDE DEF s, second, p, o, o1, o2, k, N, N1, N2, N3
<1>16. N2 = N3 /\ o1 + o2 = o
  <2> DEFINE e == o1 + o2
  <2>1. p * o1 + p * o2 = p * e /\ e \in Int /\ o \in Int
    BY <1>11, <1>14
  <2>2. p * o1 \in Int /\ p * o2 \in Int /\ p * o \in Int /\ p * e \in Int
    BY <1>11, <1>14
  <2>3. N2 + p * e = N3 + p * o
    <3> DEFINE x == p * o
               x1 == p * o1
               x2 == p * o2
    <3>1. /\ N + k = N3 + x /\ N + 0 = N1 + x1 /\ N1 + k + 0 = N2 + x2
          /\ x \in Int /\ x1 \in Int /\ x2 \in Int /\ k \in Int
          /\ N \in Nat /\ N1 \in Nat /\ N2 \in Nat /\ N3 \in Nat
      BY <1>11, <1>15, <2>2 DEF k
    <3>2. x1 + x2 = p * e
      BY <2>1
    <3> HIDE DEF x, x1, x2, e
    <3>3. N2 + (x1 + x2) = N3 + x
      BY <3>1
    <3>4. QED
      BY <3>2, <3>3 DEF x
  <2>4. N2 \in Nat /\ N3 \in Nat /\ N2 < p /\ N3 < p
    BY <1>15
  <2> HIDE DEF e
  <2>5. N2 = N3 /\ e = o
    BY <1>14, <2>1, <2>3, <2>4, SameDigits
  <2>6. QED
    BY <2>5 DEF e
<1>17. second = s
  BY <1>6, <1>8, <1>16, SameNumber DEF N2, N3
<1>18. (w \in c1) <=> w - 1 \in CarryStream(a, b, first)
  BY <1>1, <1>2, CarryOutIs
<1>19. N1 = p - 1 <=> first = 0..w - 1
  <2>1. Number(0..w - 1) = p - 1
    BY AllOnes DEF p
  <2> DEFINE full == 0..w - 1
  <2>2. full \subseteq 0..w - 1 /\ Number(full) = p - 1
    BY <2>1
  <2> HIDE DEF full
  <2>3. N1 = p - 1 => first = full
    BY <1>3, <2>2, SameNumber DEF N1
  <2>4. QED
    BY <2>2, <2>3 DEF N1, full
<1>20. k \in {0, 1} /\ (k = 1 <=> 0 \in q)
  BY DEF k, Bit
<1>21. o2 = 1 <=> k = 1 /\ N1 = p - 1
  <2>1. CASE o2 = 1
    BY <1>14, <1>15, <1>20, <2>1
  <2>2. CASE o2 = 0
    BY <1>14, <1>15, <1>20, <2>2
  <2>3. QED
    BY <1>11, <2>1, <2>2
<1>22. (o = 1 <=> w \in c) /\ (o1 = 1 <=> w \in c1)
  BY DEF o, o1, Bit
<1>23. w \in c <=> w - 1 \in CarryStream(a, b, first) \/ (0 \in q /\ first = 0..w - 1)
  <2>1. o = 1 <=> o1 = 1 \/ o2 = 1
    BY <1>11, <1>16
  <2>2. QED
    BY <1>18, <1>19, <1>20, <1>21, <1>22, <2>1
<1>24. w - 1 \in CarryStream(a, b, first) => first # 0..w - 1
  <2>1. SUFFICES ASSUME o1 = 1, N1 = p - 1 PROVE FALSE
    BY <1>18, <1>19, <1>22
  <2>2. Number(a) < p /\ Number(b) < p /\ Number(a) \in Nat /\ Number(b) \in Nat
    BY NumberBelow DEF p
  <2>3. QED
    BY <1>14, <1>15, <2>1, <2>2 DEF N
<1>25. QED
  BY <1>3, <1>5, <1>17, <1>23, <1>24 DEF s, AddedTwice

-----------------------------------------------------------------------------
(* Fields.                                                                   *)

\* A block is made of n fields.
FieldsOf(w, n) == w \in Nat \ {0} /\ n \in Nat /\ W = w * n

LEMMA PlaceIs ==
  ASSUME NEW w \in Nat \ {0}, NEW n \in Nat, NEW k \in 0..n - 1, NEW i \in 0..w - 1
  PROVE  /\ k * w + i \in 0..w * n - 1
         /\ (k * w + i) \div w = k /\ (k * w + i) - k * w = i
<1> DEFINE j == k * w + i
<1>1. j \in Int /\ j = w * k + i /\ k \in Int /\ j - k * w = i
  OBVIOUS
<1>2. w * k <= w * (n - 1)
  <2> DEFINE d == (n - 1) - k
  <2>1. d \in Nat /\ n - 1 = k + d
    OBVIOUS
  <2> HIDE DEF d
  <2>2. w * (n - 1) = w * k + w * d /\ w * d \in Nat /\ w * k \in Int
    BY <2>1
  <2>3. QED
    BY <2>2
<1>3. w * (n - 1) = w * n - w /\ w * n \in Int /\ w * k \in Nat
  OBVIOUS
<1>4. j \in 0..w * n - 1
  BY <1>1, <1>2, <1>3
<1> HIDE DEF j
<1>5. j \div w = k
  <2>1. w \in Nat \ {0} /\ k \in Int /\ i \in 0..w - 1 /\ j \in Int /\ j = w * k + i
    BY <1>1
  <2>2. QED
    BY <2>1, QuotientIs, Zenon
<1>6. QED
  BY <1>1, <1>4, <1>5 DEF j

LEMMA FieldIs ==
  ASSUME NEW w \in Nat \ {0}, NEW a, NEW k \in Nat, a \subseteq Nat
  PROVE  Field(w, a, k) = {i \in 0..w - 1 : k * w + i \in a}
<1>1. ASSUME NEW j \in a, j \div w = k PROVE j - k * w \in 0..w - 1 /\ k * w + (j - k * w) = j
  <2>1. j \in Int
    OBVIOUS
  <2>2. j % w \in 0..w - 1 /\ j \div w \in Int /\ j = w * (j \div w) + (j % w)
    BY <2>1
  <2> DEFINE r == j % w
  <2>3. r \in 0..w - 1 /\ j = w * k + r
    BY <1>1, <2>2
  <2> HIDE DEF r
  <2>4. QED
    BY <2>3
<1>2. ASSUME NEW i \in 0..w - 1, k * w + i \in a PROVE i \in Field(w, a, k)
  <2> DEFINE j == k * w + i
  <2>1. k \in 0..(k + 1) - 1 /\ k + 1 \in Nat
    OBVIOUS
  <2>2. j \div w = k /\ j - k * w = i
    BY <2>1, PlaceIs
  <2>3. j \in a
    BY <1>2
  <2> HIDE DEF j
  <2>4. QED
    BY <2>2, <2>3 DEF Field
<1>3. ASSUME NEW i \in Field(w, a, k) PROVE i \in 0..w - 1 /\ k * w + i \in a
  <2>1. PICK j \in a : j \div w = k /\ i = j - k * w
    BY DEF Field
  <2>2. QED
    BY <1>1, <2>1
<1>4. QED
  BY <1>2, <1>3

LEMMA FieldHas ==
  ASSUME NEW w, NEW n, NEW a, NEW k \in 0..n - 1, FieldsOf(w, n), a \subseteq 0..W - 1
  PROVE  /\ Field(w, a, k) \subseteq 0..w - 1
         /\ \A i \in 0..w - 1 : i \in Field(w, a, k) <=> k * w + i \in a
<1>1. a \subseteq Nat /\ k \in Nat /\ w \in Nat \ {0}
  BY DEF FieldsOf
<1>2. Field(w, a, k) = {i \in 0..w - 1 : k * w + i \in a}
  BY <1>1, FieldIs
<1>3. QED
  BY <1>2

LEMMA FieldPlace ==
  ASSUME NEW w, NEW n, NEW j \in 0..W - 1, FieldsOf(w, n)
  PROVE  \E k \in 0..n - 1, i \in 0..w - 1 : j = k * w + i
<1>1. w \in Nat \ {0} /\ n \in Nat /\ W = w * n /\ j \in Int
  BY DEF FieldsOf
<1>2. j % w \in 0..w - 1 /\ j \div w \in Int /\ j = w * (j \div w) + (j % w)
  BY <1>1
<1> DEFINE i == j % w
           k == j \div w
           p == w * n
<1>3. i \in 0..w - 1 /\ k \in Int /\ j = w * k + i /\ j = k * w + i
  BY <1>1, <1>2
<1>4. j \in 0..p - 1
  BY <1>1
<1> HIDE DEF i, k
<1>5. k >= 0
  <2>1. CASE k <= -1
    <3>1. w * k <= -w
      BY <1>1, <1>3, <2>1
    <3>2. QED
      BY <1>1, <1>3, <1>4, <3>1
  <2>2. QED
    BY <1>3, <2>1
<1>6. k <= n - 1
  <2>1. CASE k >= n
    <3> DEFINE d == k - n
    <3>1. d \in Nat /\ k = n + d
      BY <1>1, <1>3, <2>1
    <3> HIDE DEF d
    <3>2. w * k = p + w * d /\ w * d \in Nat /\ p \in Nat
      BY <1>1, <3>1
    <3> HIDE DEF p
    <3>3. QED
      BY <1>1, <1>3, <1>4, <3>2
  <2>2. QED
    BY <1>1, <1>3, <2>1
<1>7. k \in 0..n - 1
  BY <1>1, <1>3, <1>5, <1>6
<1>8. QED
  BY <1>3, <1>7

SameFields(w, n, a, b) == \A k \in 0..n - 1 : Field(w, a, k) = Field(w, b, k)

LEMMA FieldsEqual ==
  ASSUME NEW w, NEW n, NEW a, NEW b, FieldsOf(w, n), a \subseteq 0..W - 1, b \subseteq 0..W - 1,
         SameFields(w, n, a, b)
  PROVE  a = b
<1>1. ASSUME NEW j \in 0..W - 1 PROVE j \in a <=> j \in b
  <2>1. PICK k \in 0..n - 1, i \in 0..w - 1 : j = k * w + i
    BY FieldPlace
  <2>2. i \in Field(w, a, k) <=> j \in a
    BY <2>1, FieldHas
  <2>3. i \in Field(w, b, k) <=> j \in b
    BY <2>1, FieldHas
  <2>4. QED
    BY <2>2, <2>3 DEF SameFields
<1>2. QED
  BY <1>1

LEMMA SimdAddIs ==
  ASSUME NEW w, NEW n, NEW a, NEW b, FieldsOf(w, n)
  PROVE  /\ simd_add(w, a, b) \subseteq 0..W - 1
         /\ \A k \in 0..n - 1 : Field(w, simd_add(w, a, b), k)
                                  = Bits(Number(Field(w, a, k)) + Number(Field(w, b, k)), w)
<1> DEFINE f(k) == Bits(Number(Field(w, a, k)) + Number(Field(w, b, k)), w)
           sum == UNION {{k * w + i : i \in f(k)} : k \in 0..n - 1}
<1>1. w \in Nat \ {0} /\ n \in Nat /\ W = w * n
  BY DEF FieldsOf
<1>2. W \div w = n
  <2>1. w \in Nat \ {0} /\ n \in Int /\ 0 \in 0..w - 1 /\ W \in Int /\ W = w * n + 0
    BY <1>1
  <2>2. QED
    BY <2>1, QuotientIs, Zenon
<1>3. simd_add(w, a, b) = sum
  BY <1>2 DEF simd_add, Fields
<1>4. \A k : f(k) \subseteq 0..w - 1
  BY DEF Bits
<1> HIDE DEF f
<1>5. \A k \in 0..n - 1, i \in 0..w - 1 : k * w + i \in 0..W - 1
  BY <1>1, PlaceIs
<1>6. sum \subseteq 0..W - 1
  BY <1>4, <1>5
<1>7. ASSUME NEW k \in 0..n - 1 PROVE Field(w, sum, k) = f(k)
  <2>1. ASSUME NEW i \in 0..w - 1 PROVE i \in f(k) <=> k * w + i \in sum
    <3>1. ASSUME NEW h \in 0..n - 1, NEW j \in f(h), k * w + i = h * w + j PROVE i \in f(k)
      <4>1. j \in 0..w - 1
        BY <1>4
      <4>2. (k * w + i) \div w = k /\ (k * w + i) - k * w = i
        BY <1>1, PlaceIs
      <4>3. (h * w + j) \div w = h /\ (h * w + j) - h * w = j
        BY <1>1, <4>1, PlaceIs
      <4>4. k = h
        BY <3>1, <4>2, <4>3
      <4>5. QED
        BY <3>1, <4>2, <4>3, <4>4
    <3>2. k * w + i \in sum => \E h \in 0..n - 1 : \E j \in f(h) : k * w + i = h * w + j
      OBVIOUS
    <3>3. i \in f(k) => k * w + i \in sum
      OBVIOUS
    <3>4. QED
      BY <3>1, <3>2, <3>3
  <2> HIDE DEF sum
  <2>2. /\ Field(w, sum, k) \subseteq 0..w - 1
        /\ \A i \in 0..w - 1 : i \in Field(w, sum, k) <=> k * w + i \in sum
    BY <1>6, FieldHas
  <2>3. QED
    BY <1>4, <2>1, <2>2
<1>8. QED
  BY <1>3, <1>6, <1>7 DEF f

\* The carries into and within a field.
Part(w, c, k) == {i \in 0..w : k * w + i \in c}

PartOf(w, a, b, c, k) ==
  /\ Carries(w, Field(w, a, k), Field(w, b, k), Part(w, c, k))
  /\ Total(w, Field(w, a, k), Field(w, b, k), Part(w, c, k)) = Field(w, Total(W, a, b, c), k)
  /\ 0 \in Part(w, c, k) <=> k * w \in c
  /\ w \in Part(w, c, k) <=> (k + 1) * w \in c

LEMMA PartCarries ==
  ASSUME NEW w, NEW n, NEW a, NEW b, NEW c, NEW k \in 0..n - 1, FieldsOf(w, n),
         a \subseteq 0..W - 1, b \subseteq 0..W - 1, Carries(W, a, b, c)
  PROVE  PartOf(w, a, b, c, k)
<1> DEFINE A == Field(w, a, k)
           B == Field(w, b, k)
           C == Part(w, c, k)
           s == Total(W, a, b, c)
<1>1. w \in Nat \ {0} /\ n \in Nat /\ W = w * n
  BY DEF FieldsOf
<1>2. \A i \in 0..w - 1 : (i \in A <=> k * w + i \in a) /\ (i \in B <=> k * w + i \in b)
  BY FieldHas
<1>3. \A i \in 0..w : i \in C <=> k * w + i \in c
  BY DEF Part
<1>4. s \subseteq 0..W - 1
  BY DEF Total
<1>5. Field(w, s, k) \subseteq 0..w - 1 /\ \A i \in 0..w - 1 : i \in Field(w, s, k) <=> k * w + i \in s
  <2> HIDE DEF s
  <2>1. QED
    BY <1>4, FieldHas
<1>6. C \subseteq 0..w
  BY DEF Part
<1>7. \A i \in 0..w - 1 : k * w + i \in 0..W - 1
  BY <1>1, PlaceIs
<1> HIDE DEF A, B, C
<1>8. ASSUME NEW i \in 0..w - 1
      PROVE  /\ i + 1 \in C <=> (i \in A /\ i \in B) \/ ((i \in A \/ i \in B) /\ i \in C)
             /\ (i \in A <=> (i \in B <=> i \in C)) <=> k * w + i \in s
  <2> DEFINE j == k * w + i
  <2>1. j \in 0..W - 1
    BY <1>7
  <2>2. k * w + (i + 1) = j + 1 /\ i + 1 \in 0..w /\ i \in 0..w
    BY <1>1
  <2>3. (i \in A <=> j \in a) /\ (i \in B <=> j \in b) /\ (i \in C <=> j \in c) /\ (i + 1 \in C <=> j + 1 \in c)
    BY <1>2, <1>3, <2>2
  <2> HIDE DEF j, s
  <2>4. j + 1 \in c <=> (j \in a /\ j \in b) \/ ((j \in a \/ j \in b) /\ j \in c)
    BY <2>1 DEF Carries
  <2>5. j \in s <=> (j \in a <=> (j \in b <=> j \in c))
    BY <2>1 DEF s, Total
  <2>6. QED
    BY <2>3, <2>4, <2>5 DEF j
<1> HIDE DEF s
<1>9. Carries(w, A, B, C)
  BY <1>6, <1>8 DEF Carries
<1>10. Total(w, A, B, C) = Field(w, s, k)
  <2>1. \A i \in 0..w - 1 : i \in Total(w, A, B, C) <=> i \in Field(w, s, k)
    BY <1>5, <1>8 DEF Total
  <2>2. Total(w, A, B, C) \subseteq 0..w - 1
    BY DEF Total
  <2>3. QED
    BY <1>5, <2>1, <2>2
<1>11. 0 \in C <=> k * w \in c
  <2>1. 0 \in 0..w /\ k * w + 0 = k * w
    BY <1>1
  <2>2. QED
    BY <1>3, <2>1
<1>12. w \in C <=> (k + 1) * w \in c
  <2>1. w \in 0..w /\ k * w + w = (k + 1) * w
    BY <1>1
  <2>2. QED
    BY <1>3, <2>1
<1>13. QED
  BY <1>9, <1>10, <1>11, <1>12 DEF A, B, C, s, PartOf

\* What the code computes of the marks, the class and the carry: their sum, and one bit.
SumAndCarry(e1, e2, c) ==
  [sum |-> Total(W, e1, e2, c), out |-> IF W \in c THEN {0} ELSE {}]

LEMMA SetCarryOutIs ==
  ASSUME NEW a, NEW b, NEW c, W \in Nat \ {0}, Carries(W, a, b, c)
  PROVE  setCarryOut(CarryStream(a, b, Total(W, a, b, c))) = IF W \in c THEN {0} ELSE {}
<1> DEFINE s == CarryStream(a, b, Total(W, a, b, c))
           w == W
<1>1. W \in c <=> W - 1 \in s
  BY CarryOutIs
<1>2. setCarryOut(s) = {i \in 0..w - 1 : (i % w) + (w - 1) < w /\ i + (w - 1) \in s}
  BY DEF setCarryOut, simd_srli
<1>3. w \in Nat \ {0}
  OBVIOUS
<1> HIDE DEF s, w
<1>4. \A i \in 0..w - 1 : (i % w) = i /\ ((i % w) + (w - 1) < w <=> i = 0)
  BY <1>3
<1>5. setCarryOut(s) = {i \in 0..w - 1 : i = 0 /\ i + (w - 1) \in s}
  BY <1>2, <1>4
<1>6. 0 \in 0..w - 1 /\ 0 + (w - 1) = w - 1
  BY <1>3
<1>7. QED
  BY <1>1, <1>5, <1>6 DEF s, w

LEMMA SimdAddField ==
  ASSUME NEW w, NEW n, NEW a, NEW b, NEW k \in 0..n - 1, FieldsOf(w, n)
  PROVE  Field(w, simd_add(w, a, b), k) = Bits(Number(Field(w, a, k)) + Number(Field(w, b, k)), w)
BY SimdAddIs

LEMMA SimdAddBlock ==
  ASSUME NEW w, NEW n, NEW a, NEW b, FieldsOf(w, n)
  PROVE  simd_add(w, a, b) \subseteq 0..W - 1
BY SimdAddIs

\* A field of a sum: the fields added, and then the carry into it.
FieldSum(w, e1, e2, q, c, k) ==
  /\ Field(w, simd_add(w, simd_add(w, e1, e2), q), k) = Field(w, Total(W, e1, e2, c), k)
  /\ (k + 1) * w \in c <=>
       \/ (k + 1) * w - 1 \in CarryStream(e1, e2, simd_add(w, e1, e2))
       \/ k * w \in c /\ Field(w, simd_add(w, e1, e2), k) = 0..w - 1
  /\ (k + 1) * w - 1 \in CarryStream(e1, e2, simd_add(w, e1, e2)) =>
       Field(w, simd_add(w, e1, e2), k) # 0..w - 1

LEMMA AddField ==
  ASSUME NEW w, NEW n, NEW e1, NEW e2, NEW c, NEW k \in 0..n - 1, NEW q, FieldsOf(w, n),
         e1 \subseteq 0..W - 1, e2 \subseteq 0..W - 1, Carries(W, e1, e2, c),
         Field(w, q, k) \in {{}, {0}}, 0 \in Field(w, q, k) <=> k * w \in c
  PROVE  FieldSum(w, e1, e2, q, c, k)
<1> DEFINE first == simd_add(w, e1, e2)
           A == Field(w, e1, k)
           B == Field(w, e2, k)
           Q == Field(w, q, k)
           C == Part(w, c, k)
           S == Field(w, first, k)
           t == Field(w, Total(W, e1, e2, c), k)
<1>1. S = Bits(Number(A) + Number(B), w)
  BY SimdAddField
<1>2. first \subseteq 0..W - 1
  BY SimdAddBlock
<1> HIDE DEF first
<1>3. Field(w, simd_add(w, first, q), k) = Bits(Number(S) + Number(Q), w)
  BY SimdAddField
<1>4. Carries(w, A, B, C) /\ Total(w, A, B, C) = t
  <2>1. PartOf(w, e1, e2, c, k)
    BY PartCarries
  <2>2. QED
    BY <2>1 DEF PartOf
<1>5. (0 \in C <=> k * w \in c) /\ (w \in C <=> (k + 1) * w \in c)
  <2>1. PartOf(w, e1, e2, c, k)
    BY PartCarries
  <2>2. QED
    BY <2>1 DEF PartOf
<1>6. A \subseteq 0..w - 1 /\ B \subseteq 0..w - 1
  BY FieldHas
<1>7. w \in Nat \ {0}
  BY DEF FieldsOf
<1>8. Q \in {{}, {0}} /\ (0 \in C <=> 0 \in Q)
  BY <1>5
<1>9. w - 1 \in CarryStream(A, B, S) <=> (k + 1) * w - 1 \in CarryStream(e1, e2, first)
  <2> DEFINE i == w - 1
             j == k * w + i
  <2>1. i \in 0..w - 1 /\ j = (k + 1) * w - 1
    BY <1>7
  <2> HIDE DEF i
  <2>2. (i \in A <=> j \in e1) /\ (i \in B <=> j \in e2)
    BY <2>1, FieldHas
  <2>3. i \in S <=> j \in first
    BY <1>2, <2>1, FieldHas
  <2>4. i \in CarryStream(A, B, S) <=> j \in CarryStream(e1, e2, first)
    <3> HIDE DEF A, B, S, j
    <3>1. QED
      BY <2>2, <2>3 DEF CarryStream
  <2>5. QED
    BY <2>1, <2>4 DEF i
<1> HIDE DEF A, B, C, S, Q, t
<1>10. /\ Bits(Number(S) + Number(Q), w) = Total(w, A, B, C)
       /\ w \in C <=> w - 1 \in CarryStream(A, B, S) \/ (0 \in Q /\ S = 0..w - 1)
       /\ w - 1 \in CarryStream(A, B, S) => S # 0..w - 1
  <2>1. AddedTwice(w, A, B, Q, C, S)
    BY <1>1, <1>4, <1>6, <1>7, <1>8, AddTwice
  <2>2. QED
    BY <2>1 DEF AddedTwice
<1>11. FieldSum(w, e1, e2, q, c, k)
  <2>1. /\ (k + 1) * w \in c <=> (k + 1) * w - 1 \in CarryStream(e1, e2, first)
                                 \/ (k * w \in c /\ S = 0..w - 1)
        /\ (k + 1) * w - 1 \in CarryStream(e1, e2, first) => S # 0..w - 1
    BY <1>5, <1>8, <1>9, <1>10
  <2>2. QED
    BY <1>3, <1>4, <1>10, <2>1 DEF FieldSum, S, t, first
<1>12. QED
  BY <1>11

LEMMA FieldOfCarry ==
  ASSUME NEW w \in Nat \ {0}, NEW q \in {{}, {0}}, NEW k \in Nat
  PROVE  Field(w, q, k) = IF k = 0 THEN q ELSE {}
<1>1. q \subseteq Nat
  OBVIOUS
<1>2. Field(w, q, k) = {i \in 0..w - 1 : k * w + i \in q}
  <2> DEFINE a == q
  <2>1. a \subseteq Nat
    BY <1>1
  <2> HIDE DEF a
  <2>2. Field(w, a, k) = {i \in 0..w - 1 : k * w + i \in a}
    BY <2>1, FieldIs
  <2>3. QED
    BY <2>2 DEF a
<1>3. CASE k = 0
  <2>1. \A i \in 0..w - 1 : k * w + i = i
    BY <1>3
  <2>2. q \subseteq 0..w - 1
    <3>1. 0 \in 0..w - 1
      OBVIOUS
    <3>2. QED
      BY <3>1
  <2>3. {i \in 0..w - 1 : k * w + i \in q} = q
    BY <2>1, <2>2
  <2>4. QED
    BY <1>2, <1>3, <2>3
<1>4. CASE k # 0
  <2>1. k * w >= w
    BY <1>4
  <2>2. \A i \in 0..w - 1 : k * w + i # 0
    BY <2>1
  <2>3. QED
    BY <1>2, <1>4, <2>2
<1>5. QED
  BY <1>3, <1>4

\* The marks, the class, the carry and the carries of their addition.
Adding(e1, e2, q, c) ==
  /\ op.width \in Nat \ {0} /\ op.fields \in Nat \ {0}
  /\ e1 \subseteq 0..W - 1 /\ e2 \subseteq 0..W - 1 /\ q \in {{}, {0}}
  /\ Carries(W, e1, e2, c) /\ (0 \in c <=> 0 \in q)

LEMMA AddingHas ==
  ASSUME NEW e1, NEW e2, NEW q, NEW c, Adding(e1, e2, q, c)
  PROVE  /\ e1 \subseteq 0..W - 1 /\ e2 \subseteq 0..W - 1 /\ q \in {{}, {0}}
         /\ Carries(W, e1, e2, c) /\ (0 \in c <=> 0 \in q)
         /\ W \in Nat \ {0} /\ FieldsOf(F, op.fields) /\ FieldsOf(W, 1)
         /\ F \in Nat \ {0} /\ op.fields \in Nat \ {0}
<1>1. op.width \in Nat \ {0} /\ op.fields \in Nat \ {0}
  BY DEF Adding
<1>2. W \in Nat \ {0}
  BY <1>1 DEF W
<1>3. QED
  BY <1>1, <1>2 DEF Adding, FieldsOf, F, W

LEMMA AddSingleIs ==
  ASSUME NEW e1, NEW e2, NEW q, NEW c, Adding(e1, e2, q, c)
  PROVE  AddSingle(e1, e2, q) = SumAndCarry(e1, e2, c)
<1> DEFINE w == W
           n == 1
           first == simd_add(w, e1, e2)
           sum == simd_add(w, first, q)
           t == Total(W, e1, e2, c)
<1>1. FieldsOf(w, n) /\ w \in Nat \ {0} /\ n - 1 = 0
  BY AddingHas
<1>2. e1 \subseteq 0..W - 1 /\ e2 \subseteq 0..W - 1 /\ Carries(W, e1, e2, c)
  BY AddingHas
<1>3. setCarryOut(CarryStream(e1, e2, t)) = IF W \in c THEN {0} ELSE {}
  BY <1>2, AddingHas, SetCarryOutIs
<1>4. AddSingle(e1, e2, q) = [sum |-> sum, out |-> setCarryOut(CarryStream(e1, e2, sum))]
  BY DEF AddSingle
<1> HIDE DEF w, n
<1>5. ASSUME NEW k \in 0..n - 1 PROVE Field(w, sum, k) = Field(w, t, k)
  <2>1. k = 0
    BY <1>1
  <2>2. q \in {{}, {0}} /\ (0 \in c <=> 0 \in q)
    BY AddingHas
  <2>3. Field(w, q, k) = q
    BY <1>1, <2>1, <2>2, FieldOfCarry
  <2>4. k * w = 0
    BY <1>1, <2>1
  <2>5. Field(w, q, k) \in {{}, {0}} /\ (0 \in Field(w, q, k) <=> k * w \in c)
    BY <2>2, <2>3, <2>4
  <2>6. FieldSum(w, e1, e2, q, c, k)
    BY <1>1, <1>2, <2>5, AddField
  <2>7. QED
    BY <2>6 DEF FieldSum
<1>6. sum \subseteq 0..W - 1
  BY <1>1, SimdAddBlock
<1>7. t \subseteq 0..W - 1
  BY DEF Total
<1> HIDE DEF sum, t
<1>8. sum = t
  <2>1. SameFields(w, n, sum, t)
    BY <1>5 DEF SameFields
  <2>2. QED
    BY <1>1, <1>6, <1>7, <2>1, FieldsEqual
<1>9. QED
  BY <1>3, <1>4, <1>8 DEF SumAndCarry, t

LEMMA CarryAt ==
  ASSUME NEW w \in Nat, NEW a, NEW b, NEW c, NEW j \in 0..w - 1, Carries(w, a, b, c)
  PROVE  j + 1 \in c <=> j \in CarryStream(a, b, Total(w, a, b, c))
<1>1. j + 1 \in c <=> (j \in a /\ j \in b) \/ ((j \in a \/ j \in b) /\ j \in c)
  BY DEF Carries
<1>2. j \in Total(w, a, b, c) <=> (j \in a <=> (j \in b <=> j \in c))
  BY DEF Total
<1>3. j \in CarryStream(a, b, Total(w, a, b, c))
        <=> (j \in a /\ j \in b) \/ ((j \in a \/ j \in b) /\ j \notin Total(w, a, b, c))
  BY DEF CarryStream
<1>4. QED
  BY <1>1, <1>2, <1>3

\* The carry of the lower field, at the foot of the upper one.
Raised(stream) == simd_slli(W, simd_srli(F, stream, F - 1), F)

LEMMA RaisedIs ==
  ASSUME NEW d, F \in Nat \ {0}, W = F * 2
  PROVE  /\ Field(F, Raised(d), 0) = {}
         /\ Field(F, Raised(d), 1) = IF F - 1 \in d THEN {0} ELSE {}
<1> DEFINE f == F
           w == W
           x == simd_srli(F, d, F - 1)
           up == Raised(d)
<1>1. f \in Nat \ {0} /\ w = f * 2 /\ w \in Nat /\ w = f + f
  OBVIOUS
<1>2. x = {i \in 0..w - 1 : (i % f) + (f - 1) < f /\ i + (f - 1) \in d}
  BY DEF simd_srli
<1>3. up = {i \in 0..w - 1 : i % w >= f /\ i - f \in x}
  BY DEF Raised, simd_slli
<1> HIDE DEF f, w, x, up
<1>4. up \subseteq 0..w - 1
  BY <1>3
<1>5. /\ Field(f, up, 0) \subseteq 0..f - 1
      /\ \A i \in 0..f - 1 : i \in Field(f, up, 0) <=> 0 * f + i \in up
  <2> DEFINE k == 0
             n == 2
  <2>1. k \in 0..n - 1 /\ FieldsOf(f, n)
    BY <1>1 DEF FieldsOf, w
  <2> HIDE DEF k, n
  <2>2. up \subseteq 0..W - 1
    BY <1>4 DEF w
  <2>3. /\ Field(f, up, k) \subseteq 0..f - 1
        /\ \A i \in 0..f - 1 : i \in Field(f, up, k) <=> k * f + i \in up
    BY <2>1, <2>2, FieldHas
  <2>4. QED
    BY <2>3 DEF k
<1>6. /\ Field(f, up, 1) \subseteq 0..f - 1
      /\ \A i \in 0..f - 1 : i \in Field(f, up, 1) <=> 1 * f + i \in up
  <2> DEFINE k == 1
             n == 2
  <2>1. k \in 0..n - 1 /\ FieldsOf(f, n)
    BY <1>1 DEF FieldsOf, w
  <2> HIDE DEF k, n
  <2>2. up \subseteq 0..W - 1
    BY <1>4 DEF w
  <2>3. /\ Field(f, up, k) \subseteq 0..f - 1
        /\ \A i \in 0..f - 1 : i \in Field(f, up, k) <=> k * f + i \in up
    BY <2>1, <2>2, FieldHas
  <2>4. QED
    BY <2>3 DEF k
<1>7. \A i \in 0..f - 1 : ~(0 * f + i \in up)
  <2>1. ASSUME NEW i \in 0..f - 1 PROVE ~(0 * f + i \in up)
    <3>1. 0 * f + i = i /\ i % w = i /\ ~(i >= f)
      BY <1>1
    <3>2. QED
      BY <1>3, <3>1
  <2>2. QED
    BY <2>1
<1>8. \A i \in 0..f - 1 : 1 * f + i \in up <=> i = 0 /\ f - 1 \in d
  <2>1. ASSUME NEW i \in 0..f - 1 PROVE 1 * f + i \in up <=> i = 0 /\ f - 1 \in d
    <3> DEFINE j == f + i
    <3>1. 1 * f + i = j /\ j \in 0..w - 1 /\ j % w = j /\ j >= f /\ j - f = i /\ i \in 0..w - 1
      BY <1>1
    <3>2. j \in up <=> i \in x
      BY <1>3, <3>1
    <3>3. i % f = i /\ (i + (f - 1) < f <=> i = 0) /\ 0 + (f - 1) = f - 1
      BY <1>1
    <3>4. i \in x <=> i = 0 /\ f - 1 \in d
      BY <1>2, <3>1, <3>3
    <3>5. QED
      BY <3>1, <3>2, <3>4
  <2>2. QED
    BY <2>1
<1>9. 0 \in 0..f - 1
  BY <1>1
<1>10. QED
  BY <1>5, <1>6, <1>7, <1>8, <1>9 DEF f, up

LEMMA AddPairIs ==
  ASSUME NEW e1, NEW e2, NEW q, NEW c, Adding(e1, e2, q, c), op.fields = 2
  PROVE  AddPair(e1, e2, q) = SumAndCarry(e1, e2, c)
<1> DEFINE w == F
           n == 2
           first == simd_add(w, e1, e2)
           partial == simd_add(w, first, q)
           digitcarry == CarryStream(e1, e2, partial)
           up == Raised(digitcarry)
           sum == simd_add(w, partial, up)
           t == Total(W, e1, e2, c)
           j == w - 1
           zero == 0
           one == 1
           S == Field(w, first, one)
           U == Field(w, up, one)
           P == Field(w, partial, zero)
<1>1. FieldsOf(w, n) /\ w \in Nat \ {0} /\ zero \in 0..n - 1 /\ one \in 0..n - 1 /\ W = w * 2
  BY AddingHas DEF FieldsOf
<1>2. e1 \subseteq 0..W - 1 /\ e2 \subseteq 0..W - 1 /\ Carries(W, e1, e2, c)
      /\ q \in {{}, {0}} /\ (0 \in c <=> 0 \in q)
  BY AddingHas
<1>3. setCarryOut(CarryStream(e1, e2, t)) = IF W \in c THEN {0} ELSE {}
  BY <1>2, AddingHas, SetCarryOutIs
<1>4. AddPair(e1, e2, q) = [sum |-> sum, out |-> setCarryOut(CarryStream(e1, e2, sum))]
  BY DEF AddPair, Raised
<1>5. zero * w = 0 /\ one * w = w /\ j \in 0..w - 1 /\ zero * w + j = j /\ j \in 0..W - 1 /\ j + 1 = w
      /\ zero \in Nat /\ one \in Nat
  BY <1>1
<1>6. Field(w, up, zero) = {} /\ U = IF j \in digitcarry THEN {0} ELSE {}
  BY <1>1, RaisedIs
<1>7. zero = 0 /\ one # 0
  OBVIOUS
<1>8. t \subseteq 0..W - 1
  BY DEF Total
<1> HIDE DEF w, n, zero, one, j
<1>9. Field(w, q, zero) = q /\ Field(w, q, one) = {}
  <2>1. w \in Nat \ {0} /\ q \in {{}, {0}} /\ zero \in Nat /\ one \in Nat
    BY <1>1, <1>2, <1>5
  <2>2. Field(w, q, zero) = IF zero = 0 THEN q ELSE {}
    BY <2>1, FieldOfCarry
  <2>3. Field(w, q, one) = IF one = 0 THEN q ELSE {}
    BY <2>1, FieldOfCarry
  <2>4. QED
    BY <1>7, <2>2, <2>3
<1>10. P = Field(w, t, zero)
  <2>1. FieldSum(w, e1, e2, q, c, zero)
    <3>1. Field(w, q, zero) \in {{}, {0}} /\ (0 \in Field(w, q, zero) <=> zero * w \in c)
      BY <1>2, <1>5, <1>9
    <3>2. QED
      BY <1>1, <1>2, <3>1, AddField
  <2>2. QED
    BY <2>1 DEF FieldSum
<1>11. first \subseteq 0..W - 1 /\ partial \subseteq 0..W - 1 /\ sum \subseteq 0..W - 1
  <2>1. first \subseteq 0..W - 1
    BY <1>1, SimdAddBlock
  <2>2. partial \subseteq 0..W - 1
    <3> HIDE DEF first
    <3>1. QED
      BY <1>1, SimdAddBlock
  <2>3. sum \subseteq 0..W - 1
    <3> HIDE DEF partial, up
    <3>1. QED
      BY <1>1, SimdAddBlock
  <2>4. QED
    BY <2>1, <2>2, <2>3
<1>12. j \in digitcarry <=> w \in c
  <2> HIDE DEF partial, t
  <2>1. j \in partial <=> j \in P
    <3>1. j \in P <=> zero * w + j \in partial
      BY <1>1, <1>5, <1>11, FieldHas
    <3>2. QED
      BY <1>5, <3>1
  <2>2. j \in t <=> j \in Field(w, t, zero)
    <3>1. j \in Field(w, t, zero) <=> zero * w + j \in t
      BY <1>1, <1>5, <1>8, FieldHas
    <3>2. QED
      BY <1>5, <3>1
  <2>3. j \in digitcarry <=> j \in CarryStream(e1, e2, t)
    BY <1>10, <2>1, <2>2 DEF CarryStream
  <2>4. j + 1 \in c <=> j \in CarryStream(e1, e2, t)
    <3>1. W \in Nat
      BY AddingHas
    <3>2. QED
      BY <1>2, <1>5, <3>1, CarryAt DEF t
  <2>5. QED
    BY <1>5, <2>3, <2>4
<1> HIDE DEF digitcarry
<1>13. Field(w, sum, zero) = Field(w, t, zero)
  <2>1. Field(w, sum, zero) = Bits(Number(P) + Number(Field(w, up, zero)), w)
    <3> HIDE DEF partial, up
    <3>1. QED
      BY <1>1, SimdAddField DEF P
  <2>2. P \subseteq 0..w - 1 /\ w \in Nat
    <3> HIDE DEF partial
    <3>1. QED
      BY <1>1, <1>11, FieldHas DEF P
  <2>3. Bits(Number(P) + Number({}), w) = P
    <3> HIDE DEF P
    <3>1. QED
      BY <2>2, BitsOfNumber
  <2>4. QED
    BY <1>6, <1>10, <2>1, <2>3
<1>14. Field(w, sum, one) = Field(w, t, one)
  <2>1. Field(w, partial, one) = S
    <3>1. Field(w, partial, one) = Bits(Number(S) + Number(Field(w, q, one)), w)
      <4> HIDE DEF first
      <4>1. QED
        BY <1>1, SimdAddField DEF S
    <3>2. S \subseteq 0..w - 1 /\ w \in Nat
      <4> HIDE DEF first
      <4>1. QED
        BY <1>1, <1>11, FieldHas DEF S
    <3>3. Bits(Number(S) + Number({}), w) = S
      <4> HIDE DEF S
      <4>1. QED
        BY <3>2, BitsOfNumber
    <3>4. QED
      BY <1>9, <3>1, <3>3
  <2>2. Field(w, sum, one) = Bits(Number(Field(w, partial, one)) + Number(U), w)
    <3> HIDE DEF partial, up
    <3>1. QED
      BY <1>1, SimdAddField DEF U
  <2>3. Field(w, simd_add(w, first, up), one) = Bits(Number(S) + Number(U), w)
    <3> HIDE DEF first, up
    <3>1. QED
      BY <1>1, SimdAddField DEF S, U
  <2>4. FieldSum(w, e1, e2, up, c, one)
    <3> HIDE DEF up
    <3>1. U \in {{}, {0}} /\ (0 \in U <=> one * w \in c)
      <4>1. 0 \in U <=> w \in c
        BY <1>6, <1>12
      <4>2. QED
        BY <1>5, <1>6, <4>1
    <3>2. QED
      BY <1>1, <1>2, <3>1, AddField DEF U
  <2>5. Field(w, simd_add(w, first, up), one) = Field(w, t, one)
    BY <2>4 DEF FieldSum
  <2>6. QED
    BY <2>1, <2>2, <2>3, <2>5
<1> HIDE DEF sum, t
<1>15. sum = t
  <2>1. \A k \in 0..n - 1 : k = zero \/ k = one
    BY DEF n, zero, one
  <2>2. SameFields(w, n, sum, t)
    BY <1>13, <1>14, <2>1 DEF SameFields
  <2>3. QED
    BY <1>1, <1>8, <1>11, <2>2, FieldsEqual
<1>16. QED
  BY <1>3, <1>4, <1>15 DEF SumAndCarry, t

-----------------------------------------------------------------------------
(* The addition of masks.                                                    *)

MovedUp(g) == {k + 1 : k \in g}

LEMMA MaskDoubled ==
  ASSUME NEW n \in Nat, NEW m \in Nat, NEW g, n < m, g \subseteq 0..n - 1
  PROVE  Bits(Number(g) + Number(g), m) = MovedUp(g)
<1> DEFINE c == MovedUp(g)
<1>1. \A i \in 0..m - 1 : i + 1 \in c <=> i \in g
  <2>1. ASSUME NEW i \in 0..m - 1, NEW k \in g, i + 1 = k + 1 PROVE i = k
    BY <2>1
  <2>2. QED
    BY <2>1 DEF MovedUp
<1>2. c \subseteq 1..n
  BY DEF MovedUp
<1> HIDE DEF c
<1>3. g \subseteq 0..m - 1 /\ c \subseteq 0..m - 1 /\ c \subseteq 0..m /\ 0 \notin c
  <2>1. 0..n - 1 \subseteq 0..m - 1 /\ 1..n \subseteq 0..m - 1 /\ 1..n \subseteq 0..m /\ 0 \notin 1..n
    OBVIOUS
  <2>2. QED
    BY <1>2, <2>1
<1>4. Carries(m, g, g, c)
  BY <1>1, <1>3 DEF Carries
<1>5. Bits(Number(g) + Number(g), m) = Total(m, g, g, c)
  BY <1>3, <1>4, BitsOfSum
<1>6. Total(m, g, g, c) = c
  BY <1>3 DEF Total
<1>7. QED
  BY <1>5, <1>6 DEF c

\* Fields that are all ones pass a carry on: the carries into all fields at once.
IncrementMask(bubble, low, m) == Xor(Bits(Number(bubble) + Number(low), m), bubble)

\* in holds the fields that a carry goes into, g those that one comes out of at first.
Bubbles(n, m, g, bubble, q, in) ==
  /\ n \in Nat /\ m \in Nat /\ n < m /\ q \in {{}, {0}}
  /\ g \subseteq 0..n - 1 /\ bubble \subseteq 0..n - 1 /\ g \cap bubble = {}
  /\ 0 \in in <=> 0 \in q
  /\ \A k \in 0..n - 1 : k + 1 \in in <=> k \in g \/ (k \in in /\ k \in bubble)
MaskIs(n, m, g, bubble, q, in) ==
  /\ IncrementMask(bubble, MovedUp(g) \union (q \intersect 0..m - 1), m) \subseteq 0..n
  /\ \A k \in 0..n :
       k \in IncrementMask(bubble, MovedUp(g) \union (q \intersect 0..m - 1), m) <=> k \in in

LEMMA MasksMove ==
  ASSUME NEW n, NEW m, NEW g, NEW bubble, NEW q, NEW in, Bubbles(n, m, g, bubble, q, in)
  PROVE  MaskIs(n, m, g, bubble, q, in)
<1> SUFFICES ASSUME n \in Nat, m \in Nat, n < m, q \in {{}, {0}},
                    g \subseteq 0..n - 1, bubble \subseteq 0..n - 1, g \cap bubble = {},
                    0 \in in <=> 0 \in q,
                    \A k \in 0..n - 1 : k + 1 \in in <=> k \in g \/ (k \in in /\ k \in bubble)
             PROVE  MaskIs(n, m, g, bubble, q, in)
  BY DEF Bubbles
<1> DEFINE low == MovedUp(g) \union (q \intersect 0..m - 1)
           inc == IncrementMask(bubble, low, m)
<1>1. \A i \in 0..n - 1 : i + 1 \in low <=> i \in g
  <2>1. ASSUME NEW i \in 0..n - 1, NEW k \in g, i + 1 = k + 1 PROVE i = k
    BY <2>1
  <2>2. \A i \in 0..n - 1 : i + 1 \notin q
    OBVIOUS
  <2>3. QED
    BY <2>1, <2>2 DEF MovedUp
<1>2. 0 \in low <=> 0 \in q
  <2>1. 0 \notin MovedUp(g)
    BY DEF MovedUp
  <2>2. 0 \in 0..m - 1
    OBVIOUS
  <2>3. QED
    BY <2>1, <2>2
<1>3. low \subseteq 0..n
  BY DEF MovedUp
<1> HIDE DEF low
<1>4. low \subseteq 0..m - 1 /\ bubble \subseteq 0..m - 1
  <2>1. 0..n - 1 \subseteq 0..m - 1 /\ 0..n \subseteq 0..m - 1
    OBVIOUS
  <2>2. QED
    BY <1>3, <2>1
<1>5. PICK d : Carries(m, bubble, low, d) /\ 0 \notin d
  BY NoCarryIn
<1>6. Bits(Number(bubble) + Number(low), m) = Total(m, bubble, low, d)
  BY <1>4, <1>5, BitsOfSum
<1>7. inc = {i \in 0..m - 1 : ~(i \in low <=> i \in d)}
  <2>1. inc = Xor(Total(m, bubble, low, d), bubble)
    BY <1>6 DEF IncrementMask
  <2>2. \A i \in 0..m - 1 : i \in inc <=> ~(i \in low <=> i \in d)
    BY <2>1 DEF Xor, Total
  <2>3. inc \subseteq 0..m - 1
    BY <1>4, <2>1 DEF Xor, Total
  <2> HIDE DEF inc
  <2>4. QED
    BY <2>2, <2>3
<1>8. \A i \in 0..m - 1 :
        i + 1 \in d <=> (i \in bubble /\ i \in low) \/ ((i \in bubble \/ i \in low) /\ i \in d)
  BY <1>5 DEF Carries
<1> DEFINE Good(k) == ~(k \in low /\ k \in d) /\ ((k \in low \/ k \in d) <=> k \in in)
           T == {k \in 0..n : ~Good(k)}
<1>9. T = {}
  <2>1. SUFFICES ASSUME T # {} PROVE FALSE
    OBVIOUS
  <2>2. PICK k \in T : \A j \in T : k <= j
    <3>1. T \subseteq Nat
      OBVIOUS
    <3> HIDE DEF T
    <3>2. QED
      BY <2>1, <3>1, LeastNatural
  <2>3. k # 0
    BY <1>2, <1>5
  <2> DEFINE j == k - 1
  <2>4. j \in 0..n - 1 /\ j \in 0..n /\ j \in 0..m - 1 /\ j + 1 = k /\ j < k
    BY <2>3
  <2> HIDE DEF j
  <2>5. Good(j)
    <3>1. j \notin T
      <4> HIDE DEF T
      <4>1. k \in Nat
        BY <2>2 DEF T
      <4>2. QED
        BY <2>2, <2>4, <4>1
    <3>2. QED
      BY <2>4, <3>1
  <2>6. k \in d <=> (j \in bubble /\ j \in low) \/ ((j \in bubble \/ j \in low) /\ j \in d)
    BY <1>8, <2>4
  <2>7. k \in low <=> j \in g
    BY <1>1, <2>4
  <2>8. k \in in <=> j \in g \/ (j \in in /\ j \in bubble)
    BY <2>4
  <2>9. ~(j \in g /\ j \in bubble)
    OBVIOUS
  <2>10. Good(k)
    BY <2>5, <2>6, <2>7, <2>8, <2>9
  <2>11. QED
    BY <2>2, <2>10
<1>10. \A k \in 0..n : Good(k)
  BY <1>9
<1>11. ASSUME NEW k \in 0..m - 1, k > n PROVE k \notin low /\ k \notin d
  <2> DEFINE j == k - 1
  <2>1. j \in 0..m - 1 /\ j + 1 = k /\ (j = n \/ j > n) /\ j >= n
    BY <1>11
  <2>2. k \notin 0..n /\ (j > n => j \notin 0..n) /\ j \notin 0..n - 1
    BY <1>11, <2>1
  <2> HIDE DEF j
  <2>3. k \notin low /\ (j > n => j \notin low) /\ j \notin bubble
    BY <1>3, <2>2
  <2>4. ~(j \in low /\ j \in d)
    BY <1>10, <2>1, <2>3
  <2>5. k \in d <=> (j \in bubble /\ j \in low) \/ ((j \in bubble \/ j \in low) /\ j \in d)
    BY <1>8, <2>1
  <2>6. QED
    BY <2>3, <2>4, <2>5
<1>12. inc \subseteq 0..n
  <2>1. ASSUME NEW k \in inc PROVE k \in 0..n
    <3>1. k \in 0..m - 1 /\ ~(k \in low <=> k \in d)
      BY <1>7
    <3>2. ~(k > n)
      BY <1>11, <3>1
    <3>3. QED
      BY <3>1, <3>2
  <2>2. QED
    BY <2>1
<1>13. \A k \in 0..n : k \in inc <=> k \in in
  <2>1. \A k \in 0..n : k \in 0..m - 1
    OBVIOUS
  <2>2. QED
    BY <1>7, <1>10, <2>1
<1>14. QED
  BY <1>12, <1>13 DEF inc, low, MaskIs

LEMMA MaskOut ==
  ASSUME NEW n \in Nat, NEW w \in Nat \ {0}, NEW inc, inc \subseteq 0..n
  PROVE  Bits(Number(inc) \div 2^n, w) = IF n \in inc THEN {0} ELSE {}
<1> DEFINE N == Number(inc)
           p == 2^n
           r == Below(inc, n)
           b == Bit(n \in inc)
           Z == IF n \in inc THEN {0} ELSE {}
<1>1. N = r + b * p
  <2> DEFINE m == n + 1
  <2>1. m \in Nat /\ m - 1 = n
    OBVIOUS
  <2>2. inc \subseteq 0..m - 1
    BY <2>1
  <2> HIDE DEF m
  <2>3. Number(inc) = Below(inc, m)
    BY <2>1, <2>2, NumberBelow
  <2>4. Below(inc, n + 1) = Below(inc, n) + Bit(n \in inc) * 2^n
    BY BelowIs
  <2>5. QED
    BY <2>3, <2>4 DEF m
<1>2. p \in Nat \ {0} /\ r \in 0..p - 1 /\ b \in {0, 1} /\ r \in Nat
  BY PowerIs, BelowSmall, BelowIs DEF Bit
<1>3. Number(Z) = b /\ Z \subseteq 0..w - 1
  <2>1. 0 \in 0..w - 1
    OBVIOUS
  <2>2. QED
    BY <2>1, NumberOne DEF Bit
<1> HIDE DEF N, p, r, b, Z
<1>4. N \div p = b
  <2>1. p \in Nat \ {0} /\ b \in Int /\ r \in 0..p - 1 /\ N \in Int /\ N = p * b + r
    BY <1>1, <1>2
  <2>2. QED
    BY <2>1, QuotientIs, Zenon
<1>5. Bits(b, w) = Z
  <2>1. Bits(Number(Z) + Number({}), w) = Z
    BY <1>3, BitsOfNumber
  <2>2. Number(Z) + Number({}) = b
    BY <1>2, <1>3, NumberOne
  <2>3. QED
    BY <2>1, <2>2
<1>6. QED
  BY <1>4, <1>5 DEF N, p, Z

LEMMA SpreadIs ==
  ASSUME NEW w, NEW n, NEW mask, NEW k \in 0..n - 1, FieldsOf(w, n)
  PROVE  Field(w, esimd_bitspread(w, mask), k) = IF k \in mask THEN {0} ELSE {}
<1> DEFINE s == esimd_bitspread(w, mask)
<1>1. w \in Nat \ {0} /\ n \in Nat /\ W = w * n
  BY DEF FieldsOf
<1>2. W \div w = n
  <2>1. w \in Nat \ {0} /\ n \in Int /\ 0 \in 0..w - 1 /\ W \in Int /\ W = w * n + 0
    BY <1>1
  <2>2. QED
    BY <2>1, QuotientIs, Zenon
<1>3. s = {j * w : j \in mask \cap 0..n - 1}
  BY <1>2 DEF esimd_bitspread
<1> HIDE DEF s
<1>4. 0 \in 0..w - 1 /\ \A j \in 0..n - 1 : j * w + 0 = j * w
  BY <1>1
<1>5. s \subseteq 0..W - 1
  <2>1. ASSUME NEW j \in 0..n - 1 PROVE j * w \in 0..W - 1
    <3> DEFINE i == 0
    <3>1. i \in 0..w - 1 /\ j * w + i = j * w
      BY <1>4
    <3> HIDE DEF i
    <3>2. j * w + i \in 0..W - 1
      BY <1>1, <3>1, PlaceIs
    <3>3. QED
      BY <3>1, <3>2
  <2>2. QED
    BY <1>3, <2>1
<1>6. ASSUME NEW i \in 0..w - 1 PROVE k * w + i \in s <=> i = 0 /\ k \in mask
  <2>1. ASSUME NEW j \in 0..n - 1, k * w + i = j * w PROVE i = 0 /\ j = k
    <3> DEFINE z == 0
    <3>1. z \in 0..w - 1 /\ j * w + z = k * w + i
      BY <1>4, <2>1
    <3> HIDE DEF z
    <3>2. (k * w + i) \div w = k /\ (k * w + i) - k * w = i
      BY <1>1, PlaceIs
    <3>3. (j * w + z) \div w = j /\ (j * w + z) - j * w = z
      BY <1>1, <3>1, PlaceIs
    <3>4. k = j
      BY <3>1, <3>2, <3>3
    <3>5. i = z
      BY <3>1, <3>2, <3>3, <3>4
    <3>6. QED
      BY <3>4, <3>5 DEF z
  <2>2. k * w + 0 = k * w
    BY <1>4
  <2>3. QED
    BY <1>3, <2>1, <2>2
<1>7. /\ Field(w, s, k) \subseteq 0..w - 1
      /\ \A i \in 0..w - 1 : i \in Field(w, s, k) <=> k * w + i \in s
  BY <1>5, FieldHas
<1>8. QED
  BY <1>4, <1>6, <1>7 DEF s

LEMMA AddLongIs ==
  ASSUME NEW e1, NEW e2, NEW q, NEW c, Adding(e1, e2, q, c), op.fields < MaskBits
  PROVE  AddLong(e1, e2, q) = SumAndCarry(e1, e2, c)
<1> DEFINE w == F
           n == op.fields
           m == MaskBits
           digitsum == simd_add(w, e1, e2)
           stream == CarryStream(e1, e2, digitsum)
           g == hsimd_signmask(w, stream)
           low == MovedUp(g) \union (q \intersect 0..m - 1)
           bubble == {k \in 0..n - 1 : Field(w, digitsum, k) = 0..w - 1}
           inc == IncrementMask(bubble, low, m)
           in == {k \in 0..n : k * w \in c}
           sum == simd_add(w, digitsum, esimd_bitspread(w, inc))
           t == Total(W, e1, e2, c)
<1>1. FieldsOf(w, n) /\ w \in Nat \ {0} /\ n \in Nat \ {0} /\ m \in Nat /\ n < m /\ W = w * n
      /\ W \in Nat \ {0}
  BY AddingHas DEF FieldsOf, MaskBits
<1>2. e1 \subseteq 0..W - 1 /\ e2 \subseteq 0..W - 1 /\ Carries(W, e1, e2, c)
      /\ q \in {{}, {0}} /\ (0 \in c <=> 0 \in q)
  BY AddingHas
<1>3. AddLong(e1, e2, q)
        = [sum |-> simd_add(w, digitsum, esimd_bitspread(w,
                     IncrementMask(bubble, Bits(Number(g) + Number(g), m) \union (q \intersect 0..m - 1), m))),
           out |-> Bits(Number(IncrementMask(bubble,
                     Bits(Number(g) + Number(g), m) \union (q \intersect 0..m - 1), m)) \div 2^n, W)]
  BY DEF AddLong, IncrementMask
<1>4. t \subseteq 0..W - 1
  BY DEF Total
<1> HIDE DEF w, n, m
<1>5. g = {k \in 0..n - 1 : (k + 1) * w - 1 \in stream}
  <2>1. W \div w = n
    <3>1. w \in Nat \ {0} /\ n \in Int /\ 0 \in 0..w - 1 /\ W \in Int /\ W = w * n + 0
      BY <1>1
    <3>2. QED
      BY <3>1, QuotientIs, Zenon
  <2>2. QED
    BY <2>1 DEF hsimd_signmask
<1>6. g \subseteq 0..n - 1 /\ bubble \subseteq 0..n - 1
  BY <1>5
<1>7. Bits(Number(g) + Number(g), m) = MovedUp(g)
  <2> HIDE DEF g
  <2>1. QED
    BY <1>1, <1>6, MaskDoubled
<1>8. AddLong(e1, e2, q) = [sum |-> sum, out |-> Bits(Number(inc) \div 2^n, W)]
  BY <1>3, <1>7
<1>9. ASSUME NEW k \in 0..n - 1, NEW mask, k \in mask <=> k * w \in c
      PROVE  FieldSum(w, e1, e2, esimd_bitspread(w, mask), c, k)
  <2> DEFINE u == esimd_bitspread(w, mask)
  <2>1. Field(w, u, k) = IF k \in mask THEN {0} ELSE {}
    BY <1>1, SpreadIs
  <2>2. Field(w, u, k) \in {{}, {0}} /\ (0 \in Field(w, u, k) <=> k * w \in c)
    BY <1>9, <2>1
  <2> HIDE DEF u
  <2>3. FieldSum(w, e1, e2, u, c, k)
    BY <1>1, <1>2, <2>2, AddField
  <2>4. QED
    BY <2>3 DEF u
<1>10. ASSUME NEW k \in 0..n - 1
       PROVE  /\ k + 1 \in in <=> k \in g \/ (k \in in /\ k \in bubble)
              /\ ~(k \in g /\ k \in bubble)
  <2>1. k \in 0..n /\ k + 1 \in 0..n
    BY <1>1
  <2>2. (k \in in <=> k * w \in c) /\ (k + 1 \in in <=> (k + 1) * w \in c)
    BY <2>1
  <2>3. FieldSum(w, e1, e2, esimd_bitspread(w, in), c, k)
    <3> HIDE DEF in
    <3>1. QED
      BY <1>9, <2>2
  <2>4. /\ (k + 1) * w \in c <=> (k + 1) * w - 1 \in stream \/ (k * w \in c /\ Field(w, digitsum, k) = 0..w - 1)
        /\ (k + 1) * w - 1 \in stream => Field(w, digitsum, k) # 0..w - 1
    BY <2>3 DEF FieldSum
  <2>5. (k \in g <=> (k + 1) * w - 1 \in stream) /\ (k \in bubble <=> Field(w, digitsum, k) = 0..w - 1)
    BY <1>5
  <2> HIDE DEF in, g, bubble, stream, digitsum
  <2>6. QED
    BY <2>2, <2>4, <2>5
<1>11. 0 \in in <=> 0 \in q
  <2>1. 0 \in 0..n /\ 0 * w = 0
    BY <1>1
  <2>2. QED
    BY <1>2, <2>1
<1>12. inc \subseteq 0..n /\ \A k \in 0..n : k \in inc <=> k \in in
  <2> HIDE DEF g, bubble, in
  <2>1. g \cap bubble = {}
    BY <1>6, <1>10
  <2>2. n \in Nat /\ m \in Nat /\ n < m /\ q \in {{}, {0}}
    BY <1>1, <1>2
  <2>3. Bubbles(n, m, g, bubble, q, in)
    BY <1>6, <1>10, <1>11, <2>1, <2>2 DEF Bubbles
  <2>4. MaskIs(n, m, g, bubble, q, in)
    BY <2>3, MasksMove
  <2>5. QED
    BY <2>4 DEF MaskIs
<1> HIDE DEF inc
<1>13. ASSUME NEW k \in 0..n - 1 PROVE Field(w, sum, k) = Field(w, t, k)
  <2>1. k \in 0..n
    BY <1>1
  <2>2. k \in inc <=> k * w \in c
    BY <1>12, <2>1
  <2>3. FieldSum(w, e1, e2, esimd_bitspread(w, inc), c, k)
    BY <1>9, <2>2
  <2>4. QED
    BY <2>3 DEF FieldSum
<1>14. sum \subseteq 0..W - 1
  <2> HIDE DEF digitsum
  <2>1. QED
    BY <1>1, SimdAddBlock
<1>15. sum = t
  <2> HIDE DEF sum, t
  <2>1. SameFields(w, n, sum, t)
    BY <1>13 DEF SameFields
  <2>2. QED
    BY <1>1, <1>4, <1>14, <2>1, FieldsEqual
<1>16. Bits(Number(inc) \div 2^n, W) = IF W \in c THEN {0} ELSE {}
  <2>1. n \in 0..n /\ n * w = W
    BY <1>1
  <2>2. n \in inc <=> W \in c
    BY <1>12, <2>1
  <2>3. n \in Nat
    BY <1>1
  <2>4. Bits(Number(inc) \div 2^n, W) = IF n \in inc THEN {0} ELSE {}
    <3> DEFINE block == W
    <3>1. n \in Nat /\ block \in Nat \ {0} /\ inc \subseteq 0..n
      BY <1>1, <1>12, <2>3
    <3> HIDE DEF block
    <3>2. Bits(Number(inc) \div 2^n, block) = IF n \in inc THEN {0} ELSE {}
      BY <3>1, MaskOut
    <3>3. QED
      BY <3>2 DEF block
  <2>5. QED
    BY <2>2, <2>4
<1>17. QED
  BY <1>8, <1>15, <1>16 DEF SumAndCarry, t

LEMMA AddIs ==
  ASSUME NEW e1, NEW e2, NEW q, NEW c, Adding(e1, e2, q, c), op.fields < MaskBits
  PROVE  addCarryInCarryOut(e1, e2, q) = SumAndCarry(e1, e2, c)
<1>1. CASE op.fields = 1
  BY <1>1, AddSingleIs DEF addCarryInCarryOut
<1>2. CASE op.fields = 2
  BY <1>2, AddPairIs DEF addCarryInCarryOut
<1>3. CASE op.fields # 1 /\ op.fields # 2
  BY <1>3, AddLongIs DEF addCarryInCarryOut
<1>4. QED
  BY <1>1, <1>2, <1>3

-----------------------------------------------------------------------------
(* Scans.                                                                    *)

\* The carries of a scan: into a position if the scan comes to it from the one before.
ScanCarries(w, marks, class, start, c) ==
  Carries(w, marks \intersect class, class, c) /\ (0 \in c <=> start)

\* Reached, of the first position's carry and the length of a block.
ReachFunction(w, marks, class, start, at) ==
  at = [p \in 0..w - 1 |-> p \in marks \/ (IF p = 0 THEN start ELSE at[p - 1] /\ p - 1 \in class)]
ReachedFrom(w, marks, class, start) ==
  {p \in 0..w - 1 : (CHOOSE at : ReachFunction(w, marks, class, start, at))[p]}

LEMMA ReachedHas ==
  ASSUME NEW marks, NEW class
  PROVE  Reached(marks, class) = ReachedFrom(W, marks, class, open)
BY DEF Reached, ReachedFrom, ReachFunction

LEMMA ScanCarriesHave ==
  ASSUME NEW w \in Nat, NEW marks, NEW class, NEW start, NEW c, NEW i \in 0..w - 1,
         ScanCarries(w, marks, class, start, c)
  PROVE  i + 1 \in c <=> i \in class /\ (i \in marks \/ i \in c)
<1>1. i + 1 \in c <=> (i \in marks \intersect class /\ i \in class)
                      \/ ((i \in marks \intersect class \/ i \in class) /\ i \in c)
  BY DEF ScanCarries, Carries
<1>2. QED
  BY <1>1

LEMMA ReachedIs ==
  ASSUME NEW w \in Nat, NEW marks, NEW class, NEW start, NEW c,
         ScanCarries(w, marks, class, start, c)
  PROVE  ReachedFrom(w, marks, class, start) = {p \in 0..w - 1 : p \in marks \/ p \in c}
<1> DEFINE f == [p \in 0..w - 1 |-> p \in marks \/ p \in c]
           at == CHOOSE at : ReachFunction(w, marks, class, start, at)
<1>1. ReachFunction(w, marks, class, start, f)
  <2>1. ASSUME NEW p \in 0..w - 1
        PROVE  (p \in marks \/ p \in c)
                 <=> (p \in marks \/ (IF p = 0 THEN start ELSE f[p - 1] /\ p - 1 \in class))
    <3>1. CASE p = 0
      BY <3>1 DEF ScanCarries
    <3>2. CASE p # 0
      <4> DEFINE j == p - 1
      <4>1. j \in 0..w - 1 /\ j + 1 = p
        BY <3>2
      <4>2. f[j] <=> j \in marks \/ j \in c
        BY <4>1
      <4> HIDE DEF j, f
      <4>3. p \in c <=> j \in class /\ (j \in marks \/ j \in c)
        BY <4>1, ScanCarriesHave
      <4>4. QED
        BY <3>2, <4>2, <4>3 DEF j
    <3>3. QED
      BY <3>1, <3>2
  <2>2. QED
    BY <2>1, Zenon DEF ReachFunction
<1>2. ReachFunction(w, marks, class, start, at)
  <2> HIDE DEF f
  <2>1. QED
    BY <1>1
<1> HIDE DEF at
<1>3. ASSUME NEW p \in 0..w - 1
      PROVE  at[p] <=> p \in marks \/ (IF p = 0 THEN start ELSE at[p - 1] /\ p - 1 \in class)
  BY <1>2, Zenon DEF ReachFunction
<1> DEFINE Good(p) == at[p] <=> p \in marks \/ p \in c
           T == {p \in 0..w - 1 : ~Good(p)}
<1>4. T = {}
  <2>1. SUFFICES ASSUME T # {} PROVE FALSE
    OBVIOUS
  <2>2. PICK p \in T : \A j \in T : p <= j
    <3>1. T \subseteq Nat
      OBVIOUS
    <3> HIDE DEF T
    <3>2. QED
      BY <2>1, <3>1, LeastNatural
  <2>3. CASE p = 0
    <3>1. at[p] <=> p \in marks \/ start
      BY <1>3, <2>2, <2>3
    <3>2. p \in c <=> start
      BY <2>3 DEF ScanCarries
    <3>3. QED
      BY <2>2, <3>1, <3>2
  <2>4. CASE p # 0
    <3> DEFINE j == p - 1
    <3>1. j \in 0..w - 1 /\ j + 1 = p /\ j < p
      BY <2>4
    <3>2. at[p] <=> p \in marks \/ (at[j] /\ j \in class)
      BY <1>3, <2>2, <2>4
    <3> HIDE DEF j
    <3>3. Good(j)
      <4>1. j \notin T
        <5> HIDE DEF T
        <5>1. p \in Nat
          BY <2>2 DEF T
        <5>2. QED
          BY <2>2, <3>1, <5>1
      <4>2. QED
        BY <3>1, <4>1
    <3>4. p \in c <=> j \in class /\ (j \in marks \/ j \in c)
      BY <3>1, ScanCarriesHave
    <3>5. Good(p)
      BY <3>2, <3>3, <3>4
    <3>6. QED
      BY <2>2, <3>5
  <2>5. QED
    BY <2>3, <2>4
<1>5. \A p \in 0..w - 1 : at[p] <=> p \in marks \/ p \in c
  BY <1>4
<1>6. ReachedFrom(w, marks, class, start) = {p \in 0..w - 1 : at[p]}
  BY DEF ReachedFrom, at
<1>7. QED
  BY <1>5, <1>6

LEMMA ScanCarriesExist ==
  ASSUME NEW w \in Nat, NEW marks, NEW class, NEW start \in BOOLEAN
  PROVE  \E c : ScanCarries(w, marks, class, start, c)
<1> DEFINE a == marks \intersect class
           q == {x \in {0} : start}
<1>1. PICK c : Carries(w, a, class, c) /\ (0 \in c <=> 0 \in q)
  <2> HIDE DEF a, q
  <2>1. QED
    BY CarriesExist
<1>2. 0 \in q <=> start
  OBVIOUS
<1>3. QED
  BY <1>1, <1>2 DEF ScanCarries

\* Of the carries of the scan, MatchStar leaves the marks and where they lead.
MarksReached(m, cc, q, c) ==
  /\ MatchStar(m, cc, q).sum = {p \in 0..W - 1 : p \in m \/ p \in c}
  /\ MatchStar(m, cc, q).out = IF W \in c THEN {0} ELSE {}

LEMMA MatchStarIs ==
  ASSUME NEW m, NEW cc, NEW q, NEW c, op.width \in Nat \ {0}, op.fields \in Nat \ {0},
         op.fields < MaskBits, m \subseteq 0..W - 1, cc \subseteq 0..W - 1, q \in {{}, {0}},
         ScanCarries(W, m, cc, 0 \in q, c)
  PROVE  MarksReached(m, cc, q, c)
<1> DEFINE e == m \intersect cc
           add == addCarryInCarryOut(e, cc, q)
<1>1. Adding(e, cc, q, c)
  BY DEF Adding, ScanCarries
<1>2. add = SumAndCarry(e, cc, c)
  <2> HIDE DEF e
  <2>1. QED
    BY <1>1, AddIs
<1> HIDE DEF add
<1>3. add.sum = Total(W, e, cc, c) /\ add.out = IF W \in c THEN {0} ELSE {}
  BY <1>2 DEF SumAndCarry
<1>4. MatchStar(m, cc, q) = [sum |-> Xor(add.sum, cc) \union m, out |-> add.out]
  BY DEF MatchStar, add
<1>5. \A p \in 0..W - 1 : p \in Xor(add.sum, cc) \union m <=> p \in m \/ p \in c
  BY <1>3 DEF Xor, Total
<1>6. Xor(add.sum, cc) \union m \subseteq 0..W - 1
  BY <1>3 DEF Xor, Total
<1>7. Xor(add.sum, cc) \union m = {p \in 0..W - 1 : p \in m \/ p \in c}
  <2> DEFINE s == Xor(add.sum, cc) \union m
  <2>1. s \subseteq 0..W - 1 /\ \A p \in 0..W - 1 : p \in s <=> p \in m \/ p \in c
    BY <1>5, <1>6
  <2> HIDE DEF s
  <2>2. s = {p \in 0..W - 1 : p \in m \/ p \in c}
    BY <2>1
  <2>3. QED
    BY <2>2 DEF s
<1>8. QED
  BY <1>3, <1>4, <1>7 DEF MarksReached

\* The carries into the first positions depend on nothing behind them.
LEMMA ScanCarriesAgree ==
  ASSUME NEW w \in Nat, NEW marks, NEW others, NEW class, NEW start, NEW c, NEW d, NEW k \in 0..w - 1,
         ScanCarries(w, marks, class, start, c), ScanCarries(w, others, class, start, d),
         others = marks \ {k}
  PROVE  k \in c <=> k \in d
<1> DEFINE Good(i) == i \in c <=> i \in d
           T == {i \in 0..k : ~Good(i)}
<1>1. SUFFICES ASSUME T # {} PROVE FALSE
  OBVIOUS
<1>2. PICK i \in T : \A j \in T : i <= j
  <2>1. T \subseteq Nat
    OBVIOUS
  <2> HIDE DEF T
  <2>2. QED
    BY <1>1, <2>1, LeastNatural
<1>3. i # 0
  BY DEF ScanCarries
<1> DEFINE j == i - 1
<1>4. j \in 0..w - 1 /\ j \in 0..k /\ j + 1 = i /\ j < i /\ j # k
  BY <1>3
<1> HIDE DEF j
<1>5. Good(j)
  <2>1. j \notin T
    <3> HIDE DEF T
    <3>1. i \in Nat
      BY <1>2 DEF T
    <3>2. QED
      BY <1>2, <1>4, <3>1
  <2>2. QED
    BY <1>4, <2>1
<1>6. i \in c <=> j \in class /\ (j \in marks \/ j \in c)
  BY <1>4, ScanCarriesHave
<1>7. i \in d <=> j \in class /\ (j \in others \/ j \in d)
  BY <1>4, ScanCarriesHave
<1>8. j \in others <=> j \in marks
  BY <1>4
<1>9. QED
  BY <1>2, <1>5, <1>6, <1>7, <1>8

\* No mark outside the class has a scan come to it.
MarksApart(w, marks, class, c) == \A k \in marks \ class : k \in 0..w - 1 => k \notin c

LEMMA WellPlacedIs ==
  ASSUME NEW marks, NEW class, NEW c, W \in Nat, open \in BOOLEAN,
         ScanCarries(W, marks, class, open, c), WellPlaced(marks, class)
  PROVE  MarksApart(W, marks, class, c)
<1>1. ASSUME NEW k \in marks \ class, k \in 0..W - 1 PROVE k \notin c
  <2> DEFINE others == marks \ {k}
  <2>1. k \notin Reached(others, class)
    BY DEF WellPlaced
  <2> HIDE DEF others
  <2>2. PICK d : ScanCarries(W, others, class, open, d)
    BY ScanCarriesExist
  <2>3. Reached(others, class) = {p \in 0..W - 1 : p \in others \/ p \in d}
    <3>1. ReachedFrom(W, others, class, open) = {p \in 0..W - 1 : p \in others \/ p \in d}
      BY <2>2, ReachedIs
    <3>2. QED
      BY <3>1, ReachedHas
  <2>4. k \notin d
    BY <1>1, <2>1, <2>3
  <2>5. k \in c <=> k \in d
    BY <1>1, <2>2, ScanCarriesAgree DEF others
  <2>6. QED
    BY <2>4, <2>5
<1>2. QED
  BY <1>1 DEF MarksApart

MarksPassed(m, cc, q, c) ==
  /\ ScanThru(m, cc, q).sum = {p \in 0..W - 1 : p \in m \/ p \in c} \ cc
  /\ ScanThru(m, cc, q).out = IF W \in c THEN {0} ELSE {}

LEMMA ScanThruIs ==
  ASSUME NEW m, NEW cc, NEW q, NEW c, op.width \in Nat \ {0}, op.fields \in Nat \ {0},
         op.fields < MaskBits, m \subseteq 0..W - 1, cc \subseteq 0..W - 1, q \in {{}, {0}},
         ScanCarries(W, m, cc, 0 \in q, c), MarksApart(W, m, cc, c)
  PROVE  MarksPassed(m, cc, q, c)
<1> DEFINE add == addCarryInCarryOut(m, cc, q)
<1>1. \A p \in 0..W - 1 : p \in m /\ p \in c => p \in cc
  BY DEF MarksApart
<1>2. Carries(W, m, cc, c)
  <2>1. ASSUME NEW i \in 0..W - 1
        PROVE  i + 1 \in c <=> (i \in m /\ i \in cc) \/ ((i \in m \/ i \in cc) /\ i \in c)
    <3>1. W \in Nat
      BY DEF W
    <3>2. i + 1 \in c <=> i \in cc /\ (i \in m \/ i \in c)
      BY <3>1, ScanCarriesHave
    <3>3. QED
      BY <1>1, <3>2
  <2>2. c \subseteq 0..W
    BY DEF ScanCarries, Carries
  <2>3. QED
    BY <2>1, <2>2 DEF Carries
<1>3. Adding(m, cc, q, c)
  BY <1>2 DEF Adding, ScanCarries
<1>4. add = SumAndCarry(m, cc, c)
  BY <1>3, AddIs
<1> HIDE DEF add
<1>5. add.sum = Total(W, m, cc, c) /\ add.out = IF W \in c THEN {0} ELSE {}
  BY <1>4 DEF SumAndCarry
<1>6. ScanThru(m, cc, q) = [sum |-> add.sum \ cc, out |-> add.out]
  BY DEF ScanThru, add
<1>7. \A p \in 0..W - 1 : p \in add.sum \ cc <=> (p \in m \/ p \in c) /\ p \notin cc
  BY <1>1, <1>5 DEF Total
<1>8. add.sum \ cc \subseteq 0..W - 1
  BY <1>5 DEF Total
<1>9. QED
  BY <1>5, <1>6, <1>7, <1>8 DEF MarksPassed

-----------------------------------------------------------------------------
(* The carry of a scan and what it stands for.                               *)

Scanning == op \in Ops /\ op.name \in {"MatchStar", "ScanThru"}

Inputs == [stream : SUBSET (0..W - 1), class : SUBSET (0..W - 1), end : 0..W]

\* Between blocks the carry says whether a scan goes on, and after a block whether it will.
CarryIsScan ==
  carry = IF (IF pc = "read" THEN open ELSE GoesOn(input.stream, input.class)) THEN {0} ELSE {}

ScanInv ==
  Scanning =>
    /\ input \in Inputs
    /\ pc \in {"read", "next"} /\ open \in BOOLEAN
    /\ CarryIsScan
    /\ ScansCrossBlocks

SInv == op \in Ops /\ ScanInv

LEMMA ScanSizes ==
  ASSUME Scanning
  PROVE  op.width \in Nat \ {0} /\ op.fields \in Nat \ {0} /\ op.fields < MaskBits /\ W \in Nat \ {0}
<1>1. op.width \in Nat \ {0} /\ op.fields \in Nat \ {0} /\ op.fields < MaskBits
  BY OpsAssumption DEF Scanning
<1>2. QED
  BY <1>1 DEF W

LEMMA ScanInit == Init => SInv
<1>1. SUFFICES ASSUME Init, Scanning PROVE ScanInv
  BY DEF Init, SInv, ScanInv
<1>2. input = NoInput /\ carry = {} /\ pc = "read" /\ open = FALSE
  BY <1>1 DEF Init, Scanning, NoCarry
<1>3. W \in Nat
  BY <1>1, ScanSizes
<1>4. NoInput \in Inputs
  <2>1. W \in 0..W
    BY <1>3
  <2>2. QED
    BY <2>1 DEF NoInput, Inputs
<1>5. CarryIsScan
  BY <1>2 DEF CarryIsScan
<1>6. ScansCrossBlocks
  BY <1>2 DEF ScansCrossBlocks
<1>7. QED
  BY <1>2, <1>4, <1>5, <1>6 DEF ScanInv

\* A block of a scan, from the carry that says whether the scan is open.
LEMMA ScanStep ==
  ASSUME NEW m, NEW cc, Scanning, m \subseteq 0..W - 1, cc \subseteq 0..W - 1, open \in BOOLEAN,
         carry = IF open THEN {0} ELSE {},
         op.name = "ScanThru" => WellPlaced(m, cc)
  PROVE  /\ op.name = "MatchStar" =>
              /\ MatchStar(m, cc, carry).sum = Reached(m, cc)
              /\ MatchStar(m, cc, carry).out = IF GoesOn(m, cc) THEN {0} ELSE {}
         /\ op.name = "ScanThru" =>
              /\ ScanThru(m, cc, carry).sum = Reached(m, cc) \ cc
              /\ ScanThru(m, cc, carry).out = IF GoesOn(m, cc) THEN {0} ELSE {}
<1>1. op.width \in Nat \ {0} /\ op.fields \in Nat \ {0} /\ op.fields < MaskBits /\ W \in Nat \ {0}
  BY ScanSizes
<1> DEFINE w == W
           q == carry
<1>2. w \in Nat \ {0} /\ w \in Nat
  BY <1>1
<1>3. PICK c : ScanCarries(W, m, cc, open, c)
  <2> HIDE DEF w
  <2>1. PICK c : ScanCarries(w, m, cc, open, c)
    BY <1>2, ScanCarriesExist
  <2>2. QED
    BY <2>1 DEF w
<1>4. q \in {{}, {0}} /\ (0 \in q <=> open)
  OBVIOUS
<1>5. ScanCarries(W, m, cc, 0 \in q, c)
  BY <1>3, <1>4 DEF ScanCarries
<1>6. Reached(m, cc) = {p \in 0..W - 1 : p \in m \/ p \in c}
  <2>1. W \in Nat
    BY <1>1
  <2>2. ReachedFrom(W, m, cc, open) = {p \in 0..W - 1 : p \in m \/ p \in c}
    BY <1>3, <2>1, ReachedIs
  <2>3. QED
    BY <2>2, ReachedHas
<1>7. GoesOn(m, cc) <=> W \in c
  <2> DEFINE i == W - 1
  <2>1. i \in 0..W - 1 /\ i + 1 = W /\ W \in Nat
    BY <1>1
  <2> HIDE DEF i
  <2>2. W \in c <=> i \in cc /\ (i \in m \/ i \in c)
    BY <1>3, <2>1, ScanCarriesHave
  <2>3. i \in Reached(m, cc) <=> i \in m \/ i \in c
    BY <1>6, <2>1
  <2>4. QED
    BY <2>2, <2>3 DEF GoesOn, i
<1> HIDE DEF q
<1>8. /\ MatchStar(m, cc, q).sum = {p \in 0..W - 1 : p \in m \/ p \in c}
      /\ MatchStar(m, cc, q).out = IF W \in c THEN {0} ELSE {}
  <2>1. MarksReached(m, cc, q, c)
    BY <1>1, <1>4, <1>5, MatchStarIs
  <2>2. QED
    BY <2>1 DEF MarksReached
<1>9. ASSUME op.name = "ScanThru"
      PROVE  /\ ScanThru(m, cc, q).sum = {p \in 0..W - 1 : p \in m \/ p \in c} \ cc
             /\ ScanThru(m, cc, q).out = IF W \in c THEN {0} ELSE {}
  <2>1. W \in Nat
    BY <1>1
  <2>2. MarksApart(W, m, cc, c)
    BY <1>3, <1>9, <2>1, WellPlacedIs
  <2>3. MarksPassed(m, cc, q, c)
    BY <1>1, <1>4, <1>5, <2>2, ScanThruIs
  <2>4. QED
    BY <2>3 DEF MarksPassed
<1>10. QED
  BY <1>6, <1>7, <1>8, <1>9 DEF q

LEMMA ScanRead ==
  ASSUME SInv, ReadBlock
  PROVE  SInv'
<1>1. op' = op /\ op \in Ops /\ open' = open /\ pc = "read" /\ pc' = "next"
  BY DEF SInv, ReadBlock
<1>2. SUFFICES ASSUME op.name \in {"MatchStar", "ScanThru"} PROVE ScanInv'
  BY <1>1 DEF SInv, ScanInv, Scanning
<1>3. Scanning
  BY <1>1, <1>2 DEF Scanning
<1>4. open \in BOOLEAN /\ carry = IF open THEN {0} ELSE {}
  BY <1>1, <1>3 DEF SInv, ScanInv, CarryIsScan
<1>5. PICK m \in Block, cc \in Block, end \in {W} :
        /\ op.name = "ScanThru" => WellPlaced(m, cc)
        /\ input' = [stream |-> m, class |-> cc, end |-> end]
        /\ result' = Compute(m, cc, end).sum /\ carry' = Compute(m, cc, end).out
  <2>1. TakesClass /\ op.name # "delete"
    BY <1>2 DEF TakesClass
  <2>2. QED
    BY <2>1 DEF ReadBlock
<1>6. W' = W /\ W \in Nat \ {0}
  BY <1>1, <1>3, ScanSizes DEF W
<1>7. m \subseteq 0..W - 1 /\ cc \subseteq 0..W - 1 /\ input'.stream = m /\ input'.class = cc
  BY <1>5 DEF Block
<1>8. input' \in Inputs'
  <2>1. W \in 0..W
    BY <1>6
  <2>2. QED
    BY <1>5, <1>6, <1>7, <2>1 DEF Inputs
<1>9. \A marks, class : Reached(marks, class)' = Reached(marks, class)
  BY <1>1, <1>6 DEF Reached
<1>10. GoesOn(input.stream, input.class)' <=> GoesOn(m, cc)
  BY <1>6, <1>7, <1>9 DEF GoesOn
<1>11. Reached(input.stream, input.class)' = Reached(m, cc)
  BY <1>7, <1>9
<1>12. /\ op.name = "MatchStar" =>
            /\ MatchStar(m, cc, carry).sum = Reached(m, cc)
            /\ MatchStar(m, cc, carry).out = IF GoesOn(m, cc) THEN {0} ELSE {}
       /\ op.name = "ScanThru" =>
            /\ ScanThru(m, cc, carry).sum = Reached(m, cc) \ cc
            /\ ScanThru(m, cc, carry).out = IF GoesOn(m, cc) THEN {0} ELSE {}
  BY <1>3, <1>4, <1>5, <1>7, ScanStep
<1>13. /\ op.name = "MatchStar" => Compute(m, cc, end) = MatchStar(m, cc, carry)
       /\ op.name = "ScanThru" => Compute(m, cc, end) = ScanThru(m, cc, carry)
  BY DEF Compute
<1>14. CarryIsScan'
  <2>1. carry' = IF GoesOn(m, cc) THEN {0} ELSE {}
    BY <1>2, <1>5, <1>12, <1>13
  <2>2. QED
    BY <1>1, <1>10, <2>1 DEF CarryIsScan
<1>15. ScansCrossBlocks'
  BY <1>1, <1>5, <1>7, <1>11, <1>12, <1>13 DEF ScansCrossBlocks
<1>16. QED
  BY <1>1, <1>4, <1>8, <1>14, <1>15 DEF ScanInv

LEMMA ScanNext ==
  ASSUME SInv, NextBlock
  PROVE  SInv'
<1>1. op' = op /\ op \in Ops /\ carry' = carry /\ input' = NoInput /\ pc = "next" /\ pc' = "read"
  BY DEF SInv, NextBlock
<1>2. SUFFICES ASSUME op.name \in {"MatchStar", "ScanThru"} PROVE ScanInv'
  BY <1>1 DEF SInv, ScanInv, Scanning
<1>3. Scanning
  BY <1>1, <1>2 DEF Scanning
<1>4. carry = IF GoesOn(input.stream, input.class) THEN {0} ELSE {}
  BY <1>1, <1>3 DEF SInv, ScanInv, CarryIsScan
<1>5. open' \in BOOLEAN /\ (open' <=> GoesOn(input.stream, input.class))
  BY <1>2 DEF NextBlock, TakesClass
<1>6. W' = W /\ W \in Nat \ {0}
  BY <1>1, <1>3, ScanSizes DEF W
<1>7. input' \in Inputs'
  <2>1. W \in 0..W
    BY <1>6
  <2>2. QED
    BY <1>1, <1>6, <2>1 DEF Inputs, NoInput
<1>8. CarryIsScan'
  BY <1>1, <1>4, <1>5 DEF CarryIsScan
<1>9. ScansCrossBlocks'
  BY <1>1 DEF ScansCrossBlocks
<1>10. QED
  BY <1>1, <1>5, <1>7, <1>8, <1>9 DEF ScanInv

LEMMA ScanSame ==
  ASSUME SInv, UNCHANGED vars
  PROVE  SInv'
<1>1. /\ op' = op /\ input' = input /\ result' = result /\ carry' = carry
      /\ pc' = pc /\ open' = open
  BY DEF vars
<1>2. W' = W
  BY <1>1 DEF W
<1>3. Reached(input.stream, input.class)' = Reached(input.stream, input.class)
  BY <1>1, <1>2 DEF Reached
<1>4. CarryIsScan' <=> CarryIsScan
  BY <1>1, <1>2, <1>3 DEF CarryIsScan, GoesOn
<1>5. ScansCrossBlocks' <=> ScansCrossBlocks
  BY <1>1, <1>3 DEF ScansCrossBlocks
<1>6. Inputs' = Inputs
  BY <1>2 DEF Inputs
<1>7. QED
  BY <1>1, <1>4, <1>5, <1>6 DEF SInv, ScanInv, Scanning

\* However many fields and blocks a run of characters covers, and whichever way the code
\* adds, MatchStar marks every position that can be reached from a mark, and ScanThru the
\* first position behind the run.
THEOREM ScansReachAcrossBlocks == Spec => []ScansCrossBlocks
<1>1. Init => SInv
  BY ScanInit
<1>2. SInv /\ [Next]_vars => SInv'
  <2>1. SUFFICES ASSUME SInv, [Next]_vars PROVE SInv'
    OBVIOUS
  <2>2. CASE ReadBlock
    BY <2>1, <2>2, ScanRead
  <2>3. CASE NextBlock
    BY <2>1, <2>3, ScanNext
  <2>4. CASE UNCHANGED vars
    BY <2>1, <2>4, ScanSame
  <2>5. QED
    BY <2>1, <2>2, <2>3, <2>4 DEF Next
<1>3. SInv => ScansCrossBlocks
  <2>1. CASE op.name \in {"MatchStar", "ScanThru"}
    BY <2>1 DEF SInv, ScanInv, Scanning
  <2>2. CASE op.name \notin {"MatchStar", "ScanThru"}
    BY <2>2 DEF ScansCrossBlocks
  <2>3. QED
    BY <2>1, <2>2
<1>4. QED
  BY <1>1, <1>2, <1>3, PTL DEF Spec

-----------------------------------------------------------------------------
(* Circular buffers.                                                         *)

\* The operation that runs has an Advance by n.
Shifting(n) ==
  /\ op \in Ops /\ (op.name = "Advance" \/ Repeating(op))
  /\ n \in Nat /\ \E j \in DOMAIN ShiftsOf(op) : n = ShiftsOf(op)[j]

LEMMA SizesAre ==
  ASSUME NEW n, Shifting(n)
  PROVE  /\ op.width \in Nat \ {0} /\ op.fields \in Nat \ {0} /\ n \in Nat
         /\ W \in Nat \ {0} /\ W >= op.width /\ ByteBits \in Nat \ {0} /\ W % ByteBits = 0
<1>1. op.width \in Nat \ {0} /\ op.fields \in Nat \ {0} /\ n \in Nat
  BY OpsAssumption DEF Shifting
<1>2. ByteBits \in Nat \ {0} /\ W % ByteBits = 0
  BY OpsAssumption DEF Shifting, W
<1>3. W \in Nat \ {0} /\ W >= op.width
  BY <1>1 DEF W
<1>4. QED
  BY <1>1, <1>2, <1>3

\* A shift covers this many blocks, the last of them perhaps in part.
LEMMA EntriesCover ==
  ASSUME NEW n \in Nat, op \in Ops
  PROVE  /\ Entries(op, n) \in Nat
         /\ W * (Entries(op, n) - 1) < n /\ n <= W * Entries(op, n)
<1> DEFINE m == W
           e == (n + m - 1) \div m
           r == (n + m - 1) % m
<1>1. n \in Nat /\ m \in Nat \ {0} /\ e = Entries(op, n)
  BY OpsAssumption DEF Entries, W
<1> HIDE DEF m
<1>2. e \in Int /\ r \in 0..m - 1 /\ n + m - 1 = m * e + r
  BY <1>1
<1> HIDE DEF e, r
<1>3. m * (e - 1) < n
  <2>1. m * (e - 1) = m * e - m
    BY <1>1, <1>2
  <2>2. QED
    BY <1>1, <1>2, <2>1
<1>4. n <= m * e
  BY <1>1, <1>2
<1>5. e \in Nat
  <2>1. CASE e <= -1
    <3>1. m * e <= -m
      BY <1>1, <1>2, <2>1
    <3>2. QED
      BY <1>1, <1>2, <1>4, <3>1
  <2>2. QED
    BY <1>2, <2>1
<1>6. QED
  BY <1>1, <1>3, <1>4, <1>5 DEF m

LEMMA EntriesAre ==
  ASSUME NEW n, Shifting(n)
  PROVE  /\ Entries(op, n) \in Nat
         /\ W * (Entries(op, n) - 1) < n /\ n <= W * Entries(op, n)
BY EntriesCover DEF Shifting

\* The buffer of a long shift has a slot for each of them.
LEMMA BufferIs ==
  ASSUME NEW n, Shifting(n), IsLong(op, n)
  PROVE  /\ BufferSize(op, n) \in Nat \ {0} /\ BufferSize(op, n) >= Entries(op, n)
         /\ MaxRing \in Nat \ {0} /\ MaxRing % BufferSize(op, n) = 0
         /\ Entries(op, n) = 1 => BufferSize(op, n) = 1
<1> DEFINE e == Entries(op, n)
           sizes == {c \in {2^k : k \in 0..MaxRing} : c >= e}
<1>1. e \in Nat
  BY EntriesAre
<1>2. MaxRing \in Nat \ {0} /\ e <= MaxRing /\ MaxRing % BufferSize(op, n) = 0
  BY OpsAssumption, MaxRingAssumption DEF Shifting
<1>3. BufferSize(op, n) = Min(sizes)
  BY DEF BufferSize
<1> HIDE DEF e
<1>4. \A k \in 0..MaxRing : 2^k \in Nat \ {0} /\ k <= 2^k
  BY <1>2, PowerIs
<1>5. 2^MaxRing \in sizes
  <2>1. MaxRing \in 0..MaxRing
    BY <1>2
  <2>2. 2^MaxRing \in Nat /\ MaxRing <= 2^MaxRing
    BY <1>4, <2>1
  <2>3. 2^MaxRing >= e
    BY <1>1, <1>2, <2>2
  <2>4. QED
    BY <2>1, <2>3
<1>6. sizes \subseteq Nat \ {0}
  BY <1>4
<1>7. PICK least \in sizes : \A c \in sizes : least <= c
  <2> HIDE DEF sizes
  <2>1. QED
    BY <1>5, <1>6, LeastNatural
<1>8. Min(sizes) \in sizes /\ \A c \in sizes : Min(sizes) <= c
  <2> HIDE DEF sizes
  <2>1. QED
    BY <1>7 DEF Min
<1>9. Min(sizes) \in Nat \ {0} /\ Min(sizes) >= e
  BY <1>6, <1>8
<1>10. ASSUME e = 1 PROVE Min(sizes) = 1
  <2>1. 2^0 = 1 /\ 0 \in 0..MaxRing
    BY <1>2
  <2>2. 1 \in sizes
    <3>1. 2^0 \in {2^k : k \in 0..MaxRing}
      BY <2>1
    <3>2. 1 >= e
      BY <1>10
    <3>3. QED
      BY <2>1, <3>1, <3>2
  <2> HIDE DEF sizes
  <2>3. Min(sizes) <= 1
    BY <1>8, <2>2
  <2>4. QED
    BY <1>9, <2>3
<1>11. QED
  BY <1>2, <1>3, <1>9, <1>10 DEF e

-----------------------------------------------------------------------------
(* What a shift gives: at each position what the stream has n before it.     *)

\* The stream at a position counted from the start of a block, with the blocks before it.
Place(w, stream, older, p) ==
  IF p >= 0 THEN p \in stream
  ELSE -(p \div w) <= Len(older) /\ (p % w) \in older[-(p \div w)].stream

Moved(n, stream, older) == {p \in 0..W - 1 : Place(W, stream, older, p - n)}

LEMMA PlaceBefore ==
  ASSUME NEW w \in Nat \ {0}, NEW stream, NEW older, NEW p \in Int,
         NEW d \in Nat \ {0}, NEW r \in 0..w - 1, p = r - w * d
  PROVE  Place(w, stream, older, p) <=> d <= Len(older) /\ r \in older[d].stream
<1>1. p = w * (-d) + r /\ -d \in Int
  OBVIOUS
<1>2. p % w = r /\ p \div w = -d
  BY <1>1, QuotientIs
<1>3. w * d >= w
  OBVIOUS
<1>4. ~(p >= 0)
  BY <1>3
<1>5. -(p \div w) = d
  BY <1>2
<1>6. QED
  BY <1>2, <1>4, <1>5, Zenon DEF Place

\* The blocks before, as many as the shift covers.
OlderOK(n, older) ==
  /\ Len(older) = Entries(op, n)
  /\ \A k \in 1..Entries(op, n) : older[k].stream \subseteq 0..W - 1

\* Up to a whole block, only the last block counts.
LEMMA MovedWithin ==
  ASSUME NEW n, NEW stream, NEW older, Shifting(n), n <= W, OlderOK(n, older)
  PROVE  Moved(n, stream, older)
           = {p \in 0..W - 1 : IF p >= n THEN p - n \in stream
                               ELSE p - n + W \in older[1].stream}
<1> DEFINE w == W
<1>1. n \in Nat /\ w \in Nat \ {0} /\ n <= w
  BY SizesAre
<1>2. Entries(op, n) \in Nat /\ w * (Entries(op, n) - 1) < n /\ n <= w * Entries(op, n)
  BY EntriesAre
<1>3. Len(older) = Entries(op, n)
  BY DEF OlderOK
<1> HIDE DEF w
<1>4. ASSUME NEW p \in 0..w - 1
      PROVE  Place(w, stream, older, p - n)
               <=> IF p >= n THEN p - n \in stream ELSE p - n + w \in older[1].stream
  <2>1. CASE p >= n
    BY <1>1, <2>1 DEF Place
  <2>2. CASE p < n
    <3> DEFINE x == p - n
               r == p - n + w
               d == 1
    <3>1. r \in 0..w - 1 /\ x \in Int /\ d \in Nat \ {0} /\ x = r - w * d
      BY <1>1, <2>2
    <3> HIDE DEF x, r, d
    <3>2. Place(w, stream, older, x) <=> d <= Len(older) /\ r \in older[d].stream
      BY <1>1, <3>1, PlaceBefore
    <3>3. Entries(op, n) >= 1
      <4>1. Entries(op, n) # 0
        BY <1>1, <1>2, <2>2
      <4>2. QED
        BY <1>2, <4>1
    <3>4. 1 <= Len(older)
      BY <1>2, <1>3, <3>3
    <3>5. ~(p >= n)
      BY <1>1, <2>2
    <3>6. QED
      BY <3>2, <3>4, <3>5 DEF x, r, d
  <2>3. QED
    BY <1>1, <2>1, <2>2
<1>5. QED
  BY <1>4, Zenon DEF Moved, w

\* From one field to the next, or from the last block.
LEMMA ShortAdvanceMoves ==
  ASSUME NEW n, NEW stream, NEW older, NEW q, Shifting(n), ~IsLong(op, n), OlderOK(n, older),
         n # 0 => q = older[1].stream
  PROVE  shortAdvance(n, stream, q) = Moved(n, stream, older)
<1> DEFINE w == W
           f == op.width
<1>1. /\ n \in Nat /\ w \in Nat \ {0} /\ f \in Nat \ {0} /\ op.fields \in Nat \ {0} /\ f <= w
      /\ w = f * op.fields /\ ByteBits \in Nat \ {0} /\ w % ByteBits = 0
  BY SizesAre DEF W
<1>2. n <= f
  BY <1>1 DEF IsLong
<1>3. n <= w
  BY <1>1, <1>2
<1>4. Moved(n, stream, older)
        = {p \in 0..w - 1 : IF p >= n THEN p - n \in stream ELSE p - n + w \in older[1].stream}
  BY <1>3, MovedWithin
<1> HIDE DEF w, f
<1>5. Moved(n, stream, older)
        = {p \in 0..w - 1 : IF p >= n THEN p - n \in stream ELSE p - n + w \in q}
  <2>1. CASE n = 0
    <3>1. \A p \in 0..w - 1 : p >= n
      BY <1>1, <2>1
    <3>2. QED
      BY <1>4, <3>1
  <2>2. CASE n # 0
    BY <1>4, <2>2 
  <2>3. QED
    BY <2>1, <2>2
<1>6. CASE n % ByteBits = 0
  <2> DEFINE s == (w \div ByteBits) - (n \div ByteBits)
  <2>1. s * ByteBits = w - n
    <3>1. /\ n % ByteBits \in 0..ByteBits - 1 /\ n \div ByteBits \in Int
          /\ n = ByteBits * (n \div ByteBits) + (n % ByteBits)
      BY <1>1
    <3>2. /\ w % ByteBits \in 0..ByteBits - 1 /\ w \div ByteBits \in Int
          /\ w = ByteBits * (w \div ByteBits) + (w % ByteBits)
      <4>1. w \in Nat /\ ByteBits \in Nat \ {0}
        BY <1>1
      <4>2. QED
        BY <4>1
    <3> DEFINE a == w \div ByteBits
               b == n \div ByteBits
    <3>3. a \in Int /\ b \in Int /\ w = ByteBits * a /\ n = ByteBits * b
      BY <1>1, <1>6, <3>1, <3>2
    <3> HIDE DEF a, b
    <3>4. (a - b) * ByteBits = w - n
      BY <1>1, <3>3
    <3>5. QED
      BY <3>4 DEF a, b
  <2> HIDE DEF s
  <2>2. mvmd_dslli(ByteBits, stream, q, s)
          = {i \in 0..w - 1 : IF i + (w - n) < w THEN i + (w - n) \in q
                              ELSE i + (w - n) - w \in stream}
    BY <2>1 DEF mvmd_dslli, w
  <2>3. shortAdvance(n, stream, q) = mvmd_dslli(ByteBits, stream, q, s)
    BY <1>6 DEF shortAdvance, s, w
  <2>4. \A i \in 0..w - 1 : /\ i + (w - n) < w <=> ~(i >= n)
                            /\ i + (w - n) = i - n + w /\ i + (w - n) - w = i - n
    <3>1. \A i \in 0..w - 1 : i + (w - n) < w <=> ~(i >= n)
      BY <1>1
    <3>2. \A i \in 0..w - 1 : i + (w - n) = i - n + w /\ i + (w - n) - w = i - n
      BY <1>1
    <3>3. QED
      BY <3>1, <3>2
  <2>5. QED
    BY <1>5, <2>2, <2>3, <2>4
<1>7. CASE n % ByteBits # 0
  <2> DEFINE X == mvmd_dslli(f, stream, q, op.fields - 1)
             L == simd_srli(f, X, f - n)
             R == simd_slli(f, stream, n)
  <2>1. shortAdvance(n, stream, q) = L \union R
    BY <1>7 DEF shortAdvance, w, f, F
  <2>2. X = {i \in 0..w - 1 : IF i < f THEN i - f + w \in q ELSE i - f \in stream}
    <3>1. (op.fields - 1) * f = w - f
      BY <1>1
    <3>2. X = {i \in 0..w - 1 : IF i + (w - f) < w THEN i + (w - f) \in q
                                ELSE i + (w - f) - w \in stream}
      BY <3>1 DEF mvmd_dslli, w
    <3>3. \A i \in 0..w - 1 : /\ i + (w - f) < w <=> i < f
                              /\ i + (w - f) = i - f + w /\ i + (w - f) - w = i - f
      BY <1>1
    <3> HIDE DEF X
    <3>4. QED
      BY <3>2, <3>3
  <2> HIDE DEF X
  <2>3. L = {i \in 0..w - 1 : (i % f) < n /\ i + (f - n) \in X}
    <3>1. L = {i \in 0..w - 1 : (i % f) + (f - n) < f /\ i + (f - n) \in X}
      BY DEF simd_srli, w
    <3>2. \A i \in 0..w - 1 : (i % f) + (f - n) < f <=> (i % f) < n
      BY <1>1
    <3> HIDE DEF L
    <3>3. QED
      BY <3>1, <3>2
  <2>4. R = {i \in 0..w - 1 : (i % f) >= n /\ i - n \in stream}
    BY DEF simd_slli, w
  <2> HIDE DEF L, R
  <2>5. ASSUME NEW i \in 0..w - 1
        PROVE  i \in L \union R <=> IF i >= n THEN i - n \in stream ELSE i - n + w \in q
    <3> DEFINE r == i % f
               k == i \div f
    <3>1. r \in 0..f - 1 /\ k \in Int /\ i = f * k + r
      BY <1>1
    <3>2. i \in L <=> r < n /\ i + (f - n) \in X
      BY <2>3
    <3>3. i \in R <=> r >= n /\ i - n \in stream
      BY <2>4
    <3> HIDE DEF r, k
    <3>4. CASE r >= n
      <4>1. f * k >= 0
        <5>1. CASE k <= -1
          <6>1. f * k <= -f
            BY <1>1, <3>1, <5>1
          <6>2. QED
            BY <1>1, <3>1, <6>1
        <5>2. CASE k >= 0
          BY <1>1, <3>1, <5>2
        <5>3. k <= -1 \/ k >= 0
          BY <3>1
        <5>4. QED
          BY <5>1, <5>2, <5>3
      <4>2. i >= n
        BY <1>1, <3>1, <3>4, <4>1
      <4>3. ~(r < n)
        BY <1>1, <3>1, <3>4
      <4>4. QED
        BY <3>2, <3>3, <3>4, <4>2, <4>3
    <3>5. CASE r < n
      <4>1. ~(r >= n)
        BY <1>1, <3>1, <3>5
      <4>2. CASE k = 0
        <5>1. i = r
          BY <1>1, <3>1, <4>2
        <5>2. i + (f - n) \in 0..w - 1 /\ i + (f - n) < f /\ i + (f - n) - f + w = i - n + w
              /\ ~(i >= n)
          BY <1>1, <1>2, <3>1, <3>5, <5>1
        <5>3. i + (f - n) \in X <=> i - n + w \in q
          <6> DEFINE j == i + (f - n)
          <6>1. j \in 0..w - 1 /\ j < f /\ j - f + w = i - n + w
            BY <1>1, <5>2
          <6> HIDE DEF j
          <6>2. j \in X <=> j - f + w \in q
            BY <2>2, <6>1
          <6>3. QED
            BY <6>1, <6>2 DEF j
        <5>4. QED
          BY <3>2, <3>3, <3>5, <4>1, <5>2, <5>3
      <4>3. CASE k >= 1
        <5>1. f * k >= f
          BY <1>1, <3>1, <4>3
        <5>2. k <= op.fields - 1
          <6>1. CASE k >= op.fields
            <7>1. f * k >= f * op.fields
              BY <1>1, <3>1, <6>1
            <7>2. QED
              BY <1>1, <3>1, <7>1
          <6>2. QED
            BY <1>1, <3>1, <6>1
        <5>3. f * k <= w - f
          <6>1. f * k <= f * (op.fields - 1)
            BY <1>1, <3>1, <5>2
          <6>2. QED
            BY <1>1, <6>1
        <5>4. i + (f - n) \in 0..w - 1 /\ ~(i + (f - n) < f) /\ i + (f - n) - f = i - n /\ i >= n
          BY <1>1, <1>2, <3>1, <3>5, <5>1, <5>3
        <5>5. i + (f - n) \in X <=> i - n \in stream
          <6> DEFINE j == i + (f - n)
          <6>1. j \in 0..w - 1 /\ ~(j < f) /\ j - f = i - n
            BY <1>1, <5>4
          <6> HIDE DEF j
          <6>2. j \in X <=> j - f \in stream
            BY <2>2, <6>1
          <6>3. QED
            BY <6>1, <6>2 DEF j
        <5>6. QED
          BY <3>2, <3>3, <3>5, <4>1, <5>4, <5>5
      <4>4. k >= 0
        <5>1. CASE k <= -1
          <6>1. f * k <= -f
            BY <1>1, <3>1, <5>1
          <6>2. QED
            BY <1>1, <3>1, <6>1
        <5>2. QED
          BY <3>1, <5>1
      <4>5. QED
        BY <3>1, <4>2, <4>3, <4>4
    <3>6. QED
      BY <1>1, <3>1, <3>4, <3>5
  <2>6. L \union R \subseteq 0..w - 1
    BY <2>3, <2>4
  <2>7. QED
    BY <1>5, <2>1, <2>5, <2>6
<1>8. QED
  BY <1>6, <1>7

\* Part of the last block and part of this one, or parts of the two oldest.
LEMMA LongAdvanceMoves ==
  ASSUME NEW n, NEW stream, NEW older, NEW ring, Shifting(n), IsLong(op, n), OlderOK(n, older),
         blockNo \in Nat,
         \A k \in 1..Entries(op, n) :
           ring[(blockNo - k) % BufferSize(op, n)] = older[k].stream
  PROVE  longAdvance(n, stream, ring) = Moved(n, stream, older)
<1> DEFINE w == W
           e == Entries(op, n)
           at(k) == ring[(blockNo - k) % BufferSize(op, n)]
<1>1. n \in Nat /\ w \in Nat \ {0} /\ op.width \in Nat \ {0} /\ n >= op.width
  BY SizesAre DEF IsLong
<1>2. e \in Nat /\ w * (e - 1) < n /\ n <= w * e
  BY EntriesAre
<1>3. /\ e = 1 => BufferSize(op, n) = 1
      /\ \A k \in 1..e : at(k) = older[k].stream
      /\ \A k \in 1..e : older[k].stream \subseteq 0..w - 1
      /\ Len(older) = e
  BY BufferIs DEF OlderOK
<1> HIDE DEF w, e
<1>4. e >= 1
  <2>1. e # 0
    BY <1>1, <1>2
  <2>2. QED
    BY <1>2, <2>1
<1>5. CASE n <= w
  <2>1. e = 1
    <3>1. CASE e - 1 >= 1
      <4>1. w * (e - 1) >= w
        BY <1>1, <1>2, <3>1
      <4>2. QED
        BY <1>1, <1>2, <1>5, <4>1
    <3>2. QED
      BY <1>2, <1>4, <3>1
  <2>2. at(1) = ring[0]
    BY <1>3, <2>1
  <2>3. at(1) = older[1].stream
    BY <1>3, <2>1
  <2>4. older[1].stream \subseteq 0..w - 1
    BY <1>3, <2>1
  <2> HIDE DEF at
  <2>5. ring[0] = older[1].stream /\ ring[0] \subseteq 0..w - 1
    BY <2>2, <2>3, <2>4
  <2>6. Moved(n, stream, older)
          = {p \in 0..w - 1 : IF p >= n THEN p - n \in stream ELSE p - n + w \in ring[0]}
    BY <1>5, <2>5, MovedWithin DEF w
  <2>7. CASE n = w
    <3>1. longAdvance(n, stream, ring) = ring[0]
      BY <2>7 DEF longAdvance, w
    <3>2. \A p \in 0..w - 1 : ~(p >= n) /\ p - n + w = p
      BY <1>1, <2>7
    <3>3. QED
      BY <2>5, <2>6, <3>1, <3>2
  <2>8. CASE n < w
    <3> DEFINE L == simd_slli(w, stream, n)
               R == simd_srli(w, ring[0], w - n)
    <3>1. longAdvance(n, stream, ring) = L \union R
      <4>1. n # w
        BY <1>1, <2>8
      <4>2. QED
        BY <2>8, <4>1 DEF longAdvance, w
    <3>2. \A i \in 0..w - 1 : i % w = i
      BY <1>1
    <3>3. L = {i \in 0..w - 1 : i >= n /\ i - n \in stream}
      BY <3>2 DEF simd_slli, w
    <3>4. R = {i \in 0..w - 1 : i + (w - n) < w /\ i + (w - n) \in ring[0]}
      BY <3>2 DEF simd_srli, w
    <3> HIDE DEF L, R
    <3>5. \A i \in 0..w - 1 : (i + (w - n) < w <=> ~(i >= n)) /\ i + (w - n) = i - n + w
      BY <1>1
    <3>6. QED
      BY <2>6, <3>1, <3>3, <3>4, <3>5
  <2>9. QED
    BY <1>1, <1>5, <2>7, <2>8
<1>6. CASE n > w
  <2>1. n # w /\ ~(n < w)
    BY <1>1, <1>6
  <2>2. CASE n % w = 0
    <3>1. longAdvance(n, stream, ring) = at(e)
      BY <2>1, <2>2 DEF longAdvance, w, e
    <3>2. at(e) = older[e].stream /\ older[e].stream \subseteq 0..w - 1
      BY <1>2, <1>3, <1>4
    <3>3. n = w * e
      <4> DEFINE q == n \div w
      <4>1. q \in Int /\ n = w * q + (n % w)
        BY <1>1
      <4>2. n = w * q
        BY <1>1, <2>2, <4>1
      <4> HIDE DEF q
      <4>3. q = e
        <5>1. w * (e - 1) < w * q /\ w * q <= w * e
          BY <1>2, <4>2
        <5>2. CASE q <= e - 1
          <6>1. w * q <= w * (e - 1)
            BY <1>1, <1>2, <4>1, <5>2
          <6>2. QED
            BY <1>1, <1>2, <4>1, <5>1, <6>1
        <5>3. CASE q >= e + 1
          <6>1. w * q >= w * (e + 1)
            BY <1>1, <1>2, <4>1, <5>3
          <6>2. w * (e + 1) = w * e + w
            BY <1>1, <1>2
          <6>3. QED
            BY <1>1, <1>2, <4>1, <5>1, <6>1, <6>2
        <5>4. QED
          BY <1>2, <4>1, <5>2, <5>3
      <4>4. QED
        BY <4>2, <4>3
    <3>4. ASSUME NEW p \in 0..w - 1
          PROVE  Place(w, stream, older, p - n) <=> p \in older[e].stream
      <4>1. p - n \in Int /\ p - n = p - w * e /\ e \in Nat \ {0}
        BY <1>1, <1>2, <1>4, <3>3
      <4>2. Place(w, stream, older, p - n) <=> e <= Len(older) /\ p \in older[e].stream
        BY <1>1, <4>1, PlaceBefore
      <4>3. QED
        BY <1>2, <1>3, <4>2
    <3>5. Moved(n, stream, older) = {p \in 0..w - 1 : p \in older[e].stream}
      BY <3>4, Zenon DEF Moved, w
    <3> HIDE DEF at
    <3>6. QED
      BY <3>1, <3>2, <3>5
  <2>3. CASE n % w # 0
    <3> DEFINE r == n % w
               L == simd_srli(w, at(e), w - r)
               R == simd_slli(w, at(e - 1), r)
    <3>1. longAdvance(n, stream, ring) = L \union R
      BY <2>1, <2>3 DEF longAdvance, TwoBlocks, w, e
    <3>2. r \in 1..w - 1
      BY <1>1, <2>3
    <3>3. n = w * (e - 1) + r
      <4> DEFINE q == n \div w
      <4>1. q \in Int /\ n = w * q + r
        BY <1>1
      <4> HIDE DEF q, r
      <4>2. q = e - 1
        <5>1. CASE q <= e - 2
          <6>1. w * q <= w * (e - 2)
            BY <1>1, <1>2, <4>1, <5>1
          <6>2. w * (e - 2) = w * (e - 1) - w
            BY <1>1, <1>2
          <6>3. QED
            BY <1>1, <1>2, <3>2, <4>1, <6>1, <6>2
        <5>2. CASE q >= e
          <6>1. w * q >= w * e
            BY <1>1, <1>2, <4>1, <5>2
          <6>2. QED
            BY <1>1, <1>2, <3>2, <4>1, <6>1
        <5>3. QED
          BY <1>2, <4>1, <5>1, <5>2
      <4>3. QED
        BY <4>1, <4>2
    <3> HIDE DEF r
    <3>4. e >= 2
      <4>1. CASE e = 1
        <5>1. w * (e - 1) = 0
          BY <1>1, <4>1
        <5>2. QED
          BY <1>1, <1>6, <3>2, <3>3, <5>1
      <4>2. QED
        BY <1>2, <1>4, <4>1
    <3>5. at(e) = older[e].stream /\ at(e - 1) = older[e - 1].stream
      <4>1. e \in 1..e /\ e - 1 \in 1..e
        BY <1>2, <3>4
      <4> HIDE DEF at
      <4>2. QED
        BY <1>3, <4>1
    <3> HIDE DEF at
    <3>6. \A i \in 0..w - 1 : i % w = i
      BY <1>1
    <3>7. L = {i \in 0..w - 1 : i + (w - r) < w /\ i + (w - r) \in older[e].stream}
      BY <3>5, <3>6 DEF simd_srli, w
    <3>8. R = {i \in 0..w - 1 : i >= r /\ i - r \in older[e - 1].stream}
      BY <3>5, <3>6 DEF simd_slli, w
    <3> HIDE DEF L, R
    <3>9. ASSUME NEW p \in 0..w - 1
          PROVE  Place(w, stream, older, p - n) <=> p \in L \union R
      <4>1. w * e = w * (e - 1) + w
        BY <1>1, <1>2
      <4>2. CASE p >= r
        <5> DEFINE x == p - n
                   d == e - 1
                   s == p - r
        <5>1. s \in 0..w - 1 /\ d \in Nat \ {0} /\ x \in Int /\ x = s - w * d
          BY <1>1, <1>2, <3>2, <3>3, <3>4, <4>2
        <5> HIDE DEF x, d, s
        <5>2. Place(w, stream, older, x) <=> d <= Len(older) /\ s \in older[d].stream
          BY <1>1, <5>1, PlaceBefore
        <5>3. ~(p + (w - r) < w) /\ e - 1 <= Len(older)
          BY <1>1, <1>2, <1>3, <3>2, <4>2
        <5>4. QED
          BY <3>7, <3>8, <4>2, <5>2, <5>3 DEF x, d, s
      <4>3. CASE p < r
        <5> DEFINE x == p - n
                   s == p + (w - r)
        <5>1. s \in 0..w - 1 /\ e \in Nat \ {0} /\ x \in Int /\ x = s - w * e
          BY <1>1, <1>2, <3>2, <3>3, <3>4, <4>1, <4>3
        <5> HIDE DEF x, s
        <5>2. Place(w, stream, older, x) <=> e <= Len(older) /\ s \in older[e].stream
          BY <1>1, <5>1, PlaceBefore
        <5>3. p + (w - r) < w /\ ~(p >= r) /\ e <= Len(older)
          BY <1>1, <1>2, <1>3, <3>2, <4>3
        <5>4. QED
          BY <3>7, <3>8, <5>2, <5>3 DEF x, s
      <4>4. QED
        BY <3>2, <4>2, <4>3
    <3>10. L \union R \subseteq 0..w - 1
      BY <3>7, <3>8
    <3>11. Moved(n, stream, older) = {p \in 0..w - 1 : p \in L \union R}
      BY <3>9, Zenon DEF Moved, w
    <3>12. QED
      BY <3>1, <3>10, <3>11
  <2>4. QED
    BY <2>2, <2>3
<1>7. QED
  BY <1>1, <1>5, <1>6

-----------------------------------------------------------------------------
(* The carry of a shift and the blocks it stands for.                        *)

\* The carry q of a shift by n holds the older blocks when the next one has this number: the
\* last block, or those that a long shift goes back, each in the slot of its number.
Holds(n, q, older, number) ==
  IF IsLong(op, n)
  THEN /\ DOMAIN q = 0..BufferSize(op, n) - 1
       /\ \A k \in 1..Entries(op, n) : q[(number - k) % BufferSize(op, n)] = older[k].stream
  ELSE n # 0 => q = older[1].stream

\* The older blocks when this one is done.
Pushed(older, block) == IF older = << >> THEN older ELSE <<block>> \o Front(older)

LEMMA PushedIs ==
  ASSUME NEW S, NEW older \in Seq(S), NEW block \in S
  PROVE  /\ Pushed(older, block) \in Seq(S) /\ Len(Pushed(older, block)) = Len(older)
         /\ Len(older) >= 1 => Pushed(older, block)[1] = block
         /\ \A k \in 2..Len(older) : Pushed(older, block)[k] = older[k - 1]
<1> DEFINE new == Pushed(older, block)
<1>1. CASE older = << >>
  <2>1. new = << >>
    BY <1>1 DEF Pushed
  <2>2. Len(older) = 0 /\ new = older
    BY <1>1, <2>1
  <2>3. \A k \in 2..0 : FALSE
    OBVIOUS
  <2> HIDE DEF new
  <2>4. new \in Seq(S) /\ Len(new) = Len(older)
    BY <2>2
  <2>5. QED
    BY <2>2, <2>3, <2>4 DEF new
<1>2. CASE older # << >>
  <2> DEFINE front == Front(older)
  <2>1. new = <<block>> \o front /\ Len(older) \in Nat /\ Len(older) >= 1
    BY <1>2 DEF Pushed
  <2>2. front \in Seq(S) /\ Len(front) = Len(older) - 1
        /\ \A k \in 1..Len(older) - 1 : front[k] = older[k]
    BY <2>1 DEF Front
  <2> HIDE DEF front, new
  <2>3. new \in Seq(S) /\ Len(new) = Len(older)
    BY <2>1, <2>2
  <2>4. new[1] = block
    BY <2>1, <2>2
  <2>5. \A k \in 2..Len(older) : new[k] = front[k - 1] /\ front[k - 1] = older[k - 1]
    BY <2>1, <2>2
  <2>6. QED
    BY <2>3, <2>4, <2>5 DEF new
<1>3. QED
  BY <1>1, <1>2

\* The number of the block is kept modulo MaxRing; the slots do not depend on that.
LEMMA SlotsTurn ==
  ASSUME NEW n, NEW back \in Int, Shifting(n), IsLong(op, n), blockNo \in 0..MaxRing - 1
  PROVE  (((blockNo + 1) % MaxRing) - (back + 1)) % BufferSize(op, n)
           = (blockNo - back) % BufferSize(op, n)
<1> DEFINE m == BufferSize(op, n)
           b == blockNo
<1>1. MaxRing \in Nat \ {0} /\ m \in Nat \ {0} /\ MaxRing % m = 0 /\ b \in 0..MaxRing - 1
  BY BufferIs
<1> HIDE DEF m, b
<1>2. CASE b + 1 < MaxRing
  <2>1. (b + 1) % MaxRing = b + 1
    BY <1>1, <1>2
  <2>2. b + 1 - (back + 1) = b - back
    BY <1>1
  <2>3. QED
    BY <2>1, <2>2 DEF m, b
<1>3. CASE b + 1 = MaxRing
  <2>1. (b + 1) % MaxRing = 0
    BY <1>1, <1>3
  <2> DEFINE new == 0 - (back + 1)
             old == b - back
  <2>2. old = new + MaxRing /\ new \in Int /\ old \in Int /\ MaxRing \in Int
    BY <1>1, <1>3
  <2> HIDE DEF new, old
  <2>3. old % m = new % m
    BY <1>1, <2>2, RemainderSame
  <2>4. QED
    BY <2>1, <2>3 DEF m, new, old, b
<1>4. QED
  BY <1>1, <1>2, <1>3

\* A shift covers at least one block, unless it is none.
LEMMA EntriesSome ==
  ASSUME NEW n, Shifting(n)
  PROVE  n # 0 => 1 \in 1..Entries(op, n)
<1>1. n \in Nat /\ Entries(op, n) \in Nat /\ n <= W * Entries(op, n) /\ W \in Nat \ {0}
  BY SizesAre, EntriesAre
<1>2. CASE Entries(op, n) = 0
  BY <1>1, <1>2
<1>3. QED
  BY <1>1, <1>2

\* A block of the stream, moved, and the carry for the next one.
AdvancedBy(n, stream, q, older, block) ==
  /\ Advance(n, stream, q).sum = Moved(n, stream, older)
  /\ Holds(n, Advance(n, stream, q).out, Pushed(older, block), (blockNo + 1) % MaxRing)

LEMMA AdvanceIs ==
  ASSUME NEW n, NEW stream, NEW q, NEW S, NEW older \in Seq(S), NEW block \in S,
         Shifting(n), OlderOK(n, older), Holds(n, q, older, blockNo),
         blockNo \in 0..MaxRing - 1, block.stream = stream
  PROVE  AdvancedBy(n, stream, q, older, block)
<1> DEFINE new == Pushed(older, block)
           out == Advance(n, stream, q).out
           following == (blockNo + 1) % MaxRing
<1>1. MaxRing \in Nat \ {0} /\ Entries(op, n) \in Nat /\ Len(older) = Entries(op, n)
  BY OpsAssumption, EntriesAre DEF OlderOK
<1>2. /\ Entries(op, n) >= 1 => new[1] = block
      /\ \A k \in 2..Entries(op, n) : new[k] = older[k - 1]
  <2>1. Len(older) >= 1 => new[1] = block
    BY PushedIs
  <2>2. \A k \in 2..Len(older) : new[k] = older[k - 1]
    BY PushedIs
  <2> HIDE DEF new
  <2>3. QED
    BY <1>1, <2>1, <2>2
<1> HIDE DEF new
<1>3. CASE IsLong(op, n)
  <2> DEFINE b == BufferSize(op, n)
  <2>1. /\ DOMAIN q = 0..b - 1
        /\ \A k \in 1..Entries(op, n) : q[(blockNo - k) % b] = older[k].stream
    BY <1>3 DEF Holds
  <2>2. b \in Nat \ {0} /\ b >= Entries(op, n)
    BY <1>3, BufferIs
  <2>3. /\ Advance(n, stream, q).sum = longAdvance(n, stream, q)
        /\ out = [q EXCEPT ![blockNo % b] = stream]
    BY <1>3 DEF Advance
  <2>4. blockNo \in Nat /\ blockNo \in Int
    BY <1>1
  <2>5. Advance(n, stream, q).sum = Moved(n, stream, older)
    <3>1. longAdvance(n, stream, q) = Moved(n, stream, older)
      BY <1>3, <2>1, <2>4, LongAdvanceMoves
    <3>2. QED
      BY <2>3, <3>1
  <2> HIDE DEF b, out
  <2>6. blockNo % b \in 0..b - 1
    BY <2>2, <2>4, DivisionIs
  <2>7. DOMAIN out = 0..b - 1 /\ out[blockNo % b] = stream
    BY <2>1, <2>3, <2>6
  <2>8. ASSUME NEW k \in 1..Entries(op, n) - 1
        PROVE  out[(blockNo - k) % b] = older[k].stream
    <3>1. k \in 1..b - 1 /\ blockNo - k \in Int /\ blockNo - (blockNo - k) = k
          /\ k \in 1..Entries(op, n)
      BY <1>1, <2>2, <2>4
    <3>2. blockNo % b # (blockNo - k) % b
      BY <2>2, <2>4, <3>1, SlotsApart
    <3>3. (blockNo - k) % b \in 0..b - 1
      BY <2>2, <3>1, DivisionIs
    <3>4. out[(blockNo - k) % b] = q[(blockNo - k) % b]
      BY <2>1, <2>3, <3>2, <3>3
    <3>5. QED
      BY <2>1, <3>1, <3>4
  <2>9. ASSUME NEW k \in 1..Entries(op, n)
        PROVE  out[(following - k) % b] = new[k].stream
    <3>1. k - 1 \in Int /\ (k - 1) + 1 = k
      BY <1>1
    <3>2. (((blockNo + 1) % MaxRing) - ((k - 1) + 1)) % BufferSize(op, n)
            = (blockNo - (k - 1)) % BufferSize(op, n)
      BY <1>3, <3>1, SlotsTurn
    <3>3. (following - k) % b = (blockNo - (k - 1)) % b
      BY <3>1, <3>2 DEF b
    <3> HIDE DEF following
    <3>4. CASE k = 1
      <4>1. blockNo - (k - 1) = blockNo
        BY <2>4, <3>4
      <4>2. new[k] = block
        BY <1>1, <1>2, <3>4
      <4>3. QED
        BY <2>7, <3>3, <4>1, <4>2
    <3>5. CASE k # 1
      <4>1. k - 1 \in 1..Entries(op, n) - 1 /\ k \in 2..Entries(op, n)
        BY <1>1, <3>5
      <4>2. new[k] = older[k - 1]
        BY <1>2, <4>1
      <4>3. QED
        BY <2>8, <3>3, <4>1, <4>2
    <3>6. QED
      BY <3>4, <3>5
  <2> HIDE DEF following
  <2>10. Holds(n, out, new, following)
    BY <1>3, <2>7, <2>9 DEF Holds, b
  <2>11. QED
    BY <2>5, <2>10 DEF AdvancedBy, out, new, following
<1>4. CASE ~IsLong(op, n)
  <2>1. n # 0 => q = older[1].stream
    BY <1>4 DEF Holds
  <2>2. Advance(n, stream, q).sum = shortAdvance(n, stream, q) /\ out = stream
    BY <1>4 DEF Advance
  <2>3. Advance(n, stream, q).sum = Moved(n, stream, older)
    BY <1>4, <2>1, <2>2, ShortAdvanceMoves
  <2>4. n # 0 => new[1] = block
    BY <1>1, <1>2, EntriesSome
  <2> HIDE DEF out, following
  <2>5. Holds(n, out, new, following)
    BY <1>4, <2>2, <2>4 DEF Holds
  <2>6. QED
    BY <2>3, <2>5 DEF AdvancedBy, out, new, following
<1>5. QED
  BY <1>3, <1>4

\* Before the first block nothing is held.
LEMMA EmptyHolds ==
  ASSUME NEW n, NEW older, Shifting(n), OlderOK(n, older),
         \A k \in 1..Entries(op, n) : older[k].stream = {}
  PROVE  Holds(n, Empty(op, n), older, 0)
<1>1. CASE IsLong(op, n)
  <2> DEFINE q == Empty(op, n)
             b == BufferSize(op, n)
  <2>1. q = [k \in 0..b - 1 |-> {}] /\ b \in Nat \ {0}
    BY <1>1, BufferIs DEF Empty
  <2> HIDE DEF q, b
  <2>2. ASSUME NEW k \in 1..Entries(op, n) PROVE q[(0 - k) % b] = older[k].stream
    <3>1. 0 - k \in Int
      BY EntriesAre
    <3>2. (0 - k) % b \in 0..b - 1
      BY <2>1, <3>1, DivisionIs
    <3>3. QED
      BY <2>1, <3>2
  <2>3. DOMAIN q = 0..b - 1
    BY <2>1
  <2>4. QED
    BY <1>1, <2>2, <2>3 DEF Holds, q, b
<1>2. CASE ~IsLong(op, n)
  BY <1>2, EntriesSome DEF Holds, Empty
<1>3. QED
  BY <1>1, <1>2

-----------------------------------------------------------------------------
(* An Advance, block by block.                                               *)

Advancing == op \in Ops /\ op.name = "Advance"

\* The carry holds the earlier blocks, the one just read included.
CarryIsPast ==
  /\ pc = "read" => Holds(op.n, carry, past, blockNo)
  /\ pc = "next" => Holds(op.n, carry, Pushed(past, input), (blockNo + 1) % MaxRing)

AdvanceInv ==
  Advancing =>
    /\ input \in Inputs
    /\ past \in Seq(Inputs) /\ Len(past) = Entries(op, op.n)
    /\ blockNo \in 0..MaxRing - 1
    /\ pc \in {"read", "next"}
    /\ CarryIsPast
    /\ AdvancesCrossBlocks

IInv == op \in Ops /\ AdvanceInv

LEMMA AdvancingShifts == Advancing => Shifting(op.n)
<1>1. SUFFICES ASSUME Advancing PROVE Shifting(op.n)
  OBVIOUS
<1>2. ~Repeating(op) /\ op.n \in Nat
  BY <1>1, OpsAssumption DEF Advancing, Repeating
<1>3. ShiftsOf(op) = <<op.n>>
  BY <1>2 DEF ShiftsOf
<1>4. 1 \in DOMAIN ShiftsOf(op) /\ ShiftsOf(op)[1] = op.n
  BY <1>3
<1>5. QED
  BY <1>1, <1>2, <1>4 DEF Advancing, Shifting

LEMMA OlderAreBlocks ==
  ASSUME NEW n, Shifting(n), past \in Seq(Inputs), Len(past) = Entries(op, n)
  PROVE  OlderOK(n, past)
<1>1. \A k \in 1..Entries(op, n) : past[k] \in Inputs
  OBVIOUS
<1>2. \A x \in Inputs : x.stream \subseteq 0..W - 1
  BY DEF Inputs
<1>3. QED
  BY <1>1, <1>2 DEF OlderOK

LEMMA InitInv == Init => IInv
<1>1. SUFFICES ASSUME Init, Advancing PROVE AdvanceInv
  BY DEF Init, IInv, AdvanceInv
<1>2. /\ input = NoInput /\ carry = Empty(op, op.n) /\ blockNo = 0 /\ pc = "read"
      /\ past = [k \in 1..Entries(op, op.n) |-> NoInput]
  BY <1>1 DEF Init, Advancing, NoCarry, PastBlocks
<1>3. Shifting(op.n)
  BY <1>1, AdvancingShifts
<1>4. W \in Nat \ {0} /\ Entries(op, op.n) \in Nat /\ MaxRing \in Nat \ {0}
  BY <1>3, SizesAre, EntriesAre, OpsAssumption
<1>5. NoInput \in Inputs /\ NoInput.stream = {}
  <2>1. W \in 0..W
    BY <1>4
  <2>2. QED
    BY <2>1 DEF NoInput, Inputs
<1>6. past \in Seq(Inputs) /\ Len(past) = Entries(op, op.n)
  BY <1>2, <1>4, <1>5
<1>7. \A k \in 1..Entries(op, op.n) : past[k].stream = {}
  BY <1>2, <1>5
<1>8. CarryIsPast
  <2>1. OlderOK(op.n, past)
    BY <1>3, <1>6, OlderAreBlocks
  <2>2. Holds(op.n, Empty(op, op.n), past, 0)
    BY <1>3, <1>7, <2>1, EmptyHolds
  <2>3. QED
    BY <1>2, <2>2 DEF CarryIsPast
<1>9. AdvancesCrossBlocks
  BY <1>2 DEF AdvancesCrossBlocks
<1>10. input \in Inputs /\ blockNo \in 0..MaxRing - 1 /\ pc \in {"read", "next"}
  BY <1>2, <1>4, <1>5
<1>11. QED
  BY <1>6, <1>8, <1>9, <1>10, Zenon DEF AdvanceInv

\* What depends on the operation alone stays.
LEMMA SameOperation ==
  ASSUME op' = op
  PROVE  /\ W' = W /\ Inputs' = Inputs
         /\ \A n, q, older, number : Holds(n, q, older, number)' <=> Holds(n, q, older, number)
<1>1. W' = W
  BY DEF W
<1>2. QED
  BY <1>1 DEF Inputs, Holds, IsLong, BufferSize, Entries

LEMMA ReadBlockInv ==
  ASSUME IInv, ReadBlock
  PROVE  IInv'
<1>1. op' = op /\ op \in Ops /\ blockNo' = blockNo /\ past' = past /\ pc = "read" /\ pc' = "next"
  BY DEF IInv, ReadBlock
<1>2. SUFFICES ASSUME op.name = "Advance" PROVE AdvanceInv'
  BY <1>1 DEF IInv, AdvanceInv, Advancing
<1>3. Advancing /\ Shifting(op.n)
  BY <1>1, <1>2, AdvancingShifts DEF Advancing
<1>4. /\ past \in Seq(Inputs) /\ Len(past) = Entries(op, op.n)
      /\ blockNo \in 0..MaxRing - 1 /\ CarryIsPast
  BY <1>3, Zenon DEF IInv, AdvanceInv
<1>5. PICK m \in Block :
        /\ input' = [stream |-> m, class |-> {}, end |-> W]
        /\ result' = Advance(op.n, m, carry).sum /\ carry' = Advance(op.n, m, carry).out
  <2>1. ~TakesClass /\ op.name # "delete"
    BY <1>2 DEF TakesClass
  <2>2. \A m, cc, end : Compute(m, cc, end) = Advance(op.n, m, carry)
    BY <1>2 DEF Compute
  <2>3. QED
    BY <2>1, <2>2 DEF ReadBlock
<1>6. W \in Nat \ {0} /\ W' = W /\ Inputs' = Inputs
  BY <1>1, <1>3, SizesAre, SameOperation
<1>7. input' \in Inputs /\ input'.stream = m
  <2>1. W \in 0..W
    BY <1>6
  <2>2. QED
    BY <1>5, <2>1 DEF Inputs, Block
<1>8. OlderOK(op.n, past) /\ Holds(op.n, carry, past, blockNo)
  BY <1>1, <1>3, <1>4, OlderAreBlocks DEF CarryIsPast
<1>9. AdvancedBy(op.n, m, carry, past, input')
  BY <1>3, <1>4, <1>7, <1>8, AdvanceIs
<1>10. /\ result' = Moved(op.n, m, past)
       /\ Holds(op.n, carry', Pushed(past, input'), (blockNo + 1) % MaxRing)
  BY <1>5, <1>9 DEF AdvancedBy
<1>11. CarryIsPast'
  <2>1. Holds(op.n, carry, Pushed(past, input), (blockNo + 1) % MaxRing)'
          <=> Holds(op.n, carry', Pushed(past, input'), (blockNo + 1) % MaxRing)
    BY <1>1 DEF Holds, IsLong, BufferSize, Entries, Pushed
  <2>2. QED
    BY <1>1, <1>10, <2>1 DEF CarryIsPast
<1>12. AdvancesCrossBlocks'
  <2>1. \A p : At("stream", p)' <=> Place(W, m, past, p)
    BY <1>1, <1>6, <1>7, Zenon DEF At, Place
  <2>2. result' = {p \in 0..W - 1 : Place(W, m, past, p - op.n)}
    BY <1>10 DEF Moved
  <2>3. ({p \in 0..W - 1 : At("stream", p - op.n)})' = {p \in 0..W - 1 : Place(W, m, past, p - op.n)}
    BY <1>1, <1>6, <2>1, Zenon
  <2>4. QED
    BY <2>2, <2>3, Zenon DEF AdvancesCrossBlocks
<1>13. /\ (input \in Inputs)' /\ (past \in Seq(Inputs))' /\ (Len(past) = Entries(op, op.n))'
       /\ (blockNo \in 0..MaxRing - 1)' /\ (pc \in {"read", "next"})'
  BY <1>1, <1>4, <1>6, <1>7
<1>14. QED
  BY <1>11, <1>12, <1>13, Zenon DEF AdvanceInv

LEMMA NextBlockInv ==
  ASSUME IInv, NextBlock
  PROVE  IInv'
<1>1. op' = op /\ op \in Ops /\ carry' = carry /\ input' = NoInput /\ pc = "next" /\ pc' = "read"
  BY DEF IInv, NextBlock
<1>2. SUFFICES ASSUME op.name = "Advance" PROVE AdvanceInv'
  BY <1>1 DEF IInv, AdvanceInv, Advancing
<1>3. Advancing /\ Shifting(op.n)
  BY <1>1, <1>2, AdvancingShifts DEF Advancing
<1>4. /\ input \in Inputs /\ past \in Seq(Inputs) /\ Len(past) = Entries(op, op.n)
      /\ blockNo \in 0..MaxRing - 1 /\ CarryIsPast
  BY <1>3, Zenon DEF IInv, AdvanceInv
<1>5. past' = Pushed(past, input) /\ blockNo' = (blockNo + 1) % MaxRing
  BY <1>2 DEF NextBlock, Pushed
<1>6. W \in Nat \ {0} /\ W' = W /\ Inputs' = Inputs /\ MaxRing \in Nat \ {0}
  BY <1>1, <1>3, SizesAre, SameOperation, OpsAssumption
<1>7. input' \in Inputs
  <2>1. W \in 0..W
    BY <1>6
  <2>2. NoInput \in Inputs
    BY <2>1 DEF Inputs, NoInput
  <2>3. QED
    BY <1>1, <2>2
<1>8. past' \in Seq(Inputs) /\ Len(past') = Len(past)
  BY <1>4, <1>5, PushedIs
<1>9. blockNo' \in 0..MaxRing - 1
  BY <1>4, <1>5, <1>6
<1>10. CarryIsPast'
  <2>1. Holds(op.n, carry, past, blockNo)'
          <=> Holds(op.n, carry, Pushed(past, input), (blockNo + 1) % MaxRing)
    BY <1>1, <1>5 DEF Holds, IsLong, BufferSize, Entries
  <2>2. QED
    BY <1>1, <1>4, <2>1 DEF CarryIsPast
<1>11. AdvancesCrossBlocks'
  BY <1>1 DEF AdvancesCrossBlocks
<1>12. /\ (input \in Inputs)' /\ (past \in Seq(Inputs))' /\ (Len(past) = Entries(op, op.n))'
       /\ (blockNo \in 0..MaxRing - 1)' /\ (pc \in {"read", "next"})'
  BY <1>1, <1>4, <1>6, <1>7, <1>8, <1>9
<1>13. QED
  BY <1>10, <1>11, <1>12, Zenon DEF AdvanceInv

LEMMA AdvanceSame ==
  ASSUME IInv, UNCHANGED vars
  PROVE  IInv'
<1>1. /\ op' = op /\ input' = input /\ result' = result /\ carry' = carry
      /\ blockNo' = blockNo /\ pc' = pc /\ past' = past
  BY DEF vars
<1>2. W' = W /\ Inputs' = Inputs /\ Entries(op, op.n)' = Entries(op, op.n)
  BY <1>1 DEF W, Inputs, Entries
<1>3. CarryIsPast' <=> CarryIsPast
  BY <1>1 DEF CarryIsPast, Holds, Pushed, IsLong, Entries, BufferSize
<1>4. AdvancesCrossBlocks' <=> AdvancesCrossBlocks
  BY <1>1, <1>2 DEF AdvancesCrossBlocks, At
<1>5. QED
  BY <1>1, <1>2, <1>3, <1>4 DEF IInv, AdvanceInv, Advancing

\* However far, and however the code does it, by bytes, by fields, by parts of two blocks
\* or with a circular buffer of earlier ones: each block of an Advance is the stream
\* moved by n positions.
THEOREM AdvancesMoveTheStream == Spec => []AdvancesCrossBlocks
<1>1. Init => IInv
  BY InitInv
<1>2. IInv /\ [Next]_vars => IInv'
  <2>1. SUFFICES ASSUME IInv, [Next]_vars PROVE IInv'
    OBVIOUS
  <2>2. CASE ReadBlock
    BY <2>1, <2>2, ReadBlockInv
  <2>3. CASE NextBlock
    BY <2>1, <2>3, NextBlockInv
  <2>4. CASE UNCHANGED vars
    BY <2>1, <2>4, AdvanceSame
  <2>5. QED
    BY <2>1, <2>2, <2>3, <2>4 DEF Next
<1>3. IInv => AdvancesCrossBlocks
  <2>1. SUFFICES ASSUME IInv, op.name = "Advance" PROVE AdvancesCrossBlocks
    BY DEF AdvancesCrossBlocks
  <2>2. QED
    BY <2>1, Zenon DEF IInv, AdvanceInv, Advancing
<1>4. QED
  BY <1>1, <1>2, <1>3, PTL DEF Spec

-----------------------------------------------------------------------------
(* The shifts of a repetition.                                               *)

\* After j shifts r[j] positions are joined, and no shift leaves a gap between those and
\* the ones it adds.
Joining(shifts, r, total) ==
  /\ shifts \in Seq(Nat \ {0})
  /\ r \in [0..Len(shifts) -> Nat \ {0}] /\ r[0] = 1 /\ r[Len(shifts)] = total
  /\ \A j \in 1..Len(shifts) :
       r[j] = r[j - 1] + shifts[j] /\ shifts[j] <= r[j - 1] /\ r[j] <= total

\* As long as it stays below the total, i doubles.
LEMMA DoublingTimes ==
  ASSUME NEW n \in Nat \ {0}
  PROVE  \E t \in Nat :
           /\ Min({k \in 0..n : 2^k * 2 >= n}) = t
           /\ 2^t * 2 >= n /\ 2^t <= n
           /\ \A k \in 0..t : 2^k \in Nat \ {0} /\ 2^k <= n
           /\ \A k \in 1..t : 2^k = 2^(k - 1) + 2^(k - 1)
<1> DEFINE T == {k \in 0..n : 2^k * 2 >= n}
<1>1. \A k \in Nat : 2^k \in Nat \ {0} /\ k <= 2^k /\ 2^(k + 1) = 2 * 2^k
  BY PowerIs, PowerDoubles
<1> DEFINE power == [k \in Nat |-> 2^k]
<1>2. \A k \in Nat : power[k] = 2^k
  OBVIOUS
<1>3. \A k \in Nat : power[k] \in Nat \ {0} /\ k <= power[k] /\ power[k + 1] = 2 * power[k]
  <2>1. \A k \in Nat : k + 1 \in Nat
    OBVIOUS
  <2> HIDE DEF power
  <2>2. QED
    BY <1>1, <1>2, <2>1, Zenon
<1>4. T = {k \in 0..n : power[k] * 2 >= n}
  <2>1. \A k \in 0..n : k \in Nat
    OBVIOUS
  <2> HIDE DEF power
  <2>2. QED
    BY <1>2, <2>1
<1>5. power[0] = 1
  BY PowerZero
<1> HIDE DEF power
<1>6. n \in T
  BY <1>3, <1>4
<1>7. T \subseteq Nat
  OBVIOUS
<1>8. PICK t \in T : \A k \in T : t <= k
  <2> HIDE DEF T
  <2>1. QED
    BY <1>6, <1>7, LeastNatural
<1>9. Min(T) = t
  <2>1. Min(T) \in T /\ \A k \in T : Min(T) <= k
    <3> HIDE DEF T
    <3>1. QED
      BY <1>8 DEF Min
  <2> HIDE DEF T
  <2>2. Min(T) \in Nat /\ t \in Nat /\ Min(T) <= t /\ t <= Min(T)
    BY <1>7, <1>8, <2>1
  <2>3. QED
    BY <2>2
<1>10. t \in 0..n /\ t \in Nat /\ power[t] * 2 >= n
  BY <1>4, <1>8
<1>11. ASSUME NEW k \in 0..t PROVE power[k] \in Nat \ {0} /\ power[k] <= n
  <2>1. k \in Nat
    BY <1>10
  <2>2. CASE k = 0
    BY <1>5, <2>2
  <2>3. CASE k # 0
    <3> DEFINE j == k - 1
    <3>1. j \in Nat /\ j + 1 = k /\ j < t /\ j \in 0..n
      BY <1>10, <2>1, <2>3
    <3> HIDE DEF j
    <3>2. j \notin T
      <4> HIDE DEF T
      <4>1. ~(t <= j)
        BY <1>10, <3>1
      <4>2. QED
        BY <1>8, <4>1
    <3>3. ~(power[j] * 2 >= n)
      BY <1>4, <3>1, <3>2
    <3>4. power[j] \in Nat /\ power[k] = 2 * power[j] /\ power[k] \in Nat \ {0}
      BY <1>3, <2>1, <3>1
    <3>5. QED
      BY <3>3, <3>4
  <2>4. QED
    BY <2>2, <2>3
<1>12. ASSUME NEW k \in 1..t PROVE power[k] = power[k - 1] + power[k - 1]
  <2>1. k - 1 \in Nat /\ (k - 1) + 1 = k
    BY <1>10
  <2>2. power[k - 1] \in Nat /\ power[k] = 2 * power[k - 1]
    BY <1>3, <2>1
  <2>3. QED
    BY <2>2
<1>13. power[t] = 2^t /\ \A k \in 0..t : power[k] = 2^k /\ \A i \in 1..t : power[i - 1] = 2^(i - 1) /\ power[i] = 2^i
  <2>1. \A k \in 0..t : k \in Nat
    BY <1>10
  <2>2. \A i \in 1..t : i - 1 \in Nat /\ i \in Nat
    BY <1>10
  <2>3. QED
    BY <1>2, <1>10, <2>1, <2>2
<1>14. power[t] <= n
  BY <1>10, <1>11
<1> HIDE DEF T
<1>15. /\ 2^t * 2 >= n /\ 2^t <= n
       /\ \A k \in 0..t : 2^k \in Nat \ {0} /\ 2^k <= n
       /\ \A k \in 1..t : 2^k = 2^(k - 1) + 2^(k - 1)
  <2>1. \A k \in 1..t : 0 \in 0..t
    BY <1>10
  <2>2. QED
    BY <1>10, <1>11, <1>12, <1>13, <1>14, <2>1
<1>16. QED
  BY <1>9, <1>10, <1>15 DEF T

LEMMA DoublingsJoin ==
  ASSUME NEW n \in Nat \ {0}
  PROVE  \E r : Joining(Doublings(n), r, n)
<1>1. PICK t \in Nat :
        /\ Min({k \in 0..n : 2^k * 2 >= n}) = t
        /\ 2^t * 2 >= n /\ 2^t <= n
        /\ \A k \in 0..t : 2^k \in Nat \ {0} /\ 2^k <= n
        /\ \A k \in 1..t : 2^k = 2^(k - 1) + 2^(k - 1)
  BY DoublingTimes
<1> DEFINE i == 2^t
           powers == [j \in 1..t |-> 2^(j - 1)]
           rest == IF i < n THEN <<n - i>> ELSE << >>
           d == powers \o rest
           power == [k \in 0..t |-> 2^k]
<1>2. Doublings(n) = d
  <2> DEFINE T == {k \in 0..n : 2^k * 2 >= n}
  <2>1. Min(T) = t
    BY <1>1
  <2>2. Doublings(n) = LET times == Min(T) IN
          [j \in 1..times |-> 2^(j - 1)] \o (IF 2^times < n THEN <<n - 2^times>> ELSE << >>)
    BY DEF Doublings
  <2> HIDE DEF T
  <2>3. QED
    BY <2>1, <2>2, Zenon
<1>3. /\ power[0] = 1 /\ power[t] = i /\ \A k \in 0..t : power[k] \in Nat \ {0} /\ power[k] <= n
      /\ \A k \in 1..t : power[k] = power[k - 1] + power[k - 1]
  <2>1. \A k \in 1..t : k - 1 \in 0..t /\ k \in 0..t
    OBVIOUS
  <2>2. 0 \in 0..t /\ t \in 0..t
    OBVIOUS
  <2>3. \A k \in 0..t : power[k] = 2^k
    OBVIOUS
  <2> HIDE DEF power
  <2>4. power[0] = 2^0 /\ power[t] = i
    BY <2>2, <2>3
  <2>5. power[0] = 1
    BY <2>4, PowerZero
  <2>6. \A k \in 0..t : power[k] \in Nat \ {0} /\ power[k] <= n
    BY <1>1, <2>3
  <2>7. \A k \in 1..t : power[k] = power[k - 1] + power[k - 1]
    BY <1>1, <2>1, <2>3, Zenon
  <2>8. QED
    BY <2>4, <2>5, <2>6, <2>7
<1>4. i \in Nat \ {0} /\ i <= n /\ i * 2 >= n
  BY <1>1, <1>3
<1>5. \A j \in 1..t : powers[j] = power[j - 1] /\ powers[j] \in Nat \ {0}
  <2>1. \A j \in 1..t : j - 1 \in 0..t
    OBVIOUS
  <2>2. \A j \in 1..t : powers[j] = power[j - 1]
    BY <2>1
  <2> HIDE DEF power, powers
  <2>3. QED
    BY <1>3, <2>1, <2>2
<1>6. powers \in Seq(Nat \ {0}) /\ Len(powers) = t
  <2>1. powers = [j \in 1..t |-> powers[j]]
    OBVIOUS
  <2> HIDE DEF powers, power
  <2>2. QED
    BY <1>5, <2>1
<1> HIDE DEF i, powers, power
<1>7. CASE i < n
  <2>1. d = powers \o <<n - i>> /\ n - i \in Nat \ {0} /\ n - i <= i
    BY <1>4, <1>7
  <2>2. /\ d \in Seq(Nat \ {0}) /\ Len(d) = t + 1
        /\ \A j \in 1..t : d[j] = powers[j]
        /\ d[t + 1] = n - i
    <3> DEFINE x == n - i
    <3>1. d = powers \o <<x>> /\ x \in Nat \ {0}
      BY <2>1
    <3> HIDE DEF x, d
    <3>2. d \in Seq(Nat \ {0}) /\ Len(d) = t + 1
      BY <1>6, <3>1
    <3>3. d[t + 1] = x
      BY <1>6, <3>1
    <3>4. \A j \in 1..t : d[j] = powers[j]
      BY <1>6, <3>1
    <3>5. QED
      BY <3>2, <3>3, <3>4 DEF x
  <2> HIDE DEF d
  <2> DEFINE r == [j \in 0..t + 1 |-> IF j <= t THEN power[j] ELSE n]
  <2>3. r[t + 1] = n /\ r[0] = 1 /\ \A j \in 0..t : r[j] = power[j]
    BY <1>3
  <2>4. r \in [0..t + 1 -> Nat \ {0}]
    BY <1>3
  <2> HIDE DEF r
  <2>5. ASSUME NEW j \in 1..t + 1
        PROVE  r[j] = r[j - 1] + d[j] /\ d[j] <= r[j - 1] /\ r[j] <= n
    <3>1. CASE j \in 1..t
      <4>1. j \in 0..t /\ j - 1 \in 0..t
        BY <3>1
      <4>2. r[j] = power[j] /\ r[j - 1] = power[j - 1] /\ d[j] = power[j - 1]
        BY <1>5, <2>2, <2>3, <3>1, <4>1
      <4>3. power[j - 1] \in Nat /\ power[j] = power[j - 1] + power[j - 1] /\ power[j] <= n
        BY <1>3, <3>1, <4>1
      <4>4. QED
        BY <4>2, <4>3
    <3>2. CASE j = t + 1
      <4>1. j - 1 = t /\ t \in 0..t
        BY <3>2
      <4>2. r[j] = n /\ r[j - 1] = i /\ d[j] = n - i
        BY <1>3, <2>2, <2>3, <3>2, <4>1
      <4>3. n = i + (n - i) /\ n - i <= i /\ n <= n
        BY <1>4, <2>1
      <4> HIDE DEF r
      <4>4. QED
        BY <4>2, <4>3, Zenon
    <3>3. QED
      BY <3>1, <3>2
  <2>6. Joining(d, r, n)
    BY <2>2, <2>3, <2>4, <2>5 DEF Joining
  <2>7. QED
    BY <1>2, <2>6
<1>8. CASE ~(i < n)
  <2>1. d = powers \o << >> /\ i = n
    BY <1>4, <1>8
  <2>2. d = powers
    BY <1>6, <2>1
  <2> HIDE DEF d
  <2>3. power \in [0..t -> Nat \ {0}]
    BY <1>3 DEF power
  <2>4. ASSUME NEW j \in 1..t
        PROVE  power[j] = power[j - 1] + d[j] /\ d[j] <= power[j - 1] /\ power[j] <= n
    <3>1. j \in 0..t /\ j - 1 \in 0..t
      OBVIOUS
    <3>2. d[j] = power[j - 1]
      BY <1>5, <2>2
    <3>3. power[j - 1] \in Nat /\ power[j] = power[j - 1] + power[j - 1] /\ power[j] <= n
      BY <1>3, <3>1
    <3>4. QED
      BY <3>2, <3>3
  <2>5. Joining(d, power, n)
    BY <1>3, <1>6, <2>1, <2>2, <2>3, <2>4 DEF Joining
  <2>6. QED
    BY <1>2, <2>5
<1>9. QED
  BY <1>7, <1>8

\* A first shift by one gives one position more.
LEMMA OneMoreJoins ==
  ASSUME NEW shifts, NEW r, NEW total \in Nat \ {0}, Joining(shifts, r, total)
  PROVE  \E s : Joining(<<1>> \o shifts, s, total + 1)
<1> DEFINE l == Len(shifts)
           all == <<1>> \o shifts
           s == [j \in 0..l + 1 |-> IF j = 0 THEN 1 ELSE 1 + r[j - 1]]
<1>1. /\ shifts \in Seq(Nat \ {0}) /\ l \in Nat
      /\ r \in [0..l -> Nat \ {0}] /\ r[0] = 1 /\ r[l] = total
      /\ \A j \in 1..l : r[j] = r[j - 1] + shifts[j] /\ shifts[j] <= r[j - 1] /\ r[j] <= total
  BY DEF Joining
<1>2. /\ all \in Seq(Nat \ {0}) /\ Len(all) = l + 1
      /\ all[1] = 1 /\ \A j \in 1..l : all[j + 1] = shifts[j]
  BY <1>1
<1>3. s[0] = 1 /\ \A j \in 1..l + 1 : s[j] = 1 + r[j - 1] /\ j - 1 \in 0..l
  BY <1>1
<1>4. s \in [0..l + 1 -> Nat \ {0}]
  <2>1. \A j \in 0..l + 1 : s[j] \in Nat \ {0}
    <3>1. \A j \in 1..l + 1 : r[j - 1] \in Nat
      BY <1>1, <1>3
    <3> HIDE DEF s
    <3>2. QED
      BY <1>1, <1>3, <3>1
  <2>2. s = [j \in 0..l + 1 |-> s[j]]
    OBVIOUS
  <2> HIDE DEF s
  <2>3. QED
    BY <2>1, <2>2
<1> HIDE DEF s, all, l
<1>5. s[l + 1] = total + 1
  <2> DEFINE j == l + 1
  <2>1. j \in 1..l + 1 /\ j - 1 = l
    BY <1>1
  <2> HIDE DEF j
  <2>2. s[j] = 1 + r[j - 1]
    BY <1>3, <2>1
  <2>3. s[j] = total + 1
    BY <1>1, <2>1, <2>2
  <2>4. QED
    BY <2>3 DEF j
<1>6. ASSUME NEW j \in 1..l + 1
      PROVE  s[j] = s[j - 1] + all[j] /\ all[j] <= s[j - 1] /\ s[j] <= total + 1
  <2>1. CASE j = 1
    <3>1. s[1] = 1 + r[0] /\ s[0] = 1 /\ j - 1 = 0
      BY <1>1, <1>3, <2>1
    <3>2. QED
      BY <1>1, <1>2, <2>1, <3>1
  <2>2. CASE j # 1
    <3> DEFINE i == j - 1
    <3>1. i \in 1..l /\ i + 1 = j /\ i \in 1..l + 1 /\ i - 1 \in 0..l
      BY <1>1, <2>2
    <3>2. s[j] = 1 + r[i] /\ s[i] = 1 + r[i - 1]
      BY <1>3, <3>1
    <3>3. all[j] = shifts[i]
      BY <1>2, <3>1
    <3>4. /\ r[i] = r[i - 1] + shifts[i] /\ shifts[i] <= r[i - 1] /\ r[i] <= total
          /\ r[i - 1] \in Nat /\ shifts[i] \in Nat
      <4>1. r[i] = r[i - 1] + shifts[i] /\ shifts[i] <= r[i - 1] /\ r[i] <= total
        BY <1>1, <3>1
      <4>2. r[i - 1] \in Nat
        BY <1>1, <3>1
      <4>3. shifts[i] \in Nat \ {0}
        BY <1>1, <3>1 DEF l
      <4>4. QED
        BY <4>1, <4>2, <4>3
    <3> HIDE DEF i
    <3>5. s[j] = s[i] + all[j] /\ all[j] <= s[i] /\ s[j] <= total + 1
      BY <3>2, <3>3, <3>4
    <3>6. QED
      BY <3>5 DEF i
  <2>3. QED
    BY <2>1, <2>2
<1>7. Joining(all, s, total + 1)
  BY <1>2, <1>3, <1>4, <1>5, <1>6 DEF Joining
<1>8. QED
  BY <1>7 DEF all

\* The positions that the repetition joins.
Joins(o) == IF o.name = "consecutive" THEN o.n ELSE o.n + 1

LEMMA ShiftsJoin ==
  ASSUME NEW o \in Ops, Repeating(o)
  PROVE  \E r : Joining(ShiftsOf(o), r, Joins(o))
<1>1. o.n \in Nat /\ (o.name = "consecutive" => o.n # 0)
  BY OpsAssumption
<1>2. ShiftsOf(o) = IF o.name = "consecutive" THEN Doublings(o.n)
                    ELSE IF o.n = 0 THEN << >> ELSE <<1>> \o Doublings(o.n)
  BY DEF ShiftsOf, Shifts
<1>3. CASE o.name = "consecutive"
  BY <1>1, <1>2, <1>3, DoublingsJoin DEF Joins
<1>4. CASE o.name # "consecutive" /\ o.n = 0
  <2> DEFINE r == [j \in 0..0 |-> 1]
  <2>1. Joining(<< >>, r, 1)
    BY DEF Joining
  <2> HIDE DEF r
  <2>2. ShiftsOf(o) = << >> /\ Joins(o) = 1
    BY <1>2, <1>4 DEF Joins
  <2>3. QED
    BY <2>1, <2>2
<1>5. CASE o.name # "consecutive" /\ o.n # 0
  <2>1. PICK r : Joining(Doublings(o.n), r, o.n)
    BY <1>1, <1>5, DoublingsJoin
  <2>2. \E s : Joining(<<1>> \o Doublings(o.n), s, o.n + 1)
    BY <1>1, <1>5, <2>1, OneMoreJoins
  <2>3. ShiftsOf(o) = <<1>> \o Doublings(o.n) /\ Joins(o) = o.n + 1
    BY <1>2, <1>5 DEF Joins
  <2>4. QED
    BY <2>2, <2>3
<1>6. QED
  BY <1>3, <1>4, <1>5

-----------------------------------------------------------------------------
(* Positions of a stream that are joined.                                    *)

Both(all, a, b) == IF all THEN a /\ b ELSE a \/ b

\* Whether the stream has all of the r positions up to p, or one of them.
Covers(all, r, stream, older, p) ==
  IF all THEN \A d \in 0..r - 1 : Place(W, stream, older, p - d)
  ELSE \E d \in 0..r - 1 : Place(W, stream, older, p - d)

\* A shift by no more than is joined joins on.
LEMMA CoversMore ==
  ASSUME NEW all \in BOOLEAN, NEW r \in Nat \ {0}, NEW s \in Nat \ {0}, NEW stream, NEW older,
         NEW p \in Int, s <= r
  PROVE  Covers(all, r + s, stream, older, p)
           <=> Both(all, Covers(all, r, stream, older, p), Covers(all, r, stream, older, p - s))
<1> DEFINE P(d) == Place(W, stream, older, p - d)
<1>1. \A d \in 0..r - 1 : d \in 0..r + s - 1 /\ s + d \in 0..r + s - 1
  OBVIOUS
<1>2. \A d \in 0..r + s - 1 : d \in 0..r - 1 \/ (d - s \in 0..r - 1 /\ s + (d - s) = d)
  OBVIOUS
<1>3. \A d \in 0..r - 1 : p - s - d = p - (s + d)
  OBVIOUS
<1>4. \A d \in 0..r - 1 : Place(W, stream, older, p - s - d) <=> P(s + d)
  BY <1>3
<1> HIDE DEF P
<1>5. (\A d \in 0..r + s - 1 : P(d)) <=> (\A d \in 0..r - 1 : P(d)) /\ (\A d \in 0..r - 1 : P(s + d))
  <2>1. ASSUME \A d \in 0..r - 1 : P(d), \A d \in 0..r - 1 : P(s + d), NEW d \in 0..r + s - 1
        PROVE  P(d)
    <3>1. CASE d \in 0..r - 1
      BY <2>1, <3>1
    <3>2. CASE d - s \in 0..r - 1 /\ s + (d - s) = d
      <4>1. P(s + (d - s))
        BY <2>1, <3>2
      <4>2. QED
        BY <3>2, <4>1
    <3>3. QED
      BY <1>2, <3>1, <3>2
  <2>2. QED
    BY <1>1, <2>1
<1>6. (\E d \in 0..r + s - 1 : P(d)) <=> (\E d \in 0..r - 1 : P(d)) \/ (\E d \in 0..r - 1 : P(s + d))
  <2>1. ASSUME NEW d \in 0..r + s - 1, P(d)
        PROVE  (\E i \in 0..r - 1 : P(i)) \/ (\E i \in 0..r - 1 : P(s + i))
    <3>1. CASE d \in 0..r - 1
      BY <2>1, <3>1
    <3>2. CASE d - s \in 0..r - 1 /\ s + (d - s) = d
      <4>1. P(s + (d - s))
        BY <2>1, <3>2
      <4>2. QED
        BY <3>2, <4>1
    <3>3. QED
      BY <1>2, <3>1, <3>2
  <2>2. QED
    BY <1>1, <2>1
<1>7. /\ Covers(all, r + s, stream, older, p)
           <=> IF all THEN \A d \in 0..r + s - 1 : P(d) ELSE \E d \in 0..r + s - 1 : P(d)
      /\ Covers(all, r, stream, older, p)
           <=> IF all THEN \A d \in 0..r - 1 : P(d) ELSE \E d \in 0..r - 1 : P(d)
  BY DEF Covers, P
<1>8. Covers(all, r, stream, older, p - s)
        <=> IF all THEN \A d \in 0..r - 1 : P(s + d) ELSE \E d \in 0..r - 1 : P(s + d)
  BY <1>4 DEF Covers
<1>9. CASE all
  BY <1>5, <1>7, <1>8, <1>9, Zenon DEF Both
<1>10. CASE ~all
  BY <1>6, <1>7, <1>8, <1>10, Zenon DEF Both
<1>11. QED
  BY <1>9, <1>10

\* Before the block, its own positions do not count.
LEMMA PlaceEarlier ==
  ASSUME NEW w, NEW stream, NEW older, NEW p \in Int, p < 0
  PROVE  Place(w, stream, older, p) <=> Place(w, {}, older, p)
<1>1. ~(p >= 0)
  OBVIOUS
<1>2. QED
  BY <1>1, Zenon DEF Place

LEMMA CoversEarlier ==
  ASSUME NEW all \in BOOLEAN, NEW r \in Nat \ {0}, NEW stream, NEW older, NEW p \in Int, p < 0
  PROVE  Covers(all, r, stream, older, p) <=> Covers(all, r, {}, older, p)
<1>1. \A d \in 0..r - 1 : p - d \in Int /\ p - d < 0
  OBVIOUS
<1>2. \A d \in 0..r - 1 : Place(W, stream, older, p - d) <=> Place(W, {}, older, p - d)
  BY <1>1, PlaceEarlier
<1>3. QED
  BY <1>2, Zenon DEF Covers

\* Positions counted from the next block.
LEMMA PushedPlace ==
  ASSUME NEW w \in Nat \ {0}, NEW S, NEW older \in Seq(S), NEW block \in S, NEW p \in Int,
         p < 0, -(w * Len(older)) <= p
  PROVE  Place(w, {}, Pushed(older, block), p) <=> Place(w, block.stream, older, p + w)
<1> DEFINE k == p \div w
           d == -k
           i == p % w
           new == Pushed(older, block)
           l == Len(older)
<1>1. k \in Int /\ i \in 0..w - 1 /\ p = w * k + i
  OBVIOUS
<1> HIDE DEF k, i
<1>2. l \in Nat
  OBVIOUS
<1> HIDE DEF l
<1>3. d \in Int /\ p = i - w * d
  BY <1>1
<1>4. d >= 1
  <2>1. CASE d <= 0
    <3>1. w * d <= 0
      BY <1>3, <2>1
    <3>2. QED
      BY <1>1, <1>3, <3>1
  <2>2. QED
    BY <1>3, <2>1
<1>5. d <= l
  <2>1. CASE d >= l + 1
    <3>1. w * d >= w * (l + 1)
      BY <1>2, <1>3, <2>1
    <3>2. w * (l + 1) = w * l + w
      BY <1>2
    <3>3. p >= -(w * l)
      BY DEF l
    <3>4. w * d \in Int /\ w * l \in Int
      BY <1>2, <1>3
    <3>5. QED
      BY <1>1, <1>3, <3>1, <3>2, <3>3, <3>4
  <2>2. QED
    BY <1>2, <1>3, <2>1
<1> HIDE DEF d
<1>6. d \in Nat \ {0}
  BY <1>3, <1>4
<1>7. /\ Len(new) = l
      /\ l >= 1 => new[1] = block
      /\ \A j \in 2..l : new[j] = older[j - 1]
  BY PushedIs DEF l
<1> HIDE DEF new
<1>8. Place(w, {}, new, p) <=> d <= Len(new) /\ i \in new[d].stream
  BY <1>1, <1>3, <1>6, PlaceBefore
<1>9. CASE d = 1
  <2>1. w * d = w /\ p + w = i /\ i >= 0
    BY <1>1, <1>3, <1>9
  <2>2. Place(w, block.stream, older, p + w) <=> i \in block.stream
    BY <2>1 DEF Place
  <2>3. new[d] = block /\ d <= Len(new)
    BY <1>2, <1>5, <1>7, <1>9
  <2>4. QED
    BY <1>8, <2>2, <2>3 DEF new
<1>10. CASE d # 1
  <2> DEFINE e == d - 1
             x == p + w
  <2>1. e \in Nat \ {0} /\ d \in 2..l /\ e <= l
    BY <1>2, <1>5, <1>6, <1>10
  <2>2. x \in Int /\ x = i - w * e
    <3>1. w * e = w * d - w
      BY <1>6
    <3>2. w * d \in Int /\ w * e \in Int
      BY <1>6, <2>1
    <3>3. QED
      BY <1>1, <1>3, <3>1, <3>2
  <2> HIDE DEF x
  <2>3. new[d] = older[e]
    BY <1>7, <2>1
  <2> HIDE DEF e
  <2>4. Place(w, block.stream, older, x) <=> e <= Len(older) /\ i \in older[e].stream
    BY <1>1, <2>1, <2>2, PlaceBefore
  <2>5. QED
    BY <1>5, <1>7, <1>8, <2>1, <2>3, <2>4 DEF new, x, l
<1>11. QED
  BY <1>9, <1>10

LEMMA PushedCovers ==
  ASSUME NEW all \in BOOLEAN, NEW r \in Nat \ {0}, NEW S, NEW older \in Seq(S), NEW block \in S,
         NEW p \in Int, W \in Nat \ {0}, p < 0, -(W * Len(older)) <= p - (r - 1)
  PROVE  Covers(all, r, {}, Pushed(older, block), p) <=> Covers(all, r, block.stream, older, p + W)
<1> DEFINE w == W
           l == w * Len(older)
<1>1. w \in Nat \ {0} /\ l \in Nat
  OBVIOUS
<1>2. -l <= p - (r - 1)
  OBVIOUS
<1> HIDE DEF w, l
<1>3. \A d \in 0..r - 1 : p - d \in Int /\ p - d < 0 /\ -l <= p - d /\ p - d + w = p + w - d
  BY <1>1, <1>2
<1>4. ASSUME NEW d \in 0..r - 1
      PROVE  Place(w, {}, Pushed(older, block), p - d) <=> Place(w, block.stream, older, p + w - d)
  <2> DEFINE x == p - d
  <2>1. x \in Int /\ x < 0 /\ -(w * Len(older)) <= x /\ x + w = p + w - d
    BY <1>3 DEF l
  <2> HIDE DEF x
  <2>2. Place(w, {}, Pushed(older, block), x) <=> Place(w, block.stream, older, x + w)
    BY <1>1, <2>1, PushedPlace
  <2>3. QED
    BY <2>1, <2>2 DEF x
<1>5. \A d \in 0..r - 1 :
        Place(W, {}, Pushed(older, block), p - d) <=> Place(W, block.stream, older, p + W - d)
  BY <1>4 DEF w
<1> DEFINE P(d) == Place(W, {}, Pushed(older, block), p - d)
           Q(d) == Place(W, block.stream, older, p + W - d)
<1>6. /\ Covers(all, r, {}, Pushed(older, block), p)
           <=> IF all THEN \A d \in 0..r - 1 : P(d) ELSE \E d \in 0..r - 1 : P(d)
      /\ Covers(all, r, block.stream, older, p + W)
           <=> IF all THEN \A d \in 0..r - 1 : Q(d) ELSE \E d \in 0..r - 1 : Q(d)
  BY DEF Covers
<1>7. \A d \in 0..r - 1 : P(d) <=> Q(d)
  BY <1>5
<1> HIDE DEF P, Q
<1>8. QED
  BY <1>6, <1>7

-----------------------------------------------------------------------------
(* One shift of a repetition, and its carry.                                 *)

Streams == [stream : SUBSET (0..W - 1)]

\* As far as the shift reaches back, the older blocks are those of the joined stream.
Covered(all, n, r, older, blocks) ==
  \A p \in Int : -n <= p /\ p < 0 => (Place(W, {}, older, p) <=> Covers(all, r, {}, blocks, p))

\* The carry q of a shift by n keeps the stream of r joined positions.
Keeps(all, n, r, q, blocks, number) ==
  \E older \in Seq(Streams) :
    OlderOK(n, older) /\ Holds(n, q, older, number) /\ Covered(all, n, r, older, blocks)

\* The next of the older blocks is a block of the joined stream.
LEMMA CoveredOn ==
  ASSUME NEW all \in BOOLEAN, NEW n \in Nat \ {0}, NEW r \in Nat \ {0}, NEW older \in Seq(Streams),
         NEW S, NEW blocks \in Seq(S), NEW block \in S, NEW new \in Streams, W \in Nat \ {0},
         Covered(all, n, r, older, blocks),
         n <= W * Len(older), n + (r - 1) <= W * Len(blocks),
         \A p \in 0..W - 1 : p \in new.stream <=> Covers(all, r, block.stream, blocks, p)
  PROVE  Covered(all, n, r, Pushed(older, new), Pushed(blocks, block))
<1> DEFINE w == W
           l == w * Len(older)
           m == w * Len(blocks)
<1>1. w \in Nat \ {0} /\ l \in Int /\ m \in Int /\ n <= l /\ n + (r - 1) <= m
  OBVIOUS
<1> HIDE DEF w, l, m
<1>2. ASSUME NEW p \in Int, -n <= p, p < 0
      PROVE  Place(w, {}, Pushed(older, new), p) <=> Covers(all, r, {}, Pushed(blocks, block), p)
  <2>1. -l <= p /\ -m <= p - (r - 1)
    BY <1>1, <1>2
  <2>2. Place(w, {}, Pushed(older, new), p) <=> Place(w, new.stream, older, p + w)
    BY <1>1, <1>2, <2>1, PushedPlace DEF l
  <2>3. Covers(all, r, {}, Pushed(blocks, block), p) <=> Covers(all, r, block.stream, blocks, p + w)
    BY <1>2, <2>1, PushedCovers DEF m, w
  <2> DEFINE x == p + w
  <2>4. x \in Int /\ (x < 0 => -n <= x) /\ x < w
    BY <1>1, <1>2
  <2> HIDE DEF x
  <2>5. CASE x >= 0
    <3>1. x \in 0..w - 1
      BY <1>1, <2>4, <2>5
    <3>2. Place(w, new.stream, older, x) <=> x \in new.stream
      BY <2>5, Zenon DEF Place
    <3>3. x \in new.stream <=> Covers(all, r, block.stream, blocks, x)
      BY <3>1 DEF w
    <3>4. QED
      BY <2>2, <2>3, <3>2, <3>3 DEF x
  <2>6. CASE x < 0
    <3>1. Place(w, new.stream, older, x) <=> Place(w, {}, older, x)
      BY <2>4, <2>6, PlaceEarlier
    <3>2. Covers(all, r, block.stream, blocks, x) <=> Covers(all, r, {}, blocks, x)
      BY <2>4, <2>6, CoversEarlier
    <3>3. Place(w, {}, older, x) <=> Covers(all, r, {}, blocks, x)
      BY <2>4, <2>6 DEF Covered, w
    <3>4. QED
      BY <2>2, <2>3, <3>1, <3>2, <3>3 DEF x
  <2>7. QED
    BY <2>4, <2>5, <2>6
<1>3. QED
  BY <1>2 DEF Covered, w

\* The block of the joined stream, moved, and its carry.
Staged(all, n, r, x, q, blocks, block) ==
  /\ Advance(n, x, q).sum \subseteq 0..W - 1
  /\ \A p \in 0..W - 1 :
       p \in Advance(n, x, q).sum <=> Covers(all, r, block.stream, blocks, p - n)
  /\ Keeps(all, n, r, Advance(n, x, q).out, Pushed(blocks, block), (blockNo + 1) % MaxRing)

CoveredBlock(all, r, x, blocks, block) ==
  x = {p \in 0..W - 1 : Covers(all, r, block.stream, blocks, p)}

LEMMA StageIs ==
  ASSUME NEW all \in BOOLEAN, NEW n \in Nat \ {0}, NEW r \in Nat \ {0}, NEW x, NEW q,
         NEW S, NEW blocks \in Seq(S), NEW block \in S,
         Shifting(n), blockNo \in 0..MaxRing - 1, n + (r - 1) <= W * Len(blocks),
         Keeps(all, n, r, q, blocks, blockNo), CoveredBlock(all, r, x, blocks, block)
  PROVE  Staged(all, n, r, x, q, blocks, block)
<1>1. PICK older \in Seq(Streams) :
        OlderOK(n, older) /\ Holds(n, q, older, blockNo) /\ Covered(all, n, r, older, blocks)
  BY DEF Keeps
<1> DEFINE new == [stream |-> x]
           number == (blockNo + 1) % MaxRing
<1>2. x \subseteq 0..W - 1 /\ new \in Streams /\ new.stream = x
  BY DEF CoveredBlock, Streams
<1>3. W \in Nat \ {0} /\ Entries(op, n) \in Nat /\ n <= W * Entries(op, n) /\ Len(older) = Entries(op, n)
  BY <1>1, SizesAre, EntriesAre DEF OlderOK
<1> HIDE DEF new
<1>4. AdvancedBy(n, x, q, older, new)
  BY <1>1, <1>2, AdvanceIs
<1>5. /\ Advance(n, x, q).sum = Moved(n, x, older)
      /\ Holds(n, Advance(n, x, q).out, Pushed(older, new), number)
  BY <1>4 DEF AdvancedBy
<1>6. \A p \in 0..W - 1 : p \in x <=> Covers(all, r, block.stream, blocks, p)
  BY DEF CoveredBlock
<1>7. Covered(all, n, r, Pushed(older, new), Pushed(blocks, block))
  <2>1. \A p \in 0..W - 1 : p \in new.stream <=> Covers(all, r, block.stream, blocks, p)
    BY <1>2, <1>6
  <2>2. n <= W * Len(older)
    BY <1>3
  <2>3. QED
    BY <1>1, <1>2, <1>3, <2>1, <2>2, CoveredOn
<1>8. Pushed(older, new) \in Seq(Streams) /\ OlderOK(n, Pushed(older, new))
  <2> DEFINE next == Pushed(older, new)
  <2>1. next \in Seq(Streams) /\ Len(next) = Len(older)
    BY <1>2, PushedIs
  <2> HIDE DEF next
  <2>2. \A k \in 1..Entries(op, n) : next[k] \in Streams
    BY <1>3, <2>1
  <2>3. \A k \in 1..Entries(op, n) : next[k].stream \subseteq 0..W - 1
    BY <2>2 DEF Streams
  <2>4. OlderOK(n, next)
    BY <1>3, <2>1, <2>3 DEF OlderOK
  <2>5. QED
    BY <2>1, <2>4 DEF next
<1> HIDE DEF number
<1>9. Keeps(all, n, r, Advance(n, x, q).out, Pushed(blocks, block), number)
  BY <1>5, <1>7, <1>8 DEF Keeps
<1>10. ASSUME NEW p \in 0..W - 1
       PROVE  Place(W, x, older, p - n) <=> Covers(all, r, block.stream, blocks, p - n)
  <2> DEFINE y == p - n
  <2>1. y \in Int /\ -n <= y /\ y < W
    BY <1>3
  <2> HIDE DEF y
  <2>2. CASE y >= 0
    <3>1. y \in 0..W - 1
      BY <1>3, <2>1, <2>2
    <3>2. Place(W, x, older, y) <=> y \in x
      BY <2>2, Zenon DEF Place
    <3>3. QED
      BY <1>6, <3>1, <3>2 DEF y
  <2>3. CASE y < 0
    <3>1. Place(W, x, older, y) <=> Place(W, {}, older, y)
      BY <2>1, <2>3, PlaceEarlier
    <3>2. Covers(all, r, block.stream, blocks, y) <=> Covers(all, r, {}, blocks, y)
      BY <2>1, <2>3, CoversEarlier
    <3>3. Place(W, {}, older, y) <=> Covers(all, r, {}, blocks, y)
      BY <1>1, <2>1, <2>3 DEF Covered
    <3>4. QED
      BY <3>1, <3>2, <3>3 DEF y
  <2>4. QED
    BY <2>1, <2>2, <2>3
<1>11. Moved(n, x, older) = {p \in 0..W - 1 : Place(W, x, older, p - n)}
  BY DEF Moved
<1>12. /\ Advance(n, x, q).sum \subseteq 0..W - 1
       /\ \A p \in 0..W - 1 :
            p \in Advance(n, x, q).sum <=> Covers(all, r, block.stream, blocks, p - n)
  BY <1>5, <1>10, <1>11
<1>13. QED
  BY <1>9, <1>12 DEF Staged, number

-----------------------------------------------------------------------------
(* All of them in turn.                                                      *)

JoinStep(all, shifts, q, j, before) ==
  [sum |-> IF all THEN before.sum \intersect Advance(shifts[j], before.sum, q[j]).sum
           ELSE before.sum \union Advance(shifts[j], before.sum, q[j]).sum,
   out |-> Append(before.out, Advance(shifts[j], before.sum, q[j]).out)]

\* f[j] is what the first j shifts give.
Stages(all, shifts, stream, q, f) ==
  /\ f[0] = [sum |-> stream, out |-> << >>]
  /\ \A j \in 1..Len(shifts) : f[j] = JoinStep(all, shifts, q, j, f[j - 1])

\* The carries of the shifts keep the streams that each of them moves.
KeptAll(all, shifts, r, q, blocks, number) ==
  \A j \in 1..Len(shifts) : Keeps(all, shifts[j], r[j - 1], q[j], blocks, number)

\* The joined block, and the carries kept for the next one.
JoinedBy(all, shifts, r, total, f, blocks, block) ==
  /\ CoveredBlock(all, total, f[Len(shifts)].sum, blocks, block)
  /\ KeptAll(all, shifts, r, f[Len(shifts)].out, Pushed(blocks, block), (blockNo + 1) % MaxRing)
  /\ f[Len(shifts)].out \in Seq({f[Len(shifts)].out[i] : i \in 1..Len(shifts)})

LEMMA StagesJoin ==
  ASSUME NEW all \in BOOLEAN, NEW shifts, NEW r, NEW total \in Nat \ {0}, NEW q, NEW f,
         NEW S, NEW blocks \in Seq(S), NEW block \in S,
         Joining(shifts, r, total), Stages(all, shifts, block.stream, q, f),
         \A j \in 1..Len(shifts) : Shifting(shifts[j]),
         blockNo \in 0..MaxRing - 1, total - 1 <= W * Len(blocks), W \in Nat \ {0},
         block.stream \subseteq 0..W - 1,
         KeptAll(all, shifts, r, q, blocks, blockNo)
  PROVE  JoinedBy(all, shifts, r, total, f, blocks, block)
<1> DEFINE l == Len(shifts)
           new == Pushed(blocks, block)
           number == (blockNo + 1) % MaxRing
           Good(j) == /\ CoveredBlock(all, r[j], f[j].sum, blocks, block)
                      /\ f[j].out \in Seq({f[j].out[i] : i \in 1..j}) /\ Len(f[j].out) = j
                      /\ \A i \in 1..j : Keeps(all, shifts[i], r[i - 1], f[j].out[i], new, number)
           T == {j \in 0..l : ~Good(j)}
<1>1. /\ l \in Nat /\ r[0] = 1 /\ r[l] = total
      /\ \A j \in 0..l : r[j] \in Nat \ {0}
      /\ \A j \in 1..l : shifts[j] \in Nat \ {0}
      /\ \A j \in 1..l : r[j] = r[j - 1] + shifts[j] /\ shifts[j] <= r[j - 1] /\ r[j] <= total
  <2>1. /\ shifts \in Seq(Nat \ {0}) /\ r \in [0..l -> Nat \ {0}] /\ r[0] = 1 /\ r[l] = total
        /\ \A j \in 1..l : r[j] = r[j - 1] + shifts[j] /\ shifts[j] <= r[j - 1] /\ r[j] <= total
    BY DEF Joining
  <2>2. l \in Nat /\ \A j \in 1..l : shifts[j] \in Nat \ {0}
    BY <2>1
  <2> HIDE DEF l
  <2>3. \A j \in 0..l : r[j] \in Nat \ {0}
    BY <2>1
  <2>4. QED
    BY <2>1, <2>2, <2>3
<1>2. ASSUME T # {} PROVE FALSE
  <2>1. PICK j \in T : \A k \in T : j <= k
    <3>1. T \subseteq Nat
      OBVIOUS
    <3> HIDE DEF T
    <3>2. QED
      BY <1>2, <3>1, LeastNatural
  <2>2. j \in 0..l /\ ~Good(j)
    BY <2>1
  <2>3. CASE j = 0
    <3>1. f[0].sum = block.stream /\ f[0].out = << >>
      BY DEF Stages
    <3>2. ASSUME NEW p \in 0..W - 1
          PROVE  Covers(all, 1, block.stream, blocks, p) <=> p \in block.stream
      <4>1. Place(W, block.stream, blocks, p - 0) <=> p \in block.stream
        BY DEF Place
      <4>2. 0..1 - 1 = {0}
        OBVIOUS
      <4>3. QED
        BY <4>1, <4>2 DEF Covers
    <3>3. CoveredBlock(all, r[0], f[0].sum, blocks, block)
      BY <1>1, <3>1, <3>2 DEF CoveredBlock
    <3>4. f[0].out \in Seq({f[0].out[i] : i \in 1..0}) /\ Len(f[0].out) = 0
      BY <3>1
    <3>5. QED
      BY <2>2, <2>3, <3>3, <3>4
  <2>4. CASE j # 0
    <3> DEFINE k == j - 1
               n == shifts[j]
               adv == Advance(n, f[k].sum, q[j])
    <3>1. k \in 0..l /\ k \in Nat /\ k + 1 = j /\ k < j /\ j \in 1..l /\ j \in Nat
      BY <1>1, <2>2, <2>4
    <3>2. Good(k)
      <4> HIDE DEF Good
      <4>1. k \notin T
        <5> HIDE DEF T, k
        <5>1. ~(j <= k)
          BY <3>1
        <5>2. QED
          BY <2>1, <5>1
      <4>2. QED
        BY <3>1, <4>1
    <3>3. f[j] = JoinStep(all, shifts, q, j, f[k])
      BY <3>1 DEF Stages
    <3>4. /\ n \in Nat \ {0} /\ r[k] \in Nat \ {0} /\ r[j] = r[k] + n /\ n <= r[k] /\ r[j] <= total
          /\ Shifting(n) /\ Keeps(all, n, r[k], q[j], blocks, blockNo)
      BY <1>1, <3>1 DEF KeptAll
    <3>5. n + (r[k] - 1) <= W * Len(blocks)
      <4> DEFINE m == W * Len(blocks)
      <4>1. m \in Int /\ total - 1 <= m
        OBVIOUS
      <4> HIDE DEF m, n, k
      <4>2. QED
        BY <3>4, <4>1 DEF m
    <3>6. CoveredBlock(all, r[k], f[k].sum, blocks, block)
      BY <3>2
    <3> HIDE DEF n, k, new
    <3>7. Staged(all, n, r[k], f[k].sum, q[j], blocks, block)
      BY <3>4, <3>5, <3>6, StageIs
    <3>8. /\ adv.sum \subseteq 0..W - 1
          /\ \A p \in 0..W - 1 : p \in adv.sum <=> Covers(all, r[k], block.stream, blocks, p - n)
          /\ Keeps(all, n, r[k], adv.out, new, number)
      BY <3>7 DEF Staged, new
    <3>9. /\ f[j].sum = IF all THEN f[k].sum \intersect adv.sum ELSE f[k].sum \union adv.sum
          /\ f[j].out = Append(f[k].out, adv.out)
      BY <3>3 DEF JoinStep, n
    <3> HIDE DEF adv, number
    <3>10. CoveredBlock(all, r[j], f[j].sum, blocks, block)
      <4>1. ASSUME NEW p \in 0..W - 1
            PROVE  Covers(all, r[j], block.stream, blocks, p)
                     <=> Both(all, Covers(all, r[k], block.stream, blocks, p),
                              Covers(all, r[k], block.stream, blocks, p - n))
        <5> DEFINE stream == block.stream
                   c == r[k]
        <5>1. p \in Int /\ c \in Nat \ {0} /\ n \in Nat \ {0} /\ n <= c
          BY <3>4
        <5> HIDE DEF c, stream
        <5>2. Covers(all, c + n, stream, blocks, p)
                <=> Both(all, Covers(all, c, stream, blocks, p), Covers(all, c, stream, blocks, p - n))
          BY <5>1, CoversMore
        <5>3. QED
          BY <3>4, <5>2 DEF c, stream
      <4>2. \A p \in 0..W - 1 : p \in f[k].sum <=> Covers(all, r[k], block.stream, blocks, p)
        BY <3>6 DEF CoveredBlock
      <4>3. f[k].sum \subseteq 0..W - 1
        BY <3>6 DEF CoveredBlock
      <4>4. \A p \in 0..W - 1 : p \in f[j].sum <=> Covers(all, r[j], block.stream, blocks, p)
        BY <3>8, <3>9, <4>1, <4>2 DEF Both
      <4>5. f[j].sum \subseteq 0..W - 1
        BY <3>8, <3>9, <4>3
      <4>6. QED
        BY <4>4, <4>5 DEF CoveredBlock
    <3>11. /\ f[j].out \in Seq({f[j].out[i] : i \in 1..j}) /\ Len(f[j].out) = j
           /\ f[j].out[j] = adv.out /\ \A i \in 1..k : f[j].out[i] = f[k].out[i]
      <4> DEFINE a == f[k].out
                 b == f[j].out
                 U == {a[i] : i \in 1..k} \union {adv.out}
      <4>1. a \in Seq(U) /\ Len(a) = k /\ adv.out \in U
        <5>1. a \in Seq({a[i] : i \in 1..k}) /\ Len(a) = k
          BY <3>2
        <5> HIDE DEF a
        <5>2. QED
          BY <5>1
      <4>2. b = Append(a, adv.out)
        BY <3>9
      <4> HIDE DEF a, b, U
      <4>3. b \in Seq(U) /\ Len(b) = j /\ b[j] = adv.out /\ \A i \in 1..k : b[i] = a[i]
        BY <3>1, <4>1, <4>2
      <4>4. b \in Seq({b[i] : i \in 1..j})
        BY <3>1, <4>3
      <4>5. QED
        BY <4>3, <4>4 DEF a, b
    <3>12. ASSUME NEW i \in 1..j PROVE Keeps(all, shifts[i], r[i - 1], f[j].out[i], new, number)
      <4>1. CASE i = j
        BY <3>8, <3>11, <4>1 DEF n, k
      <4>2. CASE i # j
        <5>1. i \in 1..k
          BY <3>1, <4>2
        <5>2. Keeps(all, shifts[i], r[i - 1], f[k].out[i], new, number)
          BY <3>2, <5>1
        <5>3. QED
          BY <3>11, <5>1, <5>2
      <4>3. QED
        BY <4>1, <4>2
    <3>13. QED
      BY <2>2, <3>10, <3>11, <3>12
  <2>5. QED
    BY <2>3, <2>4
<1>3. Good(l)
  <2>1. l \in 0..l
    BY <1>1
  <2> HIDE DEF Good, l
  <2>2. QED
    BY <1>2, <2>1
<1>4. QED
  BY <1>1, <1>3 DEF JoinedBy, KeptAll

-----------------------------------------------------------------------------
(* The repetitions of the code are such stages.                              *)

JoinFunction(all, shifts, stream, q, n, f) ==
  f = [j \in 0..n |-> IF j = 0 THEN [sum |-> stream, out |-> << >>]
                      ELSE JoinStep(all, shifts, q, j, f[j - 1])]

LEMMA JoinExists ==
  ASSUME NEW all, NEW shifts, NEW stream, NEW q
  PROVE  \A n \in Nat : \E f : JoinFunction(all, shifts, stream, q, n, f)
<1> DEFINE T == {n \in Nat : ~\E f : JoinFunction(all, shifts, stream, q, n, f)}
           body(f, j) == IF j = 0 THEN [sum |-> stream, out |-> << >>]
                         ELSE JoinStep(all, shifts, q, j, f[j - 1])
<1>1. SUFFICES ASSUME T # {} PROVE FALSE
  OBVIOUS
<1>2. PICK n \in T : \A k \in T : n <= k
  <2>1. T \subseteq Nat
    OBVIOUS
  <2> HIDE DEF T
  <2>2. QED
    BY <1>1, <2>1, LeastNatural
<1>3. n \in Nat /\ ~\E f : JoinFunction(all, shifts, stream, q, n, f)
  BY <1>2
<1>4. CASE n = 0
  <2> DEFINE f == [j \in 0..0 |-> [sum |-> stream, out |-> << >>]]
  <2>1. JoinFunction(all, shifts, stream, q, 0, f)
    BY DEF JoinFunction
  <2> HIDE DEF f
  <2>2. QED
    BY <1>3, <1>4, <2>1
<1>5. CASE n # 0
  <2>1. n - 1 \in Nat /\ n - 1 < n
    BY <1>3, <1>5
  <2>2. n - 1 \notin T
    <3> HIDE DEF T
    <3>1. ~(n <= n - 1)
      BY <1>3, <2>1
    <3>2. QED
      BY <1>2, <3>1
  <2>3. PICK f : JoinFunction(all, shifts, stream, q, n - 1, f)
    BY <2>1, <2>2
  <2>4. \A j \in 0..n - 1 : f[j] = body(f, j)
    BY <2>3 DEF JoinFunction
  <2> DEFINE g == [j \in 0..n |-> body(f, j)]
  <2>5. \A j \in 0..n : g[j] = body(f, j)
    OBVIOUS
  <2>6. \A j \in 0..n - 1 : j \in 0..n
    BY <2>1
  <2> HIDE DEF g
  <2>7. \A j \in 0..n - 1 : g[j] = f[j]
    <3> HIDE DEF body
    <3>1. QED
      BY <2>4, <2>5, <2>6
  <2>8. \A j \in 0..n : j # 0 => j - 1 \in 0..n - 1
    BY <1>3
  <2>9. \A j \in 0..n : body(f, j) = body(g, j)
    BY <2>7, <2>8
  <2>10. g = [j \in 0..n |-> body(g, j)]
    <3>1. g = [j \in 0..n |-> body(f, j)]
      BY DEF g
    <3> HIDE DEF body
    <3>2. QED
      BY <2>9, <3>1
  <2>11. JoinFunction(all, shifts, stream, q, n, g)
    BY <2>10, Zenon DEF JoinFunction
  <2>12. QED
    BY <1>3, <2>11
<1>6. QED
  BY <1>4, <1>5

LEMMA JoinStages ==
  ASSUME NEW all, NEW shifts, NEW stream, NEW q, NEW f, Len(shifts) \in Nat,
         JoinFunction(all, shifts, stream, q, Len(shifts), f)
  PROVE  Stages(all, shifts, stream, q, f)
<1> DEFINE l == Len(shifts)
<1>1. l \in Nat
  OBVIOUS
<1>2. \A j \in 0..l : f[j] = IF j = 0 THEN [sum |-> stream, out |-> << >>]
                             ELSE JoinStep(all, shifts, q, j, f[j - 1])
  BY DEF JoinFunction
<1> HIDE DEF l
<1>3. f[0] = [sum |-> stream, out |-> << >>]
  BY <1>1, <1>2
<1>4. \A j \in 1..l : j \in 0..l /\ j # 0
  BY <1>1
<1>5. \A j \in 1..l : f[j] = JoinStep(all, shifts, q, j, f[j - 1])
  BY <1>2, <1>4
<1>6. QED
  BY <1>3, <1>5 DEF Stages, l

MatchFunction(shifts, stream, q, f) ==
  f = [j \in 0..Len(shifts) |->
         IF j = 0 THEN [sum |-> stream, out |-> << >>]
         ELSE [sum |-> f[j - 1].sum \intersect Advance(shifts[j], f[j - 1].sum, q[j]).sum,
               out |-> Append(f[j - 1].out, Advance(shifts[j], f[j - 1].sum, q[j]).out)]]

WithinFunction(shifts, stream, q, f) ==
  f = [j \in 0..Len(shifts) |->
         IF j = 0 THEN [sum |-> stream, out |-> << >>]
         ELSE [sum |-> f[j - 1].sum \union Advance(shifts[j], f[j - 1].sum, q[j]).sum,
               out |-> Append(f[j - 1].out, Advance(shifts[j], f[j - 1].sum, q[j]).out)]]

LEMMA MatchesJoin ==
  ASSUME NEW shifts, NEW stream, NEW q, NEW f
  PROVE  MatchFunction(shifts, stream, q, f)
           <=> JoinFunction(TRUE, shifts, stream, q, Len(shifts), f)
BY DEF MatchFunction, JoinFunction, JoinStep

LEMMA WithinJoin ==
  ASSUME NEW shifts, NEW stream, NEW q, NEW f
  PROVE  WithinFunction(shifts, stream, q, f)
           <=> JoinFunction(FALSE, shifts, stream, q, Len(shifts), f)
BY DEF WithinFunction, JoinFunction, JoinStep

LEMMA ConsecutiveIs ==
  ASSUME NEW stream, NEW q, op.name = "consecutive", Len(ShiftsOf(op)) \in Nat
  PROVE  \E f : /\ Stages(TRUE, ShiftsOf(op), stream, q, f)
                /\ consecutive_matches(stream, q) = f[Len(ShiftsOf(op))]
<1> DEFINE shifts == ShiftsOf(op)
           after == CHOOSE f : MatchFunction(shifts, stream, q, f)
<1>1. shifts = Shifts("consecutive", op.n)
  BY DEF ShiftsOf, Repeating
<1>2. consecutive_matches(stream, q) = after[Len(shifts)]
  BY <1>1 DEF consecutive_matches, Joined, MatchFunction
<1>3. \E f : MatchFunction(shifts, stream, q, f)
  BY JoinExists, MatchesJoin
<1> HIDE DEF shifts
<1>4. MatchFunction(shifts, stream, q, after)
  BY <1>3
<1> HIDE DEF after
<1>5. Stages(TRUE, shifts, stream, q, after)
  BY <1>4, MatchesJoin, JoinStages DEF shifts
<1>6. QED
  BY <1>2, <1>5 DEF shifts

LEMMA ReachableIs ==
  ASSUME NEW stream, NEW q, op.name = "reachable" \/ op.name = "bounded", Len(ShiftsOf(op)) \in Nat
  PROVE  \E f : /\ Stages(FALSE, ShiftsOf(op), stream, q, f)
                /\ reachable(stream, q) = f[Len(ShiftsOf(op))]
<1> DEFINE shifts == ShiftsOf(op)
           after == CHOOSE f : WithinFunction(shifts, stream, q, f)
<1>1. shifts = Shifts("reachable", op.n)
  BY DEF ShiftsOf, Repeating, Shifts
<1>2. reachable(stream, q) = after[Len(shifts)]
  BY <1>1 DEF reachable, Joined, WithinFunction
<1>3. \E f : WithinFunction(shifts, stream, q, f)
  BY JoinExists, WithinJoin
<1> HIDE DEF shifts
<1>4. WithinFunction(shifts, stream, q, after)
  BY <1>3
<1> HIDE DEF after
<1>5. Stages(FALSE, shifts, stream, q, after)
  BY <1>4, WithinJoin, JoinStages DEF shifts
<1>6. QED
  BY <1>2, <1>5 DEF shifts

-----------------------------------------------------------------------------
(* The MatchStar of a bounded repetition, which may have begun in blocks     *)
(* that are forgotten.                                                       *)

Classes(blocks) == [k \in 1..Len(blocks) |-> [stream |-> blocks[k].class]]

\* No more than n positions before p a mark leads to p along the class.
Led(n, stream, class, blocks, p) ==
  \E d \in 1..n : /\ Place(W, stream, blocks, p - d)
                  /\ \A e \in 1..d : Place(W, class, Classes(blocks), p - e)

\* The class holds at the n positions before p.
Ran(n, class, blocks, p) == \A e \in 1..n : Place(W, class, Classes(blocks), p - e)

\* A scan comes to p if one is led there, and may come from further only along the class.
Comes(n, on, stream, class, blocks, p) ==
  /\ Led(n, stream, class, blocks, p) => on
  /\ on => Led(n, stream, class, blocks, p) \/ Ran(n, class, blocks, p)

\* One position further.
LEMMA ComesOn ==
  ASSUME NEW n \in Nat, NEW on \in BOOLEAN, NEW next \in BOOLEAN, NEW m, NEW cc, NEW blocks, NEW p \in Nat,
         Comes(n, on, m, cc, blocks, p), next <=> p \in cc /\ (p \in m \/ on)
  PROVE  Comes(n, next, m, cc, blocks, p + 1)
<1> DEFINE S(x) == Place(W, m, blocks, x)
           C(x) == Place(W, cc, Classes(blocks), x)
           L(x) == \E d \in 1..n : S(x - d) /\ \A e \in 1..d : C(x - e)
<1>1. (S(p) <=> p \in m) /\ (C(p) <=> p \in cc)
  BY DEF Place
<1>2. L(p) => on
  BY DEF Comes, Led
<1>3. on => L(p) \/ \A e \in 1..n : C(p - e)
  BY DEF Comes, Led, Ran
<1> HIDE DEF S, C
<1>4. \A d \in 1..n : p + 1 - d = p - (d - 1) /\ (d = 1 => p + 1 - d = p) /\ (d # 1 => d - 1 \in 1..n)
  OBVIOUS
<1>5. ASSUME L(p + 1) PROVE next
  <2>1. PICK d \in 1..n : S(p + 1 - d) /\ \A e \in 1..d : C(p + 1 - e)
    BY <1>5
  <2>2. 1 \in 1..d /\ p + 1 - 1 = p
    OBVIOUS
  <2>3. C(p)
    BY <2>1, <2>2
  <2>4. CASE d = 1
    BY <1>1, <1>4, <2>1, <2>3, <2>4
  <2>5. CASE d # 1
    <3> DEFINE c == d - 1
    <3>1. c \in 1..n /\ p + 1 - d = p - c
      BY <2>5
    <3>2. \A e \in 1..c : e + 1 \in 1..d /\ p + 1 - (e + 1) = p - e
      OBVIOUS
    <3>3. \A e \in 1..c : C(p - e)
      BY <2>1, <3>2
    <3>4. S(p - c)
      BY <2>1, <3>1
    <3> HIDE DEF c
    <3>5. L(p)
      BY <3>1, <3>3, <3>4
    <3>6. QED
      BY <1>1, <1>2, <2>3, <3>5
  <2>6. QED
    BY <2>4, <2>5
<1>6. ASSUME next PROVE L(p + 1) \/ \A e \in 1..n : C(p + 1 - e)
  <2>1. C(p) /\ (S(p) \/ on)
    BY <1>1, <1>6
  <2>2. CASE n = 0
    BY <2>2
  <2>3. CASE n # 0 /\ S(p)
    <3>1. 1 \in 1..n /\ p + 1 - 1 = p /\ \A e \in 1..1 : p + 1 - e = p
      BY <2>3
    <3>2. S(p + 1 - 1) /\ \A e \in 1..1 : C(p + 1 - e)
      BY <2>1, <2>3, <3>1
    <3>3. QED
      BY <3>1, <3>2
  <2>4. CASE on /\ L(p)
    <3>1. PICK d \in 1..n : S(p - d) /\ \A e \in 1..d : C(p - e)
      BY <2>4
    <3>2. ASSUME NEW e \in 1..d + 1 PROVE C(p + 1 - e)
      <4>1. CASE e = 1
        <5>1. p + 1 - e = p
          BY <4>1
        <5>2. QED
          BY <2>1, <5>1
      <4>2. CASE e # 1
        <5>1. e - 1 \in 1..d /\ p + 1 - e = p - (e - 1)
          BY <4>2
        <5>2. QED
          BY <3>1, <5>1
      <4>3. QED
        BY <4>1, <4>2
    <3>3. CASE d + 1 \in 1..n
      <4>1. p + 1 - (d + 1) = p - d
        OBVIOUS
      <4>2. S(p + 1 - (d + 1))
        BY <3>1, <4>1
      <4>3. QED
        BY <3>2, <3>3, <4>2
    <3>4. CASE d + 1 \notin 1..n
      <4>1. \A e \in 1..n : e \in 1..d + 1
        BY <3>4
      <4>2. QED
        BY <3>2, <4>1
    <3>5. QED
      BY <3>3, <3>4
  <2>5. CASE on /\ \A e \in 1..n : C(p - e)
    <3>1. ASSUME NEW e \in 1..n PROVE C(p + 1 - e)
      <4>1. CASE e = 1
        <5>1. p + 1 - e = p
          BY <4>1
        <5>2. QED
          BY <2>1, <5>1
      <4>2. CASE e # 1
        <5>1. e - 1 \in 1..n /\ p + 1 - e = p - (e - 1)
          BY <4>2
        <5>2. QED
          BY <2>5, <5>1
      <4>3. QED
        BY <4>1, <4>2
    <3>2. QED
      BY <3>1
  <2>6. QED
    BY <1>3, <2>1, <2>2, <2>3, <2>4, <2>5
<1>7. Led(n, m, cc, blocks, p + 1) <=> L(p + 1)
  BY DEF Led, S, C
<1>8. Ran(n, cc, blocks, p + 1) <=> \A e \in 1..n : C(p + 1 - e)
  BY DEF Ran, C
<1> HIDE DEF L
<1>9. QED
  BY <1>5, <1>6, <1>7, <1>8 DEF Comes

\* At every position of a block, from what the carry says at its start.
ComesAlong(n, c, m, cc, blocks) == \A p \in 0..W : Comes(n, p \in c, m, cc, blocks, p)

LEMMA ScanComes ==
  ASSUME NEW n \in Nat, NEW m, NEW cc, NEW blocks, NEW start \in BOOLEAN, NEW c, W \in Nat,
         ScanCarries(W, m, cc, start, c), Comes(n, start, {}, {}, blocks, 0)
  PROVE  ComesAlong(n, c, m, cc, blocks)
<1> DEFINE T == {p \in 0..W : ~Comes(n, p \in c, m, cc, blocks, p)}
           w == W
<1>1. SUFFICES ASSUME T # {} PROVE FALSE
  BY DEF ComesAlong
<1>2. PICK p \in T : \A k \in T : p <= k
  <2>1. T \subseteq Nat
    OBVIOUS
  <2> HIDE DEF T
  <2>2. QED
    BY <1>1, <2>1, LeastNatural
<1>3. p \in 0..w /\ ~Comes(n, p \in c, m, cc, blocks, p) /\ w \in Nat
  BY <1>2
<1>4. CASE p = 0
  <2>1. 0 \in c <=> start
    BY DEF ScanCarries
  <2>2. \A d \in 1..n : /\ Place(W, m, blocks, 0 - d) <=> Place(W, {}, blocks, 0 - d)
                        /\ Place(W, cc, Classes(blocks), 0 - d) <=> Place(W, {}, Classes(blocks), 0 - d)
    <3>1. \A d \in 1..n : 0 - d \in Int /\ 0 - d < 0
      OBVIOUS
    <3>2. QED
      BY <3>1, PlaceEarlier
  <2>3. \A d \in 1..n : \A e \in 1..d : e \in 1..n
    OBVIOUS
  <2>4. Led(n, m, cc, blocks, 0) <=> Led(n, {}, {}, blocks, 0)
    BY <2>2, <2>3, Zenon DEF Led
  <2>5. Ran(n, cc, blocks, 0) <=> Ran(n, {}, blocks, 0)
    BY <2>2, Zenon DEF Ran
  <2>6. Comes(n, 0 \in c, m, cc, blocks, 0)
    BY <2>1, <2>4, <2>5 DEF Comes
  <2>7. QED
    BY <1>3, <1>4, <2>6
<1>5. CASE p # 0
  <2> DEFINE k == p - 1
  <2>1. k \in 0..w - 1 /\ k \in 0..w /\ k \in Nat /\ k + 1 = p /\ k < p
    BY <1>3, <1>5
  <2> HIDE DEF k
  <2>2. k \notin T
    <3> HIDE DEF T
    <3>1. ~(p <= k)
      BY <1>3, <2>1
    <3>2. QED
      BY <1>2, <3>1
  <2>3. Comes(n, k \in c, m, cc, blocks, k)
    BY <2>1, <2>2
  <2>4. p \in c <=> k \in cc /\ (k \in m \/ k \in c)
    BY <1>3, <2>1, ScanCarriesHave
  <2> DEFINE on == k \in c
             next == p \in c
  <2>5. on \in BOOLEAN /\ next \in BOOLEAN /\ Comes(n, on, m, cc, blocks, k)
        /\ (next <=> k \in cc /\ (k \in m \/ on))
    BY <2>3, <2>4
  <2> HIDE DEF on, next
  <2>6. Comes(n, next, m, cc, blocks, k + 1)
    BY <2>1, <2>5, ComesOn
  <2>7. QED
    BY <1>3, <2>1, <2>6 DEF next
<1>6. QED
  BY <1>4, <1>5

LEMMA ClassesPushed ==
  ASSUME NEW S, NEW blocks \in Seq(S), NEW block \in S
  PROVE  /\ Classes(blocks) \in Seq({[stream |-> x.class] : x \in S}) /\ Len(Classes(blocks)) = Len(blocks)
         /\ Classes(Pushed(blocks, block)) = Pushed(Classes(blocks), [stream |-> block.class])
<1> DEFINE Of(x) == [stream |-> x.class]
           U == {Of(x) : x \in S}
           l == Len(blocks)
           new == Pushed(blocks, block)
           old == Classes(blocks)
           next == Pushed(old, Of(block))
<1>1. l \in Nat /\ \A k \in 1..l : blocks[k] \in S
  OBVIOUS
<1>2. old \in Seq(U) /\ Len(old) = l /\ \A k \in 1..l : old[k] = Of(blocks[k])
  <2>1. old = [k \in 1..l |-> Of(blocks[k])]
    BY DEF Classes
  <2>2. \A k \in 1..l : Of(blocks[k]) \in U
    BY <1>1
  <2> HIDE DEF U, l, old, Of
  <2>3. QED
    BY <1>1, <2>1, <2>2
<1>3. Of(block) \in U
  OBVIOUS
<1>4. /\ new \in Seq(S) /\ Len(new) = l
      /\ l >= 1 => new[1] = block
      /\ \A k \in 2..l : new[k] = blocks[k - 1]
  BY PushedIs
<1> HIDE DEF U, old, Of, new, l
<1>5. /\ next \in Seq(U) /\ Len(next) = l
      /\ l >= 1 => next[1] = Of(block)
      /\ \A k \in 2..l : next[k] = old[k - 1]
  BY <1>2, <1>3, PushedIs
<1> HIDE DEF next
<1>6. \A k \in 1..l : next[k] = Of(new[k])
  <2>1. ASSUME NEW k \in 1..l, k # 1 PROVE next[k] = Of(new[k])
    <3>1. k \in 2..l /\ k - 1 \in 1..l
      BY <1>1, <2>1
    <3>2. QED
      BY <1>2, <1>4, <1>5, <3>1
  <2>2. ASSUME NEW k \in 1..l, k = 1 PROVE next[k] = Of(new[k])
    BY <1>1, <1>4, <1>5, <2>2
  <2>3. QED
    BY <2>1, <2>2
<1>7. Classes(new) = [k \in 1..l |-> Of(new[k])]
  BY <1>4 DEF Classes, Of
<1>8. next = [k \in 1..l |-> next[k]]
  BY <1>1, <1>5
<1>9. Classes(new) = next
  BY <1>6, <1>7, <1>8
<1>10. old \in Seq(U) /\ Len(old) = l
  BY <1>2
<1>11. QED
  BY <1>9, <1>10 DEF new, next, old, l, Of, U

\* What comes to the end of a block comes to the start of the next.
LEMMA ComesPushed ==
  ASSUME NEW n \in Nat, NEW on \in BOOLEAN, NEW S, NEW blocks \in Seq(S), NEW block \in S,
         W \in Nat \ {0}, n <= W * Len(blocks),
         Comes(n, on, block.stream, block.class, blocks, W)
  PROVE  Comes(n, on, {}, {}, Pushed(blocks, block), 0)
<1> DEFINE w == W
           old == Classes(blocks)
           new == Pushed(blocks, block)
           U == {[stream |-> x.class] : x \in S}
           b == [stream |-> block.class]
           l == w * Len(blocks)
<1>1. /\ old \in Seq(U) /\ Len(old) = Len(blocks) /\ b \in U /\ b.stream = block.class
      /\ Classes(new) = Pushed(old, b)
  BY ClassesPushed
<1>2. w \in Nat \ {0} /\ l \in Nat /\ n <= l
  OBVIOUS
<1> HIDE DEF w, old, U, b
<1>3. l = w * Len(old)
  BY <1>1
<1> HIDE DEF l
<1>4. ASSUME NEW d \in 1..n
      PROVE  /\ Place(w, {}, new, 0 - d) <=> Place(w, block.stream, blocks, w - d)
             /\ Place(w, {}, Classes(new), 0 - d) <=> Place(w, block.class, old, w - d)
  <2> DEFINE x == 0 - d
  <2>1. x \in Int /\ x < 0 /\ x + w = w - d /\ -l <= x
    BY <1>2
  <2> HIDE DEF x
  <2>2. Place(w, {}, Pushed(blocks, block), x) <=> Place(w, block.stream, blocks, x + w)
    BY <1>2, <2>1, PushedPlace DEF l
  <2>3. Place(w, {}, Pushed(old, b), x) <=> Place(w, b.stream, old, x + w)
    BY <1>1, <1>2, <1>3, <2>1, PushedPlace
  <2>4. QED
    BY <1>1, <2>1, <2>2, <2>3 DEF x
<1>5. \A d \in 1..n : \A e \in 1..d : e \in 1..n
  OBVIOUS
<1> HIDE DEF new
<1>6. Led(n, {}, {}, new, 0) <=> Led(n, block.stream, block.class, blocks, W)
  BY <1>4, <1>5, Zenon DEF Led, w, old
<1>7. Ran(n, {}, new, 0) <=> Ran(n, block.class, blocks, W)
  BY <1>4, Zenon DEF Ran, w, old
<1>8. Comes(n, on, {}, {}, new, 0)
  BY <1>6, <1>7 DEF Comes
<1>9. QED
  BY <1>8 DEF new

-----------------------------------------------------------------------------
(* A bounded repetition, block by block.                                     *)

\* The carries of the shifts of the repetition: those of a bounded one follow that of its MatchStar.
ShiftCarry(c) == IF op.name = "bounded" THEN Tail(c) ELSE c

\* What the carries say of the blocks before.
CarriesKept(r, c, blocks, number) ==
  /\ KeptAll(op.name = "consecutive", ShiftsOf(op), r, ShiftCarry(c), blocks, number)
  /\ op.name = "bounded" => c[1] \in {{}, {0}} /\ Comes(op.n, 0 \in c[1], {}, {}, blocks, 0)

CarriesFit(c, blocks, number) ==
  \E r : Joining(ShiftsOf(op), r, Joins(op)) /\ CarriesKept(r, c, blocks, number)

\* RepetitionsCountRight, of a block of the result.
Counted(m, cc, blocks, sum) ==
  /\ op.name = "consecutive" =>
       sum = {p \in 0..W - 1 : \A d \in 0..op.n - 1 : Place(W, m, blocks, p - d)}
  /\ op.name = "reachable" =>
       sum = {p \in 0..W - 1 : \E d \in 0..op.n : Place(W, m, blocks, p - d)}
  /\ op.name = "bounded" =>
       sum = {p \in 0..W - 1 : \E d \in 0..op.n :
                Place(W, m, blocks, p - d) /\ \A e \in 1..d : Place(W, cc, Classes(blocks), p - e)}

CountedOn(computed, block) ==
  /\ Counted(block.stream, block.class, past, computed.sum)
  /\ CarriesFit(computed.out, Pushed(past, block), (blockNo + 1) % MaxRing)

\* A repetition in progress.
Repeats(block) ==
  /\ op \in Ops /\ Repeating(op) /\ block \in Inputs
  /\ past \in Seq(Inputs) /\ Len(past) = Entries(op, op.n) /\ blockNo \in 0..MaxRing - 1

LEMMA RepeatSizes ==
  ASSUME op \in Ops, Repeating(op)
  PROVE  /\ op.width \in Nat \ {0} /\ op.fields \in Nat \ {0} /\ op.n \in Nat /\ W \in Nat \ {0}
         /\ MaxRing \in Nat \ {0} /\ op.name \in {"consecutive", "reachable", "bounded"}
         /\ op.name = "bounded" => op.fields < MaskBits
         /\ Joins(op) \in Nat \ {0} /\ Joins(op) - 1 <= op.n
         /\ Entries(op, op.n) \in Nat /\ op.n <= W * Entries(op, op.n)
<1>1. /\ op.width \in Nat \ {0} /\ op.fields \in Nat \ {0} /\ op.n \in Nat /\ MaxRing \in Nat \ {0}
      /\ op.name = "bounded" => op.fields < MaskBits
      /\ op.name = "consecutive" => op.n # 0
  BY OpsAssumption
<1>2. W \in Nat \ {0}
  BY <1>1 DEF W
<1>3. Entries(op, op.n) \in Nat /\ op.n <= W * Entries(op, op.n)
  BY <1>1, EntriesCover
<1>4. Joins(op) \in Nat \ {0} /\ Joins(op) - 1 <= op.n
  BY <1>1 DEF Joins
<1>5. QED
  BY <1>1, <1>2, <1>3, <1>4 DEF Repeating

LEMMA RepeatShifts ==
  ASSUME op \in Ops, Repeating(op), NEW r, Joining(ShiftsOf(op), r, Joins(op))
  PROVE  /\ ShiftsOf(op) \in Seq(Nat \ {0}) /\ Len(ShiftsOf(op)) \in Nat
         /\ \A j \in 1..Len(ShiftsOf(op)) : /\ ShiftsOf(op)[j] \in Nat \ {0} /\ r[j - 1] \in Nat \ {0}
                                            /\ Shifting(ShiftsOf(op)[j])
<1> DEFINE shifts == ShiftsOf(op)
           l == Len(shifts)
<1>1. shifts \in Seq(Nat \ {0}) /\ r \in [0..l -> Nat \ {0}]
  BY DEF Joining
<1>2. l \in Nat /\ DOMAIN shifts = 1..l /\ \A j \in 1..l : shifts[j] \in Nat \ {0}
  <2> HIDE DEF shifts
  <2>1. QED
    BY <1>1
<1>3. ASSUME NEW j \in 1..l PROVE Shifting(shifts[j])
  <2>1. j \in DOMAIN shifts /\ shifts[j] \in Nat
    BY <1>2
  <2>2. QED
    BY <2>1 DEF Shifting
<1>4. \A j \in 1..l : r[j - 1] \in Nat \ {0}
  <2> HIDE DEF l
  <2>1. \A j \in 1..l : j - 1 \in 0..l
    BY <1>2
  <2>2. QED
    BY <1>1, <2>1
<1>5. QED
  BY <1>1, <1>2, <1>3, <1>4

\* The shifts of the repetition, one block on.
LEMMA ShiftsGoOn ==
  ASSUME NEW block, NEW all \in BOOLEAN, NEW r, NEW q, NEW f, Repeats(block),
         Joining(ShiftsOf(op), r, Joins(op)), Stages(all, ShiftsOf(op), block.stream, q, f),
         KeptAll(all, ShiftsOf(op), r, q, past, blockNo)
  PROVE  JoinedBy(all, ShiftsOf(op), r, Joins(op), f, past, block)
<1> DEFINE total == Joins(op)
           shifts == ShiftsOf(op)
           n == op.n
           w == W
           e == w * Len(past)
<1>1. /\ op \in Ops /\ Repeating(op) /\ block \in Inputs /\ past \in Seq(Inputs)
      /\ Len(past) = Entries(op, op.n) /\ blockNo \in 0..MaxRing - 1
  BY DEF Repeats
<1>2. /\ total \in Nat \ {0} /\ total - 1 <= n /\ n \in Nat /\ w \in Nat \ {0} /\ e \in Nat /\ n <= e
  BY <1>1, RepeatSizes
<1>3. \A j \in 1..Len(shifts) : Shifting(shifts[j])
  BY <1>1, RepeatShifts
<1>4. block.stream \subseteq 0..w - 1
  BY <1>1 DEF Inputs
<1> HIDE DEF total, n, e
<1>5. total - 1 <= e
  BY <1>2
<1>6. QED
  BY <1>1, <1>2, <1>3, <1>4, <1>5, StagesJoin DEF total, e

LEMMA ConsecutiveCounts ==
  ASSUME NEW block, NEW q, Repeats(block), op.name = "consecutive", CarriesFit(q, past, blockNo)
  PROVE  CountedOn(consecutive_matches(block.stream, q), block)
<1> DEFINE l == Len(ShiftsOf(op))
           number == (blockNo + 1) % MaxRing
           new == Pushed(past, block)
<1>1. PICK r : Joining(ShiftsOf(op), r, Joins(op)) /\ CarriesKept(r, q, past, blockNo)
  BY DEF CarriesFit
<1>2. KeptAll(TRUE, ShiftsOf(op), r, q, past, blockNo)
  BY <1>1 DEF CarriesKept, ShiftCarry
<1>3. l \in Nat
  BY <1>1, RepeatShifts DEF Repeats
<1>4. PICK f : /\ Stages(TRUE, ShiftsOf(op), block.stream, q, f)
               /\ consecutive_matches(block.stream, q) = f[l]
  BY <1>3, ConsecutiveIs
<1>5. JoinedBy(TRUE, ShiftsOf(op), r, Joins(op), f, past, block)
  BY <1>1, <1>2, <1>4, ShiftsGoOn
<1>6. /\ CoveredBlock(TRUE, Joins(op), f[l].sum, past, block)
      /\ KeptAll(TRUE, ShiftsOf(op), r, f[l].out, new, number)
  BY <1>5 DEF JoinedBy
<1>7. Counted(block.stream, block.class, past, f[l].sum)
  BY <1>6 DEF CoveredBlock, Covers, Counted, Joins
<1> HIDE DEF l, new, number
<1>8. CarriesKept(r, f[l].out, new, number)
  BY <1>6 DEF CarriesKept, ShiftCarry
<1>9. CarriesFit(f[l].out, new, number)
  BY <1>1, <1>8 DEF CarriesFit
<1>10. QED
  BY <1>4, <1>7, <1>9 DEF CountedOn, new, number

LEMMA ReachableCounts ==
  ASSUME NEW block, NEW q, Repeats(block), op.name = "reachable", CarriesFit(q, past, blockNo)
  PROVE  CountedOn(reachable(block.stream, q), block)
<1> DEFINE l == Len(ShiftsOf(op))
           number == (blockNo + 1) % MaxRing
           new == Pushed(past, block)
<1>1. PICK r : Joining(ShiftsOf(op), r, Joins(op)) /\ CarriesKept(r, q, past, blockNo)
  BY DEF CarriesFit
<1>2. KeptAll(FALSE, ShiftsOf(op), r, q, past, blockNo)
  BY <1>1 DEF CarriesKept, ShiftCarry
<1>3. l \in Nat /\ op.n \in Nat
  BY <1>1, RepeatShifts, RepeatSizes DEF Repeats
<1>4. PICK f : /\ Stages(FALSE, ShiftsOf(op), block.stream, q, f)
               /\ reachable(block.stream, q) = f[l]
  <2>1. (op.name = "reachable" \/ op.name = "bounded") /\ Len(ShiftsOf(op)) \in Nat
    BY <1>3
  <2>2. QED
    BY <2>1, ReachableIs, Zenon
<1>5. JoinedBy(FALSE, ShiftsOf(op), r, Joins(op), f, past, block)
  BY <1>1, <1>2, <1>4, ShiftsGoOn
<1>6. /\ CoveredBlock(FALSE, Joins(op), f[l].sum, past, block)
      /\ KeptAll(FALSE, ShiftsOf(op), r, f[l].out, new, number)
  BY <1>5 DEF JoinedBy
<1>7. Counted(block.stream, block.class, past, f[l].sum)
  <2>1. Joins(op) - 1 = op.n
    BY <1>3 DEF Joins
  <2>2. f[l].sum = {p \in 0..W - 1 : \E d \in 0..op.n : Place(W, block.stream, past, p - d)}
    BY <1>6, <2>1, Zenon DEF CoveredBlock, Covers
  <2>3. QED
    BY <2>2, Zenon DEF Counted
<1> HIDE DEF l, new, number
<1>8. CarriesKept(r, f[l].out, new, number)
  BY <1>6 DEF CarriesKept, ShiftCarry
<1>9. CarriesFit(f[l].out, new, number)
  BY <1>1, <1>8 DEF CarriesFit
<1>10. QED
  BY <1>4, <1>7, <1>9 DEF CountedOn, new, number

LEMMA FirstAndRest ==
  ASSUME NEW U, NEW s \in Seq(U), NEW x
  PROVE  (<<x>> \o s)[1] = x /\ Tail(<<x>> \o s) = s
<1> DEFINE V == U \union {x}
           t == <<x>> \o s
<1>1. <<x>> \in Seq(V) /\ s \in Seq(V) /\ Len(<<x>>) = 1 /\ Len(s) \in Nat
  OBVIOUS
<1>2. t \in Seq(V) /\ Len(t) = Len(s) + 1 /\ t[1] = x /\ \A k \in 1..Len(s) : t[k + 1] = s[k]
  BY <1>1
<1> HIDE DEF t
<1> DEFINE u == Tail(t)
<1>3. t # << >> /\ u \in Seq(V) /\ Len(u) = Len(s) /\ \A k \in 1..Len(s) : u[k] = t[k + 1]
  BY <1>1, <1>2
<1> HIDE DEF u
<1>4. s = u
  <2>1. s = [k \in 1..Len(s) |-> s[k]] /\ u = [k \in 1..Len(s) |-> u[k]]
    BY <1>1, <1>3
  <2>2. QED
    BY <1>2, <1>3, <2>1
<1>5. QED
  BY <1>2, <1>4 DEF t, u

Near(n, stream, blocks, p) == \E d \in 0..n : Place(W, stream, blocks, p - d)
Along(n, stream, class, blocks, p) ==
  \E d \in 0..n : Place(W, stream, blocks, p - d) /\ \A e \in 1..d : Place(W, class, Classes(blocks), p - e)

\* At a position: a mark leads to it along the class from no more than n positions before
\* if there is one within them and the scan of the class comes to it.
LEMMA BoundedAt ==
  ASSUME NEW n \in Nat, NEW m, NEW cc, NEW blocks, NEW p \in 0..W - 1, NEW on \in BOOLEAN,
         W \in Nat, Comes(n, on, m, cc, blocks, p)
  PROVE  (p \in m \/ on) /\ Near(n, m, blocks, p) <=> Along(n, m, cc, blocks, p)
<1> DEFINE S(d) == Place(W, m, blocks, p - d)
           C(e) == Place(W, cc, Classes(blocks), p - e)
           right == \E d \in 0..n : S(d) /\ \A e \in 1..d : C(e)
           near == \E d \in 0..n : S(d)
           led == Led(n, m, cc, blocks, p)
           ran == Ran(n, cc, blocks, p)
<1>1. S(0) <=> p \in m
  <2>1. p - 0 = p /\ p >= 0
    OBVIOUS
  <2>2. QED
    BY <2>1, Zenon DEF Place
<1>2. (led => on) /\ (on => led \/ ran)
  BY DEF Comes
<1>3. led <=> \E d \in 1..n : S(d) /\ \A e \in 1..d : C(e)
  BY Zenon DEF Led
<1>4. ran <=> \A e \in 1..n : C(e)
  BY Zenon DEF Ran
<1> HIDE DEF S, C, led, ran
<1>5. ASSUME right PROVE near /\ (p \in m \/ on)
  <2>1. PICK d \in 0..n : S(d) /\ \A e \in 1..d : C(e)
    BY <1>5
  <2>2. CASE d = 0
    BY <1>1, <2>1, <2>2
  <2>3. CASE d # 0
    <3>1. d \in 1..n
      BY <2>3
    <3>2. led
      BY <1>3, <2>1, <3>1
    <3>3. QED
      BY <1>2, <2>1, <3>2
  <2>4. QED
    BY <2>2, <2>3
<1>6. ASSUME near, p \in m \/ on PROVE right
  <2>1. CASE p \in m
    <3>1. 0 \in 0..n /\ \A e \in 1..0 : C(e)
      OBVIOUS
    <3>2. QED
      BY <1>1, <2>1, <3>1
  <2>2. CASE led
    <3>1. PICK d \in 1..n : S(d) /\ \A e \in 1..d : C(e)
      BY <1>3, <2>2
    <3>2. d \in 0..n
      OBVIOUS
    <3>3. QED
      BY <3>1, <3>2
  <2>3. CASE ran
    <3>1. PICK d \in 0..n : S(d)
      BY <1>6
    <3>2. \A e \in 1..d : e \in 1..n
      OBVIOUS
    <3>3. \A e \in 1..d : C(e)
      BY <1>4, <2>3, <3>2
    <3>4. QED
      BY <3>1, <3>3
  <2>4. QED
    BY <1>2, <1>6, <2>1, <2>2, <2>3
<1> HIDE DEF right, near
<1>7. (p \in m \/ on) /\ near <=> right
  BY <1>5, <1>6
<1>8. (Near(n, m, blocks, p) <=> near) /\ (Along(n, m, cc, blocks, p) <=> right)
  BY Zenon DEF right, near, S, C, Near, Along
<1>9. QED
  BY <1>7, <1>8

LEMMA BoundedCounts ==
  ASSUME NEW block, NEW q, Repeats(block), op.name = "bounded", CarriesFit(q, past, blockNo)
  PROVE  CountedOn(bounded(block.stream, block.class, q), block)
<1> DEFINE l == Len(ShiftsOf(op))
           number == (blockNo + 1) % MaxRing
           new == Pushed(past, block)
           m == block.stream
           cc == block.class
           star == MatchStar(m, cc, q[1])
           mask == reachable(m, Tail(q))
           done == bounded(m, cc, q)
           n == op.n
<1>1. PICK r : Joining(ShiftsOf(op), r, Joins(op)) /\ CarriesKept(r, q, past, blockNo)
  BY DEF CarriesFit
<1>2. /\ KeptAll(FALSE, ShiftsOf(op), r, Tail(q), past, blockNo)
      /\ q[1] \in {{}, {0}} /\ Comes(n, 0 \in q[1], {}, {}, past, 0)
  BY <1>1 DEF CarriesKept, ShiftCarry
<1>3. /\ l \in Nat /\ n \in Nat /\ op.width \in Nat \ {0} /\ op.fields \in Nat \ {0}
      /\ op.fields < MaskBits /\ W \in Nat \ {0} /\ n <= W * Len(past)
  BY <1>1, RepeatShifts, RepeatSizes DEF Repeats
<1>4. block \in Inputs /\ past \in Seq(Inputs) /\ m \subseteq 0..W - 1 /\ cc \subseteq 0..W - 1
  BY DEF Repeats, Inputs
<1>5. PICK f : Stages(FALSE, ShiftsOf(op), m, Tail(q), f) /\ mask = f[l]
  <2>1. (op.name = "reachable" \/ op.name = "bounded") /\ Len(ShiftsOf(op)) \in Nat
    BY <1>3
  <2>2. QED
    BY <2>1, ReachableIs, Zenon
<1>6. JoinedBy(FALSE, ShiftsOf(op), r, Joins(op), f, past, block)
  BY <1>1, <1>2, <1>5, ShiftsGoOn
<1>7. /\ CoveredBlock(FALSE, Joins(op), mask.sum, past, block)
      /\ KeptAll(FALSE, ShiftsOf(op), r, mask.out, new, number)
      /\ \E U : mask.out \in Seq(U)
  BY <1>5, <1>6 DEF JoinedBy
<1>8. mask.sum = {p \in 0..W - 1 : \E d \in 0..n : Place(W, m, past, p - d)}
  <2>1. Joins(op) - 1 = n
    BY <1>3 DEF Joins
  <2>2. QED
    BY <1>7, <2>1, Zenon DEF CoveredBlock, Covers
<1> DEFINE start == 0 \in q[1]
<1>9. start \in BOOLEAN /\ W \in Nat
  BY <1>3
<1> HIDE DEF start
<1>10. PICK c : ScanCarries(W, m, cc, start, c)
  BY <1>9, ScanCarriesExist
<1> HIDE DEF mask, done, star, m, cc, new, number, l, n
<1>11. /\ star.sum = {p \in 0..W - 1 : p \in m \/ p \in c}
       /\ star.out = IF W \in c THEN {0} ELSE {}
  <2>1. MarksReached(m, cc, q[1], c)
    BY <1>2, <1>3, <1>4, <1>10, MatchStarIs DEF m, cc, start
  <2>2. QED
    BY <2>1 DEF MarksReached, star
<1>12. \A p \in 0..W : Comes(n, p \in c, m, cc, past, p)
  <2>1. Comes(n, start, {}, {}, past, 0)
    BY <1>2 DEF start, n
  <2>2. ComesAlong(n, c, m, cc, past)
    BY <1>3, <1>9, <1>10, <2>1, ScanComes DEF n
  <2>3. QED
    BY <2>2 DEF ComesAlong
<1>13. done.sum = star.sum \intersect mask.sum /\ done.out = <<star.out>> \o mask.out
  BY DEF bounded, done, star, mask
<1>14. done.out[1] = star.out /\ Tail(done.out) = mask.out
  BY <1>7, <1>13, FirstAndRest
<1>15. Counted(m, cc, past, done.sum)
  <2>1. ASSUME NEW p \in 0..W - 1
        PROVE  (p \in m \/ p \in c) /\ Near(n, m, past, p) <=> Along(n, m, cc, past, p)
    <3> DEFINE on == p \in c
    <3>1. p \in 0..W
      BY <1>3
    <3>2. n \in Nat /\ W \in Nat /\ on \in BOOLEAN /\ Comes(n, on, m, cc, past, p)
      BY <1>3, <1>12, <3>1
    <3> HIDE DEF on
    <3>3. (p \in m \/ on) /\ Near(n, m, past, p) <=> Along(n, m, cc, past, p)
      BY <3>2, BoundedAt
    <3>4. QED
      BY <3>3 DEF on
  <2>2. mask.sum = {p \in 0..W - 1 : Near(n, m, past, p)}
    BY <1>8, Zenon DEF Near
  <2>3. done.sum = {p \in 0..W - 1 : Along(n, m, cc, past, p)}
    BY <1>11, <1>13, <2>1, <2>2
  <2>4. QED
    BY <2>3, Zenon DEF Counted, Along, n
<1>16. CarriesFit(done.out, new, number)
  <2> DEFINE on == W \in c
  <2>1. on \in BOOLEAN /\ W \in 0..W /\ (0 \in star.out <=> on) /\ star.out \in {{}, {0}}
    BY <1>3, <1>11
  <2>2. Comes(n, on, m, cc, past, W)
    BY <1>12, <2>1
  <2> HIDE DEF on
  <2>3. Comes(n, on, {}, {}, new, 0)
    BY <1>3, <1>4, <2>1, <2>2, ComesPushed DEF m, cc, new
  <2>4. Comes(n, 0 \in star.out, {}, {}, new, 0)
    BY <2>1, <2>3 DEF Comes
  <2>5. CarriesKept(r, done.out, new, number)
    BY <1>7, <1>14, <2>1, <2>4 DEF CarriesKept, ShiftCarry, n
  <2>6. QED
    BY <1>1, <2>5 DEF CarriesFit
<1>17. QED
  BY <1>15, <1>16 DEF CountedOn, done, m, cc, new, number

\* Before the first block, nothing is at any earlier position.
LEMMA NothingPlaced ==
  ASSUME NEW older, NEW p \in Int, W \in Nat \ {0}, Len(older) \in Nat,
         \A k \in 1..Len(older) : older[k].stream = {}
  PROVE  ~Place(W, {}, older, p)
<1> DEFINE w == W
           k == -(p \div w)
<1>1. CASE p >= 0
  BY <1>1, Zenon DEF Place
<1>2. CASE ~(p >= 0)
  <2>1. k \in Int /\ k >= 1
    BY <1>2
  <2>2. Place(W, {}, older, p) <=> k <= Len(older) /\ (p % w) \in older[k].stream
    BY <1>2, Zenon DEF Place
  <2> HIDE DEF k, w
  <2>3. k <= Len(older) => k \in 1..Len(older)
    BY <2>1
  <2>4. QED
    BY <2>2, <2>3
<1>3. QED
  BY <1>1, <1>2

LEMMA NothingCovered ==
  ASSUME NEW all \in BOOLEAN, NEW r \in Nat \ {0}, NEW older, NEW p \in Int, W \in Nat \ {0},
         Len(older) \in Nat, \A k \in 1..Len(older) : older[k].stream = {}
  PROVE  ~Covers(all, r, {}, older, p)
<1> DEFINE P(d) == Place(W, {}, older, p - d)
<1>1. ASSUME NEW d \in 0..r - 1 PROVE ~P(d)
  <2> DEFINE x == p - d
  <2>1. x \in Int
    OBVIOUS
  <2> HIDE DEF x
  <2>2. ~Place(W, {}, older, x)
    BY <2>1, NothingPlaced
  <2>3. QED
    BY <2>2 DEF x
<1> HIDE DEF P
<1>2. 0 \in 0..r - 1
  OBVIOUS
<1>3. ~\E d \in 0..r - 1 : P(d)
  BY <1>1
<1>4. ~\A d \in 0..r - 1 : P(d)
  BY <1>1, <1>2
<1>5. QED
  BY <1>3, <1>4, Zenon DEF Covers, P

\* So the carries of shifts keep nothing.
LEMMA EmptyKeeps ==
  ASSUME NEW all \in BOOLEAN, NEW n, NEW r \in Nat \ {0}, NEW blocks, Shifting(n),
         Len(blocks) \in Nat, \A k \in 1..Len(blocks) : blocks[k].stream = {}
  PROVE  Keeps(all, n, r, Empty(op, n), blocks, 0)
<1> DEFINE none == [stream |-> {}]
           e == Entries(op, n)
           older == [k \in 1..e |-> none]
<1>1. W \in Nat \ {0} /\ e \in Nat
  BY SizesAre, EntriesAre
<1>2. none \in Streams /\ none.stream = {}
  BY DEF Streams
<1> HIDE DEF none, e
<1>3. older \in Seq(Streams) /\ Len(older) = e /\ \A k \in 1..e : older[k].stream = {}
  BY <1>1, <1>2
<1> HIDE DEF older
<1>4. OlderOK(n, older)
  BY <1>3 DEF OlderOK, e
<1>5. Holds(n, Empty(op, n), older, 0)
  BY <1>3, <1>4, EmptyHolds DEF e
<1>6. Covered(all, n, r, older, blocks)
  <2>1. ASSUME NEW p \in Int PROVE ~Place(W, {}, older, p) /\ ~Covers(all, r, {}, blocks, p)
    BY <1>1, <1>3, NothingPlaced, NothingCovered
  <2>2. QED
    BY <2>1 DEF Covered
<1>7. QED
  BY <1>3, <1>4, <1>5, <1>6 DEF Keeps

LEMMA NothingComes ==
  ASSUME NEW n \in Nat, NEW blocks \in Seq(Inputs), W \in Nat \ {0},
         \A k \in 1..Len(blocks) : blocks[k].stream = {}
  PROVE  Comes(n, FALSE, {}, {}, blocks, 0)
<1>1. ASSUME NEW d \in 1..n PROVE ~Place(W, {}, blocks, 0 - d)
  <2>1. 0 - d \in Int /\ Len(blocks) \in Nat
    OBVIOUS
  <2>2. QED
    BY <2>1, NothingPlaced
<1>2. ~Led(n, {}, {}, blocks, 0)
  BY <1>1, Zenon DEF Led
<1>3. QED
  BY <1>2 DEF Comes

\* The carries before the first block.
LEMMA NothingKept ==
  ASSUME op \in Ops, Repeating(op), NEW blocks \in Seq(Inputs),
         \A k \in 1..Len(blocks) : blocks[k].stream = {}
  PROVE  CarriesFit(NoCarry(op), blocks, 0)
<1> DEFINE shifts == ShiftsOf(op)
           l == Len(shifts)
           advances == [j \in DOMAIN shifts |-> Empty(op, shifts[j])]
           all == op.name = "consecutive"
           c == NoCarry(op)
<1>1. PICK r : Joining(shifts, r, Joins(op))
  BY ShiftsJoin
<1>2. /\ shifts \in Seq(Nat \ {0}) /\ l \in Nat
      /\ \A j \in 1..l : r[j - 1] \in Nat \ {0} /\ Shifting(shifts[j])
  BY <1>1, RepeatShifts
<1>3. W \in Nat \ {0} /\ op.n \in Nat
  BY RepeatSizes
<1>4. NoCarry(op) = IF op.name = "bounded" THEN <<{}>> \o advances ELSE advances
  BY DEF NoCarry, ShiftsOf, Repeating
<1>5. DOMAIN shifts = 1..l
  <2> HIDE DEF shifts
  <2>1. QED
    BY <1>2
<1>6. all \in BOOLEAN /\ Len(blocks) \in Nat
  OBVIOUS
<1> HIDE DEF shifts, l, all
<1>7. /\ \E U : advances \in Seq(U)
      /\ \A j \in 1..l : advances[j] = Empty(op, shifts[j])
  <2> DEFINE A(j) == Empty(op, shifts[j])
             U == {A(j) : j \in 1..l}
  <2>1. advances = [j \in 1..l |-> A(j)] /\ \A j \in 1..l : A(j) \in U
    BY <1>5
  <2> HIDE DEF advances, U, A
  <2>2. advances \in Seq(U) /\ \A j \in 1..l : advances[j] = A(j)
    BY <1>2, <2>1
  <2>3. QED
    BY <2>2 DEF A
<1> HIDE DEF advances, c
<1>8. KeptAll(all, shifts, r, advances, blocks, 0)
  <2>1. ASSUME NEW j \in 1..l PROVE Keeps(all, shifts[j], r[j - 1], advances[j], blocks, 0)
    <3>1. Keeps(all, shifts[j], r[j - 1], Empty(op, shifts[j]), blocks, 0)
      BY <1>2, <1>6, EmptyKeeps
    <3>2. QED
      BY <1>7, <3>1
  <2>2. QED
    BY <2>1 DEF KeptAll, l
<1>9. ShiftCarry(c) = advances /\ (op.name = "bounded" => c[1] = {})
  BY <1>4, <1>7, FirstAndRest DEF ShiftCarry, c
<1>10. op.name = "bounded" => Comes(op.n, 0 \in c[1], {}, {}, blocks, 0)
  <2>1. Comes(op.n, FALSE, {}, {}, blocks, 0)
    BY <1>3, NothingComes
  <2>2. QED
    BY <1>9, <2>1 DEF Comes
<1>11. CarriesKept(r, c, blocks, 0)
  BY <1>8, <1>9, <1>10 DEF CarriesKept, all, shifts
<1>12. QED
  BY <1>1, <1>11 DEF CarriesFit, shifts, c

-----------------------------------------------------------------------------
RepeatInv ==
  Repeating(op) =>
    /\ input \in Inputs
    /\ past \in Seq(Inputs) /\ Len(past) = Entries(op, op.n)
    /\ blockNo \in 0..MaxRing - 1
    /\ pc \in {"read", "next"}
    /\ pc = "read" => CarriesFit(carry, past, blockNo)
    /\ pc = "next" => CarriesFit(carry, Pushed(past, input), (blockNo + 1) % MaxRing)
    /\ RepetitionsCountRight

RInv == op \in Ops /\ RepeatInv

LEMMA RepeatInit == Init => RInv
<1>1. SUFFICES ASSUME Init, Repeating(op) PROVE RepeatInv
  BY DEF Init, RInv, RepeatInv
<1>2. /\ op \in Ops /\ input = NoInput /\ carry = NoCarry(op) /\ blockNo = 0 /\ pc = "read"
      /\ past = [k \in 1..Entries(op, op.n) |-> NoInput]
  BY <1>1 DEF Init, Repeating, PastBlocks
<1>3. W \in Nat \ {0} /\ Entries(op, op.n) \in Nat /\ MaxRing \in Nat \ {0}
  BY <1>1, <1>2, RepeatSizes
<1>4. NoInput \in Inputs /\ NoInput.stream = {}
  <2>1. W \in 0..W
    BY <1>3
  <2>2. QED
    BY <2>1 DEF NoInput, Inputs
<1>5. /\ past \in Seq(Inputs) /\ Len(past) = Entries(op, op.n)
      /\ \A k \in 1..Len(past) : past[k].stream = {}
  BY <1>2, <1>3, <1>4
<1>6. CarriesFit(carry, past, blockNo)
  BY <1>1, <1>2, <1>5, NothingKept
<1>7. RepetitionsCountRight
  BY <1>2 DEF RepetitionsCountRight
<1>8. input \in Inputs /\ blockNo \in 0..MaxRing - 1 /\ pc = "read"
  BY <1>2, <1>3, <1>4
<1>9. QED
  BY <1>5, <1>6, <1>7, <1>8, Zenon DEF RepeatInv

\* What depends on the operation alone stays.
LEMMA SameRepetition ==
  ASSUME op' = op
  PROVE  /\ Entries(op, op.n)' = Entries(op, op.n) /\ Repeating(op)' = Repeating(op)
         /\ \A c, blocks, number : CarriesFit(c, blocks, number)' <=> CarriesFit(c, blocks, number)
<1>1. W' = W
  BY DEF W
<1>2. Entries(op, op.n)' = Entries(op, op.n) /\ Repeating(op)' = Repeating(op)
  BY DEF Entries, Repeating
<1>3. \A all, n, r, q, blocks, number :
        Keeps(all, n, r, q, blocks, number)' <=> Keeps(all, n, r, q, blocks, number)
  BY <1>1 DEF Keeps, Streams, OlderOK, Holds, Covered, Covers, Place, IsLong, BufferSize, Entries
<1>4. \A n, on, stream, class, blocks, p :
        Comes(n, on, stream, class, blocks, p)' <=> Comes(n, on, stream, class, blocks, p)
  BY <1>1 DEF Comes, Led, Ran, Place, Classes
<1>5. ASSUME NEW c, NEW blocks, NEW number
      PROVE  CarriesFit(c, blocks, number)' <=> CarriesFit(c, blocks, number)
  <2>1. ShiftsOf(op)' = ShiftsOf(op) /\ Joins(op)' = Joins(op) /\ ShiftCarry(c)' = ShiftCarry(c)
    BY DEF ShiftsOf, Joins, ShiftCarry, Repeating, Shifts, Doublings
  <2>2. ASSUME NEW r
        PROVE  CarriesKept(r, c, blocks, number)' <=> CarriesKept(r, c, blocks, number)
    <3>1. (KeptAll(op.name = "consecutive", ShiftsOf(op), r, ShiftCarry(c), blocks, number))'
            <=> KeptAll(op.name = "consecutive", ShiftsOf(op), r, ShiftCarry(c), blocks, number)
      BY <1>3, <2>1 DEF KeptAll
    <3>2. (Comes(op.n, 0 \in c[1], {}, {}, blocks, 0))' <=> Comes(op.n, 0 \in c[1], {}, {}, blocks, 0)
      BY <1>4
    <3>3. QED
      BY <3>1, <3>2 DEF CarriesKept
  <2>3. \A r : Joining(ShiftsOf(op), r, Joins(op))' <=> Joining(ShiftsOf(op), r, Joins(op))
    BY <2>1 DEF Joining
  <2>4. QED
    BY <2>2, <2>3 DEF CarriesFit
<1>6. QED
  BY <1>2, <1>5

\* The class at a position, of the blocks themselves.
LEMMA ClassPlace ==
  ASSUME NEW cc, NEW blocks, NEW p \in Int, W \in Nat \ {0}, Len(blocks) \in Nat
  PROVE  Place(W, cc, Classes(blocks), p)
           <=> IF p >= 0 THEN p \in cc
               ELSE -(p \div W) <= Len(blocks) /\ (p % W) \in blocks[-(p \div W)].class
<1> DEFINE w == W
           k == -(p \div w)
           x == p % w
           l == Len(blocks)
           classes == Classes(blocks)
           here == Place(W, cc, classes, p)
<1>1. w \in Nat \ {0} /\ l \in Nat
  OBVIOUS
<1>2. classes = [j \in 1..l |-> [stream |-> blocks[j].class]]
  BY DEF Classes
<1>3. here <=> IF p >= 0 THEN p \in cc ELSE k <= Len(classes) /\ x \in classes[k].stream
  BY Zenon DEF Place
<1>4. CASE p >= 0
  BY <1>3, <1>4
<1>5. CASE ~(p >= 0)
  <2>1. k \in Int /\ k >= 1
    BY <1>1, <1>5
  <2> HIDE DEF classes, k, x, l, here, w
  <2>2. Len(classes) = l /\ \A j \in 1..l : classes[j].stream = blocks[j].class
    BY <1>1, <1>2
  <2>3. k <= l => k \in 1..l
    BY <1>1, <2>1
  <2>4. here <=> k <= l /\ x \in blocks[k].class
    BY <1>3, <1>5, <2>2, <2>3
  <2>5. QED
    BY <1>5, <2>4 DEF here, k, x, l, classes, w
<1>6. QED
  BY <1>4, <1>5

\* A block of the result counts right if it does for the blocks read so far.
LEMMA CountedRight ==
  ASSUME W \in Nat \ {0}, op' = op, past' = past, Len(past) \in Nat, op.n \in Nat,
         Counted(input'.stream, input'.class, past, result')
  PROVE  RepetitionsCountRight'
<1> DEFINE m == input'.stream
           cc == input'.class
           S(p) == Place(W, m, past, p)
           C(p) == Place(W, cc, Classes(past), p)
           n == op.n
<1>1. W' = W
  BY DEF W
<1>2. \A p : At("stream", p)' <=> S(p)
  BY <1>1, Zenon DEF At, Place
<1>3. ASSUME NEW p \in Int PROVE At("class", p)' <=> C(p)
  <2>1. At("class", p)' <=> IF p >= 0 THEN p \in cc
                            ELSE -(p \div W) <= Len(past) /\ (p % W) \in past[-(p \div W)].class
    BY <1>1, Zenon DEF At
  <2>2. C(p) <=> IF p >= 0 THEN p \in cc
                 ELSE -(p \div W) <= Len(past) /\ (p % W) \in past[-(p \div W)].class
    BY ClassPlace
  <2>3. QED
    BY <2>1, <2>2, Zenon
<1> DEFINE all(p) == \A d \in 0..n - 1 : S(p - d)
           near(p) == \E d \in 0..n : S(p - d)
           along(p) == \E d \in 0..n : S(p - d) /\ \A e \in 1..d : C(p - e)
<1>4. /\ op.name = "consecutive" => result' = {p \in 0..W - 1 : all(p)}
      /\ op.name = "reachable" => result' = {p \in 0..W - 1 : near(p)}
      /\ op.name = "bounded" => result' = {p \in 0..W - 1 : along(p)}
  BY Zenon DEF Counted
<1>5. \A p \in 0..W - 1 : all(p) <=> \A d \in 0..n - 1 : At("stream", p - d)'
  BY <1>2
<1>6. \A p \in 0..W - 1 : near(p) <=> \E d \in 0..n : At("stream", p - d)'
  BY <1>2
<1>7. \A p \in 0..W - 1 :
        along(p) <=> \E d \in 0..n : At("stream", p - d)' /\ \A e \in 1..d : At("class", p - e)'
  <2>1. \A p \in 0..W - 1 : \A d \in 0..n : \A e \in 1..d : p - e \in Int
    OBVIOUS
  <2> HIDE DEF S, C
  <2>2. \A p \in 0..W - 1 : \A d \in 0..n : \A e \in 1..d : C(p - e) <=> At("class", p - e)'
    BY <1>3, <2>1
  <2>3. QED
    BY <1>2, <2>2, Zenon
<1> HIDE DEF all, near, along
<1>8. op.name = "consecutive" =>
        result' = {p \in 0..W - 1 : \A d \in 0..n - 1 : At("stream", p - d)'}
  BY <1>4, <1>5
<1>9. op.name = "reachable" =>
        result' = {p \in 0..W - 1 : \E d \in 0..n : At("stream", p - d)'}
  BY <1>4, <1>6
<1>10. op.name = "bounded" =>
        result' = {p \in 0..W - 1 : \E d \in 0..n :
                     At("stream", p - d)' /\ \A e \in 1..d : At("class", p - e)'}
  BY <1>4, <1>7
<1>11. QED
  BY <1>1, <1>8, <1>9, <1>10, Zenon DEF RepetitionsCountRight, n

LEMMA RepeatRead ==
  ASSUME RInv, ReadBlock
  PROVE  RInv'
<1>1. op' = op /\ op \in Ops /\ blockNo' = blockNo /\ past' = past /\ pc = "read" /\ pc' = "next"
  BY DEF RInv, ReadBlock
<1>2. SUFFICES ASSUME Repeating(op) PROVE RepeatInv'
  BY <1>1, SameRepetition DEF RInv, RepeatInv
<1>3. /\ past \in Seq(Inputs) /\ Len(past) = Entries(op, op.n)
      /\ blockNo \in 0..MaxRing - 1 /\ CarriesFit(carry, past, blockNo)
  BY <1>1, <1>2, Zenon DEF RInv, RepeatInv
<1>4. W \in Nat \ {0} /\ op.n \in Nat /\ op.name \in {"consecutive", "reachable", "bounded"}
  BY <1>1, <1>2, RepeatSizes
<1>5. PICK m \in Block, cc \in Block :
        /\ input' = [stream |-> m, class |-> cc, end |-> W]
        /\ result' = Compute(m, cc, W).sum /\ carry' = Compute(m, cc, W).out
  <2>1. op.name # "delete" /\ {} \in Block
    BY <1>4 DEF Block
  <2>2. QED
    BY <2>1 DEF ReadBlock
<1>6. input' \in Inputs /\ input'.stream = m /\ input'.class = cc
  <2>1. W \in 0..W
    BY <1>4
  <2>2. QED
    BY <1>5, <2>1 DEF Inputs, Block
<1>7. Repeats(input')
  BY <1>1, <1>2, <1>3, <1>6 DEF Repeats
<1>8. CountedOn(Compute(m, cc, W), input')
  <2>1. CASE op.name = "consecutive"
    <3>1. Compute(m, cc, W) = consecutive_matches(m, carry)
      BY <2>1 DEF Compute
    <3>2. QED
      BY <1>3, <1>6, <1>7, <2>1, <3>1, ConsecutiveCounts
  <2>2. CASE op.name = "reachable"
    <3>1. Compute(m, cc, W) = reachable(m, carry)
      BY <2>2 DEF Compute
    <3>2. QED
      BY <1>3, <1>6, <1>7, <2>2, <3>1, ReachableCounts
  <2>3. CASE op.name = "bounded"
    <3>1. Compute(m, cc, W) = bounded(m, cc, carry)
      BY <2>3 DEF Compute
    <3>2. QED
      BY <1>3, <1>6, <1>7, <2>3, <3>1, BoundedCounts
  <2>4. QED
    BY <1>4, <2>1, <2>2, <2>3
<1>9. /\ Counted(input'.stream, input'.class, past, result')
      /\ CarriesFit(carry', Pushed(past, input'), (blockNo + 1) % MaxRing)
  BY <1>5, <1>6, <1>8 DEF CountedOn
<1>10. RepetitionsCountRight'
  <2>1. Len(past) \in Nat
    BY <1>3
  <2>2. QED
    BY <1>1, <1>4, <1>9, <2>1, CountedRight
<1>11. CarriesFit(carry, Pushed(past, input), (blockNo + 1) % MaxRing)'
  <2>1. Pushed(past, input)' = Pushed(past, input') /\ ((blockNo + 1) % MaxRing)' = (blockNo + 1) % MaxRing
    BY <1>1 DEF Pushed
  <2>2. QED
    BY <1>1, <1>9, <2>1, SameRepetition
<1>12. /\ (input \in Inputs)' /\ (past \in Seq(Inputs))' /\ (Len(past) = Entries(op, op.n))'
       /\ (blockNo \in 0..MaxRing - 1)' /\ pc' = "next"
  <2>1. Inputs' = Inputs
    BY <1>1 DEF Inputs, W
  <2>2. QED
    BY <1>1, <1>3, <1>6, <2>1, SameRepetition
<1>13. QED
  BY <1>10, <1>11, <1>12, Zenon DEF RepeatInv

LEMMA RepeatNext ==
  ASSUME RInv, NextBlock
  PROVE  RInv'
<1>1. op' = op /\ op \in Ops /\ carry' = carry /\ input' = NoInput /\ pc = "next" /\ pc' = "read"
  BY DEF RInv, NextBlock
<1>2. SUFFICES ASSUME Repeating(op) PROVE RepeatInv'
  BY <1>1, SameRepetition DEF RInv, RepeatInv
<1>3. /\ input \in Inputs /\ past \in Seq(Inputs) /\ Len(past) = Entries(op, op.n)
      /\ blockNo \in 0..MaxRing - 1
      /\ CarriesFit(carry, Pushed(past, input), (blockNo + 1) % MaxRing)
  BY <1>1, <1>2, Zenon DEF RInv, RepeatInv
<1>4. past' = Pushed(past, input) /\ blockNo' = (blockNo + 1) % MaxRing
  BY <1>2 DEF NextBlock, Pushed
<1>5. W \in Nat \ {0} /\ MaxRing \in Nat \ {0} /\ Inputs' = Inputs
  BY <1>1, <1>2, RepeatSizes DEF Inputs, W
<1>6. NoInput \in Inputs
  <2>1. W \in 0..W
    BY <1>5
  <2>2. QED
    BY <2>1 DEF NoInput, Inputs
<1>7. past' \in Seq(Inputs) /\ Len(past') = Len(past)
  BY <1>3, <1>4, PushedIs
<1>8. CarriesFit(carry, past, blockNo)'
  BY <1>1, <1>3, <1>4, SameRepetition
<1>9. RepetitionsCountRight'
  BY <1>1 DEF RepetitionsCountRight
<1>10. /\ (input \in Inputs)' /\ (past \in Seq(Inputs))' /\ (Len(past) = Entries(op, op.n))'
       /\ (blockNo \in 0..MaxRing - 1)' /\ pc' = "read"
  BY <1>1, <1>3, <1>4, <1>5, <1>6, <1>7, SameRepetition
<1>11. QED
  BY <1>8, <1>9, <1>10, Zenon DEF RepeatInv

LEMMA RepeatSame ==
  ASSUME RInv, UNCHANGED vars
  PROVE  RInv'
<1>1. /\ op' = op /\ input' = input /\ result' = result /\ carry' = carry
      /\ blockNo' = blockNo /\ pc' = pc /\ past' = past
  BY DEF vars
<1>2. RepetitionsCountRight' <=> RepetitionsCountRight
  BY <1>1 DEF RepetitionsCountRight, At, W
<1>3. CarriesFit(carry, past, blockNo)' <=> CarriesFit(carry, past, blockNo)
  BY <1>1, SameRepetition
<1>4. CarriesFit(carry, Pushed(past, input), (blockNo + 1) % MaxRing)'
        <=> CarriesFit(carry, Pushed(past, input), (blockNo + 1) % MaxRing)
  <2>1. Pushed(past, input)' = Pushed(past, input)
    BY <1>1 DEF Pushed
  <2>2. QED
    BY <1>1, <2>1, SameRepetition
<1>5. Inputs' = Inputs
  BY <1>1 DEF Inputs, W
<1>6. QED
  BY <1>1, <1>2, <1>3, <1>4, <1>5, SameRepetition DEF RInv, RepeatInv

\* Whatever its bounds and the length of the blocks, a repetition built of doubling shifts marks
\* the runs, the neighbourhoods and the stretches of a class that it says, over all blocks.
THEOREM RepetitionsCount == Spec => []RepetitionsCountRight
<1>1. Init => RInv
  BY RepeatInit
<1>2. RInv /\ [Next]_vars => RInv'
  <2>1. SUFFICES ASSUME RInv, [Next]_vars PROVE RInv'
    OBVIOUS
  <2>2. CASE ReadBlock
    BY <2>1, <2>2, RepeatRead
  <2>3. CASE NextBlock
    BY <2>1, <2>3, RepeatNext
  <2>4. CASE UNCHANGED vars
    BY <2>1, <2>4, RepeatSame
  <2>5. QED
    BY <2>1, <2>2, <2>3, <2>4 DEF Next
<1>3. RInv => RepetitionsCountRight
  <2>1. SUFFICES ASSUME RInv, ~Repeating(op) PROVE RepetitionsCountRight
    BY Zenon DEF RInv, RepeatInv
  <2>2. QED
    BY <2>1 DEF RepetitionsCountRight, Repeating
<1>4. QED
  BY <1>1, <1>2, <1>3, PTL DEF Spec

-----------------------------------------------------------------------------
(* How many positions of a set there are from one position to another.       *)

Ones(a, lo, hi) == Cardinality({x \in lo..hi : x \in a})

LEMMA OnesAre ==
  ASSUME NEW a, NEW lo \in Int, NEW hi \in Int
  PROVE  /\ Ones(a, lo, hi) \in Nat /\ IsFiniteSet({x \in lo..hi : x \in a})
         /\ hi < lo => Ones(a, lo, hi) = 0
         /\ lo <= hi + 1 => Ones(a, lo, hi) <= hi - lo + 1
<1> DEFINE s == {x \in lo..hi : x \in a}
           t == lo..hi
<1>1. IsFiniteSet(t) /\ Cardinality(t) = IF lo > hi THEN 0 ELSE hi - lo + 1
  BY FS_Interval
<1>2. s \in SUBSET t
  OBVIOUS
<1> HIDE DEF s, t
<1>3. IsFiniteSet(s) /\ Cardinality(s) <= Cardinality(t)
  BY <1>1, <1>2, FS_Subset
<1>4. Cardinality(s) \in Nat
  BY <1>3, FS_CardinalityType
<1>5. QED
  BY <1>1, <1>3, <1>4 DEF Ones, s, t

LEMMA OnesNat ==
  ASSUME NEW a, NEW lo \in Int, NEW hi \in Int
  PROVE  Ones(a, lo, hi) \in Nat
BY OnesAre

LEMMA OnesSame ==
  ASSUME NEW a, NEW b, NEW lo \in Int, NEW hi \in Int, \A x \in lo..hi : x \in a <=> x \in b
  PROVE  Ones(a, lo, hi) = Ones(b, lo, hi)
<1>1. {x \in lo..hi : x \in a} = {x \in lo..hi : x \in b}
  OBVIOUS
<1>2. QED
  BY <1>1 DEF Ones

LEMMA OnesSplit ==
  ASSUME NEW a, NEW lo \in Int, NEW mid \in Int, NEW hi \in Int, lo <= mid + 1, mid <= hi
  PROVE  Ones(a, lo, hi) = Ones(a, lo, mid) + Ones(a, mid + 1, hi)
<1> DEFINE s == {x \in lo..hi : x \in a}
           l == {x \in lo..mid : x \in a}
           r == {x \in mid + 1..hi : x \in a}
<1>1. s = l \union r /\ l \intersect r = {}
  OBVIOUS
<1>2. IsFiniteSet(l) /\ IsFiniteSet(r) /\ Cardinality(l) \in Nat /\ Cardinality(r) \in Nat
  <2>1. mid + 1 \in Int
    OBVIOUS
  <2>2. QED
    BY <2>1, OnesAre DEF Ones
<1> HIDE DEF s, l, r
<1>3. Cardinality(s) = Cardinality(l) + Cardinality(r) - Cardinality({})
  BY <1>1, <1>2, FS_Union
<1>4. Cardinality({}) = 0
  BY FS_EmptySet
<1>5. QED
  BY <1>2, <1>3, <1>4 DEF Ones, s, l, r

LEMMA OnesOne ==
  ASSUME NEW a, NEW x \in Int
  PROVE  Ones(a, x, x) = Bit(x \in a)
<1>1. CASE x \in a
  <2>1. {y \in x..x : y \in a} = {x}
    BY <1>1
  <2>2. QED
    BY <1>1, <2>1, FS_Singleton DEF Ones, Bit
<1>2. CASE x \notin a
  <2>1. {y \in x..x : y \in a} = {}
    BY <1>2
  <2>2. QED
    BY <1>2, <2>1, FS_EmptySet DEF Ones, Bit
<1>3. QED
  BY <1>1, <1>2

LEMMA OnesNext ==
  ASSUME NEW a, NEW lo \in Int, NEW hi \in Int, lo <= hi + 1
  PROVE  Ones(a, lo, hi + 1) = Ones(a, lo, hi) + Bit(hi + 1 \in a)
<1> DEFINE x == hi + 1
<1>1. x \in Int /\ hi <= x /\ hi + 1 = x
  OBVIOUS
<1> HIDE DEF x
<1>2. Ones(a, lo, x) = Ones(a, lo, hi) + Ones(a, x, x)
  BY <1>1, OnesSplit
<1>3. Ones(a, x, x) = Bit(x \in a)
  BY <1>1, OnesOne
<1>4. QED
  BY <1>2, <1>3 DEF x

\* A set moved up has its positions moved up.
LEMMA OnesMoved ==
  ASSUME NEW a, NEW b, NEW d \in Int, NEW lo \in Int, NEW hi \in Int,
         \A x \in lo..hi : x \in a <=> x + d \in b
  PROVE  Ones(a, lo, hi) = Ones(b, lo + d, hi + d)
<1> DEFINE s == {x \in lo..hi : x \in a}
           t == {x \in lo + d..hi + d : x \in b}
           f == [x \in s |-> x + d]
<1>1. \A x \in s : x + d \in t
  OBVIOUS
<1>2. \A y \in t : y - d \in s /\ (y - d) + d = y
  <2>1. ASSUME NEW y \in t PROVE y - d \in s /\ (y - d) + d = y
    <3>1. y \in Int /\ y - d \in lo..hi /\ (y - d) + d = y
      OBVIOUS
    <3>2. QED
      BY <3>1
  <2>2. QED
    BY <2>1
<1>3. \A x \in s, y \in s : x + d = y + d => x = y
  OBVIOUS
<1>4. IsFiniteSet(s)
  BY OnesAre
<1> HIDE DEF s, t
<1>5. f \in Bijection(s, t)
  <2>1. f \in [s -> t] /\ \A x \in s : f[x] = x + d
    BY <1>1
  <2> HIDE DEF f
  <2>2. f \in Injection(s, t)
    BY <1>3, <2>1, Zenon DEF Injection, IsInjective
  <2>3. \A y \in t : \E x \in s : f[x] = y
    BY <1>2, <2>1
  <2>4. f \in Surjection(s, t)
    BY <2>1, <2>3 DEF Surjection
  <2>5. QED
    BY <2>2, <2>4 DEF Bijection
<1>6. Cardinality(t) = Cardinality(s)
  BY <1>4, <1>5, FS_Bijection DEF ExistsBijection
<1>7. QED
  BY <1>6 DEF Ones, s, t

-----------------------------------------------------------------------------
(* Positions in their fields.                                                *)

Sized == op.width \in Nat \ {0} /\ op.fields \in Nat \ {0}

LEMMA SizedIs ==
  ASSUME Sized
  PROVE  F \in Nat \ {0} /\ W \in Nat \ {0} /\ W = F * op.fields /\ F <= W
<1>1. op.width \in Nat \ {0} /\ op.fields \in Nat \ {0}
  BY DEF Sized
<1>2. QED
  BY <1>1 DEF F, W

\* The first position of the field.
Start(i) == F * (i \div F)

LEMMA StartIs ==
  ASSUME NEW i \in 0..W - 1, Sized
  PROVE  /\ Start(i) \in 0..i /\ i - Start(i) \in 0..F - 1 /\ i % F = i - Start(i)
         /\ Start(i) + F <= W /\ i \div F \in 0..op.fields - 1
<1> DEFINE f == F
           n == op.fields
           q == i \div f
           r == i % f
<1>1. f \in Nat \ {0} /\ n \in Nat \ {0} /\ W = f * n /\ W \in Nat /\ i \in Nat /\ i < W
  <2>1. f \in Nat \ {0} /\ n \in Nat \ {0} /\ W = f * n /\ W \in Nat
    BY SizedIs DEF Sized
  <2>2. QED
    BY <2>1
<1> HIDE DEF f, n
<1>2. q \in Int /\ r \in 0..f - 1 /\ i = f * q + r
  BY <1>1
<1> HIDE DEF q, r
<1>3. q >= 0
  <2>1. CASE q <= -1
    <3>1. f * q <= -f
      BY <1>1, <1>2, <2>1
    <3>2. QED
      BY <1>1, <1>2, <3>1
  <2>2. QED
    BY <1>2, <2>1
<1>4. q <= n - 1
  <2>1. CASE q >= n
    <3>1. f * q >= f * n
      BY <1>1, <1>2, <2>1
    <3>2. QED
      BY <1>1, <1>2, <3>1
  <2>2. QED
    BY <1>1, <1>2, <2>1
<1>5. f * q \in Nat /\ f * q + f <= f * n
  <2>1. f * q \in Nat
    BY <1>1, <1>2, <1>3
  <2>2. f * q + f = f * (q + 1) /\ f * (q + 1) <= f * n
    BY <1>1, <1>2, <1>3, <1>4
  <2>3. QED
    BY <2>1, <2>2
<1>6. Start(i) = f * q
  BY DEF Start, f, q
<1> DEFINE s == f * q
<1>7. s \in Nat /\ i = s + r /\ r \in 0..f - 1 /\ s + f <= W
  BY <1>1, <1>2, <1>5
<1> HIDE DEF s
<1>8. s \in 0..i /\ i - s \in 0..f - 1 /\ r = i - s
  BY <1>1, <1>7
<1>9. QED
  BY <1>1, <1>2, <1>3, <1>4, <1>6, <1>7, <1>8 DEF s, r, f, q, n

LEMMA SameField ==
  ASSUME NEW i \in 0..W - 1, NEW j \in Int, Sized, Start(i) <= j, j < Start(i) + F
  PROVE  j \in 0..W - 1 /\ Start(j) = Start(i)
<1> DEFINE f == F
           q == i \div f
           s == Start(i)
           r == j - s
<1>1. f \in Nat \ {0} /\ s \in 0..i /\ s + f <= W /\ W \in Nat
  BY StartIs, SizedIs
<1>2. q \in Int /\ s = f * q
  <2>1. q \in Int
    BY <1>1
  <2>2. QED
    BY <2>1 DEF Start
<1>3. s <= j /\ j < s + f
  OBVIOUS
<1> HIDE DEF f, q, s
<1>4. r \in 0..f - 1 /\ j = s + r /\ j \in 0..W - 1
  BY <1>1, <1>3
<1> HIDE DEF r
<1>5. j = f * q + r /\ j \in Int
  BY <1>2, <1>4
<1>6. j \div f = q
  BY <1>1, <1>2, <1>4, <1>5, QuotientIs
<1>7. QED
  BY <1>4, <1>6 DEF Start, s, f, q

\* Shifts within fields.
LEMMA UpIs ==
  ASSUME NEW a, NEW s \in Nat, NEW i \in 0..W - 1, Sized
  PROVE  i \in simd_slli(F, a, s) <=> i - Start(i) >= s /\ i - s \in a
<1>1. i % F = i - Start(i)
  BY StartIs
<1>2. QED
  BY <1>1 DEF simd_slli

LEMMA DownIs ==
  ASSUME NEW a, NEW s \in Nat, NEW i \in 0..W - 1, Sized
  PROVE  i \in simd_srli(F, a, s) <=> i - Start(i) + s < F /\ i + s \in a
<1>1. i % F = i - Start(i)
  BY StartIs
<1>2. QED
  BY <1>1 DEF simd_srli

\* The loops over the powers below n go on until they have covered n.
LEMMA DoubledIs ==
  ASSUME NEW n \in Nat \ {0}
  PROVE  Doubled(n) \in Nat /\ 2^Doubled(n) >= n
<1> DEFINE T == {k \in 0..n : 2^k >= n}
<1>1. n \in T
  BY PowerIs
<1>2. T \subseteq Nat /\ T # {}
  BY <1>1
<1>3. Doubled(n) = Min(T)
  BY DEF Doubled
<1> HIDE DEF T
<1>4. PICK m \in T : \A k \in T : m <= k
  BY <1>2, LeastNatural
<1>5. Min(T) \in T
  <2>1. Min(T) = CHOOSE x \in T : \A y \in T : x <= y
    BY DEF Min
  <2>2. QED
    BY <1>4, <2>1
<1>6. QED
  BY <1>2, <1>3, <1>5 DEF T

-----------------------------------------------------------------------------
(* Parities.                                                                 *)

\* The functions behind loops: with the step as a function, that maps k and the value before.
Recursion(S, base, n, g, f) ==
  f \in [0..n -> S] /\ f[0] = base /\ \A k \in 1..n : f[k] = g[<<k, f[k - 1]>>]

LEMMA RecursionExists ==
  ASSUME NEW S, NEW base \in S, NEW n \in Nat, NEW g, \A k \in 1..n : \A x \in S : g[<<k, x>>] \in S
  PROVE  \E f : Recursion(S, base, n, g, f)
<1> DEFINE Good(m) == \E f \in [0..m -> S] : f[0] = base /\ \A k \in 1..m : f[k] = g[<<k, f[k - 1]>>]
           T == {m \in 0..n : ~Good(m)}
<1>1. SUFFICES ASSUME T # {} PROVE FALSE
  <2>1. SUFFICES ASSUME T = {} PROVE \E f : Recursion(S, base, n, g, f)
    OBVIOUS
  <2>2. n \in 0..n
    OBVIOUS
  <2>3. Good(n)
    BY <2>1, <2>2
  <2>4. QED
    BY <2>3 DEF Recursion
<1>2. PICK m \in T : \A k \in T : m <= k
  <2>1. T \subseteq Nat
    OBVIOUS
  <2> HIDE DEF T
  <2>2. QED
    BY <1>1, <2>1, LeastNatural
<1>3. m \in 0..n /\ ~Good(m)
  BY <1>2
<1>4. CASE m = 0
  <2> DEFINE f == [i \in 0..0 |-> base]
  <2>1. f \in [0..0 -> S] /\ f[0] = base /\ \A k \in 1..0 : FALSE
    OBVIOUS
  <2> HIDE DEF f
  <2>2. Good(0)
    BY <2>1
  <2>3. QED
    BY <1>3, <1>4, <2>2
<1>5. CASE m # 0
  <2> DEFINE j == m - 1
  <2>1. j \in 0..n /\ j + 1 = m /\ j < m /\ m \in 1..n
    BY <1>3, <1>5
  <2> HIDE DEF j
  <2>2. Good(j)
    <3>1. j \notin T
      <4> HIDE DEF T
      <4>1. ~(m <= j)
        BY <1>3, <2>1
      <4>2. QED
        BY <1>2, <4>1
    <3>2. QED
      BY <2>1, <3>1
  <2>3. PICK f \in [0..j -> S] : f[0] = base /\ \A k \in 1..j : f[k] = g[<<k, f[k - 1]>>]
    BY <2>2
  <2> DEFINE x == g[<<m, f[j]>>]
             h == [i \in 0..m |-> IF i = m THEN x ELSE f[i]]
  <2>4. j \in 0..j /\ f[j] \in S
    BY <2>1, <2>3
  <2>5. x \in S
    BY <2>1, <2>4
  <2> HIDE DEF x
  <2>6. h \in [0..m -> S] /\ h[0] = base
    BY <1>3, <1>5, <2>1, <2>3, <2>5
  <2>7. \A k \in 1..m : h[k] = g[<<k, h[k - 1]>>]
    <3>1. ASSUME NEW k \in 1..m PROVE h[k] = g[<<k, h[k - 1]>>]
      <4>1. CASE k = m
        <5>1. k \in 0..m /\ k - 1 \in 0..m /\ k - 1 # m /\ k - 1 = j
          BY <2>1, <4>1
        <5>2. h[k] = x /\ h[k - 1] = f[j]
          BY <4>1, <5>1
        <5>3. QED
          BY <4>1, <5>2 DEF x
      <4>2. CASE k # m
        <5>1. k \in 0..m /\ k - 1 \in 0..m /\ k - 1 # m /\ k \in 1..j
          BY <2>1, <4>2
        <5>2. h[k] = f[k] /\ h[k - 1] = f[k - 1]
          BY <4>2, <5>1
        <5>3. QED
          BY <2>3, <5>1, <5>2
      <4>3. QED
        BY <4>1, <4>2
    <3>2. QED
      BY <3>1
  <2> HIDE DEF h
  <2>8. Good(m)
    BY <2>6, <2>7
  <2>9. QED
    BY <1>3, <2>8
<1>6. QED
  BY <1>4, <1>5

\* The first of the s positions up to i that lie in its field.
From(i, s) == IF i - s + 1 >= Start(i) THEN i - s + 1 ELSE Start(i)

Odd(a, lo, hi) == Ones(a, lo, hi) % 2 = 1

LEMMA OddSum ==
  ASSUME NEW m \in Nat, NEW n \in Nat
  PROVE  (m + n) % 2 = 1 <=> ~((m % 2 = 1) <=> (n % 2 = 1))
OBVIOUS

\* A step doubles the positions that have been counted.
LEMMA ParityStep ==
  ASSUME NEW mk, NEW x, NEW s \in Nat \ {0}, NEW i \in 0..W - 1, Sized,
         \A j \in 0..W - 1 : j \in x <=> Odd(mk, From(j, s), j)
  PROVE  i \in Xor(x, simd_slli(F, x, s)) <=> Odd(mk, From(i, 2 * s), i)
<1> DEFINE up == simd_slli(F, x, s)
           lo == Start(i)
<1>1. i \in Xor(x, up) <=> ~(i \in x <=> i \in up)
  BY DEF Xor
<1>2. i \in up <=> i - lo >= s /\ i - s \in x
  BY UpIs
<1> HIDE DEF up
<1>3. lo \in 0..i /\ i \in Nat /\ W \in Nat
  BY StartIs, SizedIs
<1>4. i \in x <=> Odd(mk, From(i, s), i)
  OBVIOUS
<1>5. CASE i - lo >= s
  <2> DEFINE j == i - s
             a == i - s + 1
             b == IF j - s + 1 >= lo THEN j - s + 1 ELSE lo
  <2>1. j \in Int /\ lo <= j /\ j < lo + F
    <3>1. i - lo \in 0..F - 1 /\ F \in Nat
      BY StartIs, SizedIs
    <3>2. QED
      BY <1>3, <1>5, <3>1
  <2>2. j \in 0..W - 1 /\ Start(j) = lo
    BY <2>1, SameField DEF lo
  <2>3. From(j, s) = b
    BY <2>2 DEF From
  <2>4. From(i, s) = a
    BY <1>3, <1>5 DEF From
  <2>5. From(i, 2 * s) = b
    <3>1. j - s + 1 = i - 2 * s + 1
      BY <1>3
    <3>2. QED
      BY <3>1 DEF From, lo
  <2>6. a \in Int /\ b \in Int /\ b <= j + 1 /\ j <= i /\ a = j + 1
    BY <1>3, <2>1
  <2> HIDE DEF a, b, lo, j
  <2>7. Ones(mk, b, i) = Ones(mk, b, j) + Ones(mk, a, i)
    BY <1>3, <2>1, <2>6, OnesSplit
  <2>8. Ones(mk, b, j) \in Nat /\ Ones(mk, a, i) \in Nat
    BY <1>3, <2>1, <2>6, OnesNat
  <2>9. Odd(mk, b, i) <=> ~(Odd(mk, b, j) <=> Odd(mk, a, i))
    BY <2>7, <2>8, OddSum DEF Odd
  <2>10. i - s \in x <=> Odd(mk, b, j)
    BY <2>2, <2>3 DEF j
  <2>11. QED
    BY <1>1, <1>2, <1>4, <1>5, <2>4, <2>5, <2>9, <2>10 DEF up
<1>6. CASE ~(i - lo >= s)
  <2>1. From(i, s) = lo /\ From(i, 2 * s) = lo
    <3>1. From(i, s) = lo
      BY <1>3, <1>6 DEF From
    <3>2. i - 2 * s + 1 <= lo /\ i - 2 * s + 1 \in Int
      BY <1>3, <1>6
    <3>3. QED
      BY <1>3, <3>1, <3>2 DEF From
  <2>2. QED
    BY <1>1, <1>2, <1>4, <1>6, <2>1 DEF up
<1>7. QED
  BY <1>5, <1>6

PrefixFunction(mk, mp) ==
  mp = [k \in 0..Doubled(F) |->
          IF k = 0 THEN mk ELSE Xor(mp[k - 1], simd_slli(F, mp[k - 1], 2^(k - 1)))]

LEMMA PrefixExists ==
  ASSUME NEW mk, mk \subseteq 0..W - 1, Sized
  PROVE  \E mp : PrefixFunction(mk, mp)
<1> DEFINE S == SUBSET (0..W - 1)
           n == Doubled(F)
           Step(k, x) == Xor(x, simd_slli(F, x, 2^(k - 1)))
           g == [y \in (1..n) \X S |-> Step(y[1], y[2])]
<1>1. n \in Nat
  BY SizedIs, DoubledIs
<1>2. \A k, x : x \in S => Step(k, x) \in S
  BY DEF Xor, simd_slli
<1> HIDE DEF S, n, Step
<1>3. \A k \in 1..n : \A x \in S : g[<<k, x>>] = Step(k, x) /\ g[<<k, x>>] \in S
  BY <1>2
<1>4. mk \in S
  BY DEF S
<1> HIDE DEF g
<1>5. PICK f : f \in [0..n -> S] /\ f[0] = mk /\ \A k \in 1..n : f[k] = g[<<k, f[k - 1]>>]
  <2>1. \E f : Recursion(S, mk, n, g, f)
    BY <1>1, <1>3, <1>4, RecursionExists
  <2>2. QED
    BY <2>1 DEF Recursion
<1>6. \A k \in 0..n : f[k] = IF k = 0 THEN mk ELSE Step(k, f[k - 1])
  <2>1. ASSUME NEW k \in 0..n, k # 0 PROVE f[k] = Step(k, f[k - 1])
    <3>1. k \in 1..n /\ k - 1 \in 0..n
      BY <1>1, <2>1
    <3>2. f[k - 1] \in S
      BY <1>5, <3>1
    <3>3. QED
      BY <1>3, <1>5, <3>1, <3>2
  <2>2. QED
    BY <1>5, <2>1
<1>7. f = [k \in 0..n |-> IF k = 0 THEN mk ELSE Step(k, f[k - 1])]
  BY <1>5, <1>6
<1>8. PrefixFunction(mk, f)
  BY <1>7 DEF PrefixFunction, Step, n
<1>9. QED
  BY <1>8

LEMMA ParityIs ==
  ASSUME NEW mk, mk \subseteq 0..W - 1, Sized
  PROVE  parity(mk) = {i \in 0..W - 1 : Odd(mk, Start(i), i)}
<1> DEFINE mp == CHOOSE f : PrefixFunction(mk, f)
           n == Doubled(F)
           Good(k) == mp[k] = {i \in 0..W - 1 : Odd(mk, From(i, 2^k), i)}
           T == {k \in 0..n : ~Good(k)}
<1>1. parity(mk) = mp[n]
  BY DEF parity, PrefixFunction
<1>2. PrefixFunction(mk, mp)
  BY PrefixExists
<1> HIDE DEF mp
<1>3. n \in Nat /\ 2^n >= F /\ F \in Nat \ {0} /\ W \in Nat
  BY SizedIs, DoubledIs
<1>4. \A k \in 0..n : mp[k] = IF k = 0 THEN mk ELSE Xor(mp[k - 1], simd_slli(F, mp[k - 1], 2^(k - 1)))
  BY <1>2 DEF PrefixFunction
<1> HIDE DEF n
<1>5. \A k \in 0..n : Good(k)
  <2>1. SUFFICES ASSUME T # {} PROVE FALSE
    OBVIOUS
  <2>2. PICK k \in T : \A j \in T : k <= j
    <3>1. T \subseteq Nat
      OBVIOUS
    <3> HIDE DEF T
    <3>2. QED
      BY <2>1, <3>1, LeastNatural
  <2>3. k \in 0..n /\ ~Good(k)
    BY <2>2
  <2>4. CASE k = 0
    <3>1. 2^k = 1 /\ mp[k] = mk
      BY <1>4, <2>3, <2>4, PowerZero
    <3>2. ASSUME NEW i \in 0..W - 1 PROVE i \in mk <=> Odd(mk, From(i, 2^k), i)
      <4>1. Start(i) <= i /\ Start(i) \in Int /\ i \in Int /\ i - 1 + 1 = i
        BY StartIs
      <4>2. From(i, 2^k) = i
        BY <3>1, <4>1 DEF From
      <4>3. Ones(mk, i, i) = Bit(i \in mk)
        BY <4>1, OnesOne
      <4>4. QED
        BY <4>2, <4>3 DEF Odd, Bit
    <3>3. Good(k)
      BY <3>1, <3>2
    <3>4. QED
      BY <2>3, <3>3
  <2>5. CASE k # 0
    <3> DEFINE j == k - 1
               s == 2^j
    <3>1. j \in 0..n /\ j \in Nat /\ j + 1 = k /\ j < k
      BY <1>3, <2>3, <2>5
    <3>2. s \in Nat \ {0} /\ 2^k = 2 * s
      BY <3>1, PowerIs, PowerDoubles
    <3>3. mp[k] = Xor(mp[j], simd_slli(F, mp[j], s))
      BY <1>4, <2>3, <2>5
    <3> HIDE DEF j
    <3>4. Good(j)
      <4>1. j \notin T
        <5> HIDE DEF T
        <5>1. ~(k <= j)
          BY <2>3, <3>1
        <5>2. QED
          BY <2>2, <5>1
      <4>2. QED
        BY <3>1, <4>1
    <3> HIDE DEF s
    <3>5. \A i \in 0..W - 1 : i \in mp[j] <=> Odd(mk, From(i, s), i)
      BY <3>4 DEF s
    <3>6. \A i \in 0..W - 1 : i \in mp[k] <=> Odd(mk, From(i, 2 * s), i)
      BY <3>2, <3>3, <3>5, ParityStep
    <3>7. mp[k] \subseteq 0..W - 1
      BY <3>3, <3>4 DEF Xor, simd_slli
    <3>8. Good(k)
      BY <3>2, <3>6, <3>7
    <3>9. QED
      BY <2>3, <3>8
  <2>6. QED
    BY <2>4, <2>5
<1>6. ASSUME NEW i \in 0..W - 1 PROVE From(i, 2^n) = Start(i)
  <2> DEFINE p == 2^n
  <2>1. p \in Nat /\ p >= F /\ i - Start(i) \in 0..F - 1 /\ Start(i) \in Nat
    BY <1>3, PowerIs, StartIs
  <2> HIDE DEF p
  <2>2. From(i, p) = Start(i)
    BY <1>3, <2>1 DEF From
  <2>3. QED
    BY <2>2 DEF p
<1>7. n \in 0..n
  BY <1>3
<1>8. mp[n] = {i \in 0..W - 1 : Odd(mk, From(i, 2^n), i)}
  BY <1>5, <1>7
<1>9. QED
  BY <1>1, <1>6, <1>8

-----------------------------------------------------------------------------
(* The marks: half of them are left for the next power.                      *)

LEMMA OnesMost ==
  ASSUME NEW a, NEW lo \in Int, NEW hi \in Int, lo <= hi + 1
  PROVE  Ones(a, lo, hi) <= hi - lo + 1
BY OnesAre

LEMMA OnesNone ==
  ASSUME NEW a, NEW lo \in Int, NEW hi \in Int, hi < lo
  PROVE  Ones(a, lo, hi) = 0
BY OnesAre

LEMMA Halving ==
  ASSUME NEW d \in Nat, NEW p \in Nat \ {0}
  PROVE  /\ d \div p \in Nat /\ d % p \in 0..p - 1 /\ d = p * (d \div p) + (d % p)
         /\ (d \div p) \div 2 = d \div (2 * p)
         /\ d % (2 * p) = (d % p) + (IF (d \div p) % 2 = 1 THEN p ELSE 0)
<1> DEFINE r == d % p
           q == d \div p
           h == q \div 2
           p2 == 2 * p
<1>1. r \in 0..p - 1 /\ \E x \in Int : d = p * x + r
  <2>1. d \in Int
    OBVIOUS
  <2>2. \A a \in Int : a % p \in 0..p - 1 /\ \E x \in Int : a = p * x + (a % p)
    BY DivisionIs
  <2>3. QED
    BY <2>1, <2>2
<1> HIDE DEF r
<1>2. PICK x \in Int : d = p * x + r
  BY <1>1
<1>3. q = x
  BY <1>1, <1>2, QuotientIs
<1>4. x >= 0
  <2>1. SUFFICES ASSUME x <= -1 PROVE FALSE
    OBVIOUS
  <2>2. p * x <= -p
    BY <2>1
  <2>3. QED
    BY <1>1, <1>2, <2>2
<1>5. q \in Nat
  BY <1>3, <1>4
<1>6. d = p * q + r
  BY <1>2, <1>3
<1> HIDE DEF q
<1>7. h \in Nat /\ (q = 2 * h \/ q = 2 * h + 1) /\ (q % 2 = 1 <=> q = 2 * h + 1)
  BY <1>5
<1> HIDE DEF h
<1>8. p2 \in Nat \ {0} /\ p2 = 2 * p
  OBVIOUS
<1>9. CASE q = 2 * h
  <2>1. d = p2 * h + r
    <3>1. p * (2 * h) = p2 * h
      BY <1>7
    <3>2. QED
      BY <1>6, <1>9, <3>1
  <2> HIDE DEF p2
  <2>2. r \in 0..p2 - 1
    BY <1>1, <1>8
  <2>3. d % p2 = r /\ d \div p2 = h
    <3>1. p2 \in Nat \ {0} /\ h \in Int /\ r \in 0..p2 - 1 /\ d \in Int /\ d = p2 * h + r
      BY <1>7, <1>8, <2>1, <2>2
    <3>2. QED
      BY <3>1, QuotientIs
  <2>4. ~(q % 2 = 1)
    BY <1>7, <1>9
  <2>5. QED
    BY <1>1, <1>5, <1>6, <2>3, <2>4 DEF p2, r, q, h
<1>10. CASE q = 2 * h + 1
  <2> DEFINE s == r + p
  <2>1. d = p2 * h + s
    <3>1. p * (2 * h + 1) = p2 * h + p
      BY <1>7
    <3>2. QED
      BY <1>1, <1>6, <1>7, <1>10, <3>1
  <2>2. s \in 0..p2 - 1
    BY <1>1, <1>8
  <2> HIDE DEF p2, s
  <2>3. d % p2 = s /\ d \div p2 = h
    <3>1. p2 \in Nat \ {0} /\ h \in Int /\ s \in 0..p2 - 1 /\ d \in Int /\ d = p2 * h + s
      BY <1>7, <1>8, <2>1, <2>2
    <3>2. QED
      BY <3>1, QuotientIs
  <2>4. q % 2 = 1
    BY <1>7, <1>10
  <2>5. QED
    BY <1>1, <1>5, <1>6, <2>3, <2>4 DEF p2, r, q, h, s
<1>11. QED
  BY <1>7, <1>9, <1>10

\* The deletions before a position in its field.
Dels(del, i) == Ones(del, Start(i), i - 1)

LEMMA DelsAre ==
  ASSUME NEW del, NEW i \in 0..W - 1, Sized
  PROVE  Dels(del, i) \in 0..i - Start(i)
<1>1. Start(i) \in 0..i /\ i \in Int
  BY StartIs
<1>2. Ones(del, Start(i), i - 1) \in Nat /\ Ones(del, Start(i), i - 1) <= i - 1 - Start(i) + 1
  <2>1. Start(i) \in Int /\ i - 1 \in Int /\ Start(i) <= i - 1 + 1
    BY <1>1
  <2>2. QED
    BY <2>1, OnesNat, OnesMost
<1>3. QED
  BY <1>1, <1>2 DEF Dels

\* Deletions between two positions are deletions before the later one only.
LEMMA DelsGrow ==
  ASSUME NEW del, NEW i \in 0..W - 1, NEW j \in Int, Sized, Start(i) <= j, j <= i
  PROVE  /\ Dels(del, i) - Dels(del, j) \in 0..i - j
         /\ j < i /\ j \notin del => Dels(del, i) - Dels(del, j) <= i - j - 1
<1> DEFINE lo == Start(i)
<1>1. lo \in Int /\ i \in Int /\ lo <= i /\ j < lo + F /\ F \in Nat /\ i - lo \in 0..F - 1
  BY StartIs, SizedIs
<1>2. j \in 0..W - 1 /\ Start(j) = lo
  BY <1>1, SameField
<1> HIDE DEF lo
<1>3. Ones(del, lo, i - 1) = Ones(del, lo, j - 1) + Ones(del, j, i - 1)
  <2> DEFINE m == j - 1
  <2>1. m \in Int /\ m + 1 = j /\ lo <= m + 1 /\ m <= i - 1
    BY <1>1, <1>2 DEF lo
  <2> HIDE DEF m
  <2>2. Ones(del, lo, i - 1) = Ones(del, lo, m) + Ones(del, m + 1, i - 1)
    BY <1>1, <2>1, OnesSplit
  <2>3. QED
    BY <2>1, <2>2 DEF m
<1>4. Ones(del, lo, j - 1) \in Nat
  BY <1>1, OnesNat
<1>5. Ones(del, j, i - 1) \in Nat /\ Ones(del, j, i - 1) <= i - j
  <2>1. j <= i - 1 + 1 /\ i - 1 \in Int
    BY <1>1
  <2>2. Ones(del, j, i - 1) \in Nat /\ Ones(del, j, i - 1) <= i - 1 - j + 1
    BY <2>1, OnesNat, OnesMost
  <2>3. QED
    BY <1>1, <2>2
<1>6. ASSUME j < i, j \notin del PROVE Ones(del, j, i - 1) <= i - j - 1
  <2>1. Ones(del, j, i - 1) = Ones(del, j, j) + Ones(del, j + 1, i - 1)
    <3>1. j <= j + 1 /\ j <= i - 1 /\ i - 1 \in Int
      BY <1>1, <1>6
    <3>2. QED
      BY <3>1, OnesSplit
  <2>2. Ones(del, j, j) = 0
    BY <1>6, OnesOne DEF Bit
  <2>3. Ones(del, j + 1, i - 1) \in Nat /\ Ones(del, j + 1, i - 1) <= i - 1 - (j + 1) + 1
    <3>1. j + 1 \in Int /\ i - 1 \in Int /\ j + 1 <= i - 1 + 1
      BY <1>1, <1>6
    <3>2. QED
      BY <3>1, OnesNat, OnesMost
  <2>4. QED
    BY <1>1, <2>1, <2>2, <2>3
<1>7. Dels(del, i) = Ones(del, lo, i - 1) /\ Dels(del, j) = Ones(del, lo, j - 1)
  BY <1>2 DEF Dels, lo
<1>8. QED
  BY <1>1, <1>3, <1>4, <1>5, <1>6, <1>7

Marks(del, k, mk) ==
  /\ mk \subseteq 0..W - 1
  /\ \A i \in 0..W - 1 : Ones(mk, Start(i), i) = Dels(del, i) \div 2^k

LEMMA MarksFirst ==
  ASSUME NEW del, Sized
  PROVE  Marks(del, 0, simd_slli(F, del, 1))
<1> DEFINE mk == simd_slli(F, del, 1)
<1>1. mk \subseteq 0..W - 1
  BY DEF simd_slli
<1>2. \A x \in 0..W - 1 : x \in mk <=> x - Start(x) >= 1 /\ x - 1 \in del
  BY UpIs
<1> HIDE DEF mk
<1>3. ASSUME NEW i \in 0..W - 1 PROVE Ones(mk, Start(i), i) = Dels(del, i)
  <2> DEFINE lo == Start(i)
             b == lo + 1
             top == i - 1
  <2>1. lo \in Int /\ i \in Int /\ lo <= i /\ i - lo \in 0..F - 1 /\ F \in Nat
    BY StartIs, SizedIs
  <2>2. \A x \in lo..i : x \in 0..W - 1 /\ Start(x) = lo
    BY <2>1, SameField
  <2> HIDE DEF lo
  <2>3. lo \notin mk
    BY <1>2, <2>1, <2>2
  <2>4. Ones(mk, lo, i) = Ones(mk, lo, lo) + Ones(mk, b, i)
    BY <2>1, OnesSplit
  <2>5. Ones(mk, lo, lo) = 0
    BY <2>1, <2>3, OnesOne DEF Bit
  <2>6. \A x \in b..i : x \in mk <=> x + -1 \in del
    <3>1. ASSUME NEW x \in b..i PROVE x \in mk <=> x + -1 \in del
      <4>1. x \in lo..i /\ x - lo >= 1 /\ x - 1 = x + -1
        BY <2>1
      <4>2. QED
        BY <1>2, <2>2, <4>1
    <3>2. QED
      BY <3>1
  <2>7. Ones(mk, b, i) = Ones(del, b + -1, i + -1)
    <3>1. b \in Int /\ -1 \in Int
      BY <2>1
    <3> HIDE DEF b
    <3>2. QED
      BY <2>1, <2>6, <3>1, OnesMoved
  <2>8. b + -1 = lo /\ i + -1 = top
    BY <2>1
  <2>9. Ones(del, lo, top) \in Nat
    BY <2>1, OnesNat
  <2>10. QED
    BY <2>4, <2>5, <2>7, <2>8, <2>9 DEF Dels, lo
<1>4. ASSUME NEW i \in 0..W - 1 PROVE Dels(del, i) \div 2^0 = Dels(del, i)
  <2>1. Dels(del, i) \in Nat
    BY StartIs, DelsAre
  <2>2. Dels(del, i) \div 1 = Dels(del, i)
    BY <2>1
  <2>3. QED
    BY <2>2, PowerZero
<1>5. QED
  BY <1>1, <1>3, <1>4 DEF Marks, mk

\* Every second mark is kept.
LEMMA SecondMarks ==
  ASSUME NEW mk, mk \subseteq 0..W - 1, Sized, NEW i \in 0..W - 1
  PROVE  Ones(mk \ parity(mk), Start(i), i) = Ones(mk, Start(i), i) \div 2
<1> DEFINE lo == Start(i)
           rest == mk \ parity(mk)
           Good(j) == Ones(rest, lo, j) = Ones(mk, lo, j) \div 2
           T == {j \in lo..i : ~Good(j)}
<1>1. lo \in Nat /\ i \in Nat /\ lo <= i /\ i - lo \in 0..F - 1 /\ F \in Nat
  BY StartIs, SizedIs
<1>2. \A x \in lo..i : x \in 0..W - 1 /\ Start(x) = lo
  BY <1>1, SameField
<1>3. \A x \in lo..i : x \in rest <=> x \in mk /\ ~(Ones(mk, lo, x) % 2 = 1)
  BY <1>2, ParityIs DEF Odd
<1> HIDE DEF rest, lo
<1>4. SUFFICES ASSUME T # {} PROVE FALSE
  <2>1. SUFFICES ASSUME T = {} PROVE Good(i)
    BY DEF lo, rest
  <2>2. i \in lo..i
    BY <1>1
  <2>3. QED
    BY <2>1, <2>2
<1>5. PICK j \in T : \A x \in T : j <= x
  <2>1. T \subseteq Nat
    BY <1>1
  <2> HIDE DEF T
  <2>2. QED
    BY <1>4, <2>1, LeastNatural
<1>6. j \in lo..i /\ ~Good(j) /\ j \in Nat
  BY <1>1, <1>5
<1> DEFINE h == j - 1
           n == Ones(mk, lo, h)
<1>7. h \in Int /\ h + 1 = j /\ lo <= h + 1
  BY <1>6, <1>1
<1> HIDE DEF h
<1>8. Ones(mk, lo, j) = n + Bit(j \in mk) /\ Ones(rest, lo, j) = Ones(rest, lo, h) + Bit(j \in rest)
  BY <1>1, <1>7, OnesNext
<1>9. n \in Nat
  BY <1>1, <1>7, OnesNat
<1>10. Ones(rest, lo, h) = n \div 2
  <2>1. CASE j = lo
    <3>1. h < lo
      BY <1>1, <1>6, <1>7, <2>1
    <3>2. Ones(rest, lo, h) = 0 /\ n = 0
      <4>1. lo \in Int
        BY <1>1
      <4>2. QED
        BY <1>7, <3>1, <4>1, OnesNone
    <3>3. QED
      BY <3>2
  <2>2. CASE j # lo
    <3>1. h \in lo..i /\ ~(j <= h)
      BY <1>1, <1>6, <1>7, <2>2
    <3>2. h \notin T
      <4> HIDE DEF T
      <4>1. QED
        BY <1>5, <3>1
    <3>3. Good(h)
      BY <3>1, <3>2
    <3>4. QED
      BY <3>3
  <2>3. QED
    BY <2>1, <2>2
<1>11. j \in rest <=> j \in mk /\ ~((n + Bit(j \in mk)) % 2 = 1)
  BY <1>3, <1>6, <1>8
<1> HIDE DEF n
<1> DEFINE on == j \in mk
           kept == j \in rest
<1>12. kept <=> on /\ ~((n + Bit(on)) % 2 = 1)
  BY <1>11
<1>13. Ones(mk, lo, j) = n + Bit(on) /\ Ones(rest, lo, j) = (n \div 2) + Bit(kept)
  BY <1>8, <1>10
<1> HIDE DEF on, kept
<1>14. (n \div 2) + Bit(kept) = (n + Bit(on)) \div 2
  BY <1>9, <1>12 DEF Bit
<1>15. QED
  BY <1>6, <1>13, <1>14

LEMMA MarksHalved ==
  ASSUME NEW del, NEW k \in Nat, NEW mk, Marks(del, k, mk), Sized
  PROVE  Marks(del, k + 1, mk \ parity(mk))
<1>1. mk \subseteq 0..W - 1
  BY DEF Marks
<1>2. ASSUME NEW i \in 0..W - 1
      PROVE  Ones(mk \ parity(mk), Start(i), i) = Dels(del, i) \div 2^(k + 1)
  <2> DEFINE p == 2^k
             d == Dels(del, i)
  <2>1. p \in Nat \ {0} /\ 2^(k + 1) = 2 * p
    BY PowerIs, PowerDoubles
  <2>2. d \in Nat
    BY StartIs, DelsAre
  <2>3. Ones(mk, Start(i), i) = d \div p
    BY DEF Marks
  <2>4. Ones(mk \ parity(mk), Start(i), i) = Ones(mk, Start(i), i) \div 2
    BY <1>1, SecondMarks
  <2> HIDE DEF p, d
  <2>5. (d \div p) \div 2 = d \div (2 * p)
    BY <2>1, <2>2, Halving
  <2>6. QED
    BY <2>1, <2>3, <2>4, <2>5 DEF d
<1>3. QED
  BY <1>1, <1>2 DEF Marks

-----------------------------------------------------------------------------
(* The moves.                                                                *)

\* Where the moves by powers below 2^k take a position.
Target(del, k, i) == i - (Dels(del, i) % 2^k)
Targets(del, k, S) == {Target(del, k, i) : i \in S}

Turn(del, k, i) == (Dels(del, i) \div 2^k) % 2 = 1

TargetHas(del, k, i) ==
  /\ Target(del, k, i) \in 0..W - 1 /\ Start(i) <= Target(del, k, i) /\ Target(del, k, i) <= i
  /\ Start(Target(del, k, i)) = Start(i)
  /\ Dels(del, Target(del, k, i)) \div 2^k = Dels(del, i) \div 2^k
  /\ Target(del, k + 1, i) = Target(del, k, i) - (IF Turn(del, k, i) THEN 2^k ELSE 0)
  /\ Start(i) <= Target(del, k + 1, i)

LEMMA TargetIs ==
  ASSUME NEW del, NEW k \in Nat, NEW i \in 0..W - 1, Sized
  PROVE  TargetHas(del, k, i)
<1> DEFINE p == 2^k
           lo == Start(i)
           d == Dels(del, i)
           r == d % p
           q == d \div p
           to == i - r
           e == Dels(del, to)
<1>1. p \in Nat \ {0} /\ 2^(k + 1) = 2 * p
  BY PowerIs, PowerDoubles
<1>2. lo \in Nat /\ i \in Nat /\ i - lo \in 0..F - 1 /\ F \in Nat /\ lo <= i
  BY StartIs, SizedIs
<1>3. d \in 0..i - lo
  BY DelsAre
<1> HIDE DEF p, d
<1>20. d \in Nat
  BY <1>2, <1>3
<1>4. q \in Nat /\ r \in 0..p - 1 /\ d = p * q + r
  BY <1>1, <1>20, Halving
<1>5. d % (2 * p) = r + (IF q % 2 = 1 THEN p ELSE 0)
  BY <1>1, <1>20, Halving
<1>6. r <= d
  <2>1. p * q >= 0
    BY <1>1, <1>4
  <2> DEFINE u == p * q
  <2> HIDE DEF q, r, u
  <2>2. u >= 0 /\ u \in Int /\ d = u + r
    BY <1>1, <1>4, <2>1 DEF u
  <2>3. QED
    BY <1>3, <1>4, <2>2
<1> HIDE DEF q, r
<1>7. to \in Int /\ lo <= to /\ to <= i /\ i - to = r
  BY <1>2, <1>3, <1>4, <1>6
<1>8. to \in 0..W - 1 /\ Start(to) = lo
  <2>1. to < lo + F
    BY <1>2, <1>7
  <2> HIDE DEF to
  <2>2. QED
    BY <1>7, <2>1, SameField DEF lo
<1> HIDE DEF to
<1>9. d - e \in 0..r
  BY <1>7, DelsGrow DEF d, lo
<1>10. e \in 0..to - lo
  BY <1>8, DelsAre
<1> HIDE DEF e, lo
<1>11. e \div p = q
  <2> DEFINE x == r - (d - e)
  <2>1. x \in 0..p - 1
    <3> DEFINE y == d - e
    <3>1. y \in 0..r /\ r \in 0..p - 1 /\ p \in Nat
      BY <1>1, <1>4, <1>9
    <3> HIDE DEF y, r
    <3>2. r - y \in 0..p - 1
      BY <3>1
    <3>3. QED
      BY <3>2 DEF y
  <2>2. e = p * q + x
    <3> DEFINE u == p * q
    <3>1. u \in Int
      BY <1>1, <1>4
    <3> HIDE DEF u
    <3>2. e = u + x
      BY <1>2, <1>3, <1>4, <1>7, <1>10, <3>1 DEF u
    <3>3. QED
      BY <3>2 DEF u
  <2> HIDE DEF x
  <2>3. e \in Int /\ q \in Int
    BY <1>2, <1>4, <1>7, <1>10
  <2>4. QED
    BY <1>1, <2>1, <2>2, <2>3, QuotientIs
<1>12. Target(del, k, i) = to
  BY DEF Target, to, r, d, p
<1>13. Turn(del, k, i) <=> q % 2 = 1
  BY DEF Turn, q, d, p
<1>14. Target(del, k + 1, i) = i - (d % (2 * p))
  BY <1>1 DEF Target, d
<1>15. Target(del, k + 1, i) = to - (IF q % 2 = 1 THEN p ELSE 0)
  BY <1>1, <1>2, <1>4, <1>5, <1>14 DEF to
<1>16. lo <= Target(del, k + 1, i)
  <2> DEFINE s == d % (2 * p)
             p2 == 2 * p
  <2>1. p2 \in Nat \ {0}
    BY <1>1
  <2>2. s <= d
    <3>1. d \div p2 \in Nat /\ s \in 0..p2 - 1 /\ d = p2 * (d \div p2) + s
      <4> HIDE DEF p2
      <4>1. d \div p2 \in Nat /\ d % p2 \in 0..p2 - 1 /\ d = p2 * (d \div p2) + (d % p2)
        BY <1>20, <2>1, Halving
      <4>2. QED
        BY <4>1 DEF p2
    <3> DEFINE x == d \div p2
               u == p2 * x
    <3> HIDE DEF p2, x, s
    <3>2. u >= 0 /\ u \in Int
      BY <2>1, <3>1 DEF x
    <3>3. d = u + s
      BY <3>1 DEF x
    <3> HIDE DEF u
    <3>4. QED
      BY <1>3, <2>1, <3>1, <3>2, <3>3
  <2>3. s \in Int
    BY <1>1, <1>3
  <2> HIDE DEF s
  <2>4. Target(del, k + 1, i) = i - s
    BY <1>14 DEF s
  <2>5. QED
    BY <1>2, <1>3, <2>2, <2>3, <2>4
<1>17. Dels(del, to) \div 2^k = Dels(del, i) \div 2^k
  BY <1>11 DEF e, p, q, d
<1>18. lo = Start(i) /\ p = 2^k
  BY DEF lo, p
<1>19. QED
  BY <1>7, <1>8, <1>12, <1>13, <1>15, <1>16, <1>17, <1>18 DEF TargetHas

\* The marks that are left tell which positions move next, from where they now are.
LEMMA TargetMarked ==
  ASSUME NEW del, NEW k \in Nat, NEW i \in 0..W - 1, NEW mk, Sized, Marks(del, k, mk)
  PROVE  Target(del, k, i) \in parity(mk) <=> Turn(del, k, i)
<1> DEFINE to == Target(del, k, i)
<1>1. to \in 0..W - 1 /\ Dels(del, to) \div 2^k = Dels(del, i) \div 2^k
  BY TargetIs DEF TargetHas
<1>2. mk \subseteq 0..W - 1 /\ \A j \in 0..W - 1 : Ones(mk, Start(j), j) = Dels(del, j) \div 2^k
  BY DEF Marks
<1> HIDE DEF to
<1>3. to \in parity(mk) <=> Ones(mk, Start(to), to) % 2 = 1
  BY <1>1, <1>2, ParityIs DEF Odd
<1>4. QED
  BY <1>1, <1>2, <1>3 DEF to, Turn

LEMMA MoveStep ==
  ASSUME NEW del, NEW k \in Nat, NEW S, NEW mk, Sized, S \subseteq 0..W - 1, Marks(del, k, mk)
  PROVE  Xor(Targets(del, k, S), Targets(del, k, S) \intersect parity(mk))
           \union simd_srli(F, Targets(del, k, S) \intersect parity(mk), 2^k)
           = Targets(del, k + 1, S)
<1> DEFINE a == Targets(del, k, S)
           t == a \intersect parity(mk)
           s == 2^k
           down == simd_srli(F, t, s)
           b == Targets(del, k + 1, S)
<1>1. \A i \in S : TargetHas(del, k, i) /\ (Target(del, k, i) \in parity(mk) <=> Turn(del, k, i))
  BY TargetIs, TargetMarked
<1>2. s \in Nat \ {0}
  BY PowerIs
<1>3. Xor(a, t) = a \ parity(mk)
  BY DEF Xor
<1>4. \A x \in 0..W - 1 : x \in down <=> x - Start(x) + s < F /\ x + s \in t
  BY <1>2, DownIs
<1>5. down \subseteq 0..W - 1
  BY DEF simd_srli
<1>6. \A x : x \in a <=> \E i \in S : x = Target(del, k, i)
  BY DEF Targets
<1>7. \A x : x \in b <=> \E i \in S : x = Target(del, k + 1, i)
  BY DEF Targets
<1> HIDE DEF a, b, down, s
<1>8. ASSUME NEW x, x \in a \ parity(mk) PROVE x \in b
  <2>1. PICK i \in S : x = Target(del, k, i)
    BY <1>6, <1>8
  <2>2. Target(del, k + 1, i) = Target(del, k, i) - 0
    BY <1>1, <1>8, <2>1 DEF TargetHas
  <2>3. Target(del, k, i) \in Int
    BY <1>1 DEF TargetHas
  <2>4. QED
    BY <1>7, <2>1, <2>2, <2>3
<1>9. ASSUME NEW x, x \in down PROVE x \in b
  <2>1. x \in 0..W - 1 /\ x + s \in t
    BY <1>4, <1>5, <1>9
  <2>2. PICK i \in S : x + s = Target(del, k, i)
    BY <1>6, <2>1
  <2>3. Target(del, k + 1, i) = Target(del, k, i) - s
    BY <1>1, <2>1, <2>2 DEF TargetHas, s
  <2>4. x = Target(del, k + 1, i)
    BY <1>2, <2>1, <2>2, <2>3
  <2>5. QED
    BY <1>7, <2>4
<1>10. ASSUME NEW x, x \in b PROVE x \in (a \ parity(mk)) \union down
  <2>1. PICK i \in S : x = Target(del, k + 1, i)
    BY <1>7, <1>10
  <2> DEFINE to == Target(del, k, i)
  <2>2. to \in 0..W - 1 /\ to \in a /\ Start(to) = Start(i) /\ Start(i) <= x
    BY <1>1, <1>6, <2>1 DEF TargetHas
  <2>3. x = to - (IF Turn(del, k, i) THEN s ELSE 0)
    BY <1>1, <2>1 DEF TargetHas, s
  <2>4. to \in parity(mk) <=> Turn(del, k, i)
    BY <1>1
  <2>5. Start(to) \in 0..to /\ to - Start(to) \in 0..F - 1
    BY <2>2, StartIs
  <2> HIDE DEF to
  <2>6. CASE Turn(del, k, i)
    <3>1. x = to - s /\ x \in Int /\ x + s = to
      BY <1>2, <2>2, <2>3, <2>6
    <3>2. F \in Nat
      BY SizedIs
    <3>3. Start(to) <= x /\ x < Start(to) + F
      BY <1>2, <2>2, <2>5, <3>1, <3>2
    <3>4. x \in 0..W - 1 /\ Start(x) = Start(to)
      BY <2>2, <3>1, <3>3, SameField
    <3>5. x - Start(x) + s < F
      BY <1>2, <2>2, <2>5, <3>1, <3>2, <3>4
    <3>6. x + s \in t
      BY <2>2, <2>4, <2>6, <3>1
    <3>7. QED
      BY <1>4, <3>4, <3>5, <3>6
  <2>7. CASE ~Turn(del, k, i)
    <3>1. x = to
      BY <2>2, <2>3, <2>7
    <3>2. QED
      BY <2>2, <2>4, <2>7, <3>1
  <2>8. QED
    BY <2>6, <2>7
<1>11. (a \ parity(mk)) \union down = b
  BY <1>8, <1>9, <1>10
<1>12. QED
  BY <1>3, <1>11 DEF a, b, down, s

-----------------------------------------------------------------------------
(* The masks of the moves, and their application.                            *)

MaskStep(k, before) ==
  LET mp == parity(before.mk)
      mv == mp \intersect before.m
  IN  [m |-> Xor(before.m, mv) \union simd_srli(F, mv, 2^(k - 1)),
       mk |-> before.mk \ mp,
       mv |-> mv]

MaskFunction(del, move) ==
  move = [k \in 0..Doubled(F) |->
            IF k = 0 THEN [m |-> Not(del), mk |-> simd_slli(F, del, 1), mv |-> {}]
            ELSE MaskStep(k, move[k - 1])]

MaskRecords == [m : SUBSET (0..W - 1), mk : SUBSET (0..W - 1), mv : SUBSET (0..W - 1)]

LEMMA MaskFunctionExists ==
  ASSUME NEW del, Sized
  PROVE  \E move : MaskFunction(del, move)
<1> DEFINE S == MaskRecords
           n == Doubled(F)
           base == [m |-> Not(del), mk |-> simd_slli(F, del, 1), mv |-> {}]
           g == [y \in (1..n) \X S |-> MaskStep(y[1], y[2])]
<1>1. n \in Nat
  BY SizedIs, DoubledIs
<1>2. \A k, x : x \in S => MaskStep(k, x) \in S
  <2>1. ASSUME NEW k, NEW x \in S PROVE MaskStep(k, x) \in S
    <3> DEFINE mp == parity(x.mk)
               mv == mp \intersect x.m
               m == Xor(x.m, mv) \union simd_srli(F, mv, 2^(k - 1))
               rest == x.mk \ mp
    <3>1. x.m \subseteq 0..W - 1 /\ x.mk \subseteq 0..W - 1
      BY DEF MaskRecords
    <3>2. simd_srli(F, mv, 2^(k - 1)) \subseteq 0..W - 1
      BY DEF simd_srli
    <3>3. m \subseteq 0..W - 1 /\ rest \subseteq 0..W - 1 /\ mv \subseteq 0..W - 1
      BY <3>1, <3>2 DEF Xor
    <3>4. MaskStep(k, x) = [m |-> m, mk |-> rest, mv |-> mv]
      BY DEF MaskStep
    <3> HIDE DEF m, rest, mv
    <3>5. QED
      BY <3>3, <3>4 DEF MaskRecords
  <2>2. QED
    BY <2>1
<1>3. base \in S
  BY DEF MaskRecords, Not, simd_slli
<1> HIDE DEF S, n, base
<1>4. \A k \in 1..n : \A x \in S : g[<<k, x>>] = MaskStep(k, x) /\ g[<<k, x>>] \in S
  BY <1>2
<1> HIDE DEF g
<1>5. PICK f : f \in [0..n -> S] /\ f[0] = base /\ \A k \in 1..n : f[k] = g[<<k, f[k - 1]>>]
  <2>1. \E f : Recursion(S, base, n, g, f)
    BY <1>1, <1>3, <1>4, RecursionExists
  <2>2. QED
    BY <2>1 DEF Recursion
<1>6. \A k \in 0..n : f[k] = IF k = 0 THEN base ELSE MaskStep(k, f[k - 1])
  <2>1. ASSUME NEW k \in 0..n, k # 0 PROVE f[k] = MaskStep(k, f[k - 1])
    <3>1. k \in 1..n /\ k - 1 \in 0..n
      BY <1>1, <2>1
    <3>2. f[k - 1] \in S
      BY <1>5, <3>1
    <3>3. QED
      BY <1>4, <1>5, <3>1, <3>2
  <2>2. QED
    BY <1>5, <2>1
<1>7. f = [k \in 0..n |-> IF k = 0 THEN base ELSE MaskStep(k, f[k - 1])]
  BY <1>5, <1>6
<1>8. MaskFunction(del, f)
  BY <1>7 DEF MaskFunction, n, base
<1>9. QED
  BY <1>8

MaskOf(del, k, mask) ==
  \E mk : Marks(del, k, mk) /\ mask = parity(mk) \intersect Targets(del, k, Not(del))

MasksAreMoves(del, masks) ==
  /\ masks = [k \in 1..Doubled(F) |-> masks[k]]
  /\ \A k \in 0..Doubled(F) - 1 : MaskOf(del, k, masks[k + 1])

\* What the k-th step starts from.
MaskState(del, k, state) == Marks(del, k, state.mk) /\ state.m = Targets(del, k, Not(del))

LEMMA MaskStateFirst ==
  ASSUME NEW del, Sized
  PROVE  MaskState(del, 0, [m |-> Not(del), mk |-> simd_slli(F, del, 1), mv |-> {}])
<1>1. \A i \in 0..W - 1 : Target(del, 0, i) = i
  <2>1. ASSUME NEW i \in 0..W - 1 PROVE Target(del, 0, i) = i
    <3>1. Dels(del, i) \in Nat
      BY StartIs, DelsAre
    <3>2. Dels(del, i) % 1 = 0
      BY <3>1
    <3>3. QED
      BY <3>2, PowerZero DEF Target
  <2>2. QED
    BY <2>1
<1>2. Targets(del, 0, Not(del)) = Not(del)
  BY <1>1 DEF Targets, Not
<1>3. Marks(del, 0, simd_slli(F, del, 1))
  BY MarksFirst
<1>4. QED
  BY <1>2, <1>3 DEF MaskState

LEMMA MaskStateNext ==
  ASSUME NEW del, NEW k \in Nat, NEW state, Sized, MaskState(del, k, state)
  PROVE  /\ MaskState(del, k + 1, MaskStep(k + 1, state))
         /\ MaskOf(del, k, MaskStep(k + 1, state).mv)
<1> DEFINE mk == state.mk
           a == Targets(del, k, Not(del))
           mv == parity(mk) \intersect a
<1>1. Marks(del, k, mk) /\ state.m = a
  BY DEF MaskState
<1>2. MaskStep(k + 1, state) = [m |-> Xor(a, mv) \union simd_srli(F, mv, 2^(k + 1 - 1)),
                                mk |-> mk \ parity(mk), mv |-> mv]
  BY <1>1 DEF MaskStep
<1>3. k + 1 - 1 = k
  OBVIOUS
<1>4. mv = a \intersect parity(mk)
  OBVIOUS
<1>5. Xor(a, a \intersect parity(mk)) \union simd_srli(F, a \intersect parity(mk), 2^k)
        = Targets(del, k + 1, Not(del))
  <2>1. Not(del) \subseteq 0..W - 1
    BY DEF Not
  <2> HIDE DEF mk
  <2>2. QED
    BY <1>1, <2>1, MoveStep
<1>6. Marks(del, k + 1, mk \ parity(mk))
  <2> HIDE DEF mk
  <2>1. QED
    BY <1>1, MarksHalved
<1>10. MaskStep(k + 1, state) = [m |-> Targets(del, k + 1, Not(del)), mk |-> mk \ parity(mk), mv |-> mv]
  BY <1>2, <1>3, <1>4, <1>5
<1> HIDE DEF mk, a, mv
<1>7. MaskState(del, k + 1, MaskStep(k + 1, state))
  <2> DEFINE rest == mk \ parity(mk)
             to == Targets(del, k + 1, Not(del))
  <2>1. MaskStep(k + 1, state) = [m |-> to, mk |-> rest, mv |-> mv]
    BY <1>10
  <2>2. Marks(del, k + 1, rest)
    BY <1>6
  <2> HIDE DEF rest, to
  <2>3. MaskStep(k + 1, state).mk = rest /\ MaskStep(k + 1, state).m = to
    BY <2>1
  <2>4. QED
    BY <2>2, <2>3 DEF MaskState, to
<1>8. MaskOf(del, k, MaskStep(k + 1, state).mv)
  BY <1>1, <1>2 DEF MaskOf, a, mv
<1>9. QED
  BY <1>7, <1>8

LEMMA MasksAre ==
  ASSUME NEW del, Sized
  PROVE  MasksAreMoves(del, parallel_prefix_deletion_masks(del))
<1> DEFINE move == CHOOSE f : MaskFunction(del, f)
           n == Doubled(F)
           masks == parallel_prefix_deletion_masks(del)
           base == [m |-> Not(del), mk |-> simd_slli(F, del, 1), mv |-> {}]
           T == {k \in 0..n : ~MaskState(del, k, move[k])}
<1>1. masks = [k \in 1..n |-> move[k].mv]
  BY DEF parallel_prefix_deletion_masks, MaskFunction, MaskStep
<1>2. MaskFunction(del, move)
  BY MaskFunctionExists
<1> HIDE DEF move, masks
<1>3. n \in Nat
  BY SizedIs, DoubledIs
<1>4. \A k \in 0..n : move[k] = IF k = 0 THEN base ELSE MaskStep(k, move[k - 1])
  BY <1>2 DEF MaskFunction
<1>5. MaskState(del, 0, base)
  BY MaskStateFirst
<1> HIDE DEF n, base
<1>6. T = {}
  <2>1. SUFFICES ASSUME T # {} PROVE FALSE
    OBVIOUS
  <2>2. PICK k \in T : \A j \in T : k <= j
    <3>1. T \subseteq Nat
      OBVIOUS
    <3> HIDE DEF T
    <3>2. QED
      BY <2>1, <3>1, LeastNatural
  <2>3. k \in 0..n /\ ~MaskState(del, k, move[k])
    BY <2>2
  <2>4. CASE k = 0
    BY <1>4, <1>5, <2>3, <2>4
  <2>5. CASE k # 0
    <3> DEFINE j == k - 1
    <3>1. j \in 0..n /\ j \in Nat /\ j + 1 = k /\ ~(k <= j)
      BY <1>3, <2>3, <2>5
    <3>2. move[k] = MaskStep(k, move[j])
      BY <1>4, <2>3, <2>5
    <3> HIDE DEF j
    <3>3. MaskState(del, j, move[j])
      <4>1. j \notin T
        <5> HIDE DEF T
        <5>1. QED
          BY <2>2, <3>1
      <4>2. QED
        BY <3>1, <4>1
    <3> DEFINE state == move[j]
    <3> HIDE DEF state
    <3>4. MaskState(del, j + 1, MaskStep(j + 1, state))
      BY <3>1, <3>3, MaskStateNext DEF state
    <3>5. QED
      BY <2>3, <3>1, <3>2, <3>4 DEF state
  <2>6. QED
    BY <2>4, <2>5
<1>7. ASSUME NEW k \in 0..n - 1 PROVE MaskOf(del, k, masks[k + 1])
  <2> DEFINE state == move[k]
             j == k + 1
  <2>1. k \in 0..n /\ j \in 1..n /\ j \in 0..n /\ j # 0 /\ k \in Nat /\ j - 1 = k
    BY <1>3
  <2>2. MaskState(del, k, state)
    BY <1>6, <2>1
  <2>3. masks[j] = move[j].mv
    BY <1>1, <2>1
  <2>4. move[j] = MaskStep(j, state)
    BY <1>4, <2>1
  <2> HIDE DEF state
  <2>5. MaskOf(del, k, MaskStep(k + 1, state).mv)
    BY <2>1, <2>2, MaskStateNext
  <2>6. QED
    BY <2>3, <2>4, <2>5
<1>8. masks = [k \in 1..n |-> masks[k]]
  BY <1>1
<1>9. QED
  BY <1>7, <1>8 DEF MasksAreMoves, n, masks

ApplyStep(masks, i, before) ==
  LET t == before \intersect masks[i]
  IN  Xor(before, t) \union simd_srli(F, t, 2^(i - 1))

ApplyFunction(del, masks, stream, after) ==
  after = [i \in 0..Len(masks) |->
             IF i = 0 THEN stream \ del ELSE ApplyStep(masks, i, after[i - 1])]

LEMMA ApplyFunctionExists ==
  ASSUME NEW del, NEW masks, NEW stream, stream \subseteq 0..W - 1, Len(masks) \in Nat
  PROVE  \E after : ApplyFunction(del, masks, stream, after)
<1> DEFINE S == SUBSET (0..W - 1)
           n == Len(masks)
           base == stream \ del
           g == [y \in (1..n) \X S |-> ApplyStep(masks, y[1], y[2])]
<1>1. \A k, x : x \in S => ApplyStep(masks, k, x) \in S
  BY DEF ApplyStep, Xor, simd_srli
<1>2. base \in S
  OBVIOUS
<1>3. n \in Nat
  OBVIOUS
<1> HIDE DEF S, n, base
<1>4. \A k \in 1..n : \A x \in S : g[<<k, x>>] = ApplyStep(masks, k, x) /\ g[<<k, x>>] \in S
  BY <1>1
<1> HIDE DEF g
<1>5. PICK f : f \in [0..n -> S] /\ f[0] = base /\ \A k \in 1..n : f[k] = g[<<k, f[k - 1]>>]
  <2>1. \E f : Recursion(S, base, n, g, f)
    BY <1>2, <1>3, <1>4, RecursionExists
  <2>2. QED
    BY <2>1 DEF Recursion
<1>6. \A k \in 0..n : f[k] = IF k = 0 THEN base ELSE ApplyStep(masks, k, f[k - 1])
  <2>1. ASSUME NEW k \in 0..n, k # 0 PROVE f[k] = ApplyStep(masks, k, f[k - 1])
    <3>1. k \in 1..n /\ k - 1 \in 0..n
      BY <1>3, <2>1
    <3>2. f[k - 1] \in S
      BY <1>5, <3>1
    <3>3. QED
      BY <1>4, <1>5, <3>1, <3>2
  <2>2. QED
    BY <1>5, <2>1
<1>7. f = [k \in 0..n |-> IF k = 0 THEN base ELSE ApplyStep(masks, k, f[k - 1])]
  BY <1>5, <1>6
<1>8. ApplyFunction(del, masks, stream, f)
  BY <1>7 DEF ApplyFunction, n, base
<1>9. QED
  BY <1>8

\* What a deletion leaves of a stream: its ones at the bottom of their fields.
Packed(del, stream) == {i - Dels(del, i) : i \in stream \ del}

LEMMA AppliedIs ==
  ASSUME NEW del, NEW masks, NEW stream, Sized, stream \subseteq 0..W - 1,
         MasksAreMoves(del, masks)
  PROVE  apply_parallel_prefix_deletion(del, masks, stream) = Packed(del, stream)
<1> DEFINE after == CHOOSE f : ApplyFunction(del, masks, stream, f)
           n == Doubled(F)
           base == stream \ del
           T == {k \in 0..n : after[k] # Targets(del, k, base)}
<1>1. n \in Nat /\ 2^n >= F /\ F \in Nat \ {0} /\ W \in Nat
  BY SizedIs, DoubledIs
<1>2. Len(masks) = n /\ \A k \in 0..n - 1 : MaskOf(del, k, masks[k + 1])
  <2>1. masks = [k \in 1..n |-> masks[k]] /\ \A k \in 0..n - 1 : MaskOf(del, k, masks[k + 1])
    BY DEF MasksAreMoves
  <2> HIDE DEF n
  <2>2. Len([k \in 1..n |-> masks[k]]) = n
    BY <1>1
  <2>3. QED
    BY <2>1, <2>2
<1>3. apply_parallel_prefix_deletion(del, masks, stream) = after[n]
  BY <1>2 DEF apply_parallel_prefix_deletion, ApplyFunction, ApplyStep
<1>4. ApplyFunction(del, masks, stream, after)
  BY <1>1, <1>2, ApplyFunctionExists
<1> HIDE DEF after
<1>5. \A k \in 0..n : after[k] = IF k = 0 THEN base ELSE ApplyStep(masks, k, after[k - 1])
  BY <1>2, <1>4 DEF ApplyFunction
<1>6. base \subseteq 0..W - 1 /\ base \subseteq Not(del)
  BY DEF Not
<1> HIDE DEF n, base
<1>7. T = {}
  <2>1. SUFFICES ASSUME T # {} PROVE FALSE
    OBVIOUS
  <2>2. PICK k \in T : \A j \in T : k <= j
    <3>1. T \subseteq Nat
      OBVIOUS
    <3> HIDE DEF T
    <3>2. QED
      BY <2>1, <3>1, LeastNatural
  <2>3. k \in 0..n /\ after[k] # Targets(del, k, base)
    BY <2>2
  <2>4. CASE k = 0
    <3>1. after[0] = base
      BY <1>5, <2>3, <2>4
    <3>2. ASSUME NEW i \in base PROVE Target(del, 0, i) = i
      <4>1. i \in 0..W - 1
        BY <1>6
      <4>2. Dels(del, i) \in Nat
        BY <4>1, StartIs, DelsAre
      <4>3. Dels(del, i) % 1 = 0
        BY <4>2
      <4>4. QED
        BY <4>1, <4>3, PowerZero DEF Target
    <3>3. Targets(del, 0, base) = base
      BY <3>2 DEF Targets
    <3>4. QED
      BY <2>3, <2>4, <3>1, <3>3
  <2>5. CASE k # 0
    <3> DEFINE j == k - 1
    <3>1. j \in 0..n - 1 /\ j \in 0..n /\ j \in Nat /\ j + 1 = k /\ ~(k <= j)
      BY <1>1, <2>3, <2>5
    <3>2. after[k] = ApplyStep(masks, k, after[j])
      BY <1>5, <2>3, <2>5
    <3>3. MaskOf(del, j, masks[k])
      BY <1>2, <3>1
    <3>4. ApplyStep(masks, k, after[j])
            = Xor(after[j], after[j] \intersect masks[k])
                \union simd_srli(F, after[j] \intersect masks[k], 2^j)
      BY DEF ApplyStep
    <3> HIDE DEF j
    <3>5. after[j] = Targets(del, j, base)
      <4>1. j \notin T
        <5> HIDE DEF T
        <5>1. QED
          BY <2>2, <3>1
      <4>2. QED
        BY <3>1, <4>1
    <3>6. PICK mk : Marks(del, j, mk) /\ masks[k] = parity(mk) \intersect Targets(del, j, Not(del))
      BY <3>3 DEF MaskOf
    <3>7. after[j] \intersect masks[k] = Targets(del, j, base) \intersect parity(mk)
      <4>1. Targets(del, j, base) \subseteq Targets(del, j, Not(del))
        BY <1>6 DEF Targets
      <4>2. QED
        BY <3>5, <3>6, <4>1
    <3>8. Xor(Targets(del, j, base), Targets(del, j, base) \intersect parity(mk))
            \union simd_srli(F, Targets(del, j, base) \intersect parity(mk), 2^j)
            = Targets(del, j + 1, base)
      <4>1. j \in Nat /\ base \subseteq 0..W - 1 /\ Marks(del, j, mk) /\ Sized
        BY <1>6, <3>1, <3>6
      <4>2. QED
        BY ONLY <4>1, MoveStep
    <3>9. QED
      BY <2>3, <3>1, <3>2, <3>4, <3>5, <3>7, <3>8
  <2>6. QED
    BY <2>4, <2>5
<1>8. after[n] = Targets(del, n, base)
  <2>1. n \in 0..n
    BY <1>1
  <2>2. QED
    BY <1>7, <2>1
<1>9. \A i \in base : Target(del, n, i) = i - Dels(del, i)
  <2>1. ASSUME NEW i \in base PROVE Target(del, n, i) = i - Dels(del, i)
    <3> DEFINE p == 2^n
               d == Dels(del, i)
    <3>1. d \in 0..i - Start(i) /\ i - Start(i) \in 0..F - 1
      BY <1>6, StartIs, DelsAre
    <3>2. p \in Nat /\ p >= F
      BY <1>1, PowerIs
    <3> HIDE DEF p, d
    <3>3. d \in Nat /\ d < p
      BY <1>1, <3>1, <3>2
    <3>4. d % p = d
      BY <3>2, <3>3
    <3>5. QED
      BY <3>4 DEF Target, p, d
  <2>2. QED
    BY <2>1
<1>10. Targets(del, n, base) = Packed(del, stream)
  BY <1>9 DEF Targets, Packed, base
<1>11. QED
  BY <1>3, <1>8, <1>10

\* No two positions are moved to the same place.
LEMMA PackedApart ==
  ASSUME NEW del, NEW i \in Not(del), NEW j \in Not(del), Sized,
         i - Dels(del, i) = j - Dels(del, j), j < i
  PROVE  FALSE
<1>1. i \in 0..W - 1 /\ j \in 0..W - 1 /\ j \notin del /\ i \in Nat /\ j \in Nat
  BY SizedIs DEF Not
<1>2. Dels(del, i) \in 0..i - Start(i) /\ Dels(del, j) \in 0..j - Start(j)
  BY <1>1, DelsAre
<1>3. Start(i) \in 0..i /\ Start(j) \in 0..j
  BY <1>1, StartIs
<1>4. Start(i) <= j
  BY <1>1, <1>2, <1>3
<1>5. Dels(del, i) - Dels(del, j) <= i - j - 1
  BY <1>1, <1>4, DelsGrow
<1>6. QED
  BY <1>1, <1>2, <1>3, <1>5

LEMMA PackedHas ==
  ASSUME NEW del, NEW stream, NEW p \in Not(del), Sized, stream \subseteq 0..W - 1
  PROVE  p - Dels(del, p) \in Packed(del, stream) <=> p \in stream
<1>1. p \in 0..W - 1 /\ p \notin del /\ p \in Int
  BY SizedIs DEF Not
<1>2. p \in stream => p - Dels(del, p) \in Packed(del, stream)
  BY <1>1 DEF Packed
<1>3. ASSUME p - Dels(del, p) \in Packed(del, stream) PROVE p \in stream
  <2>1. PICK i \in stream \ del : p - Dels(del, p) = i - Dels(del, i)
    BY <1>3 DEF Packed
  <2>2. i \in Not(del) /\ i \in Int
    BY SizedIs DEF Not
  <2>3. ~(i < p)
    BY <2>1, <2>2, PackedApart
  <2>4. ~(p < i)
    BY <2>1, <2>2, PackedApart
  <2>5. QED
    BY <1>1, <2>1, <2>2, <2>3, <2>4
<1>4. QED
  BY <1>2, <1>3

-----------------------------------------------------------------------------
(* The running sums of the numbers of positions kept.                        *)

\* The ones of the fields from one to another.
InFields(mask, a, b) == Ones(mask, F * a, F * (b + 1) - 1)

LEMMA Ordered ==
  ASSUME NEW f \in Nat, NEW a \in Int, NEW b \in Int, a <= b
  PROVE  f * a \in Int /\ f * b \in Int /\ f * a <= f * b
<1> DEFINE d == b - a
<1>1. d \in Nat /\ b = a + d
  OBVIOUS
<1> HIDE DEF d
<1>2. f * (a + d) = f * a + f * d /\ f * d >= 0 /\ f * a \in Int /\ f * d \in Int
  BY <1>1
<1>3. QED
  BY <1>1, <1>2

LEMMA FieldsSplit ==
  ASSUME NEW mask, NEW a \in Nat, NEW b \in Nat, NEW c \in Nat, Sized, a <= b, b <= c
  PROVE  InFields(mask, a, c) = InFields(mask, a, b - 1) + InFields(mask, b, c)
<1> DEFINE lo == F * a
           up == F * b
           hi == F * (c + 1)
           mid == up - 1
           top == hi - 1
<1>1. F \in Nat
  BY SizedIs
<1>2. lo \in Int /\ up \in Int /\ lo <= up
  BY <1>1, Ordered
<1>3. hi \in Int /\ up <= hi
  <2> DEFINE d == c + 1
  <2>1. d \in Int /\ b <= d
    OBVIOUS
  <2> HIDE DEF d
  <2>2. F * d \in Int /\ F * b <= F * d
    BY <1>1, <2>1, Ordered
  <2>3. QED
    BY <2>2 DEF d
<1>4. InFields(mask, a, c) = Ones(mask, lo, top) /\ InFields(mask, b, c) = Ones(mask, up, top)
  BY DEF InFields
<1>5. InFields(mask, a, b - 1) = Ones(mask, lo, mid)
  <2>1. b - 1 + 1 = b
    OBVIOUS
  <2>2. QED
    BY <2>1 DEF InFields
<1> HIDE DEF lo, up, hi
<1>6. mid \in Int /\ top \in Int /\ lo <= mid + 1 /\ mid <= top /\ mid + 1 = up
  BY <1>2, <1>3
<1> HIDE DEF mid, top
<1>7. Ones(mask, lo, top) = Ones(mask, lo, mid) + Ones(mask, mid + 1, top)
  BY <1>2, <1>6, OnesSplit
<1>8. QED
  BY <1>4, <1>5, <1>6, <1>7

LEMMA InFieldsNat ==
  ASSUME NEW mask, NEW a \in Nat, NEW b \in Int, Sized
  PROVE  InFields(mask, a, b) \in Nat
<1> DEFINE lo == F * a
           hi == F * (b + 1) - 1
<1>1. F \in Nat
  BY SizedIs
<1>2. lo \in Int /\ hi \in Int
  BY <1>1
<1> HIDE DEF lo, hi
<1>3. Ones(mask, lo, hi) \in Nat
  BY <1>2, OnesNat
<1>4. QED
  BY <1>3 DEF InFields, lo, hi

LEMMA FieldCount ==
  ASSUME NEW mask, NEW k \in 0..op.fields - 1, Sized, mask \subseteq 0..W - 1
  PROVE  Cardinality(Field(F, mask, k)) = InFields(mask, k, k)
<1> DEFINE f == F
           top == f - 1
           d == f * k
<1>1. f \in Nat \ {0} /\ k \in Nat /\ W \in Nat
  BY SizedIs DEF Sized
<1>2. Field(F, mask, k) = {i \in 0..f - 1 : k * f + i \in mask}
  <2>1. mask \subseteq Nat
    BY <1>1
  <2> HIDE DEF f
  <2>2. Field(f, mask, k) = {i \in 0..f - 1 : k * f + i \in mask}
    BY <1>1, <2>1, FieldIs
  <2>3. QED
    BY <2>2 DEF f
<1>3. d \in Int /\ top \in Int /\ k * f = d /\ f * (k + 1) = d + f
  BY <1>1
<1> DEFINE s == Field(F, mask, k)
<1>4. s = {x \in 0..top : d + x \in mask}
  BY <1>1, <1>2, <1>3
<1>5. InFields(mask, k, k) = Ones(mask, d, d + f - 1)
  <2>1. InFields(mask, k, k) = Ones(mask, f * k, f * (k + 1) - 1)
    BY DEF InFields
  <2>2. f * (k + 1) - 1 = f * k + f - 1
    BY <1>1, <1>3
  <2>3. QED
    BY <2>1, <2>2, Zenon
<1> HIDE DEF s, d
<1>6. Cardinality(s) = Ones(s, 0, top)
  <2>1. s = {x \in 0..top : x \in s}
    BY <1>4
  <2> HIDE DEF top
  <2>2. QED
    BY <2>1 DEF Ones
<1>7. Ones(s, 0, top) = Ones(mask, 0 + d, top + d)
  <2>1. \A x \in 0..top : x \in s <=> x + d \in mask
    BY <1>1, <1>3, <1>4
  <2> HIDE DEF top
  <2> DEFINE lo == 0
  <2>2. lo \in Int /\ d \in Int /\ top \in Int
    BY <1>3
  <2>3. \A x \in lo..top : x \in s <=> x + d \in mask
    BY <2>1
  <2> HIDE DEF lo
  <2>4. Ones(s, lo, top) = Ones(mask, lo + d, top + d)
    BY <2>2, <2>3, OnesMoved
  <2>5. QED
    BY <2>4 DEF lo
<1>8. 0 + d = d /\ top + d = d + f - 1
  BY <1>1, <1>3
<1>9. QED
  BY <1>5, <1>6, <1>7, <1>8 DEF s

SumStep(j, before) ==
  LET move == 2^(j - 1)
  IN  [k \in 0..op.fields - 1 |-> before[k] + (IF k >= move THEN before[k - move] ELSE 0)]

OutputsUpTo(mask, sum) ==
  sum = [j \in 0..Doubled(op.fields) |->
           IF j = 0 THEN [k \in 0..op.fields - 1 |-> Cardinality(Field(F, mask, k))]
           ELSE SumStep(j, sum[j - 1])]

\* The first of the s fields up to k.
FirstField(k, s) == IF k + 1 >= s THEN k + 1 - s ELSE 0

\* A sum over fields, of which a step doubles the number.
Summed(mask, s, sums) ==
  sums = [k \in 0..op.fields - 1 |-> InFields(mask, FirstField(k, s), k)]

LEMMA SumNext ==
  ASSUME NEW mask, NEW j \in Nat, NEW before, Sized, mask \subseteq 0..W - 1,
         Summed(mask, 2^j, before)
  PROVE  Summed(mask, 2^(j + 1), SumStep(j + 1, before))
<1> DEFINE s == 2^j
           n == op.fields
<1>1. s \in Nat \ {0} /\ 2^(j + 1) = 2 * s
  BY PowerIs, PowerDoubles
<1>2. SumStep(j + 1, before) = [k \in 0..n - 1 |-> before[k] + (IF k >= s THEN before[k - s] ELSE 0)]
  BY DEF SumStep
<1>3. n \in Nat \ {0} /\ F \in Nat \ {0} /\ W = F * n
  BY SizedIs DEF Sized
<1>4. \A k \in 0..n - 1 : before[k] = InFields(mask, FirstField(k, s), k)
  BY DEF Summed
<1> HIDE DEF s, n
<1>5. ASSUME NEW k \in 0..n - 1
      PROVE  before[k] + (IF k >= s THEN before[k - s] ELSE 0) = InFields(mask, FirstField(k, 2 * s), k)
  <2>1. k \in Nat /\ k < n
    BY <1>3
  <2>2. CASE k >= s
    <3> DEFINE e == k - s
               b == e + 1
               a == FirstField(e, s)
    <3>1. e \in 0..n - 1 /\ e \in Nat /\ b \in Nat /\ b <= k /\ b - 1 = e
      BY <1>1, <1>3, <2>1, <2>2
    <3>2. FirstField(k, s) = b
      BY <1>1, <2>1, <2>2 DEF FirstField
    <3>3. a \in Nat /\ a <= b /\ FirstField(k, 2 * s) = a
      <4>1. e + 1 - s = k + 1 - 2 * s
        BY <1>1, <2>1
      <4> HIDE DEF e
      <4>2. QED
        BY <1>1, <2>1, <3>1, <4>1 DEF FirstField, e
    <3>4. before[e] = InFields(mask, a, e) /\ before[k] = InFields(mask, b, k)
      BY <1>4, <3>1, <3>2
    <3> HIDE DEF e, b, a
    <3>5. InFields(mask, a, k) = InFields(mask, a, b - 1) + InFields(mask, b, k)
      BY <2>1, <3>1, <3>3, FieldsSplit
    <3>6. InFields(mask, a, e) \in Nat /\ InFields(mask, b, k) \in Nat
      BY <2>1, <3>1, <3>3, InFieldsNat
    <3>7. before[k] + before[e] = InFields(mask, a, k)
      BY <3>1, <3>4, <3>5, <3>6
    <3>8. QED
      BY <2>2, <3>3, <3>7 DEF e
  <2>3. CASE ~(k >= s)
    <3>1. FirstField(k, s) = 0 /\ FirstField(k, 2 * s) = 0
      BY <1>1, <2>1, <2>3 DEF FirstField
    <3>2. InFields(mask, 0, k) \in Nat
      BY <2>1, InFieldsNat
    <3>3. before[k] = InFields(mask, 0, k)
      BY <1>4, <3>1
    <3>4. QED
      BY <2>3, <3>1, <3>2, <3>3
  <2>4. QED
    BY <2>2, <2>3
<1>6. SumStep(j + 1, before) = [k \in 0..n - 1 |-> InFields(mask, FirstField(k, 2 * s), k)]
  BY <1>2, <1>5
<1>7. QED
  BY <1>1, <1>6 DEF Summed, n

LEMMA SumFirst ==
  ASSUME NEW mask, Sized, mask \subseteq 0..W - 1
  PROVE  Summed(mask, 2^0, [k \in 0..op.fields - 1 |-> Cardinality(Field(F, mask, k))])
<1> DEFINE n == op.fields
<1>1. ASSUME NEW k \in 0..n - 1 PROVE Cardinality(Field(F, mask, k)) = InFields(mask, FirstField(k, 1), k)
  <2>1. FirstField(k, 1) = k
    BY DEF FirstField, Sized
  <2>2. QED
    BY <2>1, FieldCount
<1> HIDE DEF n
<1>2. [k \in 0..n - 1 |-> Cardinality(Field(F, mask, k))]
        = [k \in 0..n - 1 |-> InFields(mask, FirstField(k, 1), k)]
  BY <1>1
<1>3. QED
  BY <1>2, PowerZero DEF Summed, n

LEMMA SumFunctionExists ==
  ASSUME NEW mask, Sized
  PROVE  \E sum : OutputsUpTo(mask, sum)
<1> DEFINE n == Doubled(op.fields)
           Step(j, x) == SumStep(j, x)
           base == [k \in 0..op.fields - 1 |-> Cardinality(Field(F, mask, k))]
           Good(m) == \E f : f = [j \in 0..m |-> IF j = 0 THEN base ELSE SumStep(j, f[j - 1])]
           T == {m \in 0..n : ~Good(m)}
<1>1. n \in Nat
  BY DoubledIs DEF Sized
<1> HIDE DEF n, base
<1>2. SUFFICES ASSUME T # {} PROVE FALSE
  <2>1. SUFFICES ASSUME T = {} PROVE \E sum : OutputsUpTo(mask, sum)
    OBVIOUS
  <2>2. n \in 0..n
    BY <1>1
  <2>3. Good(n)
    BY <2>1, <2>2
  <2>4. QED
    BY <2>3 DEF OutputsUpTo, n, base
<1>3. PICK m \in T : \A j \in T : m <= j
  <2>1. T \subseteq Nat
    OBVIOUS
  <2> HIDE DEF T
  <2>2. QED
    BY <1>2, <2>1, LeastNatural
<1>4. m \in 0..n /\ ~Good(m)
  BY <1>3
<1>5. CASE m = 0
  <2> DEFINE f == [j \in 0..0 |-> base]
  <2>1. f = [j \in 0..0 |-> IF j = 0 THEN base ELSE SumStep(j, f[j - 1])]
    OBVIOUS
  <2> HIDE DEF f
  <2>2. Good(0)
    BY <2>1
  <2>3. QED
    BY <1>4, <1>5, <2>2
<1>6. CASE m # 0
  <2> DEFINE i == m - 1
  <2>1. i \in 0..n /\ i + 1 = m /\ ~(m <= i) /\ i \in Nat
    BY <1>1, <1>4, <1>6
  <2> HIDE DEF i
  <2>2. Good(i)
    <3>1. i \notin T
      <4> HIDE DEF T
      <4>1. QED
        BY <1>3, <2>1
    <3>2. QED
      BY <2>1, <3>1
  <2>3. PICK f : f = [j \in 0..i |-> IF j = 0 THEN base ELSE SumStep(j, f[j - 1])]
    BY <2>2
  <2> DEFINE h == [j \in 0..m |-> IF j = m THEN SumStep(m, f[i]) ELSE f[j]]
  <2>4. ASSUME NEW j \in 0..m PROVE h[j] = IF j = 0 THEN base ELSE SumStep(j, h[j - 1])
    <3>1. CASE j = m
      <4>1. j # 0 /\ j - 1 = i /\ i \in 0..m /\ i # m
        BY <1>6, <2>1, <3>1
      <4>2. h[j] = SumStep(m, f[i]) /\ h[i] = f[i]
        BY <3>1, <4>1
      <4> HIDE DEF h
      <4>3. QED
        BY <3>1, <4>1, <4>2
    <3>2. CASE j # m
      <4>1. j \in 0..i
        BY <2>1, <3>2
      <4>2. h[j] = f[j]
        BY <3>2
      <4>3. CASE j = 0
        <5>1. f[j] = base
          BY <2>3, <4>1, <4>3
        <5> HIDE DEF h
        <5>2. QED
          BY <4>2, <4>3, <5>1
      <4>4. CASE j # 0
        <5>1. j - 1 \in 0..i /\ j - 1 \in 0..m /\ j - 1 # m
          BY <2>1, <4>1, <4>4
        <5>2. h[j - 1] = f[j - 1]
          BY <5>1
        <5>3. f[j] = SumStep(j, f[j - 1])
          BY <2>3, <4>1, <4>4
        <5> HIDE DEF h
        <5>4. QED
          BY <4>2, <4>4, <5>2, <5>3
      <4>5. QED
        BY <4>3, <4>4
    <3>3. QED
      BY <3>1, <3>2
  <2>5. h = [j \in 0..m |-> IF j = 0 THEN base ELSE SumStep(j, h[j - 1])]
    <3>1. h = [j \in 0..m |-> h[j]]
      OBVIOUS
    <3> HIDE DEF h
    <3>2. QED
      BY <2>4, <3>1
  <2> HIDE DEF h
  <2>6. Good(m)
    BY <2>5
  <2>7. QED
    BY <1>4, <2>6
<1>7. QED
  BY <1>5, <1>6

LEMMA PartialSumIs ==
  ASSUME NEW mask, Sized, mask \subseteq 0..W - 1
  PROVE  partial_sum_popcount(mask) = [k \in 0..op.fields - 1 |-> InFields(mask, 0, k)]
<1> DEFINE sum == CHOOSE f : OutputsUpTo(mask, f)
           n == Doubled(op.fields)
           base == [k \in 0..op.fields - 1 |-> Cardinality(Field(F, mask, k))]
           T == {j \in 0..n : ~Summed(mask, 2^j, sum[j])}
<1>1. partial_sum_popcount(mask) = sum[n]
  BY DEF partial_sum_popcount, OutputsUpTo, SumStep
<1>2. OutputsUpTo(mask, sum)
  BY SumFunctionExists
<1> HIDE DEF sum
<1>3. n \in Nat /\ 2^n >= op.fields
  BY DoubledIs DEF Sized
<1>4. \A j \in 0..n : sum[j] = IF j = 0 THEN base ELSE SumStep(j, sum[j - 1])
  BY <1>2 DEF OutputsUpTo
<1>5. Summed(mask, 2^0, base)
  BY SumFirst
<1> HIDE DEF n, base
<1>6. T = {}
  <2>1. SUFFICES ASSUME T # {} PROVE FALSE
    OBVIOUS
  <2>2. PICK j \in T : \A i \in T : j <= i
    <3>1. T \subseteq Nat
      OBVIOUS
    <3> HIDE DEF T
    <3>2. QED
      BY <2>1, <3>1, LeastNatural
  <2>3. j \in 0..n /\ ~Summed(mask, 2^j, sum[j])
    BY <2>2
  <2>4. CASE j = 0
    BY <1>4, <1>5, <2>3, <2>4
  <2>5. CASE j # 0
    <3> DEFINE i == j - 1
    <3>1. i \in 0..n /\ i \in Nat /\ i + 1 = j /\ ~(j <= i)
      BY <1>3, <2>3, <2>5
    <3>2. sum[j] = SumStep(j, sum[i])
      BY <1>4, <2>3, <2>5
    <3> HIDE DEF i
    <3>3. Summed(mask, 2^i, sum[i])
      <4>1. i \notin T
        <5> HIDE DEF T
        <5>1. QED
          BY <2>2, <3>1
      <4>2. QED
        BY <3>1, <4>1
    <3> DEFINE before == sum[i]
    <3> HIDE DEF before
    <3>4. Summed(mask, 2^(i + 1), SumStep(i + 1, before))
      BY <3>1, <3>3, SumNext DEF before
    <3>5. QED
      BY <2>3, <3>1, <3>2, <3>4 DEF before
  <2>6. QED
    BY <2>4, <2>5
<1>7. Summed(mask, 2^n, sum[n])
  <2>1. n \in 0..n
    BY <1>3
  <2>2. QED
    BY <1>6, <2>1
<1>8. ASSUME NEW k \in 0..op.fields - 1 PROVE FirstField(k, 2^n) = 0
  <2> DEFINE s == 2^n
  <2>1. s \in Nat /\ s >= op.fields /\ op.fields \in Nat
    BY <1>3, PowerIs DEF Sized
  <2> HIDE DEF s
  <2>2. FirstField(k, s) = 0
    BY <2>1 DEF FirstField
  <2>3. QED
    BY <2>2 DEF s
<1>9. QED
  BY <1>1, <1>7, <1>8 DEF Summed

-----------------------------------------------------------------------------
(* The units written.                                                        *)

Offset(counts, k) == IF k = 0 THEN 0 ELSE counts[k - 1]

StoreStep(k, counts, stream, before) ==
  LET start == Offset(counts, k - 1)
  IN  [j \in 1..start + F |->
         IF j > start THEN (k - 1) * F + (j - start - 1) \in stream ELSE before[j]]

StoreFunction(stream, counts, stored) ==
  stored = [k \in 0..op.fields |->
              IF k = 0 THEN << >> ELSE StoreStep(k, counts, stream, stored[k - 1])]

LEMMA StoreFunctionExists ==
  ASSUME NEW stream, NEW counts, Sized
  PROVE  \E stored : StoreFunction(stream, counts, stored)
<1> DEFINE n == op.fields
           base == << >>
           Step(j, x) == StoreStep(j, counts, stream, x)
           Good(m) == \E f : f = [j \in 0..m |-> IF j = 0 THEN base ELSE Step(j, f[j - 1])]
           T == {m \in 0..n : ~Good(m)}
<1>1. n \in Nat
  BY DEF Sized
<1> HIDE DEF n, base, Step
<1>2. SUFFICES ASSUME T # {} PROVE FALSE
  <2>1. SUFFICES ASSUME T = {} PROVE \E stored : StoreFunction(stream, counts, stored)
    OBVIOUS
  <2>2. n \in 0..n
    BY <1>1
  <2>3. Good(n)
    BY <2>1, <2>2
  <2>4. QED
    BY <2>3 DEF StoreFunction, n, base, Step
<1>3. PICK m \in T : \A j \in T : m <= j
  <2>1. T \subseteq Nat
    OBVIOUS
  <2> HIDE DEF T
  <2>2. QED
    BY <1>2, <2>1, LeastNatural
<1>4. m \in 0..n /\ ~Good(m)
  BY <1>3
<1>5. CASE m = 0
  <2> DEFINE f == [j \in 0..0 |-> base]
  <2>1. f = [j \in 0..0 |-> IF j = 0 THEN base ELSE Step(j, f[j - 1])]
    OBVIOUS
  <2> HIDE DEF f
  <2>2. Good(0)
    BY <2>1
  <2>3. QED
    BY <1>4, <1>5, <2>2
<1>6. CASE m # 0
  <2> DEFINE i == m - 1
  <2>1. i \in 0..n /\ i + 1 = m /\ ~(m <= i) /\ i \in Nat
    BY <1>1, <1>4, <1>6
  <2> HIDE DEF i
  <2>2. Good(i)
    <3>1. i \notin T
      <4> HIDE DEF T
      <4>1. QED
        BY <1>3, <2>1
    <3>2. QED
      BY <2>1, <3>1
  <2>3. PICK f : f = [j \in 0..i |-> IF j = 0 THEN base ELSE Step(j, f[j - 1])]
    BY <2>2
  <2> DEFINE h == [j \in 0..m |-> IF j = m THEN Step(m, f[i]) ELSE f[j]]
  <2>4. ASSUME NEW j \in 0..m PROVE h[j] = IF j = 0 THEN base ELSE Step(j, h[j - 1])
    <3>1. CASE j = m
      <4>1. j # 0 /\ j - 1 = i /\ i \in 0..m /\ i # m
        BY <1>6, <2>1, <3>1
      <4>2. h[j] = Step(m, f[i]) /\ h[i] = f[i]
        BY <3>1, <4>1
      <4> HIDE DEF h
      <4>3. QED
        BY <3>1, <4>1, <4>2
    <3>2. CASE j # m
      <4>1. j \in 0..i
        BY <2>1, <3>2
      <4>2. h[j] = f[j]
        BY <3>2
      <4>3. CASE j = 0
        <5>1. f[j] = base
          BY <2>3, <4>1, <4>3
        <5> HIDE DEF h
        <5>2. QED
          BY <4>2, <4>3, <5>1
      <4>4. CASE j # 0
        <5>1. j - 1 \in 0..i /\ j - 1 \in 0..m /\ j - 1 # m
          BY <2>1, <4>1, <4>4
        <5>2. h[j - 1] = f[j - 1]
          BY <5>1
        <5>3. f[j] = Step(j, f[j - 1])
          BY <2>3, <4>1, <4>4
        <5> HIDE DEF h
        <5>4. QED
          BY <4>2, <4>4, <5>2, <5>3
      <4>5. QED
        BY <4>3, <4>4
    <3>3. QED
      BY <3>1, <3>2
  <2>5. h = [j \in 0..m |-> IF j = 0 THEN base ELSE Step(j, h[j - 1])]
    <3>1. h = [j \in 0..m |-> h[j]]
      OBVIOUS
    <3> HIDE DEF h
    <3>2. QED
      BY <2>4, <3>1
  <2> HIDE DEF h
  <2>6. Good(m)
    BY <2>5
  <2>7. QED
    BY <1>4, <2>6
<1>7. QED
  BY <1>5, <1>6

\* The positions kept and those deleted make up a part of a block.
LEMMA OnesComplement ==
  ASSUME NEW del, NEW lo \in Int, NEW hi \in Int, lo <= hi + 1, lo..hi \subseteq 0..W - 1
  PROVE  Ones(Not(del), lo, hi) + Ones(del, lo, hi) = hi - lo + 1
<1> DEFINE a == {x \in lo..hi : x \in Not(del)}
           b == {x \in lo..hi : x \in del}
           all == lo..hi
<1>1. a \union b = all /\ a \intersect b = {}
  BY DEF Not
<1>2. IsFiniteSet(a) /\ IsFiniteSet(b) /\ Cardinality(a) \in Nat /\ Cardinality(b) \in Nat
  BY OnesAre DEF Ones
<1>3. Cardinality(all) = hi - lo + 1
  BY FS_Interval
<1> HIDE DEF a, b, all
<1>4. Cardinality(all) = Cardinality(a) + Cardinality(b) - Cardinality({})
  BY <1>1, <1>2, FS_Union
<1>5. Cardinality({}) = 0
  BY FS_EmptySet
<1>6. QED
  BY <1>2, <1>3, <1>4, <1>5 DEF Ones, a, b

\* The number of a position among those kept, and that of a field's first.
Rank(del, p) == Ones(Not(del), 0, p)
Before(del, k) == InFields(Not(del), 0, k - 1)

LEMMA RankIs ==
  ASSUME NEW del, NEW p \in Not(del), Sized
  PROVE  /\ Rank(del, p) = Before(del, p \div F) + (p - Start(p) - Dels(del, p)) + 1
         /\ Before(del, p \div F) \in Nat
         /\ p - Start(p) - Dels(del, p) \in 0..F - 1
<1> DEFINE lo == Start(p)
           k == p \div F
           keep == Not(del)
           below == p - 1
           top == lo - 1
<1>1. p \in 0..W - 1 /\ p \in Int /\ W \in Nat /\ F \in Nat
  BY SizedIs DEF Not
<1>2. lo \in 0..p /\ p - lo \in 0..F - 1 /\ k \in 0..op.fields - 1 /\ op.fields \in Nat
  BY <1>1, StartIs DEF Sized
<1>3. k \in Nat
  BY <1>2
<1>4. F * (k - 1 + 1) - 1 = top /\ F * 0 = 0
  <2>1. k - 1 + 1 = k
    BY <1>3
  <2>2. QED
    BY <1>1, <2>1 DEF Start
<1>5. Before(del, k) = Ones(keep, 0, top)
  BY <1>4 DEF Before, InFields
<1> HIDE DEF lo, keep, k
<1>6. top \in Int /\ 0 <= top + 1 /\ top <= p /\ top + 1 = lo /\ 0 \in Int
  BY <1>1, <1>2
<1>7. below \in Int /\ lo <= below + 1 /\ below + 1 = p /\ lo \in Int
  BY <1>1, <1>2
<1> HIDE DEF top, below
<1>8. Ones(keep, 0, p) = Ones(keep, 0, top) + Ones(keep, lo, p)
  <2>1. Ones(keep, 0, p) = Ones(keep, 0, top) + Ones(keep, top + 1, p)
    BY <1>1, <1>6, OnesSplit
  <2>2. QED
    BY <1>6, <2>1
<1>9. Ones(keep, lo, p) = Ones(keep, lo, below) + 1
  <2>1. Ones(keep, lo, below + 1) = Ones(keep, lo, below) + Bit(below + 1 \in keep)
    BY <1>7, OnesNext
  <2>2. Bit(below + 1 \in keep) = 1
    BY <1>7 DEF Bit, keep
  <2>3. QED
    BY <1>7, <2>1, <2>2
<1>10. Ones(keep, lo, below) + Ones(del, lo, below) = below - lo + 1
  <2>1. lo..below \subseteq 0..W - 1
    BY <1>1, <1>2, <1>7
  <2>2. QED
    BY <1>7, <2>1, OnesComplement DEF keep
<1>11. Dels(del, p) = Ones(del, lo, below)
  BY DEF Dels, lo, below
<1>12. Ones(keep, lo, below) \in Nat /\ Ones(del, lo, below) \in Nat /\ Ones(keep, 0, top) \in Nat
  BY <1>6, <1>7, OnesNat
<1>13. Ones(keep, lo, below) = p - lo - Dels(del, p)
  BY <1>7, <1>10, <1>11, <1>12
<1>14. p - lo - Dels(del, p) \in 0..F - 1
  BY <1>1, <1>2, <1>11, <1>12, <1>13
<1>15. Rank(del, p) = Ones(keep, 0, p)
  BY DEF Rank, keep
<1>16. Rank(del, p) = Before(del, k) + (p - lo - Dels(del, p)) + 1
  BY <1>5, <1>8, <1>9, <1>12, <1>13, <1>15
<1>17. Before(del, k) \in Nat
  BY <1>5, <1>12
<1>18. QED
  BY <1>14, <1>16, <1>17 DEF k, lo

LEMMA BeforeGrows ==
  ASSUME NEW del, NEW k \in 0..op.fields - 1, Sized
  PROVE  /\ Before(del, 0) = 0 /\ Before(del, k) \in Nat /\ Before(del, k + 1) \in Nat
         /\ Before(del, k) <= Before(del, k + 1) /\ Before(del, k + 1) <= Before(del, k) + F
<1> DEFINE keep == Not(del)
           lo == F * k
           hi == F * (k + 1)
           top == hi - 1
<1>1. F \in Nat /\ k \in Nat /\ op.fields \in Nat
  BY SizedIs DEF Sized
<1>2. lo \in Int /\ hi \in Int /\ hi = lo + F
  BY <1>1
<1>3. Before(del, 0) = Ones(keep, 0, -1)
  <2>1. 0 - 1 + 1 = 0 /\ F * 0 = 0 /\ 0 - 1 = -1
    BY <1>1
  <2>2. QED
    BY <2>1 DEF Before, InFields
<1>4. Ones(keep, 0, -1) = 0
  BY OnesNone
<1>5. Before(del, k) \in Nat
  <2>1. k - 1 \in Int /\ 0 \in Nat
    BY <1>1
  <2>2. QED
    BY <2>1, InFieldsNat DEF Before
<1>6. Before(del, k + 1) = InFields(keep, 0, k)
  <2>1. k + 1 - 1 = k
    BY <1>1
  <2>2. QED
    BY <2>1 DEF Before
<1>7. InFields(keep, 0, k) = InFields(keep, 0, k - 1) + InFields(keep, k, k)
  <2>1. 0 \in Nat /\ 0 <= k
    BY <1>1
  <2> HIDE DEF keep
  <2>2. QED
    BY <1>1, <2>1, FieldsSplit
<1>8. Before(del, k) = InFields(keep, 0, k - 1)
  BY DEF Before
<1>9. InFields(keep, k, k) = Ones(keep, lo, top)
  BY DEF InFields
<1> HIDE DEF keep, lo, hi
<1>10. top \in Int /\ lo <= top + 1 /\ top - lo + 1 = F
  BY <1>1, <1>2
<1> HIDE DEF top
<1>11. Ones(keep, lo, top) \in Nat /\ Ones(keep, lo, top) <= F
  BY <1>2, <1>10, OnesNat, OnesMost
<1>12. QED
  BY <1>1, <1>3, <1>4, <1>5, <1>6, <1>7, <1>8, <1>9, <1>11

LEMMA RankWithin ==
  ASSUME NEW del, NEW p \in Not(del), NEW k \in 0..op.fields, Sized, p \div F < k
  PROVE  Rank(del, p) \in 1..Before(del, k)
<1> DEFINE j == p \div F
           lo == F * j
           up == F * (j + 1)
           hi == F * k
           top == hi - 1
           keep == Not(del)
           a == p + 1
<1>1. p \in 0..W - 1 /\ p \in Nat /\ W \in Nat /\ F \in Nat /\ k \in Nat
  BY SizedIs DEF Not, Sized
<1>2. j \in 0..op.fields - 1 /\ p - lo \in 0..F - 1 /\ lo \in 0..p
  BY <1>1, StartIs DEF Start
<1>3. j \in Nat /\ j < k /\ op.fields \in Nat
  BY <1>2 DEF Sized
<1>4. up \in Int /\ hi \in Int /\ up <= hi
  <2> DEFINE b == j + 1
  <2>1. b \in Int /\ b <= k
    BY <1>1, <1>3
  <2> HIDE DEF b
  <2>2. F * b \in Int /\ F * k \in Int /\ F * b <= F * k
    BY <1>1, <2>1, Ordered
  <2>3. QED
    BY <2>2 DEF b
<1>5. up = lo + F
  BY <1>1, <1>3
<1>6. Before(del, k) = Ones(keep, 0, top)
  <2>1. k - 1 + 1 = k /\ F * 0 = 0
    BY <1>1
  <2>2. QED
    BY <2>1 DEF Before, InFields
<1> HIDE DEF lo, up, hi, keep
<1>7. p <= top /\ top \in Int /\ a \in Int /\ 0 <= p + 1
  BY <1>1, <1>2, <1>4, <1>5
<1> HIDE DEF top
<1>8. Ones(keep, 0, top) = Ones(keep, 0, p) + Ones(keep, a, top)
  BY <1>1, <1>7, OnesSplit
<1>9. Ones(keep, 0, p) \in Nat /\ Ones(keep, a, top) \in Nat /\ Ones(keep, 0, top) \in Nat
  BY <1>1, <1>7, OnesNat
<1>10. Rank(del, p) >= 1
  <2> DEFINE r == p - Start(p) - Dels(del, p)
             b == Before(del, j)
  <2>1. Rank(del, p) = b + r + 1 /\ b \in Nat /\ r \in 0..F - 1
    BY RankIs
  <2> HIDE DEF r, b
  <2>2. QED
    BY <1>1, <2>1
<1>11. Rank(del, p) = Ones(keep, 0, p)
  BY DEF Rank, keep
<1>12. QED
  BY <1>6, <1>8, <1>9, <1>10, <1>11

\* What is stored of the registers before the k-th.
StoredRight(del, stream, k, s) ==
  /\ \A j \in 1..Before(del, k) : s[j] \in BOOLEAN
  /\ \A p \in Not(del) : p \div F < k => s[Rank(del, p)] = (p \in stream)

CountsOf(del) == [k \in 0..op.fields - 1 |-> InFields(Not(del), 0, k)]

LEMMA OffsetIs ==
  ASSUME NEW del, NEW k \in 0..op.fields, Sized
  PROVE  Offset(CountsOf(del), k) = Before(del, k)
<1>1. op.fields \in Nat /\ k \in Nat
  BY DEF Sized
<1>2. CASE k = 0
  <2>1. 0 \in 0..op.fields - 1
    BY DEF Sized
  <2>2. Before(del, 0) = 0
    BY <2>1, BeforeGrows
  <2>3. QED
    BY <1>2, <2>2 DEF Offset
<1>3. CASE k # 0
  <2>1. k - 1 \in 0..op.fields - 1
    BY <1>1, <1>3
  <2>2. QED
    BY <1>3, <2>1 DEF Offset, CountsOf, Before
<1>4. QED
  BY <1>2, <1>3

LEMMA StoreNext ==
  ASSUME NEW del, NEW stream, NEW k \in 0..op.fields - 1, NEW s, Sized, stream \subseteq 0..W - 1,
         StoredRight(del, stream, k, s)
  PROVE  StoredRight(del, stream, k + 1, StoreStep(k + 1, CountsOf(del), Packed(del, stream), s))
<1> DEFINE packed == Packed(del, stream)
           start == Before(del, k)
           next == Before(del, k + 1)
           t == StoreStep(k + 1, CountsOf(del), packed, s)
<1>1. k \in Nat /\ k \in 0..op.fields /\ op.fields \in Nat /\ F \in Nat \ {0} /\ k + 1 - 1 = k
  BY SizedIs DEF Sized
<1>2. start \in Nat /\ next \in Nat /\ next <= start + F
  BY BeforeGrows
<1>3. Offset(CountsOf(del), k) = start
  BY <1>1, OffsetIs
<1>4. t = [j \in 1..start + F |-> IF j > start THEN k * F + (j - start - 1) \in packed ELSE s[j]]
  BY <1>1, <1>3 DEF StoreStep
<1>5. \A j \in 1..start : s[j] \in BOOLEAN
  BY DEF StoredRight
<1>6. \A p \in Not(del) : p \div F < k => s[Rank(del, p)] = (p \in stream)
  BY DEF StoredRight
<1> HIDE DEF start, next, t, packed
<1>7. ASSUME NEW j \in 1..next PROVE t[j] \in BOOLEAN
  <2>1. j \in 1..start + F
    BY <1>1, <1>2
  <2>2. CASE j > start
    <3>1. t[j] = (k * F + (j - start - 1) \in packed)
      BY <1>4, <2>1, <2>2
    <3>2. QED
      BY <3>1
  <2>3. CASE ~(j > start)
    <3>1. t[j] = s[j] /\ j \in 1..start
      BY <1>2, <1>4, <2>1, <2>3
    <3>2. QED
      BY <1>5, <3>1
  <2>4. QED
    BY <2>2, <2>3
<1>8. ASSUME NEW p \in Not(del), p \div F < k + 1 PROVE t[Rank(del, p)] = (p \in stream)
  <2> DEFINE j == Rank(del, p)
             r == p - Start(p) - Dels(del, p)
             f == p \div F
             at == k * F + r
  <2>1. p \in 0..W - 1 /\ p \in Int
    BY SizedIs DEF Not
  <2>2. f \in 0..op.fields - 1
    BY <2>1, StartIs
  <2>3. CASE f < k
    <3>1. j \in 1..start
      BY <1>1, <2>3, RankWithin DEF start
    <3> HIDE DEF j
    <3>2. j \in 1..start + F /\ ~(j > start)
      BY <1>1, <1>2, <3>1
    <3>3. t[j] = s[j]
      BY <1>4, <3>2
    <3>4. QED
      BY <1>6, <2>3, <3>3 DEF j
  <2>4. CASE ~(f < k)
    <3>1. f = k
      <4> HIDE DEF f
      <4>1. f < k + 1
        BY <1>8 DEF f
      <4>2. QED
        BY <1>1, <2>2, <2>4, <4>1
    <3>2. j = start + r + 1 /\ r \in 0..F - 1
      BY <3>1, RankIs DEF start
    <3>3. p - Dels(del, p) \in packed <=> p \in stream
      BY PackedHas DEF packed
    <3>4. p - Dels(del, p) = at
      <4>1. Start(p) = F * k
        BY <3>1 DEF Start
      <4>2. Start(p) \in Int /\ Dels(del, p) \in Int
        BY <2>1, StartIs, DelsAre
      <4>3. F * k = k * F /\ k * F \in Int
        BY <1>1
      <4>4. QED
        BY <2>1, <4>1, <4>2, <4>3
    <3> HIDE DEF j, r, f
    <3>5. j \in 1..start + F /\ j > start /\ j - start - 1 = r
      BY <1>1, <1>2, <3>2
    <3>6. t[j] = (k * F + (j - start - 1) \in packed)
      BY <1>4, <3>5
    <3>7. t[j] = (at \in packed)
      BY <3>5, <3>6
    <3> HIDE DEF at
    <3>8. (at \in packed) = (p \in stream)
      BY <3>3, <3>4
    <3>9. QED
      BY <3>7, <3>8 DEF j
  <2>5. QED
    BY <2>3, <2>4
<1>9. QED
  BY <1>7, <1>8 DEF StoredRight, next, t, packed

\* The units written of a block.
Written(del, stream, units) ==
  /\ units \in Seq(BOOLEAN) /\ Len(units) = Before(del, op.fields)
  /\ \A p \in Not(del) : units[Rank(del, p)] = (p \in stream)

LEMMA WrittenIs ==
  ASSUME NEW del, NEW stream, Sized, stream \subseteq 0..W - 1
  PROVE  Written(del, stream, CompressedOutput(Packed(del, stream), CountsOf(del)))
<1> DEFINE packed == Packed(del, stream)
           counts == CountsOf(del)
           stored == CHOOSE f : StoreFunction(packed, counts, f)
           n == op.fields
           T == {k \in 0..n : ~StoredRight(del, stream, k, stored[k])}
<1>1. CompressedOutput(packed, counts) = SubSeq(stored[n], 1, Offset(counts, n))
  BY DEF CompressedOutput, StoreFunction, StoreStep, Offset
<1>2. StoreFunction(packed, counts, stored)
  BY StoreFunctionExists
<1> HIDE DEF stored
<1>3. n \in Nat \ {0} /\ W \in Nat
  BY SizedIs DEF Sized
<1>4. \A k \in 0..n : stored[k] = IF k = 0 THEN << >> ELSE StoreStep(k, counts, packed, stored[k - 1])
  BY <1>2 DEF StoreFunction
<1>5. ASSUME NEW s PROVE StoredRight(del, stream, 0, s)
  <2>1. Before(del, 0) = 0
    <3>1. 0 \in 0..op.fields - 1
      BY <1>3
    <3>2. QED
      BY <3>1, BeforeGrows
  <2>2. ASSUME NEW p \in Not(del) PROVE ~(p \div F < 0)
    <3>1. p \in 0..W - 1
      BY DEF Not
    <3> DEFINE f == p \div F
    <3>2. f \in 0..n - 1
      BY <3>1, StartIs
    <3> HIDE DEF f
    <3>3. ~(f < 0)
      BY <1>3, <3>2
    <3>4. QED
      BY <3>3 DEF f
  <2>3. QED
    BY <2>1, <2>2 DEF StoredRight
<1> HIDE DEF packed, counts
<1>6. T = {}
  <2>1. SUFFICES ASSUME T # {} PROVE FALSE
    OBVIOUS
  <2>2. PICK k \in T : \A j \in T : k <= j
    <3>1. T \subseteq Nat
      BY <1>3
    <3> HIDE DEF T
    <3>2. QED
      BY <2>1, <3>1, LeastNatural
  <2>3. k \in 0..n /\ ~StoredRight(del, stream, k, stored[k])
    BY <2>2
  <2>4. k # 0
    BY <1>5, <2>3
  <2> DEFINE j == k - 1
  <2>5. j \in 0..n - 1 /\ j \in 0..n /\ j + 1 = k /\ ~(k <= j)
    BY <1>3, <2>3, <2>4
  <2>6. stored[k] = StoreStep(k, counts, packed, stored[j])
    BY <1>4, <2>3, <2>4
  <2> HIDE DEF j
  <2>7. StoredRight(del, stream, j, stored[j])
    <3>1. j \notin T
      <4> HIDE DEF T
      <4>1. QED
        BY <2>2, <2>5
    <3>2. QED
      BY <2>5, <3>1
  <2> DEFINE s == stored[j]
  <2> HIDE DEF s, n
  <2>8. StoredRight(del, stream, j + 1, StoreStep(j + 1, counts, packed, s))
    BY <2>5, <2>7, StoreNext DEF s, counts, packed, n
  <2>9. QED
    BY <2>3, <2>5, <2>6, <2>8 DEF s
<1>7. StoredRight(del, stream, n, stored[n])
  <2>1. n \in 0..n
    BY <1>3
  <2>2. QED
    BY <1>6, <2>1
<1> DEFINE size == Before(del, n)
           s == stored[n]
           units == SubSeq(s, 1, size)
<1>8. Offset(counts, n) = size
  <2>1. n \in 0..op.fields
    BY <1>3
  <2>2. QED
    BY <2>1, OffsetIs DEF counts
<1>9. size \in Nat
  <2> DEFINE k == n - 1
  <2>1. k \in 0..op.fields - 1 /\ k + 1 = n
    BY <1>3
  <2> HIDE DEF k
  <2>2. Before(del, k + 1) \in Nat
    BY <2>1, BeforeGrows
  <2>3. QED
    BY <2>1, <2>2
<1>10. \A j \in 1..size : s[j] \in BOOLEAN
  BY <1>7 DEF StoredRight
<1>11. \A p \in Not(del) : Rank(del, p) \in 1..size /\ s[Rank(del, p)] = (p \in stream)
  <2>1. ASSUME NEW p \in Not(del) PROVE Rank(del, p) \in 1..size /\ s[Rank(del, p)] = (p \in stream)
    <3>1. p \in 0..W - 1 /\ n \in 0..op.fields
      BY <1>3 DEF Not
    <3>2. p \div F < n
      <4> DEFINE f == p \div F
      <4>1. f \in 0..n - 1
        BY <3>1, StartIs
      <4> HIDE DEF f
      <4>2. f < n
        BY <1>3, <4>1
      <4>3. QED
        BY <4>2 DEF f
    <3>3. Rank(del, p) \in 1..size
      BY <3>1, <3>2, RankWithin
    <3>4. s[Rank(del, p)] = (p \in stream)
      BY <1>7, <3>2 DEF StoredRight
    <3>5. QED
      BY <3>3, <3>4
  <2>2. QED
    BY <2>1
<1> HIDE DEF size, s
<1>12. units \in Seq(BOOLEAN) /\ Len(units) = size /\ \A i \in 1..size : units[i] = s[i]
  <2>1. 1 \in Int /\ size \in Int
    BY <1>9
  <2>2. /\ units \in Seq(BOOLEAN) /\ Len(units) = IF 1 <= size THEN size - 1 + 1 ELSE 0
        /\ \A i \in 1..size - 1 + 1 : units[i] = s[1 + i - 1]
    BY <1>10, <2>1, SubSeqProperties
  <2> HIDE DEF units
  <2>3. Len(units) = size
    BY <1>9, <2>2
  <2>4. ASSUME NEW i \in 1..size PROVE units[i] = s[i]
    <3>1. i \in 1..size - 1 + 1 /\ 1 + i - 1 = i
      BY <1>9
    <3>2. QED
      BY <2>2, <3>1
  <2>5. QED
    BY <2>2, <2>3, <2>4
<1> HIDE DEF units
<1>13. \A p \in Not(del) : units[Rank(del, p)] = (p \in stream)
  BY <1>11, <1>12
<1>14. Written(del, stream, units)
  BY <1>12, <1>13 DEF Written, size, n
<1>15. QED
  BY <1>1, <1>8, <1>14 DEF units, s, packed, counts

\* A deletion writes the positions that are kept, in their order.
LEMMA DeleteWrites ==
  ASSUME NEW del, NEW stream, Sized, stream \subseteq 0..W - 1
  PROVE  Written(del, stream, delete(stream, del))
<1> DEFINE masks == parallel_prefix_deletion_masks(del)
<1>1. MasksAreMoves(del, masks)
  BY MasksAre
<1> HIDE DEF masks
<1>2. apply_parallel_prefix_deletion(del, masks, stream) = Packed(del, stream)
  BY <1>1, AppliedIs
<1>3. partial_sum_popcount(Not(del)) = CountsOf(del)
  <2>1. Not(del) \subseteq 0..W - 1
    BY DEF Not
  <2>2. QED
    BY <2>1, PartialSumIs DEF CountsOf
<1>4. delete(stream, del) = CompressedOutput(Packed(del, stream), CountsOf(del))
  BY <1>2, <1>3 DEF delete, masks
<1>5. QED
  BY <1>4, WrittenIs

-----------------------------------------------------------------------------
(* The deletion of the positions of a block.                                 *)

KeptOf(cc, end) == {p \in 0..end - 1 : p \notin cc}

\* What is written of a block, as the property says it.
WritesKept(m, cc, end, units) ==
  /\ units \in Seq(BOOLEAN)
  /\ Len(units) = Cardinality(KeptOf(cc, end))
  /\ \A p \in KeptOf(cc, end) : units[Cardinality({q \in KeptOf(cc, end) : q <= p})] = (p \in m)

LEMMA DeletionIs ==
  ASSUME NEW m, NEW cc, NEW end \in 0..W, Sized, m \subseteq 0..W - 1
  PROVE  WritesKept(m, cc, end, delete(m, cc \union EOF_del(end)))
<1> DEFINE del == cc \union EOF_del(end)
           units == delete(m, del)
           kept == KeptOf(cc, end)
           n == op.fields
           top == W - 1
<1>1. W \in Nat \ {0} /\ F \in Nat \ {0} /\ n \in Nat \ {0} /\ W = F * n
  BY SizedIs DEF Sized
<1>2. Not(del) = kept
  <2>1. ASSUME NEW p \in 0..W - 1 PROVE p \in Not(del) <=> p \in kept
    <3>1. p \in EOF_del(end) <=> p >= end
      BY DEF EOF_del
    <3>2. QED
      BY <1>1, <3>1 DEF Not, KeptOf
  <2>2. Not(del) \subseteq 0..W - 1 /\ kept \subseteq 0..W - 1
    BY <1>1 DEF Not, KeptOf
  <2>3. QED
    BY <2>1, <2>2
<1>3. Written(del, m, units)
  <2> HIDE DEF del
  <2>1. QED
    BY DeleteWrites
<1> HIDE DEF units, del
<1>4. units \in Seq(BOOLEAN) /\ Len(units) = Before(del, n)
  BY <1>3 DEF Written
<1>5. \A p \in kept : units[Rank(del, p)] = (p \in m)
  BY <1>2, <1>3 DEF Written
<1>6. Before(del, n) = Cardinality(kept)
  <2>1. n - 1 + 1 = n /\ F * 0 = 0 /\ F * n - 1 = top
    BY <1>1
  <2>2. Before(del, n) = Ones(kept, 0, top)
    BY <1>2, <2>1 DEF Before, InFields
  <2>3. {x \in 0..top : x \in kept} = kept
    BY <1>1 DEF KeptOf
  <2>4. QED
    BY <2>2, <2>3 DEF Ones
<1>7. ASSUME NEW p \in kept PROVE Rank(del, p) = Cardinality({q \in kept : q <= p})
  <2>1. {x \in 0..p : x \in kept} = {q \in kept : q <= p}
    BY DEF KeptOf
  <2>2. QED
    BY <1>2, <2>1 DEF Rank, Ones
<1>8. \A p \in kept : units[Cardinality({q \in kept : q <= p})] = (p \in m)
  BY <1>5, <1>7
<1>9. QED
  BY <1>4, <1>6, <1>8 DEF WritesKept, units, del

Deleting == op.name = "delete"

DeleteInv ==
  Deleting /\ pc = "next" => WritesKept(input.stream, input.class, input.end, result)

KInv == op \in Ops /\ DeleteInv

LEMMA DeleteSized ==
  ASSUME op \in Ops
  PROVE  Sized
BY OpsAssumption DEF Sized

LEMMA DeleteRead ==
  ASSUME KInv, ReadBlock
  PROVE  KInv'
<1>1. op' = op /\ op \in Ops
  BY DEF KInv, ReadBlock
<1>2. SUFFICES ASSUME Deleting PROVE DeleteInv'
  BY <1>1 DEF KInv, DeleteInv, Deleting
<1>3. PICK m \in Block, cc \in Block, end \in 0..W :
        /\ input' = [stream |-> m, class |-> cc, end |-> end]
        /\ result' = Compute(m, cc, end).sum
  <2>1. TakesClass
    BY <1>2 DEF TakesClass, Deleting
  <2>2. QED
    BY <1>2, <2>1 DEF ReadBlock, Deleting
<1>4. Compute(m, cc, end).sum = delete(m, cc \union EOF_del(end))
  BY <1>2 DEF Compute, Deleting
<1>5. WritesKept(m, cc, end, delete(m, cc \union EOF_del(end)))
  <2>1. Sized /\ m \subseteq 0..W - 1
    BY <1>1, DeleteSized DEF Block
  <2>2. QED
    BY <2>1, DeletionIs
<1> DEFINE units == delete(m, cc \union EOF_del(end))
<1>6. result' = units /\ input'.stream = m /\ input'.class = cc /\ input'.end = end
  BY <1>3, <1>4
<1> HIDE DEF units
<1>7. WritesKept(m, cc, end, units)
  BY <1>5 DEF units
<1>8. WritesKept(input.stream, input.class, input.end, result)'
  BY <1>6, <1>7 DEF WritesKept, KeptOf
<1>9. QED
  BY <1>8 DEF DeleteInv

LEMMA DeleteKeeps ==
  ASSUME KInv, [Next]_vars
  PROVE  KInv'
<1>1. CASE ReadBlock
  BY <1>1, DeleteRead
<1>2. CASE NextBlock
  BY <1>2 DEF NextBlock, KInv, DeleteInv
<1>3. CASE UNCHANGED vars
  <2>1. op' = op /\ input' = input /\ result' = result /\ pc' = pc
    BY <1>3 DEF vars
  <2>2. WritesKept(input.stream, input.class, input.end, result)'
          <=> WritesKept(input.stream, input.class, input.end, result)
    BY <2>1 DEF WritesKept, KeptOf
  <2>3. QED
    BY <2>1, <2>2 DEF KInv, DeleteInv, Deleting
<1>4. QED
  BY <1>1, <1>2, <1>3 DEF Next

\* Whatever the size of fields and blocks, of each block exactly the units that are not
\* deleted and lie before the end are written, in their order.
THEOREM DeletionsKeepTheRest == Spec => []DeletionKeepsTheRest
<1>1. Init => KInv
  BY DEF Init, KInv, DeleteInv
<1>2. KInv /\ [Next]_vars => KInv'
  BY DeleteKeeps
<1>3. KInv => DeletionKeepsTheRest
  BY DEF KInv, DeleteInv, Deleting, DeletionKeepsTheRest, WritesKept, KeptOf
<1>4. QED
  BY <1>1, <1>2, <1>3, PTL DEF Spec

-----------------------------------------------------------------------------
(* The types.                                                                *)

TInv == TypeOK /\ SInv /\ IInv /\ RInv /\ KInv

LEMMA TypesSized ==
  ASSUME op \in Ops
  PROVE  /\ W \in Nat \ {0} /\ MaxRing \in Nat \ {0} /\ PastBlocks(op) \in Nat
         /\ op.name \in {"MatchStar", "ScanThru", "Advance", "consecutive", "reachable", "bounded",
                         "delete"}
<1>1. /\ op.n \in Nat /\ MaxRing \in Nat \ {0}
      /\ op.name \in {"MatchStar", "ScanThru", "Advance", "consecutive", "reachable", "bounded",
                      "delete"}
  BY OpsAssumption
<1>2. W \in Nat \ {0}
  BY DeleteSized, SizedIs
<1>3. PastBlocks(op) \in Nat
  <2>1. Entries(op, op.n) \in Nat
    BY <1>1, EntriesCover
  <2>2. QED
    BY <2>1 DEF PastBlocks
<1>4. QED
  BY <1>1, <1>2, <1>3

LEMMA TypesInit ==
  ASSUME Init
  PROVE  TypeOK
<1>1. op \in Ops /\ input = NoInput /\ result = {} /\ carry = NoCarry(op) /\ blockNo = 0
      /\ pc = "read" /\ past = [k \in 1..PastBlocks(op) |-> NoInput] /\ open = FALSE
  BY DEF Init
<1>2. W \in Nat /\ MaxRing \in Nat \ {0}
  BY <1>1, TypesSized
<1>3. NoInput \in [stream : Block, class : Block, end : 0..W]
  <2>1. {} \in Block /\ W \in 0..W
    BY <1>2 DEF Block
  <2>2. QED
    BY <2>1 DEF NoInput
<1>4. result \in Block
  BY <1>1 DEF Block
<1>5. op.name \in {"MatchStar", "ScanThru"} => carry = {}
  BY <1>1 DEF NoCarry
<1>6. past \in [1..PastBlocks(op) -> [stream : Block, class : Block, end : 0..W]]
  BY <1>1, <1>3
<1>7. blockNo \in 0..MaxRing - 1 /\ open \in BOOLEAN
  <2>1. blockNo = 0 /\ open = FALSE
    BY <1>1
  <2>2. 0 \in 0..MaxRing - 1
    <3> DEFINE m == MaxRing
    <3>1. m \in Nat \ {0}
      BY <1>2
    <3> HIDE DEF m
    <3>2. 0 \in 0..m - 1
      BY <3>1
    <3>3. QED
      BY <3>2 DEF m
  <2>3. QED
    BY <2>1, <2>2, Zenon
<1>8. op.name \in {"MatchStar", "ScanThru"} => carry \in {{}, {0}}
  BY <1>5
<1>9. IF op.name = "delete" /\ pc = "next" THEN result \in Seq(BOOLEAN) ELSE result \in Block
  BY <1>1, <1>4
<1>10. input \in [stream : Block, class : Block, end : 0..W] /\ pc \in {"read", "next"} /\ op \in Ops
  BY <1>1, <1>3
<1>11. QED
  BY <1>6, <1>7, <1>8, <1>9, <1>10, Zenon DEF TypeOK

\* After a block the result is one of the positions of a block, or what is written of them.
LEMMA ResultTyped ==
  ASSUME op' = op, op \in Ops, pc' = "next", SInv', IInv', RInv', KInv'
  PROVE  IF op.name = "delete" THEN result' \in Seq(BOOLEAN) ELSE result' \subseteq 0..W - 1
<1> DEFINE w == W
<1>6. W' = w
  BY DEF W
<1>1. CASE op.name = "delete"
  BY <1>1 DEF KInv, DeleteInv, Deleting, WritesKept
<1>2. CASE op.name = "MatchStar" \/ op.name = "ScanThru"
  <2>1. ScansCrossBlocks'
    BY <1>2 DEF SInv, ScanInv, Scanning
  <2>2. Reached(input.stream, input.class)' \subseteq 0..w - 1
    BY <1>6 DEF Reached
  <2>3. QED
    BY <1>2, <2>1, <2>2 DEF ScansCrossBlocks
<1>3. CASE op.name = "Advance"
  <2>1. AdvancesCrossBlocks'
    BY <1>3 DEF IInv, AdvanceInv, Advancing
  <2>2. QED
    BY <1>3, <1>6, <2>1 DEF AdvancesCrossBlocks
<1>4. CASE op.name = "consecutive" \/ op.name = "reachable" \/ op.name = "bounded"
  <2>1. RepetitionsCountRight'
    BY <1>4 DEF RInv, RepeatInv, Repeating
  <2>2. CASE op.name = "consecutive"
    BY <1>6, <2>1, <2>2, Zenon DEF RepetitionsCountRight
  <2>3. CASE op.name = "reachable"
    BY <1>6, <2>1, <2>3, Zenon DEF RepetitionsCountRight
  <2>4. CASE op.name = "bounded"
    BY <1>6, <2>1, <2>4, Zenon DEF RepetitionsCountRight
  <2>5. QED
    BY <1>4, <2>2, <2>3, <2>4
<1>5. QED
  BY <1>1, <1>2, <1>3, <1>4, TypesSized

ResultType == IF op.name = "delete" /\ pc = "next" THEN result \in Seq(BOOLEAN) ELSE result \in Block
ScanCarryType == op.name \in {"MatchStar", "ScanThru"} => carry \in {{}, {0}}

LEMMA TypesAre ==
  TypeOK <=> /\ op \in Ops /\ input \in Inputs /\ ResultType /\ ScanCarryType
             /\ blockNo \in 0..MaxRing - 1 /\ pc \in {"read", "next"} /\ open \in BOOLEAN
             /\ past \in [1..PastBlocks(op) -> Inputs]
<1>1. [stream : Block, class : Block, end : 0..W] = Inputs
  BY DEF Block, Inputs
<1>2. QED
  BY <1>1, Zenon DEF TypeOK, ResultType, ScanCarryType

LEMMA TypesAreNext ==
  TypeOK' <=> /\ (op \in Ops)' /\ (input \in Inputs)' /\ ResultType' /\ ScanCarryType'
              /\ (blockNo \in 0..MaxRing - 1)' /\ (pc \in {"read", "next"})' /\ (open \in BOOLEAN)'
              /\ (past \in [1..PastBlocks(op) -> Inputs])'
<1>1. [stream : Block, class : Block, end : 0..W]' = Inputs'
  BY DEF Block, Inputs
<1>2. QED
  BY <1>1, Zenon DEF TypeOK, ResultType, ScanCarryType

LEMMA TypesRead ==
  ASSUME TInv, ReadBlock, SInv', IInv', RInv', KInv'
  PROVE  TypeOK'
<1>1. /\ op' = op /\ op \in Ops /\ blockNo' = blockNo /\ open' = open /\ past' = past
      /\ pc' = "next"
  BY DEF ReadBlock, TInv, TypeOK
<1>2. W' = W /\ Inputs' = Inputs /\ PastBlocks(op)' = PastBlocks(op)
  BY <1>1 DEF W, Inputs, PastBlocks, Entries
<1>3. W \in Nat
  BY <1>1, TypesSized
<1>4. PICK m \in Block, cc \in (IF TakesClass THEN Block ELSE {{}}),
           end \in (IF op.name = "delete" THEN 0..W ELSE {W}) :
        input' = [stream |-> m, class |-> cc, end |-> end]
  BY DEF ReadBlock
<1>5. input' \in Inputs
  <2>1. cc \in Block /\ end \in 0..W
    BY <1>3 DEF Block
  <2>2. QED
    BY <1>4, <2>1 DEF Block, Inputs
<1>6. ResultType'
  <2>1. IF op.name = "delete" THEN result' \in Seq(BOOLEAN) ELSE result' \subseteq 0..W - 1
    BY <1>1, ResultTyped
  <2>2. Block' = SUBSET (0..W - 1)
    BY <1>2 DEF Block
  <2>3. QED
    BY <1>1, <2>1, <2>2 DEF ResultType
<1>7. ScanCarryType'
  BY <1>1 DEF SInv, ScanInv, Scanning, CarryIsScan, ScanCarryType
<1>8. blockNo \in 0..MaxRing - 1 /\ open \in BOOLEAN /\ past \in [1..PastBlocks(op) -> Inputs]
  BY TypesAre, Zenon DEF TInv
<1>9. QED
  BY <1>1, <1>2, <1>5, <1>6, <1>7, <1>8, TypesAreNext

LEMMA TypesNext ==
  ASSUME TInv, NextBlock, SInv'
  PROVE  TypeOK'
<1>1. /\ op' = op /\ op \in Ops /\ input' = NoInput /\ result' = {} /\ pc' = "read"
      /\ past' = Pushed(past, input)
  BY DEF NextBlock, TInv, TypeOK, Pushed
<1>2. W' = W /\ Inputs' = Inputs /\ PastBlocks(op)' = PastBlocks(op)
  BY <1>1 DEF W, Inputs, PastBlocks, Entries
<1>3. W \in Nat \ {0} /\ MaxRing \in Nat \ {0} /\ PastBlocks(op) \in Nat
  BY <1>1, TypesSized
<1>4. /\ input \in Inputs /\ blockNo \in 0..MaxRing - 1
      /\ past \in [1..PastBlocks(op) -> Inputs]
  BY TypesAre, Zenon DEF TInv
<1>5. past' \in [1..PastBlocks(op) -> Inputs]
  <2> DEFINE n == PastBlocks(op)
             S == Inputs
             new == Pushed(past, input)
  <2> HIDE DEF n, S
  <2>1. past \in Seq(S) /\ Len(past) = n
    BY <1>3, <1>4 DEF n, S
  <2>2. new \in Seq(S) /\ Len(new) = Len(past)
    BY <1>4, <2>1, PushedIs DEF S
  <2> HIDE DEF new
  <2>3. new \in [1..n -> S]
    BY <2>1, <2>2
  <2>4. QED
    BY <1>1, <2>3 DEF n, S, new
<1>6. NoInput \in Inputs
  <2>1. W \in 0..W
    BY <1>3
  <2>2. QED
    BY <2>1 DEF NoInput, Inputs
<1>7. blockNo' \in 0..MaxRing - 1 /\ open' \in BOOLEAN
  <2>1. (blockNo + 1) % MaxRing \in 0..MaxRing - 1 /\ 0 \in 0..MaxRing - 1
    BY <1>3, <1>4
  <2>2. open' \in BOOLEAN
    BY DEF NextBlock
  <2>3. QED
    BY <2>1, <2>2 DEF NextBlock
<1>8. ResultType'
  BY <1>1 DEF ResultType, Block
<1>9. ScanCarryType'
  BY <1>1 DEF SInv, ScanInv, Scanning, CarryIsScan, ScanCarryType
<1>10. QED
  <2>1. (op \in Ops)' /\ (pc \in {"read", "next"})'
    BY <1>1
  <2>2. (input \in Inputs)' /\ (past \in [1..PastBlocks(op) -> Inputs])'
    BY <1>1, <1>2, <1>5, <1>6
  <2>3. QED
    BY <1>7, <1>8, <1>9, <2>1, <2>2, TypesAreNext

LEMMA TypesSame ==
  ASSUME TypeOK, UNCHANGED vars
  PROVE  TypeOK'
<1>1. /\ op' = op /\ input' = input /\ result' = result /\ carry' = carry /\ blockNo' = blockNo
      /\ pc' = pc /\ past' = past /\ open' = open
  BY DEF vars
<1>2. W' = W /\ Inputs' = Inputs /\ PastBlocks(op)' = PastBlocks(op)
  BY <1>1 DEF W, Inputs, PastBlocks, Entries
<1>3. ResultType' <=> ResultType
  BY <1>1, <1>2 DEF ResultType, Block
<1>4. ScanCarryType' <=> ScanCarryType
  BY <1>1 DEF ScanCarryType
<1>5. QED
  BY <1>1, <1>2, <1>3, <1>4, TypesAre, TypesAreNext

\* Blocks and results stay within their width, carries of additions are at most one bit,
\* and the circular buffers turn within their bound.
THEOREM TypeCorrect == Spec => []TypeOK
<1>1. Init => TInv
  BY ScanInit, InitInv, RepeatInit, TypesInit DEF TInv, Init, KInv, DeleteInv
<1>2. TInv /\ [Next]_vars => TInv'
  <2>1. SUFFICES ASSUME TInv, [Next]_vars PROVE TInv'
    OBVIOUS
  <2>2. KInv'
    BY <2>1, DeleteKeeps DEF TInv
  <2>3. CASE ReadBlock
    <3>1. SInv' /\ IInv' /\ RInv'
      BY <2>1, <2>3, ScanRead, ReadBlockInv, RepeatRead DEF TInv
    <3>2. QED
      BY <2>1, <2>2, <2>3, <3>1, TypesRead DEF TInv
  <2>4. CASE NextBlock
    <3>1. SInv' /\ IInv' /\ RInv'
      BY <2>1, <2>4, ScanNext, NextBlockInv, RepeatNext DEF TInv
    <3>2. QED
      BY <2>1, <2>2, <2>4, <3>1, TypesNext DEF TInv
  <2>5. CASE UNCHANGED vars
    <3>1. SInv' /\ IInv' /\ RInv'
      BY <2>1, <2>5, ScanSame, AdvanceSame, RepeatSame DEF TInv
    <3>2. QED
      BY <2>1, <2>2, <2>5, <3>1, TypesSame DEF TInv
  <2>6. QED
    BY <2>1, <2>3, <2>4, <2>5 DEF Next
<1>3. TInv => TypeOK
  BY DEF TInv
<1>4. QED
  BY <1>1, <1>2, <1>3, PTL DEF Spec
=============================================================================
