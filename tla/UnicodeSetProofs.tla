-------------------------- MODULE UnicodeSetProofs --------------------------
(* Proofs about UnicodeSet and its iterator, for quads of every size, code   *)
(* point spaces of every size and any lists of intervals.                    *)
EXTENDS UnicodeSetIterator, ProofFacts, SequenceTheorems

-----------------------------------------------------------------------------
(* The sums of the lengths of runs.                                          *)

RunTypes == {Empty, Mixed, Full}
Runs == [type : RunTypes, length : Int]
MixedLength(run) == IF run.type = Mixed THEN run.length ELSE 0

LengthSums(u, n, f) == f = [j \in 1..n + 1 |-> IF j = 1 THEN 0 ELSE f[j - 1] + u[j - 1]]

LEMMA LengthSumsExist ==
  ASSUME NEW u
  PROVE  \A n \in Nat : \E f : LengthSums(u, n, f)
<1> DEFINE T == {n \in Nat : ~\E f : LengthSums(u, n, f)}
<1>1. SUFFICES ASSUME T # {} PROVE FALSE
  OBVIOUS
<1>2. PICK n \in T : \A k \in T : n <= k
  BY <1>1, LeastNatural
<1>3. CASE n = 0
  <2> DEFINE f == [j \in 1..1 |-> 0]
             g == [j \in 1..0 + 1 |-> IF j = 1 THEN 0 ELSE f[j - 1] + u[j - 1]]
  <2>1. \A j \in 1..1 : f[j] = g[j]
    OBVIOUS
  <2>2. f = [j \in 1..1 |-> f[j]] /\ g = [j \in 1..1 |-> g[j]]
    OBVIOUS
  <2> HIDE DEF f, g
  <2>3. f = g
    BY <2>1, <2>2
  <2>4. LengthSums(u, 0, f)
    BY <2>3 DEF LengthSums, g
  <2>5. QED
    BY <1>2, <1>3, <2>4
<1>4. CASE n # 0
  <2>1. n - 1 \in Nat /\ n \in Nat
    BY <1>2, <1>4
  <2>2. n - 1 \notin T
    BY <1>2, <2>1
  <2>3. PICK f : LengthSums(u, n - 1, f)
    BY <2>1, <2>2
  <2> DEFINE g == [j \in 1..n + 1 |-> IF j = 1 THEN 0 ELSE f[j - 1] + u[j - 1]]
             h == [j \in 1..n + 1 |-> IF j = 1 THEN 0 ELSE g[j - 1] + u[j - 1]]
  <2>4. \A j \in 1..n : g[j] = f[j]
    <3>1. (n - 1) + 1 = n
      BY <2>1
    <3>2. \A j \in 1..n : f[j] = IF j = 1 THEN 0 ELSE f[j - 1] + u[j - 1]
      BY <2>3, <3>1 DEF LengthSums
    <3>3. QED
      BY <2>1, <3>2
  <2>5. \A j \in 1..n + 1 : g[j] = h[j]
    <3>1. ASSUME NEW j \in 1..n + 1, j # 1 PROVE g[j - 1] = f[j - 1]
      <4>1. j - 1 \in 1..n
        BY <2>1, <3>1
      <4> HIDE DEF g, h
      <4>2. QED
        BY <2>4, <4>1
    <3>2. QED
      BY <3>1
  <2>6. g = [j \in 1..n + 1 |-> g[j]] /\ h = [j \in 1..n + 1 |-> h[j]]
    OBVIOUS
  <2> HIDE DEF g, h
  <2>7. g = h
    BY <2>5, <2>6
  <2>8. LengthSums(u, n, g)
    BY <2>7 DEF LengthSums, h
  <2>9. QED
    BY <1>2, <2>8
<1>5. QED
  BY <1>3, <1>4

\* A run adds its length.
LEMMA QuadsBeforeIs ==
  ASSUME NEW runs \in Seq(Runs)
  PROVE  /\ QuadsBefore(runs, 1) = 0
         /\ \A k \in 1..Len(runs) : QuadsBefore(runs, k + 1) = QuadsBefore(runs, k) + runs[k].length
         /\ \A k \in 1..Len(runs) + 1 : QuadsBefore(runs, k) \in Int
<1> DEFINE n == Len(runs)
           u == [k \in 1..n |-> runs[k].length]
           f == CHOOSE f : f = [j \in 1..n + 1 |-> IF j = 1 THEN 0 ELSE f[j - 1] + runs[j - 1].length]
<1>1. n \in Nat /\ \A k \in 1..n : u[k] = runs[k].length /\ u[k] \in Int
  <2>1. n \in Nat /\ \A k \in 1..n : runs[k] \in Runs
    OBVIOUS
  <2>2. \A k \in 1..n : runs[k].length \in Int
    BY <2>1 DEF Runs
  <2>3. QED
    BY <2>1, <2>2
<1>2. \A k : QuadsBefore(runs, k) = f[k]
  BY DEF QuadsBefore
<1> HIDE DEF n, u
<1>3. PICK g : LengthSums(u, n, g)
  BY <1>1, LengthSumsExist
<1>4. g = [j \in 1..n + 1 |-> IF j = 1 THEN 0 ELSE g[j - 1] + runs[j - 1].length]
  <2> DEFINE a == [j \in 1..n + 1 |-> IF j = 1 THEN 0 ELSE g[j - 1] + u[j - 1]]
             b == [j \in 1..n + 1 |-> IF j = 1 THEN 0 ELSE g[j - 1] + runs[j - 1].length]
  <2>1. g = a
    BY <1>3 DEF LengthSums
  <2>2. \A j \in 1..n + 1 : j # 1 => u[j - 1] = runs[j - 1].length
    BY <1>1
  <2>3. \A j \in 1..n + 1 : a[j] = b[j]
    BY <2>2
  <2>4. a = [j \in 1..n + 1 |-> a[j]] /\ b = [j \in 1..n + 1 |-> b[j]]
    OBVIOUS
  <2> HIDE DEF a, b
  <2>5. g = b
    BY <2>1, <2>3, <2>4
  <2>6. QED
    BY <2>5 DEF b
<1>5. f = [j \in 1..n + 1 |-> IF j = 1 THEN 0 ELSE f[j - 1] + runs[j - 1].length]
  BY <1>4 DEF n
<1> HIDE DEF f
<1>6. f[1] = 0 /\ \A k \in 1..n : f[k + 1] = f[k] + runs[k].length
  BY <1>1, <1>5
<1>7. \A k \in 1..n + 1 : f[k] \in Int
  <2> DEFINE T == {k \in 1..n + 1 : f[k] \notin Int}
  <2>1. SUFFICES ASSUME T # {} PROVE FALSE
    OBVIOUS
  <2>2. PICK k \in T : \A j \in T : k <= j
    <3>1. T \subseteq Nat
      BY <1>1
    <3>2. QED
      BY <2>1, <3>1, LeastNatural
  <2>3. k # 1 /\ k \in 1..n + 1
    BY <1>6, <2>2
  <2>4. k - 1 \in 1..n /\ k - 1 \notin T /\ (k - 1) + 1 = k
    BY <1>1, <2>2, <2>3
  <2>5. f[k] = f[k - 1] + runs[k - 1].length /\ f[k - 1] \in Int /\ runs[k - 1].length \in Int
    BY <1>1, <1>6, <2>4, SMTT(30)
  <2>6. QED
    BY <2>2, <2>5
<1>8. QED
  BY <1>1, <1>2, <1>6, <1>7 DEF n

\* A Mixed run adds its length.
LEMMA MixedBeforeIs ==
  ASSUME NEW runs \in Seq(Runs)
  PROVE  /\ MixedBefore(runs, 1) = 0
         /\ \A k \in 1..Len(runs) : MixedBefore(runs, k + 1) = MixedBefore(runs, k) + MixedLength(runs[k])
         /\ \A k \in 1..Len(runs) + 1 : MixedBefore(runs, k) \in Int
<1> DEFINE n == Len(runs)
           u == [k \in 1..n |-> MixedLength(runs[k])]
           f == CHOOSE f : f = [j \in 1..n + 1 |-> IF j = 1 THEN 0 ELSE f[j - 1] + (IF runs[j - 1].type = Mixed THEN runs[j - 1].length ELSE 0)]
<1>1. n \in Nat /\ \A k \in 1..n : u[k] = MixedLength(runs[k]) /\ u[k] \in Int
  <2>1. n \in Nat /\ \A k \in 1..n : runs[k] \in Runs
    OBVIOUS
  <2>2. \A k \in 1..n : MixedLength(runs[k]) \in Int
    BY <2>1 DEF Runs, MixedLength
  <2>3. QED
    BY <2>1, <2>2
<1>2. \A k : MixedBefore(runs, k) = f[k]
  BY DEF MixedBefore
<1> HIDE DEF n, u
<1>3. PICK g : LengthSums(u, n, g)
  BY <1>1, LengthSumsExist
<1>4. g = [j \in 1..n + 1 |-> IF j = 1 THEN 0 ELSE g[j - 1] + (IF runs[j - 1].type = Mixed THEN runs[j - 1].length ELSE 0)]
  <2> DEFINE a == [j \in 1..n + 1 |-> IF j = 1 THEN 0 ELSE g[j - 1] + u[j - 1]]
             b == [j \in 1..n + 1 |-> IF j = 1 THEN 0 ELSE g[j - 1] + (IF runs[j - 1].type = Mixed THEN runs[j - 1].length ELSE 0)]
  <2>1. g = a
    BY <1>3 DEF LengthSums
  <2>2. \A j \in 1..n + 1 : j # 1 => u[j - 1] = (IF runs[j - 1].type = Mixed THEN runs[j - 1].length ELSE 0)
    BY <1>1 DEF MixedLength
  <2>3. \A j \in 1..n + 1 : a[j] = b[j]
    BY <2>2
  <2>4. a = [j \in 1..n + 1 |-> a[j]] /\ b = [j \in 1..n + 1 |-> b[j]]
    OBVIOUS
  <2> HIDE DEF a, b
  <2>5. g = b
    BY <2>1, <2>3, <2>4
  <2>6. QED
    BY <2>5 DEF b
<1>5. f = [j \in 1..n + 1 |-> IF j = 1 THEN 0 ELSE f[j - 1] + (IF runs[j - 1].type = Mixed THEN runs[j - 1].length ELSE 0)]
  BY <1>4 DEF n
<1> HIDE DEF f
<1>6. f[1] = 0 /\ \A k \in 1..n : f[k + 1] = f[k] + MixedLength(runs[k])
  BY <1>1, <1>5 DEF MixedLength
<1>7. \A k \in 1..n + 1 : f[k] \in Int
  <2> DEFINE T == {k \in 1..n + 1 : f[k] \notin Int}
  <2>1. SUFFICES ASSUME T # {} PROVE FALSE
    OBVIOUS
  <2>2. PICK k \in T : \A j \in T : k <= j
    <3>1. T \subseteq Nat
      BY <1>1
    <3>2. QED
      BY <2>1, <3>1, LeastNatural
  <2>3. k # 1 /\ k \in 1..n + 1
    BY <1>6, <2>2
  <2>4. k - 1 \in 1..n /\ k - 1 \notin T /\ (k - 1) + 1 = k
    BY <1>1, <2>2, <2>3
  <2>5. f[k] = f[k - 1] + MixedLength(runs[k - 1]) /\ f[k - 1] \in Int /\ MixedLength(runs[k - 1]) \in Int
    BY <1>1, <1>6, <2>4
  <2>6. QED
    BY <2>2, <2>5
<1>8. QED
  BY <1>1, <1>2, <1>6, <1>7 DEF n

\* What never decreases is not smaller later.
LEMMA NeverDecreasing ==
  ASSUME NEW n \in Nat, NEW h, \A j \in 1..n + 1 : h[j] \in Int,
         \A j \in 1..n : h[j] <= h[j + 1]
  PROVE  \A i, j \in 1..n + 1 : i <= j => h[i] <= h[j]
<1>1. SUFFICES ASSUME NEW i \in 1..n + 1 PROVE \A j \in 1..n + 1 : i <= j => h[i] <= h[j]
  OBVIOUS
<1> DEFINE T == {j \in 1..n + 1 : i <= j /\ ~(h[i] <= h[j])}
<1>2. SUFFICES ASSUME T # {} PROVE FALSE
  OBVIOUS
<1>3. PICK j \in T : \A k \in T : j <= k
  <2>1. T \subseteq Nat
    OBVIOUS
  <2>2. QED
    BY <1>2, <2>1, LeastNatural
<1>4. j \in 1..n + 1 /\ i <= j /\ ~(h[i] <= h[j]) /\ h[i] \in Int /\ h[j] \in Int
  BY <1>3
<1>5. j # i
  BY <1>4
<1>6. j - 1 \in 1..n /\ i <= j - 1 /\ (j - 1) + 1 = j
  BY <1>4, <1>5
<1>7. j - 1 \notin T /\ j - 1 \in 1..n + 1
  BY <1>3, <1>6
<1>8. h[i] <= h[j - 1] /\ h[j - 1] <= h[j] /\ h[j - 1] \in Int
  BY <1>6, <1>7
<1>9. QED
  BY <1>4, <1>8

LEMMA NeverChanging ==
  ASSUME NEW n \in Nat, NEW h, \A j \in 1..n + 1 : h[j] \in Int,
         \A j \in 1..n : h[j + 1] = h[j]
  PROVE  \A j \in 1..n + 1 : h[j] = h[1]
<1> DEFINE g == [j \in 1..n + 1 |-> -h[j]]
<1>1. \A j \in 1..n : h[j] <= h[j + 1]
  OBVIOUS
<1>2. \A i, j \in 1..n + 1 : i <= j => h[i] <= h[j]
  BY <1>1, NeverDecreasing
<1>3. \A j \in 1..n + 1 : g[j] = -h[j]
  OBVIOUS
<1> HIDE DEF g
<1>4. \A j \in 1..n + 1 : g[j] \in Int
  BY <1>3
<1>5. \A j \in 1..n : g[j] <= g[j + 1]
  BY <1>3
<1>6. \A i, j \in 1..n + 1 : i <= j => g[i] <= g[j]
  BY <1>4, <1>5, NeverDecreasing
<1>7. SUFFICES ASSUME NEW j \in 1..n + 1 PROVE h[j] = h[1]
  OBVIOUS
<1>8. h[1] <= h[j] /\ g[1] <= g[j] /\ h[1] \in Int /\ h[j] \in Int
  BY <1>2, <1>6
<1>9. g[1] = -h[1] /\ g[j] = -h[j]
  BY <1>3
<1>10. QED
  BY <1>8, <1>9

\* The sums of a part of the runs are those of the part on its own.
LEMMA QuadsBeforePart ==
  ASSUME NEW runs \in Seq(Runs), NEW part \in Seq(Runs), NEW m \in Nat,
         m + Len(part) <= Len(runs), \A k \in 1..Len(part) : runs[m + k] = part[k]
  PROVE  \A j \in 1..Len(part) + 1 :
           QuadsBefore(runs, m + j) = QuadsBefore(runs, m + 1) + QuadsBefore(part, j)
<1> DEFINE n == Len(part)
           h == [j \in 1..n + 1 |-> QuadsBefore(runs, m + j) - QuadsBefore(part, j)]
<1>1. n \in Nat /\ Len(runs) \in Nat /\ m + n <= Len(runs)
  OBVIOUS
<1>2. /\ QuadsBefore(part, 1) = 0
      /\ \A k \in 1..n : QuadsBefore(part, k + 1) = QuadsBefore(part, k) + part[k].length
      /\ \A k \in 1..n + 1 : QuadsBefore(part, k) \in Int
  BY QuadsBeforeIs
<1>3. /\ \A k \in 1..Len(runs) : QuadsBefore(runs, k + 1) = QuadsBefore(runs, k) + runs[k].length
      /\ \A k \in 1..Len(runs) + 1 : QuadsBefore(runs, k) \in Int
  BY QuadsBeforeIs
<1>4. \A k \in 1..n : part[k].length \in Int /\ runs[m + k] = part[k]
  <2>1. \A k \in 1..n : part[k] \in Runs
    OBVIOUS
  <2>2. QED
    BY <2>1 DEF Runs
<1> HIDE DEF n
<1>5. \A j \in 1..n + 1 : h[j] = QuadsBefore(runs, m + j) - QuadsBefore(part, j)
  OBVIOUS
<1>6. \A j \in 1..n + 1 : QuadsBefore(runs, m + j) \in Int /\ QuadsBefore(part, j) \in Int
  <2>1. \A j \in 1..n + 1 : m + j \in 1..Len(runs) + 1
    BY <1>1
  <2>2. QED
    BY <1>2, <1>3, <2>1
<1> HIDE DEF h
<1>7. \A j \in 1..n + 1 : h[j] \in Int
  BY <1>5, <1>6
<1>8. ASSUME NEW j \in 1..n PROVE h[j + 1] = h[j]
  <2>1. j + 1 \in 1..n + 1 /\ j \in 1..n + 1 /\ m + j \in 1..Len(runs) /\ m + (j + 1) = (m + j) + 1
    BY <1>1
  <2>2. QuadsBefore(runs, m + (j + 1)) = QuadsBefore(runs, m + j) + part[j].length
    BY <1>3, <1>4, <2>1
  <2>3. QuadsBefore(part, j + 1) = QuadsBefore(part, j) + part[j].length
    BY <1>2
  <2>4. h[j + 1] = QuadsBefore(runs, m + (j + 1)) - QuadsBefore(part, j + 1)
    BY <1>5, <2>1
  <2>5. h[j] = QuadsBefore(runs, m + j) - QuadsBefore(part, j)
    BY <1>5, <2>1
  <2>6. part[j].length \in Int /\ QuadsBefore(runs, m + j) \in Int /\ QuadsBefore(part, j) \in Int
    BY <1>4, <1>6, <2>1
  <2>7. QED
    BY <2>2, <2>3, <2>4, <2>5, <2>6
<1>9. \A j \in 1..n + 1 : h[j] = h[1]
  BY <1>1, <1>7, <1>8, NeverChanging
<1>10. h[1] = QuadsBefore(runs, m + 1)
  <2>1. 1 \in 1..n + 1
    BY <1>1
  <2>2. QED
    BY <1>2, <1>5, <1>6, <2>1
<1>11. ASSUME NEW j \in 1..n + 1
       PROVE  QuadsBefore(runs, m + j) = QuadsBefore(runs, m + 1) + QuadsBefore(part, j)
  <2>1. QuadsBefore(runs, m + j) - QuadsBefore(part, j) = QuadsBefore(runs, m + 1)
    BY <1>5, <1>9, <1>10
  <2>2. QuadsBefore(runs, m + j) \in Int /\ QuadsBefore(part, j) \in Int
    BY <1>6
  <2>3. QED
    BY <2>1, <2>2
<1>12. QED
  BY <1>11 DEF n

LEMMA MixedBeforePart ==
  ASSUME NEW runs \in Seq(Runs), NEW part \in Seq(Runs), NEW m \in Nat,
         m + Len(part) <= Len(runs), \A k \in 1..Len(part) : runs[m + k] = part[k]
  PROVE  \A j \in 1..Len(part) + 1 :
           MixedBefore(runs, m + j) = MixedBefore(runs, m + 1) + MixedBefore(part, j)
<1> DEFINE n == Len(part)
           h == [j \in 1..n + 1 |-> MixedBefore(runs, m + j) - MixedBefore(part, j)]
<1>1. n \in Nat /\ Len(runs) \in Nat /\ m + n <= Len(runs)
  OBVIOUS
<1>2. /\ MixedBefore(part, 1) = 0
      /\ \A k \in 1..n : MixedBefore(part, k + 1) = MixedBefore(part, k) + MixedLength(part[k])
      /\ \A k \in 1..n + 1 : MixedBefore(part, k) \in Int
  BY MixedBeforeIs
<1>3. /\ \A k \in 1..Len(runs) : MixedBefore(runs, k + 1) = MixedBefore(runs, k) + MixedLength(runs[k])
      /\ \A k \in 1..Len(runs) + 1 : MixedBefore(runs, k) \in Int
  BY MixedBeforeIs
<1>4. \A k \in 1..n : MixedLength(part[k]) \in Int /\ runs[m + k] = part[k]
  <2>1. \A k \in 1..n : part[k] \in Runs
    OBVIOUS
  <2>2. QED
    BY <2>1 DEF Runs, MixedLength
<1> HIDE DEF n
<1>5. \A j \in 1..n + 1 : h[j] = MixedBefore(runs, m + j) - MixedBefore(part, j)
  OBVIOUS
<1>6. \A j \in 1..n + 1 : MixedBefore(runs, m + j) \in Int /\ MixedBefore(part, j) \in Int
  <2>1. \A j \in 1..n + 1 : m + j \in 1..Len(runs) + 1
    BY <1>1
  <2>2. QED
    BY <1>2, <1>3, <2>1
<1> HIDE DEF h
<1>7. \A j \in 1..n + 1 : h[j] \in Int
  BY <1>5, <1>6
<1>8. ASSUME NEW j \in 1..n PROVE h[j + 1] = h[j]
  <2>1. j + 1 \in 1..n + 1 /\ j \in 1..n + 1 /\ m + j \in 1..Len(runs) /\ m + (j + 1) = (m + j) + 1
    BY <1>1
  <2>2. MixedBefore(runs, m + (j + 1)) = MixedBefore(runs, m + j) + MixedLength(part[j])
    BY <1>3, <1>4, <2>1
  <2>3. MixedBefore(part, j + 1) = MixedBefore(part, j) + MixedLength(part[j])
    BY <1>2
  <2>4. h[j + 1] = MixedBefore(runs, m + (j + 1)) - MixedBefore(part, j + 1)
    BY <1>5, <2>1
  <2>5. h[j] = MixedBefore(runs, m + j) - MixedBefore(part, j)
    BY <1>5, <2>1
  <2>6. MixedLength(part[j]) \in Int /\ MixedBefore(runs, m + j) \in Int /\ MixedBefore(part, j) \in Int
    BY <1>4, <1>6, <2>1
  <2>7. QED
    BY <2>2, <2>3, <2>4, <2>5, <2>6
<1>9. \A j \in 1..n + 1 : h[j] = h[1]
  BY <1>1, <1>7, <1>8, NeverChanging
<1>10. h[1] = MixedBefore(runs, m + 1)
  <2>1. 1 \in 1..n + 1
    BY <1>1
  <2>2. QED
    BY <1>2, <1>5, <1>6, <2>1
<1>11. ASSUME NEW j \in 1..n + 1
       PROVE  MixedBefore(runs, m + j) = MixedBefore(runs, m + 1) + MixedBefore(part, j)
  <2>1. MixedBefore(runs, m + j) - MixedBefore(part, j) = MixedBefore(runs, m + 1)
    BY <1>5, <1>9, <1>10
  <2>2. MixedBefore(runs, m + j) \in Int /\ MixedBefore(part, j) \in Int
    BY <1>6
  <2>3. QED
    BY <2>1, <2>2
<1>12. QED
  BY <1>11 DEF n

-----------------------------------------------------------------------------
(* What a list of runs and a list of quads stand for.                        *)

AllQuads(runs) == QuadsBefore(runs, Len(runs) + 1)
MixedQuads(runs) == MixedBefore(runs, Len(runs) + 1)

\* The runs are not empty, there is one quad for each Mixed one, and none of them is
\* empty or full.
InStep(runs, quads) ==
  /\ runs \in Seq(Runs) /\ quads \in Seq(Quads)
  /\ \A k \in 1..Len(runs) : runs[k].length >= 1
  /\ MixedQuads(runs) = Len(quads)
  /\ \A q \in 1..Len(quads) : quads[q] \notin {{}, FULL_QUAD_MASK}

\* Quad number j of run k.
QuadOf(runs, quads, k, j) ==
  IF runs[k].type = Mixed THEN quads[MixedBefore(runs, k) + j + 1]
  ELSE IF runs[k].type = Full THEN FULL_QUAD_MASK ELSE {}

\* They are the quads of c from number a to number b - 1.
Denotes(runs, quads, a, b, c) ==
  /\ InStep(runs, quads)
  /\ b = a + AllQuads(runs)
  /\ \A k \in 1..Len(runs) : \A j \in 0..runs[k].length - 1 :
       c[a + QuadsBefore(runs, k) + j] = QuadOf(runs, quads, k, j)

\* No run lies before the first or goes beyond the last quad.
LEMMA RunsInOrder ==
  ASSUME NEW runs \in Seq(Runs), \A k \in 1..Len(runs) : runs[k].length >= 1
  PROVE  /\ \A k \in 1..Len(runs) + 1 : /\ QuadsBefore(runs, k) \in Nat
                                        /\ MixedBefore(runs, k) \in Nat
         /\ \A i, j \in 1..Len(runs) + 1 : i <= j => /\ QuadsBefore(runs, i) <= QuadsBefore(runs, j)
                                                     /\ MixedBefore(runs, i) <= MixedBefore(runs, j)
<1> DEFINE n == Len(runs)
           g == [k \in 1..n + 1 |-> QuadsBefore(runs, k)]
           h == [k \in 1..n + 1 |-> MixedBefore(runs, k)]
<1>1. n \in Nat /\ \A k \in 1..n : runs[k].length \in Int /\ runs[k].length >= 1
                                   /\ MixedLength(runs[k]) \in Int /\ MixedLength(runs[k]) >= 0
  <2>1. n \in Nat /\ \A k \in 1..n : runs[k] \in Runs
    OBVIOUS
  <2>2. \A k \in 1..n : runs[k].length \in Int
    BY <2>1 DEF Runs
  <2>3. QED
    BY <2>1, <2>2 DEF MixedLength
<1>2. /\ QuadsBefore(runs, 1) = 0 /\ MixedBefore(runs, 1) = 0
      /\ \A k \in 1..n : QuadsBefore(runs, k + 1) = QuadsBefore(runs, k) + runs[k].length
      /\ \A k \in 1..n + 1 : QuadsBefore(runs, k) \in Int
      /\ \A k \in 1..n : MixedBefore(runs, k + 1) = MixedBefore(runs, k) + MixedLength(runs[k])
      /\ \A k \in 1..n + 1 : MixedBefore(runs, k) \in Int
  BY QuadsBeforeIs, MixedBeforeIs
<1>3. \A k \in 1..n + 1 : g[k] = QuadsBefore(runs, k) /\ h[k] = MixedBefore(runs, k)
  OBVIOUS
<1> HIDE DEF n, g, h
<1>4. \A k \in 1..n + 1 : g[k] \in Int /\ h[k] \in Int
  BY <1>2, <1>3
<1>5. \A k \in 1..n : g[k] <= g[k + 1] /\ h[k] <= h[k + 1]
  <2>1. SUFFICES ASSUME NEW k \in 1..n PROVE g[k] <= g[k + 1] /\ h[k] <= h[k + 1]
    OBVIOUS
  <2>2. k \in 1..n + 1 /\ k + 1 \in 1..n + 1
    BY <1>1
  <2>3. /\ g[k + 1] = g[k] + runs[k].length /\ h[k + 1] = h[k] + MixedLength(runs[k])
        /\ g[k] \in Int /\ h[k] \in Int
    BY <1>2, <1>3, <1>4, <2>2
  <2>4. QED
    BY <1>1, <2>3
<1>6. \A i, j \in 1..n + 1 : i <= j => g[i] <= g[j]
  BY <1>1, <1>4, <1>5, NeverDecreasing
<1>7. \A i, j \in 1..n + 1 : i <= j => h[i] <= h[j]
  BY <1>1, <1>4, <1>5, NeverDecreasing
<1>8. \A k \in 1..n + 1 : QuadsBefore(runs, k) \in Nat /\ MixedBefore(runs, k) \in Nat
  <2>1. ASSUME NEW k \in 1..n + 1 PROVE g[1] <= g[k] /\ h[1] <= h[k] /\ g[1] = 0 /\ h[1] = 0
    <3>1. 1 \in 1..n + 1 /\ 1 <= k
      BY <1>1
    <3>2. QED
      BY <1>2, <1>3, <1>6, <1>7, <3>1
  <2>2. QED
    BY <1>3, <1>4, <2>1
<1>9. \A i, j \in 1..n + 1 : i <= j => /\ QuadsBefore(runs, i) <= QuadsBefore(runs, j)
                                       /\ MixedBefore(runs, i) <= MixedBefore(runs, j)
  BY <1>3, <1>6, <1>7
<1>10. QED
  BY <1>8, <1>9 DEF n

LEMMA QuadInside ==
  ASSUME NEW runs, NEW quads, InStep(runs, quads), NEW k \in 1..Len(runs),
         runs[k].type = Mixed, NEW j \in 0..runs[k].length - 1
  PROVE  MixedBefore(runs, k) + j + 1 \in 1..Len(quads)
<1>1. /\ runs \in Seq(Runs) /\ quads \in Seq(Quads) /\ MixedQuads(runs) = Len(quads)
      /\ \A i \in 1..Len(runs) : runs[i].length >= 1
  BY DEF InStep
<1>2. Len(runs) \in Nat /\ Len(quads) \in Nat
  BY <1>1
<1>3. runs[k] \in Runs
  BY <1>1
<1>4. runs[k].length \in Int /\ MixedLength(runs[k]) = runs[k].length
  BY <1>3 DEF Runs, MixedLength
<1>5. k \in 1..Len(runs) + 1 /\ k + 1 \in 1..Len(runs) + 1 /\ Len(runs) + 1 \in 1..Len(runs) + 1
      /\ k + 1 <= Len(runs) + 1
  BY <1>2
<1>6. MixedBefore(runs, k + 1) <= MixedQuads(runs) /\ MixedBefore(runs, k) \in Nat
  BY <1>1, <1>5, RunsInOrder DEF MixedQuads
<1>7. MixedBefore(runs, k + 1) = MixedBefore(runs, k) + runs[k].length
  BY <1>1, <1>4, MixedBeforeIs
<1>8. QED
  BY <1>1, <1>2, <1>4, <1>6, <1>7, SMTT(30)

LEMMA BeforeInFront ==
  ASSUME NEW front \in Seq(Runs), NEW back \in Seq(Runs)
  PROVE  \A k \in 1..Len(front) + 1 :
           /\ QuadsBefore(front \o back, k) = QuadsBefore(front, k)
           /\ MixedBefore(front \o back, k) = MixedBefore(front, k)
<1> DEFINE runs == front \o back
           m == 0
<1>1. runs \in Seq(Runs) /\ m \in Nat /\ m + Len(front) <= Len(runs)
      /\ \A k \in 1..Len(front) : runs[m + k] = front[k]
  OBVIOUS
<1>2. \A k \in 1..Len(front) + 1 : m + k = k
  OBVIOUS
<1>3. QuadsBefore(runs, m + 1) = 0 /\ MixedBefore(runs, m + 1) = 0
  <2>1. m + 1 = 1
    OBVIOUS
  <2> HIDE DEF runs, m
  <2>2. QED
    BY <1>1, <2>1, QuadsBeforeIs, MixedBeforeIs
<1>4. \A k \in 1..Len(front) + 1 : QuadsBefore(front, k) \in Int /\ MixedBefore(front, k) \in Int
  BY QuadsBeforeIs, MixedBeforeIs
<1> HIDE DEF runs, m
<1>5. \A k \in 1..Len(front) + 1 :
        QuadsBefore(runs, m + k) = QuadsBefore(runs, m + 1) + QuadsBefore(front, k)
  BY <1>1, QuadsBeforePart
<1>6. \A k \in 1..Len(front) + 1 :
        MixedBefore(runs, m + k) = MixedBefore(runs, m + 1) + MixedBefore(front, k)
  BY <1>1, MixedBeforePart
<1>7. \A k \in 1..Len(front) + 1 :
        QuadsBefore(runs, k) = QuadsBefore(front, k) /\ MixedBefore(runs, k) = MixedBefore(front, k)
  BY <1>2, <1>3, <1>4, <1>5, <1>6
<1>8. QED
  BY <1>7 DEF runs

LEMMA BeforeInBack ==
  ASSUME NEW front \in Seq(Runs), NEW back \in Seq(Runs)
  PROVE  \A k \in 1..Len(back) + 1 :
           /\ QuadsBefore(front \o back, Len(front) + k) = AllQuads(front) + QuadsBefore(back, k)
           /\ MixedBefore(front \o back, Len(front) + k) = MixedQuads(front) + MixedBefore(back, k)
<1> DEFINE runs == front \o back
           m == Len(front)
<1>1. runs \in Seq(Runs) /\ m \in Nat /\ m + Len(back) <= Len(runs)
      /\ \A k \in 1..Len(back) : runs[m + k] = back[k]
  OBVIOUS
<1>2. m + 1 \in 1..Len(front) + 1
  OBVIOUS
<1>3. QuadsBefore(runs, m + 1) = AllQuads(front) /\ MixedBefore(runs, m + 1) = MixedQuads(front)
  BY <1>2, BeforeInFront DEF AllQuads, MixedQuads
<1> HIDE DEF runs, m
<1>4. \A k \in 1..Len(back) + 1 :
        QuadsBefore(runs, m + k) = QuadsBefore(runs, m + 1) + QuadsBefore(back, k)
  BY <1>1, QuadsBeforePart
<1>5. \A k \in 1..Len(back) + 1 :
        MixedBefore(runs, m + k) = MixedBefore(runs, m + 1) + MixedBefore(back, k)
  BY <1>1, MixedBeforePart
<1>6. \A k \in 1..Len(back) + 1 :
        /\ QuadsBefore(runs, m + k) = AllQuads(front) + QuadsBefore(back, k)
        /\ MixedBefore(runs, m + k) = MixedQuads(front) + MixedBefore(back, k)
  BY <1>3, <1>4, <1>5
<1>7. QED
  BY <1>6 DEF runs, m

LEMMA AllOfJoin ==
  ASSUME NEW front \in Seq(Runs), NEW back \in Seq(Runs)
  PROVE  /\ AllQuads(front \o back) = AllQuads(front) + AllQuads(back)
         /\ MixedQuads(front \o back) = MixedQuads(front) + MixedQuads(back)
         /\ AllQuads(front) \in Int /\ MixedQuads(front) \in Int
         /\ AllQuads(back) \in Int /\ MixedQuads(back) \in Int
<1>1. Len(front \o back) + 1 = Len(front) + (Len(back) + 1) /\ Len(back) + 1 \in 1..Len(back) + 1
      /\ Len(front) + 1 \in 1..Len(front) + 1
  OBVIOUS
<1>2. QED
  BY <1>1, BeforeInBack, QuadsBeforeIs, MixedBeforeIs DEF AllQuads, MixedQuads

LEMMA InStepJoin ==
  ASSUME NEW r \in Seq(Runs), NEW s \in Seq(Runs), NEW p \in Seq(Quads), NEW q \in Seq(Quads),
         MixedQuads(r) = Len(p)
  PROVE  InStep(r \o s, p \o q) <=> InStep(r, p) /\ InStep(s, q)
<1> DEFINE runs == r \o s
           quads == p \o q
<1>1. /\ runs \in Seq(Runs) /\ Len(runs) = Len(r) + Len(s) /\ Len(r) \in Nat /\ Len(s) \in Nat
      /\ \A k \in 1..Len(r) : runs[k] = r[k]
      /\ \A k \in 1..Len(s) : runs[Len(r) + k] = s[k]
  OBVIOUS
<1>2. /\ quads \in Seq(Quads) /\ Len(quads) = Len(p) + Len(q) /\ Len(p) \in Nat /\ Len(q) \in Nat
      /\ \A k \in 1..Len(p) : quads[k] = p[k]
      /\ \A k \in 1..Len(q) : quads[Len(p) + k] = q[k]
  OBVIOUS
<1>3. MixedQuads(runs) = MixedQuads(r) + MixedQuads(s) /\ MixedQuads(s) \in Int
  BY AllOfJoin
<1> HIDE DEF runs, quads
<1>4. (\A k \in 1..Len(runs) : runs[k].length >= 1)
        <=> (\A k \in 1..Len(r) : r[k].length >= 1) /\ (\A k \in 1..Len(s) : s[k].length >= 1)
  <2>1. ASSUME \A k \in 1..Len(runs) : runs[k].length >= 1
        PROVE  (\A k \in 1..Len(r) : r[k].length >= 1) /\ (\A k \in 1..Len(s) : s[k].length >= 1)
    <3>1. \A k \in 1..Len(r) : k \in 1..Len(runs)
      BY <1>1
    <3>2. \A k \in 1..Len(s) : Len(r) + k \in 1..Len(runs)
      BY <1>1
    <3>3. \A k \in 1..Len(r) : r[k].length >= 1
      BY <1>1, <2>1, <3>1
    <3>4. \A k \in 1..Len(s) : s[k].length >= 1
      BY <1>1, <2>1, <3>2
    <3>5. QED
      BY <3>3, <3>4
  <2>2. ASSUME \A k \in 1..Len(r) : r[k].length >= 1, \A k \in 1..Len(s) : s[k].length >= 1,
               NEW k \in 1..Len(runs)
        PROVE  runs[k].length >= 1
    <3>1. CASE k <= Len(r)
      BY <1>1, <2>2, <3>1
    <3>2. CASE k > Len(r)
      <4>1. k - Len(r) \in 1..Len(s) /\ Len(r) + (k - Len(r)) = k
        BY <1>1, <3>2
      <4>2. runs[k] = s[k - Len(r)]
        BY <1>1, <4>1
      <4>3. QED
        BY <2>2, <4>1, <4>2
    <3>3. QED
      BY <1>1, <3>1, <3>2
  <2>3. QED
    BY <2>1, <2>2
<1>5. (\A k \in 1..Len(quads) : quads[k] \notin {{}, FULL_QUAD_MASK})
        <=> /\ \A k \in 1..Len(p) : p[k] \notin {{}, FULL_QUAD_MASK}
            /\ \A k \in 1..Len(q) : q[k] \notin {{}, FULL_QUAD_MASK}
  <2>1. ASSUME \A k \in 1..Len(quads) : quads[k] \notin {{}, FULL_QUAD_MASK}
        PROVE  /\ \A k \in 1..Len(p) : p[k] \notin {{}, FULL_QUAD_MASK}
               /\ \A k \in 1..Len(q) : q[k] \notin {{}, FULL_QUAD_MASK}
    <3>1. \A k \in 1..Len(p) : k \in 1..Len(quads)
      BY <1>2
    <3>2. \A k \in 1..Len(q) : Len(p) + k \in 1..Len(quads)
      BY <1>2
    <3>3. \A k \in 1..Len(p) : p[k] \notin {{}, FULL_QUAD_MASK}
      BY <1>2, <2>1, <3>1
    <3>4. \A k \in 1..Len(q) : q[k] \notin {{}, FULL_QUAD_MASK}
      BY <1>2, <2>1, <3>2
    <3>5. QED
      BY <3>3, <3>4
  <2>2. ASSUME \A k \in 1..Len(p) : p[k] \notin {{}, FULL_QUAD_MASK},
               \A k \in 1..Len(q) : q[k] \notin {{}, FULL_QUAD_MASK},
               NEW k \in 1..Len(quads)
        PROVE  quads[k] \notin {{}, FULL_QUAD_MASK}
    <3>1. CASE k <= Len(p)
      BY <1>2, <2>2, <3>1
    <3>2. CASE k > Len(p)
      <4>1. k - Len(p) \in 1..Len(q) /\ Len(p) + (k - Len(p)) = k
        BY <1>2, <3>2
      <4>2. quads[k] = q[k - Len(p)]
        BY <1>2, <4>1
      <4>3. QED
        BY <2>2, <4>1, <4>2
    <3>3. QED
      BY <1>2, <3>1, <3>2
  <2>3. QED
    BY <2>1, <2>2
<1>6. (MixedQuads(runs) = Len(quads)) <=> (MixedQuads(s) = Len(q))
  <2>1. Len(quads) = Len(p) + Len(q) /\ Len(p) \in Nat /\ Len(q) \in Nat
    BY <1>2
  <2>2. MixedQuads(runs) = Len(p) + MixedQuads(s) /\ MixedQuads(s) \in Int
    BY <1>3
  <2> DEFINE x == MixedQuads(s)
             y == Len(q)
             z == Len(p)
  <2>3. x \in Int /\ y \in Int /\ z \in Int
    BY <2>1, <2>2
  <2> HIDE DEF x, y, z
  <2>4. z + x = z + y <=> x = y
    BY <2>3
  <2>5. QED
    BY <2>1, <2>2, <2>4 DEF x, y, z
<1>7. InStep(runs, quads) <=> InStep(r, p) /\ InStep(s, q)
  BY <1>1, <1>2, <1>4, <1>5, <1>6, Zenon DEF InStep
<1>8. QED
  BY <1>7 DEF runs, quads

LEMMA QuadOfJoin ==
  ASSUME NEW r, NEW s, NEW p, NEW q, InStep(r, p), InStep(s, q)
  PROVE  /\ \A k \in 1..Len(r) : \A j \in 0..r[k].length - 1 :
              QuadOf(r \o s, p \o q, k, j) = QuadOf(r, p, k, j)
         /\ \A k \in 1..Len(s) : \A j \in 0..s[k].length - 1 :
              QuadOf(r \o s, p \o q, Len(r) + k, j) = QuadOf(s, q, k, j)
<1> DEFINE runs == r \o s
           quads == p \o q
<1>0. r \in Seq(Runs) /\ s \in Seq(Runs) /\ p \in Seq(Quads) /\ q \in Seq(Quads)
      /\ MixedQuads(r) = Len(p)
  BY DEF InStep
<1>1. /\ runs \in Seq(Runs) /\ Len(runs) = Len(r) + Len(s) /\ Len(r) \in Nat /\ Len(s) \in Nat
      /\ \A k \in 1..Len(r) : runs[k] = r[k]
      /\ \A k \in 1..Len(s) : runs[Len(r) + k] = s[k]
  BY <1>0
<1>2. /\ Len(p) \in Nat /\ Len(q) \in Nat
      /\ \A k \in 1..Len(p) : quads[k] = p[k]
      /\ \A k \in 1..Len(q) : quads[Len(p) + k] = q[k]
  BY <1>0
<1>3. \A k \in 1..Len(r) : MixedBefore(runs, k) = MixedBefore(r, k)
  <2>1. \A k \in 1..Len(r) : k \in 1..Len(r) + 1
    BY <1>1
  <2>2. QED
    BY <1>0, <2>1, BeforeInFront
<1>4. \A k \in 1..Len(s) : /\ MixedBefore(runs, Len(r) + k) = Len(p) + MixedBefore(s, k)
                           /\ MixedBefore(s, k) \in Int
  <2>1. \A k \in 1..Len(s) : k \in 1..Len(s) + 1
    BY <1>1
  <2>2. QED
    BY <1>0, <2>1, BeforeInBack, MixedBeforeIs
<1> HIDE DEF runs, quads
<1>5. ASSUME NEW k \in 1..Len(r), NEW j \in 0..r[k].length - 1
      PROVE  QuadOf(runs, quads, k, j) = QuadOf(r, p, k, j)
  <2>1. CASE r[k].type = Mixed
    <3>1. MixedBefore(r, k) + j + 1 \in 1..Len(p)
      BY <2>1, QuadInside
    <3>2. quads[MixedBefore(r, k) + j + 1] = p[MixedBefore(r, k) + j + 1]
      BY <1>2, <3>1
    <3>3. QED
      BY <1>1, <1>3, <2>1, <3>2 DEF QuadOf
  <2>2. CASE r[k].type # Mixed
    BY <1>1, <2>2, Zenon DEF QuadOf
  <2>3. QED
    BY <2>1, <2>2
<1>6. ASSUME NEW k \in 1..Len(s), NEW j \in 0..s[k].length - 1
      PROVE  QuadOf(runs, quads, Len(r) + k, j) = QuadOf(s, q, k, j)
  <2>1. CASE s[k].type = Mixed
    <3> DEFINE i == MixedBefore(s, k) + j + 1
    <3>1. i \in 1..Len(q)
      BY <2>1, QuadInside
    <3>2. s[k] \in Runs
      BY <1>0
    <3>3. MixedBefore(runs, Len(r) + k) + j + 1 = Len(p) + i
      <4>1. j \in Int
        BY <3>2 DEF Runs
      <4>2. QED
        BY <1>2, <1>4, <4>1
    <3> HIDE DEF i
    <3>4. quads[Len(p) + i] = q[i]
      BY <1>2, <3>1
    <3>5. runs[Len(r) + k].type = Mixed
      BY <1>1, <2>1
    <3>6. QuadOf(runs, quads, Len(r) + k, j) = quads[MixedBefore(runs, Len(r) + k) + j + 1]
      BY <3>5 DEF QuadOf
    <3>7. QuadOf(s, q, k, j) = q[i]
      BY <2>1 DEF QuadOf, i
    <3>8. QED
      BY <3>3, <3>4, <3>6, <3>7
  <2>2. CASE s[k].type # Mixed
    BY <1>1, <2>2, Zenon DEF QuadOf
  <2>3. QED
    BY <2>1, <2>2
<1>7. QED
  BY <1>5, <1>6 DEF runs, quads

\* What two pieces stand for, one after the other.
LEMMA DenotesJoin ==
  ASSUME NEW r, NEW s, NEW p, NEW q, InStep(r, p), InStep(s, q),
         NEW a \in Int, NEW b, NEW c
  PROVE  Denotes(r \o s, p \o q, a, b, c)
           <=> /\ Denotes(r, p, a, a + AllQuads(r), c)
               /\ Denotes(s, q, a + AllQuads(r), b, c)
<1> DEFINE runs == r \o s
           quads == p \o q
           m == a + AllQuads(r)
<1>1. r \in Seq(Runs) /\ s \in Seq(Runs) /\ p \in Seq(Quads) /\ q \in Seq(Quads)
      /\ MixedQuads(r) = Len(p)
  BY DEF InStep
<1>2. /\ runs \in Seq(Runs) /\ Len(runs) = Len(r) + Len(s) /\ Len(r) \in Nat /\ Len(s) \in Nat
      /\ \A k \in 1..Len(r) : runs[k] = r[k]
      /\ \A k \in 1..Len(s) : runs[Len(r) + k] = s[k]
  BY <1>1
<1>3. InStep(runs, quads)
  BY <1>1, InStepJoin
<1>4. AllQuads(runs) = AllQuads(r) + AllQuads(s) /\ AllQuads(r) \in Int /\ AllQuads(s) \in Int
  BY <1>1, AllOfJoin
<1>5. \A k \in 1..Len(r) : QuadsBefore(runs, k) = QuadsBefore(r, k) /\ QuadsBefore(r, k) \in Int
  <2>1. \A k \in 1..Len(r) : k \in 1..Len(r) + 1
    BY <1>2
  <2>2. QED
    BY <1>1, <2>1, BeforeInFront, QuadsBeforeIs
<1>6. \A k \in 1..Len(s) : /\ QuadsBefore(runs, Len(r) + k) = AllQuads(r) + QuadsBefore(s, k)
                           /\ QuadsBefore(s, k) \in Int
  <2>1. \A k \in 1..Len(s) : k \in 1..Len(s) + 1
    BY <1>2
  <2>2. QED
    BY <1>1, <2>1, BeforeInBack, QuadsBeforeIs
<1>7. /\ \A k \in 1..Len(r) : \A j \in 0..r[k].length - 1 :
           QuadOf(runs, quads, k, j) = QuadOf(r, p, k, j)
      /\ \A k \in 1..Len(s) : \A j \in 0..s[k].length - 1 :
           QuadOf(runs, quads, Len(r) + k, j) = QuadOf(s, q, k, j)
  BY QuadOfJoin
<1>8. (\A k \in 1..Len(r) : r[k].length \in Int) /\ (\A k \in 1..Len(s) : s[k].length \in Int)
  <2>1. (\A k \in 1..Len(r) : r[k] \in Runs) /\ (\A k \in 1..Len(s) : s[k] \in Runs)
    BY <1>1
  <2>2. QED
    BY <2>1 DEF Runs
<1> HIDE DEF runs, quads, m
<1> DEFINE InFront == \A k \in 1..Len(r) : \A j \in 0..r[k].length - 1 :
                      c[a + QuadsBefore(r, k) + j] = QuadOf(r, p, k, j)
           InBack == \A k \in 1..Len(s) : \A j \in 0..s[k].length - 1 :
                     c[m + QuadsBefore(s, k) + j] = QuadOf(s, q, k, j)
           InAll == \A k \in 1..Len(runs) : \A j \in 0..runs[k].length - 1 :
                    c[a + QuadsBefore(runs, k) + j] = QuadOf(runs, quads, k, j)
<1>9. \A k \in 1..Len(s) : \A j \in Int : a + QuadsBefore(runs, Len(r) + k) + j = m + QuadsBefore(s, k) + j
  BY <1>4, <1>6 DEF m
<1>10. ASSUME InAll PROVE InFront /\ InBack
  <2>1. ASSUME NEW k \in 1..Len(r), NEW j \in 0..r[k].length - 1
        PROVE  c[a + QuadsBefore(r, k) + j] = QuadOf(r, p, k, j)
    <3>1. k \in 1..Len(runs) /\ runs[k] = r[k]
      BY <1>2
    <3>2. j \in 0..runs[k].length - 1
      BY <3>1
    <3>3. c[a + QuadsBefore(runs, k) + j] = QuadOf(runs, quads, k, j)
      BY <1>10, <3>1, <3>2
    <3>4. QED
      BY <1>5, <1>7, <3>3
  <2>2. ASSUME NEW k \in 1..Len(s), NEW j \in 0..s[k].length - 1
        PROVE  c[m + QuadsBefore(s, k) + j] = QuadOf(s, q, k, j)
    <3>1. Len(r) + k \in 1..Len(runs) /\ runs[Len(r) + k] = s[k]
      BY <1>2
    <3>2. j \in 0..runs[Len(r) + k].length - 1
      BY <3>1
    <3>3. c[a + QuadsBefore(runs, Len(r) + k) + j] = QuadOf(runs, quads, Len(r) + k, j)
      BY <1>10, <3>1, <3>2
    <3>4. j \in Int
      BY <1>8
    <3>5. QED
      BY <1>7, <1>9, <3>3, <3>4
  <2>3. QED
    BY <2>1, <2>2
<1>11. ASSUME InFront, InBack PROVE InAll
  <2>1. SUFFICES ASSUME NEW k \in 1..Len(runs), NEW j \in 0..runs[k].length - 1
                 PROVE  c[a + QuadsBefore(runs, k) + j] = QuadOf(runs, quads, k, j)
    BY Zenon
  <2>2. CASE k <= Len(r)
    <3>1. k \in 1..Len(r) /\ runs[k] = r[k]
      BY <1>2, <2>2
    <3>2. j \in 0..r[k].length - 1
      BY <3>1
    <3>3. c[a + QuadsBefore(r, k) + j] = QuadOf(r, p, k, j)
      BY <1>11, <3>1, <3>2
    <3>4. QED
      BY <1>5, <1>7, <3>1, <3>2, <3>3
  <2>3. CASE k > Len(r)
    <3> DEFINE i == k - Len(r)
    <3>1. i \in 1..Len(s) /\ Len(r) + i = k
      BY <1>2, <2>3
    <3> HIDE DEF i
    <3>2. runs[k] = s[i]
      BY <1>2, <3>1
    <3>3. j \in 0..s[i].length - 1 /\ j \in Int
      BY <1>8, <3>1, <3>2
    <3>4. c[m + QuadsBefore(s, i) + j] = QuadOf(s, q, i, j)
      BY <1>11, <3>1, <3>3
    <3>5. a + QuadsBefore(runs, k) + j = m + QuadsBefore(s, i) + j
      BY <1>9, <3>1, <3>3
    <3>6. QuadOf(runs, quads, k, j) = QuadOf(s, q, i, j)
      BY <1>7, <3>1, <3>3
    <3>7. QED
      BY <3>4, <3>5, <3>6
  <2>4. QED
    BY <1>2, <2>2, <2>3
<1>12. Denotes(runs, quads, a, b, c) <=> b = a + AllQuads(runs) /\ InAll
  BY <1>3, Zenon DEF Denotes
<1>13. Denotes(r, p, a, m, c) <=> InFront
  BY Zenon DEF Denotes, m
<1>14. Denotes(s, q, m, b, c) <=> b = m + AllQuads(s) /\ InBack
  BY Zenon DEF Denotes
<1>15. a + AllQuads(runs) = m + AllQuads(s)
  BY <1>4 DEF m
<1> HIDE DEF InFront, InBack, InAll
<1>16. Denotes(runs, quads, a, b, c) <=> Denotes(r, p, a, m, c) /\ Denotes(s, q, m, b, c)
  BY <1>10, <1>11, <1>12, <1>13, <1>14, <1>15, Zenon
<1>17. QED
  BY <1>16 DEF runs, quads, m

\* A sequence is what comes before a place and what comes after it.
LEMMA SeqCut ==
  ASSUME NEW S, NEW s \in Seq(S), NEW m \in 0..Len(s)
  PROVE  /\ s = SubSeq(s, 1, m) \o SubSeq(s, m + 1, Len(s))
         /\ SubSeq(s, 1, m) \in Seq(S) /\ SubSeq(s, m + 1, Len(s)) \in Seq(S)
         /\ Len(SubSeq(s, 1, m)) = m /\ Len(SubSeq(s, m + 1, Len(s))) = Len(s) - m
         /\ \A k \in 1..m : SubSeq(s, 1, m)[k] = s[k]
         /\ \A k \in 1..Len(s) - m : SubSeq(s, m + 1, Len(s))[k] = s[m + k]
<1> DEFINE f == SubSeq(s, 1, m)
           g == SubSeq(s, m + 1, Len(s))
<1>1. Len(s) \in Nat /\ m \in Nat /\ m <= Len(s)
  OBVIOUS
<1>2. f \in Seq(S) /\ Len(f) = m /\ \A k \in 1..m : f[k] = s[k]
  OBVIOUS
<1>3. g \in Seq(S) /\ Len(g) = Len(s) - m /\ \A k \in 1..Len(s) - m : g[k] = s[m + k]
  OBVIOUS
<1> HIDE DEF f, g
<1>4. f \o g \in Seq(S) /\ Len(f \o g) = Len(s)
  BY <1>1, <1>2, <1>3
<1>5. ASSUME NEW k \in 1..Len(s) PROVE (f \o g)[k] = s[k]
  <2>1. CASE k <= m
    BY <1>1, <1>2, <1>3, <2>1
  <2>2. CASE k > m
    <3>1. k - m \in 1..Len(s) - m /\ m + (k - m) = k
      BY <1>1, <2>2
    <3>2. (f \o g)[k] = g[k - m]
      BY <1>1, <1>2, <1>3, <2>2
    <3>3. QED
      BY <1>3, <3>1, <3>2
  <2>3. k <= m \/ k > m
    BY <1>1
  <2>4. QED
    BY <2>1, <2>2, <2>3
<1>6. f \o g = s
  BY <1>4, <1>5, SeqEqual
<1>7. QED
  BY <1>2, <1>3, <1>6 DEF f, g

LEMMA JoinDenotes ==
  ASSUME NEW r \in Seq(Runs), NEW s \in Seq(Runs), NEW p \in Seq(Quads), NEW q \in Seq(Quads),
         MixedQuads(r) = Len(p), NEW a \in Int, NEW b, NEW c
  PROVE  Denotes(r \o s, p \o q, a, b, c)
           <=> /\ Denotes(r, p, a, a + AllQuads(r), c)
               /\ Denotes(s, q, a + AllQuads(r), b, c)
<1>1. InStep(r \o s, p \o q) <=> InStep(r, p) /\ InStep(s, q)
  BY InStepJoin
<1>2. CASE InStep(r, p) /\ InStep(s, q)
  BY <1>2, DenotesJoin
<1>3. CASE ~(InStep(r, p) /\ InStep(s, q))
  BY <1>1, <1>3, Zenon DEF Denotes
<1>4. QED
  BY <1>2, <1>3

FirstQuads(quads, m) == SubSeq(quads, 1, m)
LastQuads(quads, m) == SubSeq(quads, m + 1, Len(quads))

\* The quads of the first runs come first.
LEMMA CutDenotes ==
  ASSUME NEW r \in Seq(Runs), NEW s \in Seq(Runs), NEW quads, NEW a \in Int, NEW b, NEW c,
         Denotes(r \o s, quads, a, b, c), NEW m, m = MixedQuads(r)
  PROVE  /\ m \in 0..Len(quads) /\ quads \in Seq(Quads)
         /\ quads = FirstQuads(quads, m) \o LastQuads(quads, m)
         /\ FirstQuads(quads, m) \in Seq(Quads) /\ LastQuads(quads, m) \in Seq(Quads)
         /\ Len(FirstQuads(quads, m)) = m
         /\ AllQuads(r) \in Nat
         /\ Denotes(r, FirstQuads(quads, m), a, a + AllQuads(r), c)
         /\ Denotes(s, LastQuads(quads, m), a + AllQuads(r), b, c)
<1> DEFINE runs == r \o s
<1>1. /\ runs \in Seq(Runs) /\ Len(runs) = Len(r) + Len(s) /\ Len(r) \in Nat /\ Len(s) \in Nat
      /\ \A k \in 1..Len(r) : runs[k] = r[k]
      /\ \A k \in 1..Len(s) : runs[Len(r) + k] = s[k]
  OBVIOUS
<1>2. /\ quads \in Seq(Quads) /\ MixedQuads(runs) = Len(quads)
      /\ \A k \in 1..Len(runs) : runs[k].length >= 1
  BY DEF Denotes, InStep
<1>3. MixedQuads(runs) = MixedQuads(r) + MixedQuads(s)
  BY AllOfJoin
<1> HIDE DEF runs
<1>4. \A k \in 1..Len(r) : r[k].length >= 1
  <2>1. \A k \in 1..Len(r) : k \in 1..Len(runs)
    BY <1>1
  <2>2. QED
    BY <1>1, <1>2, <2>1
<1>5. \A k \in 1..Len(s) : s[k].length >= 1
  <2>1. \A k \in 1..Len(s) : Len(r) + k \in 1..Len(runs)
    BY <1>1
  <2>2. QED
    BY <1>1, <1>2, <2>1
<1>6. MixedQuads(r) \in Nat /\ AllQuads(r) \in Nat
  <2>1. Len(r) + 1 \in 1..Len(r) + 1
    BY <1>1
  <2>2. QED
    BY <1>4, <2>1, RunsInOrder DEF MixedQuads, AllQuads
<1>7. MixedQuads(s) \in Nat
  <2>1. Len(s) + 1 \in 1..Len(s) + 1
    BY <1>1
  <2>2. QED
    BY <1>5, <2>1, RunsInOrder DEF MixedQuads
<1>8. m \in 0..Len(quads)
  BY <1>2, <1>3, <1>6, <1>7
<1> DEFINE p == FirstQuads(quads, m)
           q == LastQuads(quads, m)
<1>9. quads = p \o q /\ p \in Seq(Quads) /\ q \in Seq(Quads) /\ Len(p) = m
  BY <1>2, <1>8, SeqCut DEF FirstQuads, LastQuads
<1> HIDE DEF p, q
<1>10. Denotes(r \o s, p \o q, a, b, c)
  BY <1>9
<1>11. Denotes(r, p, a, a + AllQuads(r), c) /\ Denotes(s, q, a + AllQuads(r), b, c)
  BY <1>9, <1>10, JoinDenotes
<1>12. QED
  BY <1>2, <1>6, <1>8, <1>9, <1>11 DEF p, q

\* A run that may be of no length.
Piece(type, length) ==
  IF length = 0 THEN << >> ELSE <<[type |-> type, length |-> length]>>
MixedPart(type, length) == IF type = Mixed THEN length ELSE 0

LEMMA PieceSums ==
  ASSUME NEW type \in RunTypes, NEW length \in Nat
  PROVE  /\ Piece(type, length) \in Seq(Runs)
         /\ AllQuads(Piece(type, length)) = length
         /\ MixedQuads(Piece(type, length)) = MixedPart(type, length)
         /\ MixedPart(type, length) \in Nat
<1>1. CASE length = 0
  <2>1. << >> \in Seq(Runs) /\ Len(<< >>) + 1 = 1
    OBVIOUS
  <2>2. AllQuads(<< >>) = 0 /\ MixedQuads(<< >>) = 0
    BY <2>1, QuadsBeforeIs, MixedBeforeIs, Zenon DEF AllQuads, MixedQuads
  <2>3. QED
    BY <1>1, <2>1, <2>2 DEF Piece, MixedPart
<1>2. CASE length # 0
  <2> DEFINE run == [type |-> type, length |-> length]
             runs == <<run>>
  <2>1. run \in Runs /\ run.length = length /\ run.type = type
    BY DEF Runs
  <2>2. MixedLength(run) = MixedPart(type, length) /\ MixedPart(type, length) \in Nat
    BY <2>1 DEF MixedLength, MixedPart
  <2> HIDE DEF run
  <2>3. runs \in Seq(Runs) /\ Len(runs) = 1 /\ runs[1] = run
    BY <2>1
  <2> HIDE DEF runs
  <2>4. 1 \in 1..Len(runs) /\ Len(runs) + 1 = 1 + 1
    BY <2>3
  <2>5. /\ QuadsBefore(runs, 1) = 0 /\ MixedBefore(runs, 1) = 0
        /\ QuadsBefore(runs, 1 + 1) = QuadsBefore(runs, 1) + runs[1].length
        /\ MixedBefore(runs, 1 + 1) = MixedBefore(runs, 1) + MixedLength(runs[1])
    BY <2>3, <2>4, QuadsBeforeIs, MixedBeforeIs
  <2>6. AllQuads(runs) = length
    <3>1. AllQuads(runs) = QuadsBefore(runs, 1 + 1)
      BY <2>4 DEF AllQuads
    <3>2. QED
      BY <2>1, <2>3, <2>5, <3>1
  <2>7. MixedQuads(runs) = MixedPart(type, length)
    <3>1. MixedQuads(runs) = MixedBefore(runs, 1 + 1)
      BY <2>4 DEF MixedQuads
    <3>2. QED
      BY <2>2, <2>3, <2>5, <3>1
  <2>8. Piece(type, length) = runs
    BY <1>2 DEF Piece, runs, run
  <2>9. QED
    BY <2>2, <2>3, <2>6, <2>7, <2>8
<1>3. QED
  BY <1>1, <1>2

ProperQuads(q) == \A i \in 1..Len(q) : q[i] \notin {{}, FULL_QUAD_MASK}
Content(type, q, j) ==
  IF type = Mixed THEN q[j + 1] ELSE IF type = Full THEN FULL_QUAD_MASK ELSE {}

LEMMA PieceDenotes ==
  ASSUME NEW type \in RunTypes, NEW length \in Nat, NEW a \in Int, NEW b, NEW q, NEW c
  PROVE  Denotes(Piece(type, length), q, a, b, c)
           <=> /\ q \in Seq(Quads) /\ Len(q) = MixedPart(type, length) /\ ProperQuads(q)
               /\ b = a + length
               /\ \A j \in 0..length - 1 : c[a + j] = Content(type, q, j)
<1> DEFINE runs == Piece(type, length)
           Same == \A j \in 0..length - 1 : c[a + j] = Content(type, q, j)
           Long == \A k \in 1..Len(runs) : runs[k].length >= 1
           Told == \A k \in 1..Len(runs) : \A j \in 0..runs[k].length - 1 :
                     c[a + QuadsBefore(runs, k) + j] = QuadOf(runs, q, k, j)
<1>1. /\ runs \in Seq(Runs) /\ AllQuads(runs) = length /\ MixedQuads(runs) = MixedPart(type, length)
  BY PieceSums
<1>2. Long
  BY DEF Piece
<1>3. Told <=> Same
  <2>1. CASE length = 0
    BY <2>1 DEF Piece
  <2>2. CASE length # 0
    <3>1. Len(runs) = 1 /\ runs[1].type = type /\ runs[1].length = length
      BY <2>2 DEF Piece
    <3>2. QuadsBefore(runs, 1) = 0 /\ MixedBefore(runs, 1) = 0
      BY <1>1, QuadsBeforeIs, MixedBeforeIs
    <3> HIDE DEF runs
    <3>3. Told <=> \A j \in 0..length - 1 : c[a + QuadsBefore(runs, 1) + j] = QuadOf(runs, q, 1, j)
      BY <3>1
    <3>4. \A j \in 0..length - 1 : a + QuadsBefore(runs, 1) + j = a + j
      BY <3>2
    <3>5. \A j \in 0..length - 1 : QuadOf(runs, q, 1, j) = Content(type, q, j)
      <4>1. \A j \in 0..length - 1 : MixedBefore(runs, 1) + j + 1 = j + 1
        BY <3>2
      <4>2. QED
        BY <3>1, <4>1 DEF QuadOf, Content
    <3> HIDE DEF Told
    <3>6. QED
      BY <3>3, <3>4, <3>5
  <2>3. QED
    BY <2>1, <2>2
<1> HIDE DEF runs, Same, Told, Long
<1>4. InStep(runs, q) <=> q \in Seq(Quads) /\ MixedPart(type, length) = Len(q) /\ ProperQuads(q)
  BY <1>1, <1>2, Zenon DEF InStep, ProperQuads, Long
<1>5. Denotes(runs, q, a, b, c) <=> InStep(runs, q) /\ b = a + length /\ Told
  BY <1>1, Zenon DEF Denotes, Told
<1>6. QED
  BY <1>3, <1>4, <1>5, Zenon DEF runs, Same

\* A run stands for the same as its two parts, one after the other.
LEMMA PieceSplit ==
  ASSUME NEW type \in RunTypes, NEW l \in Nat, NEW m \in Nat, NEW a \in Int, NEW b, NEW q, NEW c
  PROVE  Denotes(Piece(type, l + m), q, a, b, c)
           <=> Denotes(Piece(type, l) \o Piece(type, m), q, a, b, c)
<1> DEFINE r == Piece(type, l)
           s == Piece(type, m)
           x == MixedPart(type, l)
           y == MixedPart(type, m)
           f == FirstQuads(q, x)
           g == LastQuads(q, x)
<1>1. l + m \in Nat /\ MixedPart(type, l + m) = x + y /\ x \in Nat /\ y \in Nat
  BY DEF MixedPart
<1>2. /\ r \in Seq(Runs) /\ AllQuads(r) = l /\ MixedQuads(r) = x
      /\ s \in Seq(Runs) /\ AllQuads(s) = m /\ MixedQuads(s) = y
  BY PieceSums
<1>3. ASSUME q \in Seq(Quads), Len(q) = x + y
      PROVE  /\ f \in Seq(Quads) /\ g \in Seq(Quads) /\ q = f \o g /\ Len(f) = x /\ Len(g) = y
             /\ \A i \in 1..x : f[i] = q[i]
             /\ \A i \in 1..y : g[i] = q[x + i]
  <2>1. x \in 0..Len(q) /\ Len(q) - x = y
    BY <1>1, <1>3
  <2> HIDE DEF x, y
  <2>2. /\ q = SubSeq(q, 1, x) \o SubSeq(q, x + 1, Len(q))
        /\ SubSeq(q, 1, x) \in Seq(Quads) /\ SubSeq(q, x + 1, Len(q)) \in Seq(Quads)
        /\ Len(SubSeq(q, 1, x)) = x /\ Len(SubSeq(q, x + 1, Len(q))) = Len(q) - x
        /\ \A k \in 1..x : SubSeq(q, 1, x)[k] = q[k]
        /\ \A k \in 1..Len(q) - x : SubSeq(q, x + 1, Len(q))[k] = q[x + k]
    BY <1>3, <2>1, SeqCut
  <2>3. QED
    BY <2>1, <2>2 DEF FirstQuads, LastQuads
<1> DEFINE Right == Denotes(r \o s, q, a, b, c)
           Left == Denotes(Piece(type, l + m), q, a, b, c)
<1>4. Left => q \in Seq(Quads) /\ Len(q) = x + y
  BY <1>1, PieceDenotes
<1>5. Right => q \in Seq(Quads) /\ Len(q) = x + y
  <2>1. MixedQuads(r \o s) = x + y
    BY <1>2, AllOfJoin
  <2>2. QED
    BY <2>1 DEF Denotes, InStep
<1>6. ASSUME q \in Seq(Quads), Len(q) = x + y PROVE Left <=> Right
  <2>1. /\ f \in Seq(Quads) /\ g \in Seq(Quads) /\ q = f \o g /\ Len(f) = x /\ Len(g) = y
        /\ \A i \in 1..x : f[i] = q[i]
        /\ \A i \in 1..y : g[i] = q[x + i]
    BY <1>3, <1>6
  <2>2. Denotes(r, f, a, a + l, c)
          <=> /\ ProperQuads(f)
              /\ \A j \in 0..l - 1 : c[a + j] = Content(type, f, j)
    <3> HIDE DEF f, g
    <3>1. Denotes(Piece(type, l), f, a, a + l, c)
            <=> /\ f \in Seq(Quads) /\ Len(f) = MixedPart(type, l) /\ ProperQuads(f)
                /\ a + l = a + l
                /\ \A j \in 0..l - 1 : c[a + j] = Content(type, f, j)
      BY PieceDenotes
    <3>2. QED
      BY <2>1, <3>1, Zenon
  <2>3. Denotes(s, g, a + l, b, c)
          <=> /\ ProperQuads(g)
              /\ b = (a + l) + m
              /\ \A j \in 0..m - 1 : c[(a + l) + j] = Content(type, g, j)
    <3>1. a + l \in Int
      OBVIOUS
    <3> HIDE DEF f, g
    <3>2. Denotes(Piece(type, m), g, a + l, b, c)
            <=> /\ g \in Seq(Quads) /\ Len(g) = MixedPart(type, m) /\ ProperQuads(g)
                /\ b = (a + l) + m
                /\ \A j \in 0..m - 1 : c[(a + l) + j] = Content(type, g, j)
      BY <3>1, PieceDenotes
    <3>3. QED
      BY <2>1, <3>2, Zenon
  <2>4. Left <=> /\ ProperQuads(q)
                 /\ b = a + (l + m)
                 /\ \A j \in 0..(l + m) - 1 : c[a + j] = Content(type, q, j)
    <3>1. Denotes(Piece(type, l + m), q, a, b, c)
            <=> /\ q \in Seq(Quads) /\ Len(q) = MixedPart(type, l + m) /\ ProperQuads(q)
                /\ b = a + (l + m)
                /\ \A j \in 0..(l + m) - 1 : c[a + j] = Content(type, q, j)
      BY <1>1, PieceDenotes
    <3>2. QED
      BY <1>1, <1>6, <3>1, Zenon
  <2>5. ProperQuads(q) <=> ProperQuads(f) /\ ProperQuads(g)
    <3> HIDE DEF x, y, f, g
    <3>1. \A i \in 1..x : i \in 1..Len(q)
      BY <1>1, <1>6
    <3>2. \A i \in 1..y : x + i \in 1..Len(q)
      BY <1>1, <1>6
    <3>3. ASSUME ProperQuads(q) PROVE ProperQuads(f) /\ ProperQuads(g)
      BY <2>1, <3>1, <3>2, <3>3 DEF ProperQuads
    <3>4. ASSUME ProperQuads(f), ProperQuads(g), NEW i \in 1..Len(q)
          PROVE  q[i] \notin {{}, FULL_QUAD_MASK}
      <4>1. CASE i <= x
        <5>1. i \in 1..x
          BY <1>1, <1>6, <4>1
        <5>2. QED
          BY <2>1, <3>4, <5>1 DEF ProperQuads
      <4>2. CASE i > x
        <5>1. i - x \in 1..y /\ x + (i - x) = i
          BY <1>1, <1>6, <4>2
        <5>2. q[i] = g[i - x]
          BY <2>1, <5>1
        <5>3. QED
          BY <2>1, <3>4, <5>1, <5>2 DEF ProperQuads
      <4>3. i <= x \/ i > x
        BY <1>1, <1>6
      <4>4. QED
        BY <4>1, <4>2, <4>3
    <3>5. QED
      BY <3>3, <3>4 DEF ProperQuads
  <2>6. \A j \in 0..l - 1 : Content(type, f, j) = Content(type, q, j)
    <3>1. type = Mixed => \A j \in 0..l - 1 : j + 1 \in 1..x
      BY DEF MixedPart
    <3>2. QED
      BY <2>1, <3>1 DEF Content
  <2>7. \A j \in 0..m - 1 : /\ Content(type, g, j) = Content(type, q, l + j)
                            /\ (a + l) + j = a + (l + j)
    <3>1. type = Mixed => x = l /\ \A j \in 0..m - 1 : j + 1 \in 1..y /\ x + (j + 1) = (l + j) + 1
      BY DEF MixedPart
    <3> HIDE DEF x, y, f, g
    <3>2. \A j \in 0..m - 1 : Content(type, g, j) = Content(type, q, l + j)
      BY <2>1, <3>1 DEF Content
    <3>3. QED
      BY <3>2
  <2> DEFINE All == \A j \in 0..(l + m) - 1 : c[a + j] = Content(type, q, j)
             One == \A j \in 0..l - 1 : c[a + j] = Content(type, q, j)
             Two == \A j \in 0..m - 1 : c[a + (l + j)] = Content(type, q, l + j)
  <2>8. All <=> One /\ Two
    <3>1. \A j \in 0..l - 1 : j \in 0..(l + m) - 1
      OBVIOUS
    <3>2. \A j \in 0..m - 1 : l + j \in 0..(l + m) - 1
      OBVIOUS
    <3>3. ASSUME One, Two, NEW j \in 0..(l + m) - 1 PROVE c[a + j] = Content(type, q, j)
      <4>1. CASE j < l
        BY <3>3, <4>1
      <4>2. CASE ~(j < l)
        <5>1. j - l \in 0..m - 1 /\ l + (j - l) = j
          BY <4>2
        <5>2. c[a + (l + (j - l))] = Content(type, q, l + (j - l))
          BY <3>3, <5>1
        <5>3. QED
          BY <5>1, <5>2
      <4>3. QED
        BY <4>1, <4>2
    <3>4. QED
      BY <3>1, <3>2, <3>3
  <2>9. Right <=> Denotes(r, f, a, a + l, c) /\ Denotes(s, g, a + l, b, c)
    <3> HIDE DEF r, s, f, g, x, y
    <3>1. Denotes(r \o s, f \o g, a, b, c)
            <=> Denotes(r, f, a, a + AllQuads(r), c) /\ Denotes(s, g, a + AllQuads(r), b, c)
      BY <1>2, <2>1, JoinDenotes
    <3>2. QED
      BY <1>2, <2>1, <3>1
  <2> HIDE DEF r, s, x, y, f, g, Left, Right
  <2>10. One <=> \A j \in 0..l - 1 : c[a + j] = Content(type, f, j)
    BY <2>6
  <2>11. Two <=> \A j \in 0..m - 1 : c[(a + l) + j] = Content(type, g, j)
    BY <2>7
  <2>12. a + (l + m) = (a + l) + m
    OBVIOUS
  <2> HIDE DEF One, Two
  <2>13. QED
    BY <2>2, <2>3, <2>4, <2>5, <2>8, <2>9, <2>10, <2>11, <2>12, Zenon
<1>7. Left <=> Right
  BY <1>4, <1>5, <1>6, Zenon
<1>8. QED
  BY <1>7

\* In the middle of other runs, too.
LEMMA Splice ==
  ASSUME NEW x \in Seq(Runs), NEW y \in Seq(Runs), NEW c,
         AllQuads(x) = AllQuads(y), MixedQuads(x) = MixedQuads(y),
         \A q, b : \A a \in Int : Denotes(x, q, a, b, c) => Denotes(y, q, a, b, c),
         NEW f \in Seq(Runs), NEW g \in Seq(Runs), NEW quads, NEW a \in Int, NEW b,
         Denotes(f \o (x \o g), quads, a, b, c)
  PROVE  Denotes(f \o (y \o g), quads, a, b, c)
<1>1. x \o g \in Seq(Runs) /\ y \o g \in Seq(Runs)
  OBVIOUS
<1> DEFINE h == x \o g
           i == MixedQuads(f)
           p == FirstQuads(quads, i)
           q == LastQuads(quads, i)
           m == a + AllQuads(f)
<1> HIDE DEF h, i
<1>2. /\ quads = p \o q /\ p \in Seq(Quads) /\ q \in Seq(Quads) /\ Len(p) = i
      /\ AllQuads(f) \in Nat
      /\ Denotes(f, p, a, m, c) /\ Denotes(x \o g, q, m, b, c)
  <2>1. h \in Seq(Runs) /\ Denotes(f \o h, quads, a, b, c) /\ i = MixedQuads(f)
    BY <1>1 DEF h, i
  <2>2. Denotes(f, p, a, m, c) /\ Denotes(h, q, m, b, c)
    BY <2>1, CutDenotes
  <2>3. quads = p \o q /\ p \in Seq(Quads) /\ q \in Seq(Quads)
    <3>1. p \in Seq(Quads) /\ q \in Seq(Quads)
      BY <2>1, CutDenotes
    <3>2. i \in 0..Len(quads) /\ quads \in Seq(Quads)
      BY <2>1, CutDenotes
    <3>3. quads = p \o q
      BY <3>2, SeqCut DEF FirstQuads, LastQuads
    <3>4. QED
      BY <3>1, <3>3
  <2>4. Len(p) = i /\ AllQuads(f) \in Nat
    BY <2>1, CutDenotes
  <2>5. QED
    BY <2>2, <2>3, <2>4 DEF h
<1> HIDE DEF p, q
<1>3. m \in Int
  BY <1>2
<1> HIDE DEF m
<1> DEFINE j == MixedQuads(x)
           u == FirstQuads(q, j)
           v == LastQuads(q, j)
           n == m + AllQuads(x)
<1>4. /\ q = u \o v /\ u \in Seq(Quads) /\ v \in Seq(Quads) /\ Len(u) = j
      /\ Denotes(x, u, m, n, c) /\ Denotes(g, v, n, b, c)
  BY <1>2, <1>3, CutDenotes, SMTT(30)
<1> HIDE DEF u, v
<1>5. Denotes(y, u, m, n, c)
  BY <1>3, <1>4
<1>6. MixedQuads(y) = Len(u) /\ n = m + AllQuads(y)
  BY <1>4
<1> HIDE DEF j, n
<1>7. Denotes(y \o g, u \o v, m, b, c)
  <2>1. Denotes(y, u, m, m + AllQuads(y), c) /\ Denotes(g, v, m + AllQuads(y), b, c)
    BY <1>4, <1>5, <1>6
  <2>2. QED
    BY <1>3, <1>4, <1>6, <2>1, JoinDenotes
<1>8. Denotes(f \o (y \o g), p \o q, a, b, c)
  <2>1. Denotes(f, p, a, a + AllQuads(f), c) /\ Denotes(y \o g, q, a + AllQuads(f), b, c)
    BY <1>2, <1>4, <1>7 DEF m
  <2>2. MixedQuads(f) = Len(p)
    BY <1>2 DEF i
  <2>3. QED
    BY <1>1, <1>2, <2>1, <2>2, JoinDenotes
<1>9. QED
  BY <1>2, <1>8

Join(r, s) == r \o s

LEMMA JoinFour ==
  ASSUME NEW r1 \in Seq(Runs), NEW r2 \in Seq(Runs), NEW r3 \in Seq(Runs), NEW r4 \in Seq(Runs)
  PROVE  /\ Join(Join(r1, r2), Join(r3, r4)) = Join(r1, Join(Join(r2, r3), r4))
         /\ r2 \o r3 \in Seq(Runs) /\ r1 \o r2 \in Seq(Runs) /\ r3 \o r4 \in Seq(Runs)
<1>1. r2 \o r3 \in Seq(Runs) /\ r1 \o r2 \in Seq(Runs) /\ r3 \o r4 \in Seq(Runs)
  OBVIOUS
<1>2. (r1 \o r2) \o (r3 \o r4) = r1 \o (r2 \o (r3 \o r4))
  <2> DEFINE w == r3 \o r4
  <2>1. w \in Seq(Runs)
    BY <1>1
  <2> HIDE DEF w
  <2>2. (r1 \o r2) \o w = r1 \o (r2 \o w)
    BY <2>1, ConcatAssociative
  <2>3. QED
    BY <2>2 DEF w
<1>3. (r2 \o r3) \o r4 = r2 \o (r3 \o r4)
  BY ConcatAssociative
<1>4. (r1 \o r2) \o (r3 \o r4) = r1 \o ((r2 \o r3) \o r4)
  BY <1>2, <1>3
<1>5. QED
  BY <1>1, <1>4 DEF Join

\* The runs up to quad number offset of run k, and from there on.
HeadRuns(runs, k, offset) == SubSeq(runs, 1, k - 1) \o Piece(runs[k].type, offset)
TailRuns(runs, k, offset) ==
  Piece(runs[k].type, runs[k].length - offset) \o SubSeq(runs, k + 1, Len(runs))
EarlierRuns(runs, k) == SubSeq(runs, 1, k - 1)
LaterRuns(runs, k) == SubSeq(runs, k + 1, Len(runs))
WholeRun(runs, k) == Piece(runs[k].type, runs[k].length)
TwoParts(runs, k, offset) ==
  Piece(runs[k].type, offset) \o Piece(runs[k].type, runs[k].length - offset)

LEMMA RunsCut ==
  ASSUME NEW runs \in Seq(Runs), NEW k \in 1..Len(runs), NEW offset \in 0..runs[k].length,
         runs[k].length >= 1
  PROVE  /\ runs[k].type \in RunTypes /\ runs[k].length \in Nat
         /\ offset \in Nat /\ runs[k].length - offset \in Nat
         /\ EarlierRuns(runs, k) \in Seq(Runs) /\ LaterRuns(runs, k) \in Seq(Runs)
         /\ WholeRun(runs, k) \in Seq(Runs) /\ TwoParts(runs, k, offset) \in Seq(Runs)
         /\ HeadRuns(runs, k, offset) \in Seq(Runs) /\ TailRuns(runs, k, offset) \in Seq(Runs)
         /\ runs = EarlierRuns(runs, k) \o (WholeRun(runs, k) \o LaterRuns(runs, k))
         /\ HeadRuns(runs, k, offset) \o TailRuns(runs, k, offset)
              = EarlierRuns(runs, k) \o (TwoParts(runs, k, offset) \o LaterRuns(runs, k))
         /\ AllQuads(WholeRun(runs, k)) = AllQuads(TwoParts(runs, k, offset))
         /\ MixedQuads(WholeRun(runs, k)) = MixedQuads(TwoParts(runs, k, offset))
         /\ AllQuads(HeadRuns(runs, k, offset)) = QuadsBefore(runs, k) + offset
         /\ MixedQuads(HeadRuns(runs, k, offset))
              = MixedBefore(runs, k) + MixedPart(runs[k].type, offset)
         /\ QuadsBefore(runs, k) \in Int
<1> DEFINE type == runs[k].type
           length == runs[k].length
           f == EarlierRuns(runs, k)
           g == LaterRuns(runs, k)
           x == WholeRun(runs, k)
           y == TwoParts(runs, k, offset)
           u == Piece(type, offset)
           v == Piece(type, length - offset)
<1>1. runs[k] \in Runs /\ Len(runs) \in Nat
  OBVIOUS
<1>2. type \in RunTypes /\ length \in Nat /\ offset \in Nat /\ length - offset \in Nat
      /\ runs[k] = [type |-> type, length |-> length]
  BY <1>1 DEF Runs
<1> HIDE DEF type, length
<1>3. /\ x \in Seq(Runs) /\ AllQuads(x) = length /\ MixedQuads(x) = MixedPart(type, length)
      /\ u \in Seq(Runs) /\ AllQuads(u) = offset /\ MixedQuads(u) = MixedPart(type, offset)
      /\ v \in Seq(Runs) /\ AllQuads(v) = length - offset
      /\ MixedQuads(v) = MixedPart(type, length - offset)
  BY <1>2, PieceSums DEF WholeRun, type, length
<1>4. y = u \o v
  BY DEF TwoParts, type, length
<1> HIDE DEF u, v, x, y
<1>5. y \in Seq(Runs) /\ AllQuads(x) = AllQuads(y) /\ MixedQuads(x) = MixedQuads(y)
  <2>1. AllQuads(y) = offset + (length - offset)
        /\ MixedQuads(y) = MixedPart(type, offset) + MixedPart(type, length - offset)
    BY <1>3, <1>4, AllOfJoin
  <2>2. MixedPart(type, offset) + MixedPart(type, length - offset) = MixedPart(type, length)
    BY <1>2 DEF MixedPart
  <2>3. offset + (length - offset) = length
    BY <1>2
  <2>4. y \in Seq(Runs)
    BY <1>3, <1>4, JoinFour
  <2>5. AllQuads(y) = length /\ MixedQuads(y) = MixedPart(type, length)
    BY <2>1, <2>2, <2>3, Zenon
  <2>6. QED
    BY <1>3, <2>4, <2>5, Zenon
<1> DEFINE h == SubSeq(runs, k, Len(runs))
<1>6. f \in Seq(Runs) /\ Len(f) = k - 1 /\ h \in Seq(Runs) /\ runs = f \o h
  <2>1. k - 1 \in 0..Len(runs) /\ (k - 1) + 1 = k
    BY <1>1
  <2> DEFINE j == k - 1
  <2> HIDE DEF j
  <2>2. /\ runs = SubSeq(runs, 1, j) \o SubSeq(runs, j + 1, Len(runs))
        /\ SubSeq(runs, 1, j) \in Seq(Runs) /\ SubSeq(runs, j + 1, Len(runs)) \in Seq(Runs)
        /\ Len(SubSeq(runs, 1, j)) = j
    <3>1. j \in 0..Len(runs) /\ runs \in Seq(Runs)
      BY <1>1, <2>1 DEF j
    <3>2. QED
      BY <3>1, SeqCut, ZenonT(30)
  <2>3. j = k - 1 /\ j + 1 = k
    BY <2>1 DEF j
  <2>4. QED
    BY <2>2, <2>3 DEF EarlierRuns
<1>7. g \in Seq(Runs)
  <2>1. k \in 0..Len(runs)
    BY <1>1
  <2>2. QED
    BY <2>1, SeqCut DEF LaterRuns
<1>8. h = x \o g
  <2>1. k \in 1..Len(runs) /\ Len(runs) \in k..Len(runs)
    BY <1>1
  <2>2. h = <<runs[k]>> \o g
    BY <2>1, SubSeqRecursiveFirst DEF LaterRuns
  <2>3. x = <<runs[k]>>
    BY <1>2 DEF WholeRun, Piece, x, type, length
  <2>4. QED
    BY <2>2, <2>3
<1>9. HeadRuns(runs, k, offset) = f \o u /\ TailRuns(runs, k, offset) = v \o g
  BY DEF HeadRuns, TailRuns, EarlierRuns, LaterRuns, u, v, type, length
<1> HIDE DEF f, g, h
<1>10. (f \o u) \o (v \o g) = f \o (y \o g)
  <2>1. (f \o u) \o (v \o g) = f \o ((u \o v) \o g)
    <3>1. Join(Join(f, u), Join(v, g)) = Join(f, Join(Join(u, v), g))
      BY <1>3, <1>6, <1>7, JoinFour
    <3>2. QED
      BY <3>1 DEF Join
  <2>2. QED
    BY <1>4, <2>1, Zenon
<1>11. f \o u \in Seq(Runs) /\ v \o g \in Seq(Runs)
  BY <1>3, <1>6, <1>7, JoinFour
<1>12. AllQuads(f) = QuadsBefore(runs, k) /\ MixedQuads(f) = MixedBefore(runs, k)
  <2>1. Len(f) + 1 = k /\ k \in 1..Len(f) + 1
    BY <1>6
  <2>2. QuadsBefore(f \o h, k) = QuadsBefore(f, k) /\ MixedBefore(f \o h, k) = MixedBefore(f, k)
    BY <1>6, <2>1, BeforeInFront
  <2>3. QED
    BY <1>6, <2>1, <2>2 DEF AllQuads, MixedQuads
<1>13. /\ AllQuads(f \o u) = QuadsBefore(runs, k) + offset
       /\ MixedQuads(f \o u) = MixedBefore(runs, k) + MixedPart(type, offset)
       /\ QuadsBefore(runs, k) \in Int
  <2>1. /\ AllQuads(f \o u) = AllQuads(f) + AllQuads(u)
        /\ MixedQuads(f \o u) = MixedQuads(f) + MixedQuads(u)
        /\ AllQuads(f) \in Int
    BY <1>3, <1>6, AllOfJoin
  <2>2. QED
    BY <1>3, <1>12, <2>1, Zenon
<1>14. runs = f \o (x \o g)
  BY <1>6, <1>8
<1>15. QED
  BY <1>2, <1>3, <1>5, <1>6, <1>7, <1>9, <1>10, <1>11, <1>13, <1>14, Zenon DEF type, length, f, g, x, y

LEMMA CutAt ==
  ASSUME NEW runs, NEW quads, NEW a \in Int, NEW b, NEW c, Denotes(runs, quads, a, b, c),
         NEW k \in 1..Len(runs), NEW offset \in 0..runs[k].length,
         NEW x, x = MixedBefore(runs, k) + MixedPart(runs[k].type, offset),
         NEW m, m = a + (QuadsBefore(runs, k) + offset)
  PROVE  /\ x \in 0..Len(quads) /\ m \in Int /\ m >= a
         /\ HeadRuns(runs, k, offset) \in Seq(Runs) /\ TailRuns(runs, k, offset) \in Seq(Runs)
         /\ Denotes(HeadRuns(runs, k, offset), FirstQuads(quads, x), a, m, c)
         /\ Denotes(TailRuns(runs, k, offset), LastQuads(quads, x), m, b, c)
<1> DEFINE f == EarlierRuns(runs, k)
           g == LaterRuns(runs, k)
           type == runs[k].type
           length == runs[k].length
           p == WholeRun(runs, k)
           y == TwoParts(runs, k, offset)
           head == HeadRuns(runs, k, offset)
           tail == TailRuns(runs, k, offset)
<1>1. runs \in Seq(Runs) /\ runs[k].length >= 1
  BY DEF Denotes, InStep
<1>2. /\ type \in RunTypes /\ length \in Nat /\ offset \in Nat /\ length - offset \in Nat
      /\ f \in Seq(Runs) /\ g \in Seq(Runs) /\ p \in Seq(Runs) /\ y \in Seq(Runs)
      /\ head \in Seq(Runs) /\ tail \in Seq(Runs)
      /\ runs = f \o (p \o g) /\ head \o tail = f \o (y \o g)
      /\ AllQuads(p) = AllQuads(y) /\ MixedQuads(p) = MixedQuads(y)
      /\ AllQuads(head) = QuadsBefore(runs, k) + offset
      /\ MixedQuads(head) = x
  BY <1>1, RunsCut
<1> HIDE DEF f, g, type, length, head, tail
<1>3. \A q, e : \A d \in Int : Denotes(p, q, d, e, c) => Denotes(y, q, d, e, c)
  <2>1. offset + (length - offset) = length
    BY <1>2
  <2>2. SUFFICES ASSUME NEW q, NEW e, NEW d \in Int, Denotes(p, q, d, e, c)
                 PROVE  Denotes(y, q, d, e, c)
    OBVIOUS
  <2>3. Denotes(Piece(type, offset + (length - offset)), q, d, e, c)
    BY <2>1, <2>2, Zenon DEF WholeRun, type, length
  <2>4. QED
    BY <1>2, <2>3, PieceSplit DEF TwoParts, type, length
<1> HIDE DEF p, y
<1>4. Denotes(f \o (p \o g), quads, a, b, c)
  BY <1>2
<1>5. Denotes(head \o tail, quads, a, b, c)
  BY <1>2, <1>3, <1>4, Splice
<1>6. /\ x \in 0..Len(quads)
      /\ AllQuads(head) \in Nat
      /\ Denotes(head, FirstQuads(quads, x), a, a + AllQuads(head), c)
      /\ Denotes(tail, LastQuads(quads, x), a + AllQuads(head), b, c)
  BY <1>2, <1>5, CutDenotes
<1>7. m = a + AllQuads(head)
  BY <1>2
<1>8. m \in Int /\ m >= a
  BY <1>6, <1>7
<1>9. QED
  BY <1>2, <1>6, <1>7, <1>8 DEF head, tail

LEMMA Uncut ==
  ASSUME NEW runs \in Seq(Runs), NEW a \in Int, NEW b, NEW c, NEW k \in 1..Len(runs),
         NEW offset \in 0..runs[k].length, runs[k].length >= 1,
         NEW p, NEW q, NEW m, m = a + (QuadsBefore(runs, k) + offset),
         Denotes(HeadRuns(runs, k, offset), p, a, m, c),
         Denotes(TailRuns(runs, k, offset), q, m, b, c)
  PROVE  Denotes(runs, p \o q, a, b, c)
<1> DEFINE f == EarlierRuns(runs, k)
           g == LaterRuns(runs, k)
           type == runs[k].type
           length == runs[k].length
           x == WholeRun(runs, k)
           y == TwoParts(runs, k, offset)
           head == HeadRuns(runs, k, offset)
           tail == TailRuns(runs, k, offset)
<1>1. /\ type \in RunTypes /\ length \in Nat /\ offset \in Nat /\ length - offset \in Nat
      /\ f \in Seq(Runs) /\ g \in Seq(Runs) /\ x \in Seq(Runs) /\ y \in Seq(Runs)
      /\ head \in Seq(Runs) /\ tail \in Seq(Runs)
      /\ runs = f \o (x \o g) /\ head \o tail = f \o (y \o g)
      /\ AllQuads(x) = AllQuads(y) /\ MixedQuads(x) = MixedQuads(y)
      /\ AllQuads(head) = QuadsBefore(runs, k) + offset
  BY RunsCut
<1>2. Denotes(head, p, a, m, c) /\ Denotes(tail, q, m, b, c)
  OBVIOUS
<1> HIDE DEF f, g, type, length, head, tail
<1>3. \A e, h : \A d \in Int : Denotes(y, e, d, h, c) => Denotes(x, e, d, h, c)
  <2>1. offset + (length - offset) = length
    BY <1>1
  <2>2. SUFFICES ASSUME NEW e, NEW h, NEW d \in Int, Denotes(y, e, d, h, c)
                 PROVE  Denotes(x, e, d, h, c)
    OBVIOUS
  <2>3. Denotes(Piece(type, offset + (length - offset)), e, d, h, c)
    BY <1>1, <2>2, PieceSplit DEF TwoParts, type, length
  <2>4. QED
    BY <2>1, <2>3, Zenon DEF WholeRun, type, length
<1> HIDE DEF x, y
<1>4. Denotes(head \o tail, p \o q, a, b, c)
  <2>1. p \in Seq(Quads) /\ q \in Seq(Quads) /\ MixedQuads(head) = Len(p)
    BY <1>2 DEF Denotes, InStep
  <2>2. m = a + AllQuads(head)
    BY <1>1
  <2>3. Denotes(head, p, a, a + AllQuads(head), c) /\ Denotes(tail, q, a + AllQuads(head), b, c)
    BY <1>2, <2>2
  <2>4. QED
    BY <1>1, <2>1, <2>3, JoinDenotes
<1>5. Denotes(f \o (y \o g), p \o q, a, b, c)
  BY <1>1, <1>4
<1>6. Denotes(f \o (x \o g), p \o q, a, b, c)
  BY <1>1, <1>3, <1>5, Splice
<1>7. QED
  BY <1>1, <1>6

-----------------------------------------------------------------------------
(* append_run and append_quad.                                               *)

Objects == [runs : Seq(Runs), quads : Seq(Quads)]
Stands(s, b, c) == s \in Objects /\ Denotes(s.runs, s.quads, 0, b, c)

JoinsLast(runs, type, length) == length > 0 /\ Len(runs) > 0 /\ runs[Len(runs)].type = type
Longer(runs, length) ==
  [runs EXCEPT ![Len(runs)] = [runs[Len(runs)] EXCEPT !.length = @ + length]]
OneMore(runs, type, length) == Append(runs, [type |-> type, length |-> length])

LEMMA AppendRunIs ==
  ASSUME NEW s \in Objects, NEW type \in RunTypes, NEW length \in Int
  PROVE  /\ append_run(s, type, length) \in Objects
         /\ append_run(s, type, length).quads = s.quads
         /\ length = 0 => append_run(s, type, length).runs = s.runs
         /\ JoinsLast(s.runs, type, length) =>
              append_run(s, type, length).runs = Longer(s.runs, length)
         /\ length # 0 /\ ~JoinsLast(s.runs, type, length) =>
              append_run(s, type, length).runs = OneMore(s.runs, type, length)
<1> DEFINE last == Len(s.runs)
           t == append_run(s, type, length)
<1>1. s.runs \in Seq(Runs) /\ s.quads \in Seq(Quads) /\ last \in Nat
  BY DEF Objects
<1>2. CASE length = 0
  BY <1>2 DEF append_run, JoinsLast
<1>3. CASE JoinsLast(s.runs, type, length)
  <2> DEFINE run == [s.runs[last] EXCEPT !.length = @ + length]
             runs == [s.runs EXCEPT ![last] = run]
  <2>1. t = [s EXCEPT !.runs = runs]
    BY <1>3 DEF append_run, JoinsLast
  <2>2. last \in 1..Len(s.runs) /\ s.runs[last] \in Runs /\ length # 0
    BY <1>1, <1>3 DEF JoinsLast
  <2>3. run \in Runs
    BY <2>2 DEF Runs
  <2> HIDE DEF run
  <2>4. runs \in Seq(Runs)
    BY <1>1, <2>2, <2>3, ExceptSeq
  <2> HIDE DEF runs
  <2>5. t \in Objects /\ t.quads = s.quads /\ t.runs = runs
    BY <2>1, <2>4 DEF Objects
  <2>6. runs = Longer(s.runs, length)
    BY DEF runs, run, Longer
  <2> HIDE DEF t, last
  <2>7. QED
    BY <1>3, <2>2, <2>5, <2>6, Zenon DEF t
<1>4. CASE length # 0 /\ ~JoinsLast(s.runs, type, length)
  <2> DEFINE run == [type |-> type, length |-> length]
  <2>1. t = [s EXCEPT !.runs = Append(@, run)]
    BY <1>4 DEF append_run, JoinsLast
  <2>2. run \in Runs
    BY DEF Runs
  <2> HIDE DEF run
  <2>3. Append(s.runs, run) \in Seq(Runs)
    BY <1>1, <2>2
  <2>4. t \in Objects /\ t.quads = s.quads /\ t.runs = Append(s.runs, run)
    BY <2>1, <2>3 DEF Objects
  <2>5. Append(s.runs, run) = OneMore(s.runs, type, length)
    BY DEF run, OneMore
  <2> HIDE DEF t, last
  <2>6. QED
    BY <1>4, <2>4, <2>5, Zenon DEF t
<1>5. QED
  BY <1>2, <1>3, <1>4

LEMMA AppendRunType ==
  ASSUME NEW s \in Objects, NEW type \in RunTypes, NEW length \in Int
  PROVE  append_run(s, type, length) \in Objects /\ append_run(s, type, length).quads = s.quads
BY AppendRunIs

\* Appending a run with its quads.
LEMMA AppendRunDenotes ==
  ASSUME NEW s \in Objects, NEW type \in RunTypes, NEW length \in Nat, NEW quads, NEW q,
         NEW b \in Int, NEW e, NEW c, Denotes(s.runs, quads, 0, b, c),
         Denotes(Piece(type, length), q, b, e, c)
  PROVE  Denotes(append_run(s, type, length).runs, quads \o q, 0, e, c)
<1> DEFINE runs == s.runs
           last == Len(runs)
           u == Piece(type, length)
           t == append_run(s, type, length)
<1>1. runs \in Seq(Runs) /\ quads \in Seq(Quads) /\ q \in Seq(Quads) /\ last \in Nat
      /\ MixedQuads(runs) = Len(quads) /\ b = 0 + AllQuads(runs)
  BY DEF Denotes, InStep
<1>2. u \in Seq(Runs)
  BY PieceSums
<1> HIDE DEF u
<1>3. Denotes(runs \o u, quads \o q, 0, e, c)
  <2>1. 0 \in Int /\ Denotes(runs, quads, 0, 0 + AllQuads(runs), c)
        /\ Denotes(u, q, 0 + AllQuads(runs), e, c)
    BY <1>1 DEF u
  <2>2. QED
    BY <1>1, <1>2, <2>1, JoinDenotes
<1>0. /\ length = 0 => t.runs = runs
      /\ JoinsLast(runs, type, length) => t.runs = Longer(runs, length)
      /\ length # 0 /\ ~JoinsLast(runs, type, length) => t.runs = OneMore(runs, type, length)
  BY AppendRunIs
<1>4. CASE length = 0
  <2>1. u = << >> /\ t.runs = runs
    BY <1>4, <1>0 DEF u, Piece
  <2>2. runs \o u = runs
    BY <1>1, <2>1, ConcatEmptySeq
  <2>3. QED
    BY <1>3, <2>1, <2>2, Zenon
<1>5. CASE JoinsLast(runs, type, length)
  <2>0. length > 0 /\ last > 0 /\ runs[last].type = type
    BY <1>5 DEF JoinsLast
  <2> DEFINE l == runs[last].length
             f == EarlierRuns(runs, last)
             g == LaterRuns(runs, last)
             w == WholeRun(runs, last)
             x == Piece(type, l + length)
  <2>1. last \in 1..Len(runs) /\ runs[last] \in Runs /\ runs[last].length >= 1
    BY <1>1, <2>0 DEF Denotes, InStep
  <2>2. l \in Nat /\ l + length \in Nat /\ l + length # 0
    BY <2>1 DEF Runs
  <2>3. g = << >>
    BY <1>1, SubSeqEmpty DEF LaterRuns
  <2>4. f \in Seq(Runs) /\ w \in Seq(Runs) /\ g \in Seq(Runs) /\ runs = f \o (w \o g)
    <3>1. l \in 0..runs[last].length
      BY <2>2
    <3>2. QED
      BY <1>1, <2>1, <3>1, RunsCut
  <2>5. w = Piece(type, l) /\ Len(f) = last - 1 /\ \A k \in 1..last - 1 : f[k] = runs[k]
    <3>1. last - 1 \in 0..Len(runs)
      BY <1>1, <2>0
    <3> DEFINE j == last - 1
    <3>2. j = last - 1
      OBVIOUS
    <3> HIDE DEF j
    <3>3. Len(SubSeq(runs, 1, j)) = j /\ \A k \in 1..j : SubSeq(runs, 1, j)[k] = runs[k]
      BY <1>1, <3>1, <3>2, SeqCut
    <3>4. QED
      BY <2>0, <3>2, <3>3 DEF EarlierRuns, WholeRun
  <2>6. t.runs = f \o x
    <3> DEFINE run == [runs[last] EXCEPT !.length = @ + length]
    <3>1. t.runs = [runs EXCEPT ![last] = run]
      BY <1>0, <1>5 DEF Longer
    <3>2. run = [type |-> type, length |-> l + length] /\ run \in Runs
      BY <2>0, <2>1 DEF Runs
    <3>3. x = <<run>>
      BY <2>2, <3>2 DEF Piece
    <3> HIDE DEF run, x, l, f
    <3>4. f \o <<run>> \in Seq(Runs) /\ Len(f \o <<run>>) = last
          /\ \A k \in 1..last : (f \o <<run>>)[k] = IF k = last THEN run ELSE runs[k]
      <4> DEFINE z == <<run>>
      <4>1. z \in Seq(Runs) /\ Len(z) = 1 /\ z[1] = run
        BY <3>2
      <4> HIDE DEF z
      <4>2. /\ f \o z \in Seq(Runs) /\ Len(f \o z) = Len(f) + Len(z)
            /\ \A k \in 1..Len(f) + Len(z) : (f \o z)[k] = IF k <= Len(f) THEN f[k] ELSE z[k - Len(f)]
        BY <2>4, <4>1, ConcatProperties
      <4>3. Len(f) + Len(z) = last /\ Len(f) = last - 1
        BY <1>1, <2>5, <4>1
      <4>4. \A k \in 1..last : (f \o z)[k] = IF k = last THEN run ELSE runs[k]
        BY <1>1, <2>5, <4>1, <4>2, <4>3, SMTT(30)
      <4>5. QED
        BY <4>2, <4>3, <4>4 DEF z
    <3>5. t.runs \in Seq(Runs) /\ Len(t.runs) = last
          /\ \A k \in 1..last : t.runs[k] = IF k = last THEN run ELSE runs[k]
      BY <1>1, <2>1, <3>1, <3>2, ExceptSeq
    <3>6. t.runs = f \o <<run>>
      BY <3>4, <3>5, SeqEqual, SMTT(30)
    <3>7. QED
      BY <3>3, <3>6
  <2> DEFINE y == w \o u
  <2>7. x \in Seq(Runs) /\ y \in Seq(Runs) /\ AllQuads(x) = AllQuads(y) /\ MixedQuads(x) = MixedQuads(y)
    <3> HIDE DEF w, x
    <3>1. /\ AllQuads(y) = AllQuads(w) + AllQuads(u) /\ MixedQuads(y) = MixedQuads(w) + MixedQuads(u)
          /\ y \in Seq(Runs)
      BY <1>2, <2>4, AllOfJoin
    <3>2. /\ AllQuads(w) = l /\ MixedQuads(w) = MixedPart(type, l)
          /\ AllQuads(u) = length /\ MixedQuads(u) = MixedPart(type, length)
      BY <2>2, <2>5, PieceSums DEF u
    <3>3. /\ x \in Seq(Runs) /\ AllQuads(x) = l + length
          /\ MixedQuads(x) = MixedPart(type, l + length)
      BY <2>2, PieceSums DEF x
    <3>4. MixedPart(type, l + length) = MixedPart(type, l) + MixedPart(type, length)
      BY <2>2 DEF MixedPart
    <3> HIDE DEF y
    <3>5. QED
      BY <3>1, <3>2, <3>3, <3>4, Zenon
  <2>8. \A h, d : \A a \in Int : Denotes(y, h, a, d, c) => Denotes(x, h, a, d, c)
    <3>1. SUFFICES ASSUME NEW h, NEW d, NEW a \in Int, Denotes(y, h, a, d, c)
                   PROVE  Denotes(x, h, a, d, c)
      OBVIOUS
    <3> HIDE DEF l
    <3>2. Denotes(Piece(type, l) \o Piece(type, length), h, a, d, c)
      BY <2>5, <3>1 DEF u
    <3>3. QED
      BY <2>2, <3>2, PieceSplit
  <2> HIDE DEF f, g, w, x
  <2>9. runs \o u = f \o (y \o g) /\ f \o x = f \o (x \o g)
    <3>1. f \o x = f \o (x \o g)
      BY <2>3, <2>7, ConcatEmptySeq
    <3>2. w \o g = w /\ y \o g = y
      BY <2>3, <2>4, <2>7, ConcatEmptySeq
    <3>3. (f \o w) \o u = f \o (w \o u)
      BY <1>2, <2>4, ConcatAssociative, SMTT(30)
    <3>4. QED
      BY <2>4, <3>1, <3>2, <3>3
  <2> HIDE DEF y
  <2>10. Denotes(f \o (y \o g), quads \o q, 0, e, c) /\ 0 \in Int
    BY <1>3, <2>9
  <2>11. Denotes(f \o (x \o g), quads \o q, 0, e, c)
    BY <2>4, <2>7, <2>8, <2>10, Splice
  <2>12. QED
    BY <2>6, <2>9, <2>11
<1>6. CASE length # 0 /\ ~JoinsLast(runs, type, length)
  <2>1. t.runs = Append(runs, [type |-> type, length |-> length])
    BY <1>0, <1>6 DEF OneMore
  <2>2. u = <<[type |-> type, length |-> length]>>
    BY <1>6 DEF u, Piece
  <2>3. t.runs = runs \o u
    BY <1>1, <2>1, <2>2
  <2>4. QED
    BY <1>3, <2>3
<1>7. QED
  BY <1>4, <1>5, <1>6

LEMMA MaskIs ==
  /\ FULL_QUAD_MASK # {} /\ FULL_QUAD_MASK \in Quads /\ {} \in Quads
  /\ QUAD_BITS \in Nat \ {0} /\ 0 \in FULL_QUAD_MASK
<1>1. 0 \in FULL_QUAD_MASK /\ QUAD_BITS \in Nat \ {0}
  BY SizesAssumption DEF FULL_QUAD_MASK
<1>2. QED
  BY <1>1 DEF Quads

\* What a run without quads stands for.
Filling(type) == IF type = Full THEN FULL_QUAD_MASK ELSE {}

LEMMA AppendRunStands ==
  ASSUME NEW s, NEW type \in {Empty, Full}, NEW length \in Nat, NEW b \in Int, NEW c,
         Stands(s, b, c), \A j \in 0..length - 1 : c[b + j] = Filling(type)
  PROVE  Stands(append_run(s, type, length), b + length, c)
<1> DEFINE t == append_run(s, type, length)
<1>1. s \in Objects /\ Denotes(s.runs, s.quads, 0, b, c) /\ type \in RunTypes
  BY DEF Stands, RunTypes
<1>2. t \in Objects /\ t.quads = s.quads
  BY <1>1, AppendRunIs
<1>3. type # Mixed
  BY DEF Empty, Full, Mixed
<1>4. Denotes(Piece(type, length), << >>, b, b + length, c)
  <2>1. << >> \in Seq(Quads) /\ Len(<< >>) = MixedPart(type, length) /\ ProperQuads(<< >>)
    BY <1>3 DEF MixedPart, ProperQuads
  <2>2. \A j \in 0..length - 1 : c[b + j] = Content(type, << >>, j)
    BY <1>3 DEF Content, Filling
  <2>3. QED
    BY <1>1, <2>1, <2>2, PieceDenotes
<1>5. Denotes(t.runs, s.quads \o << >>, 0, b + length, c)
  BY <1>1, <1>4, AppendRunDenotes
<1>6. s.quads \o << >> = s.quads
  BY <1>1, ConcatEmptySeq DEF Objects
<1>7. QED
  BY <1>2, <1>5, <1>6 DEF Stands

LEMMA AppendQuadStands ==
  ASSUME NEW s, NEW quad \in Quads, NEW b \in Int, NEW c, Stands(s, b, c), c[b] = quad
  PROVE  Stands(append_quad(s, quad), b + 1, c)
<1>1. s \in Objects /\ Denotes(s.runs, s.quads, 0, b, c)
  BY DEF Stands
<1>2. \A j \in 0..1 - 1 : c[b + j] = quad
  OBVIOUS
<1>3. CASE quad = {}
  <2>1. append_quad(s, quad) = append_run(s, Empty, 1)
    <3>1. FULL_QUAD_MASK # {}
      BY MaskIs
    <3>2. QED
      BY <1>3, <3>1 DEF append_quad
  <2>2. Filling(Empty) = {}
    BY DEF Filling, Empty, Full
  <2>3. QED
    BY <1>2, <1>3, <2>1, <2>2, AppendRunStands
<1>4. CASE quad # {} /\ quad = FULL_QUAD_MASK
  <2>1. append_quad(s, quad) = append_run(s, Full, 1) /\ Filling(Full) = FULL_QUAD_MASK
    BY <1>4 DEF append_quad, Filling
  <2>2. QED
    BY <1>2, <1>4, <2>1, AppendRunStands
<1>5. CASE quad \notin {{}, FULL_QUAD_MASK}
  <2> DEFINE u == [s EXCEPT !.quads = Append(@, quad)]
             t == append_run(u, Mixed, 1)
  <2>1. s.quads \in Seq(Quads) /\ s.runs \in Seq(Runs)
    BY <1>1 DEF Objects
  <2>2. u \in Objects /\ u.runs = s.runs /\ u.quads = Append(s.quads, quad)
    BY <1>1, <2>1, SMTT(30) DEF Objects
  <2>3. Append(s.quads, quad) = s.quads \o <<quad>>
    BY <2>1
  <2>4. append_quad(s, quad) = t
    BY <1>5 DEF append_quad
  <2> HIDE DEF u
  <2>5. Mixed \in RunTypes /\ 1 \in Int
    BY DEF RunTypes
  <2>6. t \in Objects /\ t.quads = u.quads
    BY <2>2, <2>5, AppendRunType
  <2> DEFINE q == <<quad>>
  <2>7. q \in Seq(Quads) /\ Len(q) = 1 /\ q[1] = quad
    OBVIOUS
  <2> HIDE DEF q
  <2>8. Denotes(Piece(Mixed, 1), q, b, b + 1, c)
    <3>1. Len(q) = MixedPart(Mixed, 1) /\ ProperQuads(q)
      BY <1>5, <2>7 DEF MixedPart, ProperQuads
    <3>2. \A j \in 0..1 - 1 : c[b + j] = Content(Mixed, q, j)
      BY <1>2, <2>7 DEF Content
    <3>3. QED
      BY <2>5, <2>7, <3>1, <3>2, PieceDenotes
  <2>9. Denotes(u.runs, s.quads, 0, b, c)
    BY <1>1, <2>2
  <2>10. Denotes(t.runs, s.quads \o q, 0, b + 1, c)
    BY <2>2, <2>5, <2>8, <2>9, AppendRunDenotes
  <2>11. t.quads = s.quads \o q
    BY <2>2, <2>3, <2>6 DEF q
  <2>12. QED
    BY <2>4, <2>6, <2>10, <2>11 DEF Stands
<1>6. QED
  BY <1>3, <1>4, <1>5

LEMMA AppendQuadType ==
  ASSUME NEW s \in Objects, NEW quad \in Quads
  PROVE  append_quad(s, quad) \in Objects
<1>1. Empty \in RunTypes /\ Full \in RunTypes /\ Mixed \in RunTypes
  BY DEF RunTypes
<1> DEFINE u == [s EXCEPT !.quads = Append(@, quad)]
<1>2. u \in Objects
  BY SMTT(30) DEF Objects
<1>3. append_quad(s, quad) \in {append_run(s, Empty, 1), append_run(s, Full, 1), append_run(u, Mixed, 1)}
  BY DEF append_quad
<1> HIDE DEF u
<1>4. 1 \in Int
  OBVIOUS
<1>5. QED
  BY <1>1, <1>2, <1>3, <1>4, AppendRunType

\* Runs that are all Empty have been joined to one.
Compact(s) == (\A k \in 1..Len(s.runs) : s.runs[k].type = Empty) => Len(s.runs) <= 1

LEMMA AppendRunCompact ==
  ASSUME NEW s \in Objects, Compact(s), NEW type \in RunTypes, NEW length \in Nat
  PROVE  Compact(append_run(s, type, length))
<1> DEFINE t == append_run(s, type, length)
           runs == s.runs
           last == Len(runs)
<1>1. runs \in Seq(Runs) /\ last \in Nat
  BY DEF Objects
<1>2. /\ length = 0 => t.runs = runs
      /\ JoinsLast(runs, type, length) => t.runs = Longer(runs, length)
      /\ length # 0 /\ ~JoinsLast(runs, type, length) => t.runs = OneMore(runs, type, length)
  BY AppendRunIs
<1>3. CASE length = 0
  BY <1>2, <1>3 DEF Compact
<1>4. CASE JoinsLast(runs, type, length)
  <2>1. last \in 1..Len(runs) /\ runs[last] \in Runs
    BY <1>1, <1>4 DEF JoinsLast
  <2> DEFINE run == [runs[last] EXCEPT !.length = @ + length]
  <2>2. run \in Runs /\ run.type = runs[last].type
    BY <2>1 DEF Runs
  <2>3. t.runs = [runs EXCEPT ![last] = run]
    BY <1>2, <1>4 DEF Longer
  <2> HIDE DEF run, t
  <2>4. Len(t.runs) = last /\ \A k \in 1..last : t.runs[k].type = runs[k].type
    BY <1>1, <2>1, <2>2, <2>3
  <2>5. Compact(t)
    BY <2>4 DEF Compact
  <2>6. QED
    BY <2>5 DEF t
<1>5. CASE length # 0 /\ ~JoinsLast(runs, type, length)
  <2> DEFINE run == [type |-> type, length |-> length]
  <2>1. t.runs = Append(runs, run)
    BY <1>2, <1>5 DEF OneMore
  <2>2. run.type = type
    OBVIOUS
  <2> HIDE DEF run, t
  <2>3. /\ Len(t.runs) = last + 1 /\ t.runs[last + 1] = run
        /\ \A k \in 1..last : t.runs[k] = runs[k]
    BY <1>1, <2>1
  <2>4. ASSUME \A k \in 1..Len(t.runs) : t.runs[k].type = Empty PROVE last = 0
    <3>1. last + 1 \in 1..Len(t.runs) /\ \A k \in 1..last : k \in 1..Len(t.runs)
      BY <1>1, <2>3
    <3>2. type = Empty /\ \A k \in 1..last : runs[k].type = Empty
      BY <2>2, <2>3, <2>4, <3>1
    <3>3. last > 0 => last \in 1..last
      BY <1>1
    <3>4. length > 0
      BY <1>5
    <3>5. QED
      BY <1>1, <1>5, <3>2, <3>3, <3>4 DEF JoinsLast
  <2>5. Compact(t)
    BY <2>3, <2>4 DEF Compact
  <2>6. QED
    BY <2>5 DEF t
<1>6. QED
  BY <1>3, <1>4, <1>5

LEMMA AppendQuadCompact ==
  ASSUME NEW s \in Objects, Compact(s), NEW quad \in Quads
  PROVE  Compact(append_quad(s, quad))
<1>1. Empty \in RunTypes /\ Full \in RunTypes /\ Mixed \in RunTypes
  BY DEF RunTypes
<1> DEFINE u == [s EXCEPT !.quads = Append(@, quad)]
<1>2. u \in Objects /\ u.runs = s.runs
  BY SMTT(30) DEF Objects
<1>3. append_quad(s, quad) \in {append_run(s, Empty, 1), append_run(s, Full, 1), append_run(u, Mixed, 1)}
  BY DEF append_quad
<1> HIDE DEF u
<1>4. Compact(u)
  BY <1>2 DEF Compact
<1>5. QED
  BY <1>1, <1>2, <1>3, <1>4, AppendRunCompact

-----------------------------------------------------------------------------
(* Code points and quads.                                                    *)

LEMMA ProductsInOrder ==
  ASSUME NEW m \in Nat \ {0}, NEW i \in Int, NEW j \in Int, i < j
  PROVE  m * i \in Int /\ m * j \in Int /\ m * i + m <= m * j
<1>1. j - i - 1 \in Nat /\ m * (j - i - 1) >= 0
  OBVIOUS
<1>2. m * j = m * i + m + m * (j - i - 1)
  OBVIOUS
<1>3. m * i \in Int /\ m * j \in Int /\ m * (j - i - 1) \in Int
  OBVIOUS
<1> DEFINE x == m * i
           y == m * j
           z == m * (j - i - 1)
<1>4. x \in Int /\ y \in Int /\ z \in Int /\ z >= 0 /\ y = x + m + z
  BY <1>1, <1>2, <1>3
<1> HIDE DEF x, y, z
<1>5. x + m <= y
  BY <1>4
<1>6. QED
  BY <1>4, <1>5 DEF x, y

\* Code points are in the order of their quads, then of their places in the quad.
LEMMA OrderIs ==
  ASSUME NEW i \in Int, NEW j \in Int, NEW o \in FULL_QUAD_MASK, NEW p \in FULL_QUAD_MASK
  PROVE  /\ QUAD_BITS * i + o \in Int /\ o \in Int
         /\ QUAD_BITS * i + o <= QUAD_BITS * j + p <=> i < j \/ (i = j /\ o <= p)
<1>1. QUAD_BITS \in Nat \ {0} /\ o \in 0..QUAD_BITS - 1 /\ p \in 0..QUAD_BITS - 1
  BY MaskIs DEF FULL_QUAD_MASK
<1> DEFINE x == QUAD_BITS * i
           y == QUAD_BITS * j
<1>2. x \in Int /\ y \in Int
  BY <1>1
<1>3. i < j => x + QUAD_BITS <= y
  BY <1>1, ProductsInOrder
<1>4. j < i => y + QUAD_BITS <= x
  BY <1>1, ProductsInOrder
<1>5. i = j => x = y
  OBVIOUS
<1> HIDE DEF x, y
<1>6. x + o <= y + p <=> i < j \/ (i = j /\ o <= p)
  BY <1>1, <1>2, <1>3, <1>4, <1>5
<1>7. x + o \in Int /\ o \in Int
  BY <1>1, <1>2
<1>8. QED
  BY <1>6, <1>7 DEF x, y

Index(cp) == cp \div QUAD_BITS
Point(i, o) == QUAD_BITS * i + o

LEMMA PlaceIs ==
  ASSUME NEW cp \in CodePoints
  PROVE  /\ Index(cp) \in Indices /\ Offset(cp) \in FULL_QUAD_MASK
         /\ cp = Point(Index(cp), Offset(cp)) /\ cp \in Int /\ Index(cp) \in Nat
<1>1. QUAD_BITS \in Nat \ {0} /\ UNICODE_QUAD_COUNT \in Nat \ {0}
  BY SizesAssumption
<1> DEFINE x == QUAD_BITS * UNICODE_QUAD_COUNT
           i == Index(cp)
           o == Offset(cp)
<1>2. cp \in Int /\ cp >= 0 /\ cp < x /\ x \in Int
  BY <1>1 DEF CodePoints, UNICODE_MAX
<1>3. o \in 0..QUAD_BITS - 1 /\ i \in Int /\ cp = QUAD_BITS * i + o
  BY <1>1, <1>2 DEF Index, Offset
<1> DEFINE y == QUAD_BITS * i
<1> HIDE DEF i, o
<1>4. y \in Int
  BY <1>1, <1>3
<1>5. i >= 0
  <2>1. SUFFICES ASSUME i < 0 PROVE FALSE
    BY <1>3
  <2>2. y + QUAD_BITS <= QUAD_BITS * 0
    BY <1>1, <1>3, <2>1, ProductsInOrder
  <2>3. QUAD_BITS * 0 = 0
    BY <1>1
  <2> HIDE DEF y
  <2>4. cp = y + o
    BY <1>3 DEF y
  <2>5. QED
    BY <1>1, <1>2, <1>3, <1>4, <2>2, <2>3, <2>4
<1>6. i < UNICODE_QUAD_COUNT
  <2>1. SUFFICES ASSUME ~(i < UNICODE_QUAD_COUNT) PROVE FALSE
    OBVIOUS
  <2>2. y >= x
    <3>1. i = UNICODE_QUAD_COUNT => y = x
      OBVIOUS
    <3>2. UNICODE_QUAD_COUNT < i => x + QUAD_BITS <= y
      BY <1>1, <1>3, ProductsInOrder
    <3> HIDE DEF x, y
    <3>3. QED
      BY <1>1, <1>2, <1>3, <1>4, <2>1, <3>1, <3>2
  <2>3. cp = y + o
    BY <1>3
  <2> HIDE DEF x, y
  <2>4. QED
    BY <1>1, <1>2, <1>3, <1>4, <2>2, <2>3
<1>7. QED
  BY <1>1, <1>2, <1>3, <1>5, <1>6 DEF Indices, FULL_QUAD_MASK, Point, i, o

LEMMA PointIs ==
  ASSUME NEW i \in Indices, NEW o \in FULL_QUAD_MASK
  PROVE  /\ Point(i, o) \in CodePoints /\ Index(Point(i, o)) = i /\ Offset(Point(i, o)) = o
         /\ i \in Int /\ o \in Int
<1>1. QUAD_BITS \in Nat \ {0} /\ UNICODE_QUAD_COUNT \in Nat \ {0} /\ o \in 0..QUAD_BITS - 1
      /\ i \in Int /\ 0 <= i /\ i < UNICODE_QUAD_COUNT
  BY SizesAssumption DEF Indices, FULL_QUAD_MASK
<1> DEFINE a == Point(i, o)
           x == QUAD_BITS * UNICODE_QUAD_COUNT
           y == QUAD_BITS * i
<1>2. a \in Int /\ a = y + o /\ x \in Int /\ y \in Int
  BY <1>1 DEF Point
<1>3. Index(a) = i /\ Offset(a) = o
  <2>1. a = QUAD_BITS * i + o
    BY <1>2
  <2> HIDE DEF a
  <2>2. QED
    BY <1>1, <1>2, <2>1, QuotientIs DEF Index, Offset
<1>4. y + QUAD_BITS <= x
  BY <1>1, ProductsInOrder
<1>5. y >= 0
  BY <1>1
<1> HIDE DEF a, y
<1>6. a \in 0..x - 1
  BY <1>1, <1>2, <1>4, <1>5
<1>7. QED
  BY <1>1, <1>3, <1>6 DEF CodePoints, UNICODE_MAX, a

\* The quads of a set of code points.
Cells(points) == [i \in Indices |-> {o \in FULL_QUAD_MASK : Point(i, o) \in points}]
Right(s, points) == Stands(s, UNICODE_QUAD_COUNT, Cells(points))

LEMMA CellsAre ==
  ASSUME NEW points, NEW i \in Indices
  PROVE  /\ Cells(points)[i] = {o \in FULL_QUAD_MASK : Point(i, o) \in points}
         /\ Cells(points)[i] \in Quads
  BY DEF Cells, Quads

\* The part of a range that lies in a quad.
LEMMA RangeCells ==
  ASSUME NEW lo \in CodePoints, NEW hi \in CodePoints, NEW i \in Int, NEW part,
         part = {o \in FULL_QUAD_MASK : Point(i, o) \in lo..hi}
  PROVE  /\ i < Index(lo) \/ i > Index(hi) => part = {}
         /\ i > Index(lo) /\ i < Index(hi) => part = FULL_QUAD_MASK
         /\ i = Index(lo) /\ i < Index(hi) => part = LoQuad(lo)
         /\ i > Index(lo) /\ i = Index(hi) => part = HiQuad(hi)
         /\ i = Index(lo) /\ i = Index(hi) => part = LoQuad(lo) \intersect HiQuad(hi)
         /\ LoQuad(lo) \in Quads /\ HiQuad(hi) \in Quads
<1> DEFINE l == Index(lo)
           h == Index(hi)
           u == Offset(lo)
           v == Offset(hi)
<1>1. /\ l \in Int /\ h \in Int /\ u \in FULL_QUAD_MASK /\ v \in FULL_QUAD_MASK
      /\ lo = Point(l, u) /\ hi = Point(h, v) /\ lo \in Int /\ hi \in Int
  BY PlaceIs DEF Indices
<1>2. LoQuad(lo) = {o \in FULL_QUAD_MASK : u <= o} /\ HiQuad(hi) = {o \in FULL_QUAD_MASK : o <= v}
  <2>1. QUAD_BITS \in Nat /\ u \in 0..QUAD_BITS - 1 /\ v \in 0..QUAD_BITS - 1
    BY <1>1, MaskIs DEF FULL_QUAD_MASK
  <2> HIDE DEF u, v
  <2>2. u..QUAD_BITS - 1 = {o \in 0..QUAD_BITS - 1 : u <= o}
    BY <2>1
  <2>3. 0..v = {o \in 0..QUAD_BITS - 1 : o <= v}
    BY <2>1
  <2>4. QED
    BY <2>2, <2>3 DEF LoQuad, HiQuad, FULL_QUAD_MASK, u, v
<1> HIDE DEF l, h, u, v
<1>3. ASSUME NEW o \in FULL_QUAD_MASK
      PROVE  Point(i, o) \in lo..hi <=> /\ l < i \/ (l = i /\ u <= o)
                                        /\ i < h \/ (i = h /\ o <= v)
  <2>1. Point(i, o) \in Int
    BY OrderIs DEF Point
  <2>2. lo <= Point(i, o) <=> l < i \/ (l = i /\ u <= o)
    BY <1>1, OrderIs DEF Point
  <2>3. Point(i, o) <= hi <=> i < h \/ (i = h /\ o <= v)
    BY <1>1, OrderIs DEF Point
  <2>4. Point(i, o) \in lo..hi <=> lo <= Point(i, o) /\ Point(i, o) <= hi
    BY <1>1, <2>1
  <2>5. QED
    BY <2>2, <2>3, <2>4
<1>4. part = {o \in FULL_QUAD_MASK : /\ l < i \/ (l = i /\ u <= o)
                                     /\ i < h \/ (i = h /\ o <= v)}
  BY <1>3
<1>5. LoQuad(lo) \in Quads /\ HiQuad(hi) \in Quads
  BY <1>2 DEF Quads
<1>6. i < l \/ i > h => part = {}
  BY <1>1, <1>4
<1>7. i > l /\ i < h => part = FULL_QUAD_MASK
  BY <1>1, <1>4
<1>8. i = l /\ i < h => part = LoQuad(lo)
  BY <1>1, <1>2, <1>4
<1>9. i > l /\ i = h => part = HiQuad(hi)
  BY <1>1, <1>2, <1>4
<1>10. i = l /\ i = h => part = LoQuad(lo) \intersect HiQuad(hi)
  BY <1>1, <1>2, <1>4
<1>11. QED
  BY <1>5, <1>6, <1>7, <1>8, <1>9, <1>10 DEF l, h

-----------------------------------------------------------------------------
(* Constructors.                                                             *)

\* What the first b quads of c have been made into.
Made(s, b, c) == Stands(s, b, c) /\ Compact(s)

LEMMA NothingMade ==
  ASSUME NEW c
  PROVE  Made(NoRuns, 0, c)
<1>1. << >> \in Seq(Runs) /\ << >> \in Seq(Quads) /\ Len(<< >>) = 0
  OBVIOUS
<1>2. NoRuns \in Objects /\ NoRuns.runs = << >> /\ NoRuns.quads = << >>
  BY <1>1 DEF NoRuns, Objects
<1>3. AllQuads(<< >>) = 0 /\ MixedQuads(<< >>) = 0
  <2>1. Len(<< >>) + 1 = 1
    OBVIOUS
  <2>2. QED
    BY <1>1, <2>1, QuadsBeforeIs, MixedBeforeIs, Zenon DEF AllQuads, MixedQuads
<1>4. InStep(<< >>, << >>)
  BY <1>1, <1>3 DEF InStep
<1>5. Denotes(<< >>, << >>, 0, 0, c)
  BY <1>1, <1>3, <1>4 DEF Denotes
<1>6. QED
  BY <1>1, <1>2, <1>5 DEF Made, Stands, Compact

LEMMA MadeOfRun ==
  ASSUME NEW s, NEW type \in {Empty, Full}, NEW b \in Int, NEW e \in Int, b <= e, NEW c,
         Made(s, b, c), \A i \in b..e - 1 : c[i] = Filling(type),
         NEW length, length = e - b
  PROVE  Made(append_run(s, type, length), e, c)
<1>1. length \in Nat /\ b + length = e /\ \A j \in 0..length - 1 : b + j \in b..e - 1
  OBVIOUS
<1>2. \A j \in 0..length - 1 : c[b + j] = Filling(type)
  BY <1>1
<1>3. Stands(append_run(s, type, length), b + length, c)
  BY <1>1, <1>2, AppendRunStands DEF Made
<1>4. Compact(append_run(s, type, length))
  BY <1>1, AppendRunCompact DEF Made, Stands, RunTypes
<1>5. QED
  BY <1>1, <1>3, <1>4 DEF Made

LEMMA MadeOfQuad ==
  ASSUME NEW s, NEW quad \in Quads, NEW b \in Int, NEW e, e = b + 1, NEW c, Made(s, b, c), c[b] = quad
  PROVE  Made(append_quad(s, quad), e, c)
<1>1. Stands(append_quad(s, quad), b + 1, c)
  BY AppendQuadStands DEF Made
<1>2. Compact(append_quad(s, quad))
  BY AppendQuadCompact DEF Made, Stands
<1>3. QED
  BY <1>1, <1>2 DEF Made

LEMMA FillingIs == Filling(Empty) = {} /\ Filling(Full) = FULL_QUAD_MASK
BY DEF Filling, Empty, Full

LEMMA EmptySetRight == Made(EmptySet, UNICODE_QUAD_COUNT, Cells({}))
<1> DEFINE c == Cells({})
<1>1. \A i \in 0..UNICODE_QUAD_COUNT - 1 : c[i] = {}
  BY CellsAre DEF Indices
<1> HIDE DEF c
<1>2. UNICODE_QUAD_COUNT \in Int /\ 0 <= UNICODE_QUAD_COUNT /\ 0 \in Int
      /\ UNICODE_QUAD_COUNT = UNICODE_QUAD_COUNT - 0
  BY SizesAssumption
<1>3. Made(append_run(NoRuns, Empty, UNICODE_QUAD_COUNT), UNICODE_QUAD_COUNT, c)
  BY <1>1, <1>2, NothingMade, FillingIs, MadeOfRun
<1>4. QED
  BY <1>3 DEF EmptySet, c

LEMMA RangeSetRight ==
  ASSUME NEW lo \in CodePoints, NEW hi \in CodePoints, lo <= hi
  PROVE  Made(RangeSet(lo, hi), UNICODE_QUAD_COUNT, Cells(lo..hi))
<1> DEFINE c == Cells(lo..hi)
           l == Index(lo)
           h == Index(hi)
           start == append_run(NoRuns, Empty, l)
           middle == append_run(append_quad(start, LoQuad(lo)), Full, h - (l + 1))
           end == IF l = h THEN append_quad(start, LoQuad(lo) \intersect HiQuad(hi))
                  ELSE append_quad(middle, HiQuad(hi))
           n == UNICODE_QUAD_COUNT
<1>1. n \in Nat /\ l \in Int /\ h \in Int /\ 0 <= l /\ h < n /\ l <= h
  <2>1. /\ lo = QUAD_BITS * l + Offset(lo) /\ hi = QUAD_BITS * h + Offset(hi)
        /\ Offset(lo) \in FULL_QUAD_MASK /\ Offset(hi) \in FULL_QUAD_MASK
        /\ n \in Nat /\ l \in Int /\ h \in Int /\ 0 <= l /\ h < n
    BY SizesAssumption, PlaceIs DEF Indices, Point
  <2> HIDE DEF l, h
  <2>2. l < h \/ l = h
    BY <2>1, OrderIs
  <2>3. QED
    BY <2>1, <2>2
<1>2. ASSUME NEW i \in 0..n - 1
      PROVE  /\ i < l \/ i > h => c[i] = {}
             /\ i > l /\ i < h => c[i] = FULL_QUAD_MASK
             /\ i = l /\ i < h => c[i] = LoQuad(lo)
             /\ i > l /\ i = h => c[i] = HiQuad(hi)
             /\ i = l /\ i = h => c[i] = LoQuad(lo) \intersect HiQuad(hi)
  <2>1. i \in Indices /\ i \in Int
    BY <1>1 DEF Indices
  <2>2. c[i] = {o \in FULL_QUAD_MASK : Point(i, o) \in lo..hi}
    BY <2>1, CellsAre
  <2> HIDE DEF c
  <2>3. QED
    BY <2>1, <2>2, RangeCells
<1>3. LoQuad(lo) \in Quads /\ HiQuad(hi) \in Quads /\ LoQuad(lo) \intersect HiQuad(hi) \in Quads
  <2>1. LoQuad(lo) \in Quads /\ HiQuad(hi) \in Quads
    BY RangeCells, 0 \in Int
  <2>2. QED
    BY <2>1 DEF Quads
<1> HIDE DEF c, l, h, n
<1>4. Made(start, l, c)
  <2>1. \A i \in 0..l - 1 : c[i] = {}
    BY <1>1, <1>2
  <2>2. 0 <= l /\ 0 \in Int /\ l = l - 0
    BY <1>1
  <2>3. QED
    BY <1>1, <2>1, <2>2, NothingMade, FillingIs, MadeOfRun
<1> HIDE DEF start
<1>5. Made(end, h + 1, c)
  <2>1. CASE l = h
    <3>1. c[l] = LoQuad(lo) \intersect HiQuad(hi)
      BY <1>1, <1>2, <2>1
    <3>2. end = append_quad(start, LoQuad(lo) \intersect HiQuad(hi)) /\ h + 1 = l + 1
      BY <2>1
    <3> HIDE DEF end
    <3>3. QED
      BY <1>1, <1>3, <1>4, <3>1, <3>2, MadeOfQuad
  <2>2. CASE l # h
    <3>1. l < h /\ l \in 0..n - 1 /\ h \in 0..n - 1
      BY <1>1, <2>2
    <3>2. c[l] = LoQuad(lo) /\ c[h] = HiQuad(hi)
      BY <1>1, <1>2, <3>1
    <3> DEFINE begun == append_quad(start, LoQuad(lo))
    <3>3. Made(begun, l + 1, c)
      BY <1>1, <1>3, <1>4, <3>2, MadeOfQuad
    <3> HIDE DEF begun
    <3>4. \A i \in l + 1..h - 1 : c[i] = FULL_QUAD_MASK
      BY <1>1, <1>2
    <3>5. l + 1 <= h /\ l + 1 \in Int
      BY <1>1, <3>1
    <3> DEFINE k == l + 1
    <3> HIDE DEF k
    <3>6. Made(append_run(begun, Full, h - k), h, c)
      BY <1>1, <3>3, <3>4, <3>5, FillingIs, MadeOfRun DEF k
    <3>7. Made(middle, h, c)
      BY <3>6 DEF begun, k
    <3> HIDE DEF middle
    <3>8. Made(append_quad(middle, HiQuad(hi)), h + 1, c)
      BY <1>1, <1>3, <3>2, <3>7, MadeOfQuad
    <3>9. QED
      BY <2>2, <3>8
  <2>3. QED
    BY <2>1, <2>2
<1>6. RangeSet(lo, hi) = append_run(end, Empty, n - (h + 1))
  BY DEF RangeSet, end, middle, start, l, h, n, Index
<1> HIDE DEF end
<1>7. Made(append_run(end, Empty, n - (h + 1)), n, c)
  <2>1. \A i \in h + 1..n - 1 : c[i] = {}
    BY <1>1, <1>2
  <2>2. h + 1 \in Int /\ h + 1 <= n /\ n \in Int
    BY <1>1
  <2> DEFINE k == h + 1
  <2> HIDE DEF k
  <2>3. Made(append_run(end, Empty, n - k), n, c)
    BY <1>5, <2>1, <2>2, FillingIs, MadeOfRun DEF k
  <2>4. QED
    BY <2>3 DEF k
<1>8. QED
  BY <1>6, <1>7 DEF c, n

LEMMA SingletonRight ==
  ASSUME NEW cp \in CodePoints
  PROVE  Made(Singleton(cp), UNICODE_QUAD_COUNT, Cells({cp}))
<1>1. cp \in Int /\ cp..cp = {cp} /\ cp <= cp
  BY PlaceIs
<1>2. LoQuad(cp) \intersect HiQuad(cp) = {Offset(cp)}
  <2> DEFINE o == Offset(cp)
  <2>1. o \in 0..QUAD_BITS - 1 /\ QUAD_BITS \in Nat
    BY PlaceIs, MaskIs DEF FULL_QUAD_MASK
  <2> HIDE DEF o
  <2>2. (o..QUAD_BITS - 1) \intersect (0..o) = {o}
    BY <2>1
  <2>3. QED
    BY <2>2 DEF LoQuad, HiQuad, o
<1>3. RangeSet(cp, cp) = Singleton(cp)
  BY <1>2 DEF RangeSet, Singleton
<1>4. Made(RangeSet(cp, cp), UNICODE_QUAD_COUNT, Cells(cp..cp))
  BY <1>1, RangeSetRight, Zenon
<1>5. QED
  BY <1>1, <1>3, <1>4

\* The intervals of a list in turn.
Conversions(list, n, f) ==
  f = [k \in 0..n |-> IF k = 0 THEN [set |-> NoRuns, prior_index |-> 0, mask |-> {}]
                      ELSE Convert(list, k, f[k - 1])]

LEMMA ConversionsExist ==
  ASSUME NEW list
  PROVE  \A n \in Nat : \E f : Conversions(list, n, f)
<1> DEFINE T == {n \in Nat : ~\E f : Conversions(list, n, f)}
           start == [set |-> NoRuns, prior_index |-> 0, mask |-> {}]
<1>1. SUFFICES ASSUME T # {} PROVE FALSE
  OBVIOUS
<1>2. PICK n \in T : \A k \in T : n <= k
  BY <1>1, LeastNatural
<1>3. CASE n = 0
  <2> DEFINE f == [k \in 0..0 |-> start]
             g == [k \in 0..0 |-> IF k = 0 THEN start ELSE Convert(list, k, f[k - 1])]
  <2>1. \A k \in 0..0 : f[k] = g[k]
    OBVIOUS
  <2>2. f = [k \in 0..0 |-> f[k]] /\ g = [k \in 0..0 |-> g[k]]
    OBVIOUS
  <2> HIDE DEF f, g
  <2>3. f = g
    BY <2>1, <2>2
  <2>4. Conversions(list, 0, f)
    BY <2>3 DEF Conversions, g
  <2>5. QED
    BY <1>2, <1>3, <2>4
<1>4. CASE n # 0
  <2>1. n - 1 \in Nat /\ n \in Nat
    BY <1>2, <1>4
  <2>2. n - 1 \notin T
    BY <1>2, <2>1
  <2>3. PICK f : Conversions(list, n - 1, f)
    BY <2>1, <2>2
  <2> DEFINE g == [k \in 0..n |-> IF k = 0 THEN start ELSE Convert(list, k, f[k - 1])]
             h == [k \in 0..n |-> IF k = 0 THEN start ELSE Convert(list, k, g[k - 1])]
  <2>4. \A k \in 0..n - 1 : g[k] = f[k]
    <3> DEFINE e == [k \in 0..n - 1 |-> IF k = 0 THEN start ELSE Convert(list, k, f[k - 1])]
    <3>1. f = e
      BY <2>3 DEF Conversions
    <3>2. \A k \in 0..n - 1 : e[k] = IF k = 0 THEN start ELSE Convert(list, k, f[k - 1])
      OBVIOUS
    <3>3. \A k \in 0..n - 1 : k \in 0..n
      BY <2>1
    <3>4. \A k \in 0..n - 1 : g[k] = IF k = 0 THEN start ELSE Convert(list, k, f[k - 1])
      BY <3>3
    <3> HIDE DEF e, g, start
    <3>5. QED
      BY <3>1, <3>2, <3>4
  <2>5. \A k \in 0..n : g[k] = h[k]
    <3>1. ASSUME NEW k \in 0..n, k # 0 PROVE g[k - 1] = f[k - 1]
      <4>1. k - 1 \in 0..n - 1
        BY <2>1, <3>1
      <4> HIDE DEF g, h
      <4>2. QED
        BY <2>4, <4>1
    <3>2. QED
      BY <3>1
  <2>6. g = [k \in 0..n |-> g[k]] /\ h = [k \in 0..n |-> h[k]]
    OBVIOUS
  <2> HIDE DEF g, h
  <2>7. g = h
    BY <2>5, <2>6
  <2>8. Conversions(list, n, g)
    BY <2>7 DEF Conversions, h
  <2>9. QED
    BY <1>2, <2>8
<1>5. QED
  BY <1>3, <1>4

LEMMA ConversionsAre ==
  ASSUME NEW list, NEW n \in Nat, n = Len(list)
  PROVE  \E f : /\ f[0] = [set |-> NoRuns, prior_index |-> 0, mask |-> {}]
                /\ \A k \in 1..n : f[k] = Convert(list, k, f[k - 1])
                /\ IntervalSet(list)
                     = append_run(f[n].set, Empty, UNICODE_QUAD_COUNT - f[n].prior_index)
<1> DEFINE start == [set |-> NoRuns, prior_index |-> 0, mask |-> {}]
           f == CHOOSE f : f = [k \in 0..n |-> IF k = 0 THEN start ELSE Convert(list, k, f[k - 1])]
<1>1. IntervalSet(list)
        = append_run(f[n].set, Empty, UNICODE_QUAD_COUNT - f[n].prior_index)
  BY DEF IntervalSet
<1>2. \E g : g = [k \in 0..n |-> IF k = 0 THEN start ELSE Convert(list, k, g[k - 1])]
  <2>1. PICK g : Conversions(list, n, g)
    BY ConversionsExist
  <2>2. g = [k \in 0..n |-> IF k = 0 THEN start ELSE Convert(list, k, g[k - 1])]
    BY <2>1 DEF Conversions
  <2>3. QED
    BY <2>2
<1>3. f = [k \in 0..n |-> IF k = 0 THEN start ELSE Convert(list, k, f[k - 1])]
  BY <1>2
<1> HIDE DEF f, start
<1>4. f[0] = start /\ \A k \in 1..n : f[k] = Convert(list, k, f[k - 1])
  <2>1. 0 \in 0..n /\ \A k \in 1..n : k \in 0..n /\ k # 0
    OBVIOUS
  <2>2. QED
    BY <1>3, <2>1
<1>5. QED
  BY <1>1, <1>4 DEF start

\* What is known of the lists.
LEMMA ListsHave ==
  ASSUME NEW list \in IntervalLists
  PROVE  /\ Len(list) \in Nat
         /\ \A k \in 1..Len(list) : /\ list[k][1] \in CodePoints /\ list[k][2] \in CodePoints
                                    /\ list[k][1] <= list[k][2]
         /\ \A i, j \in 1..Len(list) : i < j => list[i][2] < list[j][1]
<1> DEFINE n == Len(list)
<1>1. /\ list \in Seq(CodePoints \X CodePoints) /\ DOMAIN list = 1..n /\ n \in Nat
      /\ \A k \in DOMAIN list : list[k][1] <= list[k][2]
      /\ \A k \in 2..n : list[k - 1][2] < list[k][1]
  <2>1. list \in Seq(CodePoints \X CodePoints)
    BY ListsAssumption
  <2>2. \A k \in DOMAIN list : list[k][1] <= list[k][2]
    BY ListsAssumption
  <2>3. \A k \in 2..n : list[k - 1][2] < list[k][1]
    BY ListsAssumption
  <2>4. DOMAIN list = 1..n /\ n \in Nat
    BY <2>1
  <2>5. QED
    BY <2>1, <2>2, <2>3, <2>4
<1>2. \A k \in 1..n : list[k] \in CodePoints \X CodePoints
  BY <1>1
<1>3. \A k \in 1..n : list[k][1] \in CodePoints /\ list[k][2] \in CodePoints
  BY <1>2
<1>4. CodePoints \subseteq Int
  BY PlaceIs
<1>5. ASSUME NEW i \in 1..n, NEW j \in 1..n, i < j PROVE list[i][2] < list[j][1]
  <2> DEFINE m == n - 1
             h == [k \in 1..m + 1 |-> list[k][1]]
  <2>1. m \in Nat /\ m + 1 = n
    BY <1>1, <1>5
  <2>2. \A k \in 1..m + 1 : h[k] = list[k][1]
    OBVIOUS
  <2> HIDE DEF h, m
  <2>3. \A k \in 1..m + 1 : h[k] \in Int
    BY <1>3, <1>4, <2>1, <2>2
  <2>4. \A k \in 1..m : h[k] <= h[k + 1]
    <3>1. SUFFICES ASSUME NEW k \in 1..m PROVE h[k] <= h[k + 1]
      OBVIOUS
    <3>2. k \in 1..n /\ k + 1 \in 1..n /\ k + 1 \in 2..n /\ (k + 1) - 1 = k
      BY <1>1, <2>1
    <3>3. list[k][1] <= list[k][2] /\ list[k][2] < list[k + 1][1]
      BY <1>1, <3>2
    <3>4. list[k][1] \in Int /\ list[k][2] \in Int /\ list[k + 1][1] \in Int
      BY <1>3, <1>4, <3>2
    <3>5. QED
      BY <2>1, <2>2, <3>2, <3>3, <3>4
  <2>5. \A a, b \in 1..m + 1 : a <= b => h[a] <= h[b]
    BY <2>1, <2>3, <2>4, NeverDecreasing
  <2>6. i + 1 \in 2..n /\ i + 1 \in 1..n /\ i + 1 <= j /\ (i + 1) - 1 = i
    BY <1>1, <1>5
  <2>7. list[i][2] < list[i + 1][1]
    BY <1>1, <2>6
  <2>8. list[i + 1][1] <= list[j][1]
    BY <2>1, <2>2, <2>5, <2>6
  <2>9. list[i][2] \in Int /\ list[i + 1][1] \in Int /\ list[j][1] \in Int
    BY <1>3, <1>4, <2>6
  <2>10. QED
    BY <2>7, <2>8, <2>9
<1>6. QED
  BY <1>1, <1>3, <1>5

\* What the first k intervals cover.
Done(list, k) == UNION {list[i][1]..list[i][2] : i \in 1..k}

LEMMA DoneIs ==
  ASSUME NEW list \in IntervalLists
  PROVE  /\ Within(list) = Done(list, Len(list)) /\ Done(list, 0) = {}
         /\ \A k \in 1..Len(list) :
              Done(list, k) = Done(list, k - 1) \union (list[k][1]..list[k][2])
         /\ Within(list) \subseteq CodePoints
<1> DEFINE n == Len(list)
<1>1. n \in Nat /\ DOMAIN list = 1..n
  BY ListsAssumption
<1>2. Within(list) = Done(list, n)
  BY <1>1 DEF Within, Done
<1>3. Done(list, 0) = {}
  BY DEF Done
<1>4. ASSUME NEW k \in 1..n
      PROVE  Done(list, k) = Done(list, k - 1) \union (list[k][1]..list[k][2])
  <2>1. 1..k = (1..k - 1) \union {k}
    BY <1>1
  <2>2. QED
    BY <2>1 DEF Done
<1>5. Within(list) \subseteq CodePoints
  <2>1. ASSUME NEW i \in 1..n PROVE list[i][1]..list[i][2] \subseteq CodePoints
    <3>1. list[i][1] \in CodePoints /\ list[i][2] \in CodePoints
      BY ListsHave
    <3>2. UNICODE_MAX \in Int
      BY SizesAssumption DEF UNICODE_MAX
    <3>3. QED
      BY <3>1, <3>2 DEF CodePoints
  <2>2. QED
    BY <1>1, <2>1 DEF Within
<1>6. QED
  BY <1>2, <1>3, <1>4, <1>5

LEMMA IndexOfPoint ==
  ASSUME NEW i \in Int, NEW o \in FULL_QUAD_MASK
  PROVE  Index(Point(i, o)) = i
<1>1. QUAD_BITS \in Nat \ {0} /\ o \in 0..QUAD_BITS - 1
  BY MaskIs DEF FULL_QUAD_MASK
<1> DEFINE a == Point(i, o)
<1>2. a \in Int /\ a = QUAD_BITS * i + o
  BY <1>1 DEF Point
<1> HIDE DEF a
<1>3. a \div QUAD_BITS = i
  BY <1>1, <1>2, QuotientIs
<1>4. QED
  BY <1>3 DEF Index, a

LEMMA IndexInOrder ==
  ASSUME NEW p \in CodePoints, NEW q \in CodePoints, p <= q
  PROVE  Index(p) <= Index(q)
<1> DEFINE i == Index(p)
           j == Index(q)
           u == Offset(p)
           v == Offset(q)
<1>1. i \in Int /\ j \in Int /\ u \in FULL_QUAD_MASK /\ v \in FULL_QUAD_MASK
      /\ p = QUAD_BITS * i + u /\ q = QUAD_BITS * j + v
  BY PlaceIs DEF Point, Indices
<1> HIDE DEF i, j, u, v
<1>2. i < j \/ i = j
  BY <1>1, OrderIs
<1>3. QED
  BY <1>1, <1>2 DEF i, j

MaskOf(points, i) == {o \in FULL_QUAD_MASK : Point(i, o) \in points}

\* The first k intervals are in the object, up to a quad that still waits in mask.
ConvertInv(list, k, x) ==
  /\ x.prior_index \in Nat /\ x.prior_index <= UNICODE_QUAD_COUNT
  /\ Made(x.set, x.prior_index, Cells(Within(list)))
  /\ x.mask = MaskOf(Done(list, k), x.prior_index)
  /\ \A p \in Done(list, k) : Index(p) <= x.prior_index
  /\ k < Len(list) => x.prior_index <= Index(list[k + 1][1])
  /\ x.mask # {} => k < Len(list) /\ Index(list[k + 1][1]) = x.prior_index

\* What the intervals from the next on cover lies in later quads, or in that of its start.
LEMMA LaterIntervals ==
  ASSUME NEW list \in IntervalLists, NEW k \in 1..Len(list), NEW p \in Within(list),
         p \notin Done(list, k)
  PROVE  /\ k < Len(list) /\ Index(list[k + 1][1]) <= Index(p)
         /\ Index(list[k][2]) <= Index(list[k + 1][1])
<1> DEFINE n == Len(list)
<1>1. n \in Nat /\ DOMAIN list = 1..n
  BY ListsAssumption
<1>2. PICK j \in 1..n : p \in list[j][1]..list[j][2]
  BY <1>1 DEF Within
<1>3. j > k
  BY <1>1, <1>2 DEF Done
<1>4. p \in CodePoints
  BY DoneIs
<1>5. k + 1 \in 1..n /\ k < n /\ k < k + 1
  BY <1>1, <1>2, <1>3
<1>6. /\ list[k + 1][1] \in CodePoints /\ list[k + 1][2] \in CodePoints
      /\ list[j][1] \in CodePoints /\ list[k][2] \in CodePoints /\ p \in Int
      /\ list[k + 1][1] <= list[k + 1][2] /\ list[k][2] < list[k + 1][1]
  BY <1>1, <1>4, <1>5, ListsHave, PlaceIs
<1>7. list[k + 1][1] <= list[j][1]
  <2>1. CASE j = k + 1
    BY <1>6, <2>1, PlaceIs
  <2>2. CASE j # k + 1
    <3>1. k + 1 < j
      BY <1>1, <1>2, <1>3, <2>2
    <3>2. list[k + 1][2] < list[j][1]
      BY <1>5, <3>1, ListsHave
    <3>3. list[k + 1][1] \in Int /\ list[k + 1][2] \in Int /\ list[j][1] \in Int
      BY <1>6, PlaceIs
    <3>4. QED
      BY <1>6, <3>2, <3>3
  <2>3. QED
    BY <2>1, <2>2
<1>8. list[k + 1][1] \in Int /\ list[j][1] \in Int /\ list[k][2] \in Int
  BY <1>6, PlaceIs
<1>9. list[k + 1][1] <= p /\ list[k][2] <= list[k + 1][1]
  BY <1>2, <1>6, <1>7, <1>8
<1>10. QED
  BY <1>4, <1>5, <1>6, <1>9, IndexInOrder

\* The quads of a range, by their place.
LEMMA RangeMask ==
  ASSUME NEW lo \in CodePoints, NEW hi \in CodePoints, NEW i \in Int
  PROVE  /\ i < Index(lo) \/ i > Index(hi) => MaskOf(lo..hi, i) = {}
         /\ i > Index(lo) /\ i < Index(hi) => MaskOf(lo..hi, i) = FULL_QUAD_MASK
         /\ i = Index(lo) /\ i < Index(hi) => MaskOf(lo..hi, i) = LoQuad(lo)
         /\ i > Index(lo) /\ i = Index(hi) => MaskOf(lo..hi, i) = HiQuad(hi)
         /\ i = Index(lo) /\ i = Index(hi) =>
              MaskOf(lo..hi, i) = LoQuad(lo) \intersect HiQuad(hi)
<1> DEFINE part == MaskOf(lo..hi, i)
<1>1. part = {o \in FULL_QUAD_MASK : Point(i, o) \in lo..hi}
  BY DEF MaskOf
<1> HIDE DEF part
<1>2. /\ i < Index(lo) \/ i > Index(hi) => part = {}
      /\ i > Index(lo) /\ i < Index(hi) => part = FULL_QUAD_MASK
      /\ i = Index(lo) /\ i < Index(hi) => part = LoQuad(lo)
      /\ i > Index(lo) /\ i = Index(hi) => part = HiQuad(hi)
      /\ i = Index(lo) /\ i = Index(hi) => part = LoQuad(lo) \intersect HiQuad(hi)
  BY <1>1, RangeCells
<1>3. QED
  BY <1>2 DEF part

LEMMA ConvertKeeps ==
  ASSUME NEW list \in IntervalLists, NEW k \in 1..Len(list), NEW x, ConvertInv(list, k - 1, x)
  PROVE  ConvertInv(list, k, Convert(list, k, x))
<1> DEFINE lo == list[k][1]
           hi == list[k][2]
           l == Index(lo)
           h == Index(hi)
           b == x.prior_index
           n == UNICODE_QUAD_COUNT
           c == Cells(Within(list))
           old == Done(list, k - 1)
           new == Done(list, k)
           skipped == append_run(x.set, Empty, l - b)
           begun == IF l = h THEN skipped
                    ELSE append_run(append_quad(skipped, x.mask \union LoQuad(lo)), Full, h - (l + 1))
           mask == IF l = h THEN x.mask \union (LoQuad(lo) \intersect HiQuad(hi)) ELSE HiQuad(hi)
           shared == k < Len(list) /\ h = Index(list[k + 1][1])
           y == Convert(list, k, x)
<1>1. /\ k - 1 < Len(list) /\ (k - 1) + 1 = k /\ Len(list) \in Nat
      /\ lo \in CodePoints /\ hi \in CodePoints /\ lo <= hi
  BY ListsHave
<1>2. /\ b \in Nat /\ b <= n /\ Made(x.set, b, c) /\ x.mask = MaskOf(old, b)
      /\ (\A p \in old : Index(p) <= b) /\ b <= l /\ (x.mask # {} => l = b)
  BY <1>1 DEF ConvertInv
<1>3. /\ n \in Nat /\ l \in Int /\ h \in Int /\ l <= h /\ h < n /\ 0 <= l
      /\ l \in Indices /\ h \in Indices
  BY <1>1, PlaceIs, IndexInOrder, SizesAssumption DEF Indices
<1>4. /\ new = old \union (lo..hi) /\ new \subseteq Within(list) /\ Within(list) \subseteq CodePoints
      /\ old \subseteq CodePoints
  <2>1. new = old \union (lo..hi) /\ Within(list) \subseteq CodePoints /\ DOMAIN list = 1..Len(list)
    BY DoneIs, ListsAssumption
  <2>2. new \subseteq Within(list)
    BY <1>1, <2>1 DEF Done, Within
  <2> HIDE DEF new, old
  <2>3. QED
    BY <2>1, <2>2
<1>5. y = IF shared THEN [set |-> begun, prior_index |-> h, mask |-> mask]
          ELSE [set |-> append_quad(begun, mask), prior_index |-> h + 1, mask |-> {}]
  BY DEF Convert, Index
<1>6. LoQuad(lo) \in Quads /\ HiQuad(hi) \in Quads
  BY <1>1, <1>3, RangeCells
<1>7. \A i \in Indices : c[i] = MaskOf(Within(list), i)
  BY CellsAre DEF MaskOf
<1> HIDE DEF lo, hi, l, h, b, n, c, old, new, skipped, begun, mask, y
<1>8. ASSUME NEW i \in Int
      PROVE  /\ i < l \/ i > h => MaskOf(lo..hi, i) = {}
             /\ i > l /\ i < h => MaskOf(lo..hi, i) = FULL_QUAD_MASK
             /\ i = l /\ i < h => MaskOf(lo..hi, i) = LoQuad(lo)
             /\ i > l /\ i = h => MaskOf(lo..hi, i) = HiQuad(hi)
             /\ i = l /\ i = h => MaskOf(lo..hi, i) = LoQuad(lo) \intersect HiQuad(hi)
  BY <1>1, RangeMask, Zenon DEF l, h
<1>9. \A i \in Int : MaskOf(new, i) = MaskOf(old, i) \union MaskOf(lo..hi, i)
  BY <1>4 DEF MaskOf
<1>10. ASSUME NEW i \in Int
       PROVE  /\ i > b => MaskOf(old, i) = {}
              /\ b <= i /\ i < l => MaskOf(old, i) = {}
              /\ i = l => MaskOf(old, i) = x.mask
  <2>1. ASSUME i > b PROVE MaskOf(old, i) = {}
    <3>1. \A o \in FULL_QUAD_MASK : Index(Point(i, o)) = i
      BY IndexOfPoint
    <3>2. QED
      BY <1>2, <2>1, <3>1 DEF MaskOf
  <2>2. ASSUME b <= i, i < l PROVE MaskOf(old, i) = {}
    <3>1. CASE i = b
      BY <1>2, <2>2, <3>1
    <3>2. CASE i # b
      BY <1>2, <2>1, <2>2, <3>2
    <3>3. QED
      BY <3>1, <3>2
  <2>3. ASSUME i = l PROVE MaskOf(old, i) = x.mask
    <3>1. CASE i = b
      BY <1>2, <3>1
    <3>2. CASE i # b
      <4>1. x.mask = {} /\ i > b
        BY <1>2, <2>3, <3>2
      <4>2. QED
        BY <2>1, <4>1
    <3>3. QED
      BY <3>1, <3>2
  <2>4. QED
    BY <2>1, <2>2, <2>3, Zenon
<1>11. ASSUME NEW i \in Indices, i <= h, i = h => ~shared PROVE c[i] = MaskOf(new, i)
  <2>1. ASSUME NEW o \in FULL_QUAD_MASK, Point(i, o) \in Within(list), Point(i, o) \notin new
        PROVE  FALSE
    <3>1. /\ k < Len(list) /\ Index(list[k + 1][1]) <= Index(Point(i, o))
          /\ h <= Index(list[k + 1][1])
      BY <2>1, LaterIntervals DEF new, h, hi
    <3>2. Index(Point(i, o)) = i /\ i \in Int
      BY PointIs
    <3>3. k + 1 \in 1..Len(list)
      BY <1>1, <3>1
    <3>4. Index(list[k + 1][1]) \in Int
      BY <3>3, ListsHave, PlaceIs
    <3>5. i = h /\ Index(list[k + 1][1]) = h
      BY <1>3, <1>11, <3>1, <3>2, <3>4
    <3>6. QED
      BY <1>11, <3>1, <3>5
  <2>2. MaskOf(Within(list), i) = MaskOf(new, i)
    BY <1>4, <2>1 DEF MaskOf
  <2>3. QED
    BY <1>7, <2>2
<1>12. \A i \in Int : 0 <= i /\ i < n => i \in Indices
  BY <1>3 DEF Indices, n
<1>13. Made(skipped, l, c)
  <2>1. ASSUME NEW i \in b..l - 1 PROVE c[i] = {}
    <3>1. i \in Int /\ b <= i /\ i < l /\ i \in Indices /\ i < h
      BY <1>2, <1>3, <1>12
    <3>2. MaskOf(old, i) = {} /\ MaskOf(lo..hi, i) = {}
      BY <1>8, <1>10, <3>1
    <3>3. c[i] = MaskOf(new, i)
      BY <1>3, <1>11, <3>1
    <3>4. QED
      BY <1>9, <3>1, <3>2, <3>3
  <2>2. b \in Int
    BY <1>2
  <2>3. Made(append_run(x.set, Empty, l - b), l, c)
    BY <1>2, <1>3, <2>1, <2>2, FillingIs, MadeOfRun
  <2>4. QED
    BY <2>3 DEF skipped
<1>14. mask = MaskOf(new, h) /\ mask \in Quads
  <2>1. CASE l = h
    <3>1. MaskOf(old, h) = x.mask /\ MaskOf(lo..hi, h) = LoQuad(lo) \intersect HiQuad(hi)
      BY <1>3, <1>8, <1>10, <2>1
    <3>2. QED
      BY <1>3, <1>9, <2>1, <3>1 DEF mask, MaskOf, Quads
  <2>2. CASE l # h
    <3>1. l < h /\ h > b
      BY <1>2, <1>3, <2>2
    <3>2. MaskOf(old, h) = {} /\ MaskOf(lo..hi, h) = HiQuad(hi)
      BY <1>3, <1>8, <1>10, <3>1
    <3>3. QED
      BY <1>3, <1>6, <1>9, <2>2, <3>2 DEF mask
  <2>3. QED
    BY <2>1, <2>2
<1>15. Made(begun, h, c)
  <2>1. CASE l = h
    BY <1>13, <2>1 DEF begun
  <2>2. CASE l # h
    <3>1. l < h
      BY <1>3, <2>2
    <3> DEFINE q == x.mask \union LoQuad(lo)
               s == append_quad(skipped, q)
               m == l + 1
    <3>2. q \in Quads
      BY <1>2, <1>6 DEF Quads, MaskOf
    <3>3. c[l] = q
      <4>1. MaskOf(old, l) = x.mask /\ MaskOf(lo..hi, l) = LoQuad(lo)
        BY <1>3, <1>8, <1>10, <3>1
      <4>2. c[l] = MaskOf(new, l)
        BY <1>3, <1>11, <3>1
      <4>3. QED
        BY <1>3, <1>9, <4>1, <4>2
    <3> HIDE DEF q
    <3>4. Made(s, m, c)
      BY <1>3, <1>13, <3>2, <3>3, MadeOfQuad
    <3> HIDE DEF s
    <3>5. ASSUME NEW i \in m..h - 1 PROVE c[i] = FULL_QUAD_MASK
      <4>1. i \in Int /\ l < i /\ i < h /\ i \in Indices /\ i > b
        BY <1>2, <1>3, <1>12
      <4>2. MaskOf(old, i) = {} /\ MaskOf(lo..hi, i) = FULL_QUAD_MASK
        BY <1>8, <1>10, <4>1
      <4>3. c[i] = MaskOf(new, i)
        BY <1>3, <1>11, <4>1
      <4>4. QED
        BY <1>9, <4>1, <4>2, <4>3
    <3>6. m \in Int /\ m <= h
      BY <1>3, <3>1
    <3> HIDE DEF m
    <3>7. Made(append_run(s, Full, h - m), h, c)
      BY <1>3, <3>4, <3>5, <3>6, FillingIs, MadeOfRun
    <3>8. begun = append_run(s, Full, h - m)
      BY <2>2 DEF begun, s, q, m
    <3>9. QED
      BY <3>7, <3>8
  <2>3. QED
    BY <2>1, <2>2
<1>16. \A p \in new : Index(p) <= h
  <2>1. ASSUME NEW p \in lo..hi PROVE Index(p) <= h
    <3>1. p \in CodePoints /\ p <= hi
      BY <1>1, <1>4, <2>1, PlaceIs
    <3>2. QED
      BY <1>1, <3>1, IndexInOrder DEF h
  <2>2. ASSUME NEW p \in old PROVE Index(p) <= h
    <3>1. Index(p) <= b /\ Index(p) \in Int
      BY <1>2, <1>4, PlaceIs
    <3>2. QED
      BY <1>2, <1>3, <3>1
  <2>3. QED
    BY <1>4, <2>1, <2>2
<1>17. k < Len(list) => h <= Index(list[k + 1][1]) /\ Index(list[k + 1][1]) \in Int
  <2>1. SUFFICES ASSUME k < Len(list)
                 PROVE  h <= Index(list[k + 1][1]) /\ Index(list[k + 1][1]) \in Int
    OBVIOUS
  <2>2. k + 1 \in 1..Len(list) /\ k < k + 1
    BY <1>1, <2>1
  <2>3. list[k + 1][1] \in CodePoints /\ hi < list[k + 1][1]
    BY <2>2, ListsHave DEF hi
  <2>4. hi <= list[k + 1][1]
    BY <1>1, <2>3, PlaceIs
  <2>5. QED
    BY <1>1, <2>3, <2>4, IndexInOrder, PlaceIs DEF h
<1>18. CASE shared
  <2>1. y.set = begun /\ y.prior_index = h /\ y.mask = mask
    BY <1>5, <1>18
  <2>2. h \in Nat /\ h <= n
    BY <1>3
  <2>3. ConvertInv(list, k, y)
    BY <1>3, <1>14, <1>15, <1>16, <1>17, <1>18, <2>1, <2>2, Zenon DEF ConvertInv, new, c, n
  <2>4. QED
    BY <2>3 DEF y
<1>19. CASE ~shared
  <2>1. y.set = append_quad(begun, mask) /\ y.prior_index = h + 1 /\ y.mask = {}
    BY <1>5, <1>19
  <2>2. h + 1 \in Nat /\ h + 1 <= n /\ h + 1 \in Int
    BY <1>3
  <2>3. c[h] = mask
    BY <1>3, <1>11, <1>14, <1>19
  <2>4. Made(append_quad(begun, mask), h + 1, c)
    BY <1>3, <1>14, <1>15, <2>3, MadeOfQuad
  <2>5. MaskOf(new, h + 1) = {}
    <3>1. \A o \in FULL_QUAD_MASK : Index(Point(h + 1, o)) = h + 1
      BY <2>2, IndexOfPoint
    <3>2. QED
      BY <1>3, <1>16, <3>1 DEF MaskOf
  <2>6. \A p \in new : Index(p) <= h + 1
    <3>1. \A p \in new : Index(p) \in Int
      BY <1>4, PlaceIs
    <3>2. QED
      BY <1>3, <1>16, <3>1
  <2>7. k < Len(list) => h + 1 <= Index(list[k + 1][1])
    BY <1>3, <1>17, <1>19
  <2>8. ConvertInv(list, k, y)
    BY <2>1, <2>2, <2>4, <2>5, <2>6, <2>7, Zenon DEF ConvertInv, new, c, n
  <2>9. QED
    BY <2>8 DEF y
<1>20. QED
  BY <1>18, <1>19

\* A list of intervals makes the set of its code points.
LEMMA IntervalSetRight ==
  ASSUME NEW list \in IntervalLists
  PROVE  Made(IntervalSet(list), UNICODE_QUAD_COUNT, Cells(Within(list)))
<1> DEFINE n == Len(list)
<1>1. n \in Nat
  BY ListsHave
<1>2. PICK f : /\ f[0] = [set |-> NoRuns, prior_index |-> 0, mask |-> {}]
               /\ \A k \in 1..n : f[k] = Convert(list, k, f[k - 1])
               /\ IntervalSet(list)
                    = append_run(f[n].set, Empty, UNICODE_QUAD_COUNT - f[n].prior_index)
  BY <1>1, ConversionsAre
<1>3. ConvertInv(list, 0, f[0])
  <2>1. f[0].set = NoRuns /\ f[0].prior_index = 0 /\ f[0].mask = {}
    BY <1>2
  <2>2. Made(NoRuns, 0, Cells(Within(list)))
    BY NothingMade
  <2>3. Done(list, 0) = {} /\ MaskOf({}, 0) = {}
    BY DoneIs DEF MaskOf
  <2>4. 0 < n => 0 <= Index(list[1][1])
    BY <1>1, ListsHave, PlaceIs
  <2>5. 0 \in Nat /\ 0 <= UNICODE_QUAD_COUNT /\ 0 + 1 = 1
    BY SizesAssumption
  <2>6. QED
    BY <2>1, <2>2, <2>3, <2>4, <2>5 DEF ConvertInv
<1>4. \A k \in 0..n : ConvertInv(list, k, f[k])
  <2> DEFINE Broken == {k \in 0..n : ~ConvertInv(list, k, f[k])}
  <2>1. SUFFICES ASSUME Broken # {} PROVE FALSE
    OBVIOUS
  <2>2. Broken \subseteq Nat
    BY <1>1
  <2>3. PICK k \in Broken : \A j \in Broken : k <= j
    BY <2>1, <2>2, LeastNatural
  <2>4. k \in 1..n /\ k - 1 \in 0..n /\ k - 1 < k
    BY <1>1, <1>3, <2>3
  <2>5. ConvertInv(list, k - 1, f[k - 1])
    BY <2>3, <2>4
  <2>6. ConvertInv(list, k, f[k])
    BY <1>2, <2>4, <2>5, ConvertKeeps
  <2>7. QED
    BY <2>3, <2>6
<1>5. ConvertInv(list, n, f[n])
  BY <1>1, <1>4
<1> DEFINE b == f[n].prior_index
           m == UNICODE_QUAD_COUNT
           c == Cells(Within(list))
<1>6. /\ b \in Nat /\ b <= m /\ Made(f[n].set, b, c)
      /\ MaskOf(Within(list), b) = {} /\ \A p \in Within(list) : Index(p) <= b
  <2>1. ~(n < Len(list)) /\ Done(list, n) = Within(list)
    BY <1>1, DoneIs
  <2>2. f[n].mask = {}
    BY <1>5, <2>1 DEF ConvertInv
  <2>3. QED
    BY <1>5, <2>1, <2>2 DEF ConvertInv
<1>7. \A i \in Indices : c[i] = MaskOf(Within(list), i)
  BY CellsAre DEF MaskOf
<1> HIDE DEF b, c
<1>8. ASSUME NEW i \in b..m - 1 PROVE c[i] = {}
  <2>1. i \in Indices /\ i \in Int
    BY <1>6, <1>8, SizesAssumption DEF Indices
  <2>2. CASE i = b
    BY <1>6, <1>7, <2>1, <2>2
  <2>3. CASE i > b
    <3>1. \A o \in FULL_QUAD_MASK : Index(Point(i, o)) = i
      BY <2>1, IndexOfPoint
    <3>2. MaskOf(Within(list), i) = {}
      BY <1>6, <2>1, <2>3, <3>1 DEF MaskOf
    <3>3. QED
      BY <1>7, <2>1, <3>2
  <2>4. QED
    BY <1>6, <1>8, <2>2, <2>3
<1>9. m \in Int /\ b \in Int
  BY <1>6, SizesAssumption
<1>10. Made(append_run(f[n].set, Empty, m - b), m, c)
  <2> HIDE DEF m
  <2>1. QED
    BY <1>6, <1>8, <1>9, FillingIs, MadeOfRun
<1>11. QED
  BY <1>2, <1>10 DEF b, c

-----------------------------------------------------------------------------
(* Reading an object.                                                        *)

\* Every quad of the space lies in a run.
LEMMA RunOfIs ==
  ASSUME NEW runs \in Seq(Runs), \A k \in 1..Len(runs) : runs[k].length >= 1,
         NEW index \in 0..AllQuads(runs) - 1
  PROVE  /\ RunOf(runs, index) \in 1..Len(runs)
         /\ QuadsBefore(runs, RunOf(runs, index)) <= index
         /\ index < QuadsBefore(runs, RunOf(runs, index)) + runs[RunOf(runs, index)].length
<1> DEFINE n == Len(runs)
           At(k) == QuadsBefore(runs, k) <= index
                    /\ index < QuadsBefore(runs, k) + runs[k].length
           Beyond == {k \in 1..n + 1 : index < QuadsBefore(runs, k)}
<1>1. n \in Nat /\ DOMAIN runs = 1..n
  OBVIOUS
<1>2. /\ QuadsBefore(runs, 1) = 0
      /\ \A k \in 1..n : QuadsBefore(runs, k + 1) = QuadsBefore(runs, k) + runs[k].length
      /\ \A k \in 1..n + 1 : QuadsBefore(runs, k) \in Int
  BY QuadsBeforeIs
<1>3. index \in Int /\ 0 <= index /\ index < QuadsBefore(runs, n + 1)
  BY <1>1, <1>2 DEF AllQuads
<1>4. n + 1 \in Beyond /\ Beyond \subseteq Nat
  BY <1>1, <1>3
<1>5. PICK m \in Beyond : \A k \in Beyond : m <= k
  BY <1>4, LeastNatural
<1>6. m # 1 /\ m \in 1..n + 1 /\ index < QuadsBefore(runs, m)
  BY <1>2, <1>3, <1>5
<1>7. m - 1 \in 1..n /\ (m - 1) + 1 = m /\ m - 1 \in 1..n + 1 /\ ~(m <= m - 1)
  BY <1>1, <1>6
<1>8. QuadsBefore(runs, m - 1) <= index
  <2>1. m - 1 \notin Beyond
    BY <1>5, <1>7
  <2>2. QED
    BY <1>2, <1>3, <1>7, <2>1
<1>9. At(m - 1)
  BY <1>2, <1>6, <1>7, <1>8
<1>10. \E k \in DOMAIN runs : At(k)
  BY <1>1, <1>7, <1>9
<1>11. RunOf(runs, index) = CHOOSE k \in DOMAIN runs : At(k)
  BY DEF RunOf
<1> HIDE DEF At
<1>12. RunOf(runs, index) \in DOMAIN runs /\ At(RunOf(runs, index))
  BY <1>10, <1>11
<1>13. QED
  BY <1>1, <1>12 DEF At

\* What the quad iterator of an object finds.
LEMMA CellIs ==
  ASSUME NEW s, NEW b, NEW c, Stands(s, b, c), NEW index \in 0..b - 1, NEW garbage
  PROVE  /\ Cell(s, index, garbage).type \in RunTypes
         /\ Cell(s, index, garbage).type = Empty => c[index] = {}
         /\ Cell(s, index, garbage).type = Full => c[index] = FULL_QUAD_MASK
         /\ Cell(s, index, garbage).type = Mixed =>
              /\ Cell(s, index, garbage).quad = c[index]
              /\ c[index] \in Quads \ {{}, FULL_QUAD_MASK}
         /\ garbage \in Quads => Cell(s, index, garbage).quad \in Quads
<1> DEFINE runs == s.runs
           quads == s.quads
           k == RunOf(runs, index)
           j == index - QuadsBefore(runs, k)
           within == IF runs[k].type = Mixed THEN j ELSE 0
           q == MixedBefore(runs, k) + within + 1
           type == runs[k].type
           quad == IF q \in DOMAIN quads THEN quads[q] ELSE garbage
<1>1. Cell(s, index, garbage) = [type |-> type, quad |-> quad]
  BY DEF Cell
<1>2. /\ InStep(runs, quads) /\ b = 0 + AllQuads(runs)
      /\ \A i \in 1..Len(runs) : \A o \in 0..runs[i].length - 1 :
           c[0 + QuadsBefore(runs, i) + o] = QuadOf(runs, quads, i, o)
  BY DEF Stands, Denotes
<1>3. /\ runs \in Seq(Runs) /\ quads \in Seq(Quads)
      /\ \A i \in 1..Len(runs) : runs[i].length >= 1
      /\ \A i \in 1..Len(quads) : quads[i] \notin {{}, FULL_QUAD_MASK}
  BY <1>2 DEF InStep
<1> HIDE DEF runs, quads
<1>4. AllQuads(runs) \in Int
  BY <1>3, QuadsBeforeIs DEF AllQuads
<1>5. index \in 0..AllQuads(runs) - 1 /\ index \in Int
  BY <1>2, <1>4
<1>6. k \in 1..Len(runs) /\ QuadsBefore(runs, k) <= index
      /\ index < QuadsBefore(runs, k) + runs[k].length
  BY <1>3, <1>5, RunOfIs
<1> HIDE DEF k
<1>7. runs[k] \in Runs /\ QuadsBefore(runs, k) \in Int /\ MixedBefore(runs, k) \in Int
  BY <1>3, <1>6, QuadsBeforeIs, MixedBeforeIs
<1>8. type \in RunTypes /\ runs[k].length \in Int
  BY <1>7 DEF Runs
<1>9. j \in 0..runs[k].length - 1 /\ 0 + QuadsBefore(runs, k) + j = index
  BY <1>5, <1>6, <1>7, <1>8
<1>10. c[index] = QuadOf(runs, quads, k, j)
  BY <1>2, <1>6, <1>9
<1>11. Empty # Mixed /\ Full # Mixed /\ Empty # Full
  BY DEF Empty, Mixed, Full
<1>12. type = Mixed => quad = c[index] /\ c[index] \in Quads \ {{}, FULL_QUAD_MASK}
  <2>1. SUFFICES ASSUME type = Mixed
                 PROVE  quad = c[index] /\ c[index] \in Quads \ {{}, FULL_QUAD_MASK}
    OBVIOUS
  <2>2. MixedBefore(runs, k) + j + 1 \in 1..Len(quads)
    BY <1>2, <1>6, <1>9, <2>1, QuadInside
  <2>3. q = MixedBefore(runs, k) + j + 1
    BY <2>1
  <2>4. q \in DOMAIN quads /\ q \in 1..Len(quads)
    BY <1>3, <2>2, <2>3
  <2>5. c[index] = quads[q]
    BY <1>10, <2>1, <2>3 DEF QuadOf
  <2>6. quads[q] \in Quads
    BY <1>3, <2>4
  <2>7. QED
    BY <1>3, <2>4, <2>5, <2>6
<1>13. (type = Empty => c[index] = {}) /\ (type = Full => c[index] = FULL_QUAD_MASK)
  BY <1>10, <1>11 DEF QuadOf
<1>14. garbage \in Quads => quad \in Quads
  BY <1>3
<1>15. Cell(s, index, garbage).type = type /\ Cell(s, index, garbage).quad = quad
  BY <1>1
<1> HIDE DEF type, quad
<1>16. QED
  BY <1>8, <1>12, <1>13, <1>14, <1>15

\* contains finds the members.
LEMMA ContainsIs ==
  ASSUME NEW s, NEW points, Right(s, points), NEW cp \in CodePoints
  PROVE  contains(s, cp) <=> cp \in points
<1> DEFINE i == Index(cp)
           o == Offset(cp)
           c == Cells(points)
           cell == Cell(s, i, {})
<1>1. i \in Indices /\ o \in FULL_QUAD_MASK /\ cp = Point(i, o)
  BY PlaceIs
<1>2. c[i] = {p \in FULL_QUAD_MASK : Point(i, p) \in points}
  BY <1>1, CellsAre
<1>3. cp \in points <=> o \in c[i]
  BY <1>1, <1>2
<1>4. contains(s, cp) <=> IF cell.type = Mixed THEN o \in cell.quad ELSE cell.type = Full
  BY DEF contains, Index, Offset
<1>5. Stands(s, UNICODE_QUAD_COUNT, c)
  BY DEF Right
<1>6. i \in 0..UNICODE_QUAD_COUNT - 1
  BY <1>1 DEF Indices
<1> HIDE DEF i, o, c
<1>7. /\ cell.type \in RunTypes
      /\ cell.type = Empty => c[i] = {}
      /\ cell.type = Full => c[i] = FULL_QUAD_MASK
      /\ cell.type = Mixed => cell.quad = c[i]
  BY <1>5, <1>6, CellIs
<1> HIDE DEF cell
<1>8. Empty # Mixed /\ Full # Mixed /\ Empty # Full
  BY DEF Empty, Mixed, Full
<1>9. CASE cell.type = Mixed
  BY <1>3, <1>4, <1>7, <1>9
<1>10. CASE cell.type = Full
  BY <1>1, <1>3, <1>4, <1>7, <1>8, <1>10
<1>11. CASE cell.type = Empty
  BY <1>3, <1>4, <1>7, <1>8, <1>11
<1>12. QED
  BY <1>7, <1>9, <1>10, <1>11 DEF RunTypes

\* empty looks at the runs only, which is enough when they are compact.
LEMMA EmptyIs ==
  ASSUME NEW s, NEW points \in SUBSET CodePoints, Right(s, points), points = {} => Compact(s)
  PROVE  empty(s) <=> points = {}
<1> DEFINE runs == s.runs
           c == Cells(points)
           n == UNICODE_QUAD_COUNT
<1>1. n \in Nat /\ n > 0
  BY SizesAssumption
<1>2. /\ InStep(runs, s.quads) /\ n = 0 + AllQuads(runs)
      /\ \A k \in 1..Len(runs) : \A j \in 0..runs[k].length - 1 :
           c[0 + QuadsBefore(runs, k) + j] = QuadOf(runs, s.quads, k, j)
  BY DEF Right, Stands, Denotes
<1>3. /\ runs \in Seq(Runs) /\ Len(runs) \in Nat
      /\ \A k \in 1..Len(runs) : runs[k].length >= 1 /\ runs[k] \in Runs
      /\ \A i \in 1..Len(s.quads) : s.quads[i] \notin {{}, FULL_QUAD_MASK}
  BY <1>2 DEF InStep
<1>4. /\ QuadsBefore(runs, 1) = 0
      /\ \A k \in 1..Len(runs) : QuadsBefore(runs, k + 1) = QuadsBefore(runs, k) + runs[k].length
      /\ \A k \in 1..Len(runs) + 1 : QuadsBefore(runs, k) \in Int
  BY <1>3, QuadsBeforeIs
<1>5. Empty # Mixed /\ Full # Mixed /\ Empty # Full
  BY DEF Empty, Mixed, Full
<1>6. empty(s) <=> Len(runs) = 1 /\ runs[1].type = Empty
  BY DEF empty
<1>7. \A i \in Indices : c[i] = {o \in FULL_QUAD_MASK : Point(i, o) \in points}
  BY CellsAre
<1>8. ASSUME Len(runs) = 1, runs[1].type = Empty PROVE points = {}
  <2>1. SUFFICES ASSUME NEW cp \in points PROVE FALSE
    OBVIOUS
  <2>2. /\ Index(cp) \in Indices /\ Offset(cp) \in FULL_QUAD_MASK
        /\ cp = Point(Index(cp), Offset(cp))
    BY PlaceIs
  <2>3. Offset(cp) \in c[Index(cp)]
    BY <1>7, <2>2
  <2>4. 1 \in 1..Len(runs) /\ 1 + 1 = Len(runs) + 1
    BY <1>8
  <2>5. runs[1].length = n
    BY <1>2, <1>3, <1>4, <2>4 DEF AllQuads, Runs
  <2>6. Index(cp) \in 0..runs[1].length - 1 /\ 0 + QuadsBefore(runs, 1) + Index(cp) = Index(cp)
    BY <1>4, <2>2, <2>5 DEF Indices
  <2>7. c[Index(cp)] = QuadOf(runs, s.quads, 1, Index(cp))
    BY <1>2, <2>4, <2>6
  <2>8. QuadOf(runs, s.quads, 1, Index(cp)) = {}
    BY <1>5, <1>8 DEF QuadOf
  <2>9. QED
    BY <2>3, <2>7, <2>8
<1>9. ASSUME points = {} PROVE Len(runs) = 1 /\ runs[1].type = Empty
  <2>1. \A i \in Indices : c[i] = {}
    BY <1>7, <1>9
  <2> HIDE DEF c
  <2>2. ASSUME NEW k \in 1..Len(runs) PROVE runs[k].type = Empty
    <3>1. runs[k].type \in RunTypes /\ runs[k].length \in Int /\ runs[k].length >= 1
      BY <1>3 DEF Runs
    <3>2. 0 \in 0..runs[k].length - 1
      BY <3>1
    <3>3. QuadsBefore(runs, k) \in 0..n - 1
      <4>1. k \in 1..Len(runs) + 1 /\ k + 1 \in 1..Len(runs) + 1 /\ Len(runs) + 1 \in 1..Len(runs) + 1
            /\ 1 \in 1..Len(runs) + 1 /\ 1 <= k /\ k + 1 <= Len(runs) + 1
        BY <1>3
      <4>2. /\ QuadsBefore(runs, 1) <= QuadsBefore(runs, k)
            /\ QuadsBefore(runs, k + 1) <= QuadsBefore(runs, Len(runs) + 1)
        BY <1>3, <4>1, RunsInOrder
      <4>3. /\ QuadsBefore(runs, k) \in Int /\ n = QuadsBefore(runs, Len(runs) + 1)
            /\ QuadsBefore(runs, Len(runs) + 1) \in Int
        BY <1>2, <1>4, <4>1 DEF AllQuads
      <4>4. QuadsBefore(runs, k + 1) = QuadsBefore(runs, k) + runs[k].length
        BY <1>4
      <4>5. 0 <= QuadsBefore(runs, k)
        BY <1>4, <4>2
      <4> HIDE DEF n
      <4>6. QED
        BY <1>1, <3>1, <4>2, <4>3, <4>4, <4>5
    <3>4. c[QuadsBefore(runs, k)] = QuadOf(runs, s.quads, k, 0)
      BY <1>1, <1>2, <3>2, <3>3
    <3>5. QuadOf(runs, s.quads, k, 0) = {}
      BY <2>1, <3>3, <3>4 DEF Indices
    <3>6. CASE runs[k].type = Mixed
      <4>1. MixedBefore(runs, k) + 0 + 1 \in 1..Len(s.quads)
        BY <1>2, <3>2, <3>6, QuadInside
      <4>2. QuadOf(runs, s.quads, k, 0) = s.quads[MixedBefore(runs, k) + 0 + 1]
        BY <3>6 DEF QuadOf
      <4>3. QED
        BY <1>3, <3>5, <4>1, <4>2
    <3>7. CASE runs[k].type = Full
      BY <1>5, <3>5, <3>7, MaskIs DEF QuadOf
    <3>8. QED
      BY <3>1, <3>6, <3>7 DEF RunTypes
  <2>3. Len(runs) <= 1
    BY <1>9, <2>2 DEF Compact
  <2>4. Len(runs) # 0
    BY <1>1, <1>2, <1>3, <1>4 DEF AllQuads
  <2>5. QED
    <3> DEFINE l == Len(runs)
    <3>1. l \in Nat /\ l <= 1 /\ l # 0
      BY <1>3, <2>3, <2>4
    <3> HIDE DEF l
    <3>2. l = 1 /\ 1 \in 1..1
      BY <3>1
    <3>3. QED
      BY <2>2, <3>2 DEF l
<1>10. QED
  BY <1>6, <1>8, <1>9

-----------------------------------------------------------------------------
(* The operations on two sets.                                               *)

\* The objects that Collected makes one after the other.
Collections(pieces, n, f) ==
  f = [k \in 0..n |-> IF k = 0 THEN NoRuns ELSE append(f[k - 1], pieces[k])]

LEMMA CollectionsExist ==
  ASSUME NEW pieces
  PROVE  \A n \in Nat : \E f : Collections(pieces, n, f)
<1> DEFINE T == {n \in Nat : ~\E f : Collections(pieces, n, f)}
           start == NoRuns
<1>1. SUFFICES ASSUME T # {} PROVE FALSE
  OBVIOUS
<1>2. PICK n \in T : \A k \in T : n <= k
  BY <1>1, LeastNatural
<1>3. CASE n = 0
  <2> DEFINE f == [k \in 0..0 |-> start]
             g == [k \in 0..0 |-> IF k = 0 THEN start ELSE append(f[k - 1], pieces[k])]
  <2>1. \A k \in 0..0 : f[k] = g[k]
    OBVIOUS
  <2>2. f = [k \in 0..0 |-> f[k]] /\ g = [k \in 0..0 |-> g[k]]
    OBVIOUS
  <2> HIDE DEF f, g
  <2>3. f = g
    BY <2>1, <2>2
  <2>4. Collections(pieces, 0, f)
    BY <2>3 DEF Collections, g
  <2>5. QED
    BY <1>2, <1>3, <2>4
<1>4. CASE n # 0
  <2>1. n - 1 \in Nat /\ n \in Nat
    BY <1>2, <1>4
  <2>2. n - 1 \notin T
    BY <1>2, <2>1
  <2>3. PICK f : Collections(pieces, n - 1, f)
    BY <2>1, <2>2
  <2> DEFINE g == [k \in 0..n |-> IF k = 0 THEN start ELSE append(f[k - 1], pieces[k])]
             h == [k \in 0..n |-> IF k = 0 THEN start ELSE append(g[k - 1], pieces[k])]
  <2>4. \A k \in 0..n - 1 : g[k] = f[k]
    <3> DEFINE e == [k \in 0..n - 1 |-> IF k = 0 THEN start ELSE append(f[k - 1], pieces[k])]
    <3>1. f = e
      BY <2>3 DEF Collections
    <3>2. \A k \in 0..n - 1 : e[k] = IF k = 0 THEN start ELSE append(f[k - 1], pieces[k])
      OBVIOUS
    <3>3. \A k \in 0..n - 1 : k \in 0..n
      BY <2>1
    <3>4. \A k \in 0..n - 1 : g[k] = IF k = 0 THEN start ELSE append(f[k - 1], pieces[k])
      BY <3>3
    <3> HIDE DEF e, g, start
    <3>5. QED
      BY <3>1, <3>2, <3>4
  <2>5. \A k \in 0..n : g[k] = h[k]
    <3>1. ASSUME NEW k \in 0..n, k # 0 PROVE g[k - 1] = f[k - 1]
      <4>1. k - 1 \in 0..n - 1
        BY <2>1, <3>1
      <4> HIDE DEF g, h
      <4>2. QED
        BY <2>4, <4>1
    <3>2. QED
      BY <3>1
  <2>6. g = [k \in 0..n |-> g[k]] /\ h = [k \in 0..n |-> h[k]]
    OBVIOUS
  <2> HIDE DEF g, h
  <2>7. g = h
    BY <2>5, <2>6
  <2>8. Collections(pieces, n, g)
    BY <2>7 DEF Collections, h
  <2>9. QED
    BY <1>2, <2>8
<1>5. QED
  BY <1>3, <1>4

LEMMA CollectionsAre ==
  ASSUME NEW pieces, NEW n \in Nat, n = Len(pieces)
  PROVE  \E f : /\ f[0] = NoRuns
                /\ \A k \in 1..n : f[k] = append(f[k - 1], pieces[k])
                /\ Collected(pieces) = f[n]
<1> DEFINE start == NoRuns
           f == CHOOSE f : f = [k \in 0..n |-> IF k = 0 THEN start ELSE append(f[k - 1], pieces[k])]
<1>1. Collected(pieces) = f[n]
  BY DEF Collected
<1>2. \E g : g = [k \in 0..n |-> IF k = 0 THEN start ELSE append(g[k - 1], pieces[k])]
  <2>1. PICK g : Collections(pieces, n, g)
    BY CollectionsExist
  <2>2. g = [k \in 0..n |-> IF k = 0 THEN start ELSE append(g[k - 1], pieces[k])]
    BY <2>1 DEF Collections
  <2>3. QED
    BY <2>2
<1>3. f = [k \in 0..n |-> IF k = 0 THEN start ELSE append(f[k - 1], pieces[k])]
  BY <1>2
<1> HIDE DEF f, start
<1>4. f[0] = start /\ \A k \in 1..n : f[k] = append(f[k - 1], pieces[k])
  <2>1. 0 \in 0..n /\ \A k \in 1..n : k \in 0..n /\ k # 0
    OBVIOUS
  <2>2. QED
    BY <1>3, <2>1
<1>5. QED
  BY <1>1, <1>4 DEF start

\* The pieces that make an object, and the piece that stands for a quad.
PieceSet == {Run(type) : type \in RunTypes} \union {Quad(quad) : quad \in Quads}
Shows(piece, quad) ==
  /\ quad \in Quads
  /\ \/ piece = Run(Empty) /\ quad = {}
     \/ piece = Run(Full) /\ quad = FULL_QUAD_MASK
     \/ piece = Quad(quad)

LEMMA AppendIs ==
  ASSUME NEW s
  PROVE  /\ \A type \in RunTypes : append(s, Run(type)) = append_run(s, type, 1)
         /\ \A quad : append(s, Quad(quad)) = append_quad(s, quad)
BY DEF append, Run, Quad, RunTypes, Empty, Mixed, Full

LEMMA AppendType ==
  ASSUME NEW s \in Objects, NEW piece \in PieceSet
  PROVE  append(s, piece) \in Objects
<1>1. CASE \E type \in RunTypes : piece = Run(type)
  <2>1. PICK type \in RunTypes : piece = Run(type)
    BY <1>1
  <2>2. append_run(s, type, 1) \in Objects
    BY AppendRunType, 1 \in Int
  <2>3. QED
    BY <2>1, <2>2, AppendIs
<1>2. CASE \E quad \in Quads : piece = Quad(quad)
  <2>1. PICK quad \in Quads : piece = Quad(quad)
    BY <1>2
  <2>2. append_quad(s, quad) \in Objects
    BY AppendQuadType
  <2>3. QED
    BY <2>1, <2>2, AppendIs
<1>3. QED
  BY <1>1, <1>2 DEF PieceSet

LEMMA AppendMade ==
  ASSUME NEW s, NEW b \in Int, NEW e, e = b + 1, NEW c, Made(s, b, c),
         NEW piece, Shows(piece, c[b])
  PROVE  Made(append(s, piece), e, c)
<1>1. Empty \in RunTypes /\ Full \in RunTypes /\ Empty \in {Empty, Full} /\ Full \in {Empty, Full}
  BY DEF RunTypes
<1>2. ASSUME NEW type \in {Empty, Full}, c[b] = Filling(type)
      PROVE  Made(append_run(s, type, 1), e, c)
  <2>1. \A i \in b..e - 1 : c[i] = Filling(type)
    BY <1>2
  <2>2. b <= e /\ e \in Int /\ 1 = e - b
    OBVIOUS
  <2>3. QED
    BY <2>1, <2>2, MadeOfRun
<1>3. CASE piece = Run(Empty) /\ c[b] = {}
  BY <1>1, <1>2, <1>3, AppendIs, FillingIs
<1>4. CASE piece = Run(Full) /\ c[b] = FULL_QUAD_MASK
  BY <1>1, <1>2, <1>4, AppendIs, FillingIs
<1>5. CASE piece = Quad(c[b]) /\ c[b] \in Quads
  <2>1. Made(append_quad(s, c[b]), e, c)
    BY <1>5, MadeOfQuad
  <2>2. QED
    BY <1>5, <2>1, AppendIs
<1>6. QED
  BY <1>3, <1>4, <1>5 DEF Shows

\* Whatever the pieces, Collected makes an object of them.
LEMMA CollectedType ==
  ASSUME NEW pieces, NEW n \in Nat, n = Len(pieces), \A k \in 1..n : pieces[k] \in PieceSet
  PROVE  Collected(pieces) \in Objects
<1>1. PICK f : /\ f[0] = NoRuns
               /\ \A k \in 1..n : f[k] = append(f[k - 1], pieces[k])
               /\ Collected(pieces) = f[n]
  BY CollectionsAre
<1> DEFINE Broken == {k \in 0..n : f[k] \notin Objects}
<1>2. Broken = {}
  <2>1. SUFFICES ASSUME Broken # {} PROVE FALSE
    OBVIOUS
  <2>2. Broken \subseteq Nat
    OBVIOUS
  <2>3. PICK k \in Broken : \A j \in Broken : k <= j
    BY <2>2, <2>1, LeastNatural
  <2>4. CASE k = 0
    <3>1. NoRuns \in Objects
      BY DEF NoRuns, Objects
    <3>2. QED
      BY <1>1, <2>3, <2>4, <3>1
  <2>5. CASE k # 0
    <3>1. k \in 1..n /\ k - 1 \in 0..n /\ ~(k <= k - 1)
      BY <2>3, <2>5
    <3>2. f[k - 1] \in Objects
      BY <2>3, <3>1
    <3>3. append(f[k - 1], pieces[k]) \in Objects
      BY <3>1, <3>2, AppendType
    <3>4. QED
      BY <1>1, <2>3, <3>1, <3>3
  <2>6. QED
    BY <2>4, <2>5
<1>3. n \in 0..n
  OBVIOUS
<1>4. QED
  BY <1>1, <1>2, <1>3

\* And of pieces that stand for the quads of a set, that set.
LEMMA CollectedMade ==
  ASSUME NEW pieces, NEW n \in Nat, n = Len(pieces), NEW c,
         \A k \in 1..n : Shows(pieces[k], c[k - 1])
  PROVE  Made(Collected(pieces), n, c)
<1>1. PICK f : /\ f[0] = NoRuns
               /\ \A k \in 1..n : f[k] = append(f[k - 1], pieces[k])
               /\ Collected(pieces) = f[n]
  BY CollectionsAre
<1> DEFINE Broken == {k \in 0..n : ~Made(f[k], k, c)}
<1>2. Broken = {}
  <2>1. SUFFICES ASSUME Broken # {} PROVE FALSE
    OBVIOUS
  <2>2. Broken \subseteq Nat
    OBVIOUS
  <2>3. PICK k \in Broken : \A j \in Broken : k <= j
    BY <2>2, <2>1, LeastNatural
  <2>4. CASE k = 0
    BY <1>1, <2>3, <2>4, NothingMade
  <2>5. CASE k # 0
    <3>1. k \in 1..n /\ k - 1 \in 0..n /\ ~(k <= k - 1) /\ k - 1 \in Int /\ k = (k - 1) + 1
      BY <2>3, <2>5
    <3>2. Made(f[k - 1], k - 1, c)
      BY <2>3, <3>1
    <3>3. Made(append(f[k - 1], pieces[k]), k, c)
      BY <3>1, <3>2, AppendMade
    <3>4. QED
      BY <1>1, <2>3, <3>1, <3>3
  <2>6. QED
    BY <2>4, <2>5
<1>3. n \in 0..n
  OBVIOUS
<1>4. QED
  BY <1>1, <1>2, <1>3

\* What an operation reads of an operand, whose quads may be those of another cell.
Read(cell) == cell.type \in RunTypes /\ cell.quad \in Quads
Reads(cell, quad) ==
  /\ Read(cell)
  /\ cell.type = Empty => quad = {}
  /\ cell.type = Full => quad = FULL_QUAD_MASK
  /\ cell.type = Mixed => cell.quad = quad

LEMMA RunPiece == \A type \in RunTypes : Run(type) \in PieceSet
BY DEF PieceSet
LEMMA QuadPiece == \A quad \in Quads : Quad(quad) \in PieceSet
BY DEF PieceSet
LEMMA QuadSets ==
  \A q, r \in Quads :
    q \union r \in Quads /\ q \intersect r \in Quads /\ q \ r \in Quads
BY DEF Quads
LEMMA QuadAndEnds ==
  \A q \in Quads :
    /\ FULL_QUAD_MASK \ q \in Quads
    /\ (FULL_QUAD_MASK \ q) \union (q \ FULL_QUAD_MASK) = FULL_QUAD_MASK \ q
    /\ q \intersect FULL_QUAD_MASK = q /\ FULL_QUAD_MASK \intersect q = q
    /\ q \union FULL_QUAD_MASK = FULL_QUAD_MASK /\ FULL_QUAD_MASK \union q = FULL_QUAD_MASK
    /\ q \ FULL_QUAD_MASK = {} /\ q \ {} = q /\ {} \ q = {}
    /\ q \intersect {} = {} /\ {} \intersect q = {} /\ q \union {} = q /\ {} \union q = q
    /\ q \ q = {}
BY DEF Quads

LEMMA ShowsRun == Shows(Run(Empty), {}) /\ Shows(Run(Full), FULL_QUAD_MASK)
BY MaskIs DEF Shows
LEMMA ShowsQuad == \A quad \in Quads : Shows(Quad(quad), quad)
BY DEF Shows

\* The pieces of an intersection.
LEMMA IntersectionIs ==
  ASSUME NEW x, NEW y, NEW q \in Quads, NEW r \in Quads, Reads(x, q), Reads(y, r)
  PROVE  Shows(intersection(x, y), q \intersect r)
<1>1. Empty # Mixed /\ Full # Mixed /\ Empty # Full
  BY DEF Empty, Mixed, Full
<1>2. x.type \in {Empty, Mixed, Full} /\ y.type \in {Empty, Mixed, Full}
  BY DEF RunTypes, Read, Reads
<1>3. /\ (x.type = Empty => q = {}) /\ (x.type = Full => q = FULL_QUAD_MASK)
      /\ (x.type = Mixed => x.quad = q)
      /\ (y.type = Empty => r = {}) /\ (y.type = Full => r = FULL_QUAD_MASK)
      /\ (y.type = Mixed => y.quad = r)
  BY DEF Reads
<1>4. CASE x.type = Empty
  <2>1. intersection(x, y) = Run(Empty)
    BY <1>1, <1>2, <1>4 DEF intersection
  <2>2. q \intersect r = {}
    BY <1>1, <1>3, <1>4, QuadSets, QuadAndEnds
  <2>3. QED
    BY <2>1, <2>2, ShowsRun
<1>5. CASE y.type = Empty
  <2>1. intersection(x, y) = Run(Empty)
    BY <1>1, <1>2, <1>5 DEF intersection
  <2>2. q \intersect r = {}
    BY <1>1, <1>3, <1>5, QuadSets, QuadAndEnds
  <2>3. QED
    BY <2>1, <2>2, ShowsRun
<1>6. CASE x.type = Full /\ y.type = Full
  <2>1. intersection(x, y) = Run(Full)
    BY <1>1, <1>2, <1>6 DEF intersection
  <2>2. q \intersect r = FULL_QUAD_MASK
    BY <1>1, <1>3, <1>6, QuadSets, QuadAndEnds
  <2>3. QED
    BY <2>1, <2>2, ShowsRun
<1>7. CASE x.type = Full /\ y.type = Mixed
  <2>1. intersection(x, y) = Quad(y.quad)
    BY <1>1, <1>2, <1>7 DEF intersection
  <2>2. q \intersect r = r
    <3>1. q = FULL_QUAD_MASK
      BY <1>3, <1>7
    <3>2. QED
      BY <3>1, QuadAndEnds
  <2>3. y.quad = r /\ r \in Quads
    BY <1>1, <1>3, <1>7, QuadSets, QuadAndEnds
  <2>4. QED
    BY <2>1, <2>2, <2>3, ShowsQuad
<1>8. CASE x.type = Mixed /\ y.type = Full
  <2>1. intersection(x, y) = Quad(x.quad)
    BY <1>1, <1>2, <1>8 DEF intersection
  <2>2. q \intersect r = q
    <3>1. r = FULL_QUAD_MASK
      BY <1>3, <1>8
    <3>2. QED
      BY <3>1, QuadAndEnds
  <2>3. x.quad = q /\ q \in Quads
    BY <1>1, <1>3, <1>8, QuadSets, QuadAndEnds
  <2>4. QED
    BY <2>1, <2>2, <2>3, ShowsQuad
<1>9. CASE x.type = Mixed /\ y.type = Mixed
  <2>1. intersection(x, y) = Quad(x.quad \intersect y.quad)
    BY <1>1, <1>2, <1>9 DEF intersection
  <2>2. q \intersect r = q \intersect r
    BY <1>1, <1>3, <1>9, QuadSets, QuadAndEnds
  <2>3. x.quad \intersect y.quad = q \intersect r /\ q \intersect r \in Quads
    BY <1>1, <1>3, <1>9, QuadSets, QuadAndEnds
  <2>4. QED
    BY <2>1, <2>2, <2>3, ShowsQuad
<1>10. QED
  BY <1>1, <1>2, <1>4, <1>5, <1>6, <1>7, <1>8, <1>9

\* The pieces of a union.
LEMMA UnionIs ==
  ASSUME NEW x, NEW y, NEW q \in Quads, NEW r \in Quads, Reads(x, q), Reads(y, r)
  PROVE  Shows(union(x, y), q \union r)
<1>1. Empty # Mixed /\ Full # Mixed /\ Empty # Full
  BY DEF Empty, Mixed, Full
<1>2. x.type \in {Empty, Mixed, Full} /\ y.type \in {Empty, Mixed, Full}
  BY DEF RunTypes, Read, Reads
<1>3. /\ (x.type = Empty => q = {}) /\ (x.type = Full => q = FULL_QUAD_MASK)
      /\ (x.type = Mixed => x.quad = q)
      /\ (y.type = Empty => r = {}) /\ (y.type = Full => r = FULL_QUAD_MASK)
      /\ (y.type = Mixed => y.quad = r)
  BY DEF Reads
<1>4. CASE x.type = Full
  <2>1. union(x, y) = Run(Full)
    BY <1>1, <1>2, <1>4 DEF union
  <2>2. q \union r = FULL_QUAD_MASK
    BY <1>1, <1>3, <1>4, QuadSets, QuadAndEnds
  <2>3. QED
    BY <2>1, <2>2, ShowsRun
<1>5. CASE y.type = Full
  <2>1. union(x, y) = Run(Full)
    BY <1>1, <1>2, <1>5 DEF union
  <2>2. q \union r = FULL_QUAD_MASK
    <3>1. r = FULL_QUAD_MASK
      BY <1>3, <1>5
    <3>2. QED
      BY <3>1, QuadAndEnds
  <2>3. QED
    BY <2>1, <2>2, ShowsRun
<1>6. CASE x.type = Empty /\ y.type = Empty
  <2>1. union(x, y) = Run(Empty)
    BY <1>1, <1>2, <1>6 DEF union
  <2>2. q \union r = {}
    BY <1>1, <1>3, <1>6, QuadSets, QuadAndEnds
  <2>3. QED
    BY <2>1, <2>2, ShowsRun
<1>7. CASE x.type = Empty /\ y.type = Mixed
  <2>1. union(x, y) = Quad(y.quad)
    BY <1>1, <1>2, <1>7 DEF union
  <2>2. q \union r = r
    BY <1>1, <1>3, <1>7, QuadSets, QuadAndEnds
  <2>3. y.quad = r /\ r \in Quads
    BY <1>1, <1>3, <1>7, QuadSets, QuadAndEnds
  <2>4. QED
    BY <2>1, <2>2, <2>3, ShowsQuad
<1>8. CASE x.type = Mixed /\ y.type = Empty
  <2>1. union(x, y) = Quad(x.quad)
    BY <1>1, <1>2, <1>8 DEF union
  <2>2. q \union r = q
    BY <1>1, <1>3, <1>8, QuadSets, QuadAndEnds
  <2>3. x.quad = q /\ q \in Quads
    BY <1>1, <1>3, <1>8, QuadSets, QuadAndEnds
  <2>4. QED
    BY <2>1, <2>2, <2>3, ShowsQuad
<1>9. CASE x.type = Mixed /\ y.type = Mixed
  <2>1. union(x, y) = Quad(x.quad \union y.quad)
    BY <1>1, <1>2, <1>9 DEF union
  <2>2. q \union r = q \union r
    BY <1>1, <1>3, <1>9, QuadSets, QuadAndEnds
  <2>3. x.quad \union y.quad = q \union r /\ q \union r \in Quads
    BY <1>1, <1>3, <1>9, QuadSets, QuadAndEnds
  <2>4. QED
    BY <2>1, <2>2, <2>3, ShowsQuad
<1>10. QED
  BY <1>1, <1>2, <1>4, <1>5, <1>6, <1>7, <1>8, <1>9

\* The pieces of a difference, where no quad of the first is full in the second.
LEMMA DifferenceIs ==
  ASSUME NEW x, NEW y, NEW q \in Quads, NEW r \in Quads, Reads(x, q), Reads(y, r),
         x.type \in {Mixed, Full} => y.type # Full
  PROVE  Shows(difference(x, y), q \ r)
<1>1. Empty # Mixed /\ Full # Mixed /\ Empty # Full
  BY DEF Empty, Mixed, Full
<1>2. x.type \in {Empty, Mixed, Full} /\ y.type \in {Empty, Mixed, Full}
  BY DEF RunTypes, Read, Reads
<1>3. /\ (x.type = Empty => q = {}) /\ (x.type = Full => q = FULL_QUAD_MASK)
      /\ (x.type = Mixed => x.quad = q)
      /\ (y.type = Empty => r = {}) /\ (y.type = Full => r = FULL_QUAD_MASK)
      /\ (y.type = Mixed => y.quad = r)
  BY DEF Reads
<1>4. CASE x.type = Empty
  <2>1. difference(x, y) = Run(Empty)
    BY <1>1, <1>2, <1>4 DEF difference
  <2>2. q \ r = {}
    BY <1>1, <1>3, <1>4, QuadSets, QuadAndEnds
  <2>3. QED
    BY <2>1, <2>2, ShowsRun
<1>5. CASE x.type = Full /\ y.type = Empty
  <2>1. difference(x, y) = Run(Full)
    BY <1>1, <1>2, <1>5 DEF difference
  <2>2. q \ r = FULL_QUAD_MASK
    BY <1>1, <1>3, <1>5, QuadSets, QuadAndEnds
  <2>3. QED
    BY <2>1, <2>2, ShowsRun
<1>6. CASE x.type = Full /\ y.type = Mixed
  <2>1. difference(x, y) = Quad(FULL_QUAD_MASK \ y.quad)
    BY <1>1, <1>2, <1>6 DEF difference
  <2>2. q \ r = FULL_QUAD_MASK \ r
    BY <1>1, <1>3, <1>6, QuadSets, QuadAndEnds
  <2>3. FULL_QUAD_MASK \ y.quad = FULL_QUAD_MASK \ r /\ FULL_QUAD_MASK \ r \in Quads
    BY <1>1, <1>3, <1>6, QuadSets, QuadAndEnds
  <2>4. QED
    BY <2>1, <2>2, <2>3, ShowsQuad
<1>7. CASE x.type = Mixed /\ y.type = Empty
  <2>1. difference(x, y) = Quad(x.quad)
    BY <1>1, <1>2, <1>7 DEF difference
  <2>2. q \ r = q
    BY <1>1, <1>3, <1>7, QuadSets, QuadAndEnds
  <2>3. x.quad = q /\ q \in Quads
    BY <1>1, <1>3, <1>7, QuadSets, QuadAndEnds
  <2>4. QED
    BY <2>1, <2>2, <2>3, ShowsQuad
<1>8. CASE x.type = Mixed /\ y.type = Mixed
  <2>1. difference(x, y) = Quad(x.quad \ y.quad)
    BY <1>1, <1>2, <1>8 DEF difference
  <2>2. q \ r = q \ r
    BY <1>1, <1>3, <1>8, QuadSets, QuadAndEnds
  <2>3. x.quad \ y.quad = q \ r /\ q \ r \in Quads
    BY <1>1, <1>3, <1>8, QuadSets, QuadAndEnds
  <2>4. QED
    BY <2>1, <2>2, <2>3, ShowsQuad
<1>9. QED
  BY <1>1, <1>2, <1>4, <1>5, <1>6, <1>7, <1>8

\* The pieces of a symmetric difference, where no mixed quad of the first is full in
\* the second.
LEMMA SymmetricDifferenceIs ==
  ASSUME NEW x, NEW y, NEW q \in Quads, NEW r \in Quads, Reads(x, q), Reads(y, r),
         x.type = Mixed => y.type # Full
  PROVE  Shows(symmetric_difference(x, y), (q \ r) \union (r \ q))
<1>1. Empty # Mixed /\ Full # Mixed /\ Empty # Full
  BY DEF Empty, Mixed, Full
<1>2. x.type \in {Empty, Mixed, Full} /\ y.type \in {Empty, Mixed, Full}
  BY DEF RunTypes, Read, Reads
<1>3. /\ (x.type = Empty => q = {}) /\ (x.type = Full => q = FULL_QUAD_MASK)
      /\ (x.type = Mixed => x.quad = q)
      /\ (y.type = Empty => r = {}) /\ (y.type = Full => r = FULL_QUAD_MASK)
      /\ (y.type = Mixed => y.quad = r)
  BY DEF Reads
<1>4. CASE x.type = Empty /\ y.type = Empty
  <2>1. symmetric_difference(x, y) = Run(Empty)
    BY <1>1, <1>2, <1>4 DEF symmetric_difference
  <2>2. (q \ r) \union (r \ q) = {}
    BY <1>1, <1>3, <1>4, QuadSets, QuadAndEnds
  <2>3. QED
    BY <2>1, <2>2, ShowsRun
<1>5. CASE x.type = Full /\ y.type = Full
  <2>1. symmetric_difference(x, y) = Run(Empty)
    BY <1>1, <1>2, <1>5 DEF symmetric_difference
  <2>2. (q \ r) \union (r \ q) = {}
    BY <1>1, <1>3, <1>5, QuadSets, QuadAndEnds
  <2>3. QED
    BY <2>1, <2>2, ShowsRun
<1>6. CASE x.type = Full /\ y.type = Empty
  <2>1. symmetric_difference(x, y) = Run(Full)
    BY <1>1, <1>2, <1>6 DEF symmetric_difference
  <2>2. (q \ r) \union (r \ q) = FULL_QUAD_MASK
    BY <1>1, <1>3, <1>6, QuadSets, QuadAndEnds
  <2>3. QED
    BY <2>1, <2>2, ShowsRun
<1>7. CASE x.type = Empty /\ y.type = Full
  <2>1. symmetric_difference(x, y) = Run(Full)
    BY <1>1, <1>2, <1>7 DEF symmetric_difference
  <2>2. (q \ r) \union (r \ q) = FULL_QUAD_MASK
    BY <1>1, <1>3, <1>7, QuadSets, QuadAndEnds
  <2>3. QED
    BY <2>1, <2>2, ShowsRun
<1>8. CASE x.type = Empty /\ y.type = Mixed
  <2>1. symmetric_difference(x, y) = Quad(y.quad)
    BY <1>1, <1>2, <1>8 DEF symmetric_difference
  <2>2. (q \ r) \union (r \ q) = r
    BY <1>1, <1>3, <1>8, QuadSets, QuadAndEnds
  <2>3. y.quad = r /\ r \in Quads
    BY <1>1, <1>3, <1>8, QuadSets, QuadAndEnds
  <2>4. QED
    BY <2>1, <2>2, <2>3, ShowsQuad
<1>9. CASE x.type = Mixed /\ y.type = Empty
  <2>1. symmetric_difference(x, y) = Quad(x.quad)
    BY <1>1, <1>2, <1>9 DEF symmetric_difference
  <2>2. (q \ r) \union (r \ q) = q
    BY <1>1, <1>3, <1>9, QuadSets, QuadAndEnds
  <2>3. x.quad = q /\ q \in Quads
    BY <1>1, <1>3, <1>9, QuadSets, QuadAndEnds
  <2>4. QED
    BY <2>1, <2>2, <2>3, ShowsQuad
<1>10. CASE x.type = Full /\ y.type = Mixed
  <2>1. symmetric_difference(x, y) = Quad(FULL_QUAD_MASK \ y.quad)
    BY <1>1, <1>2, <1>10 DEF symmetric_difference
  <2>2. (q \ r) \union (r \ q) = FULL_QUAD_MASK \ r
    <3>1. q = FULL_QUAD_MASK
      BY <1>3, <1>10
    <3>2. QED
      BY <3>1, QuadAndEnds
  <2>3. FULL_QUAD_MASK \ y.quad = FULL_QUAD_MASK \ r /\ FULL_QUAD_MASK \ r \in Quads
    BY <1>1, <1>3, <1>10, QuadSets, QuadAndEnds
  <2>4. QED
    BY <2>1, <2>2, <2>3, ShowsQuad
<1>11. CASE x.type = Mixed /\ y.type = Mixed
  <2>1. symmetric_difference(x, y) = Quad((x.quad \ y.quad) \union (y.quad \ x.quad))
    BY <1>1, <1>2, <1>11 DEF symmetric_difference
  <2>2. (q \ r) \union (r \ q) = (q \ r) \union (r \ q)
    BY <1>1, <1>3, <1>11, QuadSets, QuadAndEnds
  <2>3. (x.quad \ y.quad) \union (y.quad \ x.quad) = (q \ r) \union (r \ q) /\ (q \ r) \union (r \ q) \in Quads
    BY <1>1, <1>3, <1>11, QuadSets, QuadAndEnds
  <2>4. QED
    BY <2>1, <2>2, <2>3, ShowsQuad
<1>12. QED
  BY <1>1, <1>2, <1>4, <1>5, <1>6, <1>7, <1>8, <1>9, <1>10, <1>11

\* Whatever the operands, an operation makes pieces.
LEMMA DifferencePiece ==
  ASSUME NEW x, NEW y, Read(x), Read(y)
  PROVE  difference(x, y) \in PieceSet
<1>1. Empty # Mixed /\ Full # Mixed /\ Empty # Full
  BY DEF Empty, Mixed, Full
<1>2. x.type \in {Empty, Mixed, Full} /\ x.quad \in Quads /\ y.type \in {Empty, Mixed, Full} /\ y.quad \in Quads
  BY DEF RunTypes, Read
<1>3. \A type \in {Empty, Mixed, Full} : Run(type) \in PieceSet
  BY RunPiece DEF RunTypes
<1>4. CASE x.type = Empty \/ y.type = Full \/ (x.type = Full /\ y.type = Empty)
  <2>1. difference(x, y) = Run(x.type)
    BY <1>1, <1>2, <1>4 DEF difference
  <2>2. QED
    BY <1>2, <1>3, <2>1
<1>5. CASE x.type = Full /\ y.type = Mixed
  <2>1. difference(x, y) = Quad(FULL_QUAD_MASK \ y.quad)
    BY <1>1, <1>2, <1>5 DEF difference
  <2>2. FULL_QUAD_MASK \ y.quad \in Quads
    BY <1>2, QuadSets, QuadAndEnds
  <2>3. QED
    BY <2>1, <2>2, QuadPiece
<1>6. CASE x.type = Mixed /\ y.type = Empty
  <2>1. difference(x, y) = Quad(x.quad)
    BY <1>1, <1>2, <1>6 DEF difference
  <2>2. x.quad \in Quads
    BY <1>2, QuadSets, QuadAndEnds
  <2>3. QED
    BY <2>1, <2>2, QuadPiece
<1>7. CASE x.type = Mixed /\ y.type = Mixed
  <2>1. difference(x, y) = Quad(x.quad \ y.quad)
    BY <1>1, <1>2, <1>7 DEF difference
  <2>2. x.quad \ y.quad \in Quads
    BY <1>2, QuadSets, QuadAndEnds
  <2>3. QED
    BY <2>1, <2>2, QuadPiece
<1>8. QED
  BY <1>1, <1>2, <1>4, <1>5, <1>6, <1>7

LEMMA SymmetricDifferencePiece ==
  ASSUME NEW x, NEW y, Read(x), Read(y)
  PROVE  symmetric_difference(x, y) \in PieceSet
<1>1. Empty # Mixed /\ Full # Mixed /\ Empty # Full
  BY DEF Empty, Mixed, Full
<1>2. x.type \in {Empty, Mixed, Full} /\ x.quad \in Quads /\ y.type \in {Empty, Mixed, Full} /\ y.quad \in Quads
  BY DEF RunTypes, Read
<1>3. \A type \in {Empty, Mixed, Full} : Run(type) \in PieceSet
  BY RunPiece DEF RunTypes
<1>4. CASE x.type # Mixed /\ y.type # Mixed /\ x.type = y.type
  <2>1. symmetric_difference(x, y) = Run(Empty)
    BY <1>1, <1>2, <1>4 DEF symmetric_difference
  <2>2. QED
    BY <1>2, <1>3, <2>1
<1>5. CASE x.type # Mixed /\ y.type # Mixed /\ x.type # y.type
  <2>1. symmetric_difference(x, y) = Run(Full)
    BY <1>1, <1>2, <1>5 DEF symmetric_difference
  <2>2. QED
    BY <1>2, <1>3, <2>1
<1>6. CASE x.type = Empty /\ y.type = Mixed
  <2>1. symmetric_difference(x, y) = Quad(y.quad)
    BY <1>1, <1>2, <1>6 DEF symmetric_difference
  <2>2. y.quad \in Quads
    BY <1>2, QuadSets, QuadAndEnds
  <2>3. QED
    BY <2>1, <2>2, QuadPiece
<1>7. CASE x.type = Mixed /\ y.type = Empty
  <2>1. symmetric_difference(x, y) = Quad(x.quad)
    BY <1>1, <1>2, <1>7 DEF symmetric_difference
  <2>2. x.quad \in Quads
    BY <1>2, QuadSets, QuadAndEnds
  <2>3. QED
    BY <2>1, <2>2, QuadPiece
<1>8. CASE x.type = Full /\ y.type = Mixed
  <2>1. symmetric_difference(x, y) = Quad(FULL_QUAD_MASK \ y.quad)
    BY <1>1, <1>2, <1>8 DEF symmetric_difference
  <2>2. FULL_QUAD_MASK \ y.quad \in Quads
    BY <1>2, QuadSets, QuadAndEnds
  <2>3. QED
    BY <2>1, <2>2, QuadPiece
<1>9. CASE x.type = Mixed /\ y.type \in {Mixed, Full}
  <2>1. symmetric_difference(x, y) = Quad((x.quad \ y.quad) \union (y.quad \ x.quad))
    BY <1>1, <1>2, <1>9 DEF symmetric_difference
  <2>2. (x.quad \ y.quad) \union (y.quad \ x.quad) \in Quads
    BY <1>2 DEF Quads
  <2>3. QED
    BY <2>1, <2>2, QuadPiece
<1>10. QED
  BY <1>1, <1>2, <1>4, <1>5, <1>6, <1>7, <1>8, <1>9

LEMMA ComplementPiece ==
  ASSUME NEW x, Read(x)
  PROVE  complement(x) \in PieceSet
<1>1. Empty # Mixed /\ Full # Mixed /\ Empty # Full
  BY DEF Empty, Mixed, Full
<1>2. x.type \in {Empty, Mixed, Full} /\ x.quad \in Quads
  BY DEF RunTypes, Read
<1>3. \A type \in {Empty, Mixed, Full} : Run(type) \in PieceSet
  BY RunPiece DEF RunTypes
<1>4. CASE x.type = Empty
  <2>1. complement(x) = Run(Full)
    BY <1>1, <1>2, <1>4 DEF complement
  <2>2. QED
    BY <1>2, <1>3, <2>1
<1>5. CASE x.type = Full
  <2>1. complement(x) = Run(Empty)
    BY <1>1, <1>2, <1>5 DEF complement
  <2>2. QED
    BY <1>2, <1>3, <2>1
<1>6. CASE x.type = Mixed
  <2>1. complement(x) = Quad(FULL_QUAD_MASK \ x.quad)
    BY <1>1, <1>2, <1>6 DEF complement
  <2>2. FULL_QUAD_MASK \ x.quad \in Quads
    BY <1>2, QuadSets, QuadAndEnds
  <2>3. QED
    BY <2>1, <2>2, QuadPiece
<1>7. QED
  BY <1>1, <1>2, <1>4, <1>5, <1>6

\* The pieces of a complement, where no quad is mixed.
LEMMA ComplementIs ==
  ASSUME NEW x, NEW q, Reads(x, q), x.type # Mixed
  PROVE  Shows(complement(x), FULL_QUAD_MASK \ q)
<1>1. Empty # Mixed /\ Full # Mixed /\ Empty # Full
  BY DEF Empty, Mixed, Full
<1>2. /\ x.type \in {Empty, Mixed, Full} /\ (x.type = Empty => q = {})
      /\ (x.type = Full => q = FULL_QUAD_MASK)
  BY DEF RunTypes, Read, Reads
<1>3. CASE x.type = Empty
  <2>1. complement(x) = Run(Full) /\ FULL_QUAD_MASK \ q = FULL_QUAD_MASK
    BY <1>1, <1>2, <1>3 DEF complement
  <2>2. QED
    BY <2>1, ShowsRun
<1>4. CASE x.type = Full
  <2>1. complement(x) = Run(Empty) /\ FULL_QUAD_MASK \ q = {}
    BY <1>1, <1>2, <1>4 DEF complement
  <2>2. QED
    BY <2>1, ShowsRun
<1>5. QED
  BY <1>2, <1>3, <1>4

LEMMA LengthIs ==
  ASSUME NEW n \in Nat, NEW S, NEW f \in [1..n -> S]
  PROVE  n = Len(f)
<1>1. f \in Seq(S)
  BY SeqDef
<1>2. DOMAIN f = 1..Len(f) /\ Len(f) \in Nat /\ DOMAIN f = 1..n
  BY <1>1, LenProperties
<1> DEFINE l == Len(f)
<1> HIDE DEF l
<1>3. 1..n = 1..l /\ l \in Nat
  BY <1>2 DEF l
<1>4. (n > l => n \in 1..n /\ n \notin 1..l) /\ (n < l => l \in 1..l /\ l \notin 1..n)
  BY <1>3
<1>5. QED
  BY <1>3, <1>4 DEF l

\* One piece for each quad.
LEMMA PiecesMade ==
  ASSUME NEW pieces, pieces = [k \in 1..UNICODE_QUAD_COUNT |-> pieces[k]], NEW points,
         \A k \in 1..UNICODE_QUAD_COUNT : Shows(pieces[k], Cells(points)[k - 1])
  PROVE  Made(Collected(pieces), UNICODE_QUAD_COUNT, Cells(points))
<1> DEFINE n == UNICODE_QUAD_COUNT
           S == {pieces[k] : k \in 1..n}
<1>1. n \in Nat
  BY SizesAssumption
<1> HIDE DEF n
<1>2. pieces \in [1..n -> S]
  BY DEF n
<1> HIDE DEF S
<1>3. n = Len(pieces)
  BY <1>1, <1>2, LengthIs
<1>4. QED
  BY <1>1, <1>3, CollectedMade DEF n

LEMMA PiecesType ==
  ASSUME NEW pieces, pieces = [k \in 1..UNICODE_QUAD_COUNT |-> pieces[k]],
         \A k \in 1..UNICODE_QUAD_COUNT : pieces[k] \in PieceSet
  PROVE  Collected(pieces) \in Objects
<1> DEFINE n == UNICODE_QUAD_COUNT
<1>1. n \in Nat
  BY SizesAssumption
<1> HIDE DEF n
<1>2. pieces \in [1..n -> PieceSet]
  BY DEF n
<1>3. n = Len(pieces)
  BY <1>1, <1>2, LengthIs
<1>4. QED
  BY <1>1, <1>3, CollectedType DEF n

\* What an operation reads of the object of a set.
LEMMA CellReads ==
  ASSUME NEW s, NEW points, Right(s, points), NEW garbage \in Quads,
         NEW k \in 1..UNICODE_QUAD_COUNT
  PROVE  /\ Reads(Cell(s, k - 1, garbage), Cells(points)[k - 1])
         /\ Cells(points)[k - 1] = {o \in FULL_QUAD_MASK : Point(k - 1, o) \in points}
         /\ Cells(points)[k - 1] \in Quads
<1>1. k - 1 \in 0..UNICODE_QUAD_COUNT - 1 /\ k - 1 \in Indices
  BY SizesAssumption DEF Indices
<1>2. Stands(s, UNICODE_QUAD_COUNT, Cells(points))
  BY DEF Right
<1> DEFINE c == Cells(points)
           i == k - 1
<1> HIDE DEF c, i
<1>3. /\ Cell(s, i, garbage).type \in RunTypes
      /\ Cell(s, i, garbage).type = Empty => c[i] = {}
      /\ Cell(s, i, garbage).type = Full => c[i] = FULL_QUAD_MASK
      /\ Cell(s, i, garbage).type = Mixed => Cell(s, i, garbage).quad = c[i]
      /\ Cell(s, i, garbage).quad \in Quads
  BY <1>1, <1>2, CellIs DEF c, i
<1>4. Reads(Cell(s, i, garbage), c[i])
  BY <1>3, Zenon DEF Reads, Read
<1>5. QED
  BY <1>1, <1>4, CellsAre DEF c, i

LEMMA IntersectionRight ==
  ASSUME NEW s, NEW A, Right(s, A), NEW t, NEW B, Right(t, B), NEW garbage \in Quads
  PROVE  Made(Combined(intersection, s, t, garbage), UNICODE_QUAD_COUNT, Cells(A \intersect B))
<1> DEFINE n == UNICODE_QUAD_COUNT
           x(k) == Cell(s, k - 1, garbage)
           y(k) == Cell(t, k - 1, garbage)
           pieces == [k \in 1..n |-> intersection(x(k), y(k))]
<1>1. Combined(intersection, s, t, garbage) = Collected(pieces)
  BY DEF Combined, CellsOf
<1>2. ASSUME NEW k \in 1..n PROVE Shows(pieces[k], Cells(A \intersect B)[k - 1])
  <2> DEFINE q == Cells(A)[k - 1]
             r == Cells(B)[k - 1]
  <2>1. /\ Reads(x(k), q) /\ q \in Quads
        /\ q = {o \in FULL_QUAD_MASK : Point(k - 1, o) \in A}
    BY CellReads
  <2>2. /\ Reads(y(k), r) /\ r \in Quads
        /\ r = {o \in FULL_QUAD_MASK : Point(k - 1, o) \in B}
    BY CellReads
  <2>3. Cells(A \intersect B)[k - 1] = q \intersect r
    <3>1. k - 1 \in Indices
      BY SizesAssumption DEF Indices
    <3>2. Cells(A \intersect B)[k - 1] = {o \in FULL_QUAD_MASK : Point(k - 1, o) \in A \intersect B}
      BY <3>1, CellsAre
    <3> HIDE DEF q, r
    <3>3. QED
      BY <2>1, <2>2, <3>2
  <2> HIDE DEF q, r, x, y
  <2>4. Shows(intersection(x(k), y(k)), q \intersect r)
    BY <2>1, <2>2, IntersectionIs
  <2>5. pieces[k] = intersection(x(k), y(k))
    OBVIOUS
  <2>6. QED
    BY <2>3, <2>4, <2>5
<1>3. pieces = [k \in 1..n |-> pieces[k]]
  OBVIOUS
<1> HIDE DEF pieces, x, y
<1>4. QED
  BY <1>1, <1>2, <1>3, PiecesMade

LEMMA UnionRight ==
  ASSUME NEW s, NEW A, Right(s, A), NEW t, NEW B, Right(t, B), NEW garbage \in Quads
  PROVE  Made(Combined(union, s, t, garbage), UNICODE_QUAD_COUNT, Cells(A \union B))
<1> DEFINE n == UNICODE_QUAD_COUNT
           x(k) == Cell(s, k - 1, garbage)
           y(k) == Cell(t, k - 1, garbage)
           pieces == [k \in 1..n |-> union(x(k), y(k))]
<1>1. Combined(union, s, t, garbage) = Collected(pieces)
  BY DEF Combined, CellsOf
<1>2. ASSUME NEW k \in 1..n PROVE Shows(pieces[k], Cells(A \union B)[k - 1])
  <2> DEFINE q == Cells(A)[k - 1]
             r == Cells(B)[k - 1]
  <2>1. /\ Reads(x(k), q) /\ q \in Quads
        /\ q = {o \in FULL_QUAD_MASK : Point(k - 1, o) \in A}
    BY CellReads
  <2>2. /\ Reads(y(k), r) /\ r \in Quads
        /\ r = {o \in FULL_QUAD_MASK : Point(k - 1, o) \in B}
    BY CellReads
  <2>3. Cells(A \union B)[k - 1] = q \union r
    <3>1. k - 1 \in Indices
      BY SizesAssumption DEF Indices
    <3>2. Cells(A \union B)[k - 1] = {o \in FULL_QUAD_MASK : Point(k - 1, o) \in A \union B}
      BY <3>1, CellsAre
    <3> HIDE DEF q, r
    <3>3. QED
      BY <2>1, <2>2, <3>2
  <2> HIDE DEF q, r, x, y
  <2>4. Shows(union(x(k), y(k)), q \union r)
    BY <2>1, <2>2, UnionIs
  <2>5. pieces[k] = union(x(k), y(k))
    OBVIOUS
  <2>6. QED
    BY <2>3, <2>4, <2>5
<1>3. pieces = [k \in 1..n |-> pieces[k]]
  OBVIOUS
<1> HIDE DEF pieces, x, y
<1>4. QED
  BY <1>1, <1>2, <1>3, PiecesMade

LEMMA DifferenceRight ==
  ASSUME NEW s, NEW A, Right(s, A), NEW t, NEW B, Right(t, B), NEW garbage \in Quads,
         ~UnderFull({Mixed, Full}, s, t)
  PROVE  Made(Combined(difference, s, t, garbage), UNICODE_QUAD_COUNT, Cells(A \ B))
<1> DEFINE n == UNICODE_QUAD_COUNT
           x(k) == Cell(s, k - 1, garbage)
           y(k) == Cell(t, k - 1, garbage)
           pieces == [k \in 1..n |-> difference(x(k), y(k))]
<1>1. Combined(difference, s, t, garbage) = Collected(pieces)
  BY DEF Combined, CellsOf
<1>2. ASSUME NEW k \in 1..n PROVE Shows(pieces[k], Cells(A \ B)[k - 1])
  <2> DEFINE q == Cells(A)[k - 1]
             r == Cells(B)[k - 1]
  <2>1. /\ Reads(x(k), q) /\ q \in Quads
        /\ q = {o \in FULL_QUAD_MASK : Point(k - 1, o) \in A}
    BY CellReads
  <2>2. /\ Reads(y(k), r) /\ r \in Quads
        /\ r = {o \in FULL_QUAD_MASK : Point(k - 1, o) \in B}
    BY CellReads
  <2>3. Cells(A \ B)[k - 1] = q \ r
    <3>1. k - 1 \in Indices
      BY SizesAssumption DEF Indices
    <3>2. Cells(A \ B)[k - 1] = {o \in FULL_QUAD_MASK : Point(k - 1, o) \in A \ B}
      BY <3>1, CellsAre
    <3> HIDE DEF q, r
    <3>3. QED
      BY <2>1, <2>2, <3>2
  <2>4. x(k).type \in {Mixed, Full} => y(k).type # Full
    <3>1. k - 1 \in Indices
      BY SizesAssumption DEF Indices
    <3>2. x(k).type = Cell(s, k - 1, {}).type /\ y(k).type = Cell(t, k - 1, {}).type
      BY DEF Cell
    <3>3. QED
      BY <3>1, <3>2 DEF UnderFull
  <2> HIDE DEF q, r, x, y
  <2>5. Shows(difference(x(k), y(k)), q \ r)
    BY <2>1, <2>2, <2>4, DifferenceIs
  <2>6. pieces[k] = difference(x(k), y(k))
    OBVIOUS
  <2>7. QED
    BY <2>3, <2>5, <2>6
<1>3. pieces = [k \in 1..n |-> pieces[k]]
  OBVIOUS
<1> HIDE DEF pieces, x, y
<1>4. QED
  BY <1>1, <1>2, <1>3, PiecesMade

LEMMA DifferenceType ==
  ASSUME NEW s, NEW A, Right(s, A), NEW t, NEW B, Right(t, B), NEW garbage \in Quads
  PROVE  Combined(difference, s, t, garbage) \in Objects
<1> DEFINE n == UNICODE_QUAD_COUNT
           x(k) == Cell(s, k - 1, garbage)
           y(k) == Cell(t, k - 1, garbage)
           pieces == [k \in 1..n |-> difference(x(k), y(k))]
<1>1. Combined(difference, s, t, garbage) = Collected(pieces)
  BY DEF Combined, CellsOf
<1>2. ASSUME NEW k \in 1..n PROVE pieces[k] \in PieceSet
  <2>1. Read(x(k)) /\ Read(y(k))
    BY CellReads DEF Reads
  <2>2. pieces[k] = difference(x(k), y(k))
    OBVIOUS
  <2> HIDE DEF x, y, pieces
  <2>3. QED
    BY <2>1, <2>2, DifferencePiece
<1>3. pieces = [k \in 1..n |-> pieces[k]]
  OBVIOUS
<1> HIDE DEF pieces, x, y
<1>4. QED
  BY <1>1, <1>2, <1>3, PiecesType

LEMMA SymmetricDifferenceRight ==
  ASSUME NEW s, NEW A, Right(s, A), NEW t, NEW B, Right(t, B), NEW garbage \in Quads,
         ~UnderFull({Mixed}, s, t)
  PROVE  Made(Combined(symmetric_difference, s, t, garbage), UNICODE_QUAD_COUNT, Cells((A \ B) \union (B \ A)))
<1> DEFINE n == UNICODE_QUAD_COUNT
           x(k) == Cell(s, k - 1, garbage)
           y(k) == Cell(t, k - 1, garbage)
           pieces == [k \in 1..n |-> symmetric_difference(x(k), y(k))]
<1>1. Combined(symmetric_difference, s, t, garbage) = Collected(pieces)
  BY DEF Combined, CellsOf
<1>2. ASSUME NEW k \in 1..n PROVE Shows(pieces[k], Cells((A \ B) \union (B \ A))[k - 1])
  <2> DEFINE q == Cells(A)[k - 1]
             r == Cells(B)[k - 1]
  <2>1. /\ Reads(x(k), q) /\ q \in Quads
        /\ q = {o \in FULL_QUAD_MASK : Point(k - 1, o) \in A}
    BY CellReads
  <2>2. /\ Reads(y(k), r) /\ r \in Quads
        /\ r = {o \in FULL_QUAD_MASK : Point(k - 1, o) \in B}
    BY CellReads
  <2>3. Cells((A \ B) \union (B \ A))[k - 1] = (q \ r) \union (r \ q)
    <3>1. k - 1 \in Indices
      BY SizesAssumption DEF Indices
    <3>2. Cells((A \ B) \union (B \ A))[k - 1] = {o \in FULL_QUAD_MASK : Point(k - 1, o) \in (A \ B) \union (B \ A)}
      BY <3>1, CellsAre
    <3> HIDE DEF q, r
    <3>3. QED
      BY <2>1, <2>2, <3>2
  <2>4. x(k).type \in {Mixed} => y(k).type # Full
    <3>1. k - 1 \in Indices
      BY SizesAssumption DEF Indices
    <3>2. x(k).type = Cell(s, k - 1, {}).type /\ y(k).type = Cell(t, k - 1, {}).type
      BY DEF Cell
    <3>3. QED
      BY <3>1, <3>2 DEF UnderFull
  <2> HIDE DEF q, r, x, y
  <2>5. Shows(symmetric_difference(x(k), y(k)), (q \ r) \union (r \ q))
    BY <2>1, <2>2, <2>4, SymmetricDifferenceIs
  <2>6. pieces[k] = symmetric_difference(x(k), y(k))
    OBVIOUS
  <2>7. QED
    BY <2>3, <2>5, <2>6
<1>3. pieces = [k \in 1..n |-> pieces[k]]
  OBVIOUS
<1> HIDE DEF pieces, x, y
<1>4. QED
  BY <1>1, <1>2, <1>3, PiecesMade

LEMMA SymmetricDifferenceType ==
  ASSUME NEW s, NEW A, Right(s, A), NEW t, NEW B, Right(t, B), NEW garbage \in Quads
  PROVE  Combined(symmetric_difference, s, t, garbage) \in Objects
<1> DEFINE n == UNICODE_QUAD_COUNT
           x(k) == Cell(s, k - 1, garbage)
           y(k) == Cell(t, k - 1, garbage)
           pieces == [k \in 1..n |-> symmetric_difference(x(k), y(k))]
<1>1. Combined(symmetric_difference, s, t, garbage) = Collected(pieces)
  BY DEF Combined, CellsOf
<1>2. ASSUME NEW k \in 1..n PROVE pieces[k] \in PieceSet
  <2>1. Read(x(k)) /\ Read(y(k))
    BY CellReads DEF Reads
  <2>2. pieces[k] = symmetric_difference(x(k), y(k))
    OBVIOUS
  <2> HIDE DEF x, y, pieces
  <2>3. QED
    BY <2>1, <2>2, SymmetricDifferencePiece
<1>3. pieces = [k \in 1..n |-> pieces[k]]
  OBVIOUS
<1> HIDE DEF pieces, x, y
<1>4. QED
  BY <1>1, <1>2, <1>3, PiecesType

\* The complement, which reads its quads elsewhere.
Complemented(s, garbage) ==
  Collected([k \in 1..UNICODE_QUAD_COUNT |->
               complement([Cell(s, k - 1, {}) EXCEPT !.quad = garbage])])

LEMMA ComplementReads ==
  ASSUME NEW s, NEW A, Right(s, A), NEW garbage \in Quads, NEW k \in 1..UNICODE_QUAD_COUNT,
         NEW x, x = [Cell(s, k - 1, {}) EXCEPT !.quad = garbage]
  PROVE  /\ Read(x)
         /\ s.quads = << >> => x.type # Mixed /\ Reads(x, Cells(A)[k - 1])
<1> DEFINE y == Cell(s, k - 1, {})
           q == Cells(A)[k - 1]
<1>1. /\ y = [type |-> y.type, quad |-> y.quad]
      /\ s.quads = << >> => y.quad = {}
  BY DEF Cell
<1>2. {} \in Quads
  BY MaskIs
<1>3. Reads(y, q)
  BY <1>2, CellReads
<1>4. y.type = Mixed => y.quad # {}
  <2>1. k - 1 \in 0..UNICODE_QUAD_COUNT - 1
    BY SizesAssumption
  <2>2. Stands(s, UNICODE_QUAD_COUNT, Cells(A))
    BY DEF Right
  <2> HIDE DEF q
  <2>3. y.type = Mixed => y.quad = q /\ q \in Quads \ {{}, FULL_QUAD_MASK}
    BY <2>1, <2>2, CellIs DEF q
  <2> HIDE DEF y
  <2>4. QED
    BY <2>3
<1> HIDE DEF q
<1>5. x = [y EXCEPT !.quad = garbage]
  OBVIOUS
<1> HIDE DEF y
<1>6. x.type = y.type /\ x.quad = garbage
  BY <1>1, <1>5
<1>7. QED
  BY <1>1, <1>3, <1>4, <1>6 DEF Reads, Read, q

LEMMA ComplementRight ==
  ASSUME NEW s, NEW A, Right(s, A), NEW garbage \in Quads, s.quads = << >>
  PROVE  Made(Complemented(s, garbage), UNICODE_QUAD_COUNT, Cells(CodePoints \ A))
<1> DEFINE n == UNICODE_QUAD_COUNT
           x(k) == [Cell(s, k - 1, {}) EXCEPT !.quad = garbage]
           pieces == [k \in 1..n |-> complement(x(k))]
<1>1. Complemented(s, garbage) = Collected(pieces)
  BY DEF Complemented
<1>2. ASSUME NEW k \in 1..n PROVE Shows(pieces[k], Cells(CodePoints \ A)[k - 1])
  <2> DEFINE q == Cells(A)[k - 1]
  <2>1. x(k).type # Mixed /\ Reads(x(k), q)
    BY ComplementReads
  <2>2. Cells(CodePoints \ A)[k - 1] = FULL_QUAD_MASK \ q
    <3>1. k - 1 \in Indices
      BY SizesAssumption DEF Indices
    <3>2. /\ Cells(CodePoints \ A)[k - 1]
               = {o \in FULL_QUAD_MASK : Point(k - 1, o) \in CodePoints \ A}
          /\ q = {o \in FULL_QUAD_MASK : Point(k - 1, o) \in A}
      BY <3>1, CellsAre
    <3>3. \A o \in FULL_QUAD_MASK : Point(k - 1, o) \in CodePoints
      BY <3>1, PointIs
    <3> HIDE DEF q
    <3>4. QED
      BY <3>2, <3>3
  <2>3. pieces[k] = complement(x(k))
    OBVIOUS
  <2> HIDE DEF q, x
  <2>4. Shows(complement(x(k)), FULL_QUAD_MASK \ q)
    BY <2>1, ComplementIs
  <2>5. QED
    BY <2>2, <2>3, <2>4
<1>3. pieces = [k \in 1..n |-> pieces[k]]
  OBVIOUS
<1> HIDE DEF pieces, x
<1>4. QED
  BY <1>1, <1>2, <1>3, PiecesMade

LEMMA ComplementType ==
  ASSUME NEW s, NEW A, Right(s, A), NEW garbage \in Quads
  PROVE  Complemented(s, garbage) \in Objects
<1> DEFINE n == UNICODE_QUAD_COUNT
           x(k) == [Cell(s, k - 1, {}) EXCEPT !.quad = garbage]
           pieces == [k \in 1..n |-> complement(x(k))]
<1>1. Complemented(s, garbage) = Collected(pieces)
  BY DEF Complemented
<1>2. ASSUME NEW k \in 1..n PROVE pieces[k] \in PieceSet
  <2>1. Read(x(k))
    BY ComplementReads
  <2>2. pieces[k] = complement(x(k))
    OBVIOUS
  <2> HIDE DEF x, pieces
  <2>3. QED
    BY <2>1, <2>2, ComplementPiece
<1>3. pieces = [k \in 1..n |-> pieces[k]]
  OBVIOUS
<1> HIDE DEF pieces, x
<1>4. QED
  BY <1>1, <1>2, <1>3, PiecesType

-----------------------------------------------------------------------------
(* insert.                                                                   *)

LEMMA DenotesBounds ==
  ASSUME NEW r, NEW p, NEW a \in Int, NEW b, NEW c, Denotes(r, p, a, b, c)
  PROVE  /\ r \in Seq(Runs) /\ p \in Seq(Quads) /\ MixedQuads(r) = Len(p)
         /\ b \in Int /\ a <= b /\ b = a + AllQuads(r) /\ AllQuads(r) \in Nat
<1>1. /\ r \in Seq(Runs) /\ p \in Seq(Quads) /\ MixedQuads(r) = Len(p)
      /\ b = a + AllQuads(r) /\ \A k \in 1..Len(r) : r[k].length >= 1
  BY DEF Denotes, InStep
<1>2. Len(r) + 1 \in 1..Len(r) + 1
  BY <1>1, LenProperties
<1>3. AllQuads(r) \in Nat
  BY <1>1, <1>2, RunsInOrder DEF AllQuads
<1>4. QED
  BY <1>1, <1>3

\* Only the quads that the runs cover matter.
LEMMA SameCells ==
  ASSUME NEW r, NEW p, NEW a \in Int, NEW b, NEW c, Denotes(r, p, a, b, c),
         NEW d, \A i \in a..b - 1 : d[i] = c[i]
  PROVE  Denotes(r, p, a, b, d)
<1>1. /\ InStep(r, p) /\ b = a + AllQuads(r)
      /\ \A k \in 1..Len(r) : \A j \in 0..r[k].length - 1 :
           c[a + QuadsBefore(r, k) + j] = QuadOf(r, p, k, j)
  BY DEF Denotes
<1>2. r \in Seq(Runs) /\ \A k \in 1..Len(r) : r[k].length >= 1
  BY <1>1 DEF InStep
<1>3. b \in Int
  BY DenotesBounds
<1>4. ASSUME NEW k \in 1..Len(r), NEW j \in 0..r[k].length - 1
      PROVE  a + QuadsBefore(r, k) + j \in a..b - 1
  <2> DEFINE u == QuadsBefore(r, k)
             v == QuadsBefore(r, k + 1)
             w == QuadsBefore(r, Len(r) + 1)
             l == r[k].length
  <2>1. /\ k \in 1..Len(r) + 1 /\ k + 1 \in 1..Len(r) + 1 /\ Len(r) + 1 \in 1..Len(r) + 1
        /\ k + 1 <= Len(r) + 1
    BY <1>2, LenProperties
  <2>2. v = u + l /\ w \in Int
    BY <1>2, <2>1, QuadsBeforeIs
  <2>3. u \in Nat /\ v \in Nat /\ v <= w
    BY <1>2, <2>1, RunsInOrder
  <2>4. b = a + w
    BY <1>1 DEF AllQuads
  <2>5. l \in Int
    <3>1. r[k] \in Runs
      BY <1>2
    <3>2. QED
      BY <3>1 DEF Runs
  <2>6. j \in 0..l - 1
    OBVIOUS
  <2> HIDE DEF u, v, w, l
  <2>7. a + u + j \in a..b - 1
    BY <1>3, <2>2, <2>3, <2>4, <2>5, <2>6
  <2>8. QED
    BY <2>7 DEF u
<1>5. QED
  BY <1>1, <1>4 DEF Denotes

LEMMA JoinsTo ==
  ASSUME NEW r, NEW p, NEW s, NEW q, NEW a \in Int, NEW m, NEW b, NEW c,
         Denotes(r, p, a, m, c), Denotes(s, q, m, b, c)
  PROVE  Denotes(Join(r, s), Join(p, q), a, b, c)
<1>1. r \in Seq(Runs) /\ p \in Seq(Quads) /\ MixedQuads(r) = Len(p) /\ m = a + AllQuads(r) /\ m \in Int
  BY DenotesBounds
<1>2. s \in Seq(Runs) /\ q \in Seq(Quads)
  BY <1>1, DenotesBounds
<1>3. Denotes(r, p, a, a + AllQuads(r), c) /\ Denotes(s, q, a + AllQuads(r), b, c)
  BY <1>1
<1>4. Denotes(r \o s, p \o q, a, b, c)
  BY <1>1, <1>2, <1>3, JoinDenotes
<1>5. QED
  BY <1>4 DEF Join

\* The runs with run k opened at its quad number offset, which is of type inside now.
Opened(runs, k, offset, inside) ==
  Join(Join(HeadRuns(runs, k, offset), Piece(inside, 1)), TailRuns(runs, k, offset + 1))

LEMMA Opening ==
  ASSUME NEW runs, NEW quads, NEW n, NEW c, Denotes(runs, quads, 0, n, c),
         NEW k \in 1..Len(runs), NEW offset \in 0..runs[k].length - 1,
         NEW i, i = QuadsBefore(runs, k) + offset,
         NEW x, x = MixedBefore(runs, k) + MixedPart(runs[k].type, offset),
         NEW y, y = MixedBefore(runs, k) + MixedPart(runs[k].type, offset + 1),
         NEW inside, NEW p, NEW d, Denotes(Piece(inside, 1), p, i, i + 1, d),
         \A j \in 0..n - 1 : j # i => d[j] = c[j]
  PROVE  /\ Denotes(Opened(runs, k, offset, inside),
                    Join(Join(FirstQuads(quads, x), p), LastQuads(quads, y)), 0, n, d)
         /\ x \in 0..Len(quads) /\ y \in 0..Len(quads)
<1>1. runs \in Seq(Runs) /\ 0 \in Int
  BY DenotesBounds
<1>2. QuadsBefore(runs, k) \in Int /\ runs[k] \in Runs
  BY <1>1, QuadsBeforeIs
<1>3. offset \in 0..runs[k].length /\ offset + 1 \in 0..runs[k].length
  BY <1>2 DEF Runs
<1>4. i \in Int /\ i = 0 + (QuadsBefore(runs, k) + offset)
      /\ i + 1 = 0 + (QuadsBefore(runs, k) + (offset + 1))
  BY <1>2, SMTT(30)
<1> DEFINE head == HeadRuns(runs, k, offset)
           tail == TailRuns(runs, k, offset + 1)
           first == FirstQuads(quads, x)
           last == LastQuads(quads, y)
<1>5. Denotes(head, first, 0, i, c) /\ x \in 0..Len(quads)
  BY <1>1, <1>3, <1>4, CutAt
<1>6. Denotes(tail, last, i + 1, n, c) /\ y \in 0..Len(quads)
  BY <1>1, <1>3, <1>4, CutAt
<1> HIDE DEF head, tail, first, last
<1>7. 0 <= i /\ i + 1 <= n /\ n \in Int /\ i + 1 \in Int
  BY <1>1, <1>4, <1>5, <1>6, DenotesBounds
<1>8. Denotes(head, first, 0, i, d)
  <2>1. \A j \in 0..i - 1 : j \in 0..n - 1 /\ j # i
    BY <1>7, <1>4
  <2>2. QED
    BY <1>1, <1>5, <2>1, SameCells
<1>9. Denotes(tail, last, i + 1, n, d)
  <2>1. \A j \in i + 1..n - 1 : j \in 0..n - 1 /\ j # i
    BY <1>7, <1>4
  <2>2. QED
    BY <1>6, <1>7, <2>1, SameCells
<1>10. Denotes(Join(head, Piece(inside, 1)), Join(first, p), 0, i + 1, d)
  BY <1>1, <1>8, JoinsTo
<1>11. Denotes(Join(Join(head, Piece(inside, 1)), tail), Join(Join(first, p), last), 0, n, d)
  BY <1>1, <1>9, <1>10, JoinsTo
<1>12. QED
  BY <1>5, <1>6, <1>11 DEF Opened, head, tail, first, last

LEMMA CutInTwo ==
  ASSUME NEW r \in Seq(Runs), NEW s \in Seq(Runs), NEW p, NEW a \in Int, NEW b, NEW c,
         Denotes(Join(r, s), p, a, b, c)
  PROVE  \E m, p1, p2 : /\ m = a + AllQuads(r) /\ m \in Int
                        /\ Denotes(r, p1, a, m, c) /\ Denotes(s, p2, m, b, c)
                        /\ p = Join(p1, p2)
<1> DEFINE l == MixedQuads(r)
           p1 == FirstQuads(p, l)
           p2 == LastQuads(p, l)
           m == a + AllQuads(r)
<1>1. l = MixedQuads(r) /\ Denotes(r \o s, p, a, b, c)
  BY DEF Join
<1> HIDE DEF l
<1>2. /\ p = p1 \o p2 /\ AllQuads(r) \in Nat
      /\ Denotes(r, p1, a, m, c) /\ Denotes(s, p2, m, b, c)
  <2>1. /\ AllQuads(r) \in Nat /\ l \in 0..Len(p) /\ p \in Seq(Quads)
        /\ Denotes(r, FirstQuads(p, l), a, a + AllQuads(r), c)
        /\ Denotes(s, LastQuads(p, l), a + AllQuads(r), b, c)
    BY <1>1, CutDenotes
  <2>2. p = p1 \o p2
    BY <2>1, SeqCut DEF FirstQuads, LastQuads
  <2>3. QED
    BY <2>1, <2>2
<1>3. m \in Int /\ m = a + AllQuads(r) /\ p = Join(p1, p2)
  BY <1>2 DEF Join
<1> HIDE DEF p1, p2, m
<1>4. QED
  BY <1>2, <1>3

LEMMA JoinType ==
  ASSUME NEW r \in Seq(Runs), NEW s \in Seq(Runs)
  PROVE  Join(r, s) \in Seq(Runs)
BY ConcatProperties DEF Join

LEMMA JoinThree ==
  ASSUME NEW S, NEW r \in Seq(S), NEW s \in Seq(S), NEW u \in Seq(S)
  PROVE  Join(Join(r, s), u) = Join(r, Join(s, u))
BY ConcatAssociative DEF Join

\* Opened for a quad of its own type, a run is what it was.
LEMMA OpenedAlike ==
  ASSUME NEW runs, NEW quads, NEW n, NEW c, Denotes(runs, quads, 0, n, c),
         NEW k \in 1..Len(runs), NEW offset \in 0..runs[k].length - 1,
         NEW p, NEW d, Denotes(Opened(runs, k, offset, runs[k].type), p, 0, n, d)
  PROVE  Denotes(runs, p, 0, n, d)
<1> DEFINE type == runs[k].type
           length == runs[k].length
           f == EarlierRuns(runs, k)
           one == Piece(type, offset)
           two == Piece(type, 1)
           three == Piece(type, offset + 1)
           tail == TailRuns(runs, k, offset + 1)
           head == HeadRuns(runs, k, offset)
           longer == HeadRuns(runs, k, offset + 1)
<1>1. runs \in Seq(Runs) /\ 0 \in Int
  BY DenotesBounds
<1>2. runs[k] \in Runs /\ \A j \in 1..Len(runs) : runs[j].length >= 1
  BY <1>1 DEF Denotes, InStep
<1>3. /\ type \in RunTypes /\ length \in Int /\ length >= 1
      /\ QuadsBefore(runs, k) \in Int
  <2>1. type \in RunTypes /\ length \in Int
    BY <1>2 DEF Runs
  <2>2. length >= 1
    BY <1>2
  <2>3. QuadsBefore(runs, k) \in Int
    BY <1>1, QuadsBeforeIs
  <2>4. QED
    BY <2>1, <2>2, <2>3
<1>4. /\ offset \in 0..length /\ offset + 1 \in 0..length
      /\ offset \in Nat /\ offset + 1 \in Nat /\ 1 \in Nat
  BY <1>3
<1>5. /\ f \in Seq(Runs) /\ tail \in Seq(Runs) /\ head \in Seq(Runs) /\ longer \in Seq(Runs)
      /\ AllQuads(longer) = QuadsBefore(runs, k) + (offset + 1)
  BY <1>1, <1>3, <1>4, RunsCut
<1>6. head = Join(f, one) /\ longer = Join(f, three)
  BY DEF HeadRuns, EarlierRuns, Join
<1>7. one \in Seq(Runs) /\ two \in Seq(Runs) /\ three \in Seq(Runs)
  BY <1>3, <1>4, PieceSums
<1>8. Denotes(Join(Join(head, two), tail), p, 0, n, d)
  BY DEF Opened
<1> HIDE DEF f, one, two, three, tail, head, longer, type, length
<1>9. PICK e, p1, p2 : /\ e \in Int /\ Denotes(Join(head, two), p1, 0, e, d)
                       /\ Denotes(tail, p2, e, n, d) /\ p = Join(p1, p2)
  <2>1. Join(head, two) \in Seq(Runs)
    BY <1>5, <1>7, JoinType
  <2>2. QED
    BY <1>1, <1>5, <1>8, <2>1, CutInTwo
<1>10. Denotes(longer, p1, 0, e, d)
  <2>1. Join(head, two) = Join(f, Join(one, two)) /\ Join(one, two) \in Seq(Runs)
    BY <1>5, <1>6, <1>7, JoinThree, JoinType
  <2>2. PICK g, q1, q2 : /\ g \in Int /\ Denotes(f, q1, 0, g, d)
                         /\ Denotes(Join(one, two), q2, g, e, d) /\ p1 = Join(q1, q2)
    BY <1>1, <1>5, <1>9, <2>1, CutInTwo
  <2>3. Denotes(three, q2, g, e, d)
    BY <1>3, <1>4, <2>2, PieceSplit DEF one, two, three, Join
  <2>4. QED
    BY <1>1, <1>6, <2>2, <2>3, JoinsTo
<1>11. e = 0 + (QuadsBefore(runs, k) + (offset + 1))
  BY <1>1, <1>5, <1>10, DenotesBounds
<1>12. Denotes(runs, p1 \o p2, 0, n, d)
  BY <1>1, <1>3, <1>4, <1>9, <1>10, <1>11, Uncut DEF tail, length, longer
<1>13. QED
  BY <1>9, <1>12 DEF Join

LEMMA SplitIs ==
  ASSUME NEW runs \in Seq(Runs), NEW k \in 1..Len(runs), runs[k].length >= 1,
         NEW offset \in 0..runs[k].length - 1, NEW inside \in RunTypes
  PROVE  Split(runs, k, offset, inside) = Opened(runs, k, offset, inside)
<1> DEFINE r == Join(HeadRuns(runs, k, offset), Piece(inside, 1))
           s == Piece(runs[k].type, runs[k].length - (offset + 1))
           u == LaterRuns(runs, k)
<1>1. Split(runs, k, offset, inside) = Join(Join(r, s), u)
  BY DEF Split, Join, HeadRuns, LaterRuns, Piece
<1>2. runs[k].type \in RunTypes /\ runs[k].length \in Int
  <2>1. runs[k] \in Runs
    OBVIOUS
  <2>2. QED
    BY <2>1 DEF Runs
<1>3. /\ offset \in 0..runs[k].length /\ 1 \in Nat
      /\ runs[k].length - (offset + 1) \in Nat
  BY <1>2
<1>4. r \in Seq(Runs)
  BY <1>3, RunsCut, PieceSums, JoinType
<1>5. s \in Seq(Runs)
  BY <1>2, <1>3, PieceSums
<1>6. u \in Seq(Runs)
  BY <1>3, RunsCut
<1>7. Opened(runs, k, offset, inside) = Join(r, Join(s, u))
  BY DEF Opened, TailRuns, LaterRuns, Join
<1> HIDE DEF r, s, u
<1>8. QED
  BY <1>1, <1>4, <1>5, <1>6, <1>7, JoinThree

JoinOf(u, r, s, S) ==
  /\ u \in Seq(S) /\ Len(u) = Len(r) + Len(s)
  /\ \A i \in 1..Len(r) : u[i] = r[i]
  /\ \A i \in 1..Len(s) : u[Len(r) + i] = s[i]

LEMMA JoinIs ==
  ASSUME NEW S, NEW r \in Seq(S), NEW s \in Seq(S)
  PROVE  JoinOf(Join(r, s), r, s, S)
<1>1. /\ r \o s \in Seq(S) /\ Len(r \o s) = Len(r) + Len(s)
      /\ \A i \in 1..Len(r) : (r \o s)[i] = r[i]
      /\ \A i \in 1..Len(s) : (r \o s)[Len(r) + i] = s[i]
  OBVIOUS
<1>2. QED
  BY <1>1 DEF Join, JoinOf

\* The quads with one more, with one less, and with one changed.
LEMMA QuadsWith ==
  ASSUME NEW quads \in Seq(Quads), NEW x \in 0..Len(quads), NEW quad
  PROVE  InsertAt(quads, x + 1, quad)
           = Join(Join(FirstQuads(quads, x), <<quad>>), LastQuads(quads, x))
<1>1. (x + 1) - 1 = x
  OBVIOUS
<1>2. QED
  BY <1>1 DEF InsertAt, Join, FirstQuads, LastQuads

LEMMA QuadsWithout ==
  ASSUME NEW quads \in Seq(Quads), NEW x \in 0..Len(quads), NEW y \in 0..Len(quads), y = x + 1
  PROVE  RemoveAt(quads, y) = Join(Join(FirstQuads(quads, x), << >>), LastQuads(quads, y))
<1>1. y - 1 = x
  OBVIOUS
<1>2. FirstQuads(quads, x) \in Seq(Quads)
  BY SeqCut DEF FirstQuads
<1>3. Join(FirstQuads(quads, x), << >>) = FirstQuads(quads, x)
  BY <1>2, ConcatEmptySeq DEF Join
<1>4. RemoveAt(quads, y) = Join(FirstQuads(quads, x), LastQuads(quads, y))
  BY <1>1 DEF RemoveAt, Join, FirstQuads, LastQuads
<1>5. QED
  BY <1>3, <1>4

LEMMA QuadsChanged ==
  ASSUME NEW quads \in Seq(Quads), NEW x \in 0..Len(quads), NEW y \in 0..Len(quads), y = x + 1,
         NEW quad \in Quads
  PROVE  [quads EXCEPT ![y] = quad]
           = Join(Join(FirstQuads(quads, x), <<quad>>), LastQuads(quads, y))
<1> DEFINE f == FirstQuads(quads, x)
           g == LastQuads(quads, y)
           one == <<quad>>
           left == [quads EXCEPT ![y] = quad]
           front == Join(f, one)
           right == Join(front, g)
           n == Len(quads)
<1>1. y \in 1..n /\ n \in Nat /\ x \in Nat
  OBVIOUS
<1>2. /\ f \in Seq(Quads) /\ Len(f) = x /\ \A i \in 1..x : f[i] = quads[i]
  BY SeqCut DEF FirstQuads
<1>3. /\ g \in Seq(Quads) /\ Len(g) = n - y /\ \A i \in 1..n - y : g[i] = quads[y + i]
  BY SeqCut DEF LastQuads
<1>4. /\ left \in Seq(Quads) /\ Len(left) = n
      /\ \A i \in 1..n : left[i] = IF i = y THEN quad ELSE quads[i]
  BY <1>1, ExceptSeq
<1>5. one \in Seq(Quads) /\ Len(one) = 1 /\ one[1] = quad
  OBVIOUS
<1> HIDE DEF f, g, one
<1>6. /\ front \in Seq(Quads) /\ Len(front) = x + 1
      /\ \A i \in 1..x : front[i] = f[i]
      /\ front[x + 1] = one[1]
  <2>1. 1 \in 1..Len(one)
    BY <1>5
  <2>2. JoinOf(front, f, one, Quads)
    BY <1>2, <1>5, JoinIs, Zenon
  <2> HIDE DEF front
  <2>3. QED
    BY <1>2, <1>5, <2>1, <2>2 DEF JoinOf
<1> HIDE DEF front
<1>7. /\ right \in Seq(Quads) /\ Len(right) = y + (n - y)
      /\ \A i \in 1..y : right[i] = front[i]
      /\ \A i \in 1..n - y : right[y + i] = g[i]
  <2>1. JoinOf(right, front, g, Quads)
    BY <1>3, <1>6, JoinIs, Zenon
  <2> HIDE DEF right
  <2>2. QED
    BY <1>3, <1>6, <2>1 DEF JoinOf
<1> HIDE DEF left, right, n
<1>8. Len(right) = n
  BY <1>1, <1>7
<1>9. ASSUME NEW i \in 1..n PROVE left[i] = right[i]
  <2>1. CASE i <= x
    <3>1. i \in 1..x /\ i \in 1..y /\ i # y
      BY <1>1, <2>1
    <3>2. right[i] = front[i] /\ front[i] = f[i] /\ f[i] = quads[i]
      BY <1>2, <1>6, <1>7, <3>1
    <3>3. left[i] = quads[i]
      BY <1>4, <3>1
    <3>4. QED
      BY <3>2, <3>3
  <2>2. CASE i = y
    <3>1. i \in 1..y /\ i = x + 1
      BY <1>1, <2>2
    <3>2. right[i] = front[i]
      BY <1>7, <3>1
    <3>3. left[i] = quad
      BY <1>4, <2>2
    <3>4. QED
      BY <1>5, <1>6, <3>1, <3>2, <3>3
  <2>3. CASE i > y
    <3>1. i - y \in 1..n - y /\ y + (i - y) = i /\ i # y
      BY <1>1, <2>3
    <3>2. left[i] = quads[i]
      BY <1>4, <3>1
    <3>3. right[y + (i - y)] = g[i - y] /\ g[i - y] = quads[y + (i - y)]
      BY <1>3, <1>7, <3>1
    <3>4. QED
      BY <3>1, <3>2, <3>3
  <2>4. QED
    BY <1>1, <2>1, <2>2, <2>3
<1>10. left = right
  BY <1>4, <1>7, <1>8, <1>9, SeqEqual
<1>11. QED
  BY <1>10 DEF left, right, front, f, g, one

LEMMA OneMixed ==
  ASSUME NEW quad \in Quads \ {{}, FULL_QUAD_MASK}, NEW i \in Int, NEW d, d[i] = quad
  PROVE  Denotes(Piece(Mixed, 1), <<quad>>, i, i + 1, d)
<1> DEFINE q == <<quad>>
<1>1. q \in Seq(Quads) /\ Len(q) = 1 /\ q[1] = quad
  OBVIOUS
<1> HIDE DEF q
<1>2. Mixed \in RunTypes /\ 1 \in Nat /\ MixedPart(Mixed, 1) = 1
  BY DEF RunTypes, MixedPart
<1>3. ProperQuads(q)
  BY <1>1 DEF ProperQuads
<1>4. \A j \in 0..1 - 1 : d[i + j] = Content(Mixed, q, j)
  <2>1. \A j \in 0..1 - 1 : i + j = i /\ j + 1 = 1
    OBVIOUS
  <2>2. QED
    BY <1>1, <2>1 DEF Content
<1>5. Denotes(Piece(Mixed, 1), q, i, i + 1, d)
  <2>1. Denotes(Piece(Mixed, 1), q, i, i + 1, d)
          <=> /\ q \in Seq(Quads) /\ Len(q) = MixedPart(Mixed, 1) /\ ProperQuads(q)
              /\ i + 1 = i + 1
              /\ \A j \in 0..1 - 1 : d[i + j] = Content(Mixed, q, j)
    BY <1>2, PieceDenotes
  <2>2. QED
    BY <1>1, <1>2, <1>3, <1>4, <2>1, Zenon
<1>6. QED
  BY <1>5 DEF q

LEMMA OneFull ==
  ASSUME NEW i \in Int, NEW d, d[i] = FULL_QUAD_MASK
  PROVE  Denotes(Piece(Full, 1), << >>, i, i + 1, d)
<1> DEFINE q == << >>
<1>1. q \in Seq(Quads) /\ Len(q) = 0
  OBVIOUS
<1> HIDE DEF q
<1>2. Full \in RunTypes /\ 1 \in Nat /\ MixedPart(Full, 1) = 0 /\ Full # Mixed
  BY DEF RunTypes, MixedPart, Full, Mixed
<1>3. ProperQuads(q)
  BY <1>1 DEF ProperQuads
<1>4. \A j \in 0..1 - 1 : d[i + j] = Content(Full, q, j)
  <2>1. \A j \in 0..1 - 1 : i + j = i
    OBVIOUS
  <2>2. QED
    BY <1>2, <2>1 DEF Content
<1>5. Denotes(Piece(Full, 1), q, i, i + 1, d)
  <2>1. Denotes(Piece(Full, 1), q, i, i + 1, d)
          <=> /\ q \in Seq(Quads) /\ Len(q) = MixedPart(Full, 1) /\ ProperQuads(q)
              /\ i + 1 = i + 1
              /\ \A j \in 0..1 - 1 : d[i + j] = Content(Full, q, j)
    BY <1>2, PieceDenotes
  <2>2. QED
    BY <1>1, <1>2, <1>3, <1>4, <2>1, Zenon
<1>6. QED
  BY <1>5 DEF q

\* The cells of a set with one more member.
LEMMA OneMoreMember ==
  ASSUME NEW A, NEW cp \in CodePoints, NEW j \in Indices
  PROVE  Cells(A \union {cp})[j]
           = IF j = Index(cp) THEN Cells(A)[j] \union {Offset(cp)} ELSE Cells(A)[j]
<1>1. Cells(A \union {cp})[j] = {o \in FULL_QUAD_MASK : Point(j, o) \in A \union {cp}}
  BY CellsAre
<1>2. Cells(A)[j] = {o \in FULL_QUAD_MASK : Point(j, o) \in A}
  BY CellsAre
<1>3. Offset(cp) \in FULL_QUAD_MASK /\ cp = Point(Index(cp), Offset(cp))
  BY PlaceIs
<1>4. \A o \in FULL_QUAD_MASK : Index(Point(j, o)) = j /\ Offset(Point(j, o)) = o
  BY PointIs
<1>5. \A o \in FULL_QUAD_MASK : Point(j, o) = cp <=> j = Index(cp) /\ o = Offset(cp)
  BY <1>3, <1>4
<1> DEFINE c == Cells(A)[j]
           d == Cells(A \union {cp})[j]
<1>6. CASE j = Index(cp)
  <2>1. \A o : o \in d <=> o \in c \/ o = Offset(cp)
    BY <1>1, <1>2, <1>3, <1>5, <1>6
  <2> HIDE DEF c, d
  <2>2. d = c \union {Offset(cp)}
    BY <2>1
  <2>3. QED
    BY <1>6, <2>2 DEF c, d
<1>7. CASE j # Index(cp)
  <2>1. \A o : o \in d <=> o \in c
    BY <1>1, <1>2, <1>5, <1>7
  <2> HIDE DEF c, d
  <2>2. d = c
    BY <2>1
  <2>3. QED
    BY <1>7, <2>2 DEF c, d
<1>8. QED
  BY <1>6, <1>7

\* Where an operation finds a quad of the object: the run, the number of the quad in
\* it, and how many quads of the vector lie before the run.
Place(s, i, k, offset, before) ==
  /\ k = RunOf(s.runs, i) /\ offset = i - QuadsBefore(s.runs, k) /\ before = MixedBefore(s.runs, k)
  /\ s.runs \in Seq(Runs) /\ s.quads \in Seq(Quads)
  /\ k \in 1..Len(s.runs) /\ s.runs[k].type \in RunTypes
  /\ s.runs[k].length \in Int /\ s.runs[k].length >= 1
  /\ offset \in 0..s.runs[k].length - 1 /\ before \in Nat /\ i = QuadsBefore(s.runs, k) + offset
  /\ QuadsBefore(s.runs, k) \in Int
  /\ s.runs[k].type = Mixed => before + offset + 1 \in 1..Len(s.quads)

LEMMA PlaceFound ==
  ASSUME NEW s, NEW b, NEW c, Stands(s, b, c), NEW i \in 0..b - 1,
         NEW k, k = RunOf(s.runs, i), NEW offset, offset = i - QuadsBefore(s.runs, k),
         NEW before, before = MixedBefore(s.runs, k)
  PROVE  /\ Place(s, i, k, offset, before)
         /\ c[i] = QuadOf(s.runs, s.quads, k, offset)
         /\ b \in Int
<1> DEFINE runs == s.runs
           quads == s.quads
<1>1. /\ InStep(runs, quads) /\ b = 0 + AllQuads(runs)
      /\ \A h \in 1..Len(runs) : \A j \in 0..runs[h].length - 1 :
           c[0 + QuadsBefore(runs, h) + j] = QuadOf(runs, quads, h, j)
  BY DEF Stands, Denotes
<1>2. Denotes(runs, quads, 0, b, c) /\ 0 \in Int
  BY DEF Stands
<1> HIDE DEF runs, quads
<1>3. /\ runs \in Seq(Runs) /\ quads \in Seq(Quads) /\ b \in Int
      /\ AllQuads(runs) \in Nat /\ b = 0 + AllQuads(runs)
  BY <1>2, DenotesBounds
<1>4. \A j \in 1..Len(runs) : runs[j].length >= 1
  BY <1>1 DEF InStep
<1>5. i \in 0..AllQuads(runs) - 1 /\ i \in Int
  BY <1>3
<1>6. k \in 1..Len(runs) /\ QuadsBefore(runs, k) <= i
      /\ i < QuadsBefore(runs, k) + runs[k].length
  BY <1>3, <1>4, <1>5, RunOfIs DEF runs
<1>7. QuadsBefore(runs, k) \in Int /\ runs[k].length >= 1
  BY <1>3, <1>4, <1>6, QuadsBeforeIs
<1>8. runs[k].type \in RunTypes /\ runs[k].length \in Int
  <2>1. runs[k] \in Runs
    BY <1>3, <1>6
  <2>2. QED
    BY <2>1 DEF Runs
<1>9. before \in Nat
  <2>1. k \in 1..Len(runs) + 1
    BY <1>3, <1>6, LenProperties
  <2>2. QED
    BY <1>3, <1>4, <2>1, RunsInOrder DEF runs
<1>10. offset = i - QuadsBefore(runs, k) /\ before = MixedBefore(runs, k)
  BY DEF runs
<1>11. offset \in 0..runs[k].length - 1 /\ i = QuadsBefore(runs, k) + offset
  BY <1>5, <1>6, <1>7, <1>8, <1>10
<1>12. runs[k].type = Mixed => before + offset + 1 \in 1..Len(quads)
  BY <1>1, <1>6, <1>10, <1>11, QuadInside
<1>13. c[i] = QuadOf(runs, quads, k, offset)
  <2>1. 0 + QuadsBefore(runs, k) + offset = i
    BY <1>5, <1>7, <1>11
  <2>2. QED
    BY <1>1, <1>6, <1>11, <2>1
<1>14. Place(s, i, k, offset, before)
  BY <1>3, <1>6, <1>7, <1>8, <1>9, <1>10, <1>11, <1>12 DEF Place, runs, quads
<1>15. QED
  BY <1>3, <1>13, <1>14 DEF runs, quads

\* Two offsets, so that the quad of a single one is not full.
LEMMA OneIsNotFull ==
  ASSUME NEW o \in FULL_QUAD_MASK
  PROVE  {o} \in Quads \ {{}, FULL_QUAD_MASK}
<1>1. 0 \in FULL_QUAD_MASK /\ 1 \in FULL_QUAD_MASK
  BY SizesAssumption DEF FULL_QUAD_MASK
<1>2. {o} # FULL_QUAD_MASK
  BY <1>1
<1>3. QED
  BY <1>2 DEF Quads

\* insert adds the code point.
LEMMA InsertRight ==
  ASSUME NEW s, NEW A, Right(s, A), NEW cp \in CodePoints
  PROVE  Right(inserted(s, cp), A \union {cp})
<1> DEFINE n == UNICODE_QUAD_COUNT
           i == Index(cp)
           o == Offset(cp)
           c == Cells(A)
           d == Cells(A \union {cp})
           runs == s.runs
           quads == s.quads
           k == RunOf(s.runs, i)
           offset == i - QuadsBefore(s.runs, k)
           before == MixedBefore(s.runs, k)
           q == before + offset + 1
           quad == quads[q] \union {o}
           type == runs[k].type
<1>1. /\ i \in Indices /\ o \in FULL_QUAD_MASK /\ cp = Point(i, o)
      /\ i \in 0..n - 1 /\ i \in Int
  BY PlaceIs DEF Indices
<1>2. Stands(s, n, c)
  BY DEF Right
<1>3. /\ Place(s, i, k, offset, before) /\ n \in Int
      /\ c[i] = QuadOf(runs, quads, k, offset)
  <2> HIDE DEF n, i, c
  <2>1. QED
    BY <1>1, <1>2, PlaceFound
<1>4. \A j \in Indices : d[j] = IF j = i THEN c[i] \union {o} ELSE c[j]
  <2>1. SUFFICES ASSUME NEW j \in Indices
                 PROVE  d[j] = IF j = i THEN c[i] \union {o} ELSE c[j]
    OBVIOUS
  <2>2. d[j] = IF j = i THEN c[j] \union {o} ELSE c[j]
    BY OneMoreMember
  <2> HIDE DEF c, d, i, o
  <2>3. QED
    BY <2>2
<1>5. c[i] = {p \in FULL_QUAD_MASK : Point(i, p) \in A}
  BY <1>1, CellsAre
<1>6. s = [runs |-> runs, quads |-> quads] /\ Denotes(runs, quads, 0, n, c)
  BY <1>2 DEF Stands, Objects
<1>7. inserted(s, cp)
        = CASE type = Full -> s
            [] type = Empty -> [runs |-> Split(runs, k, offset, Mixed),
                                quads |-> InsertAt(quads, before + 1, {o})]
            [] type = Mixed -> IF quad = FULL_QUAD_MASK
                               THEN [runs |-> Split(runs, k, offset, Full),
                                     quads |-> RemoveAt(quads, q)]
                               ELSE [s EXCEPT !.quads[q] = quad]
  BY DEF inserted, Index, Offset
<1>8. Empty # Mixed /\ Full # Mixed /\ Empty # Full
  BY DEF Empty, Mixed, Full
<1>9. {} \notin {{o}, quad}
  OBVIOUS
<1> HIDE DEF n, i, o, c, d, k, offset, before, quad, runs, quads
<1>10. /\ runs \in Seq(Runs) /\ quads \in Seq(Quads)
       /\ k \in 1..Len(runs) /\ type \in RunTypes /\ runs[k].length \in Int /\ runs[k].length >= 1
       /\ offset \in 0..runs[k].length - 1 /\ before \in Nat /\ before = MixedBefore(runs, k)
       /\ i = QuadsBefore(runs, k) + offset /\ QuadsBefore(runs, k) \in Int
       /\ type = Mixed => q \in 1..Len(quads)
  BY <1>3 DEF Place, runs, quads
<1>11. \A j \in 0..n - 1 : j # i => d[j] = c[j]
  BY <1>4 DEF Indices, n
<1>12. d[i] = c[i] \union {o}
  BY <1>1, <1>4
<1> HIDE DEF type, q
<1> DEFINE x == before + MixedPart(type, offset)
           y == before + MixedPart(type, offset + 1)
<1>13. x = before + MixedPart(runs[k].type, offset) /\ y = before + MixedPart(runs[k].type, offset + 1)
       /\ x = MixedBefore(runs, k) + MixedPart(runs[k].type, offset)
       /\ y = MixedBefore(runs, k) + MixedPart(runs[k].type, offset + 1)
  BY <1>10 DEF type
<1> HIDE DEF x, y
<1>14. ASSUME NEW inside \in RunTypes, NEW p, Denotes(Piece(inside, 1), p, i, i + 1, d)
       PROVE  /\ Denotes(Opened(runs, k, offset, inside),
                         Join(Join(FirstQuads(quads, x), p), LastQuads(quads, y)), 0, n, d)
              /\ x \in 0..Len(quads) /\ y \in 0..Len(quads)
  BY <1>6, <1>10, <1>11, <1>13, <1>14, Opening, SMTT(30)
<1>15. ASSUME NEW r, NEW p, Denotes(r, p, 0, n, d)
       PROVE  Right([runs |-> r, quads |-> p], A \union {cp})
  <2>1. r \in Seq(Runs) /\ p \in Seq(Quads)
    BY <1>15, 0 \in Int, DenotesBounds
  <2>2. QED
    BY <1>15, <2>1 DEF Right, Stands, Objects, d, n
<1>16. CASE type = Full
  <2>1. c[i] = FULL_QUAD_MASK
    BY <1>3, <1>8, <1>16 DEF QuadOf, type
  <2>2. cp \in A
    BY <1>1, <1>5, <2>1
  <2>3. A \union {cp} = A /\ inserted(s, cp) = s
    BY <1>7, <1>8, <1>16, <2>2
  <2>4. QED
    BY <2>3
<1>17. CASE type = Empty
  <2>1. c[i] = {} /\ d[i] = {o}
    BY <1>3, <1>8, <1>12, <1>17 DEF QuadOf, type
  <2>2. {o} \in Quads \ {{}, FULL_QUAD_MASK} /\ Mixed \in RunTypes
    BY <1>1, OneIsNotFull DEF RunTypes
  <2>3. Denotes(Piece(Mixed, 1), <<{o}>>, i, i + 1, d)
    BY <1>1, <2>1, <2>2, OneMixed
  <2>4. x = before /\ y = before
    BY <1>8, <1>10, <1>17 DEF x, y, MixedPart
  <2> DEFINE p == Join(Join(FirstQuads(quads, x), <<{o}>>), LastQuads(quads, y))
  <2>5. Denotes(Opened(runs, k, offset, Mixed), p, 0, n, d) /\ x \in 0..Len(quads)
    BY <1>14, <2>2, <2>3
  <2>6. InsertAt(quads, before + 1, {o}) = p
    BY <1>10, <2>4, <2>5, QuadsWith
  <2>7. Split(runs, k, offset, Mixed) = Opened(runs, k, offset, Mixed)
    BY <1>10, <2>2, SplitIs
  <2>8. inserted(s, cp) = [runs |-> Opened(runs, k, offset, Mixed), quads |-> p]
    BY <1>7, <1>8, <1>17, <2>6, <2>7, Zenon
  <2> HIDE DEF p
  <2>9. QED
    BY <1>15, <2>5, <2>8
<1>18. CASE type = Mixed
  <2>1. c[i] = quads[q] /\ q \in 1..Len(quads)
    BY <1>3, <1>10, <1>18 DEF QuadOf, type, q, before
  <2>2. d[i] = quad
    BY <1>12, <2>1 DEF quad
  <2>3. x = before + offset /\ y = (before + offset) + 1 /\ q = y /\ y = x + 1
    BY <1>10, <1>18 DEF x, y, MixedPart, q
  <2>4. quad \in Quads /\ quads[q] \in Quads
    BY <1>1, <1>10, <2>1 DEF quad, Quads
  <2>5. CASE quad = FULL_QUAD_MASK
    <3> DEFINE p == Join(Join(FirstQuads(quads, x), << >>), LastQuads(quads, y))
    <3>1. Denotes(Piece(Full, 1), << >>, i, i + 1, d)
      BY <1>1, <2>2, <2>5, OneFull
    <3>2. Full \in RunTypes
      BY DEF RunTypes
    <3>3. Denotes(Opened(runs, k, offset, Full), p, 0, n, d) /\ x \in 0..Len(quads) /\ y \in 0..Len(quads)
      BY <1>14, <3>1, <3>2
    <3>4. RemoveAt(quads, q) = p
      BY <1>10, <2>3, <3>3, QuadsWithout
    <3>5. Split(runs, k, offset, Full) = Opened(runs, k, offset, Full)
      BY <1>10, <3>2, SplitIs
    <3>6. inserted(s, cp) = [runs |-> Opened(runs, k, offset, Full), quads |-> p]
      BY <1>7, <1>8, <1>18, <2>5, <3>4, <3>5, Zenon
    <3> HIDE DEF p
    <3>7. QED
      BY <1>15, <3>3, <3>6
  <2>6. CASE quad # FULL_QUAD_MASK
    <3> DEFINE p == Join(Join(FirstQuads(quads, x), <<quad>>), LastQuads(quads, y))
    <3>1. quad \in Quads \ {{}, FULL_QUAD_MASK}
      BY <1>9, <2>4, <2>6
    <3>2. Denotes(Piece(Mixed, 1), <<quad>>, i, i + 1, d)
      BY <1>1, <2>2, <3>1, OneMixed
    <3>3. Mixed \in RunTypes
      BY DEF RunTypes
    <3>4. Denotes(Opened(runs, k, offset, Mixed), p, 0, n, d) /\ x \in 0..Len(quads) /\ y \in 0..Len(quads)
      BY <1>14, <3>2, <3>3
    <3>5. [quads EXCEPT ![q] = quad] = p
      BY <1>10, <2>3, <2>4, <3>4, QuadsChanged
    <3> HIDE DEF p
    <3>6. Denotes(Opened(runs, k, offset, runs[k].type), p, 0, n, d)
      BY <1>18, <3>4 DEF type
    <3>7. Denotes(runs, p, 0, n, d)
      BY <1>6, <1>10, <3>6, OpenedAlike
    <3>8. inserted(s, cp) = [s EXCEPT !.quads[q] = quad]
      BY <1>7, <1>8, <1>18, <2>6
    <3>9. inserted(s, cp) = [runs |-> runs, quads |-> [quads EXCEPT ![q] = quad]]
      BY <1>6, <3>8
    <3>10. QED
      BY <1>15, <3>5, <3>7, <3>9
  <2>7. QED
    BY <2>5, <2>6
<1>19. QED
  BY <1>10, <1>16, <1>17, <1>18 DEF RunTypes

-----------------------------------------------------------------------------
(* insert_range.                                                             *)

LEMMA MoreMembers ==
  ASSUME NEW A, NEW B, NEW j \in Indices
  PROVE  Cells(A \union B)[j] = Cells(A)[j] \union MaskOf(B, j)
<1>1. /\ Cells(A \union B)[j] = {o \in FULL_QUAD_MASK : Point(j, o) \in A \union B}
      /\ Cells(A)[j] = {o \in FULL_QUAD_MASK : Point(j, o) \in A}
  BY CellsAre
<1>2. QED
  BY <1>1 DEF MaskOf

\* The part in front of a quad of the object.
LEMMA KeptStands ==
  ASSUME NEW s, NEW n, NEW c, Stands(s, n, c), NEW i, NEW k, NEW offset, NEW before,
         Place(s, i, k, offset, before)
  PROVE  Stands(Kept(s, k, offset), i, c) /\ i \in Nat
<1> DEFINE runs == s.runs
           quads == s.quads
           type == runs[k].type
           x == before + MixedPart(type, offset)
           head == HeadRuns(runs, k, offset)
           first == FirstQuads(quads, x)
<1>1. /\ runs \in Seq(Runs) /\ k \in 1..Len(runs)
      /\ offset \in 0..runs[k].length - 1 /\ runs[k].length \in Int
      /\ before = MixedBefore(runs, k)
      /\ i = QuadsBefore(runs, k) + offset /\ QuadsBefore(runs, k) \in Int
  BY DEF Place
<1>2. Denotes(runs, quads, 0, n, c) /\ 0 \in Int
  BY DEF Stands
<1>3. offset \in 0..runs[k].length /\ i = 0 + (QuadsBefore(runs, k) + offset)
  BY <1>1
<1>4. x = MixedBefore(runs, k) + MixedPart(runs[k].type, offset)
  BY <1>1
<1>5. runs[k] = [type |-> type, length |-> runs[k].length]
  <2>1. runs[k] \in Runs
    BY <1>1
  <2>2. QED
    BY <2>1 DEF Runs
<1>6. Kept(s, k, offset) = [runs |-> head, quads |-> first]
  <2>1. [runs[k] EXCEPT !.length = offset] = [type |-> type, length |-> offset]
    BY <1>5
  <2>2. before = MixedBefore(s.runs, k)
    BY <1>1
  <2>3. before + (IF type = Mixed THEN offset ELSE 0) = x
    BY DEF MixedPart
  <2> HIDE DEF x
  <2>4. QED
    BY <2>1, <2>2, <2>3 DEF Kept, HeadRuns, Piece, FirstQuads
<1> HIDE DEF head, first, x, runs, quads
<1>7. Denotes(head, first, 0, i, c)
  BY <1>1, <1>2, <1>3, <1>4, CutAt DEF head, first
<1>8. head \in Seq(Runs) /\ first \in Seq(Quads) /\ i \in Int /\ 0 <= i
  BY <1>2, <1>7, DenotesBounds
<1>9. QED
  BY <1>6, <1>7, <1>8 DEF Stands, Objects

\* The quad of a run of this type with more code points.
LEMMA MergedStands ==
  ASSUME NEW s, NEW b \in Int, NEW e, e = b + 1, NEW d, Stands(s, b, d), NEW type \in RunTypes, NEW old,
         NEW quad \in Quads, NEW x, d[b] = x \union quad,
         type = Full => x = FULL_QUAD_MASK, type = Empty => x = {},
         type = Mixed => old = x /\ x \in Quads
  PROVE  Stands(Merged(s, type, old, quad), e, d)
<1>1. Empty # Mixed /\ Full # Mixed /\ Empty # Full /\ type \in {Empty, Mixed, Full}
  BY DEF Empty, Mixed, Full, RunTypes
<1>2. CASE type = Full
  <2>1. d[b] = FULL_QUAD_MASK
    BY <1>2, QuadAndEnds
  <2>2. \A j \in 0..1 - 1 : d[b + j] = Filling(Full)
    BY <2>1, FillingIs
  <2>3. Stands(append_run(s, Full, 1), b + 1, d)
    BY <2>2, 1 \in Nat, AppendRunStands
  <2>4. QED
    BY <1>1, <1>2, <2>3 DEF Merged
<1>3. CASE type = Mixed
  <2>1. quad \union old \in Quads /\ d[b] = quad \union old
    BY <1>3 DEF Quads
  <2>2. Stands(append_quad(s, quad \union old), b + 1, d)
    BY <2>1, AppendQuadStands
  <2>3. QED
    BY <1>1, <1>3, <2>2 DEF Merged
<1>4. CASE type = Empty
  <2>1. d[b] = quad
    BY <1>4
  <2>2. Stands(append_quad(s, quad), b + 1, d)
    BY <2>1, AppendQuadStands
  <2>3. QED
    BY <1>1, <1>4, <2>2 DEF Merged
<1>5. QED
  BY <1>1, <1>2, <1>3, <1>4

LEMMA MergedType ==
  ASSUME NEW s \in Objects, NEW type \in RunTypes, NEW old, NEW quad \in Quads,
         type = Mixed => old \in Quads
  PROVE  Merged(s, type, old, quad) \in Objects
<1>1. Empty # Mixed /\ Full # Mixed /\ Empty # Full /\ type \in {Empty, Mixed, Full}
      /\ Full \in RunTypes
  BY DEF Empty, Mixed, Full, RunTypes
<1>2. CASE type = Full
  <2>1. append_run(s, Full, 1) \in Objects
    BY <1>1, 1 \in Int, AppendRunType
  <2>2. QED
    BY <1>1, <1>2, <2>1 DEF Merged
<1>3. CASE type = Mixed
  <2>1. quad \union old \in Quads
    BY <1>3 DEF Quads
  <2>2. append_quad(s, quad \union old) \in Objects
    BY <2>1, AppendQuadType
  <2>3. QED
    BY <1>1, <1>3, <2>2 DEF Merged
<1>4. CASE type = Empty
  <2>1. append_quad(s, quad) \in Objects
    BY AppendQuadType
  <2>2. QED
    BY <1>1, <1>4, <2>1 DEF Merged
<1>5. QED
  BY <1>1, <1>2, <1>3, <1>4

\* And what comes after it.
LEMMA RestStands ==
  ASSUME NEW s, s.runs \in Seq(Runs), NEW m \in 1..Len(s.runs), s.runs[m].length >= 1,
         NEW taken \in 0..s.runs[m].length,
         NEW q, NEW b \in Int, NEW n, NEW d,
         Denotes(TailRuns(s.runs, m, taken), LastQuads(s.quads, q), b, n, d),
         NEW new, Stands(new, b, d)
  PROVE  Stands(Rest(s, new, m, taken, q), n, d)
<1> DEFINE runs == s.runs
           type == runs[m].type
           l == runs[m].length - taken
           piece == Piece(type, l)
           later == LaterRuns(runs, m)
           last == LastQuads(s.quads, q)
           longer == append_run(new, type, l)
<1>1. /\ type \in RunTypes /\ l \in Nat /\ later \in Seq(Runs)
  BY RunsCut
<1>2. Rest(s, new, m, taken, q)
        = [runs |-> Join(longer.runs, later), quads |-> Join(longer.quads, last)]
  BY DEF Rest, Join, LaterRuns, LastQuads
<1>3. Denotes(Join(piece, later), last, b, n, d)
  BY DEF TailRuns, Join, LaterRuns
<1> HIDE DEF type, l, later, last, runs
<1>4. piece \in Seq(Runs)
  BY <1>1, PieceSums
<1> HIDE DEF piece
<1>5. PICK e, p1, p2 : /\ e \in Int /\ Denotes(piece, p1, b, e, d)
                       /\ Denotes(later, p2, e, n, d) /\ last = Join(p1, p2)
  BY <1>1, <1>3, <1>4, CutInTwo
<1>6. new \in Objects /\ Denotes(new.runs, new.quads, 0, b, d)
  BY DEF Stands
<1>7. longer \in Objects /\ longer.quads = new.quads
  <2>1. l \in Int
    BY <1>1
  <2>2. QED
    BY <1>1, <1>6, <2>1, AppendRunType
<1>8. Denotes(longer.runs, Join(new.quads, p1), 0, e, d)
  <2>1. Denotes(longer.runs, new.quads \o p1, 0, e, d)
    BY <1>1, <1>5, <1>6, AppendRunDenotes DEF piece
  <2>2. QED
    BY <2>1 DEF Join
<1> HIDE DEF longer
<1>9. Denotes(Join(longer.runs, later), Join(Join(new.quads, p1), p2), 0, n, d)
  BY <1>5, <1>8, 0 \in Int, JoinsTo
<1>10. Join(Join(new.quads, p1), p2) = Join(longer.quads, last)
  <2>1. new.quads \in Seq(Quads) /\ p1 \in Seq(Quads) /\ p2 \in Seq(Quads)
    BY <1>5, <1>6, DenotesBounds DEF Objects
  <2>2. QED
    BY <1>5, <1>7, <2>1, JoinThree
<1> DEFINE r == Join(longer.runs, later)
           p == Join(longer.quads, last)
<1>11. Denotes(r, p, 0, n, d)
  BY <1>9, <1>10
<1> HIDE DEF r, p
<1>12. r \in Seq(Runs) /\ p \in Seq(Quads)
  BY <1>11, 0 \in Int, DenotesBounds
<1>13. Rest(s, new, m, taken, q) = [runs |-> r, quads |-> p]
  BY <1>2 DEF r, p
<1>14. QED
  BY <1>11, <1>12, <1>13 DEF Stands, Objects

\* The loop stops in a run that has more quads than are left to go.
Left(runs, k, hi_index, m) == hi_index - (QuadsBefore(runs, m) - QuadsBefore(runs, k + 1))

LEMMA RunOfHiIs ==
  ASSUME NEW runs \in Seq(Runs), NEW k \in 1..Len(runs), NEW hi_index \in Nat,
         NEW m, m = RunOfHi(runs, k, hi_index), m # 0
  PROVE  /\ m \in k + 1..Len(runs)
         /\ Left(runs, k, hi_index, m) \in Nat
         /\ Left(runs, k, hi_index, m) < runs[m].length
<1> DEFINE left(j) == Left(runs, k, hi_index, j)
           stops == {j \in k + 1..Len(runs) : left(j) < runs[j].length}
<1>1. Len(runs) \in Nat /\ k \in Nat
  BY LenProperties
<1>2. m = IF stops = {} THEN 0 ELSE Min(stops)
  BY DEF RunOfHi, Left
<1>3. stops # {} /\ m = CHOOSE j \in stops : \A h \in stops : j <= h
  BY <1>2 DEF Min
<1>4. stops \subseteq Nat
  BY <1>1
<1>5. m \in stops /\ \A h \in stops : m <= h
  <2> HIDE DEF stops
  <2>1. \E j \in stops : \A h \in stops : j <= h
    BY <1>3, <1>4, LeastNatural
  <2>2. QED
    BY <1>3, <2>1
<1>6. m \in k + 1..Len(runs) /\ left(m) < runs[m].length
  BY <1>5
<1>7. /\ \A j \in 1..Len(runs) : QuadsBefore(runs, j + 1) = QuadsBefore(runs, j) + runs[j].length
      /\ \A j \in 1..Len(runs) + 1 : QuadsBefore(runs, j) \in Int
  BY QuadsBeforeIs
<1>8. \A j \in k + 1..Len(runs) : left(j) \in Int /\ runs[j].length \in Int
  <2>1. SUFFICES ASSUME NEW j \in k + 1..Len(runs) PROVE left(j) \in Int /\ runs[j].length \in Int
    OBVIOUS
  <2>2. j \in 1..Len(runs) + 1 /\ k + 1 \in 1..Len(runs) + 1 /\ j \in 1..Len(runs)
    BY <1>1
  <2>3. runs[j] \in Runs
    BY <2>2
  <2>4. runs[j].length \in Int
    BY <2>3 DEF Runs
  <2>5. QuadsBefore(runs, j) \in Int /\ QuadsBefore(runs, k + 1) \in Int
    BY <1>7, <2>2
  <2>6. left(j) \in Int
    BY <2>5 DEF Left
  <2>7. QED
    BY <2>4, <2>6
<1>9. left(m) >= 0
  <2>1. CASE m = k + 1
    <3>1. m \in 1..Len(runs) + 1
      BY <1>1, <1>6
    <3>2. left(m) = hi_index
      BY <1>7, <2>1, <3>1 DEF Left
    <3>3. QED
      BY <3>2
  <2>2. CASE m # k + 1
    <3>1. /\ m - 1 \in k + 1..Len(runs) /\ (m - 1) + 1 = m /\ ~(m <= m - 1)
          /\ m - 1 \in 1..Len(runs) /\ k + 1 \in 1..Len(runs) + 1
          /\ m \in 1..Len(runs) + 1 /\ m - 1 \in 1..Len(runs) + 1
      BY <1>1, <1>6, <2>2
    <3>2. ~(left(m - 1) < runs[m - 1].length)
      BY <1>5, <3>1
    <3>3. QuadsBefore(runs, m) = QuadsBefore(runs, m - 1) + runs[m - 1].length
      BY <1>7, <3>1
    <3>4. left(m) = left(m - 1) - runs[m - 1].length
      <4> DEFINE a == QuadsBefore(runs, m)
                 b == QuadsBefore(runs, m - 1)
                 c == QuadsBefore(runs, k + 1)
                 l == runs[m - 1].length
      <4>1. a \in Int /\ b \in Int /\ c \in Int /\ l \in Int /\ a = b + l
        BY <1>7, <1>8, <3>1, <3>3
      <4>2. left(m) = hi_index - (a - c) /\ left(m - 1) = hi_index - (b - c)
        BY DEF Left
      <4> HIDE DEF a, b, c, l, left
      <4>3. left(m) = left(m - 1) - l
        BY <4>1, <4>2
      <4>4. QED
        BY <4>3 DEF l
    <3>5. left(m - 1) \in Int /\ runs[m - 1].length \in Int
      BY <1>8, <3>1
    <3> HIDE DEF left
    <3>6. QED
      BY <3>2, <3>4, <3>5
  <2>3. QED
    BY <2>1, <2>2
<1>10. left(m) \in Nat
  BY <1>6, <1>8, <1>9
<1>11. QED
  BY <1>6, <1>10

\* insert_range up to and with the quad of lo: i is where, l the last quad of the range.
RangeStart(s, lo, hi) ==
  LET k == RunOf(s.runs, Index(lo))
      type == s.runs[k].type
      offset == Index(lo) - QuadsBefore(s.runs, k)
      q == MixedBefore(s.runs, k) + (IF type = Mixed THEN offset + 1 ELSE 0)
      lo_quad == IF Index(hi) - Index(lo) = 0 THEN LoQuad(lo) \intersect HiQuad(hi) ELSE LoQuad(lo)
  IN  Merged(Kept(s, k, offset), type, s.quads[q], lo_quad)

LEMMA RangeStartStands ==
  ASSUME NEW s, NEW A, Right(s, A), NEW lo \in CodePoints, NEW hi \in CodePoints, lo <= hi
  PROVE  /\ Stands(RangeStart(s, lo, hi), Index(lo) + 1, Cells(A \union (lo..hi)))
         /\ LoQuad(lo) \in Quads /\ HiQuad(hi) \in Quads
<1> DEFINE n == UNICODE_QUAD_COUNT
           i == Index(lo)
           h == Index(hi)
           c == Cells(A)
           d == Cells(A \union (lo..hi))
           runs == s.runs
           k == RunOf(runs, i)
           type == runs[k].type
           offset == i - QuadsBefore(runs, k)
           before == MixedBefore(runs, k)
           q == before + (IF type = Mixed THEN offset + 1 ELSE 0)
           lo_quad == IF h - i = 0 THEN LoQuad(lo) \intersect HiQuad(hi) ELSE LoQuad(lo)
           kept == Kept(s, k, offset)
<1>1. /\ i \in Indices /\ i \in 0..n - 1 /\ i \in Int /\ i <= h /\ h \in Int
  BY PlaceIs, IndexInOrder DEF Indices
<1>2. LoQuad(lo) \in Quads /\ HiQuad(hi) \in Quads
  BY RangeCells, 0 \in Int
<1>3. \A j \in Indices : d[j] = c[j] \union MaskOf(lo..hi, j)
  BY MoreMembers
<1>4. MaskOf(lo..hi, i) = lo_quad
  <2>1. /\ i = Index(lo) /\ i < Index(hi) => MaskOf(lo..hi, i) = LoQuad(lo)
        /\ i = Index(lo) /\ i = Index(hi) =>
             MaskOf(lo..hi, i) = LoQuad(lo) \intersect HiQuad(hi)
    BY <1>1, RangeMask
  <2>2. (i < h \/ i = h) /\ (h - i = 0 <=> i = h)
    BY <1>1
  <2>3. QED
    BY <2>1, <2>2
<1>5. \A j \in Int : j < i => MaskOf(lo..hi, j) = {}
  BY RangeMask
<1>6. lo_quad \in Quads
  BY <1>2, QuadSets
<1>7. Stands(s, n, c)
  BY DEF Right
<1>8. RangeStart(s, lo, hi) = Merged(kept, type, s.quads[q], lo_quad)
  BY DEF RangeStart
<1> HIDE DEF n, i, h, c, d, lo_quad
<1>9. Place(s, i, k, offset, before) /\ c[i] = QuadOf(runs, s.quads, k, offset)
  BY <1>1, <1>7, PlaceFound
<1> HIDE DEF k, offset, before
<1>10. Stands(kept, i, c) /\ i \in Nat
  BY <1>7, <1>9, KeptStands DEF kept
<1>11. Stands(kept, i, d)
  <2>1. \A j \in 0..i - 1 : j \in Indices /\ j \in Int /\ j < i
    BY <1>1, SizesAssumption DEF Indices, n
  <2>2. \A j \in 0..i - 1 : d[j] = c[j]
    BY <1>3, <1>5, <2>1
  <2>3. QED
    BY <1>10, <2>2, 0 \in Int, SameCells DEF Stands
<1>12. /\ type \in RunTypes
       /\ type = Mixed => before + offset + 1 \in 1..Len(s.quads) /\ s.quads \in Seq(Quads)
       /\ before = MixedBefore(runs, k)
       /\ before \in Nat /\ offset \in Int
  BY <1>9 DEF Place
<1>13. Empty # Mixed /\ Full # Mixed /\ Empty # Full
  BY DEF Empty, Mixed, Full
<1>14. /\ type = Full => c[i] = FULL_QUAD_MASK
       /\ type = Empty => c[i] = {}
  BY <1>9, <1>13 DEF QuadOf
<1>15. type = Mixed => s.quads[q] = c[i] /\ c[i] \in Quads
  <2>1. SUFFICES ASSUME type = Mixed PROVE s.quads[q] = c[i] /\ c[i] \in Quads
    OBVIOUS
  <2>2. q = before + offset + 1
    BY <1>12, <2>1
  <2>3. c[i] = s.quads[before + offset + 1]
    BY <1>9, <1>12, <2>1 DEF QuadOf
  <2>4. QED
    BY <1>12, <2>1, <2>2, <2>3
<1>16. d[i] = c[i] \union lo_quad
  BY <1>1, <1>3, <1>4
<1> HIDE DEF kept, type, q
<1>17. Stands(Merged(kept, type, s.quads[q], lo_quad), i + 1, d)
  BY <1>1, <1>6, <1>11, <1>12, <1>14, <1>15, <1>16, MergedStands
<1>18. QED
  BY <1>2, <1>8, <1>17 DEF i, d

\* The rest of the object behind a quad that lies in run m.
LEMMA RestRight ==
  ASSUME NEW s, NEW n, NEW c, Stands(s, n, c), NEW m \in 1..Len(s.runs),
         NEW taken \in 0..s.runs[m].length,
         NEW q, q = MixedBefore(s.runs, m) + MixedPart(s.runs[m].type, taken),
         NEW b, b = QuadsBefore(s.runs, m) + taken,
         NEW d, \A j \in b..n - 1 : d[j] = c[j],
         NEW new, Stands(new, b, d)
  PROVE  Stands(Rest(s, new, m, taken, q), n, d)
<1> DEFINE runs == s.runs
           quads == s.quads
           tail == TailRuns(runs, m, taken)
           last == LastQuads(quads, q)
<1>1. Denotes(runs, quads, 0, n, c) /\ 0 \in Int
  BY DEF Stands
<1>2. runs \in Seq(Runs) /\ \A j \in 1..Len(runs) : runs[j].length >= 1
  BY <1>1 DEF Denotes, InStep
<1>3. Denotes(new.runs, new.quads, 0, b, d)
  BY DEF Stands
<1>4. b \in Int
  BY <1>1, <1>3, DenotesBounds
<1>5. QuadsBefore(runs, m) \in Int /\ taken \in Int
  <2>1. runs[m] \in Runs
    BY <1>2
  <2>2. runs[m].length \in Int
    BY <2>1 DEF Runs
  <2>3. QED
    BY <1>2, <2>2, QuadsBeforeIs
<1>6. b = 0 + (QuadsBefore(runs, m) + taken)
  BY <1>5
<1>7. q = MixedBefore(runs, m) + MixedPart(runs[m].type, taken) /\ taken \in 0..runs[m].length
  OBVIOUS
<1> HIDE DEF runs, quads
<1>8. m \in 1..Len(runs)
  BY DEF runs
<1>9. Denotes(tail, last, b, n, c)
  BY <1>1, <1>6, <1>7, <1>8, CutAt
<1> HIDE DEF tail, last
<1>10. Denotes(tail, last, b, n, d)
  BY <1>4, <1>9, SameCells
<1>11. QED
  BY <1>2, <1>4, <1>8, <1>10, RestStands DEF tail, last, runs, quads

\* insert_range adds the range, where it finds the run of hi.
LEMMA InsertRangeRight ==
  ASSUME NEW s, NEW A, Right(s, A), NEW lo \in CodePoints, NEW hi \in CodePoints, lo <= hi,
         RangeFits(s, lo, hi)
  PROVE  Right(inserted_range(s, lo, hi), A \union (lo..hi))
<1> DEFINE n == UNICODE_QUAD_COUNT
           i == Index(lo)
           h == Index(hi)
           c == Cells(A)
           d == Cells(A \union (lo..hi))
           runs == s.runs
           quads == s.quads
           k == RunOf(runs, i)
           type == runs[k].type
           offset == i - QuadsBefore(runs, k)
           before == MixedBefore(runs, k)
           q == before + (IF type = Mixed THEN offset + 1 ELSE 0)
           begun == RangeStart(s, lo, hi)
           hi_index == h - i
           filled == append_run(begun, Full, hi_index - 1)
           m == RunOfHi(runs, k, hi_index)
           left == hi_index - (QuadsBefore(runs, m) - QuadsBefore(runs, k + 1))
           hi_q == MixedBefore(runs, m) + (IF runs[m].type = Mixed THEN left + 1 ELSE 0)
           ended == Merged(filled, runs[m].type, quads[hi_q], HiQuad(hi))
<1>1. /\ i \in Indices /\ i \in 0..n - 1 /\ i \in Int /\ i <= h /\ h \in Int /\ n \in Int
      /\ h \in Indices /\ h \in 0..n - 1
  BY PlaceIs, IndexInOrder, SizesAssumption DEF Indices
<1>2. \A j \in Indices : d[j] = c[j] \union MaskOf(lo..hi, j)
  BY MoreMembers
<1>3. \A j \in Int : /\ j < i \/ j > h => MaskOf(lo..hi, j) = {}
                     /\ j > i /\ j < h => MaskOf(lo..hi, j) = FULL_QUAD_MASK
                     /\ j > i /\ j = h => MaskOf(lo..hi, j) = HiQuad(hi)
  BY RangeMask
<1>4. Stands(s, n, c)
  BY DEF Right
<1>5. Stands(begun, i + 1, d) /\ HiQuad(hi) \in Quads
  BY RangeStartStands
<1>6. inserted_range(s, lo, hi)
        = CASE hi_index = 0 -> Rest(s, begun, k, offset + 1, q)
            [] hi_index > 0 /\ m = 0 -> Undefined
            [] hi_index > 0 /\ m > 0 -> Rest(s, ended, m, left, hi_q)
  BY DEF inserted_range, RangeStart, Index
<1>7. \/ hi_index = 0
      \/ /\ offset = runs[k].length - 1
         /\ m > 0
         /\ m = RunOf(runs, h)
         /\ runs[m].type # Mixed
  BY DEF RangeFits, Index
<1> HIDE DEF n, i, h, c, d, begun, runs, quads
<1>8. /\ Place(s, i, k, offset, before) /\ c[i] = QuadOf(runs, quads, k, offset)
  BY <1>1, <1>4, PlaceFound DEF runs, quads
<1>9. \A j \in 0..n - 1 : j \in Indices /\ j \in Int
  BY <1>1 DEF Indices, n
<1>10. \A j \in h + 1..n - 1 : d[j] = c[j]
  <2>1. \A j \in h + 1..n - 1 : j \in Indices /\ j \in Int /\ j > h
    BY <1>1, <1>9
  <2>2. QED
    BY <1>2, <1>3, <2>1
<1>11. /\ runs \in Seq(Runs) /\ k \in 1..Len(runs) /\ runs[k].length \in Int
       /\ offset \in 0..runs[k].length - 1 /\ i = QuadsBefore(runs, k) + offset
       /\ QuadsBefore(runs, k) \in Int
  BY <1>8 DEF Place, runs
<1>12. CASE hi_index = 0
  <2>1. inserted_range(s, lo, hi) = Rest(s, begun, k, offset + 1, q)
    BY <1>6, <1>12
  <2>2. h = i
    BY <1>1, <1>12
  <2>3. /\ offset + 1 \in 0..runs[k].length /\ i + 1 = QuadsBefore(runs, k) + (offset + 1)
        /\ q = MixedBefore(runs, k) + MixedPart(type, offset + 1)
    BY <1>11 DEF MixedPart
  <2> HIDE DEF k, offset, q
  <2>4. Stands(Rest(s, begun, k, offset + 1, q), n, d)
    BY <1>4, <1>5, <1>10, <1>11, <2>2, <2>3, RestRight DEF runs
  <2>5. QED
    BY <2>1, <2>4 DEF Right, n, d
<1>13. CASE hi_index # 0
  <2>1. /\ offset = runs[k].length - 1 /\ m > 0 /\ m = RunOf(runs, h) /\ runs[m].type # Mixed
        /\ hi_index > 0 /\ i < h
    BY <1>1, <1>7, <1>13
  <2>2. inserted_range(s, lo, hi) = Rest(s, ended, m, left, hi_q)
    BY <1>6, <1>13, <2>1
  <2> DEFINE there == h - QuadsBefore(runs, m)
             mixed == MixedBefore(runs, m)
  <2> HIDE DEF m, k, offset, left, hi_q
  <2>3. Place(s, h, m, there, mixed) /\ c[h] = QuadOf(runs, quads, m, there)
    BY <1>1, <1>4, <2>1, PlaceFound DEF runs, quads
  <2>4. /\ m \in 1..Len(runs) /\ runs[m].length \in Int /\ there \in 0..runs[m].length - 1
        /\ h = QuadsBefore(runs, m) + there /\ QuadsBefore(runs, m) \in Int
        /\ runs[m].type \in RunTypes
    BY <2>3 DEF Place, runs
  <2>5. QuadsBefore(runs, k + 1) = i + 1
    <3>1. QuadsBefore(runs, k + 1) = QuadsBefore(runs, k) + runs[k].length
      BY <1>11, QuadsBeforeIs
    <3>2. QED
      BY <1>11, <2>1, <3>1, SMTT(30)
  <2>6. left = there + 1
    BY <1>1, <2>4, <2>5 DEF left
  <2>7. hi_q = MixedBefore(runs, m) + MixedPart(runs[m].type, left)
    BY <2>1 DEF hi_q, MixedPart
  <2>8. Stands(filled, h, d)
    <3>1. hi_index - 1 \in Nat /\ i + 1 \in Int /\ (i + 1) + (hi_index - 1) = h
      BY <1>1, <2>1
    <3>2. ASSUME NEW j \in 0..(hi_index - 1) - 1 PROVE d[(i + 1) + j] = Filling(Full)
      <4>1. (i + 1) + j > i /\ (i + 1) + j < h /\ (i + 1) + j \in Int /\ (i + 1) + j \in 0..n - 1
        BY <1>1, <2>1
      <4>2. (i + 1) + j \in Indices
        BY <1>9, <4>1
      <4>3. MaskOf(lo..hi, (i + 1) + j) = FULL_QUAD_MASK
        BY <1>3, <4>1
      <4>4. d[(i + 1) + j] = c[(i + 1) + j] \union FULL_QUAD_MASK
        BY <1>2, <4>2, <4>3
      <4>5. c[(i + 1) + j] \in Quads
        BY <4>2, CellsAre DEF c
      <4>6. c[(i + 1) + j] \union FULL_QUAD_MASK = FULL_QUAD_MASK
        BY <4>5, QuadAndEnds
      <4>7. QED
        BY <4>4, <4>6, FillingIs
    <3> HIDE DEF hi_index
    <3>3. Stands(append_run(begun, Full, hi_index - 1), (i + 1) + (hi_index - 1), d)
      BY <1>5, <3>1, <3>2, AppendRunStands
    <3>4. QED
      BY <3>1, <3>3
  <2> HIDE DEF filled, hi_index
  <2>9. Stands(ended, h + 1, d)
    <3>1. d[h] = c[h] \union HiQuad(hi)
      BY <1>1, <1>2, <1>3, <2>1
    <3>2. Empty # Mixed /\ Full # Mixed /\ Empty # Full
      BY DEF Empty, Mixed, Full
    <3>3. /\ runs[m].type = Full => c[h] = FULL_QUAD_MASK
          /\ runs[m].type = Empty => c[h] = {}
      BY <2>3, <3>2 DEF QuadOf
    <3>4. QED
      BY <1>1, <1>5, <2>1, <2>4, <2>8, <3>1, <3>3, MergedStands
  <2> HIDE DEF ended, there
  <2>10. left \in 0..runs[m].length /\ h + 1 = QuadsBefore(runs, m) + left
    BY <2>4, <2>6
  <2>11. Stands(Rest(s, ended, m, left, hi_q), n, d)
    BY <1>4, <1>10, <2>4, <2>7, <2>9, <2>10, RestRight DEF runs
  <2>12. QED
    BY <2>2, <2>11 DEF Right, n, d
<1>14. QED
  BY <1>12, <1>13

\* Wherever it stops, insert_range leaves runs and quads.
LEMMA InsertRangeType ==
  ASSUME NEW s, NEW A, Right(s, A), NEW lo \in CodePoints, NEW hi \in CodePoints, lo <= hi
  PROVE  inserted_range(s, lo, hi) \in Objects
<1> DEFINE n == UNICODE_QUAD_COUNT
           i == Index(lo)
           h == Index(hi)
           runs == s.runs
           quads == s.quads
           k == RunOf(runs, i)
           type == runs[k].type
           offset == i - QuadsBefore(runs, k)
           before == MixedBefore(runs, k)
           q == before + (IF type = Mixed THEN offset + 1 ELSE 0)
           begun == RangeStart(s, lo, hi)
           hi_index == h - i
           filled == append_run(begun, Full, hi_index - 1)
           m == RunOfHi(runs, k, hi_index)
           left == hi_index - (QuadsBefore(runs, m) - QuadsBefore(runs, k + 1))
           hi_q == MixedBefore(runs, m) + (IF runs[m].type = Mixed THEN left + 1 ELSE 0)
           ended == Merged(filled, runs[m].type, quads[hi_q], HiQuad(hi))
<1>1. /\ i \in Indices /\ i \in 0..n - 1 /\ i \in Int /\ i <= h /\ h \in Int
  BY PlaceIs, IndexInOrder DEF Indices
<1>2. Stands(s, n, Cells(A))
  BY DEF Right
<1>3. begun \in Objects /\ HiQuad(hi) \in Quads
  BY RangeStartStands DEF Stands
<1>4. inserted_range(s, lo, hi)
        = CASE hi_index = 0 -> Rest(s, begun, k, offset + 1, q)
            [] hi_index > 0 /\ m = 0 -> Undefined
            [] hi_index > 0 /\ m > 0 -> Rest(s, ended, m, left, hi_q)
  BY DEF inserted_range, RangeStart, Index
<1>5. Denotes(runs, quads, 0, n, Cells(A)) /\ s \in Objects
  BY <1>2 DEF Stands
<1>6. /\ runs \in Seq(Runs) /\ quads \in Seq(Quads) /\ MixedQuads(runs) = Len(quads)
      /\ \A j \in 1..Len(runs) : runs[j].length >= 1
      /\ InStep(runs, quads)
  BY <1>5 DEF Denotes, InStep
<1>7. CASE hi_index = 0
  <2>1. lo <= hi /\ RangeFits(s, lo, hi)
    BY <1>7 DEF RangeFits, Index
  <2>2. Right(inserted_range(s, lo, hi), A \union (lo..hi))
    BY <2>1, InsertRangeRight
  <2>3. QED
    BY <2>2 DEF Right, Stands
<1>8. CASE hi_index > 0 /\ m = 0
  <2>1. inserted_range(s, lo, hi) = Undefined
    BY <1>4, <1>8
  <2>2. QED
    BY <2>1 DEF Undefined, NoRuns, Objects
<1>9. CASE hi_index > 0 /\ m # 0
  <2>1. Place(s, i, k, offset, before)
    BY <1>1, <1>2, PlaceFound
  <2>2. k \in 1..Len(runs)
    BY <2>1 DEF Place
  <2>3. hi_index \in Nat
    BY <1>1
  <2> HIDE DEF n, i, h, runs, quads, begun, k, hi_index
  <2>4. /\ m \in k + 1..Len(runs) /\ left \in Nat /\ left < runs[m].length
    BY <1>6, <1>9, <2>2, <2>3, RunOfHiIs DEF Left
  <2> HIDE DEF m, left
  <2>5. m \in 1..Len(runs) /\ m \in 1..Len(runs) + 1 /\ Len(runs) + 1 \in 1..Len(runs) + 1
        /\ m <= Len(runs) + 1 /\ m > 0
    BY <1>6, <2>2, <2>4, LenProperties
  <2>6. runs[m].type \in RunTypes /\ runs[m].length \in Int
    <3>1. runs[m] \in Runs
      BY <1>6, <2>5
    <3>2. QED
      BY <3>1 DEF Runs
  <2>7. MixedBefore(runs, m) \in Nat /\ MixedBefore(runs, m) <= Len(quads)
    BY <1>6, <2>5, RunsInOrder DEF MixedQuads
  <2>8. runs[m].type = Mixed => hi_q \in 1..Len(quads)
    <3>1. left \in 0..runs[m].length - 1
      BY <2>4, <2>6
    <3>2. runs[m].type = Mixed => MixedBefore(runs, m) + left + 1 \in 1..Len(quads)
      BY <1>6, <2>5, <3>1, QuadInside
    <3>3. MixedBefore(runs, m) + (left + 1) = MixedBefore(runs, m) + left + 1
      BY <2>4, <2>7
    <3>4. QED
      BY <3>2, <3>3
  <2>9. hi_q \in 0..Len(quads)
    <3>1. Len(quads) \in Nat
      BY <1>6, LenProperties
    <3>2. CASE runs[m].type = Mixed
      BY <2>8, <3>1, <3>2
    <3>3. CASE runs[m].type # Mixed
      <4>1. hi_q = MixedBefore(runs, m)
        BY <2>7, <3>3
      <4>2. QED
        BY <2>7, <3>1, <4>1
    <3>4. QED
      BY <3>2, <3>3
  <2>10. filled \in Objects
    <3>1. hi_index - 1 \in Int /\ Full \in RunTypes
      BY <2>3 DEF RunTypes
    <3>2. QED
      BY <1>3, <3>1, AppendRunType
  <2> HIDE DEF filled, hi_q
  <2>11. ended \in Objects
    <3>1. runs[m].type = Mixed => quads[hi_q] \in Quads
      BY <1>6, <2>8
    <3>2. QED
      BY <1>3, <2>6, <2>10, <3>1, MergedType
  <2> HIDE DEF ended
  <2> DEFINE longer == append_run(ended, runs[m].type, runs[m].length - left)
             later == LaterRuns(runs, m)
             last == LastQuads(quads, hi_q)
  <2>12. longer \in Objects
    <3>1. runs[m].length - left \in Int
      BY <2>4, <2>6
    <3>2. QED
      BY <2>6, <2>11, <3>1, AppendRunType
  <2>13. later \in Seq(Runs) /\ last \in Seq(Quads)
    <3>1. last \in Seq(Quads)
      BY <1>6, <2>9, SeqCut DEF LastQuads
    <3>2. m \in 0..Len(runs)
      BY <2>5
    <3>3. later \in Seq(Runs)
      BY <1>6, <3>2, SeqCut DEF LaterRuns
    <3>4. QED
      BY <3>1, <3>3
  <2>14. Rest(s, ended, m, left, hi_q)
           = [runs |-> longer.runs \o later, quads |-> longer.quads \o last]
    BY DEF Rest, LaterRuns, LastQuads, runs, quads
  <2> HIDE DEF longer, later, last
  <2>15. longer.runs \in Seq(Runs) /\ longer.quads \in Seq(Quads)
    BY <2>12 DEF Objects
  <2>16. longer.runs \o later \in Seq(Runs) /\ longer.quads \o last \in Seq(Quads)
    BY <2>13, <2>15, ConcatProperties
  <2>17. Rest(s, ended, m, left, hi_q) \in Objects
    BY <2>14, <2>16 DEF Objects
  <2>18. inserted_range(s, lo, hi) = Rest(s, ended, m, left, hi_q)
    BY <1>4, <1>9, <2>3, <2>5
  <2>19. QED
    BY <2>17, <2>18
<1>10. QED
  BY <1>1, <1>7, <1>8, <1>9

-----------------------------------------------------------------------------
(* The theorems.                                                             *)

\* The inductive invariant.  While the object is sound its runs and quads lie in step
\* and stand for exactly the members; an object without members is one Empty run, which
\* is all that empty looks at.  Broken or not, it is made of runs and quads.
IInv ==
  /\ set \in Objects
  /\ members \in SUBSET CodePoints
  /\ sound \in BOOLEAN
  /\ sound => Right(set, members) /\ (members = {} => Compact(set))

LEMMA InitInvariant == Init => IInv
<1>1. ASSUME NEW A \in SUBSET CodePoints, Made(set, UNICODE_QUAD_COUNT, Cells(A)),
             members = A, sound = TRUE
      PROVE  IInv
  <2>1. Stands(set, UNICODE_QUAD_COUNT, Cells(A)) /\ Compact(set)
    BY <1>1 DEF Made
  <2>2. QED
    BY <1>1, <2>1 DEF IInv, Right, Stands
<1>2. CASE set = EmptySet /\ members = {} /\ sound = TRUE
  BY <1>1, <1>2, EmptySetRight
<1>3. ASSUME NEW cp \in CodePoints, set = Singleton(cp), members = {cp}, sound = TRUE
      PROVE  IInv
  <2>1. {cp} \in SUBSET CodePoints
    OBVIOUS
  <2>2. QED
    BY <1>1, <1>3, <2>1, SingletonRight
<1>4. ASSUME NEW lo \in CodePoints, NEW hi \in lo..UNICODE_MAX,
             set = RangeSet(lo, hi), members = lo..hi, sound = TRUE
      PROVE  IInv
  <2>1. hi \in CodePoints /\ lo <= hi /\ lo..hi \in SUBSET CodePoints
    <3>1. lo \in Int /\ 0 <= lo
      BY DEF CodePoints
    <3>2. UNICODE_MAX \in Int
      BY SizesAssumption DEF UNICODE_MAX
    <3>3. QED
      BY <3>1, <3>2 DEF CodePoints
  <2>2. QED
    BY <1>1, <1>4, <2>1, RangeSetRight
<1>5. ASSUME NEW list \in IntervalLists,
             set = IntervalSet(list), members = Within(list), sound = TRUE
      PROVE  IInv
  BY <1>1, <1>5, IntervalSetRight, DoneIs
<1>6. QED
  BY <1>2, <1>3, <1>4, <1>5 DEF Init

\* A sound object that stands for the members is what every operation starts from.
LEMMA InsertStep ==
  ASSUME IInv, sound, NEW cp \in CodePoints, Insert(cp)
  PROVE  IInv'
<1>1. Right(set, members) /\ members \in SUBSET CodePoints
  BY DEF IInv
<1>2. set' = inserted(set, cp) /\ members' = members \union {cp} /\ sound' = sound
  BY DEF Insert
<1>3. Right(inserted(set, cp), members \union {cp})
  BY <1>1, InsertRight
<1>4. inserted(set, cp) \in Objects
  BY <1>3 DEF Right, Stands
<1>5. members \union {cp} \in SUBSET CodePoints /\ members \union {cp} # {}
  BY <1>1
<1>6. QED
  BY <1>2, <1>3, <1>4, <1>5 DEF IInv

LEMMA InsertRangeStep ==
  ASSUME IInv, sound, NEW lo \in CodePoints, NEW hi \in CodePoints, InsertRange(lo, hi)
  PROVE  IInv'
<1>1. Right(set, members) /\ members \in SUBSET CodePoints
  BY DEF IInv
<1>2. /\ lo <= hi /\ set' = inserted_range(set, lo, hi)
      /\ members' = members \union (lo..hi) /\ sound' = RangeFits(set, lo, hi)
  BY DEF InsertRange
<1>3. inserted_range(set, lo, hi) \in Objects
  BY <1>1, <1>2, InsertRangeType
<1>4. RangeFits(set, lo, hi) => Right(inserted_range(set, lo, hi), members \union (lo..hi))
  BY <1>1, <1>2, InsertRangeRight
<1>5. members \union (lo..hi) \in SUBSET CodePoints /\ members \union (lo..hi) # {}
  <2>1. UNICODE_MAX \in Int
    BY SizesAssumption DEF UNICODE_MAX
  <2>2. lo..hi \subseteq CodePoints /\ lo \in lo..hi
    BY <1>2, <2>1 DEF CodePoints
  <2>3. QED
    BY <1>1, <2>2
<1>6. RangeFits(set, lo, hi) \in BOOLEAN
  BY DEF RangeFits
<1>7. QED
  BY <1>2, <1>3, <1>4, <1>5, <1>6 DEF IInv

\* What the other operand of an operation is.
LEMMA OperandIs ==
  ASSUME NEW list \in IntervalLists
  PROVE  Right(IntervalSet(list), Within(list)) /\ Within(list) \in SUBSET CodePoints
BY IntervalSetRight, DoneIs DEF Made, Right

\* An object made anew for the members is compact.
LEMMA MadeAnew ==
  ASSUME set' \in Objects, members' \in SUBSET CodePoints, sound' \in BOOLEAN,
         sound' => Made(set', UNICODE_QUAD_COUNT, Cells(members'))
  PROVE  IInv'
BY DEF IInv, Made, Right

LEMMA IntersectStep ==
  ASSUME IInv, sound, NEW list \in IntervalLists, Intersect(list)
  PROVE  IInv'
<1>1. Right(set, members) /\ members \in SUBSET CodePoints /\ {} \in Quads
  BY MaskIs DEF IInv
<1>2. /\ set' = Combined(intersection, set, IntervalSet(list), {})
      /\ members' = members \intersect Within(list) /\ sound' = sound
  BY DEF Intersect
<1>3. Made(set', UNICODE_QUAD_COUNT, Cells(members'))
  BY <1>1, <1>2, OperandIs, IntersectionRight
<1>4. set' \in Objects /\ members' \in SUBSET CodePoints /\ sound' \in BOOLEAN
  BY <1>1, <1>2, <1>3 DEF Made, Stands, IInv
<1>5. QED
  BY <1>3, <1>4, MadeAnew

LEMMA UniteStep ==
  ASSUME IInv, sound, NEW list \in IntervalLists, Unite(list)
  PROVE  IInv'
<1>1. Right(set, members) /\ members \in SUBSET CodePoints /\ {} \in Quads
  BY MaskIs DEF IInv
<1>2. /\ set' = Combined(union, set, IntervalSet(list), {})
      /\ members' = members \union Within(list) /\ sound' = sound
  BY DEF Unite
<1>3. Made(set', UNICODE_QUAD_COUNT, Cells(members'))
  BY <1>1, <1>2, OperandIs, UnionRight
<1>4. set' \in Objects /\ members' \in SUBSET CodePoints /\ sound' \in BOOLEAN
  BY <1>1, <1>2, <1>3, OperandIs DEF Made, Stands, IInv
<1>5. QED
  BY <1>3, <1>4, MadeAnew

LEMMA SubtractStep ==
  ASSUME IInv, sound, NEW list \in IntervalLists, Subtract(list)
  PROVE  IInv'
<1>1. Right(set, members) /\ members \in SUBSET CodePoints /\ {} \in Quads
  BY MaskIs DEF IInv
<1>2. /\ set' = Combined(difference, set, IntervalSet(list), {})
      /\ members' = members \ Within(list)
      /\ sound' = ~UnderFull({Mixed, Full}, set, IntervalSet(list))
  BY DEF Subtract
<1>3. sound' => Made(set', UNICODE_QUAD_COUNT, Cells(members'))
  BY <1>1, <1>2, OperandIs, DifferenceRight
<1>4. set' \in Objects
  BY <1>1, <1>2, OperandIs, DifferenceType
<1>5. members' \in SUBSET CodePoints /\ sound' \in BOOLEAN
  BY <1>1, <1>2
<1>6. QED
  BY <1>3, <1>4, <1>5, MadeAnew

LEMMA SubtractFromStep ==
  ASSUME IInv, sound, NEW list \in IntervalLists, SubtractFrom(list)
  PROVE  IInv'
<1>1. Right(set, members) /\ members \in SUBSET CodePoints /\ {} \in Quads
  BY MaskIs DEF IInv
<1>2. /\ set' = Combined(difference, IntervalSet(list), set, {})
      /\ members' = Within(list) \ members
      /\ sound' = ~UnderFull({Mixed, Full}, IntervalSet(list), set)
  BY DEF SubtractFrom
<1>3. sound' => Made(set', UNICODE_QUAD_COUNT, Cells(members'))
  BY <1>1, <1>2, OperandIs, DifferenceRight
<1>4. set' \in Objects
  BY <1>1, <1>2, OperandIs, DifferenceType
<1>5. members' \in SUBSET CodePoints /\ sound' \in BOOLEAN
  BY <1>2, OperandIs
<1>6. QED
  BY <1>3, <1>4, <1>5, MadeAnew

LEMMA ToggleStep ==
  ASSUME IInv, sound, NEW list \in IntervalLists, Toggle(list)
  PROVE  IInv'
<1>1. Right(set, members) /\ members \in SUBSET CodePoints
  BY DEF IInv
<1>2. PICK garbage \in Quads :
        set' = Combined(symmetric_difference, set, IntervalSet(list), garbage)
  BY DEF Toggle
<1>3. /\ members' = (members \ Within(list)) \union (Within(list) \ members)
      /\ sound' = ~UnderFull({Mixed}, set, IntervalSet(list))
  BY DEF Toggle
<1>4. sound' => Made(set', UNICODE_QUAD_COUNT, Cells(members'))
  BY <1>1, <1>2, <1>3, OperandIs, SymmetricDifferenceRight
<1>5. set' \in Objects
  BY <1>1, <1>2, OperandIs, SymmetricDifferenceType
<1>6. members' \in SUBSET CodePoints /\ sound' \in BOOLEAN
  BY <1>1, <1>3, OperandIs
<1>7. QED
  BY <1>4, <1>5, <1>6, MadeAnew

LEMMA ComplementStep ==
  ASSUME IInv, sound, Complement
  PROVE  IInv'
<1>1. Right(set, members)
  BY DEF IInv
<1>2. PICK garbage \in Quads : set' = Complemented(set, garbage)
  BY DEF Complement, Complemented
<1>3. members' = CodePoints \ members /\ sound' = (set.quads = << >>)
  BY DEF Complement
<1>4. sound' => Made(set', UNICODE_QUAD_COUNT, Cells(members'))
  BY <1>1, <1>2, <1>3, ComplementRight
<1>5. set' \in Objects
  BY <1>1, <1>2, ComplementType
<1>6. members' \in SUBSET CodePoints /\ sound' \in BOOLEAN
  BY <1>3
<1>7. QED
  BY <1>4, <1>5, <1>6, MadeAnew

LEMMA NextInvariant ==
  ASSUME IInv, [Next]_vars
  PROVE  IInv'
<1>1. CASE Next
  <2>1. sound
    BY <1>1 DEF Next
  <2>2. CASE \E cp \in CodePoints : Insert(cp)
    BY <2>1, <2>2, InsertStep
  <2>3. CASE \E lo, hi \in CodePoints : InsertRange(lo, hi)
    BY <2>1, <2>3, InsertRangeStep
  <2>4. ASSUME NEW list \in IntervalLists,
               \/ Intersect(list) \/ Unite(list) \/ Subtract(list) \/ SubtractFrom(list)
               \/ Toggle(list)
        PROVE  IInv'
    BY <2>1, <2>4, IntersectStep, UniteStep, SubtractStep, SubtractFromStep, ToggleStep
  <2>5. CASE Complement
    BY <2>1, <2>5, ComplementStep
  <2>6. QED
    BY <1>1, <2>2, <2>3, <2>4, <2>5 DEF Next
<1>2. CASE UNCHANGED vars
  BY <1>2 DEF IInv, vars
<1>3. QED
  BY <1>1, <1>2

LEMMA Invariant == Spec => []IInv
<1>1. Init => IInv
  BY InitInvariant
<1>2. IInv /\ [Next]_vars => IInv'
  BY NextInvariant
<1>3. QED
  BY <1>1, <1>2, PTL DEF Spec

\* The object is made of runs and quads whatever is done to it, and the history of
\* code points (unicode_set.h: the two vectors, mRuns and mQuads).
THEOREM TypeCorrect == Spec => []TypeOK
<1>1. IInv => TypeOK
  <2>1. SUFFICES ASSUME IInv PROVE TypeOK
    OBVIOUS
  <2>2. set.runs \in Seq(Runs) /\ set.quads \in Seq(Quads)
    BY <2>1 DEF IInv, Objects
  <2>3. ASSUME NEW k \in DOMAIN set.runs PROVE set.runs[k].type \in {Empty, Mixed, Full}
    <3>1. set.runs[k] \in Runs
      BY <2>2
    <3>2. QED
      BY <3>1 DEF Runs, RunTypes
  <2>4. QED
    BY <2>1, <2>2, <2>3 DEF IInv, TypeOK
<1>2. QED
  BY <1>1, Invariant, PTL

\* For every size of quad and of code point space and all lists of intervals, every
\* sequence of operations that keeps off the operands they break leaves an object that
\* passes verify.
THEOREM ObjectsStayVerified == Spec => []StaysVerified
<1>1. IInv => StaysVerified
  <2>1. SUFFICES ASSUME IInv, sound PROVE Verified
    BY DEF StaysVerified
  <2>2. Denotes(set.runs, set.quads, 0, UNICODE_QUAD_COUNT, Cells(members))
    BY <2>1 DEF IInv, Right, Stands
  <2>3. /\ set.runs \in Seq(Runs) /\ set.quads \in Seq(Quads)
        /\ \A k \in 1..Len(set.runs) : set.runs[k].length >= 1
        /\ MixedQuads(set.runs) = Len(set.quads)
        /\ \A q \in 1..Len(set.quads) : set.quads[q] \notin {{}, FULL_QUAD_MASK}
    BY <2>2 DEF Denotes, InStep
  <2>4. UNICODE_QUAD_COUNT = 0 + AllQuads(set.runs) /\ AllQuads(set.runs) \in Nat
    BY <2>2, 0 \in Int, DenotesBounds
  <2>5. DOMAIN set.runs = 1..Len(set.runs) /\ DOMAIN set.quads = 1..Len(set.quads)
    BY <2>3
  <2>6. \A k \in DOMAIN set.runs : set.runs[k].length > 0
    <3>1. \A k \in 1..Len(set.runs) : set.runs[k] \in Runs
      BY <2>3
    <3>2. QED
      BY <2>3, <2>5, <3>1 DEF Runs
  <2>7. AllQuads(set.runs) = UNICODE_QUAD_COUNT
    BY <2>4
  <2>8. QED
    BY <2>3, <2>5, <2>6, <2>7, Zenon DEF Verified, AllQuads, MixedQuads
<1>2. QED
  BY <1>1, Invariant, PTL

\* And that object stands for the set of code points that the same operations on sets
\* give: contains and empty answer for that set.
THEOREM ObjectsRepresentMembers == Spec => []RepresentsMembers
<1>1. IInv => RepresentsMembers
  <2>1. SUFFICES ASSUME IInv, sound
                 PROVE  /\ \A cp \in CodePoints : contains(set, cp) <=> cp \in members
                        /\ empty(set) <=> members = {}
    BY DEF RepresentsMembers
  <2>2. Right(set, members) /\ (members = {} => Compact(set)) /\ members \in SUBSET CodePoints
    BY <2>1 DEF IInv
  <2>3. QED
    BY <2>2, ContainsIs, EmptyIs
<1>2. QED
  BY <1>1, Invariant, PTL

-----------------------------------------------------------------------------
(* The iterator.                                                             *)

Intervalses == Seq(Int \X Int)
Iterators == [run : Int, quad : Int, mixed : Int, offset : Int, base : Int, min : Int,
              inside : BOOLEAN, visited : Intervalses]

LEMMA IteratorIs ==
  ASSUME NEW x \in Iterators
  PROVE  /\ x.run \in Int /\ x.quad \in Int /\ x.mixed \in Int /\ x.offset \in Int
         /\ x.base \in Int /\ x.min \in Int /\ x.inside \in BOOLEAN /\ x.visited \in Intervalses
BY DEF Iterators

\* One member of the iterator changed.
LEMMA IteratorWith ==
  ASSUME NEW x \in Iterators, NEW v \in Int
  PROVE  /\ [x EXCEPT !.run = v] \in Iterators /\ [x EXCEPT !.quad = v] \in Iterators
         /\ [x EXCEPT !.mixed = v] \in Iterators /\ [x EXCEPT !.offset = v] \in Iterators
         /\ [x EXCEPT !.base = v] \in Iterators /\ [x EXCEPT !.min = v] \in Iterators
BY DEF Iterators

LEMMA BeginIs == Begin \in Iterators
<1>1. << >> \in Intervalses
  BY DEF Intervalses
<1>2. QED
  BY <1>1 DEF Begin, Iterators

LEMMA NextQuadIs ==
  ASSUME NEW x \in Iterators
  PROVE  /\ NextQuad(x) \in Iterators
         /\ NextQuad(x).run = x.run /\ NextQuad(x).quad = x.quad + 1
         /\ NextQuad(x).mixed = x.mixed + 1 /\ NextQuad(x).offset = 0
         /\ NextQuad(x).base = x.base + QUAD_BITS
         /\ NextQuad(x).min = x.min /\ NextQuad(x).inside = x.inside
         /\ NextQuad(x).visited = x.visited
<1> DEFINE d == x.base + QUAD_BITS
           e == x.quad + 1
           f == x.mixed + 1
           u == [x EXCEPT !.base = d]
           v == [u EXCEPT !.quad = e]
           w == [v EXCEPT !.mixed = f]
           y == [w EXCEPT !.offset = 0]
<1>1. d \in Int /\ e \in Int /\ f \in Int
  BY SizesAssumption, IteratorIs
<1> HIDE DEF d, e, f
<1>2. y \in Iterators
  <2>1. u \in Iterators
    BY <1>1, IteratorWith
  <2> HIDE DEF u
  <2>2. v \in Iterators
    BY <1>1, <2>1, IteratorWith
  <2> HIDE DEF v
  <2>3. w \in Iterators
    BY <1>1, <2>2, IteratorWith
  <2> HIDE DEF w
  <2>4. QED
    BY <2>3, 0 \in Int, IteratorWith
<1>3. NextQuad(x) = y
  BY DEF NextQuad, d, e, f
<1>4. QED
  BY <1>1, <1>2, <1>3 DEF Iterators, d, e, f

LEMMA NextRunIs ==
  ASSUME NEW x \in Iterators
  PROVE  /\ NextRun(x) \in Iterators
         /\ NextRun(x).run = x.run + 1 /\ NextRun(x).quad = x.quad
         /\ NextRun(x).mixed = 0 /\ NextRun(x).offset = 0 /\ NextRun(x).base = x.base
         /\ NextRun(x).min = x.min /\ NextRun(x).inside = x.inside
         /\ NextRun(x).visited = x.visited
<1> DEFINE e == x.run + 1
           u == [x EXCEPT !.run = e]
           v == [u EXCEPT !.mixed = 0]
           y == [v EXCEPT !.offset = 0]
<1>1. e \in Int
  BY IteratorIs
<1> HIDE DEF e
<1>2. y \in Iterators
  <2>1. u \in Iterators
    BY <1>1, IteratorWith
  <2> HIDE DEF u
  <2>2. v \in Iterators
    BY <2>1, 0 \in Int, IteratorWith
  <2> HIDE DEF v
  <2>3. QED
    BY <2>2, 0 \in Int, IteratorWith
<1>3. NextRun(x) = y
  BY DEF NextRun, e
<1>4. QED
  BY <1>1, <1>2, <1>3 DEF Iterators, e

PastRun(x, length) == [x EXCEPT !.run = @ + 1, !.base = @ + length * QUAD_BITS]

LEMMA PastRunIs ==
  ASSUME NEW x \in Iterators, NEW length \in Int
  PROVE  /\ PastRun(x, length) \in Iterators
         /\ PastRun(x, length).run = x.run + 1 /\ PastRun(x, length).quad = x.quad
         /\ PastRun(x, length).mixed = x.mixed /\ PastRun(x, length).offset = x.offset
         /\ PastRun(x, length).base = x.base + length * QUAD_BITS
         /\ PastRun(x, length).min = x.min /\ PastRun(x, length).inside = x.inside
         /\ PastRun(x, length).visited = x.visited
<1> DEFINE d == length * QUAD_BITS
           e == x.run + 1
           f == x.base + d
           y == [[x EXCEPT !.run = e] EXCEPT !.base = f]
<1>1. d \in Int
  BY SizesAssumption
<1> HIDE DEF d
<1>2. e \in Int /\ f \in Int
  BY <1>1, IteratorIs
<1> HIDE DEF e, f
<1>3. y \in Iterators
  BY <1>2, IteratorWith
<1>4. PastRun(x, length) = y
  BY DEF PastRun, d, e, f
<1>5. QED
  BY <1>2, <1>3, <1>4 DEF Iterators, d, e, f

OffsetTo(x, offset) == [x EXCEPT !.offset = offset]

LEMMA OffsetToIs ==
  ASSUME NEW x \in Iterators, NEW offset \in Int
  PROVE  /\ OffsetTo(x, offset) \in Iterators
         /\ OffsetTo(x, offset).run = x.run /\ OffsetTo(x, offset).quad = x.quad
         /\ OffsetTo(x, offset).mixed = x.mixed /\ OffsetTo(x, offset).offset = offset
         /\ OffsetTo(x, offset).base = x.base
         /\ OffsetTo(x, offset).min = x.min /\ OffsetTo(x, offset).inside = x.inside
         /\ OffsetTo(x, offset).visited = x.visited
BY DEF OffsetTo, Iterators

LEMMA FoundIs ==
  ASSUME NEW x \in Iterators, NEW cp \in Int
  PROVE  /\ Found(x, cp) \in Iterators
         /\ Found(x, cp).run = x.run /\ Found(x, cp).quad = x.quad
         /\ Found(x, cp).mixed = x.mixed /\ Found(x, cp).offset = x.offset
         /\ Found(x, cp).base = x.base /\ Found(x, cp).inside = ~x.inside
         /\ x.inside => Found(x, cp).visited = Append(x.visited, <<x.min, cp - 1>>)
         /\ ~x.inside => Found(x, cp).visited = x.visited /\ Found(x, cp).min = cp
<1>1. x.inside \in BOOLEAN /\ x.visited \in Intervalses /\ x.min \in Int
  BY DEF Iterators
<1>2. CASE x.inside
  <2> DEFINE list == Append(x.visited, <<x.min, cp - 1>>)
  <2>1. list \in Intervalses
    <3>1. <<x.min, cp - 1>> \in Int \X Int
      BY <1>1
    <3>2. QED
      BY <1>1, <3>1 DEF Intervalses
  <2>2. Found(x, cp) = [x EXCEPT !.inside = FALSE, !.visited = list]
    <3>1. x = [x EXCEPT !.visited = @]
      BY DEF Iterators
    <3>2. QED
      BY <1>2 DEF Found
  <2> HIDE DEF list
  <2>3. Found(x, cp) \in Iterators
    BY <2>1, <2>2 DEF Iterators
  <2>4. QED
    BY <1>2, <2>1, <2>2, <2>3 DEF Iterators, list
<1>3. CASE ~x.inside
  <2>1. Found(x, cp) = [x EXCEPT !.inside = TRUE, !.min = cp]
    BY <1>3 DEF Found
  <2>2. Found(x, cp) \in Iterators
    BY <2>1 DEF Iterators
  <2>3. QED
    BY <1>3, <2>1, <2>2 DEF Iterators
<1>4. QED
  BY <1>2, <1>3

\* What the loop that the iterator is in looks for.
Sought(points, inside, c) == IF inside THEN c \notin points ELSE c \in points

InInterval(list, c) == \E k \in 1..Len(list) : list[k][1] <= c /\ c <= list[k][2]

\* The list is what there is to visit below p, and its last interval has ended.
Covers(points, p, list) ==
  /\ list \in Intervalses
  /\ \A k \in 1..Len(list) : list[k][1] <= list[k][2]
  /\ \A k \in 2..Len(list) : list[k - 1][2] + 1 < list[k][1]
  /\ \A c \in Int : InInterval(list, c) <=> c \in points /\ c < p
  /\ Len(list) > 0 => list[Len(list)][2] + 1 \notin points /\ list[Len(list)][2] + 1 <= p

\* The iterator has come to p; inside an interval all since its begin is in the set.
Visiting(points, p, x) ==
  IF x.inside
  THEN /\ Covers(points, x.min, x.visited)
       /\ x.min \in points /\ x.min <= p
       /\ \A c \in x.min..p - 1 : c \in points
  ELSE Covers(points, p, x.visited)

LEMMA CoversNothing ==
  ASSUME NEW points \in SUBSET CodePoints
  PROVE  Covers(points, 0, << >>)
<1>1. << >> \in Intervalses /\ Len(<< >>) = 0
  BY DEF Intervalses
<1>2. \A c \in points : c >= 0 /\ c \in Int
  BY DEF CodePoints
<1>3. QED
  BY <1>1, <1>2 DEF Covers, InInterval

LEMMA CoversMore ==
  ASSUME NEW points \in SUBSET CodePoints, NEW p \in Int, NEW q \in Int, NEW list,
         Covers(points, p, list), p <= q, \A c \in p..q - 1 : c \notin points
  PROVE  Covers(points, q, list)
<1>1. /\ list \in Intervalses
      /\ \A k \in 1..Len(list) : list[k][1] <= list[k][2]
      /\ \A k \in 2..Len(list) : list[k - 1][2] + 1 < list[k][1]
      /\ \A c \in Int : InInterval(list, c) <=> c \in points /\ c < p
      /\ Len(list) > 0 => list[Len(list)][2] + 1 \notin points /\ list[Len(list)][2] + 1 <= p
  BY DEF Covers
<1>2. ASSUME NEW c \in Int PROVE c \in points /\ c < p <=> c \in points /\ c < q
  OBVIOUS
<1>3. Len(list) > 0 => list[Len(list)][2] \in Int
  <2>1. SUFFICES ASSUME Len(list) > 0 PROVE list[Len(list)][2] \in Int
    OBVIOUS
  <2>2. list \in Seq(Int \X Int)
    BY <1>1 DEF Intervalses
  <2>3. Len(list) \in 1..Len(list)
    BY <2>1, <2>2
  <2>4. list[Len(list)] \in Int \X Int
    BY <2>2, <2>3
  <2>5. QED
    BY <2>4
<1>4. Len(list) > 0 => list[Len(list)][2] + 1 <= q
  BY <1>1, <1>3
<1>5. \A c \in Int : InInterval(list, c) <=> c \in points /\ c < q
  BY <1>1, <1>2
<1>6. QED
  BY <1>1, <1>4, <1>5 DEF Covers

LEMMA CoversClosed ==
  ASSUME NEW points \in SUBSET CodePoints, NEW a \in Int, NEW cp \in Int, NEW list,
         Covers(points, a, list), a \in points, a <= cp, cp \notin points,
         \A c \in a..cp - 1 : c \in points
  PROVE  Covers(points, cp, Append(list, <<a, cp - 1>>))
<1> DEFINE n == Len(list)
           e == <<a, cp - 1>>
           new == Append(list, e)
<1>1. /\ list \in Intervalses
      /\ \A k \in 1..n : list[k][1] <= list[k][2]
      /\ \A k \in 2..n : list[k - 1][2] + 1 < list[k][1]
      /\ \A c \in Int : InInterval(list, c) <=> c \in points /\ c < a
      /\ n > 0 => list[n][2] + 1 \notin points /\ list[n][2] + 1 <= a
  BY DEF Covers
<1>2. e \in Int \X Int /\ e[1] = a /\ e[2] = cp - 1 /\ list \in Seq(Int \X Int)
  BY <1>1 DEF Intervalses
<1>3. a < cp
  BY a # cp
<1> HIDE DEF e
<1>4. /\ new \in Seq(Int \X Int) /\ Len(new) = n + 1 /\ n \in Nat /\ new[n + 1] = e
      /\ \A k \in 1..n : new[k] = list[k]
  BY <1>2
<1>5. \A k \in 1..n : list[k] \in Int \X Int
  BY <1>2
<1>6. \A k \in 1..n : list[k][1] \in Int /\ list[k][2] \in Int
  BY <1>5
<1> HIDE DEF new, n
<1>7. ASSUME NEW k \in 1..n + 1 PROVE new[k][1] <= new[k][2]
  <2>1. CASE k = n + 1
    BY <1>2, <1>3, <1>4, <2>1
  <2>2. CASE k # n + 1
    <3>1. k \in 1..n
      BY <1>4, <2>2
    <3>2. QED
      BY <1>1, <1>4, <3>1
  <2>3. QED
    BY <2>1, <2>2
<1>8. ASSUME NEW k \in 2..n + 1 PROVE new[k - 1][2] + 1 < new[k][1]
  <2>1. k - 1 \in 1..n /\ new[k - 1] = list[k - 1]
    BY <1>4
  <2>2. CASE k = n + 1
    <3>1. k - 1 = n /\ n > 0 /\ n \in 1..n
      BY <1>4, <2>1, <2>2
    <3>2. list[n][2] + 1 \notin points /\ list[n][2] + 1 <= a /\ list[n][2] \in Int
      BY <1>1, <1>6, <3>1
    <3>3. list[n][2] + 1 # a
      BY <3>2
    <3>4. list[n][2] + 1 < a
      BY <3>2, <3>3
    <3>5. QED
      BY <1>2, <1>4, <2>1, <2>2, <3>1, <3>4
  <2>3. CASE k # n + 1
    <3>1. k \in 2..n /\ k \in 1..n
      BY <1>4, <2>3
    <3>2. QED
      BY <1>1, <1>4, <2>1, <3>1
  <2>4. QED
    BY <2>2, <2>3
<1>9. ASSUME NEW c \in Int PROVE InInterval(new, c) <=> c \in points /\ c < cp
  <2>1. InInterval(new, c) <=> InInterval(list, c) \/ (a <= c /\ c <= cp - 1)
    <3>1. ASSUME NEW k \in 1..n + 1, new[k][1] <= c /\ c <= new[k][2], k # n + 1
          PROVE  InInterval(list, c)
      <4>1. k \in 1..n
        BY <1>4, <3>1
      <4>2. list[k][1] <= c /\ c <= list[k][2]
        BY <1>4, <3>1, <4>1
      <4>3. QED
        BY <4>1, <4>2 DEF InInterval, n
    <3>2. InInterval(new, c) => InInterval(list, c) \/ (a <= c /\ c <= cp - 1)
      <4>1. SUFFICES ASSUME InInterval(new, c), ~InInterval(list, c)
                     PROVE  a <= c /\ c <= cp - 1
        OBVIOUS
      <4>2. PICK k \in 1..n + 1 : new[k][1] <= c /\ c <= new[k][2]
        BY <1>4, <4>1 DEF InInterval
      <4>3. k = n + 1
        BY <3>1, <4>1, <4>2
      <4>4. QED
        BY <1>2, <1>4, <4>2, <4>3
    <3>3. InInterval(list, c) => InInterval(new, c)
      <4>1. SUFFICES ASSUME InInterval(list, c) PROVE InInterval(new, c)
        OBVIOUS
      <4>2. PICK k \in 1..n : list[k][1] <= c /\ c <= list[k][2]
        BY <4>1 DEF InInterval, n
      <4>3. k \in 1..n + 1 /\ new[k] = list[k]
        BY <1>4
      <4>4. QED
        BY <1>4, <4>2, <4>3 DEF InInterval
    <3>4. a <= c /\ c <= cp - 1 => InInterval(new, c)
      <4>1. n + 1 \in 1..n + 1
        BY <1>4
      <4>2. QED
        BY <1>2, <1>4, <4>1 DEF InInterval
    <3>5. QED
      BY <3>2, <3>3, <3>4
  <2>2. InInterval(list, c) <=> c \in points /\ c < a
    BY <1>1
  <2>3. a <= c /\ c <= cp - 1 => c \in points /\ c < cp
    OBVIOUS
  <2>4. c \in points /\ c < cp => c < a \/ (a <= c /\ c <= cp - 1)
    OBVIOUS
  <2>5. c < a => c < cp
    BY <1>3
  <2>6. QED
    BY <2>1, <2>2, <2>3, <2>4, <2>5
<1>10. new[n + 1][2] + 1 \notin points /\ new[n + 1][2] + 1 <= cp
  <2>1. new[n + 1][2] + 1 = cp
    BY <1>2, <1>4
  <2>2. QED
    BY <2>1
<1>11. Covers(points, cp, new)
  BY <1>4, <1>7, <1>8, <1>9, <1>10 DEF Covers, Intervalses
<1>12. QED
  BY <1>11 DEF new, e

\* Nothing is looked for between p and q.
LEMMA SkipTo ==
  ASSUME NEW points \in SUBSET CodePoints, NEW p \in Int, NEW q \in Int,
         NEW x \in Iterators, NEW y \in Iterators,
         y.inside = x.inside, y.min = x.min, y.visited = x.visited,
         Visiting(points, p, x), p <= q, \A c \in p..q - 1 : ~Sought(points, x.inside, c)
  PROVE  Visiting(points, q, y)
<1>1. x.inside \in BOOLEAN /\ x.min \in Int
  BY IteratorIs
<1>2. CASE x.inside
  <2>1. /\ Covers(points, x.min, x.visited) /\ x.min \in points /\ x.min <= p
        /\ \A c \in x.min..p - 1 : c \in points
    BY <1>2 DEF Visiting
  <2>2. \A c \in p..q - 1 : c \in points
    BY <1>2 DEF Sought
  <2>3. \A c \in x.min..q - 1 : c \in points
    BY <1>1, <2>1, <2>2
  <2>4. x.min <= q
    BY <1>1, <2>1
  <2>5. QED
    BY <1>2, <2>1, <2>3, <2>4 DEF Visiting
<1>3. CASE ~x.inside
  <2>1. Covers(points, p, x.visited)
    BY <1>3 DEF Visiting
  <2>2. \A c \in p..q - 1 : c \notin points
    BY <1>3 DEF Sought
  <2>3. Covers(points, q, x.visited)
    BY <2>1, <2>2, CoversMore
  <2>4. QED
    BY <1>3, <2>3 DEF Visiting
<1>4. QED
  BY <1>2, <1>3

\* What is looked for is found at cp, and found up to q.
LEMMA TurnAt ==
  ASSUME NEW points \in SUBSET CodePoints, NEW p \in Int, NEW cp \in Int, NEW q \in Int,
         NEW x \in Iterators, NEW y \in Iterators,
         y.inside = x.inside, y.min = x.min, y.visited = x.visited,
         Visiting(points, p, x), p <= cp, cp <= q,
         \A c \in p..cp - 1 : ~Sought(points, x.inside, c), Sought(points, x.inside, cp),
         \A c \in cp..q - 1 : Sought(points, x.inside, c)
  PROVE  Visiting(points, q, Found(y, cp))
<1> DEFINE z == Found(y, cp)
<1>1. Visiting(points, cp, x)
  BY SkipTo
<1>2. z \in Iterators /\ z.inside = ~x.inside
      /\ (x.inside => z.visited = Append(x.visited, <<x.min, cp - 1>>))
      /\ (~x.inside => z.visited = x.visited /\ z.min = cp)
  <2>1. /\ z \in Iterators /\ z.inside = ~y.inside
        /\ y.inside => z.visited = Append(y.visited, <<y.min, cp - 1>>)
        /\ ~y.inside => z.visited = y.visited /\ z.min = cp
    <3>1. y \in Iterators /\ cp \in Int
      OBVIOUS
    <3>2. QED
      BY ONLY <3>1, FoundIs
  <2> HIDE DEF z
  <2>2. QED
    BY <2>1
<1>3. x.inside \in BOOLEAN /\ x.min \in Int
  BY IteratorIs
<1> HIDE DEF z
<1>4. CASE x.inside
  <2>1. /\ Covers(points, x.min, x.visited) /\ x.min \in points /\ x.min <= cp
        /\ \A c \in x.min..cp - 1 : c \in points
    BY <1>1, <1>4 DEF Visiting
  <2>2. cp \notin points /\ \A c \in cp..q - 1 : c \notin points
    BY <1>4 DEF Sought
  <2>3. Covers(points, cp, z.visited)
    BY <1>2, <1>3, <1>4, <2>1, <2>2, CoversClosed
  <2>4. Covers(points, q, z.visited)
    BY <2>2, <2>3, CoversMore
  <2>5. QED
    BY <1>2, <1>4, <2>4 DEF Visiting, z
<1>5. CASE ~x.inside
  <2>1. Covers(points, cp, x.visited)
    BY <1>1, <1>5 DEF Visiting
  <2>2. cp \in points /\ \A c \in cp..q - 1 : c \in points
    BY <1>5 DEF Sought
  <2>3. QED
    BY <1>2, <1>5, <2>1, <2>2 DEF Visiting, z
<1>6. QED
  BY <1>4, <1>5

\* What an object that stands for the points has in its runs.
LEMMA RunsAre ==
  ASSUME NEW s, NEW points, Right(s, points)
  PROVE  /\ s.runs \in Seq(Runs) /\ s.quads \in Seq(Quads) /\ Len(s.runs) \in Nat
         /\ QuadsBefore(s.runs, 1) = 0 /\ MixedBefore(s.runs, 1) = 0
         /\ QuadsBefore(s.runs, Len(s.runs) + 1) = UNICODE_QUAD_COUNT
         /\ \A k \in 1..Len(s.runs) + 1 :
              /\ QuadsBefore(s.runs, k) \in 0..UNICODE_QUAD_COUNT /\ MixedBefore(s.runs, k) \in Nat
              /\ k <= QuadsBefore(s.runs, k) + 1
         /\ \A k \in 1..Len(s.runs) :
              /\ s.runs[k].type \in RunTypes /\ s.runs[k].length \in Nat \ {0}
              /\ QuadsBefore(s.runs, k + 1) = QuadsBefore(s.runs, k) + s.runs[k].length
              /\ MixedBefore(s.runs, k + 1) = MixedBefore(s.runs, k) + MixedLength(s.runs[k])
              /\ \A j \in 0..s.runs[k].length - 1 :
                   Cells(points)[QuadsBefore(s.runs, k) + j] = QuadOf(s.runs, s.quads, k, j)
<1> DEFINE runs == s.runs
           quads == s.quads
           n == Len(runs)
<1>1. /\ InStep(runs, quads) /\ UNICODE_QUAD_COUNT = 0 + AllQuads(runs)
      /\ \A k \in 1..n : \A j \in 0..runs[k].length - 1 :
           Cells(points)[0 + QuadsBefore(runs, k) + j] = QuadOf(runs, quads, k, j)
  BY DEF Right, Stands, Denotes
<1> HIDE DEF runs, quads
<1>2. runs \in Seq(Runs) /\ quads \in Seq(Quads) /\ \A k \in 1..n : runs[k].length >= 1
  BY <1>1 DEF InStep
<1>3. n \in Nat /\ \A k \in 1..n : runs[k] \in Runs
  BY <1>2
<1> HIDE DEF n
<1>4. \A k \in 1..n : runs[k].type \in RunTypes /\ runs[k].length \in Nat \ {0}
  BY <1>2, <1>3 DEF Runs
<1>5. /\ QuadsBefore(runs, 1) = 0
      /\ \A k \in 1..n : QuadsBefore(runs, k + 1) = QuadsBefore(runs, k) + runs[k].length
  BY <1>2, QuadsBeforeIs DEF n
<1>6. /\ MixedBefore(runs, 1) = 0
      /\ \A k \in 1..n : MixedBefore(runs, k + 1) = MixedBefore(runs, k) + MixedLength(runs[k])
  BY <1>2, MixedBeforeIs DEF n
<1>7. /\ \A k \in 1..n + 1 : QuadsBefore(runs, k) \in Nat /\ MixedBefore(runs, k) \in Nat
      /\ \A k, l \in 1..n + 1 : k <= l => QuadsBefore(runs, k) <= QuadsBefore(runs, l)
  BY <1>2, RunsInOrder DEF n
<1>8. QuadsBefore(runs, n + 1) = UNICODE_QUAD_COUNT /\ n + 1 \in 1..n + 1
  BY <1>1, <1>3, <1>7 DEF AllQuads, n
<1>9. \A k \in 1..n + 1 : QuadsBefore(runs, k) \in 0..UNICODE_QUAD_COUNT
  BY <1>3, <1>7, <1>8
<1>10. \A k \in 1..n + 1 : k <= QuadsBefore(runs, k) + 1
  <2> DEFINE h == [k \in 1..n + 1 |-> QuadsBefore(runs, k) - k]
  <2>1. \A k \in 1..n + 1 : h[k] = QuadsBefore(runs, k) - k
    OBVIOUS
  <2> HIDE DEF h
  <2>2. \A k \in 1..n + 1 : h[k] \in Int
    BY <1>3, <1>7, <2>1
  <2>3. ASSUME NEW k \in 1..n PROVE h[k] <= h[k + 1]
    <3>1. k \in 1..n + 1 /\ k + 1 \in 1..n + 1
      BY <1>3
    <3>2. QuadsBefore(runs, k + 1) = QuadsBefore(runs, k) + runs[k].length
          /\ runs[k].length \in Nat \ {0} /\ QuadsBefore(runs, k) \in Nat
      BY <1>4, <1>5, <1>7, <3>1
    <3>3. QED
      BY <2>1, <3>1, <3>2
  <2>4. \A i, j \in 1..n + 1 : i <= j => h[i] <= h[j]
    BY <1>3, <2>2, <2>3, NeverDecreasing
  <2>5. ASSUME NEW k \in 1..n + 1 PROVE k <= QuadsBefore(runs, k) + 1
    <3>1. 1 \in 1..n + 1 /\ 1 <= k /\ k \in Int
      BY <1>3
    <3>2. h[1] <= h[k] /\ h[1] = 0 - 1 /\ h[k] = QuadsBefore(runs, k) - k
      BY <1>5, <2>1, <2>4, <3>1
    <3>3. QuadsBefore(runs, k) \in Nat
      BY <1>7
    <3>4. QED
      BY <3>1, <3>2, <3>3
  <2>6. QED
    BY <2>5
<1>11. \A k \in 1..n : \A j \in 0..runs[k].length - 1 :
         Cells(points)[QuadsBefore(runs, k) + j] = QuadOf(runs, quads, k, j)
  <2>1. ASSUME NEW k \in 1..n, NEW j \in 0..runs[k].length - 1
        PROVE  0 + QuadsBefore(runs, k) + j = QuadsBefore(runs, k) + j
    <3>1. k \in 1..n + 1
      BY <1>3
    <3>2. QuadsBefore(runs, k) \in Nat
      BY <1>7, <3>1
    <3>3. QED
      BY <3>2
  <2>2. QED
    BY <1>1, <2>1
<1>12. QED
  BY <1>2, <1>3, <1>4, <1>5, <1>6, <1>8, <1>7, <1>9, <1>10, <1>11 DEF n, runs, quads

\* The code points between the first of two quads.
LEMMA QuadsBetween ==
  ASSUME NEW i \in 0..UNICODE_QUAD_COUNT, NEW j \in 0..UNICODE_QUAD_COUNT,
         NEW c \in Int, QUAD_BITS * i <= c, c < QUAD_BITS * j
  PROVE  c \in CodePoints /\ i <= Index(c) /\ Index(c) < j
<1>1. QUAD_BITS \in Nat \ {0} /\ UNICODE_QUAD_COUNT \in Nat /\ i \in Int /\ j \in Int
  BY SizesAssumption
<1>2. QUAD_BITS * i \in Nat
  BY <1>1
<1>3. QUAD_BITS * j <= QUAD_BITS * UNICODE_QUAD_COUNT
  <2>1. CASE j = UNICODE_QUAD_COUNT
    BY <1>1, <2>1
  <2>2. CASE j # UNICODE_QUAD_COUNT
    <3>1. j < UNICODE_QUAD_COUNT
      BY <1>1, <2>2
    <3> DEFINE u == QUAD_BITS * j
               v == QUAD_BITS * UNICODE_QUAD_COUNT
    <3>2. u \in Int /\ v \in Int /\ u + QUAD_BITS <= v
      BY <1>1, <3>1, ProductsInOrder
    <3> HIDE DEF u, v
    <3>3. u <= v
      BY <1>1, <3>2
    <3>4. QED
      BY <3>3 DEF u, v
  <2>3. QED
    BY <2>1, <2>2
<1>4. c \in CodePoints
  <2> DEFINE u == QUAD_BITS * i
             v == QUAD_BITS * j
             w == QUAD_BITS * UNICODE_QUAD_COUNT
  <2>1. u \in Nat /\ v \in Int /\ w \in Int /\ v <= w /\ u <= c /\ c < v
    BY <1>1, <1>2, <1>3
  <2> HIDE DEF u, v, w
  <2>2. c \in 0..w - 1
    BY <2>1
  <2>3. QED
    BY <2>2 DEF CodePoints, UNICODE_MAX, w
<1>5. Index(c) \in Indices /\ Offset(c) \in FULL_QUAD_MASK /\ c = Point(Index(c), Offset(c))
  BY <1>4, PlaceIs
<1> DEFINE l == Index(c)
           o == Offset(c)
<1>6. l \in Int /\ 0 \in FULL_QUAD_MASK /\ o \in 0..QUAD_BITS - 1
  BY <1>1, <1>5 DEF Indices, FULL_QUAD_MASK
<1>7. c = QUAD_BITS * l + o
  BY <1>5 DEF Point
<1> HIDE DEF l, o
<1> DEFINE u == QUAD_BITS * i
           v == QUAD_BITS * j
           w == QUAD_BITS * l
<1>8. u \in Int /\ v \in Int /\ w \in Int
  BY <1>1, <1>6
<1>9. l < i => w + QUAD_BITS <= u
  BY <1>1, <1>6, ProductsInOrder
<1>10. j < l => v + QUAD_BITS <= w
  BY <1>1, <1>6, ProductsInOrder
<1>11. j = l => v = w
  OBVIOUS
<1>12. u <= c /\ c < v /\ c = w + o
  BY <1>7
<1> HIDE DEF u, v, w
<1>13. ~(l < i) /\ ~(j < l) /\ j # l
  BY <1>1, <1>6, <1>8, <1>9, <1>10, <1>11, <1>12
<1>14. i <= l /\ l < j
  BY <1>1, <1>6, <1>13
<1>15. QED
  BY <1>4, <1>14 DEF l

\* An Empty run has no code point, a Full one all.
LEMMA PointsOfRun ==
  ASSUME NEW s, NEW points, Right(s, points), NEW k \in 1..Len(s.runs), s.runs[k].type # Mixed,
         NEW c \in Int, QUAD_BITS * QuadsBefore(s.runs, k) <= c,
         c < QUAD_BITS * QuadsBefore(s.runs, k + 1)
  PROVE  c \in points <=> s.runs[k].type = Full
<1> DEFINE i == QuadsBefore(s.runs, k)
           j == QuadsBefore(s.runs, k + 1)
           l == s.runs[k].length
           m == Index(c) - i
<1>1. Len(s.runs) \in Nat /\ l \in Nat \ {0} /\ j = i + l /\ s.runs[k].type \in RunTypes
      /\ (\A o \in 0..l - 1 : Cells(points)[i + o] = QuadOf(s.runs, s.quads, k, o))
  BY RunsAre
<1>2. k \in 1..Len(s.runs) + 1 /\ k + 1 \in 1..Len(s.runs) + 1
  BY <1>1
<1>3. i \in 0..UNICODE_QUAD_COUNT /\ j \in 0..UNICODE_QUAD_COUNT
  BY <1>2, RunsAre
<1>4. QUAD_BITS * i <= c /\ c < QUAD_BITS * j
  OBVIOUS
<1> HIDE DEF i, j, l
<1>5. c \in CodePoints /\ i <= Index(c) /\ Index(c) < j
  BY <1>3, <1>4, QuadsBetween
<1>6. Index(c) \in Indices /\ Offset(c) \in FULL_QUAD_MASK /\ c = Point(Index(c), Offset(c))
      /\ Index(c) \in Nat
  BY <1>5, PlaceIs
<1>7. m \in 0..l - 1 /\ i + m = Index(c)
  BY <1>1, <1>3, <1>5, <1>6
<1> HIDE DEF m
<1>8. Cells(points)[Index(c)] = QuadOf(s.runs, s.quads, k, m)
  BY <1>1, <1>7
<1>9. Cells(points)[Index(c)] = {o \in FULL_QUAD_MASK : Point(Index(c), o) \in points}
  BY <1>6, CellsAre
<1>10. c \in points <=> Offset(c) \in Cells(points)[Index(c)]
  BY <1>6, <1>9
<1>11. QED
  BY <1>6, <1>8, <1>10 DEF QuadOf

\* What the members of a Mixed run's quad are.
LEMMA PointsOfQuad ==
  ASSUME NEW s, NEW points, Right(s, points), NEW k \in 1..Len(s.runs), s.runs[k].type = Mixed,
         NEW j \in 0..s.runs[k].length - 1,
         NEW i, i = QuadsBefore(s.runs, k) + j,
         NEW q, q = MixedBefore(s.runs, k) + j + 1
  PROVE  /\ i \in Indices
         /\ s.quads[q] = {o \in FULL_QUAD_MASK : QUAD_BITS * i + o \in points}
<1> DEFINE l == s.runs[k].length
           a == QuadsBefore(s.runs, k)
           b == QuadsBefore(s.runs, k + 1)
<1>1. Len(s.runs) \in Nat /\ l \in Nat \ {0} /\ b = a + l
      /\ (\A o \in 0..l - 1 : Cells(points)[a + o] = QuadOf(s.runs, s.quads, k, o))
  BY RunsAre
<1>2. k \in 1..Len(s.runs) + 1 /\ k + 1 \in 1..Len(s.runs) + 1
  BY <1>1
<1>3. a \in 0..UNICODE_QUAD_COUNT /\ b \in 0..UNICODE_QUAD_COUNT
  BY <1>2, RunsAre
<1>4. i = a + j /\ j \in 0..l - 1
  OBVIOUS
<1>5. Cells(points)[i] = QuadOf(s.runs, s.quads, k, j)
  BY <1>1, <1>4
<1> HIDE DEF a, b, l
<1>6. i \in Indices
  BY <1>1, <1>3, <1>4, SizesAssumption DEF Indices
<1>7. Cells(points)[i] = {o \in FULL_QUAD_MASK : Point(i, o) \in points}
  BY <1>6, CellsAre
<1>8. QuadOf(s.runs, s.quads, k, j) = s.quads[q]
  BY DEF QuadOf
<1>9. QED
  BY <1>5, <1>6, <1>7, <1>8 DEF Point

\* scan_forward_zeroes.
LEMMA LeastIs ==
  ASSUME NEW quad \in SUBSET FULL_QUAD_MASK, NEW offset \in FULL_QUAD_MASK,
         NEW least, least = LeastNotBelow(quad, offset)
  PROVE  /\ least \in 0..QUAD_BITS /\ offset <= least
         /\ least # QUAD_BITS => least \in quad
         /\ \A o \in offset..least - 1 : o \notin quad
<1> DEFINE S == {o \in quad : o >= offset} \union {QUAD_BITS}
<1>1. QUAD_BITS \in Nat \ {0} /\ FULL_QUAD_MASK = 0..QUAD_BITS - 1
  BY SizesAssumption DEF FULL_QUAD_MASK
<1>2. S \subseteq Nat /\ S # {}
  <2>1. \A o \in quad : o \in Nat
    BY <1>1
  <2>2. QED
    BY <1>1, <2>1
<1>3. least = CHOOSE o \in S : \A p \in S : o <= p
  BY DEF LeastNotBelow, Min
<1>4. least \in S /\ \A p \in S : least <= p
  <2> HIDE DEF S
  <2>1. \E o \in S : \A p \in S : o <= p
    BY <1>2, LeastNatural
  <2>2. QED
    BY <1>3, <2>1
<1>5. least \in 0..QUAD_BITS /\ offset <= least
  BY <1>1, <1>4
<1>6. ASSUME NEW o \in offset..least - 1, o \in quad PROVE FALSE
  <2>1. o \in S
    BY <1>1, <1>6
  <2>2. least <= o
    BY <1>4, <2>1
  <2>3. QED
    BY <1>1, <1>5, <1>6, <2>2
<1>7. QED
  BY <1>4, <1>5, <1>6

\* Where the iterator is: at quad number i of the code point space.
InMixed(s, x) == x.run \in 1..Len(s.runs) /\ s.runs[x.run].type = Mixed
At(s, x, i) ==
  /\ x \in Iterators /\ i \in 0..UNICODE_QUAD_COUNT /\ x.base = QUAD_BITS * i
  /\ x.run \in 1..Len(s.runs) + 1 /\ x.mixed \in Nat /\ x.offset \in FULL_QUAD_MASK
  /\ i = QuadsBefore(s.runs, x.run) + x.mixed
  /\ x.quad = MixedBefore(s.runs, x.run) + x.mixed + 1
  /\ x.mixed # 0 => InMixed(s, x) /\ x.mixed <= s.runs[x.run].length
  /\ x.offset # 0 => InMixed(s, x) /\ x.mixed < s.runs[x.run].length

Position(x) == x.base + x.offset
Over(x) == x.base > UNICODE_MAX /\ ~x.inside

\* What grows with every round: the place, the run, and at one place the loop, which
\* turns where it finds what it looks for.
Pace(points, x) ==
  2 * Position(x) + x.run + (IF Sought(points, x.inside, Position(x)) THEN 0 ELSE 1)

Progress(s, points, x, y) ==
  /\ \E j : At(s, y, j)
  /\ Visiting(points, Position(y), y)
  /\ Over(y) \/ Pace(points, x) + 1 <= Pace(points, y)

LEMMA PaceIs ==
  ASSUME NEW points, NEW x \in Iterators
  PROVE  /\ Position(x) \in Int /\ Pace(points, x) \in Int
         /\ 2 * Position(x) + x.run <= Pace(points, x)
         /\ Pace(points, x) <= 2 * Position(x) + x.run + 1
         /\ Sought(points, x.inside, Position(x)) => Pace(points, x) = 2 * Position(x) + x.run
         /\ ~Sought(points, x.inside, Position(x)) => Pace(points, x) = 2 * Position(x) + x.run + 1
<1>1. x.base \in Int /\ x.offset \in Int /\ x.run \in Int
  BY IteratorIs
<1>2. Position(x) \in Int
  BY <1>1 DEF Position
<1>3. QED
  BY <1>1, <1>2 DEF Pace

LEMMA BaseIs ==
  ASSUME NEW i \in 0..UNICODE_QUAD_COUNT
  PROVE  /\ QUAD_BITS * i \in Nat /\ UNICODE_MAX \in Int
         /\ QUAD_BITS * i > UNICODE_MAX <=> i = UNICODE_QUAD_COUNT
         /\ QUAD_BITS * i > UNICODE_MAX <=> ~(QUAD_BITS * i <= UNICODE_MAX)
         /\ i = UNICODE_QUAD_COUNT => QUAD_BITS * i = UNICODE_MAX + 1
         /\ QUAD_BITS * i <= UNICODE_MAX + 1
<1> DEFINE u == QUAD_BITS * i
           v == QUAD_BITS * UNICODE_QUAD_COUNT
<1>1. QUAD_BITS \in Nat \ {0} /\ UNICODE_QUAD_COUNT \in Nat /\ i \in Nat
  BY SizesAssumption
<1>2. u \in Nat /\ v \in Int /\ UNICODE_MAX = v - 1
  BY <1>1 DEF UNICODE_MAX
<1>3. i = UNICODE_QUAD_COUNT => u = v
  OBVIOUS
<1>4. i # UNICODE_QUAD_COUNT => u + QUAD_BITS <= v
  <2>1. i # UNICODE_QUAD_COUNT => i < UNICODE_QUAD_COUNT
    BY <1>1
  <2>2. QED
    BY <1>1, <2>1, ProductsInOrder
<1> HIDE DEF u, v
<1>5. u \in Nat /\ UNICODE_MAX \in Int /\ (u > UNICODE_MAX <=> i = UNICODE_QUAD_COUNT)
      /\ (i = UNICODE_QUAD_COUNT => u = UNICODE_MAX + 1) /\ u <= UNICODE_MAX + 1
      /\ (u > UNICODE_MAX <=> ~(u <= UNICODE_MAX))
  BY <1>1, <1>2, <1>3, <1>4
<1>6. QED
  BY <1>5 DEF u

\* What a round reads.
RoundReads(s, x, run, sought, offset) ==
  /\ x.base \in Int /\ run = s.runs[x.run]
  /\ sought = (IF x.inside THEN FULL_QUAD_MASK \ s.quads[x.quad] ELSE s.quads[x.quad])
  /\ offset = LeastNotBelow(sought, x.offset)

LEMMA AdvanceIs ==
  ASSUME NEW s, NEW x, NEW run, NEW sought, NEW offset, RoundReads(s, x, run, sought, offset)
  PROVE  /\ x.base > UNICODE_MAX /\ x.inside => advance(s, x) = Found(x, UNICODE_MAX + 1)
         /\ x.base > UNICODE_MAX /\ ~x.inside => advance(s, x) = x
         /\ x.base <= UNICODE_MAX /\ run.type # Mixed /\ (run.type = Full) = x.inside =>
              advance(s, x) = PastRun(x, run.length)
         /\ x.base <= UNICODE_MAX /\ run.type # Mixed /\ (run.type = Full) # x.inside =>
              advance(s, x) = Found(PastRun(x, run.length), x.base)
         /\ x.base <= UNICODE_MAX /\ run.type = Mixed /\ x.mixed = run.length =>
              advance(s, x) = NextRun(x)
         /\ x.base <= UNICODE_MAX /\ run.type = Mixed /\ x.mixed # run.length /\ offset = QUAD_BITS =>
              advance(s, x) = NextQuad(x)
         /\ x.base <= UNICODE_MAX /\ run.type = Mixed /\ x.mixed # run.length /\ offset # QUAD_BITS =>
              advance(s, x) = Found(OffsetTo(x, offset), x.base + offset)
<1>1. UNICODE_MAX \in Int
  BY SizesAssumption DEF UNICODE_MAX
<1>2. x.base > UNICODE_MAX <=> ~(x.base <= UNICODE_MAX)
  BY <1>1 DEF RoundReads
<1> DEFINE top == x.base > UNICODE_MAX
           low == x.base <= UNICODE_MAX
<1>3. advance(s, x) =
        CASE top -> IF x.inside THEN Found(x, UNICODE_MAX + 1) ELSE x
          [] low /\ run.type # Mixed ->
               IF (run.type = Full) = x.inside THEN PastRun(x, run.length)
               ELSE Found(PastRun(x, run.length), x.base)
          [] low /\ run.type = Mixed /\ x.mixed = run.length -> NextRun(x)
          [] OTHER -> IF offset = QUAD_BITS THEN NextQuad(x)
                      ELSE Found(OffsetTo(x, offset), x.base + offset)
  BY DEF advance, PastRun, OffsetTo, RoundReads
<1> HIDE DEF top, low
<1>4. top <=> ~low
  BY <1>2 DEF top, low
<1>5. QED
  BY <1>3, <1>4 DEF top, low

\* The rounds that read no quad.
LEMMA AdvanceOverRuns ==
  ASSUME NEW s, NEW x, x.base \in Int
  PROVE  /\ x.base > UNICODE_MAX /\ x.inside => advance(s, x) = Found(x, UNICODE_MAX + 1)
         /\ x.base > UNICODE_MAX /\ ~x.inside => advance(s, x) = x
         /\ x.base <= UNICODE_MAX /\ s.runs[x.run].type # Mixed
              /\ (s.runs[x.run].type = Full) = x.inside =>
              advance(s, x) = PastRun(x, s.runs[x.run].length)
         /\ x.base <= UNICODE_MAX /\ s.runs[x.run].type # Mixed
              /\ (s.runs[x.run].type = Full) # x.inside =>
              advance(s, x) = Found(PastRun(x, s.runs[x.run].length), x.base)
         /\ x.base <= UNICODE_MAX /\ s.runs[x.run].type = Mixed
              /\ x.mixed = s.runs[x.run].length =>
              advance(s, x) = NextRun(x)
<1> DEFINE run == s.runs[x.run]
           sought == IF x.inside THEN FULL_QUAD_MASK \ s.quads[x.quad] ELSE s.quads[x.quad]
           offset == LeastNotBelow(sought, x.offset)
<1>1. RoundReads(s, x, run, sought, offset)
  BY DEF RoundReads
<1> HIDE DEF run, sought, offset
<1>2. /\ x.base > UNICODE_MAX /\ x.inside => advance(s, x) = Found(x, UNICODE_MAX + 1)
      /\ x.base > UNICODE_MAX /\ ~x.inside => advance(s, x) = x
      /\ x.base <= UNICODE_MAX /\ run.type # Mixed /\ (run.type = Full) = x.inside =>
           advance(s, x) = PastRun(x, run.length)
      /\ x.base <= UNICODE_MAX /\ run.type # Mixed /\ (run.type = Full) # x.inside =>
           advance(s, x) = Found(PastRun(x, run.length), x.base)
      /\ x.base <= UNICODE_MAX /\ run.type = Mixed /\ x.mixed = run.length =>
           advance(s, x) = NextRun(x)
  BY ONLY <1>1, AdvanceIs
<1>3. QED
  BY <1>2 DEF run

\* Past the last quad a loop that is inside an interval ends it.
LEMMA RoundAtEnd ==
  ASSUME NEW s, NEW points \in SUBSET CodePoints, Right(s, points),
         NEW x, NEW i, At(s, x, i), Visiting(points, Position(x), x), x.base > UNICODE_MAX
  PROVE  /\ Position(x) = UNICODE_MAX + 1
         /\ Progress(s, points, x, advance(s, x))
<1>1. /\ x \in Iterators /\ i \in 0..UNICODE_QUAD_COUNT /\ x.base = QUAD_BITS * i
      /\ x.run \in 1..Len(s.runs) + 1 /\ x.mixed \in Nat /\ x.offset \in FULL_QUAD_MASK
      /\ i = QuadsBefore(s.runs, x.run) + x.mixed
      /\ x.offset # 0 => InMixed(s, x) /\ x.mixed < s.runs[x.run].length
  BY DEF At
<1>2. i = UNICODE_QUAD_COUNT /\ x.base = UNICODE_MAX + 1 /\ UNICODE_MAX \in Int
  BY <1>1, BaseIs
<1>3. x.offset = 0
  <2>1. SUFFICES ASSUME x.offset # 0 PROVE FALSE
    OBVIOUS
  <2>2. x.run \in 1..Len(s.runs) /\ x.mixed < s.runs[x.run].length
    BY <1>1, <2>1 DEF InMixed
  <2>3. /\ s.runs[x.run].length \in Nat /\ Len(s.runs) \in Nat
        /\ QuadsBefore(s.runs, x.run + 1) = QuadsBefore(s.runs, x.run) + s.runs[x.run].length
    BY <2>2, RunsAre
  <2>4. x.run + 1 \in 1..Len(s.runs) + 1
    BY <2>2, <2>3
  <2>5. QuadsBefore(s.runs, x.run + 1) \in 0..UNICODE_QUAD_COUNT
        /\ QuadsBefore(s.runs, x.run) \in 0..UNICODE_QUAD_COUNT
    BY <1>1, <2>4, RunsAre
  <2>6. UNICODE_QUAD_COUNT \in Nat
    BY SizesAssumption
  <2>7. QED
    BY <1>1, <1>2, <2>2, <2>3, <2>5, <2>6
<1>4. Position(x) = UNICODE_MAX + 1 /\ UNICODE_MAX + 1 \in Int
  BY <1>2, <1>3 DEF Position
<1>5. x.base \in Int /\ x.inside \in BOOLEAN
  BY <1>1, IteratorIs
<1>6. CASE x.inside
  <2> DEFINE m == UNICODE_MAX + 1
             y == Found(x, m)
  <2>1. advance(s, x) = y
    BY <1>5, <1>6, AdvanceOverRuns
  <2>2. /\ y \in Iterators /\ y.run = x.run /\ y.quad = x.quad /\ y.mixed = x.mixed
        /\ y.offset = x.offset /\ y.base = x.base /\ y.inside = ~x.inside
    BY <1>1, <1>4, FoundIs
  <2>3. At(s, y, i)
    <3> HIDE DEF y
    <3>1. QED
      BY <2>2 DEF At, InMixed
  <2>4. Visiting(points, m, y)
    <3>1. m \notin points
      BY <1>2 DEF CodePoints
    <3>2. Sought(points, x.inside, m)
      BY <1>6, <3>1 DEF Sought
    <3>3. Visiting(points, m, x) /\ m \in Int
      BY <1>4
    <3> HIDE DEF m, y
    <3>4. m <= m /\ \A c \in m..m - 1 : FALSE
      BY <3>3
    <3>5. QED
      BY <1>1, <3>2, <3>3, <3>4, TurnAt DEF y
  <2>5. Position(y) = m
    <3> HIDE DEF y
    <3>1. QED
      BY <1>4, <2>2 DEF Position
  <2>6. Over(y)
    <3> HIDE DEF y
    <3>1. QED
      BY <1>6, <2>2 DEF Over
  <2>7. QED
    BY <1>4, <2>1, <2>3, <2>4, <2>5, <2>6 DEF Progress
<1>7. CASE ~x.inside
  <2>1. advance(s, x) = x
    BY <1>5, <1>7, AdvanceOverRuns
  <2>2. Over(x)
    BY <1>7 DEF Over
  <2>3. QED
    BY <1>4, <2>1, <2>2 DEF Progress
<1>8. QED
  BY <1>5, <1>6, <1>7

\* A run that is not Mixed is passed as a whole.
LEMMA RoundOfRun ==
  ASSUME NEW s, NEW points \in SUBSET CodePoints, Right(s, points),
         NEW x, NEW i, At(s, x, i), Visiting(points, Position(x), x), x.base <= UNICODE_MAX,
         x.run \in 1..Len(s.runs), s.runs[x.run].type # Mixed
  PROVE  Progress(s, points, x, advance(s, x))
<1> DEFINE k == x.run
           l == s.runs[k].length
           j == i + l
           p == QUAD_BITS * i
           q == QUAD_BITS * j
           y == PastRun(x, l)
<1>1. /\ x \in Iterators /\ i \in 0..UNICODE_QUAD_COUNT /\ x.base = QUAD_BITS * i
      /\ x.mixed \in Nat /\ x.offset \in FULL_QUAD_MASK
      /\ i = QuadsBefore(s.runs, k) + x.mixed
      /\ x.quad = MixedBefore(s.runs, k) + x.mixed + 1
      /\ x.mixed = 0 /\ x.offset = 0
  BY DEF At, InMixed
<1>2. /\ Len(s.runs) \in Nat /\ l \in Nat \ {0}
      /\ QuadsBefore(s.runs, k + 1) = QuadsBefore(s.runs, k) + l
      /\ MixedBefore(s.runs, k + 1) = MixedBefore(s.runs, k) + MixedLength(s.runs[k])
      /\ s.runs[k].type \in RunTypes
  BY RunsAre
<1>3. k \in 1..Len(s.runs) + 1 /\ k + 1 \in 1..Len(s.runs) + 1
  BY <1>2
<1>4. /\ QuadsBefore(s.runs, k) \in 0..UNICODE_QUAD_COUNT
      /\ QuadsBefore(s.runs, k + 1) \in 0..UNICODE_QUAD_COUNT
      /\ MixedBefore(s.runs, k) \in Nat
  BY <1>3, RunsAre
<1>5. i = QuadsBefore(s.runs, k) /\ j = QuadsBefore(s.runs, k + 1) /\ i < j /\ i \in Int /\ j \in Int
  BY <1>1, <1>2, <1>4
<1>6. QUAD_BITS \in Nat \ {0}
  BY SizesAssumption
<1>7. p \in Int /\ q \in Int /\ p + QUAD_BITS <= q
  BY <1>5, <1>6, ProductsInOrder
<1>8. /\ y \in Iterators /\ y.run = k + 1 /\ y.quad = x.quad /\ y.mixed = 0 /\ y.offset = 0
      /\ y.base = x.base + l * QUAD_BITS /\ y.min = x.min /\ y.inside = x.inside
      /\ y.visited = x.visited
  <2>1. x \in Iterators /\ l \in Int
    BY <1>1, <1>2
  <2>2. /\ y \in Iterators /\ y.run = k + 1 /\ y.quad = x.quad /\ y.mixed = x.mixed
        /\ y.offset = x.offset
        /\ y.base = x.base + l * QUAD_BITS /\ y.min = x.min /\ y.inside = x.inside
        /\ y.visited = x.visited
    BY ONLY <2>1, PastRunIs
  <2> HIDE DEF y, l
  <2>3. QED
    BY <1>1, <2>2
<1>9. y.base = q
  <2>1. QUAD_BITS * (i + l) = QUAD_BITS * i + l * QUAD_BITS
    BY <1>2, <1>5, <1>6
  <2>2. QED
    BY <1>1, <1>8, <2>1
<1>10. /\ Position(x) = p /\ Position(y) = q /\ p \in Int
       /\ x.run \in Int /\ x.inside \in BOOLEAN /\ x.base = p
  <2>1. x.run \in Int /\ x.inside \in BOOLEAN
    BY <1>1, IteratorIs
  <2> HIDE DEF y
  <2>2. QED
    BY <1>1, <1>7, <1>8, <1>9, <2>1 DEF Position
<1>11. ASSUME NEW c \in p..q - 1 PROVE c \in points <=> s.runs[k].type = Full
  <2>1. c \in Int /\ p <= c /\ c < q
    BY <1>7
  <2>2. QUAD_BITS * QuadsBefore(s.runs, k) <= c /\ c < QUAD_BITS * QuadsBefore(s.runs, k + 1)
    BY <1>5, <2>1
  <2>3. QED
    BY <2>1, <2>2, PointsOfRun
<1>12. ASSUME NEW z \in Iterators, z.run = k + 1, z.quad = x.quad, z.mixed = 0, z.offset = 0,
              z.base = q
       PROVE  At(s, z, j)
  <2>1. 0 \in FULL_QUAD_MASK
    BY <1>6 DEF FULL_QUAD_MASK
  <2>2. z.quad = MixedBefore(s.runs, z.run) + z.mixed + 1
    BY <1>1, <1>2, <1>4, <1>12 DEF MixedLength
  <2>3. j \in 0..UNICODE_QUAD_COUNT /\ j = QuadsBefore(s.runs, z.run) + z.mixed
    BY <1>4, <1>5, <1>12
  <2>4. z.base = QUAD_BITS * j /\ z.run \in 1..Len(s.runs) + 1 /\ z.mixed \in Nat
    BY <1>3, <1>12
  <2>5. QED
    BY <1>12, <2>1, <2>2, <2>3, <2>4 DEF At
<1>13. Visiting(points, p, x)
  BY <1>10
<1>14. Pace(points, x) <= 2 * p + x.run + 1 /\ Pace(points, x) \in Int
  BY <1>1, <1>10, PaceIs
<1>15. ASSUME NEW z \in Iterators, z.run = k + 1, Position(z) = q
       PROVE  Pace(points, x) + 1 <= Pace(points, z)
  <2> DEFINE a == Pace(points, x)
             e == Pace(points, z)
             g == x.run
  <2>1. 2 * q + (g + 1) <= e /\ e \in Int
    BY <1>15, PaceIs
  <2>2. a <= 2 * p + g + 1 /\ a \in Int /\ g \in Int
    BY <1>10, <1>14
  <2> HIDE DEF p, q, a, e, g
  <2>3. a + 1 <= e
    BY ONLY <1>6, <1>7, <2>1, <2>2
  <2>4. QED
    BY <2>3 DEF a, e
<1>16. CASE (s.runs[k].type = Full) = x.inside
  <2>1. advance(s, x) = y
    <3>1. x.base \in Int
      BY <1>1, IteratorIs
    <3>2. QED
      BY <1>16, <3>1, AdvanceOverRuns
  <2>2. \A c \in p..q - 1 : ~Sought(points, x.inside, c)
    BY <1>10, <1>11, <1>16 DEF Sought
  <2> HIDE DEF y, p, q, j
  <2>3. p <= q
    BY <1>6, <1>7
  <2>4. Visiting(points, q, y)
    BY <1>1, <1>7, <1>8, <1>13, <2>2, <2>3, SkipTo
  <2>5. At(s, y, j)
    BY <1>8, <1>9, <1>12
  <2>6. Pace(points, x) + 1 <= Pace(points, y)
    BY <1>8, <1>10, <1>15
  <2>7. QED
    BY <1>10, <2>1, <2>4, <2>5, <2>6 DEF Progress
<1>17. CASE (s.runs[k].type = Full) # x.inside
  <2> DEFINE z == Found(y, p)
  <2>1. advance(s, x) = z
    <3>1. x.base \in Int
      BY <1>1, IteratorIs
    <3>2. advance(s, x) = Found(y, x.base)
      BY <1>17, <3>1, AdvanceOverRuns
    <3>3. QED
      BY <1>10, <3>2
  <2>2. \A c \in p..q - 1 : Sought(points, x.inside, c)
    BY <1>10, <1>11, <1>17 DEF Sought
  <2> HIDE DEF y, p, q, j
  <2>3. p <= q /\ p \in p..q - 1 /\ p <= p /\ \A c \in p..p - 1 : FALSE
    BY <1>6, <1>7
  <2>4. Visiting(points, q, z)
    BY <1>1, <1>7, <1>8, <1>13, <2>2, <2>3, TurnAt
  <2>5. /\ z \in Iterators /\ z.run = k + 1 /\ z.quad = x.quad /\ z.mixed = 0 /\ z.offset = 0
        /\ z.base = q
    BY <1>7, <1>8, <1>9, FoundIs
  <2> HIDE DEF z
  <2>6. At(s, z, j)
    BY <1>12, <2>5
  <2>7. Position(z) = q
    BY <1>7, <2>5 DEF Position
  <2>8. Pace(points, x) + 1 <= Pace(points, z)
    BY <1>15, <2>5, <2>7
  <2>9. QED
    BY <2>1, <2>4, <2>6, <2>7, <2>8 DEF Progress
<1>18. QED
  BY <1>16, <1>17

\* After the last quad of a Mixed run comes the next run.
LEMMA RoundAfterQuads ==
  ASSUME NEW s, NEW points \in SUBSET CodePoints, Right(s, points),
         NEW x, NEW i, At(s, x, i), Visiting(points, Position(x), x), x.base <= UNICODE_MAX,
         x.run \in 1..Len(s.runs), s.runs[x.run].type = Mixed, x.mixed = s.runs[x.run].length
  PROVE  Progress(s, points, x, advance(s, x))
<1> DEFINE k == x.run
           l == s.runs[k].length
           y == NextRun(x)
<1>1. /\ x \in Iterators /\ i \in 0..UNICODE_QUAD_COUNT /\ x.base = QUAD_BITS * i
      /\ i = QuadsBefore(s.runs, k) + x.mixed
      /\ x.quad = MixedBefore(s.runs, k) + x.mixed + 1
      /\ x.offset # 0 => x.mixed < l
  BY DEF At
<1>2. /\ Len(s.runs) \in Nat /\ l \in Nat \ {0}
      /\ QuadsBefore(s.runs, k + 1) = QuadsBefore(s.runs, k) + l
      /\ MixedBefore(s.runs, k + 1) = MixedBefore(s.runs, k) + MixedLength(s.runs[k])
  BY RunsAre
<1>3. k + 1 \in 1..Len(s.runs) + 1 /\ k \in 1..Len(s.runs) + 1
  BY <1>2
<1>4. QuadsBefore(s.runs, k + 1) \in 0..UNICODE_QUAD_COUNT /\ MixedBefore(s.runs, k) \in Nat
      /\ QuadsBefore(s.runs, k) \in 0..UNICODE_QUAD_COUNT
  BY <1>3, RunsAre
<1>5. x.offset = 0
  BY <1>1, <1>2
<1>6. /\ y \in Iterators /\ y.run = k + 1 /\ y.quad = x.quad /\ y.mixed = 0 /\ y.offset = 0
      /\ y.base = x.base /\ y.min = x.min /\ y.inside = x.inside /\ y.visited = x.visited
  BY <1>1, NextRunIs
<1>7. x.base \in Int /\ x.run \in Int /\ x.inside \in BOOLEAN
  BY <1>1, IteratorIs
<1>8. advance(s, x) = y
  BY <1>7, AdvanceOverRuns
<1> HIDE DEF y
<1>9. At(s, y, i)
  <2>1. 0 \in FULL_QUAD_MASK
    BY SizesAssumption DEF FULL_QUAD_MASK
  <2>2. y.quad = MixedBefore(s.runs, y.run) + y.mixed + 1
    BY <1>1, <1>2, <1>4, <1>6 DEF MixedLength
  <2>3. i = QuadsBefore(s.runs, y.run) + y.mixed
    BY <1>1, <1>2, <1>4, <1>6
  <2>4. QED
    BY <1>1, <1>3, <1>6, <2>1, <2>2, <2>3 DEF At
<1>10. Position(y) = Position(x) /\ Position(x) \in Int
  BY <1>5, <1>6, <1>7 DEF Position
<1>11. Visiting(points, Position(y), y)
  <2> DEFINE p == Position(x)
  <2>1. p \in Int /\ Visiting(points, p, x)
    BY <1>10
  <2> HIDE DEF p
  <2>2. p <= p /\ \A c \in p..p - 1 : FALSE
    BY <2>1
  <2>3. Visiting(points, p, y)
    BY <1>1, <1>6, <2>1, <2>2, SkipTo
  <2>4. QED
    BY <1>10, <2>3 DEF p
<1>12. Pace(points, x) + 1 <= Pace(points, y)
  BY <1>6, <1>7, <1>10 DEF Pace
<1>13. QED
  BY <1>8, <1>9, <1>11, <1>12 DEF Progress

\* A quad of a Mixed run is passed, or what is looked for is found in it.
LEMMA RoundOfQuad ==
  ASSUME NEW s, NEW points \in SUBSET CodePoints, Right(s, points),
         NEW x, NEW i, At(s, x, i), Visiting(points, Position(x), x), x.base <= UNICODE_MAX,
         x.run \in 1..Len(s.runs), s.runs[x.run].type = Mixed, x.mixed # s.runs[x.run].length
  PROVE  Progress(s, points, x, advance(s, x))
<1> DEFINE k == x.run
           l == s.runs[k].length
           b == QUAD_BITS * i
           u == x.offset
           p == b + u
           quad == s.quads[x.quad]
           sought == IF x.inside THEN FULL_QUAD_MASK \ quad ELSE quad
           o == LeastNotBelow(sought, u)
<1>1. /\ x \in Iterators /\ i \in 0..UNICODE_QUAD_COUNT /\ x.base = b
      /\ x.run \in 1..Len(s.runs) + 1 /\ x.mixed \in Nat /\ u \in FULL_QUAD_MASK
      /\ i = QuadsBefore(s.runs, k) + x.mixed
      /\ x.quad = MixedBefore(s.runs, k) + x.mixed + 1
      /\ x.mixed # 0 => x.mixed <= l
  BY DEF At
<1>2. /\ Len(s.runs) \in Nat /\ l \in Nat \ {0}
      /\ QuadsBefore(s.runs, k + 1) = QuadsBefore(s.runs, k) + l
  BY RunsAre
<1>3. x.mixed < l /\ x.mixed \in 0..l - 1
  BY <1>1, <1>2
<1>4. i \in Indices /\ quad = {c \in FULL_QUAD_MASK : b + c \in points}
  <2> DEFINE j == x.mixed
             a == x.quad
  <2>1. /\ k \in 1..Len(s.runs) /\ s.runs[k].type = Mixed /\ j \in 0..s.runs[k].length - 1
        /\ i = QuadsBefore(s.runs, k) + j /\ a = MixedBefore(s.runs, k) + j + 1
    BY <1>1, <1>3
  <2> HIDE DEF k, j, a
  <2>2. i \in Indices /\ s.quads[a] = {c \in FULL_QUAD_MASK : QUAD_BITS * i + c \in points}
    BY ONLY Right(s, points), <2>1, PointsOfQuad
  <2>3. QED
    BY <2>2 DEF a
<1>5. QUAD_BITS \in Nat \ {0} /\ FULL_QUAD_MASK = 0..QUAD_BITS - 1
  BY SizesAssumption DEF FULL_QUAD_MASK
<1>6. /\ i \in Int /\ i + 1 \in 0..UNICODE_QUAD_COUNT /\ b \in Int /\ u \in Int /\ p \in Int
      /\ p = b + u
  <2>1. i \in Int /\ i + 1 \in 0..UNICODE_QUAD_COUNT
    BY ONLY <1>4, SizesAssumption DEF Indices
  <2>2. b \in Int
    BY ONLY <2>1, <1>5
  <2>3. u \in Int
    BY ONLY <1>1, <1>5
  <2> HIDE DEF b, u
  <2>4. QED
    BY <2>1, <2>2, <2>3
<1>7. x.base \in Int /\ x.run \in Int /\ x.inside \in BOOLEAN /\ x.mixed \in Int
  BY <1>1, IteratorIs
<1>8. sought \in SUBSET FULL_QUAD_MASK
      /\ \A c \in FULL_QUAD_MASK : c \in sought <=> Sought(points, x.inside, b + c)
  BY <1>4, <1>7 DEF Sought
<1>9. /\ o \in 0..QUAD_BITS /\ u <= o
      /\ o # QUAD_BITS => o \in sought
      /\ \A c \in u..o - 1 : c \notin sought
  <2> HIDE DEF sought
  <2>1. QED
    BY <1>1, <1>8, LeastIs
<1>10. Position(x) = p
  BY <1>1 DEF Position
<1>11. ASSUME NEW c \in p..(b + o) - 1 PROVE ~Sought(points, x.inside, c)
  <2> DEFINE d == c - b
  <2> HIDE DEF sought, o, u, b
  <2>1. d \in u..o - 1 /\ d \in 0..QUAD_BITS - 1 /\ c = b + d
    BY <1>1, <1>5, <1>6, <1>9
  <2> HIDE DEF d
  <2>2. QED
    BY <1>5, <1>8, <1>9, <2>1
<1>12. x.quad = MixedBefore(s.runs, k) + x.mixed + 1 /\ MixedBefore(s.runs, k) \in Nat
       /\ QuadsBefore(s.runs, k) \in 0..UNICODE_QUAD_COUNT
  BY <1>1, RunsAre
<1>13. /\ o = QUAD_BITS => advance(s, x) = NextQuad(x)
       /\ o # QUAD_BITS => advance(s, x) = Found(OffsetTo(x, o), x.base + o)
  <2> DEFINE run == s.runs[x.run]
  <2>1. run.type = Mixed /\ x.mixed # run.length /\ run = s.runs[x.run] /\ x.base <= UNICODE_MAX
    OBVIOUS
  <2>2. RoundReads(s, x, run, sought, o)
    BY <1>7 DEF RoundReads
  <2> HIDE DEF run, sought, o
  <2>3. QED
    BY ONLY <2>1, <2>2, AdvanceIs
<1>14. Visiting(points, p, x)
  BY <1>10
<1>15. Pace(points, x) <= 2 * p + x.run + 1 /\ Pace(points, x) \in Int
       /\ (Sought(points, x.inside, p) => Pace(points, x) = 2 * p + x.run)
  BY <1>1, <1>10, PaceIs
<1> HIDE DEF sought, o, quad, b, u, p
<1>16. CASE o = QUAD_BITS
  <2> DEFINE y == NextQuad(x)
             q == b + QUAD_BITS
  <2>1. /\ y \in Iterators /\ y.run = k /\ y.quad = x.quad + 1 /\ y.mixed = x.mixed + 1
        /\ y.offset = 0 /\ y.base = x.base + QUAD_BITS /\ y.min = x.min
        /\ y.inside = x.inside /\ y.visited = x.visited
    BY <1>1, NextQuadIs
  <2> HIDE DEF y
  <2>2. y.base = QUAD_BITS * (i + 1)
    <3>1. QUAD_BITS * (i + 1) = QUAD_BITS * i + QUAD_BITS
      BY <1>5, <1>6
    <3>2. QED
      BY <1>1, <2>1, <3>1 DEF b
  <2>3. At(s, y, i + 1)
    <3>1. 0 \in FULL_QUAD_MASK
      BY <1>5
    <3>2. y.mixed \in Nat /\ y.mixed <= l /\ InMixed(s, y)
      BY <1>1, <1>2, <1>3, <2>1 DEF InMixed
    <3>3. i + 1 = QuadsBefore(s.runs, y.run) + y.mixed
          /\ y.quad = MixedBefore(s.runs, y.run) + y.mixed + 1
      BY <1>1, <1>12, <1>7, <2>1
    <3>4. QED
      BY <1>1, <1>6, <2>1, <2>2, <3>1, <3>2, <3>3 DEF At
  <2>4. Position(y) = q /\ q \in Int /\ p < q
    BY <1>1, <1>5, <1>6, <2>1 DEF Position
  <2>5. Visiting(points, q, y)
    <3>1. \A c \in p..q - 1 : ~Sought(points, x.inside, c)
      BY <1>11, <1>16
    <3> HIDE DEF p, q
    <3>2. p <= q
      BY <1>6, <2>4
    <3>3. QED
      BY <1>1, <1>6, <1>14, <2>1, <2>4, <3>1, <3>2, SkipTo
  <2>6. Pace(points, x) + 1 <= Pace(points, y)
    <3>1. 2 * Position(y) + y.run <= Pace(points, y) /\ Pace(points, y) \in Int
      BY <2>1, PaceIs
    <3> HIDE DEF p, q
    <3>2. QED
      BY <1>6, <1>7, <1>15, <2>1, <2>4, <3>1
  <2>7. QED
    BY <1>13, <1>16, <2>3, <2>4, <2>5, <2>6 DEF Progress, y
<1>17. CASE o # QUAD_BITS
  <2> DEFINE w == OffsetTo(x, o)
             cp == b + o
             y == Found(w, cp)
  <2>1. o \in Int /\ o \in FULL_QUAD_MASK /\ cp \in Int /\ p <= cp
    BY <1>5, <1>6, <1>9, <1>17
  <2>2. /\ w \in Iterators /\ w.run = k /\ w.quad = x.quad /\ w.mixed = x.mixed
        /\ w.offset = o /\ w.base = x.base /\ w.min = x.min
        /\ w.inside = x.inside /\ w.visited = x.visited
    BY <1>1, <2>1, OffsetToIs
  <2>3. advance(s, x) = y
    BY <1>1, <1>13, <1>17
  <2> HIDE DEF w
  <2>4. /\ y \in Iterators /\ y.run = k /\ y.quad = x.quad /\ y.mixed = x.mixed
        /\ y.offset = o /\ y.base = x.base /\ y.inside = ~x.inside
    BY <2>1, <2>2, FoundIs
  <2>5. Sought(points, x.inside, cp)
    BY <1>8, <1>9, <1>17, <2>1
  <2>6. Visiting(points, cp, y)
    <3>1. \A c \in p..cp - 1 : ~Sought(points, x.inside, c)
      BY <1>11
    <3> HIDE DEF p, cp
    <3>2. cp <= cp /\ \A c \in cp..cp - 1 : FALSE
      BY <2>1
    <3>3. QED
      BY <1>1, <1>6, <1>14, <2>1, <2>2, <2>5, <3>1, <3>2, TurnAt
  <2> HIDE DEF y
  <2>7. At(s, y, i)
    <3>1. InMixed(s, y) /\ y.mixed < s.runs[y.run].length /\ y.mixed <= s.runs[y.run].length
      BY <1>2, <1>3, <1>7, <2>4 DEF InMixed
    <3>2. y.base = QUAD_BITS * i
      BY <1>1, <2>4 DEF b
    <3>3. y.offset \in FULL_QUAD_MASK /\ y.run \in 1..Len(s.runs) + 1 /\ y.mixed \in Nat
      BY <1>1, <2>1, <2>4
    <3>4. QED
      BY <1>1, <2>4, <3>1, <3>2, <3>3 DEF At
  <2>8. Position(y) = cp
    BY <1>1, <2>4 DEF Position
  <2>9. Pace(points, x) + 1 <= Pace(points, y)
    <3>1. ~Sought(points, y.inside, cp)
      BY <1>7, <2>4, <2>5 DEF Sought
    <3>2. Pace(points, y) = 2 * cp + y.run + 1
      BY <2>4, <2>8, <3>1, PaceIs
    <3>3. CASE cp = p
      <4> HIDE DEF p, cp
      <4>1. QED
        BY <1>6, <1>7, <1>15, <2>1, <2>4, <2>5, <3>2, <3>3
    <3>4. CASE cp # p
      <4> HIDE DEF p, cp
      <4>1. p + 1 <= cp
        BY <1>6, <2>1, <3>4
      <4>2. QED
        BY <1>6, <1>7, <1>15, <2>1, <2>4, <3>2, <4>1
    <3>5. QED
      BY <3>3, <3>4
  <2>10. QED
    BY <2>3, <2>6, <2>7, <2>8, <2>9 DEF Progress
<1>18. QED
  BY <1>16, <1>17

LEMMA RoundIs ==
  ASSUME NEW s, NEW points \in SUBSET CodePoints, Right(s, points),
         NEW x, NEW i, At(s, x, i), Visiting(points, Position(x), x)
  PROVE  Progress(s, points, x, advance(s, x))
<1>1. /\ x \in Iterators /\ i \in 0..UNICODE_QUAD_COUNT /\ x.base = QUAD_BITS * i
      /\ x.run \in 1..Len(s.runs) + 1 /\ i = QuadsBefore(s.runs, x.run) + x.mixed
      /\ x.mixed # 0 => InMixed(s, x)
  BY DEF At
<1>2. x.base > UNICODE_MAX <=> ~(x.base <= UNICODE_MAX)
  BY <1>1, BaseIs
<1>3. CASE x.base > UNICODE_MAX
  BY <1>3, RoundAtEnd
<1>4. CASE x.base <= UNICODE_MAX
  <2>1. x.run \in 1..Len(s.runs)
    <3>1. SUFFICES ASSUME x.run \notin 1..Len(s.runs) PROVE FALSE
      OBVIOUS
    <3>2. Len(s.runs) \in Nat /\ QuadsBefore(s.runs, Len(s.runs) + 1) = UNICODE_QUAD_COUNT
      BY RunsAre
    <3>3. x.run = Len(s.runs) + 1
      BY <1>1, <3>1, <3>2
    <3>4. x.mixed = 0
      BY <1>1, <3>1 DEF InMixed
    <3>5. i = UNICODE_QUAD_COUNT
      BY <1>1, <3>2, <3>3, <3>4, SizesAssumption
    <3>6. QED
      BY <1>1, <1>2, <1>4, <3>5, BaseIs
  <2>2. CASE s.runs[x.run].type # Mixed
    BY <1>4, <2>1, <2>2, RoundOfRun
  <2>3. CASE s.runs[x.run].type = Mixed /\ x.mixed = s.runs[x.run].length
    BY <1>4, <2>1, <2>3, RoundAfterQuads
  <2>4. CASE s.runs[x.run].type = Mixed /\ x.mixed # s.runs[x.run].length
    BY <1>4, <2>1, <2>4, RoundOfQuad
  <2>5. QED
    BY <2>2, <2>3, <2>4
<1>5. QED
  BY <1>2, <1>3, <1>4

LEMMA BeginsAt ==
  ASSUME NEW s, NEW points \in SUBSET CodePoints, Right(s, points)
  PROVE  /\ At(s, Begin, 0) /\ Visiting(points, Position(Begin), Begin)
         /\ 0 <= Pace(points, Begin)
<1>1. QUAD_BITS \in Nat \ {0} /\ UNICODE_QUAD_COUNT \in Nat \ {0}
  BY SizesAssumption
<1>2. /\ Begin.run = 1 /\ Begin.quad = 1 /\ Begin.mixed = 0 /\ Begin.offset = 0
      /\ Begin.base = 0 /\ Begin.inside = FALSE /\ Begin.visited = << >>
  BY DEF Begin
<1>3. Len(s.runs) \in Nat /\ QuadsBefore(s.runs, 1) = 0 /\ MixedBefore(s.runs, 1) = 0
  BY RunsAre
<1>4. At(s, Begin, 0)
  <2>1. 0 \in 0..UNICODE_QUAD_COUNT /\ 0 \in FULL_QUAD_MASK /\ QUAD_BITS * 0 = 0
        /\ 1 \in 1..Len(s.runs) + 1
    BY <1>1, <1>3 DEF FULL_QUAD_MASK
  <2>2. QED
    BY <1>2, <1>3, <2>1, BeginIs DEF At
<1>5. Position(Begin) = 0
  BY <1>2 DEF Position
<1>6. Visiting(points, 0, Begin)
  BY <1>2, CoversNothing DEF Visiting
<1>7. 0 <= Pace(points, Begin)
  <2>1. /\ Pace(points, Begin) \in Int
        /\ 2 * Position(Begin) + Begin.run <= Pace(points, Begin)
    BY BeginIs, PaceIs
  <2>2. QED
    BY <1>2, <1>5, <2>1
<1>8. QED
  BY <1>4, <1>5, <1>6, <1>7

\* After n rounds.
Going(s, points, n, x) ==
  /\ \E i : At(s, x, i)
  /\ Visiting(points, Position(x), x)
  /\ Over(x) \/ n <= Pace(points, x)

LEMMA GoesOn ==
  ASSUME NEW s, NEW points \in SUBSET CodePoints, Right(s, points), NEW n \in Nat,
         NEW x, Going(s, points, n, x)
  PROVE  Going(s, points, n + 1, advance(s, x))
<1> DEFINE y == advance(s, x)
<1>1. PICK i : At(s, x, i)
  BY DEF Going
<1>2. Visiting(points, Position(x), x) /\ (Over(x) \/ n <= Pace(points, x))
  BY DEF Going
<1>3. Progress(s, points, x, y)
  BY <1>1, <1>2, RoundIs
<1>4. x \in Iterators
  BY <1>1 DEF At
<1>5. (\E j : At(s, y, j)) /\ Visiting(points, Position(y), y)
      /\ (Over(y) \/ Pace(points, x) + 1 <= Pace(points, y))
  BY <1>3 DEF Progress
<1>6. CASE Over(x)
  <2>1. y = x
    BY <1>4, <1>6, IteratorIs, AdvanceOverRuns DEF Over
  <2> HIDE DEF y
  <2>2. Over(y)
    BY <1>6, <2>1
  <2>3. QED
    BY <1>5, <2>2 DEF Going, y
<1>7. CASE ~Over(x)
  <2>1. n <= Pace(points, x)
    BY <1>2, <1>7
  <2>2. PICK j : At(s, y, j)
    BY <1>5
  <2> HIDE DEF y
  <2>3. y \in Iterators
    BY <2>2 DEF At
  <2>4. Pace(points, x) \in Int /\ Pace(points, y) \in Int
    BY <1>4, <2>3, PaceIs
  <2>5. Over(y) \/ n + 1 <= Pace(points, y)
    BY <1>5, <2>1, <2>4
  <2>6. QED
    BY <1>5, <2>5 DEF Going, y
<1>8. QED
  BY <1>6, <1>7

\* The iterator before and after every round.
Iterations(s, n, f) ==
  f = [k \in 0..n |-> IF k = 0 THEN Begin ELSE advance(s, f[k - 1])]

LEMMA IterationsExist ==
  ASSUME NEW s
  PROVE  \A n \in Nat : \E f : Iterations(s, n, f)
<1> DEFINE T == {n \in Nat : ~\E f : Iterations(s, n, f)}
           start == Begin
<1>1. SUFFICES ASSUME T # {} PROVE FALSE
  OBVIOUS
<1>2. PICK n \in T : \A k \in T : n <= k
  BY <1>1, LeastNatural
<1>3. CASE n = 0
  <2> DEFINE f == [k \in 0..0 |-> start]
             g == [k \in 0..0 |-> IF k = 0 THEN start ELSE advance(s, f[k - 1])]
  <2>1. \A k \in 0..0 : f[k] = g[k]
    OBVIOUS
  <2>2. f = [k \in 0..0 |-> f[k]] /\ g = [k \in 0..0 |-> g[k]]
    OBVIOUS
  <2> HIDE DEF f, g
  <2>3. f = g
    BY <2>1, <2>2
  <2>4. Iterations(s, 0, f)
    BY <2>3 DEF Iterations, g
  <2>5. QED
    BY <1>2, <1>3, <2>4
<1>4. CASE n # 0
  <2>1. n - 1 \in Nat /\ n \in Nat
    BY <1>2, <1>4
  <2>2. n - 1 \notin T
    BY <1>2, <2>1
  <2>3. PICK f : Iterations(s, n - 1, f)
    BY <2>1, <2>2
  <2> DEFINE g == [k \in 0..n |-> IF k = 0 THEN start ELSE advance(s, f[k - 1])]
             h == [k \in 0..n |-> IF k = 0 THEN start ELSE advance(s, g[k - 1])]
  <2>4. \A k \in 0..n - 1 : g[k] = f[k]
    <3> DEFINE e == [k \in 0..n - 1 |-> IF k = 0 THEN start ELSE advance(s, f[k - 1])]
    <3>1. f = e
      BY <2>3 DEF Iterations
    <3>2. \A k \in 0..n - 1 : e[k] = IF k = 0 THEN start ELSE advance(s, f[k - 1])
      OBVIOUS
    <3>3. \A k \in 0..n - 1 : k \in 0..n
      BY <2>1
    <3>4. \A k \in 0..n - 1 : g[k] = IF k = 0 THEN start ELSE advance(s, f[k - 1])
      BY <3>3
    <3> HIDE DEF e, g, start
    <3>5. QED
      BY <3>1, <3>2, <3>4
  <2>5. \A k \in 0..n : g[k] = h[k]
    <3>1. ASSUME NEW k \in 0..n, k # 0 PROVE g[k - 1] = f[k - 1]
      <4>1. k - 1 \in 0..n - 1
        BY <2>1, <3>1
      <4> HIDE DEF g, h
      <4>2. QED
        BY <2>4, <4>1
    <3>2. QED
      BY <3>1
  <2>6. g = [k \in 0..n |-> g[k]] /\ h = [k \in 0..n |-> h[k]]
    OBVIOUS
  <2> HIDE DEF g, h
  <2>7. g = h
    BY <2>5, <2>6
  <2>8. Iterations(s, n, g)
    BY <2>7 DEF Iterations, h
  <2>9. QED
    BY <1>2, <2>8
<1>5. QED
  BY <1>3, <1>4

LEMMA RoundsIs ==
  Rounds \in Nat /\ UNICODE_MAX \in Int /\ Rounds = 3 * (UNICODE_MAX + 1) + 3
  /\ UNICODE_QUAD_COUNT <= UNICODE_MAX + 1 /\ UNICODE_MAX + 1 \in Nat
<1> DEFINE u == QUAD_BITS * UNICODE_QUAD_COUNT
<1>1. QUAD_BITS \in Nat \ {0} /\ UNICODE_QUAD_COUNT \in Nat \ {0}
  BY SizesAssumption
<1>2. u \in Nat /\ UNICODE_QUAD_COUNT <= u
  <2>1. (QUAD_BITS - 1) * UNICODE_QUAD_COUNT \in Nat
    BY <1>1
  <2>2. u = (QUAD_BITS - 1) * UNICODE_QUAD_COUNT + UNICODE_QUAD_COUNT
    BY <1>1
  <2> DEFINE v == (QUAD_BITS - 1) * UNICODE_QUAD_COUNT
  <2> HIDE DEF u, v
  <2>3. v \in Nat /\ u = v + UNICODE_QUAD_COUNT
    BY <2>1, <2>2 DEF v
  <2>4. QED
    BY <1>1, <2>3
<1> HIDE DEF u
<1>3. UNICODE_MAX = u - 1
  BY DEF UNICODE_MAX, u
<1>4. QED
  BY <1>1, <1>2, <1>3 DEF Rounds

\* The list of intervals covers the points.
LEMMA IntervalsCover ==
  ASSUME NEW s, NEW points \in SUBSET CodePoints, Right(s, points)
  PROVE  Covers(points, UNICODE_MAX + 1, Intervals(s))
<1> DEFINE start == Begin
           N == Rounds
           f == CHOOSE f : f = [n \in 0..N |-> IF n = 0 THEN start ELSE advance(s, f[n - 1])]
<1>1. Intervals(s) = f[N].visited
  BY DEF Intervals
<1>2. N \in Nat
  BY RoundsIs
<1> HIDE DEF N
<1>3. \E g : g = [n \in 0..N |-> IF n = 0 THEN start ELSE advance(s, g[n - 1])]
  <2>1. PICK g : Iterations(s, N, g)
    BY <1>2, IterationsExist
  <2>2. g = [n \in 0..N |-> IF n = 0 THEN start ELSE advance(s, g[n - 1])]
    BY <2>1 DEF Iterations
  <2>3. QED
    BY <2>2
<1>4. f = [n \in 0..N |-> IF n = 0 THEN start ELSE advance(s, f[n - 1])]
  BY <1>3
<1> HIDE DEF f
<1>5. \A n \in 0..N : f[n] = IF n = 0 THEN start ELSE advance(s, f[n - 1])
  <2> DEFINE e == [n \in 0..N |-> IF n = 0 THEN start ELSE advance(s, f[n - 1])]
  <2>1. \A n \in 0..N : e[n] = IF n = 0 THEN start ELSE advance(s, f[n - 1])
    OBVIOUS
  <2>2. f = e
    BY <1>4
  <2> HIDE DEF e, start
  <2>3. QED
    BY <2>1, <2>2
<1>6. \A n \in 0..N : Going(s, points, n, f[n])
  <2> DEFINE T == {n \in Nat : n <= N /\ ~Going(s, points, n, f[n])}
  <2>1. SUFFICES ASSUME T # {} PROVE FALSE
    <3>1. \A n \in 0..N : n \in Nat /\ n <= N
      BY <1>2
    <3>2. QED
      BY <3>1
  <2>2. PICK n \in T : \A m \in T : n <= m
    <3>1. T \subseteq Nat
      OBVIOUS
    <3>2. QED
      BY <2>1, <3>1, LeastNatural
  <2>3. n \in Nat /\ n <= N /\ ~Going(s, points, n, f[n]) /\ n \in 0..N
    BY <1>2, <2>2
  <2>4. n # 0
    <3>1. SUFFICES ASSUME n = 0 PROVE Going(s, points, 0, f[0])
      BY <2>3
    <3>2. f[0] = Begin
      BY <1>5, <2>3, <3>1
    <3>3. QED
      BY <3>2, BeginsAt DEF Going
  <2> DEFINE m == n - 1
  <2>5. m \in Nat /\ m <= N /\ m + 1 = n /\ ~(n <= m)
    BY <1>2, <2>3, <2>4
  <2> HIDE DEF m
  <2>6. Going(s, points, m, f[m])
    <3>1. m \notin T
      <4> HIDE DEF T
      <4>1. QED
        BY <2>2, <2>5
    <3>2. QED
      BY <2>5, <3>1
  <2>7. f[n] = advance(s, f[m])
    <3>1. m = n - 1
      BY <2>3, <2>5
    <3>2. QED
      BY <1>5, <2>3, <2>4, <3>1
  <2>8. Going(s, points, n, f[n])
    BY <2>5, <2>6, <2>7, GoesOn
  <2>9. QED
    BY <2>3, <2>8
<1> DEFINE x == f[N]
<1>7. Going(s, points, N, x)
  BY <1>2, <1>6
<1> HIDE DEF x
<1>8. PICK i : At(s, x, i)
  BY <1>7 DEF Going
<1>9. /\ x \in Iterators /\ i \in 0..UNICODE_QUAD_COUNT /\ x.base = QUAD_BITS * i
      /\ x.run \in 1..Len(s.runs) + 1 /\ x.offset \in FULL_QUAD_MASK
  BY <1>8 DEF At
<1>10. Visiting(points, Position(x), x) /\ (Over(x) \/ N <= Pace(points, x))
  BY <1>7 DEF Going
<1>11. UNICODE_MAX \in Int /\ N = 3 * (UNICODE_MAX + 1) + 3 /\ UNICODE_QUAD_COUNT <= UNICODE_MAX + 1
       /\ UNICODE_QUAD_COUNT \in Nat
  BY RoundsIs, SizesAssumption DEF N
<1>12. x.base \in Int /\ x.run \in Int /\ x.inside \in BOOLEAN /\ x.offset \in Int
  BY <1>9, IteratorIs
<1>13. Position(x) <= UNICODE_MAX + 1 /\ Position(x) \in Int
  <2>1. CASE x.base > UNICODE_MAX
    BY <1>8, <1>10, <1>11, <2>1, RoundAtEnd
  <2>2. CASE ~(x.base > UNICODE_MAX)
    <3>1. i \in Indices
      BY <1>9, <1>11, <2>2, BaseIs DEF Indices
    <3>2. Point(i, x.offset) \in CodePoints
      BY <1>9, <3>1, PointIs
    <3>3. Position(x) = Point(i, x.offset)
      BY <1>9 DEF Position, Point
    <3>4. QED
      BY <1>11, <3>2, <3>3 DEF CodePoints
  <2>3. QED
    BY <2>1, <2>2
<1>14. x.run <= UNICODE_QUAD_COUNT + 1
  <2>1. QuadsBefore(s.runs, x.run) \in 0..UNICODE_QUAD_COUNT
        /\ x.run <= QuadsBefore(s.runs, x.run) + 1
    BY <1>9, RunsAre
  <2>2. QED
    BY <1>11, <1>12, <2>1
<1>15. ~(N <= Pace(points, x))
  <2> DEFINE a == Pace(points, x)
             p == Position(x)
             r == x.run
             u == UNICODE_MAX + 1
  <2>1. a \in Int /\ a <= 2 * p + r + 1
    BY <1>9, PaceIs
  <2>2. p \in Int /\ r \in Int /\ u \in Int /\ p <= u /\ r <= UNICODE_QUAD_COUNT + 1
        /\ UNICODE_QUAD_COUNT <= u /\ N = 3 * u + 3
    BY <1>11, <1>12, <1>13, <1>14
  <2> HIDE DEF a, p, r, u
  <2>3. ~(N <= a)
    BY <1>11, <2>1, <2>2
  <2>4. QED
    BY <2>3 DEF a
<1>16. Over(x)
  BY <1>10, <1>15
<1>17. Position(x) = UNICODE_MAX + 1 /\ ~x.inside
  BY <1>8, <1>10, <1>16, RoundAtEnd DEF Over
<1>18. Covers(points, UNICODE_MAX + 1, x.visited)
  BY <1>10, <1>17 DEF Visiting
<1>19. QED
  BY <1>1, <1>18 DEF x

\* What a list of intervals that covers the points answers.
LEMMA CoveringIs ==
  ASSUME NEW points \in SUBSET CodePoints, NEW list, Covers(points, UNICODE_MAX + 1, list)
  PROVE  /\ Within(list) = points
         /\ \A k \in DOMAIN list : list[k][1] <= list[k][2]
         /\ \A k \in 2..Len(list) : list[k - 1][2] + 1 < list[k][1]
<1>1. /\ list \in Intervalses
      /\ \A k \in 1..Len(list) : list[k][1] <= list[k][2]
      /\ \A k \in 2..Len(list) : list[k - 1][2] + 1 < list[k][1]
      /\ \A c \in Int : InInterval(list, c) <=> c \in points /\ c < UNICODE_MAX + 1
  BY DEF Covers
<1>2. list \in Seq(Int \X Int) /\ DOMAIN list = 1..Len(list)
  BY <1>1 DEF Intervalses
<1>3. \A k \in 1..Len(list) : list[k] \in Int \X Int
  BY <1>2
<1>4. UNICODE_MAX \in Int /\ \A c \in points : c \in Int /\ c < UNICODE_MAX + 1
  BY RoundsIs DEF CodePoints
<1>5. ASSUME NEW c PROVE c \in Within(list) <=> c \in points
  <2>1. c \in Within(list) <=> \E k \in 1..Len(list) : c \in list[k][1]..list[k][2]
    BY <1>2, Zenon DEF Within
  <2>2. c \in Within(list) <=> c \in Int /\ InInterval(list, c)
    <3>1. ASSUME NEW k \in 1..Len(list)
          PROVE  c \in list[k][1]..list[k][2] <=> c \in Int /\ list[k][1] <= c /\ c <= list[k][2]
      <4>1. list[k][1] \in Int /\ list[k][2] \in Int
        BY <1>3
      <4>2. QED
        BY <4>1
    <3>2. QED
      BY <2>1, <3>1, Zenon DEF InInterval
  <2>3. QED
    BY <1>1, <1>4, <2>2
<1>6. Within(list) = points
  BY <1>5
<1>7. QED
  BY <1>1, <1>2, <1>6

\* The loop of intersects over such a list.
NotBelow(list, lo) == {k \in DOMAIN list : list[k][2] >= lo}

LEMMA MeetingIs ==
  ASSUME NEW points \in SUBSET CodePoints, NEW list, NEW lo \in CodePoints,
         NEW hi \in lo..UNICODE_MAX, Covers(points, UNICODE_MAX + 1, list)
  PROVE  NotBelow(list, lo) # {} /\ list[Min(NotBelow(list, lo))][1] <= hi
           <=> (lo..hi) \intersect points # {}
<1> DEFINE n == Len(list)
           notBelow == NotBelow(list, lo)
<1>1. /\ list \in Intervalses
      /\ \A k \in 1..n : list[k][1] <= list[k][2]
      /\ \A k \in 2..n : list[k - 1][2] + 1 < list[k][1]
      /\ \A c \in Int : InInterval(list, c) <=> c \in points /\ c < UNICODE_MAX + 1
  BY DEF Covers
<1>2. list \in Seq(Int \X Int) /\ DOMAIN list = 1..n /\ n \in Nat
  BY <1>1 DEF Intervalses
<1>3. \A k \in 1..n : list[k] \in Int \X Int
  BY <1>2
<1>4. \A k \in 1..n : list[k][1] \in Int /\ list[k][2] \in Int
  BY <1>3
<1>5. UNICODE_MAX \in Int /\ lo \in Int /\ hi \in Int /\ lo <= hi /\ hi <= UNICODE_MAX
  BY RoundsIs DEF CodePoints
<1> DEFINE low == [k \in 1..n |-> list[k][1]]
           m == Min(notBelow)
<1>6. \A k \in 1..n : low[k] = list[k][1]
  OBVIOUS
<1> HIDE DEF low
<1>7. \A i, j \in 1..n : i <= j => low[i] <= low[j]
  <2>1. CASE n = 0
    BY <2>1
  <2>2. CASE n # 0
    <3> DEFINE e == n - 1
    <3>1. e \in Nat /\ e + 1 = n
      BY <1>2, <2>2
    <3> HIDE DEF e, n
    <3>2. \A k \in 1..e + 1 : low[k] \in Int
      BY <1>4, <1>6, <3>1
    <3>3. ASSUME NEW k \in 1..e PROVE low[k] <= low[k + 1]
      <4>1. k \in 1..n /\ k + 1 \in 2..n /\ k + 1 \in 1..n /\ (k + 1) - 1 = k
        BY <3>1
      <4>2. list[k][2] + 1 < list[k + 1][1] /\ list[k][1] <= list[k][2]
        BY <1>1, <4>1
      <4>3. QED
        BY <1>4, <1>6, <4>1, <4>2
    <3>4. \A i, j \in 1..e + 1 : i <= j => low[i] <= low[j]
      BY <3>1, <3>2, <3>3, NeverDecreasing
    <3>5. QED
      BY <3>1, <3>4
  <2>3. QED
    BY <2>1, <2>2
<1>8. notBelow \subseteq 1..n /\ \A k \in 1..n : k \in notBelow <=> list[k][2] >= lo
  BY <1>2 DEF NotBelow
<1> HIDE DEF notBelow
<1>9. notBelow # {} => m \in notBelow /\ \A k \in notBelow : m <= k
  <2>1. SUFFICES ASSUME notBelow # {} PROVE m \in notBelow /\ \A k \in notBelow : m <= k
    OBVIOUS
  <2>2. notBelow \subseteq Nat
    BY <1>2, <1>8
  <2>3. m = CHOOSE k \in notBelow : \A j \in notBelow : k <= j
    BY DEF Min
  <2>4. \E k \in notBelow : \A j \in notBelow : k <= j
    BY <2>1, <2>2, LeastNatural
  <2>5. QED
    BY <2>3, <2>4
<1> HIDE DEF m, n
<1>10. ASSUME notBelow # {}, list[m][1] <= hi PROVE (lo..hi) \intersect points # {}
  <2> DEFINE c == IF list[m][1] <= lo THEN lo ELSE list[m][1]
  <2>1. m \in 1..n /\ list[m][2] >= lo /\ list[m][1] <= list[m][2]
        /\ list[m][1] \in Int /\ list[m][2] \in Int
    BY <1>1, <1>4, <1>8, <1>9, <1>10
  <2>2. c \in Int /\ lo <= c /\ c <= hi /\ list[m][1] <= c /\ c <= list[m][2]
    BY <1>5, <1>10, <2>1
  <2> HIDE DEF c
  <2>3. InInterval(list, c)
    BY <2>1, <2>2 DEF InInterval, n
  <2>4. c \in points
    BY <1>1, <2>2, <2>3
  <2>5. QED
    BY <1>5, <2>2, <2>4
<1>11. ASSUME NEW c \in (lo..hi) \intersect points PROVE notBelow # {} /\ list[m][1] <= hi
  <2>1. c \in Int /\ lo <= c /\ c <= hi /\ c \in points /\ c < UNICODE_MAX + 1
    BY <1>5
  <2>2. InInterval(list, c)
    BY <1>1, <2>1
  <2>3. PICK k \in 1..n : list[k][1] <= c /\ c <= list[k][2]
    BY <2>2 DEF InInterval, n
  <2>4. list[k][1] \in Int /\ list[k][2] \in Int
    BY <1>4
  <2>5. k \in notBelow
    BY <1>5, <1>8, <2>1, <2>3, <2>4
  <2>6. m \in 1..n /\ m <= k
    BY <1>8, <1>9, <2>5
  <2>7. list[m][1] <= list[k][1] /\ list[m][1] \in Int
    BY <1>4, <1>6, <1>7, <2>6
  <2>8. QED
    BY <1>5, <2>1, <2>3, <2>4, <2>5, <2>7
<1>12. QED
  BY <1>10, <1>11 DEF m, notBelow

\* For every size of quad and of code point space, iterating over an object that any
\* operations have made, off the operands they break, visits its members as maximal
\* intervals in order, and intersects finds every common code point.
THEOREM IteratingIsExact == Spec => []IntervalsAreExact
<1>1. IInv => IntervalsAreExact
  <2> DEFINE list == Intervals(set)
  <2>1. SUFFICES ASSUME IInv, sound
                 PROVE  /\ Within(list) = members
                        /\ \A k \in DOMAIN list : list[k][1] <= list[k][2]
                        /\ \A k \in 2..Len(list) : list[k - 1][2] + 1 < list[k][1]
                        /\ \A lo \in CodePoints : \A hi \in lo..UNICODE_MAX :
                             intersects(set, lo, hi) <=> (lo..hi) \intersect members # {}
    BY DEF IntervalsAreExact
  <2>2. Right(set, members) /\ members \in SUBSET CodePoints
    BY <2>1 DEF IInv
  <2>3. Covers(members, UNICODE_MAX + 1, list)
    BY <2>2, IntervalsCover
  <2>4. ASSUME NEW lo \in CodePoints, NEW hi \in lo..UNICODE_MAX
        PROVE  intersects(set, lo, hi) <=> (lo..hi) \intersect members # {}
    <3>1. intersects(set, lo, hi)
            <=> NotBelow(list, lo) # {} /\ list[Min(NotBelow(list, lo))][1] <= hi
      BY DEF intersects, NotBelow
    <3> HIDE DEF list
    <3>2. NotBelow(list, lo) # {} /\ list[Min(NotBelow(list, lo))][1] <= hi
            <=> (lo..hi) \intersect members # {}
      BY <2>2, <2>3, MeetingIs
    <3>3. QED
      BY <3>1, <3>2
  <2> HIDE DEF list
  <2>5. /\ Within(list) = members
        /\ \A k \in DOMAIN list : list[k][1] <= list[k][2]
        /\ \A k \in 2..Len(list) : list[k - 1][2] + 1 < list[k][1]
    BY <2>2, <2>3, CoveringIs
  <2>6. QED
    BY <2>4, <2>5
<1>2. QED
  BY <1>1, Invariant, PTL
=============================================================================
