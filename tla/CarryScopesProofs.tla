------------------------- MODULE CarryScopesProofs -------------------------
(* Two parts. The layout of the carry frame: no two statements and no two    *)
(* summaries share a pack, and a nested scope lies within the scope around   *)
(* it. Then what a program carries comes in again: the invariants of         *)
(* CarryScopes, for every program that is Supported, from an inductive       *)
(* invariant that says what every pack and every summary holds at every      *)
(* statement.                                                                *)
EXTENDS CarryScopes, ProofFacts, FiniteSetTheorems, TLAPS

-----------------------------------------------------------------------------
(* Sums over finite sets, as SumFunctionOnSet of the community modules       *)
(* defines them.                                                             *)

LEMMA SumIsLast ==
  ASSUME NEW f, NEW S
  PROVE  SumFunctionOnSet(f, S) = (CHOOSE g : Sums(f, S, g))[S]
BY DEF SumFunctionOnSet, FoldFunctionOnSet, MapThenFoldSet, Sums, Pick

LEMMA SumSame ==
  ASSUME NEW f, NEW h, NEW S, IsFiniteSet(S), \A x \in S : f[x] = h[x]
  PROVE  SumFunctionOnSet(f, S) = SumFunctionOnSet(h, S)
<1> DEFINE g == CHOOSE g : Sums(f, S, g)
           k == CHOOSE k : Sums(h, S, k)
<1>1. Sums(f, S, g) /\ Sums(h, S, k)
  BY SumsExist
<1>2. SumFunctionOnSet(f, S) = g[S] /\ SumFunctionOnSet(h, S) = k[S]
  BY SumIsLast
<1> HIDE DEF g, k
<1>3. QED
  BY <1>1, <1>2, SumsAgree

\* The sum over a finite set, by what is left when an element is taken out of it.
LEMMA SumIs ==
  ASSUME NEW f, NEW S, IsFiniteSet(S), \A x \in S : f[x] \in Nat
  PROVE  /\ SumFunctionOnSet(f, S) \in Nat
         /\ S = {} => SumFunctionOnSet(f, S) = 0
         /\ \A x \in S : SumFunctionOnSet(f, S) = f[x] + SumFunctionOnSet(f, S \ {x})
<1> DEFINE g == CHOOSE g : Sums(f, S, g)
<1>1. Sums(f, S, g)
  BY SumsExist
<1>2. SumFunctionOnSet(f, S) = g[S]
  BY SumIsLast
<1> HIDE DEF g
<1>3. /\ g[S] \in Nat
      /\ S = {} => g[S] = 0
      /\ \A x \in S : g[S] = f[x] + g[S \ {x}]
  <2>1. S \in SUBSET S
    OBVIOUS
  <2>2. \A s \in SUBSET S :
          /\ g[s] \in Nat
          /\ s = {} => g[s] = 0
          /\ \A x \in s : g[s] = f[x] + g[s \ {x}]
    BY <1>1, SumsAre
  <2>3. QED
    BY <2>1, <2>2
<1>4. ASSUME NEW x \in S PROVE g[S \ {x}] = SumFunctionOnSet(f, S \ {x})
  <2> DEFINE T == S \ {x}
             k == CHOOSE k : Sums(f, T, k)
  <2>1. IsFiniteSet(T)
    BY FS_RemoveElement
  <2>2. Sums(f, T, k) /\ SumFunctionOnSet(f, T) = k[T] /\ T \in SUBSET (S \cap T)
    BY <2>1, SumsExist, SumIsLast
  <2> HIDE DEF k, T
  <2>3. g[T] = k[T]
    BY <1>1, <2>1, <2>2, SumsAgree
  <2>4. QED
    BY <2>2, <2>3 DEF T
<1>5. QED
  BY <1>2, <1>3, <1>4

LEMMA SumMonotone ==
  ASSUME NEW f, NEW S, IsFiniteSet(S), \A x \in S : f[x] \in Nat, NEW T \in SUBSET S
  PROVE  SumFunctionOnSet(f, T) <= SumFunctionOnSet(f, S)
<1> DEFINE W == {s \in SUBSET S : T \subseteq s /\ ~(SumFunctionOnSet(f, T) <= SumFunctionOnSet(f, s))}
<1>1. SUFFICES ASSUME W # {} PROVE FALSE
  BY Zenon
<1>2. \A s \in SUBSET S : /\ IsFiniteSet(s) /\ Cardinality(s) \in Nat
                          /\ SumFunctionOnSet(f, s) \in Nat
                          /\ \A x \in s : /\ f[x] \in Nat
                                          /\ SumFunctionOnSet(f, s) = f[x] + SumFunctionOnSet(f, s \ {x})
  BY FS_Subset, FS_CardinalityType, SumIs
<1>3. PICK s \in W : \A t \in W : ~(Cardinality(t) < Cardinality(s))
  <2>1. \A t \in W : IsFiniteSet(t)
    BY <1>2
  <2> HIDE DEF W
  <2>2. QED
    BY <1>1, <2>1, SmallestSet
<1>4. s # T
  BY <1>2
<1>5. PICK x \in s : x \notin T
  BY <1>4
<1>6. s \ {x} \notin W
  <2>1. s \in SUBSET S
    OBVIOUS
  <2>2. Cardinality(s \ {x}) < Cardinality(s)
    BY <1>2, <2>1, FS_RemoveElement
  <2> HIDE DEF W
  <2>3. QED
    BY <1>3, <2>2
<1>7. SumFunctionOnSet(f, T) <= SumFunctionOnSet(f, s \ {x})
  BY <1>5, <1>6
<1>8. /\ SumFunctionOnSet(f, s) = f[x] + SumFunctionOnSet(f, s \ {x})
      /\ SumFunctionOnSet(f, s \ {x}) \in Nat /\ f[x] \in Nat /\ SumFunctionOnSet(f, T) \in Nat
  BY <1>2
<1>9. ~(SumFunctionOnSet(f, T) <= SumFunctionOnSet(f, s))
  OBVIOUS
<1>10. QED
  BY <1>7, <1>8, <1>9

-----------------------------------------------------------------------------
(* The tree of scopes.                                                      *)

LEMMA ScopesAre ==
  ASSUME NEW p, WellFormed(p)
  PROVE  /\ Len(p) \in Nat \ {0} /\ DOMAIN p = 1..Len(p) /\ 1 \in DOMAIN p
         /\ \A s \in DOMAIN p \ {1} :
              p[s].parent \in DOMAIN p /\ p[s].parent < s /\ p[s].parent \in Nat /\ s \in Nat
BY DEF WellFormed

\* f maps the first n scopes to the scopes around them.
Ups(p, n, f) == f = [t \in 1..n |-> {t} \union (IF t = 1 THEN {} ELSE f[p[t].parent])]

LEMMA UpsExist ==
  ASSUME NEW p, WellFormed(p)
  PROVE  \E f : Ups(p, Len(p), f)
<1> DEFINE T == {n \in 0..Len(p) : ~\E f : Ups(p, n, f)}
<1>0. Len(p) \in Nat \ {0} /\ \A s \in 2..Len(p) : p[s].parent \in 1..s - 1
  BY DEF WellFormed
<1>1. T = {}
  <2>1. SUFFICES ASSUME T # {} PROVE FALSE
    OBVIOUS
  <2>2. PICK n \in T : \A k \in T : n <= k
    <3>1. T \subseteq Nat
      BY <1>0
    <3> HIDE DEF T
    <3>2. QED
      BY <2>1, <3>1, LeastNatural
  <2>3. CASE n = 0
    <3> DEFINE f == [t \in 1..0 |-> {}]
    <3>1. Ups(p, 0, f)
      BY DEF Ups
    <3> HIDE DEF f
    <3>2. QED
      BY <2>2, <2>3, <3>1
  <2>4. CASE n # 0
    <3>1. n - 1 \in 0..Len(p) /\ n \in Nat
      BY <1>0, <2>2, <2>4
    <3>2. PICK g : Ups(p, n - 1, g)
      <4>1. n - 1 \notin T
        <5> HIDE DEF T
        <5>1. QED
          BY <2>2, <3>1
      <4>2. QED
        BY <3>1, <4>1
    <3> DEFINE step(k) == [t \in 1..n |-> {t} \union (IF t = 1 THEN {} ELSE k[p[t].parent])]
               h == step(g)
    <3>3. \A t \in 1..n - 1 : t \in 1..n /\ h[t] = g[t]
      <4>1. \A t \in 1..n - 1 : g[t] = {t} \union (IF t = 1 THEN {} ELSE g[p[t].parent])
        BY <3>2 DEF Ups
      <4>2. \A t \in 1..n - 1 : t \in 1..n
        BY <3>1
      <4>3. QED
        BY <4>1, <4>2
    <3>4. \A t \in 1..n : t # 1 => p[t].parent \in 1..n - 1
      <4>1. \A t \in 1..n : t # 1 => t \in 2..Len(p) /\ t <= n
        BY <1>0, <3>1
      <4>2. \A t \in 1..n : t # 1 => p[t].parent \in 1..t - 1
        BY <1>0, <4>1
      <4>3. QED
        BY <3>1, <4>2
    <3>5. \A t \in 1..n : h[t] = step(h)[t]
      <4>1. \A t \in 1..n : h[t] = {t} \union (IF t = 1 THEN {} ELSE g[p[t].parent])
        OBVIOUS
      <4>2. \A t \in 1..n : t # 1 => h[p[t].parent] = g[p[t].parent]
        <5> HIDE DEF h
        <5>1. QED
          BY <3>3, <3>4
      <4> HIDE DEF h
      <4>3. QED
        BY <4>1, <4>2
    <3>6. h = [t \in 1..n |-> h[t]] /\ step(h) = [t \in 1..n |-> step(h)[t]]
      OBVIOUS
    <3>7. h = step(h)
      <4> HIDE DEF h, step
      <4>1. QED
        BY <3>5, <3>6
    <3> HIDE DEF h
    <3>8. Ups(p, n, h)
      BY <3>7 DEF Ups
    <3>9. QED
      BY <2>2, <3>8
  <2>5. QED
    BY <2>3, <2>4
<1>2. Len(p) \in 0..Len(p)
  BY <1>0
<1>3. QED
  BY <1>1, <1>2

LEMMA AroundIs ==
  ASSUME NEW p, WellFormed(p), NEW s \in DOMAIN p
  PROVE  Around(p, s) = {s} \union (IF s = 1 THEN {} ELSE Around(p, p[s].parent))
<1> DEFINE f == CHOOSE f : f = [t \in DOMAIN p |-> {t} \union (IF t = 1 THEN {} ELSE f[p[t].parent])]
<1>1. \A t : Around(p, t) = f[t]
  BY DEF Around
<1>2. f = [t \in DOMAIN p |-> {t} \union (IF t = 1 THEN {} ELSE f[p[t].parent])]
  <2>1. DOMAIN p = 1..Len(p)
    BY ScopesAre
  <2>2. PICK h : Ups(p, Len(p), h)
    BY UpsExist
  <2>3. h = [t \in DOMAIN p |-> {t} \union (IF t = 1 THEN {} ELSE h[p[t].parent])]
    BY <2>1, <2>2 DEF Ups
  <2>4. QED
    BY <2>3
<1> HIDE DEF f
<1>3. f[s] = {s} \union (IF s = 1 THEN {} ELSE f[p[s].parent])
  BY <1>2
<1>4. QED
  BY <1>1, <1>3

\* The scopes around a scope are a chain, from the entry block inwards.
LEMMA AroundChain ==
  ASSUME NEW p, WellFormed(p)
  PROVE  \A s \in DOMAIN p :
           /\ s \in Around(p, s) /\ 1 \in Around(p, s) /\ Around(p, s) \subseteq 1..s
           /\ \A t \in Around(p, s) : Around(p, t) \subseteq Around(p, s)
           /\ \A t \in Around(p, s) \ {s} : \E c \in Children(p, t) : c \in Around(p, s)
           /\ \A t, u \in Around(p, s) : t \in Around(p, u) \/ u \in Around(p, t)
<1> DEFINE Chain(s) == /\ s \in Around(p, s) /\ 1 \in Around(p, s) /\ Around(p, s) \subseteq 1..s
                       /\ \A t \in Around(p, s) : Around(p, t) \subseteq Around(p, s)
                       /\ \A t \in Around(p, s) \ {s} : \E c \in Children(p, t) : c \in Around(p, s)
                       /\ \A t, u \in Around(p, s) : t \in Around(p, u) \/ u \in Around(p, t)
           T == {s \in DOMAIN p : ~Chain(s)}
<1>1. SUFFICES ASSUME T # {} PROVE FALSE
  OBVIOUS
<1>2. PICK s \in T : \A k \in T : s <= k
  <2>1. T \subseteq Nat
    BY ScopesAre
  <2> HIDE DEF T
  <2>2. QED
    BY <1>1, <2>1, LeastNatural
<1>3. s \in DOMAIN p /\ s \in 1..Len(p)
  BY ScopesAre
<1>4. CASE s = 1
  <2>1. Around(p, s) = {1}
    BY <1>3, <1>4, AroundIs
  <2>2. Chain(s)
    BY <1>4, <2>1
  <2>3. QED
    BY <2>2
<1>5. CASE s # 1
  <2> DEFINE q == p[s].parent
  <2>1. q \in DOMAIN p /\ q < s /\ q \in Nat /\ s \in Nat
    BY <1>3, <1>5, ScopesAre
  <2>2. Around(p, s) = {s} \union Around(p, q)
    BY <1>3, <1>5, AroundIs
  <2>3. s \in Children(p, q)
    BY <1>3, <1>5 DEF Children
  <2> HIDE DEF q
  <2>4. Chain(q)
    <3>1. q \notin T
      <4> HIDE DEF T
      <4>1. QED
        BY <1>2, <2>1
    <3> HIDE DEF Chain
    <3>2. QED
      BY <2>1, <3>1
  <2>5. s \in Around(p, s) /\ 1 \in Around(p, s) /\ Around(p, s) \subseteq 1..s
    BY <2>1, <2>2, <2>4
  <2>6. ASSUME NEW t \in Around(p, s) PROVE Around(p, t) \subseteq Around(p, s)
    BY <2>2, <2>4
  <2>7. ASSUME NEW t \in Around(p, s) \ {s} PROVE \E c \in Children(p, t) : c \in Around(p, s)
    <3>1. CASE t = q
      BY <2>2, <2>3, <3>1
    <3>2. CASE t # q
      BY <2>2, <2>4, <3>2
    <3>3. QED
      BY <3>1, <3>2
  <2>8. ASSUME NEW t \in Around(p, s), NEW u \in Around(p, s)
        PROVE  t \in Around(p, u) \/ u \in Around(p, t)
    BY <2>2, <2>4, <2>5
  <2>9. Chain(s)
    BY <2>5, <2>6, <2>7, <2>8
  <2>10. QED
    BY <2>9
<1>6. QED
  BY <1>4, <1>5

-----------------------------------------------------------------------------
(* Widths.                                                                  *)

\* f maps the number of rounds to the size that the loop of power2ceil has come to.
Doubles(n, f) == f = [k \in 0..n |-> IF k = 0 THEN 1 ELSE 2 * f[k - 1]]

LEMMA DoublesExist ==
  ASSUME NEW m \in Nat
  PROVE  \E f : Doubles(m, f)
<1> DEFINE T == {n \in Nat : ~\E f : Doubles(n, f)}
<1>1. SUFFICES ASSUME T # {} PROVE FALSE
  OBVIOUS
<1>2. PICK n \in T : \A k \in T : n <= k
  <2>1. T \subseteq Nat
    OBVIOUS
  <2> HIDE DEF T
  <2>2. QED
    BY <1>1, <2>1, LeastNatural
<1>3. CASE n = 0
  <2> DEFINE f == [k \in 0..0 |-> 1]
  <2>1. Doubles(0, f)
    BY DEF Doubles
  <2> HIDE DEF f
  <2>2. QED
    BY <1>2, <1>3, <2>1
<1>4. CASE n # 0
  <2>1. n - 1 \in Nat /\ n \in Nat
    BY <1>2, <1>4
  <2>2. PICK g : Doubles(n - 1, g)
    <3>1. n - 1 \notin T
      <4> HIDE DEF T
      <4>1. QED
        BY <1>2, <2>1
    <3>2. QED
      BY <2>1, <3>1
  <2> DEFINE step(f) == [k \in 0..n |-> IF k = 0 THEN 1 ELSE 2 * f[k - 1]]
             h == step(g)
  <2>3. \A k \in 0..n - 1 : k \in 0..n /\ h[k] = g[k]
    <3>1. \A k \in 0..n - 1 : g[k] = IF k = 0 THEN 1 ELSE 2 * g[k - 1]
      BY <2>2 DEF Doubles
    <3>2. \A k \in 0..n - 1 : k \in 0..n
      BY <2>1
    <3>3. QED
      BY <3>1, <3>2
  <2>4. \A k \in 0..n : k # 0 => k - 1 \in 0..n - 1
    BY <2>1
  <2>5. \A k \in 0..n : h[k] = step(h)[k]
    <3>1. \A k \in 0..n : h[k] = IF k = 0 THEN 1 ELSE 2 * g[k - 1]
      OBVIOUS
    <3> HIDE DEF h
    <3>2. QED
      BY <2>3, <2>4, <3>1
  <2>6. h = [k \in 0..n |-> h[k]] /\ step(h) = [k \in 0..n |-> step(h)[k]]
    OBVIOUS
  <2>7. h = step(h)
    <3> HIDE DEF h, step
    <3>1. QED
      BY <2>5, <2>6
  <2> HIDE DEF h
  <2>8. Doubles(n, h)
    BY <2>7 DEF Doubles
  <2>9. QED
    BY <1>2, <2>8
<1>5. QED
  BY <1>3, <1>4

\* power2ceil returns at least its argument, and never zero.
THEOREM power2ceilIs ==
  ASSUME NEW v \in Nat
  PROVE  power2ceil(v) \in Nat \ {0} /\ power2ceil(v) >= v
<1> DEFINE ceil == CHOOSE f : f = [k \in 0..v |-> IF k = 0 THEN 1 ELSE 2 * f[k - 1]]
           large == {k \in 0..v : ceil[k] >= v}
<1>1. power2ceil(v) = ceil[Min(large)]
  BY DEF power2ceil
<1>2. ceil = [k \in 0..v |-> IF k = 0 THEN 1 ELSE 2 * ceil[k - 1]]
  <2>1. PICK f : Doubles(v, f)
    BY DoublesExist
  <2>2. QED
    BY <2>1 DEF Doubles
<1> HIDE DEF ceil
<1>3. \A k \in 0..v : ceil[k] \in Nat /\ ceil[k] >= k + 1
  <2> DEFINE T == {k \in 0..v : ~(ceil[k] \in Nat /\ ceil[k] >= k + 1)}
  <2>1. SUFFICES ASSUME T # {} PROVE FALSE
    OBVIOUS
  <2>2. PICK n \in T : \A k \in T : n <= k
    <3>1. T \subseteq Nat
      OBVIOUS
    <3> HIDE DEF T
    <3>2. QED
      BY <2>1, <3>1, LeastNatural
  <2>3. n \in 0..v /\ ceil[n] = IF n = 0 THEN 1 ELSE 2 * ceil[n - 1]
    BY <1>2
  <2>4. CASE n = 0
    BY <2>3, <2>4
  <2>5. CASE n # 0
    <3>1. n - 1 \in 0..v /\ n - 1 \notin T
      <4> HIDE DEF T
      <4>1. QED
        BY <2>2, <2>3, <2>5
    <3>2. ceil[n - 1] \in Nat /\ ceil[n - 1] >= n
      BY <2>3, <3>1
    <3>3. QED
      BY <2>3, <2>5, <3>2
  <2>6. QED
    BY <2>4, <2>5
<1>4. Min(large) \in large
  <2>1. v \in large
    BY <1>3
  <2>2. large \subseteq Nat
    OBVIOUS
  <2> HIDE DEF large
  <2>3. \E m \in large : \A k \in large : m <= k
    BY <2>1, <2>2, LeastNatural
  <2>4. QED
    BY <2>3 DEF Min
<1>5. QED
  BY <1>1, <1>3, <1>4

\* A statement that carries has a pack.
LEMMA WidthIs ==
  ASSUME NEW p, WellFormed(p), NEW s \in DOMAIN p, NEW i \in DOMAIN p[s].body
  PROVE  Width(p[s].body[i]) \in Nat \ {0}
<1>1. p[s].body[i].type = "long" => p[s].body[i].n \in Nat
  BY MaxRingAssumption DEF WellFormed
<1>2. QED
  BY <1>1, power2ceilIs DEF Width, longAdvanceBufferSize

Lengths(p, s) == [i \in DOMAIN p[s].body |-> Width(p[s].body[i])]
LocalSize(p, s) == Widths(p, s, Local(p, s))

LEMMA LengthsAre ==
  ASSUME NEW p, WellFormed(p), NEW s \in DOMAIN p
  PROVE  /\ \A positions : Widths(p, s, positions) = SumFunctionOnSet(Lengths(p, s), positions)
         /\ IsFiniteSet(Local(p, s)) /\ Local(p, s) \subseteq DOMAIN p[s].body
         /\ DOMAIN p[s].body \subseteq Nat
         /\ \A i \in DOMAIN p[s].body :
              Lengths(p, s)[i] = Width(p[s].body[i]) /\ Lengths(p, s)[i] \in Nat \ {0}
<1>1. Len(p[s].body) \in Nat /\ DOMAIN p[s].body = 1..Len(p[s].body)
  BY DEF WellFormed
<1>2. IsFiniteSet(DOMAIN p[s].body)
  BY <1>1, FS_Interval
<1>3. Local(p, s) \in SUBSET DOMAIN p[s].body
  BY DEF Local
<1>4. IsFiniteSet(Local(p, s))
  BY <1>2, <1>3, FS_Subset
<1>5. \A i \in DOMAIN p[s].body : Width(p[s].body[i]) \in Nat \ {0}
  BY WidthIs
<1>6. \A positions : Widths(p, s, positions) = SumFunctionOnSet(Lengths(p, s), positions)
  BY DEF Widths, Lengths
<1>7. DOMAIN p[s].body \subseteq Nat
  BY <1>1
<1>8. QED
  BY <1>3, <1>4, <1>5, <1>6, <1>7 DEF Lengths

\* The statements of a scope that are laid out before statement i.
Rank(p, s, i) == CHOOSE r \in DOMAIN Classes : Classes[r] = p[s].body[i].type
Earlier(p, s, i) ==
  {j \in Local(p, s) : Rank(p, s, j) < Rank(p, s, i) \/ (Rank(p, s, j) = Rank(p, s, i) /\ j < i)}

\* The packs of two statements of a scope are apart, and within those of its statements.
LEMMA OffsetsAre ==
  ASSUME NEW p, WellFormed(p), NEW s \in DOMAIN p
  PROVE  /\ LocalSize(p, s) \in Nat
         /\ \A i \in Local(p, s) :
              /\ Offset(p, s, i) \in Nat
              /\ Offset(p, s, i) + Width(p[s].body[i]) <= LocalSize(p, s)
              /\ \A j \in Local(p, s) \ {i} :
                   \/ Offset(p, s, i) + Width(p[s].body[i]) <= Offset(p, s, j)
                   \/ Offset(p, s, j) + Width(p[s].body[j]) <= Offset(p, s, i)
<1> DEFINE w == Lengths(p, s)
           L == Local(p, s)
           Sum(S) == SumFunctionOnSet(w, S)
           Before(i) == Earlier(p, s, i)
<1>1. /\ IsFiniteSet(L) /\ L \subseteq Nat
      /\ \A i \in L : w[i] = Width(p[s].body[i]) /\ w[i] \in Nat \ {0}
  BY LengthsAre
<1>2. /\ LocalSize(p, s) = Sum(L)
      /\ \A i \in L : Offset(p, s, i) = Sum(Before(i))
  BY LengthsAre DEF LocalSize, Offset, Earlier, Rank
<1>3. \A i \in L : Rank(p, s, i) \in Nat
  <2>1. ASSUME NEW i \in L PROVE \E r \in DOMAIN Classes : Classes[r] = p[s].body[i].type
    <3>1. p[s].body[i].type \in ToSet(Classes)
      BY DEF WellFormed, Local
    <3>2. QED
      BY <3>1 DEF ToSet
  <2>2. DOMAIN Classes \subseteq Nat
    BY DEF Classes
  <2>3. QED
    BY <2>1, <2>2 DEF Rank
<1>4. \A S \in SUBSET L :
        /\ IsFiniteSet(S) /\ Sum(S) \in Nat
        /\ \A T \in SUBSET S : Sum(T) <= Sum(S)
        /\ \A x \in S : Sum(S) = w[x] + Sum(S \ {x})
  BY <1>1, FS_Subset, SumMonotone, SumIs
<1>5. \A i \in L : Before(i) \in SUBSET L /\ i \notin Before(i)
  BY <1>1, <1>3 DEF Earlier
<1>6. \A i \in L : \A S \in SUBSET L : Before(i) \union {i} \subseteq S => Sum(Before(i)) + w[i] <= Sum(S)
  <2>1. SUFFICES ASSUME NEW i \in L, NEW S \in SUBSET L, Before(i) \union {i} \subseteq S
                 PROVE  Sum(Before(i)) + w[i] <= Sum(S)
    OBVIOUS
  <2> DEFINE B == Before(i) \union {i}
  <2>2. B \in SUBSET L /\ B \in SUBSET S /\ i \in B /\ B \ {i} = Before(i)
    BY <1>5, <2>1
  <2> HIDE DEF B, Sum, Before, L, w
  <2>3. Sum(B) = w[i] + Sum(Before(i)) /\ Sum(B) <= Sum(S)
    BY <1>4, <2>2
  <2>4. QED
    BY <1>1, <1>4, <1>5, <2>3
<1>7. \A i, j \in L : i # j => \/ Before(i) \union {i} \subseteq Before(j)
                              \/ Before(j) \union {j} \subseteq Before(i)
  <2>1. SUFFICES ASSUME NEW i \in L, NEW j \in L, i # j
                 PROVE  \/ Before(i) \union {i} \subseteq Before(j)
                        \/ Before(j) \union {j} \subseteq Before(i)
    OBVIOUS
  <2>2. CASE i \in Before(j)
    BY <1>1, <1>3, <2>2 DEF Earlier
  <2>3. CASE j \in Before(i)
    BY <1>1, <1>3, <2>3 DEF Earlier
  <2>4. i \in Before(j) \/ j \in Before(i)
    BY <1>1, <1>3, <2>1 DEF Earlier
  <2>5. QED
    BY <2>2, <2>3, <2>4
<1> HIDE DEF Sum, Before, L, w
<1>8. \A i \in L : \A j \in L \ {i} : \/ Sum(Before(i)) + w[i] <= Sum(Before(j))
                                   \/ Sum(Before(j)) + w[j] <= Sum(Before(i))
  BY <1>5, <1>6, <1>7
<1>9. \A i \in L : Sum(Before(i)) + w[i] <= Sum(L)
  BY <1>5, <1>6
<1>10. Sum(L) \in Nat /\ \A i \in L : Sum(Before(i)) \in Nat
  BY <1>4, <1>5
<1>11. QED
  BY <1>1, <1>2, <1>8, <1>9, <1>10 DEF L

-----------------------------------------------------------------------------
(* Sizes and bases.                                                         *)

LEMMA ChildrenAre ==
  ASSUME NEW p, WellFormed(p), NEW s \in DOMAIN p
  PROVE  /\ Children(p, s) \subseteq s + 1..Len(p) /\ IsFiniteSet(Children(p, s))
         /\ s \in Nat /\ Children(p, s) \subseteq DOMAIN p
<1>1. DOMAIN p = 1..Len(p) /\ Len(p) \in Nat /\ s \in Nat
  BY ScopesAre
<1>2. \A c \in Children(p, s) : c \in DOMAIN p /\ s < c
  BY ScopesAre DEF Children
<1>3. Children(p, s) \in SUBSET (s + 1..Len(p))
  BY <1>1, <1>2
<1>4. IsFiniteSet(s + 1..Len(p))
  BY <1>1, FS_Interval
<1>5. QED
  BY <1>1, <1>2, <1>3, <1>4, FS_Subset

\* The size of a scope, given those of the scopes nested in it.
SizeFrom(p, s, f) ==
  LET nested == Widths(p, s, Local(p, s)) + SumFunctionOnSet(f, Children(p, s))
  IN  IF DepthOf(p, s, "if") > 0 /\ nested > 1 THEN nested + 1 ELSE nested

SizesFrom(p, m, f) == f = [s \in m..Len(p) |-> SizeFrom(p, s, f)]

LEMMA SizesExist ==
  ASSUME NEW p, WellFormed(p)
  PROVE  \E f : SizesFrom(p, 1, f)
<1> DEFINE T == {n \in 0..Len(p) : ~\E f : SizesFrom(p, Len(p) + 1 - n, f)}
<1>0. Len(p) \in Nat \ {0} /\ DOMAIN p = 1..Len(p)
  BY ScopesAre
<1>1. T = {}
  <2>1. SUFFICES ASSUME T # {} PROVE FALSE
    OBVIOUS
  <2>2. PICK n \in T : \A k \in T : n <= k
    <3>1. T \subseteq Nat
      BY <1>0
    <3> HIDE DEF T
    <3>2. QED
      BY <2>1, <3>1, LeastNatural
  <2>3. CASE n = 0
    <3> DEFINE f == [t \in Len(p) + 1..Len(p) |-> 0]
    <3>1. Len(p) + 1..Len(p) = {} /\ Len(p) + 1 - 0 = Len(p) + 1
      BY <1>0
    <3>2. SizesFrom(p, Len(p) + 1, f)
      BY <3>1 DEF SizesFrom
    <3> HIDE DEF f
    <3>3. QED
      BY <2>2, <2>3, <3>1, <3>2
  <2>4. CASE n # 0
    <3> DEFINE m == Len(p) + 1 - n
    <3>1. n - 1 \in 0..Len(p) /\ n \in Nat /\ m \in 1..Len(p) /\ Len(p) + 1 - (n - 1) = m + 1
      BY <1>0, <2>2, <2>4
    <3>2. PICK g : SizesFrom(p, m + 1, g)
      <4>1. n - 1 \notin T
        <5> HIDE DEF T, m
        <5>1. QED
          BY <2>2, <3>1
      <4>2. QED
        BY <3>1, <4>1
    <3> HIDE DEF m
    <3> DEFINE step(k) == [s \in m..Len(p) |-> SizeFrom(p, s, k)]
               h == step(g)
    <3>3. \A s \in m + 1..Len(p) : s \in m..Len(p) /\ h[s] = g[s]
      <4>1. \A s \in m + 1..Len(p) : g[s] = SizeFrom(p, s, g)
        BY <3>2 DEF SizesFrom
      <4>2. \A s \in m + 1..Len(p) : s \in m..Len(p)
        BY <1>0, <3>1
      <4>3. QED
        BY <4>1, <4>2
    <3>4. \A s \in m..Len(p) : h[s] = step(h)[s]
      <4>1. \A s \in m..Len(p) : h[s] = SizeFrom(p, s, g) /\ step(h)[s] = SizeFrom(p, s, h)
        OBVIOUS
      <4> HIDE DEF h
      <4>2. ASSUME NEW s \in m..Len(p) PROVE SizeFrom(p, s, g) = SizeFrom(p, s, h)
        <5>1. s \in DOMAIN p
          BY <1>0, <3>1
        <5>2. IsFiniteSet(Children(p, s)) /\ Children(p, s) \subseteq s + 1..Len(p) /\ s \in Nat
          BY <5>1, ChildrenAre
        <5>3. \A c \in Children(p, s) : c \in m + 1..Len(p)
          BY <1>0, <3>1, <5>2
        <5>4. SumFunctionOnSet(g, Children(p, s)) = SumFunctionOnSet(h, Children(p, s))
          BY <3>3, <5>2, <5>3, SumSame
        <5>5. QED
          BY <5>4 DEF SizeFrom
      <4>3. QED
        BY <4>1, <4>2
    <3>5. h = [s \in m..Len(p) |-> h[s]] /\ step(h) = [s \in m..Len(p) |-> step(h)[s]]
      OBVIOUS
    <3>6. h = step(h)
      <4> HIDE DEF h, step
      <4>1. QED
        BY <3>4, <3>5
    <3> HIDE DEF h
    <3>7. SizesFrom(p, m, h)
      BY <3>6 DEF SizesFrom
    <3>8. QED
      BY <2>2, <3>7 DEF m
  <2>5. QED
    BY <2>3, <2>4
<1>2. Len(p) \in 0..Len(p) /\ Len(p) + 1 - Len(p) = 1
  BY <1>0
<1>3. QED
  BY <1>1, <1>2

NestedSize(p, s) == SumFunctionOnSet(Sizes(p), Children(p, s))
HasSummary(p, s) == DepthOf(p, s, "if") > 0 /\ Sizes(p)[s] > 1

LEMMA SizesAre ==
  ASSUME NEW p, WellFormed(p)
  PROVE  \A s \in DOMAIN p :
           /\ Sizes(p)[s] \in Nat /\ NestedSize(p, s) \in Nat /\ LocalSize(p, s) \in Nat
           /\ Sizes(p)[s] = LocalSize(p, s) + NestedSize(p, s) + (IF HasSummary(p, s) THEN 1 ELSE 0)
<1> DEFINE f == CHOOSE f : f = [s \in DOMAIN p |->
                   LET nested == Widths(p, s, Local(p, s)) + SumFunctionOnSet(f, Children(p, s))
                   IN  IF DepthOf(p, s, "if") > 0 /\ nested > 1 THEN nested + 1 ELSE nested]
<1>0. Len(p) \in Nat \ {0} /\ DOMAIN p = 1..Len(p)
  BY ScopesAre
<1>1. Sizes(p) = f
  BY DEF Sizes
<1>2. f = [s \in DOMAIN p |-> SizeFrom(p, s, f)]
  <2>1. PICK g : g = [s \in DOMAIN p |-> SizeFrom(p, s, g)]
    BY <1>0, SizesExist DEF SizesFrom
  <2>2. QED
    BY <2>1 DEF SizeFrom
<1> HIDE DEF f
<1>3. \A s \in DOMAIN p : f[s] = SizeFrom(p, s, f)
  BY <1>2
<1>4. \A s \in DOMAIN p : LocalSize(p, s) \in Nat
  BY OffsetsAre
<1>5. \A s \in DOMAIN p : SumFunctionOnSet(f, Children(p, s)) \in Nat => f[s] \in Nat
  BY <1>3, <1>4 DEF SizeFrom, LocalSize
<1>6. \A s \in DOMAIN p : (\A c \in Children(p, s) : f[c] \in Nat) => SumFunctionOnSet(f, Children(p, s)) \in Nat
  BY ChildrenAre, SumIs
<1>7. \A s \in DOMAIN p : f[s] \in Nat
  <2> DEFINE T == {n \in Nat : \E s \in DOMAIN p : n = Len(p) - s /\ f[s] \notin Nat}
  <2>1. SUFFICES ASSUME NEW s \in DOMAIN p, f[s] \notin Nat PROVE FALSE
    OBVIOUS
  <2>2. T # {} /\ T \subseteq Nat
    <3>1. Len(p) - s \in Nat
      BY <1>0
    <3>2. QED
      BY <2>1, <3>1
  <2>3. PICK n \in T : \A k \in T : n <= k
    <3> HIDE DEF T
    <3>1. QED
      BY <2>2, LeastNatural
  <2>4. PICK t \in DOMAIN p : n = Len(p) - t /\ f[t] \notin Nat
    OBVIOUS
  <2>5. ASSUME NEW c \in Children(p, t) PROVE f[c] \in Nat
    <3>1. c \in DOMAIN p /\ t < c /\ c <= Len(p) /\ t \in Nat
      BY <1>0, <2>4, ChildrenAre
    <3>2. Len(p) - c \in Nat /\ Len(p) - c < n
      BY <1>0, <2>4, <3>1
    <3>3. Len(p) - c \notin T
      <4> HIDE DEF T
      <4>1. QED
        BY <1>0, <2>3, <2>4, <3>1, <3>2
    <3>4. QED
      BY <3>1, <3>2, <3>3
  <2>6. QED
    BY <1>5, <1>6, <2>4, <2>5
<1>8. \A s \in DOMAIN p : SumFunctionOnSet(f, Children(p, s)) \in Nat
  BY <1>6, <1>7, ChildrenAre
<1>9. ASSUME NEW s \in DOMAIN p
      PROVE  f[s] = LocalSize(p, s) + NestedSize(p, s) + (IF HasSummary(p, s) THEN 1 ELSE 0)
  <2>1. NestedSize(p, s) \in Nat /\ LocalSize(p, s) \in Nat
    BY <1>1, <1>4, <1>8 DEF NestedSize
  <2>2. f[s] = IF DepthOf(p, s, "if") > 0 /\ LocalSize(p, s) + NestedSize(p, s) > 1
               THEN LocalSize(p, s) + NestedSize(p, s) + 1 ELSE LocalSize(p, s) + NestedSize(p, s)
    BY <1>1, <1>3 DEF SizeFrom, LocalSize, NestedSize
  <2>3. HasSummary(p, s) <=> DepthOf(p, s, "if") > 0 /\ f[s] > 1
    BY <1>1 DEF HasSummary
  <2>4. QED
    BY <2>1, <2>2, <2>3
<1>10. QED
  BY <1>1, <1>4, <1>7, <1>8, <1>9 DEF NestedSize

-----------------------------------------------------------------------------
SiblingsBefore(p, s) == {c \in Children(p, p[s].parent) : Position(p, c) < Position(p, s)}

BaseFrom(p, s, f) ==
  IF s = 1 THEN 0
  ELSE f[p[s].parent] + LocalSize(p, p[s].parent) + SumFunctionOnSet(Sizes(p), SiblingsBefore(p, s))

BasesUpto(p, n, f) == f = [s \in 1..n |-> BaseFrom(p, s, f)]

LEMMA BasesExist ==
  ASSUME NEW p, WellFormed(p)
  PROVE  \E f : BasesUpto(p, Len(p), f)
<1> DEFINE T == {n \in 0..Len(p) : ~\E f : BasesUpto(p, n, f)}
<1>0. Len(p) \in Nat \ {0} /\ \A s \in 2..Len(p) : p[s].parent \in 1..s - 1
  BY DEF WellFormed
<1>1. T = {}
  <2>1. SUFFICES ASSUME T # {} PROVE FALSE
    OBVIOUS
  <2>2. PICK n \in T : \A k \in T : n <= k
    <3>1. T \subseteq Nat
      BY <1>0
    <3> HIDE DEF T
    <3>2. QED
      BY <2>1, <3>1, LeastNatural
  <2>3. CASE n = 0
    <3> DEFINE f == [t \in 1..0 |-> 0]
    <3>1. BasesUpto(p, 0, f)
      BY DEF BasesUpto
    <3> HIDE DEF f
    <3>2. QED
      BY <2>2, <2>3, <3>1
  <2>4. CASE n # 0
    <3>1. n - 1 \in 0..Len(p) /\ n \in Nat
      BY <1>0, <2>2, <2>4
    <3>2. PICK g : BasesUpto(p, n - 1, g)
      <4>1. n - 1 \notin T
        <5> HIDE DEF T
        <5>1. QED
          BY <2>2, <3>1
      <4>2. QED
        BY <3>1, <4>1
    <3> DEFINE step(k) == [t \in 1..n |-> BaseFrom(p, t, k)]
               h == step(g)
    <3>3. \A t \in 1..n - 1 : t \in 1..n /\ h[t] = g[t]
      <4>1. \A t \in 1..n - 1 : g[t] = BaseFrom(p, t, g)
        BY <3>2 DEF BasesUpto
      <4>2. \A t \in 1..n - 1 : t \in 1..n
        BY <3>1
      <4>3. QED
        BY <4>1, <4>2
    <3>4. \A t \in 1..n : t # 1 => p[t].parent \in 1..n - 1
      <4>1. \A t \in 1..n : t # 1 => t \in 2..Len(p) /\ t <= n
        BY <1>0, <3>1
      <4>2. \A t \in 1..n : t # 1 => p[t].parent \in 1..t - 1
        BY <1>0, <4>1
      <4>3. QED
        BY <3>1, <4>2
    <3>5. \A t \in 1..n : h[t] = step(h)[t]
      <4>1. \A t \in 1..n : h[t] = BaseFrom(p, t, g) /\ step(h)[t] = BaseFrom(p, t, h)
        OBVIOUS
      <4>2. \A t \in 1..n : t # 1 => h[p[t].parent] = g[p[t].parent]
        <5> HIDE DEF h
        <5>1. QED
          BY <3>3, <3>4
      <4> HIDE DEF h, step
      <4>3. \A t \in 1..n : BaseFrom(p, t, g) = BaseFrom(p, t, h)
        BY <4>2 DEF BaseFrom
      <4>4. QED
        BY <4>1, <4>3
    <3>6. h = [t \in 1..n |-> h[t]] /\ step(h) = [t \in 1..n |-> step(h)[t]]
      OBVIOUS
    <3>7. h = step(h)
      <4> HIDE DEF h, step
      <4>1. QED
        BY <3>5, <3>6
    <3> HIDE DEF h
    <3>8. BasesUpto(p, n, h)
      BY <3>7 DEF BasesUpto
    <3>9. QED
      BY <2>2, <3>8
  <2>5. QED
    BY <2>3, <2>4
<1>2. Len(p) \in 0..Len(p)
  BY <1>0
<1>3. QED
  BY <1>1, <1>2

LEMMA BasesAre ==
  ASSUME NEW p, WellFormed(p)
  PROVE  /\ \A s \in DOMAIN p : Bases(p)[s] = BaseFrom(p, s, Bases(p))
         /\ \A s \in DOMAIN p : Bases(p)[s] \in Nat
<1> DEFINE f == CHOOSE f : f = [s \in DOMAIN p |->
                   IF s = 1 THEN 0
                   ELSE LET q == p[s].parent
                        IN  f[q] + Widths(p, q, Local(p, q))
                              + SumFunctionOnSet(Sizes(p), {c \in Children(p, q) : Position(p, c) < Position(p, s)})]
<1>0. Len(p) \in Nat \ {0} /\ DOMAIN p = 1..Len(p)
  BY ScopesAre
<1>1. Bases(p) = f
  BY DEF Bases
<1>2. f = [s \in DOMAIN p |-> BaseFrom(p, s, f)]
  <2>1. PICK g : g = [s \in DOMAIN p |-> BaseFrom(p, s, g)]
    BY <1>0, BasesExist DEF BasesUpto
  <2>2. QED
    BY <2>1 DEF BaseFrom, LocalSize, SiblingsBefore
<1> HIDE DEF f
<1>3. \A s \in DOMAIN p : f[s] = BaseFrom(p, s, f)
  BY <1>2
<1>4. \A s \in DOMAIN p \ {1} : SumFunctionOnSet(Sizes(p), SiblingsBefore(p, s)) \in Nat
  <2>1. SUFFICES ASSUME NEW s \in DOMAIN p \ {1}
                 PROVE  SumFunctionOnSet(Sizes(p), SiblingsBefore(p, s)) \in Nat
    OBVIOUS
  <2>2. p[s].parent \in DOMAIN p
    BY ScopesAre
  <2>3. IsFiniteSet(Children(p, p[s].parent)) /\ Children(p, p[s].parent) \subseteq DOMAIN p
    BY <2>2, ChildrenAre
  <2>4. SiblingsBefore(p, s) \in SUBSET Children(p, p[s].parent)
    BY DEF SiblingsBefore
  <2>5. IsFiniteSet(SiblingsBefore(p, s)) /\ \A c \in SiblingsBefore(p, s) : Sizes(p)[c] \in Nat
    BY <2>3, <2>4, FS_Subset, SizesAre
  <2>6. QED
    BY <2>5, SumIs
<1>5. \A s \in DOMAIN p : f[s] \in Nat
  <2> DEFINE T == {s \in DOMAIN p : f[s] \notin Nat}
  <2>1. SUFFICES ASSUME T # {} PROVE FALSE
    OBVIOUS
  <2>2. PICK s \in T : \A k \in T : s <= k
    <3>1. T \subseteq Nat
      BY <1>0
    <3> HIDE DEF T
    <3>2. QED
      BY <2>1, <3>1, LeastNatural
  <2>3. s \in DOMAIN p /\ f[s] \notin Nat
    OBVIOUS
  <2>4. CASE s = 1
    BY <1>3, <2>3, <2>4 DEF BaseFrom
  <2>5. CASE s # 1
    <3>1. p[s].parent \in DOMAIN p /\ p[s].parent < s
      BY <2>3, <2>5, ScopesAre
    <3>2. p[s].parent \notin T
      <4>1. p[s].parent \in Nat /\ s \in Nat
        BY <1>0, <2>3, <3>1
      <4> HIDE DEF T
      <4>2. QED
        BY <2>2, <3>1, <4>1
    <3>3. f[p[s].parent] \in Nat /\ LocalSize(p, p[s].parent) \in Nat
      BY <3>1, <3>2, SizesAre
    <3>4. QED
      BY <1>3, <1>4, <2>3, <2>5, <3>3 DEF BaseFrom
  <2>6. QED
    BY <2>4, <2>5
<1>6. QED
  BY <1>1, <1>3, <1>5

-----------------------------------------------------------------------------
(* What lies where.                                                         *)

LEMMA PositionIs ==
  ASSUME NEW p, WellFormed(p), NEW c \in DOMAIN p \ {1}
  PROVE  /\ Position(p, c) \in DOMAIN p[p[c].parent].body
         /\ p[p[c].parent].body[Position(p, c)] = Nested(c)
         /\ \A i \in DOMAIN p[p[c].parent].body :
              p[p[c].parent].body[i] = Nested(c) => i = Position(p, c)
<1> DEFINE q == p[c].parent
<1>1. q \in DOMAIN p /\ \E i \in DOMAIN p[q].body : p[q].body[i] = Nested(c)
  BY DEF WellFormed
<1> HIDE DEF q
<1>2. Position(p, c) \in DOMAIN p[q].body /\ p[q].body[Position(p, c)] = Nested(c)
  BY <1>1 DEF Position, q
<1>3. \A i \in DOMAIN p[q].body : p[q].body[i] = Nested(c) => i = Position(p, c)
  <2>1. Nested(c).type = "scope"
    BY DEF Nested
  <2>2. \A i \in DOMAIN p[q].body : p[q].body[i].type = "scope" =>
          \A j \in DOMAIN p[q].body : p[q].body[j] = p[q].body[i] => j = i
    BY <1>1 DEF WellFormed
  <2>3. QED
    BY <1>2, <2>1, <2>2
<1>4. QED
  BY <1>2, <1>3 DEF q

\* The nested scopes lie behind the statements of a scope, one after the other.
LEMMA ChildrenApart ==
  ASSUME NEW p, WellFormed(p), NEW q \in DOMAIN p, NEW c \in Children(p, q)
  PROVE  /\ Bases(p)[q] + LocalSize(p, q) <= Bases(p)[c]
         /\ Bases(p)[c] + Sizes(p)[c] <= Bases(p)[q] + LocalSize(p, q) + NestedSize(p, q)
         /\ \A d \in Children(p, q) \ {c} : \/ Bases(p)[c] + Sizes(p)[c] <= Bases(p)[d]
                                           \/ Bases(p)[d] + Sizes(p)[d] <= Bases(p)[c]
<1> DEFINE C == Children(p, q)
           w == Sizes(p)
           Sum(S) == SumFunctionOnSet(w, S)
           Before(d) == SiblingsBefore(p, d)
           B == Bases(p)
           L == LocalSize(p, q)
<1>1. IsFiniteSet(C) /\ C \subseteq DOMAIN p \ {1} /\ \A d \in C : p[d].parent = q
  BY ChildrenAre DEF Children
<1>2. \A d \in C : w[d] \in Nat
  BY <1>1, SizesAre
<1>3. B[q] \in Nat /\ L \in Nat /\ \A d \in C : B[d] \in Nat /\ B[d] = B[q] + L + Sum(Before(d))
  BY <1>1, BasesAre, SizesAre DEF BaseFrom
<1>4. \A d \in C : Before(d) = {e \in C : Position(p, e) < Position(p, d)}
  BY <1>1 DEF SiblingsBefore
<1>5. \A d \in C : Position(p, d) \in Nat
  <2>1. DOMAIN p[q].body \subseteq Nat
    BY LengthsAre
  <2>2. QED
    BY <1>1, <2>1, PositionIs
<1>6. \A d, e \in C : d # e => Position(p, d) # Position(p, e)
  <2>1. \A d, e : Nested(d) = Nested(e) => d = e
    BY DEF Nested
  <2>2. QED
    BY <1>1, <2>1, PositionIs
<1>7. \A S \in SUBSET C :
        /\ IsFiniteSet(S) /\ Sum(S) \in Nat
        /\ \A T \in SUBSET S : Sum(T) <= Sum(S)
        /\ \A x \in S : Sum(S) = w[x] + Sum(S \ {x})
  BY <1>1, <1>2, FS_Subset, SumMonotone, SumIs
<1>8. Sum(C) = NestedSize(p, q)
  BY DEF NestedSize
<1> HIDE DEF C, w, Sum, B, L
<1>9. \A d \in C : Before(d) \in SUBSET C /\ d \notin Before(d)
  BY <1>4, <1>5
<1>10. \A d \in C : \A S \in SUBSET C : Before(d) \union {d} \subseteq S => Sum(Before(d)) + w[d] <= Sum(S)
  <2>1. SUFFICES ASSUME NEW d \in C, NEW S \in SUBSET C, Before(d) \union {d} \subseteq S
                 PROVE  Sum(Before(d)) + w[d] <= Sum(S)
    OBVIOUS
  <2> DEFINE D == Before(d) \union {d}
  <2>2. D \in SUBSET C /\ D \in SUBSET S /\ d \in D /\ D \ {d} = Before(d)
    BY <1>9, <2>1
  <2> HIDE DEF D, Before
  <2>3. Sum(D) = w[d] + Sum(Before(d)) /\ Sum(D) <= Sum(S)
    BY <1>7, <2>2
  <2>4. QED
    BY <1>2, <1>7, <1>9, <2>3
<1>11. \A d, e \in C : d # e => \/ Before(d) \union {d} \subseteq Before(e)
                               \/ Before(e) \union {e} \subseteq Before(d)
  BY <1>4, <1>5, <1>6
<1> HIDE DEF Before
<1>12. \A d, e \in C : d # e => \/ Sum(Before(d)) + w[d] <= Sum(Before(e))
                               \/ Sum(Before(e)) + w[e] <= Sum(Before(d))
  BY <1>9, <1>10, <1>11
<1>13. \A d \in C : Sum(Before(d)) \in Nat /\ Sum(Before(d)) + w[d] <= Sum(C)
  BY <1>7, <1>9, <1>10
<1>14. Sum(C) \in Nat /\ c \in C
  BY <1>7 DEF C
<1>15. B[q] + L <= B[c] /\ B[c] + w[c] <= B[q] + L + Sum(C)
  BY <1>2, <1>3, <1>13, <1>14
<1>16. ASSUME NEW d \in C \ {c} PROVE B[c] + w[c] <= B[d] \/ B[d] + w[d] <= B[c]
  BY <1>2, <1>3, <1>12, <1>13, <1>14
<1>17. QED
  BY <1>8, <1>15, <1>16 DEF B, C, L, w

\* The packs of a scope, with those of the scopes nested in it; the packs that are its
\* own, for its statements and its summary; the packs of a statement.
PacksOf(p, s) == Bases(p)[s]..Bases(p)[s] + Sizes(p)[s] - 1
SummaryOf(p, s) == Bases(p)[s] + Sizes(p)[s] - 1
OwnPacks(p, s) == Bases(p)[s]..Bases(p)[s] + LocalSize(p, s) - 1
                  \union (IF HasSummary(p, s) THEN {SummaryOf(p, s)} ELSE {})
StatementPacks(p, s, i) ==
  Bases(p)[s] + Offset(p, s, i)..Bases(p)[s] + Offset(p, s, i) + Width(p[s].body[i]) - 1

LEMMA OwnPacksAre ==
  ASSUME NEW p, WellFormed(p), NEW s \in DOMAIN p
  PROVE  /\ OwnPacks(p, s) \subseteq PacksOf(p, s)
         /\ \A c \in Children(p, s) : PacksOf(p, c) \subseteq PacksOf(p, s)
                                    /\ PacksOf(p, c) \cap OwnPacks(p, s) = {}
         /\ \A c, d \in Children(p, s) : c # d => PacksOf(p, c) \cap PacksOf(p, d) = {}
         /\ \A i \in Local(p, s) :
              /\ StatementPacks(p, s, i) \subseteq OwnPacks(p, s)
              /\ HasSummary(p, s) => SummaryOf(p, s) \notin StatementPacks(p, s, i)
              /\ \A j \in Local(p, s) \ {i} : StatementPacks(p, s, i) \cap StatementPacks(p, s, j) = {}
<1>1. /\ Bases(p)[s] \in Nat /\ LocalSize(p, s) \in Nat /\ NestedSize(p, s) \in Nat /\ Sizes(p)[s] \in Nat
      /\ Sizes(p)[s] = LocalSize(p, s) + NestedSize(p, s) + (IF HasSummary(p, s) THEN 1 ELSE 0)
  BY BasesAre, SizesAre
<1>2. OwnPacks(p, s) \subseteq PacksOf(p, s)
  BY <1>1 DEF OwnPacks, PacksOf, SummaryOf, HasSummary
<1>3. \A c \in Children(p, s) : Bases(p)[c] \in Nat /\ Sizes(p)[c] \in Nat
  BY ChildrenAre, BasesAre, SizesAre
<1>4. ASSUME NEW c \in Children(p, s)
      PROVE  PacksOf(p, c) \subseteq PacksOf(p, s) /\ PacksOf(p, c) \cap OwnPacks(p, s) = {}
  <2>1. /\ Bases(p)[s] + LocalSize(p, s) <= Bases(p)[c]
        /\ Bases(p)[c] + Sizes(p)[c] <= Bases(p)[s] + LocalSize(p, s) + NestedSize(p, s)
    BY ChildrenApart
  <2>2. QED
    BY <1>1, <1>3, <2>1 DEF OwnPacks, PacksOf, SummaryOf
<1>5. ASSUME NEW c \in Children(p, s), NEW d \in Children(p, s), c # d
      PROVE  PacksOf(p, c) \cap PacksOf(p, d) = {}
  <2>1. \/ Bases(p)[c] + Sizes(p)[c] <= Bases(p)[d]
        \/ Bases(p)[d] + Sizes(p)[d] <= Bases(p)[c]
    BY <1>5, ChildrenApart
  <2>2. QED
    BY <1>3, <2>1 DEF PacksOf
<1>6. ASSUME NEW i \in Local(p, s)
      PROVE  /\ StatementPacks(p, s, i) \subseteq OwnPacks(p, s)
             /\ HasSummary(p, s) => SummaryOf(p, s) \notin StatementPacks(p, s, i)
             /\ \A j \in Local(p, s) \ {i} : StatementPacks(p, s, i) \cap StatementPacks(p, s, j) = {}
  <2>1. \A j \in Local(p, s) : Offset(p, s, j) \in Nat /\ Width(p[s].body[j]) \in Nat \ {0}
    BY OffsetsAre, LengthsAre
  <2>2. Offset(p, s, i) + Width(p[s].body[i]) <= LocalSize(p, s)
    BY OffsetsAre
  <2>3. StatementPacks(p, s, i) \subseteq Bases(p)[s]..Bases(p)[s] + LocalSize(p, s) - 1
    BY <1>1, <2>1, <2>2 DEF StatementPacks
  <2>4. HasSummary(p, s) => SummaryOf(p, s) \notin StatementPacks(p, s, i)
    BY <1>1, <2>3 DEF SummaryOf
  <2>5. ASSUME NEW j \in Local(p, s) \ {i} PROVE StatementPacks(p, s, i) \cap StatementPacks(p, s, j) = {}
    <3>1. \/ Offset(p, s, i) + Width(p[s].body[i]) <= Offset(p, s, j)
          \/ Offset(p, s, j) + Width(p[s].body[j]) <= Offset(p, s, i)
      BY OffsetsAre
    <3>2. QED
      BY <1>1, <2>1, <3>1 DEF StatementPacks
  <2>6. QED
    BY <2>3, <2>4, <2>5 DEF OwnPacks
<1>7. QED
  BY <1>2, <1>4, <1>5, <1>6

\* A nested scope lies within the scopes around it.
LEMMA InnerPacks ==
  ASSUME NEW p, WellFormed(p)
  PROVE  \A t \in DOMAIN p : \A c \in Around(p, t) : PacksOf(p, t) \subseteq PacksOf(p, c)
<1> DEFINE T == {t \in DOMAIN p : ~\A c \in Around(p, t) : PacksOf(p, t) \subseteq PacksOf(p, c)}
<1>1. SUFFICES ASSUME T # {} PROVE FALSE
  OBVIOUS
<1>2. PICK t \in T : \A k \in T : t <= k
  <2>1. T \subseteq Nat
    BY ScopesAre
  <2> HIDE DEF T
  <2>2. QED
    BY <1>1, <2>1, LeastNatural
<1>3. Around(p, t) = {t} \union (IF t = 1 THEN {} ELSE Around(p, p[t].parent))
  BY AroundIs
<1>4. t # 1
  BY <1>3
<1>5. p[t].parent \in DOMAIN p /\ p[t].parent < t /\ p[t].parent \in Nat /\ t \in Nat /\ t \in Children(p, p[t].parent)
  BY <1>4, ScopesAre DEF Children
<1>6. p[t].parent \notin T
  <2> HIDE DEF T
  <2>1. QED
    BY <1>2, <1>5
<1>7. PacksOf(p, t) \subseteq PacksOf(p, p[t].parent)
  BY <1>5, OwnPacksAre
<1>8. \A c \in Around(p, p[t].parent) : PacksOf(p, p[t].parent) \subseteq PacksOf(p, c)
  BY <1>5, <1>6
<1>9. \A c \in Around(p, t) : PacksOf(p, t) \subseteq PacksOf(p, c)
  BY <1>3, <1>7, <1>8
<1>10. QED
  BY <1>9

\* The packs of a scope are apart from those of every scope that is not nested in it.
LEMMA OuterPacks ==
  ASSUME NEW p, WellFormed(p)
  PROVE  \A c, t \in DOMAIN p : c \notin Around(p, t) => OwnPacks(p, t) \cap PacksOf(p, c) = {}
<1> DEFINE Apart(c) == \A t \in DOMAIN p : c \notin Around(p, t) => OwnPacks(p, t) \cap PacksOf(p, c) = {}
           T == {c \in DOMAIN p : ~Apart(c)}
<1>1. SUFFICES ASSUME T # {} PROVE FALSE
  OBVIOUS
<1>2. PICK c \in T : \A k \in T : c <= k
  <2>1. T \subseteq Nat
    BY ScopesAre
  <2> HIDE DEF T
  <2>2. QED
    BY <1>1, <2>1, LeastNatural
<1>3. c # 1
  BY AroundChain
<1> DEFINE q == p[c].parent
<1>4. q \in DOMAIN p /\ q < c /\ q \in Nat /\ c \in Nat /\ c \in Children(p, q)
  BY <1>3, ScopesAre DEF Children
<1>5. Apart(q)
  <2>1. q \notin T
    <3> HIDE DEF T, q
    <3>1. QED
      BY <1>2, <1>4
  <2>2. QED
    BY <1>4, <2>1
<1> HIDE DEF q
<1>6. ASSUME NEW t \in DOMAIN p, c \notin Around(p, t) PROVE OwnPacks(p, t) \cap PacksOf(p, c) = {}
  <2>1. PacksOf(p, c) \subseteq PacksOf(p, q)
    BY <1>4, OwnPacksAre
  <2>2. CASE q \notin Around(p, t)
    BY <1>5, <2>1, <2>2
  <2>3. CASE t = q
    BY <1>4, <2>3, OwnPacksAre
  <2>4. CASE q \in Around(p, t) /\ t # q
    <3>1. PICK d \in Children(p, q) : d \in Around(p, t)
      BY <2>4, AroundChain
    <3>2. OwnPacks(p, t) \subseteq PacksOf(p, d)
      BY <3>1, InnerPacks, OwnPacksAre
    <3>3. PacksOf(p, c) \cap PacksOf(p, d) = {}
      <4>1. c # d
        BY <1>6, <3>1
      <4>2. QED
        BY <1>4, <3>1, <4>1, OwnPacksAre
    <3>4. QED
      BY <3>2, <3>3
  <2>5. QED
    BY <2>2, <2>3, <2>4
<1>7. Apart(c)
  BY <1>6
<1>8. QED
  BY <1>7

\* No pack belongs to two scopes.
LEMMA OwnPacksApart ==
  ASSUME NEW p, WellFormed(p), NEW s \in DOMAIN p, NEW t \in DOMAIN p, s # t
  PROVE  OwnPacks(p, s) \cap OwnPacks(p, t) = {}
<1>1. s \notin Around(p, t) \/ t \notin Around(p, s)
  <2>1. Around(p, t) \subseteq 1..t /\ Around(p, s) \subseteq 1..s /\ s \in Nat /\ t \in Nat
    BY AroundChain, ScopesAre
  <2>2. QED
    BY <2>1
<1>2. OwnPacks(p, s) \subseteq PacksOf(p, s) /\ OwnPacks(p, t) \subseteq PacksOf(p, t)
  BY OwnPacksAre
<1>3. QED
  BY <1>1, <1>2, OuterPacks

LEMMA SumZero ==
  ASSUME NEW f, NEW S, IsFiniteSet(S), \A x \in S : f[x] = 0
  PROVE  SumFunctionOnSet(f, S) = 0
<1> DEFINE W == {s \in SUBSET S : SumFunctionOnSet(f, s) # 0}
<1>1. SUFFICES ASSUME W # {} PROVE FALSE
  BY Zenon
<1>2. \A s \in SUBSET S : /\ IsFiniteSet(s) /\ Cardinality(s) \in Nat
                          /\ s = {} => SumFunctionOnSet(f, s) = 0
                          /\ \A x \in s : SumFunctionOnSet(f, s) = f[x] + SumFunctionOnSet(f, s \ {x})
  BY FS_Subset, FS_CardinalityType, SumIs
<1>3. PICK s \in W : \A t \in W : ~(Cardinality(t) < Cardinality(s))
  <2>1. \A t \in W : IsFiniteSet(t)
    BY <1>2
  <2> HIDE DEF W
  <2>2. QED
    BY <1>1, <2>1, SmallestSet
<1>4. PICK x \in s : TRUE
  BY <1>2
<1>5. s \ {x} \notin W
  <2>1. s \in SUBSET S
    OBVIOUS
  <2>2. Cardinality(s \ {x}) < Cardinality(s)
    BY <1>2, <2>1, FS_RemoveElement
  <2> HIDE DEF W
  <2>3. QED
    BY <1>3, <2>2
<1>6. SumFunctionOnSet(f, s \ {x}) = 0 /\ f[x] = 0
  BY <1>5
<1>7. SumFunctionOnSet(f, s) = 0
  <2>1. SumFunctionOnSet(f, s) = f[x] + SumFunctionOnSet(f, s \ {x})
    BY <1>2
  <2>2. QED
    BY <1>6, <2>1
<1>8. QED
  BY <1>7

\* A scope that has a pack has a statement that carries, if only in a scope nested in it.
LEMMA SomethingCarried ==
  ASSUME NEW p, WellFormed(p)
  PROVE  \A s \in DOMAIN p : Sizes(p)[s] > 0 => \E t \in DOMAIN p : s \in Around(p, t) /\ Local(p, t) # {}
<1> DEFINE Found(s) == \E t \in DOMAIN p : s \in Around(p, t) /\ Local(p, t) # {}
           T == {n \in Nat : \E s \in DOMAIN p : n = Len(p) - s /\ Sizes(p)[s] > 0 /\ ~Found(s)}
<1>0. Len(p) \in Nat \ {0} /\ DOMAIN p = 1..Len(p)
  BY ScopesAre
<1>1. SUFFICES ASSUME NEW s \in DOMAIN p, Sizes(p)[s] > 0, ~Found(s) PROVE FALSE
  OBVIOUS
<1>2. T # {} /\ T \subseteq Nat
  <2>1. Len(p) - s \in Nat
    BY <1>0
  <2>2. QED
    BY <1>1, <2>1
<1>3. PICK n \in T : \A k \in T : n <= k
  <2> HIDE DEF T
  <2>1. QED
    BY <1>2, LeastNatural
<1>4. PICK t \in DOMAIN p : n = Len(p) - t /\ Sizes(p)[t] > 0 /\ ~Found(t)
  OBVIOUS
<1>5. Local(p, t) = {}
  BY <1>4, AroundChain
<1>6. LocalSize(p, t) = 0
  <2>1. LocalSize(p, t) = SumFunctionOnSet(Lengths(p, t), {})
    BY <1>5, LengthsAre DEF LocalSize
  <2>2. QED
    BY <2>1, FS_EmptySet, SumZero
<1>7. ASSUME NEW c \in Children(p, t) PROVE Sizes(p)[c] = 0
  <2>1. c \in DOMAIN p /\ t < c /\ c <= Len(p) /\ t \in Nat /\ t \in Around(p, c)
    <3>1. c \in DOMAIN p /\ t < c /\ c <= Len(p) /\ t \in Nat
      BY <1>0, ChildrenAre
    <3>2. c # 1 /\ p[c].parent = t
      BY DEF Children
    <3>3. QED
      BY <3>1, <3>2, AroundIs, AroundChain
  <2>2. ~Found(c)
    BY <1>4, <2>1, AroundChain
  <2>3. Len(p) - c \in Nat /\ Len(p) - c < n
    BY <1>0, <1>4, <2>1
  <2>4. Len(p) - c \notin T
    <3> HIDE DEF T
    <3>1. QED
      BY <1>0, <1>3, <1>4, <2>1, <2>3
  <2>5. Sizes(p)[c] \in Nat
    BY <2>1, SizesAre
  <2> HIDE DEF Found
  <2>6. QED
    BY <2>1, <2>2, <2>3, <2>4, <2>5
<1>8. NestedSize(p, t) = 0
  BY <1>7, ChildrenAre, SumZero DEF NestedSize
<1>9. /\ Sizes(p)[t] \in Nat
      /\ Sizes(p)[t] = LocalSize(p, t) + NestedSize(p, t) + (IF HasSummary(p, t) THEN 1 ELSE 0)
  BY SizesAre
<1>10. \E r \in 0..1 : Sizes(p)[t] = r
  BY <1>6, <1>8, <1>9
<1>11. QED
  BY <1>4, <1>6, <1>8, <1>9, <1>10 DEF HasSummary

-----------------------------------------------------------------------------
(* Circular buffers.                                                         *)

\* The number of the block is kept modulo MaxRing; the slots do not depend on that.
LEMMA SlotsTurn ==
  ASSUME NEW n \in 1..MaxRing, NEW b \in 0..MaxRing - 1, NEW back \in Int
  PROVE  (((b + 1) % MaxRing) - (back + 1)) % power2ceil(n) = (b - back) % power2ceil(n)
<1> DEFINE m == power2ceil(n)
<1>1. MaxRing \in Nat \ {0} /\ m \in Nat \ {0} /\ MaxRing % m = 0
  BY MaxRingAssumption, power2ceilIs
<1> HIDE DEF m
<1>2. CASE b + 1 < MaxRing
  <2>1. (b + 1) % MaxRing = b + 1
    BY <1>1, <1>2
  <2>2. b + 1 - (back + 1) = b - back
    BY <1>1
  <2>3. QED
    BY <2>1, <2>2 DEF m
<1>3. CASE b + 1 = MaxRing
  <2>1. (b + 1) % MaxRing = 0
    BY <1>1, <1>3
  <2> DEFINE new == 0 - (back + 1)
             old == b - back
  <2>2. old = new + MaxRing /\ new \in Int /\ old \in Int /\ MaxRing \in Int
    BY <1>1, <1>3
  <2> HIDE DEF new, old
  <2>3. old % m = new % m
    BY <1>1, <2>2, RemainderSame
  <2>4. QED
    BY <2>1, <2>3 DEF m, new, old
<1>4. QED
  BY <1>1, <1>2, <1>3

-----------------------------------------------------------------------------
(* Places in a program.                                                      *)

\* The statement of a that the place x is or lies in, for a scope a around x.
Towards(p, a, s) == CHOOSE c \in Children(p, a) : c \in Around(p, s)
Place(p, a, x) == IF a = x[1] THEN x[2] ELSE Position(p, Towards(p, a, x[1]))

LEMMA TowardsIs ==
  ASSUME NEW p, WellFormed(p), NEW s \in DOMAIN p, NEW a \in Around(p, s) \ {s}
  PROVE  /\ Towards(p, a, s) \in Children(p, a) /\ Towards(p, a, s) \in Around(p, s)
         /\ \A c \in Children(p, a) : c \in Around(p, s) => c = Towards(p, a, s)
<1>1. \E c \in Children(p, a) : c \in Around(p, s)
  BY AroundChain
<1>2. Towards(p, a, s) \in Children(p, a) /\ Towards(p, a, s) \in Around(p, s)
  BY <1>1 DEF Towards
<1>3. ASSUME NEW c \in Children(p, a), NEW d \in Children(p, a), c \in Around(p, d) PROVE c = d
  <2>1. a \in DOMAIN p /\ c \in DOMAIN p /\ d \in DOMAIN p \ {1} /\ p[d].parent = a /\ p[c].parent = a /\ c # 1
    <3>1. a \in DOMAIN p
      BY ScopesAre, AroundChain
    <3>2. QED
      BY <3>1 DEF Children
  <2>2. Around(p, d) = {d} \union Around(p, a)
    BY <2>1, AroundIs
  <2>3. Around(p, a) \subseteq 1..a /\ a < c /\ a \in Nat /\ c \in Nat
    BY <2>1, AroundChain, ScopesAre
  <2>4. QED
    BY <1>3, <2>2, <2>3
<1>4. ASSUME NEW c \in Children(p, a), c \in Around(p, s) PROVE c = Towards(p, a, s)
  <2>1. c \in Around(p, Towards(p, a, s)) \/ Towards(p, a, s) \in Around(p, c)
    BY <1>2, <1>4, AroundChain
  <2>2. QED
    BY <1>2, <1>3, <2>1
<1>5. QED
  BY <1>2, <1>4

\* From outside, all that is inside a scope lies in the statement that the scope is.
LEMMA PlaceInside ==
  ASSUME NEW p, WellFormed(p), NEW c \in DOMAIN p \ {1}, NEW x, x[1] \in DOMAIN p, c \in Around(p, x[1])
  PROVE  \A a \in Around(p, p[c].parent) :
           /\ a \in Around(p, x[1]) /\ a # x[1] /\ a # c
           /\ Place(p, a, x) = Place(p, a, <<p[c].parent, Position(p, c)>>)
<1> DEFINE s == p[c].parent
<1>1. s \in DOMAIN p /\ s < c /\ s \in Nat /\ c \in Nat /\ c \in Children(p, s)
  BY ScopesAre DEF Children
<1>2. Around(p, c) = {c} \union Around(p, s)
  BY AroundIs
<1>3. Around(p, c) \subseteq Around(p, x[1])
  BY AroundChain
<1>4. ASSUME NEW a \in Around(p, s)
      PROVE  /\ a \in Around(p, x[1]) /\ a # x[1] /\ a # c
             /\ Place(p, a, x) = Place(p, a, <<s, Position(p, c)>>)
  <2>1. a \in 1..s /\ a \in Around(p, x[1]) /\ c \in 1..x[1] /\ x[1] \in Nat
    BY <1>1, <1>2, <1>3, AroundChain, ScopesAre
  <2>2. a < c /\ a # x[1] /\ a # c
    BY <1>1, <2>1
  <2>3. CASE a = s
    <3>1. Towards(p, s, x[1]) = c
      BY <1>1, <2>1, <2>2, <2>3, TowardsIs
    <3>2. QED
      BY <2>1, <2>2, <2>3, <3>1 DEF Place
  <2>4. CASE a # s
    <3>1. Towards(p, a, s) \in Children(p, a) /\ Towards(p, a, s) \in Around(p, s)
      BY <1>1, <2>4, TowardsIs
    <3>2. Towards(p, a, s) \in Around(p, x[1])
      BY <1>2, <1>3, <3>1
    <3>3. Towards(p, a, x[1]) = Towards(p, a, s)
      BY <2>1, <2>2, <3>1, <3>2, TowardsIs
    <3>4. QED
      BY <2>1, <2>2, <2>4, <3>3 DEF Place
  <2>5. QED
    BY <2>1, <2>2, <2>3, <2>4
<1>5. QED
  BY <1>4

\* The statements of a program that carry, those inside a scope, and how they lie to a place.
StatementsOf(p) == UNION {{<<s, i>> : i \in Local(p, s)} : s \in DOMAIN p}
Within(p, c) == {x \in StatementsOf(p) : c \in Around(p, x[1])}
Passed(p, x, y) == \E a \in Around(p, x[1]) \cap Around(p, y[1]) : Place(p, a, x) < Place(p, a, y)
Behind(p, c, y) == {x \in Within(p, c) : Place(p, c, x) < Place(p, c, y)}

LEMMA StatementIs ==
  ASSUME NEW p, WellFormed(p), NEW x \in StatementsOf(p)
  PROVE  x = <<x[1], x[2]>> /\ x[1] \in DOMAIN p /\ x[2] \in Local(p, x[1]) /\ x[2] \in DOMAIN p[x[1]].body
BY DEF StatementsOf, Local

LEMMA PlaceIs ==
  ASSUME NEW p, WellFormed(p), NEW x \in StatementsOf(p), NEW a \in Around(p, x[1])
  PROVE  /\ a \in DOMAIN p /\ Place(p, a, x) \in DOMAIN p[a].body
         /\ Place(p, a, x) \in Nat /\ 1 <= Place(p, a, x) /\ Place(p, a, x) <= Len(p[a].body)
         /\ a = x[1] => Place(p, a, x) = x[2]
         /\ a # x[1] => \E c \in Children(p, a) :
                          c \in Around(p, x[1]) /\ p[a].body[Place(p, a, x)] = Nested(c)
<1>1. x[1] \in DOMAIN p /\ x[2] \in DOMAIN p[x[1]].body
  BY StatementIs
<1>2. a \in DOMAIN p
  BY <1>1, AroundChain, ScopesAre
<1>3. Len(p[a].body) \in Nat /\ DOMAIN p[a].body = 1..Len(p[a].body)
  BY <1>2 DEF WellFormed
<1>4. CASE a = x[1]
  BY <1>1, <1>2, <1>3, <1>4 DEF Place
<1>5. CASE a # x[1]
  <2> DEFINE c == Towards(p, a, x[1])
  <2>1. c \in Children(p, a) /\ c \in Around(p, x[1])
    BY <1>1, <1>5, TowardsIs
  <2>2. c \in DOMAIN p \ {1} /\ p[c].parent = a
    BY <2>1 DEF Children
  <2> HIDE DEF c
  <2>3. Position(p, c) \in DOMAIN p[a].body /\ p[a].body[Position(p, c)] = Nested(c)
    BY <2>2, PositionIs
  <2>4. Place(p, a, x) = Position(p, c)
    BY <1>5 DEF Place, c
  <2>5. QED
    BY <1>2, <1>3, <1>5, <2>1, <2>3, <2>4
<1>6. QED
  BY <1>4, <1>5

\* No statement is passed at the start of a block, and every statement at its end.
LEMMA BlockEnds ==
  ASSUME NEW p, WellFormed(p), NEW x \in StatementsOf(p)
  PROVE  ~Passed(p, x, <<1, 1>>) /\ Passed(p, x, <<1, Len(p[1].body) + 1>>)
<1>1. 1 \in DOMAIN p /\ 1 \in Around(p, x[1]) /\ Around(p, 1) = {1}
  BY ScopesAre, StatementIs, AroundChain, AroundIs
<1>2. Place(p, 1, x) \in Nat /\ 1 <= Place(p, 1, x) /\ Place(p, 1, x) <= Len(p[1].body)
  BY <1>1, PlaceIs
<1>3. Len(p[1].body) \in Nat
  BY <1>1 DEF WellFormed
<1>4. Place(p, 1, <<1, 1>>) = 1 /\ Place(p, 1, <<1, Len(p[1].body) + 1>>) = Len(p[1].body) + 1
  BY DEF Place
<1>5. QED
  BY <1>1, <1>2, <1>3, <1>4 DEF Passed

\* A statement has not passed itself.
LEMMA NotPassedItself ==
  ASSUME NEW p, WellFormed(p), NEW x \in StatementsOf(p)
  PROVE  ~Passed(p, x, x)
<1>1. \A a \in Around(p, x[1]) : Place(p, a, x) \in Nat
  BY PlaceIs
<1>2. QED
  BY <1>1 DEF Passed

\* What a statement of s is: itself, or all that lies in a nested scope.
Ahead(p, s, i) == {x \in Within(p, s) : Place(p, s, x) = i}

LEMMA AheadIs ==
  ASSUME NEW p, WellFormed(p), NEW s \in DOMAIN p, NEW i \in DOMAIN p[s].body
  PROVE  /\ i \in Local(p, s) => Ahead(p, s, i) = {<<s, i>>}
         /\ \A c \in Children(p, s) : i = Position(p, c) => Ahead(p, s, i) = Within(p, c)
<1>1. ASSUME i \in Local(p, s) PROVE Ahead(p, s, i) = {<<s, i>>}
  <2>1. <<s, i>> \in StatementsOf(p) /\ s \in Around(p, s)
    BY <1>1, AroundChain DEF StatementsOf
  <2>2. <<s, i>> \in Ahead(p, s, i)
    BY <2>1 DEF Ahead, Within, Place
  <2>3. ASSUME NEW x \in Ahead(p, s, i) PROVE x = <<s, i>>
    <3>1. x \in StatementsOf(p) /\ s \in Around(p, x[1]) /\ Place(p, s, x) = i
      BY DEF Ahead, Within
    <3>2. p[s].body[i].type # "scope"
      BY <1>1 DEF Local
    <3>3. s = x[1]
      <4>1. SUFFICES ASSUME s # x[1] PROVE FALSE
        OBVIOUS
      <4>2. PICK c \in Children(p, s) : p[s].body[i] = Nested(c)
        BY <3>1, <4>1, PlaceIs
      <4>3. QED
        BY <3>2, <4>2 DEF Nested
    <3>4. QED
      BY <3>1, <3>3, PlaceIs, StatementIs
  <2>4. QED
    BY <2>2, <2>3
<1>2. ASSUME NEW c \in Children(p, s), i = Position(p, c) PROVE Ahead(p, s, i) = Within(p, c)
  <2>1. c \in DOMAIN p \ {1} /\ p[c].parent = s /\ Around(p, c) = {c} \union Around(p, s) /\ s \in Around(p, s)
    BY AroundIs, AroundChain DEF Children
  <2>2. p[s].body[i] = Nested(c)
    BY <1>2, <2>1, PositionIs
  <2>3. ASSUME NEW x \in Ahead(p, s, i) PROVE x \in Within(p, c)
    <3>1. x \in StatementsOf(p) /\ s \in Around(p, x[1]) /\ Place(p, s, x) = i
      BY DEF Ahead, Within
    <3>2. s # x[1]
      <4>1. SUFFICES ASSUME s = x[1] PROVE FALSE
        OBVIOUS
      <4>2. i \in Local(p, s)
        BY <3>1, <4>1, PlaceIs, StatementIs
      <4>3. QED
        BY <2>2, <4>2 DEF Local, Nested
    <3>3. PICK d \in Children(p, s) : d \in Around(p, x[1]) /\ p[s].body[i] = Nested(d)
      BY <3>1, <3>2, PlaceIs
    <3>4. d = c
      BY <2>2, <3>3 DEF Nested
    <3>5. QED
      BY <3>1, <3>3, <3>4 DEF Within
  <2>4. ASSUME NEW x \in Within(p, c) PROVE x \in Ahead(p, s, i)
    <3>1. x \in StatementsOf(p) /\ c \in Around(p, x[1]) /\ x[1] \in DOMAIN p
      BY StatementIs DEF Within
    <3>2. s \in Around(p, x[1]) /\ Place(p, s, x) = Place(p, s, <<s, Position(p, c)>>)
      BY <2>1, <3>1, PlaceInside
    <3>3. Place(p, s, <<s, Position(p, c)>>) = i
      BY <1>2 DEF Place
    <3>4. QED
      BY <3>1, <3>2, <3>3 DEF Ahead, Within
  <2>5. QED
    BY <2>3, <2>4
<1>3. QED
  BY <1>1, <1>2

\* One step on in a scope: what lay there is passed now, and nothing else.
LEMMA StepOn ==
  ASSUME NEW p, WellFormed(p), NEW s \in DOMAIN p, NEW i \in Nat
  PROVE  /\ \A x \in StatementsOf(p) :
              Passed(p, x, <<s, i + 1>>) <=> Passed(p, x, <<s, i>>) \/ x \in Ahead(p, s, i)
         /\ Behind(p, s, <<s, i + 1>>) = Behind(p, s, <<s, i>>) \union Ahead(p, s, i)
         /\ \A c \in Around(p, s) \ {s} : Behind(p, c, <<s, i + 1>>) = Behind(p, c, <<s, i>>)
<1> DEFINE y == <<s, i>>
           z == <<s, i + 1>>
<1>1. \A a \in Around(p, s) \ {s} : Place(p, a, z) = Place(p, a, y)
  BY DEF Place
<1>2. Place(p, s, z) = i + 1 /\ Place(p, s, y) = i /\ y[1] = s /\ z[1] = s /\ s \in Around(p, s)
  BY AroundChain DEF Place
<1>3. \A x \in StatementsOf(p) : \A a \in Around(p, x[1]) : Place(p, a, x) \in Nat
  BY PlaceIs
<1> HIDE DEF y, z
<1>4. ASSUME NEW x \in StatementsOf(p)
      PROVE  Passed(p, x, z) <=> Passed(p, x, y) \/ x \in Ahead(p, s, i)
  <2>1. ASSUME Passed(p, x, z) PROVE Passed(p, x, y) \/ x \in Ahead(p, s, i)
    <3>1. PICK a \in Around(p, x[1]) \cap Around(p, s) : Place(p, a, x) < Place(p, a, z)
      BY <1>2, <2>1 DEF Passed
    <3>2. CASE a = s
      BY <1>2, <1>3, <3>1, <3>2 DEF Passed, Ahead, Within
    <3>3. CASE a # s
      BY <1>1, <1>2, <3>1, <3>3 DEF Passed
    <3>4. QED
      BY <3>2, <3>3
  <2>2. ASSUME Passed(p, x, y) PROVE Passed(p, x, z)
    <3>1. PICK a \in Around(p, x[1]) \cap Around(p, s) : Place(p, a, x) < Place(p, a, y)
      BY <1>2, <2>2 DEF Passed
    <3>2. Place(p, a, x) < Place(p, a, z)
      BY <1>1, <1>2, <1>3, <3>1
    <3>3. QED
      BY <1>2, <3>1, <3>2 DEF Passed
  <2>3. ASSUME x \in Ahead(p, s, i) PROVE Passed(p, x, z)
    BY <1>2, <2>3 DEF Passed, Ahead, Within
  <2>4. QED
    BY <2>1, <2>2, <2>3
<1>5. Behind(p, s, z) = Behind(p, s, y) \union Ahead(p, s, i)
  <2>1. \A x \in Within(p, s) : Place(p, s, x) \in Nat
    BY <1>3 DEF Within
  <2>2. QED
    BY <1>2, <2>1 DEF Behind, Ahead
<1>6. \A c \in Around(p, s) \ {s} : Behind(p, c, z) = Behind(p, c, y)
  BY <1>1 DEF Behind
<1>7. QED
  BY <1>4, <1>5, <1>6 DEF y, z

\* At the start of a nested scope nothing more is passed than before it, and at its end
\* all that is inside it.
LEMMA NestedEnds ==
  ASSUME NEW p, WellFormed(p), NEW c \in DOMAIN p \ {1}
  PROVE  LET y == <<p[c].parent, Position(p, c)>>
             first == <<c, 1>>
             last == <<c, Len(p[c].body) + 1>>
         IN  /\ \A x \in StatementsOf(p) : Passed(p, x, first) <=> Passed(p, x, y)
             /\ \A x \in StatementsOf(p) : Passed(p, x, last) <=> Passed(p, x, y) \/ x \in Within(p, c)
             /\ \A x \in Within(p, c) : ~Passed(p, x, y)
             /\ Behind(p, c, first) = {} /\ Behind(p, c, last) = Within(p, c)
             /\ \A a \in Around(p, p[c].parent) : /\ Behind(p, a, first) = Behind(p, a, y)
                                                  /\ Behind(p, a, last) = Behind(p, a, y)
<1> DEFINE s == p[c].parent
           y == <<s, Position(p, c)>>
           first == <<c, 1>>
           last == <<c, Len(p[c].body) + 1>>
<1>1. /\ s \in DOMAIN p /\ s \in Around(p, s)
      /\ Around(p, c) = {c} \union Around(p, s) /\ c \notin Around(p, s) /\ c \in Around(p, c)
  <2>1. s \in DOMAIN p /\ s < c /\ s \in Nat /\ c \in Nat
    BY ScopesAre
  <2>2. Around(p, c) = {c} \union Around(p, s) /\ Around(p, s) \subseteq 1..s /\ s \in Around(p, s)
    BY <2>1, AroundIs, AroundChain
  <2>3. QED
    BY <2>1, <2>2
<1>2. y[1] = s /\ first[1] = c /\ last[1] = c /\ Place(p, c, first) = 1 /\ Place(p, c, last) = Len(p[c].body) + 1
  BY DEF Place
<1>3. \A a \in Around(p, s) : Place(p, a, first) = Place(p, a, y) /\ Place(p, a, last) = Place(p, a, y)
  <2>1. first[1] \in DOMAIN p /\ c \in Around(p, first[1]) /\ last[1] \in DOMAIN p /\ c \in Around(p, last[1])
    BY <1>1, <1>2
  <2> HIDE DEF first, last
  <2>2. \A a \in Around(p, s) : Place(p, a, first) = Place(p, a, y)
    BY <2>1, PlaceInside
  <2>3. \A a \in Around(p, s) : Place(p, a, last) = Place(p, a, y)
    BY <2>1, PlaceInside
  <2>4. QED
    BY <2>2, <2>3
<1>4. \A x \in Within(p, c) : /\ x \in StatementsOf(p) /\ c \in Around(p, x[1])
                              /\ 1 <= Place(p, c, x) /\ Place(p, c, x) <= Len(p[c].body) /\ Place(p, c, x) \in Nat
                              /\ \A a \in Around(p, s) : Place(p, a, x) = Place(p, a, y) /\ a \in Around(p, x[1])
  <2>1. ASSUME NEW x \in Within(p, c)
        PROVE  /\ x \in StatementsOf(p) /\ c \in Around(p, x[1])
               /\ 1 <= Place(p, c, x) /\ Place(p, c, x) <= Len(p[c].body) /\ Place(p, c, x) \in Nat
               /\ \A a \in Around(p, s) : Place(p, a, x) = Place(p, a, y) /\ a \in Around(p, x[1])
    <3>1. x \in StatementsOf(p) /\ c \in Around(p, x[1]) /\ x[1] \in DOMAIN p
      BY StatementIs DEF Within
    <3>2. 1 <= Place(p, c, x) /\ Place(p, c, x) <= Len(p[c].body) /\ Place(p, c, x) \in Nat
      BY <3>1, PlaceIs
    <3>3. \A a \in Around(p, s) : Place(p, a, x) = Place(p, a, y) /\ a \in Around(p, x[1])
      BY <3>1, PlaceInside
    <3>4. QED
      BY <3>1, <3>2, <3>3
  <2>2. QED
    BY <2>1
<1>5. Len(p[c].body) \in Nat
  BY DEF WellFormed
<1>6. \A x \in StatementsOf(p) : \A a \in Around(p, x[1]) : Place(p, a, x) \in Nat
  BY PlaceIs
<1> HIDE DEF s, y, first, last
<1>7. \A a \in Around(p, s) : Behind(p, a, first) = Behind(p, a, y) /\ Behind(p, a, last) = Behind(p, a, y)
  BY <1>3 DEF Behind
<1>8. Behind(p, c, first) = {} /\ Behind(p, c, last) = Within(p, c)
  BY <1>2, <1>4, <1>5 DEF Behind
<1>9. ASSUME NEW x \in Within(p, c) PROVE ~Passed(p, x, y)
  <2>1. ASSUME NEW a \in Around(p, x[1]) \cap Around(p, s) PROVE ~(Place(p, a, x) < Place(p, a, y))
    BY <1>4, <1>6, <2>1
  <2>2. QED
    BY <1>2, <2>1 DEF Passed
<1>10. \A x \in StatementsOf(p) :
         /\ Passed(p, x, y) <=> \E a \in Around(p, x[1]) \cap Around(p, s) : Place(p, a, x) < Place(p, a, y)
         /\ Passed(p, x, first) <=> \/ \E a \in Around(p, x[1]) \cap Around(p, s) : Place(p, a, x) < Place(p, a, first)
                                    \/ c \in Around(p, x[1]) /\ Place(p, c, x) < Place(p, c, first)
         /\ Passed(p, x, last) <=> \/ \E a \in Around(p, x[1]) \cap Around(p, s) : Place(p, a, x) < Place(p, a, last)
                                   \/ c \in Around(p, x[1]) /\ Place(p, c, x) < Place(p, c, last)
  BY <1>1, <1>2 DEF Passed
<1>11. ASSUME NEW x \in StatementsOf(p)
       PROVE  /\ Passed(p, x, first) <=> Passed(p, x, y)
              /\ Passed(p, x, last) <=> Passed(p, x, y) \/ x \in Within(p, c)
  <2>1. \A a \in Around(p, x[1]) \cap Around(p, s) :
          Place(p, a, first) = Place(p, a, y) /\ Place(p, a, last) = Place(p, a, y)
    BY <1>3
  <2>2. c \in Around(p, x[1]) <=> x \in Within(p, c)
    BY DEF Within
  <2>3. x \in Within(p, c) => ~(Place(p, c, x) < Place(p, c, first)) /\ Place(p, c, x) < Place(p, c, last)
    BY <1>2, <1>4, <1>5
  <2>4. QED
    BY <1>10, <2>1, <2>2, <2>3
<1>12. QED
  BY <1>7, <1>8, <1>9, <1>11 DEF s, y, first, last

-----------------------------------------------------------------------------
(* Kinds of scopes, and how deep they lie.                                    *)

\* A While lies in the entry block and holds no scope; the scopes around and inside an
\* If are Ifs.
LEMMA KindsAre ==
  ASSUME NEW p, WellFormed(p), Supported(p), NEW s \in DOMAIN p
  PROVE  /\ p[s].kind \in {"main", "if", "while"} /\ (p[s].kind = "main" <=> s = 1)
         /\ p[s].kind = "while" =>
              /\ s # 1 /\ p[s].parent = 1 /\ Around(p, s) = {s, 1}
              /\ \A t \in DOMAIN p : s \in Around(p, t) => t = s
         /\ p[s].kind = "if" =>
              /\ \A t \in Around(p, s) \ {1} : p[t].kind = "if"
              /\ \A t \in DOMAIN p : s \in Around(p, t) => p[t].kind = "if"
<1>1. \A t \in DOMAIN p : /\ p[t].kind \in {"main", "if", "while"} /\ (p[t].kind = "main" <=> t = 1)
                          /\ t # 1 => p[p[t].parent].kind # "while"
                          /\ p[t].kind = "while" => p[t].parent = 1
  BY DEF WellFormed, Supported
<1>2. Around(p, 1) = {1}
  BY ScopesAre, AroundIs
<1>3. \A t \in DOMAIN p : \A w \in Around(p, t) \ {t} : w \in DOMAIN p /\ p[w].kind # "while"
  <2>1. ASSUME NEW t \in DOMAIN p, NEW w \in Around(p, t) \ {t} PROVE w \in DOMAIN p /\ p[w].kind # "while"
    <3>1. w \in DOMAIN p
      BY AroundChain, ScopesAre
    <3>2. PICK c \in Children(p, w) : TRUE
      BY AroundChain
    <3>3. QED
      BY <1>1, <3>1, <3>2 DEF Children
  <2>2. QED
    BY <2>1
<1>4. \A w \in DOMAIN p : p[w].kind = "while" => w # 1 /\ Around(p, w) = {w, 1}
  BY <1>1, <1>2, AroundIs
<1>5. ASSUME p[s].kind = "if", NEW t \in DOMAIN p, s \in Around(p, t) PROVE p[t].kind = "if"
  BY <1>1, <1>2, <1>4, <1>5
<1>6. ASSUME p[s].kind = "if", NEW t \in Around(p, s) \ {1} PROVE p[t].kind = "if"
  BY <1>1, <1>3, <1>6
<1>7. QED
  BY <1>1, <1>3, <1>4, <1>5, <1>6

LEMMA AroundFinite ==
  ASSUME NEW p, WellFormed(p), NEW s \in DOMAIN p
  PROVE  \A S \in SUBSET Around(p, s) : IsFiniteSet(S)
<1>1. Around(p, s) \subseteq 1..s /\ s \in Nat
  BY AroundChain, ScopesAre
<1>2. IsFiniteSet(1..s)
  BY <1>1, FS_Interval
<1>3. QED
  BY <1>1, <1>2, FS_Subset

LEMMA DepthsAre ==
  ASSUME NEW p, WellFormed(p), Supported(p), NEW s \in DOMAIN p
  PROVE  /\ p[s].kind = "main" => DepthOf(p, s, "if") = 0 /\ DepthOf(p, s, "while") = 0
         /\ p[s].kind = "if" => DepthOf(p, s, "if") > 0 /\ DepthOf(p, s, "while") = 0
         /\ p[s].kind = "while" => DepthOf(p, s, "if") = 0 /\ DepthOf(p, s, "while") = 1
<1> DEFINE In(kind) == {t \in Around(p, s) : p[t].kind = kind}
<1>1. s \in Around(p, s) /\ Around(p, s) \subseteq 1..s /\ s \in Nat
  BY AroundChain, ScopesAre
<1>2. \A kind \in {"if", "while"} : IsFiniteSet(In(kind))
  BY AroundFinite
<1>3. Cardinality({}) = 0
  BY FS_EmptySet
<1>4. p[1].kind = "main" /\ Around(p, 1) = {1}
  BY ScopesAre, AroundIs, KindsAre
<1>5. CASE p[s].kind = "main"
  <2>1. In("if") = {} /\ In("while") = {}
    BY <1>4, <1>5, KindsAre
  <2>2. QED
    BY <1>3, <1>5, <2>1 DEF DepthOf
<1>6. CASE p[s].kind = "if"
  <2>1. In("while") = {} /\ s \in In("if")
    BY <1>1, <1>4, <1>6, KindsAre
  <2>2. Cardinality(In("if")) \in Nat /\ Cardinality(In("if")) # 0
    BY <1>2, <2>1, FS_CardinalityType, FS_EmptySet
  <2>3. QED
    BY <1>3, <1>6, <2>1, <2>2 DEF DepthOf
<1>7. CASE p[s].kind = "while"
  <2>1. In("if") = {} /\ In("while") = {s}
    BY <1>4, <1>7, KindsAre
  <2>2. Cardinality({s}) = 1
    BY FS_Singleton
  <2>3. QED
    BY <1>3, <1>7, <2>1, <2>2 DEF DepthOf
<1>8. QED
  BY <1>5, <1>6, <1>7, KindsAre

\* The summary of a scope has its place in the stack of the scopes inside it.
Level(p, s) == Cardinality(Around(p, s))

LEMMA LevelsAre ==
  ASSUME NEW p, WellFormed(p), NEW s \in DOMAIN p
  PROVE  /\ Level(p, s) \in Nat /\ 1 <= Level(p, s)
         /\ s # 1 => Level(p, s) = Level(p, p[s].parent) + 1
         /\ s = 1 => Level(p, s) = 1
         /\ \A t \in Around(p, s) \ {s} : Level(p, t) \in Nat /\ 1 <= Level(p, t) /\ Level(p, t) < Level(p, s)
<1>1. \A t \in DOMAIN p : /\ IsFiniteSet(Around(p, t)) /\ Cardinality(Around(p, t)) \in Nat
                          /\ Cardinality(Around(p, t)) # 0
  <2>1. ASSUME NEW t \in DOMAIN p
        PROVE  /\ IsFiniteSet(Around(p, t)) /\ Cardinality(Around(p, t)) \in Nat
               /\ Cardinality(Around(p, t)) # 0
    <3>1. t \in Around(p, t)
      BY AroundChain
    <3>2. IsFiniteSet(Around(p, t))
      BY AroundFinite
    <3>3. QED
      BY <3>1, <3>2, FS_CardinalityType, FS_EmptySet
  <2>2. QED
    BY <2>1
<1>2. s = 1 => Level(p, s) = 1
  <2>1. Around(p, 1) = {1} /\ Cardinality({1}) = 1
    BY ScopesAre, AroundIs, FS_Singleton
  <2>2. QED
    BY <2>1 DEF Level
<1>3. ASSUME s # 1 PROVE Level(p, s) = Level(p, p[s].parent) + 1
  <2>1. p[s].parent \in DOMAIN p /\ p[s].parent < s /\ p[s].parent \in Nat /\ s \in Nat
    BY <1>3, ScopesAre
  <2>2. Around(p, s) = Around(p, p[s].parent) \union {s} /\ s \notin Around(p, p[s].parent)
    BY <1>3, <2>1, AroundIs, AroundChain
  <2>3. QED
    BY <1>1, <2>1, <2>2, FS_AddElement DEF Level
<1>4. ASSUME NEW t \in Around(p, s) \ {s} PROVE t \in DOMAIN p /\ Level(p, t) < Level(p, s)
  <2>1. t \in DOMAIN p /\ t < s /\ t \in Nat /\ s \in Nat
    BY AroundChain, ScopesAre
  <2>2. Around(p, t) \subseteq Around(p, s) /\ s \in Around(p, s) /\ s \notin Around(p, t)
    BY <2>1, AroundChain
  <2>3. Around(p, t) # Around(p, s)
    BY <2>2
  <2>4. Cardinality(Around(p, t)) <= Cardinality(Around(p, s)) /\ Cardinality(Around(p, t)) # Cardinality(Around(p, s))
    BY <1>1, <2>2, <2>3, FS_Subset
  <2>5. QED
    BY <1>1, <2>1, <2>4 DEF Level
<1>5. QED
  BY <1>1, <1>2, <1>3, <1>4 DEF Level

-----------------------------------------------------------------------------
(* The packs of the statements and of the summaries.                          *)

Source(p, x) == p[x[1]].body[x[2]]
PacksFor(p, x) == StatementPacks(p, x[1], x[2])

\* Where a statement finds what it carried out of a block.
Pack(p, x, block) == Bases(p)[x[1]] + Offset(p, x[1], x[2]) + (block % Width(Source(p, x)))

SummaryPack(p, s) == Bases(p)[s] + (IF HasSummary(p, s) THEN Sizes(p)[s] - 1 ELSE 0)
Frame(p) == 0..Max({Sizes(p)[1], 1}) - 1

LEMMA ReachIs ==
  ASSUME NEW p, WellFormed(p), NEW x \in StatementsOf(p)
  PROVE  /\ Reach(Source(p, x)) \in Nat \ {0} /\ Width(Source(p, x)) \in Nat \ {0}
         /\ Reach(Source(p, x)) <= Width(Source(p, x))
         /\ Source(p, x).type = "long" =>
              /\ Source(p, x).n \in 1..MaxRing /\ Reach(Source(p, x)) = Source(p, x).n
              /\ Width(Source(p, x)) = power2ceil(Source(p, x).n)
         /\ Source(p, x).type # "long" => Reach(Source(p, x)) = 1 /\ Width(Source(p, x)) = 1
<1>1. x[1] \in DOMAIN p /\ x[2] \in DOMAIN p[x[1]].body
  BY StatementIs
<1>2. Source(p, x).type = "long" => Source(p, x).n \in 1..MaxRing
  BY <1>1 DEF WellFormed, Source
<1>3. MaxRing \in Nat \ {0}
  BY MaxRingAssumption
<1>4. CASE Source(p, x).type = "long"
  <2>1. power2ceil(Source(p, x).n) \in Nat \ {0} /\ power2ceil(Source(p, x).n) >= Source(p, x).n
    BY <1>2, <1>3, <1>4, power2ceilIs
  <2>2. QED
    BY <1>2, <1>3, <1>4, <2>1 DEF Reach, Width, longAdvanceBufferSize
<1>5. CASE Source(p, x).type # "long"
  BY <1>5 DEF Reach, Width
<1>6. QED
  BY <1>4, <1>5

LEMMA PackIs ==
  ASSUME NEW p, WellFormed(p), NEW x \in StatementsOf(p)
  PROVE  /\ \A block \in Int : Pack(p, x, block) \in PacksFor(p, x)
         /\ Source(p, x).type # "long" => \A block \in Int : PacksFor(p, x) = {Pack(p, x, block)}
<1>1. x[1] \in DOMAIN p /\ x[2] \in Local(p, x[1])
  BY StatementIs
<1>2. Bases(p)[x[1]] \in Nat /\ Offset(p, x[1], x[2]) \in Nat
  BY <1>1, BasesAre, OffsetsAre
<1>3. Width(Source(p, x)) \in Nat \ {0} /\ (Source(p, x).type # "long" => Width(Source(p, x)) = 1)
  BY ReachIs
<1> DEFINE b == Bases(p)[x[1]]
           f == Offset(p, x[1], x[2])
           w == Width(Source(p, x))
<1>4. PacksFor(p, x) = b + f..b + f + w - 1 /\ \A block : Pack(p, x, block) = b + f + (block % w)
  BY DEF PacksFor, StatementPacks, Pack, Source
<1>5. b \in Nat /\ f \in Nat /\ w \in Nat \ {0}
  BY <1>2, <1>3
<1> HIDE DEF b, f, w
<1>6. \A block \in Int : block % w \in 0..w - 1
  BY <1>5, DivisionIs
<1>7. ASSUME NEW block \in Int PROVE Pack(p, x, block) \in PacksFor(p, x)
  <2> DEFINE r == block % w
  <2>1. r \in 0..w - 1 /\ Pack(p, x, block) = b + f + r
    BY <1>4, <1>6
  <2> HIDE DEF r
  <2>2. QED
    BY <1>4, <1>5, <2>1
<1>8. ASSUME w = 1, NEW block \in Int PROVE PacksFor(p, x) = {Pack(p, x, block)}
  <2>1. block % w = 0
    BY <1>6, <1>8
  <2>2. PacksFor(p, x) = {b + f}
    BY <1>4, <1>5, <1>8
  <2>3. QED
    BY <1>4, <1>5, <2>1, <2>2
<1>9. QED
  BY <1>3, <1>7, <1>8 DEF w

\* No pack of the frame is shared: two statements have different packs, the packs of a
\* scope are those of the statements within it, and its summary has one of its own.
THEOREM PacksApart ==
  ASSUME NEW p, WellFormed(p), NEW x \in StatementsOf(p)
  PROVE  /\ \A y \in StatementsOf(p) \ {x} : PacksFor(p, x) \cap PacksFor(p, y) = {}
         /\ \A c \in DOMAIN p :
              /\ x \in Within(p, c) => PacksFor(p, x) \subseteq PacksOf(p, c)
              /\ x \notin Within(p, c) => PacksFor(p, x) \cap PacksOf(p, c) = {}
              /\ HasSummary(p, c) => SummaryPack(p, c) \notin PacksFor(p, x)
<1>1. \A y \in StatementsOf(p) : /\ y = <<y[1], y[2]>> /\ y[1] \in DOMAIN p /\ y[2] \in Local(p, y[1])
                                 /\ PacksFor(p, y) \subseteq OwnPacks(p, y[1])
                                 /\ OwnPacks(p, y[1]) \subseteq PacksOf(p, y[1])
  <2>1. ASSUME NEW y \in StatementsOf(p)
        PROVE  /\ y = <<y[1], y[2]>> /\ y[1] \in DOMAIN p /\ y[2] \in Local(p, y[1])
               /\ PacksFor(p, y) \subseteq OwnPacks(p, y[1]) /\ OwnPacks(p, y[1]) \subseteq PacksOf(p, y[1])
    <3>1. y = <<y[1], y[2]>> /\ y[1] \in DOMAIN p /\ y[2] \in Local(p, y[1])
      BY StatementIs
    <3>2. PacksFor(p, y) \subseteq OwnPacks(p, y[1]) /\ OwnPacks(p, y[1]) \subseteq PacksOf(p, y[1])
      BY <3>1, OwnPacksAre DEF PacksFor
    <3>3. QED
      BY <3>1, <3>2
  <2>2. QED
    BY <2>1
<1>2. ASSUME NEW y \in StatementsOf(p) \ {x} PROVE PacksFor(p, x) \cap PacksFor(p, y) = {}
  <2>1. CASE x[1] = y[1]
    <3>1. x[2] \in Local(p, x[1]) /\ y[2] \in Local(p, x[1]) \ {x[2]} /\ x[1] \in DOMAIN p
      BY <1>1, <1>2, <2>1
    <3>2. StatementPacks(p, x[1], x[2]) \cap StatementPacks(p, x[1], y[2]) = {}
      BY <3>1, OwnPacksAre
    <3>3. QED
      BY <2>1, <3>2 DEF PacksFor
  <2>2. CASE x[1] # y[1]
    <3>1. OwnPacks(p, x[1]) \cap OwnPacks(p, y[1]) = {}
      BY <1>1, <2>2, OwnPacksApart
    <3>2. QED
      BY <1>1, <3>1
  <2>3. QED
    BY <2>1, <2>2
<1>3. ASSUME NEW c \in DOMAIN p
      PROVE  /\ x \in Within(p, c) => PacksFor(p, x) \subseteq PacksOf(p, c)
             /\ x \notin Within(p, c) => PacksFor(p, x) \cap PacksOf(p, c) = {}
             /\ HasSummary(p, c) => SummaryPack(p, c) \notin PacksFor(p, x)
  <2>1. x[1] \in DOMAIN p /\ PacksFor(p, x) \subseteq OwnPacks(p, x[1]) /\ PacksFor(p, x) \subseteq PacksOf(p, x[1])
    BY <1>1
  <2>2. ASSUME x \in Within(p, c) PROVE PacksFor(p, x) \subseteq PacksOf(p, c)
    <3>1. c \in Around(p, x[1])
      BY <2>2 DEF Within
    <3>2. PacksOf(p, x[1]) \subseteq PacksOf(p, c)
      BY <2>1, <3>1, InnerPacks
    <3>3. QED
      BY <2>1, <3>2
  <2>3. ASSUME x \notin Within(p, c) PROVE PacksFor(p, x) \cap PacksOf(p, c) = {}
    <3>1. c \notin Around(p, x[1])
      BY <2>3 DEF Within
    <3>2. OwnPacks(p, x[1]) \cap PacksOf(p, c) = {}
      BY <2>1, <3>1, OuterPacks
    <3>3. QED
      BY <2>1, <3>2
  <2>4. ASSUME HasSummary(p, c) PROVE SummaryPack(p, c) \notin PacksFor(p, x)
    <3>1. SummaryPack(p, c) = SummaryOf(p, c)
      <4>1. Bases(p)[c] \in Nat /\ Sizes(p)[c] \in Nat
        BY BasesAre, SizesAre
      <4>2. QED
        BY <2>4, <4>1 DEF SummaryPack, SummaryOf
    <3>2. SummaryOf(p, c) \in OwnPacks(p, c)
      BY <2>4 DEF OwnPacks
    <3>3. CASE c = x[1]
      BY <1>1, <2>4, <3>1, <3>3, OwnPacksAre DEF PacksFor
    <3>4. CASE c # x[1]
      <4>1. OwnPacks(p, c) \cap OwnPacks(p, x[1]) = {}
        BY <2>1, <3>4, OwnPacksApart
      <4>2. QED
        BY <2>1, <3>1, <3>2, <4>1
    <3>5. QED
      BY <3>3, <3>4
  <2>5. QED
    BY <2>2, <2>3, <2>4
<1>4. QED
  BY <1>2, <1>3

LEMMA SummaryPacksApart ==
  ASSUME NEW p, WellFormed(p), NEW s \in DOMAIN p, HasSummary(p, s)
  PROVE  \A c \in DOMAIN p :
           /\ c # s /\ HasSummary(p, c) => SummaryPack(p, c) # SummaryPack(p, s)
           /\ c \notin Around(p, s) => SummaryPack(p, s) \notin PacksOf(p, c)
<1>1. \A c \in DOMAIN p : HasSummary(p, c) => SummaryPack(p, c) \in OwnPacks(p, c)
  <2>1. ASSUME NEW c \in DOMAIN p, HasSummary(p, c) PROVE SummaryPack(p, c) \in OwnPacks(p, c)
    <3>1. Bases(p)[c] \in Nat /\ Sizes(p)[c] \in Nat
      BY BasesAre, SizesAre
    <3>2. SummaryPack(p, c) = SummaryOf(p, c)
      BY <2>1, <3>1 DEF SummaryPack, SummaryOf
    <3>3. QED
      BY <2>1, <3>2 DEF OwnPacks
  <2>2. QED
    BY <2>1
<1>2. ASSUME NEW c \in DOMAIN p, c # s, HasSummary(p, c) PROVE SummaryPack(p, c) # SummaryPack(p, s)
  <2>1. OwnPacks(p, c) \cap OwnPacks(p, s) = {}
    BY <1>2, OwnPacksApart
  <2>2. QED
    BY <1>1, <1>2, <2>1
<1>3. ASSUME NEW c \in DOMAIN p, c \notin Around(p, s) PROVE SummaryPack(p, s) \notin PacksOf(p, c)
  <2>1. OwnPacks(p, s) \cap PacksOf(p, c) = {}
    BY <1>3, OuterPacks
  <2>2. QED
    BY <1>1, <2>1
<1>4. QED
  BY <1>2, <1>3

\* The frame holds them all.
LEMMA FrameIs ==
  ASSUME NEW p, WellFormed(p), Supported(p)
  PROVE  /\ \A s \in DOMAIN p : SummaryPack(p, s) \in Frame(p) /\ PacksOf(p, s) \subseteq Frame(p)
         /\ \A x \in StatementsOf(p) : PacksFor(p, x) \subseteq Frame(p)
<1> DEFINE n == Max({Sizes(p)[1], 1})
<1>1. 1 \in DOMAIN p /\ Bases(p)[1] = 0 /\ Sizes(p)[1] \in Nat
  <2>1. 1 \in DOMAIN p
    BY ScopesAre
  <2>2. Bases(p)[1] = BaseFrom(p, 1, Bases(p))
    BY <2>1, BasesAre
  <2>3. QED
    BY <2>1, <2>2, SizesAre DEF BaseFrom
<1>2. n \in {Sizes(p)[1], 1} /\ n >= Sizes(p)[1] /\ n >= 1
  <2>1. \E y \in {Sizes(p)[1], 1} : \A z \in {Sizes(p)[1], 1} : y >= z
    <3>1. CASE Sizes(p)[1] >= 1
      BY <1>1, <3>1
    <3>2. CASE 1 >= Sizes(p)[1]
      BY <1>1, <3>2
    <3>3. QED
      BY <1>1, <3>1, <3>2
  <2>2. QED
    BY <2>1 DEF Max
<1>3. \A s \in DOMAIN p : Bases(p)[s] < n
  BY DEF Supported
<1> HIDE DEF n
<1>4. n \in Nat /\ Frame(p) = 0..n - 1
  BY <1>1, <1>2 DEF Frame, n
<1>5. PacksOf(p, 1) \subseteq Frame(p)
  BY <1>1, <1>2, <1>4 DEF PacksOf
<1>6. \A s \in DOMAIN p : PacksOf(p, s) \subseteq Frame(p)
  <2>1. \A s \in DOMAIN p : 1 \in Around(p, s)
    BY AroundChain
  <2>2. QED
    BY <1>1, <1>5, <2>1, InnerPacks
<1>7. ASSUME NEW s \in DOMAIN p PROVE SummaryPack(p, s) \in Frame(p)
  <2>1. Bases(p)[s] \in Nat /\ Sizes(p)[s] \in Nat
    BY BasesAre, SizesAre
  <2>2. CASE HasSummary(p, s)
    <3>1. SummaryPack(p, s) \in PacksOf(p, s)
      BY <2>1, <2>2 DEF SummaryPack, PacksOf, HasSummary
    <3>2. QED
      BY <1>6, <3>1
  <2>3. CASE ~HasSummary(p, s)
    BY <1>3, <1>4, <2>1, <2>3 DEF SummaryPack
  <2>4. QED
    BY <2>2, <2>3
<1>8. ASSUME NEW x \in StatementsOf(p) PROVE PacksFor(p, x) \subseteq Frame(p)
  <2>1. x[1] \in DOMAIN p /\ x \in Within(p, x[1])
    BY StatementIs, AroundChain DEF Within
  <2>2. QED
    BY <1>6, <2>1, PacksApart
<1>9. QED
  BY <1>6, <1>7, <1>8

\* A slot stays what it is when the number of the block moves on, and the block that is
\* written now does not overwrite one that is still to be read.
LEMMA SlotsKept ==
  ASSUME NEW p, WellFormed(p), NEW x \in StatementsOf(p), NEW b \in 0..MaxRing - 1, NEW back \in Int
  PROVE  /\ Pack(p, x, ((b + 1) % MaxRing) - (back + 1)) = Pack(p, x, b - back)
         /\ Pack(p, x, b - 0) = Pack(p, x, b)
         /\ back \in 1..Reach(Source(p, x)) - 1 => Pack(p, x, b - back) # Pack(p, x, b)
<1> DEFINE w == Width(Source(p, x))
           e == Bases(p)[x[1]] + Offset(p, x[1], x[2])
           new == (b + 1) % MaxRing
<1>1. w \in Nat \ {0} /\ Reach(Source(p, x)) \in Nat /\ Reach(Source(p, x)) <= w /\ MaxRing \in Nat \ {0}
  BY ReachIs, MaxRingAssumption
<1>2. e \in Nat
  BY StatementIs, BasesAre, OffsetsAre
<1>3. new \in Int
  BY <1>1
<1>4. (new - (back + 1)) % w = (b - back) % w
  <2>1. CASE Source(p, x).type = "long"
    <3>1. Source(p, x).n \in 1..MaxRing /\ w = power2ceil(Source(p, x).n)
      BY <2>1, ReachIs
    <3>2. QED
      BY <3>1, SlotsTurn
  <2>2. CASE Source(p, x).type # "long"
    <3>1. w = 1
      BY <2>2, ReachIs
    <3> HIDE DEF w, new
    <3>2. \A a \in Int : a % 1 = 0
      BY DivisionIs
    <3>3. new - (back + 1) \in Int /\ b - back \in Int
      BY <1>3
    <3>4. QED
      BY <3>1, <3>2, <3>3
  <2>3. QED
    BY <2>1, <2>2
<1>5. ASSUME back \in 1..Reach(Source(p, x)) - 1 PROVE (b - back) % w # b % w
  <2> DEFINE old == b - back
  <2>1. b \in Int /\ old \in Int /\ b - old \in 1..w - 1
    BY <1>1, <1>5
  <2> HIDE DEF old, w
  <2>2. b % w # old % w
    BY <1>1, <2>1, SlotsApart, Zenon
  <2>3. QED
    BY <2>2 DEF old
<1>6. \A block : Pack(p, x, block) = e + (block % w)
  BY DEF Pack
<1>7. b - 0 = b
  OBVIOUS
<1>8. Pack(p, x, new - (back + 1)) = Pack(p, x, b - back)
  <2> HIDE DEF w, e, new
  <2>1. QED
    BY <1>4, <1>6
<1>9. ASSUME back \in 1..Reach(Source(p, x)) - 1 PROVE Pack(p, x, b - back) # Pack(p, x, b)
  <2> DEFINE r == (b - back) % w
             q == b % w
  <2>1. r # q
    BY <1>5, <1>9
  <2>2. Pack(p, x, b - back) = e + r /\ Pack(p, x, b) = e + q
    BY <1>6
  <2>3. r \in Int /\ q \in Int
    <3> HIDE DEF w
    <3>1. b - back \in Int /\ b \in Int
      OBVIOUS
    <3>2. \A a \in Int : a % w \in 0..w - 1
      BY <1>1, DivisionIs
    <3>3. QED
      BY <1>1, <3>1, <3>2
  <2> HIDE DEF r, q, e
  <2>4. QED
    BY <1>2, <2>1, <2>2, <2>3
<1>10. QED
  BY <1>7, <1>8, <1>9

\* Where one pack is all there is to an If, it is its own summary.
LEMMA OnePackIs ==
  ASSUME NEW p, WellFormed(p), Supported(p), NEW c \in DOMAIN p, p[c].kind = "if", ~HasSummary(p, c)
  PROVE  /\ \A x \in Within(p, c) : PacksFor(p, x) = {SummaryPack(p, c)}
         /\ Sizes(p)[c] > 0 <=> Within(p, c) # {}
         /\ p[c].parent # 1 => \A i \in Local(p, c) : p[c].body[i].type # "long"
<1>1. Bases(p)[c] \in Nat /\ Sizes(p)[c] \in Nat /\ Sizes(p)[c] <= 1 /\ SummaryPack(p, c) = Bases(p)[c] /\ c # 1
  <2>1. DepthOf(p, c, "if") > 0
    BY DepthsAre
  <2>2. Bases(p)[c] \in Nat /\ Sizes(p)[c] \in Nat
    BY BasesAre, SizesAre
  <2>3. Sizes(p)[c] <= 1
    BY <2>1, <2>2 DEF HasSummary
  <2>4. QED
    BY <2>2, <2>3, KindsAre DEF SummaryPack
<1>2. ASSUME NEW x \in Within(p, c) PROVE PacksFor(p, x) = {SummaryPack(p, c)} /\ Sizes(p)[c] = 1
  <2>1. x \in StatementsOf(p)
    BY DEF Within
  <2>2. PacksFor(p, x) \subseteq PacksOf(p, c)
    BY <2>1, PacksApart
  <2>3. Pack(p, x, 0) \in PacksFor(p, x)
    BY <2>1, PackIs
  <2>4. QED
    BY <1>1, <2>2, <2>3 DEF PacksOf
<1>3. ASSUME Sizes(p)[c] > 0 PROVE Within(p, c) # {}
  <2>1. PICK t \in DOMAIN p : c \in Around(p, t) /\ Local(p, t) # {}
    BY <1>3, SomethingCarried
  <2>2. PICK i \in Local(p, t) : TRUE
    BY <2>1
  <2>3. <<t, i>> \in Within(p, c)
    BY <2>1 DEF Within, StatementsOf
  <2>4. QED
    BY <2>3
<1>4. ASSUME p[c].parent # 1, NEW i \in Local(p, c) PROVE p[c].body[i].type # "long"
  <2>1. <<c, i>> \in Within(p, c)
    BY AroundChain DEF Within, StatementsOf
  <2>2. Sizes(p)[c] = 1
    BY <1>2, <2>1
  <2>3. QED
    BY <1>1, <1>4, <2>2 DEF Supported
<1>5. QED
  BY <1>1, <1>2, <1>3, <1>4

-----------------------------------------------------------------------------
(* The inductive invariant.                                                   *)

LongWithin(p, c) == \E x \in Within(p, c) : Source(p, x).type = "long"

\* The summary of a scope around the statement, as far as it is collected in this block.
Summary(t) == IF t = scope THEN mCarryOutPack[SummaryPack(program, t)] ELSE mCarrySummary[Level(program, t)]

InLoop(x) == x[1] = scope /\ program[scope].kind = "while"

\* What this block carried out at x is in memory: the Whiles around it are done.
Kept(x) == Passed(program, x, at) /\ ~InLoop(x)

Known ==
  /\ program \in Programs /\ info = Layout(program)
  /\ at = <<scope, at[2]>> /\ sent = [x \in StatementsOf(program) |-> sent[x]]

\* The packs of a statement hold what it carried out, of the last block until the
\* statement is passed, of this one from then on.
MemoryIsHistory ==
  \A x \in StatementsOf(program) :
    \A back \in IF Kept(x) THEN 0..Reach(Source(program, x)) - 1 ELSE 1..Reach(Source(program, x)) :
      mem[Pack(program, x, blockNo - back)] = sent[x][back + 1]

NothingYet == \A x \in StatementsOf(program) : ~Passed(program, x, at) /\ ~InLoop(x) => ~sent[x][1]

\* In a While, what was carried out is in the accumulators and the packs of this iteration.
LoopAccumulates ==
  \A x \in StatementsOf(program) : InLoop(x) =>
    (sent[x][1] <=> \/ accum[Pack(program, x, 0)]
                    \/ Passed(program, x, at) /\ mCarryOutPack[Pack(program, x, 0)])

Carries(X) == \E x \in X : \E k \in PacksFor(program, x) : mem[k]

\* The summary that an If keeps says whether something in it carries.
SummariesKept ==
  \A c \in DOMAIN program :
    program[c].kind = "if" /\ c \notin Around(program, scope) /\ HasSummary(program, c) =>
      IF mem[SummaryPack(program, c)]
      THEN LongWithin(program, c) \/ Carries(Within(program, c))
      ELSE ~Carries(Within(program, c))

\* The summary that is collected in an If says whether something carries in what is
\* passed of it, except that its own long advances count at its end.
SummariesCollected ==
  \A c \in Around(program, scope) : program[c].kind = "if" =>
    IF Summary(c)
    THEN LongWithin(program, c) \/ Carries(Behind(program, c, at))
    ELSE \/ \E i \in Local(program, c) : program[c].body[i].type = "long"
         \/ ~Carries(Behind(program, c, at))

IInv ==
  /\ TypeOK /\ Known
  /\ MemoryIsHistory /\ NothingYet /\ LoopAccumulates
  /\ SummariesKept /\ SummariesCollected

-----------------------------------------------------------------------------
(* What the layout says at a state.                                           *)

LEMMA InfoIs ==
  ASSUME Known, NEW s \in DOMAIN program
  PROVE  /\ explicitSummaryRequired(s) <=> HasSummary(program, s)
         /\ summaryPack(s) = SummaryPack(program, s)
         /\ Packs(s) = PacksOf(program, s)
         /\ hasCarries(s) <=> Sizes(program)[s] > 0
         /\ info[s].whileDepth = DepthOf(program, s, "while")
         /\ info[s].hasLongAdvances <=> \E i \in Local(program, s) : program[s].body[i].type = "long"
         /\ \A i \in Local(program, s) : info[s].base + info[s].offset[i] = Bases(program)[s] + Offset(program, s, i)
         /\ info[s].size = Sizes(program)[s]
<1>1. info[s] = [base |-> Bases(program)[s], size |-> Sizes(program)[s],
                 offset |-> [i \in Local(program, s) |-> Offset(program, s, i)],
                 ifDepth |-> DepthOf(program, s, "if"), whileDepth |-> DepthOf(program, s, "while"),
                 hasLongAdvances |-> \E i \in Local(program, s) : program[s].body[i].type = "long"]
  BY DEF Known, Layout
<1>2. /\ info[s].base = Bases(program)[s] /\ info[s].size = Sizes(program)[s]
      /\ info[s].ifDepth = DepthOf(program, s, "if") /\ info[s].whileDepth = DepthOf(program, s, "while")
      /\ info[s].hasLongAdvances <=> \E i \in Local(program, s) : program[s].body[i].type = "long"
      /\ info[s].offset = [i \in Local(program, s) |-> Offset(program, s, i)]
  BY <1>1
<1>3. explicitSummaryRequired(s) <=> HasSummary(program, s)
  BY <1>2 DEF explicitSummaryRequired, HasSummary
<1>4. summaryPack(s) = SummaryPack(program, s)
  BY <1>2, <1>3 DEF summaryPack, SummaryPack
<1>5. QED
  BY <1>2, <1>3, <1>4 DEF Packs, PacksOf, hasCarries

\* The place where the program is.
LEMMA HereIs ==
  ASSUME \A p \in Programs : Supported(p), TypeOK, Known
  PROVE  /\ program \in Programs /\ WellFormed(program) /\ Supported(program) /\ info = Layout(program)
         /\ at = <<scope, at[2]>> /\ scope \in DOMAIN program
         /\ Len(program[scope].body) \in Nat /\ DOMAIN program[scope].body = 1..Len(program[scope].body)
         /\ at[2] \in Nat /\ 1 <= at[2] /\ at[2] <= Len(program[scope].body) + 1
         /\ DOMAIN mem = Frame(program)
         /\ Statements = StatementsOf(program)
         /\ blockNo \in 0..MaxRing - 1 /\ MaxRing \in Nat \ {0}
<1>1. program \in Programs /\ WellFormed(program) /\ Supported(program) /\ info = Layout(program)
  BY ProgramsAssumption DEF Known
<1>2. scope \in DOMAIN program /\ at = <<scope, at[2]>> /\ at[2] \in 1..Len(program[scope].body) + 1
  BY DEF TypeOK, scope, Known
<1>3. Len(program[scope].body) \in Nat /\ DOMAIN program[scope].body = 1..Len(program[scope].body)
  BY <1>1, <1>2 DEF WellFormed
<1>4. DOMAIN mem = Frame(program)
  <2>1. info[1].size = Sizes(program)[1]
    BY <1>1, ScopesAre, InfoIs
  <2>2. QED
    BY <2>1 DEF TypeOK, Frame
<1>5. QED
  BY <1>1, <1>2, <1>3, <1>4, MaxRingAssumption DEF TypeOK, Statements, StatementsOf

\* The statement that comes next, when it is not a nested scope.
LEMMA LocalHere ==
  ASSUME \A p \in Programs : Supported(p), TypeOK, Known, ~Ended, Statement.type # "scope"
  PROVE  /\ at[2] \in Local(program, scope) /\ at \in StatementsOf(program)
         /\ Statement = Source(program, at) /\ Ahead(program, scope, at[2]) = {at}
         /\ Statement.type = "long" => \A block \in Int : Slot(block) = Pack(program, at, block)
         /\ Statement.type # "long" => \A block \in Int : Index = Pack(program, at, block)
<1>1. at[2] \in Local(program, scope) /\ at = <<scope, at[2]>> /\ scope \in DOMAIN program /\ WellFormed(program)
  BY HereIs DEF Ended, Statement, Local
<1>2. at \in StatementsOf(program)
  BY <1>1 DEF StatementsOf
<1>3. Statement = Source(program, at)
  BY DEF Statement, Source, scope
<1>4. Ahead(program, scope, at[2]) = {at}
  BY <1>1, AheadIs DEF Local
<1>5. Index = Bases(program)[at[1]] + Offset(program, at[1], at[2])
  <2>1. info[scope].base + info[scope].offset[at[2]] = Bases(program)[scope] + Offset(program, scope, at[2])
    BY <1>1, InfoIs
  <2>2. QED
    BY <2>1 DEF Index, scope
<1>6. ASSUME NEW block \in Int, Statement.type = "long" PROVE Slot(block) = Pack(program, at, block)
  BY <1>3, <1>5, <1>6 DEF Slot, Pack, Width
<1>7. ASSUME NEW block \in Int, Statement.type # "long" PROVE Index = Pack(program, at, block)
  <2>1. Width(Source(program, at)) = 1
    BY <1>3, <1>7 DEF Width
  <2>2. block % 1 = 0
    BY DivisionIs
  <2>3. Bases(program)[at[1]] \in Nat /\ Offset(program, at[1], at[2]) \in Nat
    BY <1>1, BasesAre, OffsetsAre DEF scope
  <2>4. QED
    BY <1>5, <2>1, <2>2, <2>3 DEF Pack
<1>8. QED
  BY <1>1, <1>2, <1>3, <1>4, <1>6, <1>7

-----------------------------------------------------------------------------
(* A statement that carries.                                                  *)

LEMMA StatementRuns ==
  ASSUME \A p \in Programs : Supported(p), IInv, CarryInCarryOut \/ longAdvanceCarryInCarryOut
  PROVE  /\ ~Ended /\ Statement.type # "scope"
         /\ Pack(program, at, blockNo) \in DOMAIN mem
         /\ at' = <<scope, at[2] + 1>>
         /\ program' = program /\ info' = info /\ mCarrySummary' = mCarrySummary
         /\ accum' = accum /\ blockNo' = blockNo
         /\ mCarryOutPack' \in [DOMAIN mem -> BOOLEAN]
         /\ \E carry \in BOOLEAN :
              /\ mem' = IF InLoop(at) THEN mem ELSE [mem EXCEPT ![Pack(program, at, blockNo)] = carry]
              /\ sent' = [sent EXCEPT ![at][1] = @ \/ carry]
              /\ InLoop(at) => mCarryOutPack' = [mCarryOutPack EXCEPT ![Pack(program, at, blockNo)] = carry]
              /\ program[scope].kind = "if" =>
                   \/ \E i \in Local(program, scope) : program[scope].body[i].type = "long"
                   \/ mCarryOutPack'[SummaryPack(program, scope)] <=>
                        carry \/ (HasSummary(program, scope) /\ Summary(scope))
<1> DEFINE k == Pack(program, at, blockNo)
           z == SummaryPack(program, scope)
<1>1. ~Ended /\ Statement.type # "scope"
  BY DEF CarryInCarryOut, longAdvanceCarryInCarryOut
<1>2. TypeOK /\ Known /\ WellFormed(program) /\ Supported(program) /\ scope \in DOMAIN program
      /\ DOMAIN mem = Frame(program) /\ blockNo \in Int
  BY HereIs DEF IInv
<1>3. at \in StatementsOf(program) /\ Statement = Source(program, at) /\ at[2] \in Local(program, scope)
      /\ (Statement.type = "long" => Slot(blockNo) = k) /\ (Statement.type # "long" => Index = k)
  BY <1>1, <1>2, LocalHere
<1>4. k \in DOMAIN mem /\ z \in DOMAIN mem
  <2>1. k \in PacksFor(program, at)
    BY <1>2, <1>3, PackIs
  <2>2. QED
    BY <1>2, <1>3, <2>1, FrameIs
<1>5. /\ program[scope].kind \in {"main", "if", "while"} /\ (InLoop(at) <=> program[scope].kind = "while")
      /\ info[scope].whileDepth = 0 <=> ~InLoop(at)
      /\ InLoop(at) => Statement.type # "long" /\ ~hasSummary(scope)
  <2>1. program[scope].kind \in {"main", "if", "while"} /\ (InLoop(at) <=> program[scope].kind = "while")
    BY <1>2, KindsAre DEF InLoop, scope
  <2>2. info[scope].whileDepth = DepthOf(program, scope, "while")
    BY <1>2, InfoIs
  <2>3. InLoop(at) => Statement.type # "long"
    BY <1>2, <1>3, <2>1 DEF Supported, Statement
  <2>4. InLoop(at) => ~hasSummary(scope)
    <3>1. explicitSummaryRequired(scope) <=> HasSummary(program, scope)
      BY <1>2, InfoIs
    <3>2. InLoop(at) => ~HasSummary(program, scope)
      BY <1>2, <2>1, DepthsAre DEF HasSummary
    <3>3. QED
      BY <3>1, <3>2 DEF hasSummary
  <2>5. QED
    BY <1>2, <2>1, <2>2, <2>3, <2>4, DepthsAre
<1>6. mCarryOutPack \in [DOMAIN mem -> BOOLEAN] /\ mem \in [DOMAIN mem -> BOOLEAN]
  BY <1>2 DEF TypeOK
<1>7. /\ at' = <<scope, at[2] + 1>> /\ program' = program /\ info' = info /\ mCarrySummary' = mCarrySummary
      /\ accum' = accum /\ blockNo' = blockNo
  BY DEF CarryInCarryOut, longAdvanceCarryInCarryOut, compiled
<1>8. CASE longAdvanceCarryInCarryOut
  <2>1. PICK carry \in BOOLEAN : mem' = [mem EXCEPT ![Slot(blockNo)] = carry] /\ Sends(carry)
    BY <1>8 DEF longAdvanceCarryInCarryOut
  <2>2. Statement.type = "long" /\ mCarryOutPack' = mCarryOutPack
    BY <1>8 DEF longAdvanceCarryInCarryOut
  <2>3. program[scope].body[at[2]].type = "long"
    BY <2>2 DEF Statement
  <2>4. mem' = [mem EXCEPT ![k] = carry]
    BY <1>3, <2>1, <2>2
  <2> HIDE DEF k, z
  <2>5. QED
    BY <1>1, <1>3, <1>4, <1>5, <1>6, <1>7, <2>1, <2>2, <2>3, <2>4 DEF Sends, k
<1>9. CASE CarryInCarryOut
  <2>1. Statement.type # "long" /\ Index = k
    BY <1>3, <1>9 DEF CarryInCarryOut
  <2>2. PICK carry \in BOOLEAN :
          LET out == [mCarryOutPack EXCEPT ![k] = carry]
          IN  /\ mCarryOutPack' = IF hasSummary(scope) THEN addToSummary(out, scope, carry) ELSE out
              /\ mem' = IF info[scope].whileDepth = 0 THEN [mem EXCEPT ![k] = carry] ELSE mem
              /\ Sends(carry)
    BY <1>9, <2>1 DEF CarryInCarryOut
  <2>3. summaryPack(scope) = z /\ (explicitSummaryRequired(scope) <=> HasSummary(program, scope))
        /\ (info[scope].hasLongAdvances <=> \E i \in Local(program, scope) : program[scope].body[i].type = "long")
    BY <1>2, InfoIs
  <2>4. HasSummary(program, scope) => z # k
    <3>1. HasSummary(program, scope) => z \notin PacksFor(program, at)
      BY <1>2, <1>3, PacksApart
    <3>2. k \in PacksFor(program, at)
      BY <1>2, <1>3, PackIs
    <3>3. QED
      BY <3>1, <3>2
  <2>5. program[scope].kind = "if" /\ ~HasSummary(program, scope) => z = k
    <3>1. ASSUME program[scope].kind = "if", ~HasSummary(program, scope) PROVE z = k
      <4>1. at \in Within(program, scope)
        BY <1>2, <1>3, AroundChain DEF Within, scope
      <4>2. PacksFor(program, at) = {z}
        BY <1>2, <3>1, <4>1, OnePackIs
      <4>3. k \in PacksFor(program, at)
        BY <1>2, <1>3, PackIs
      <4>4. QED
        BY <4>2, <4>3
    <3>2. QED
      BY <3>1
  <2> DEFINE out == [mCarryOutPack EXCEPT ![k] = carry]
  <2>6. mCarryOutPack' = IF hasSummary(scope) THEN [out EXCEPT ![z] = @ \/ carry] ELSE out
    BY <2>2, <2>3 DEF addToSummary
  <2>7. Summary(scope) = mCarryOutPack[z]
    BY DEF Summary
  <2> HIDE DEF k, z
  <2>8. mCarryOutPack' \in [DOMAIN mem -> BOOLEAN]
    BY <1>4, <1>6, <2>6
  <2>9. program[scope].kind = "if" =>
          \/ \E i \in Local(program, scope) : program[scope].body[i].type = "long"
          \/ mCarryOutPack'[z] <=> carry \/ (HasSummary(program, scope) /\ Summary(scope))
    BY <1>4, <1>6, <2>3, <2>4, <2>5, <2>6, <2>7 DEF hasSummary
  <2>10. InLoop(at) => mCarryOutPack' = [mCarryOutPack EXCEPT ![k] = carry]
    BY <1>5, <2>6
  <2>11. mem' = IF InLoop(at) THEN mem ELSE [mem EXCEPT ![k] = carry]
    BY <1>5, <2>2
  <2>12. sent' = [sent EXCEPT ![at][1] = @ \/ carry]
    BY <2>2 DEF Sends
  <2>13. QED
    BY <1>1, <1>4, <1>7, <2>8, <2>9, <2>10, <2>11, <2>12 DEF k, z
<1>10. QED
  BY <1>8, <1>9

LEMMA StatementStep ==
  ASSUME \A p \in Programs : Supported(p), IInv, CarryInCarryOut \/ longAdvanceCarryInCarryOut
  PROVE  IInv'
<1> DEFINE k == Pack(program, at, blockNo)
           z == SummaryPack(program, scope)
           OwnLong(c) == \E i \in Local(program, c) : program[c].body[i].type = "long"
<1>1. /\ TypeOK /\ Known /\ WellFormed(program) /\ Supported(program) /\ scope \in DOMAIN program
      /\ DOMAIN mem = Frame(program) /\ blockNo \in Int /\ Statements = StatementsOf(program)
      /\ at[2] \in Nat /\ 1 <= at[2] /\ Len(program[scope].body) \in Nat /\ at = <<scope, at[2]>>
  BY HereIs DEF IInv
<1>2. /\ ~Ended /\ Statement.type # "scope" /\ k \in DOMAIN mem
      /\ at' = <<scope, at[2] + 1>> /\ mCarryOutPack' \in [DOMAIN mem -> BOOLEAN]
      /\ program' = program /\ info' = info /\ mCarrySummary' = mCarrySummary /\ accum' = accum /\ blockNo' = blockNo
  BY StatementRuns
<1>3. PICK carry \in BOOLEAN :
        /\ mem' = IF InLoop(at) THEN mem ELSE [mem EXCEPT ![k] = carry]
        /\ sent' = [sent EXCEPT ![at][1] = @ \/ carry]
        /\ InLoop(at) => mCarryOutPack' = [mCarryOutPack EXCEPT ![k] = carry]
        /\ program[scope].kind = "if" =>
             OwnLong(scope) \/ (mCarryOutPack'[z] <=> carry \/ (HasSummary(program, scope) /\ Summary(scope)))
  BY StatementRuns
<1>4. at \in StatementsOf(program) /\ Statement = Source(program, at) /\ at[2] \in Local(program, scope)
      /\ Ahead(program, scope, at[2]) = {at}
  BY <1>1, <1>2, LocalHere
<1>5. scope' = scope /\ (at')[2] = at[2] + 1
  BY <1>2 DEF scope
<1>6. /\ mem \in [DOMAIN mem -> BOOLEAN] /\ mem' \in [DOMAIN mem -> BOOLEAN] /\ DOMAIN mem' = DOMAIN mem
      /\ mCarryOutPack \in [DOMAIN mem -> BOOLEAN]
  BY <1>1, <1>2, <1>3 DEF TypeOK
<1>7. \A x \in StatementsOf(program) :
        sent[x] \in [1..Reach(Source(program, x)) + 1 -> BOOLEAN] /\ Reach(Source(program, x)) \in Nat \ {0}
  BY <1>1, ReachIs DEF TypeOK, Source
<1>8. /\ \A x \in StatementsOf(program) \ {at} : sent'[x] = sent[x]
      /\ sent'[at] \in [1..Reach(Source(program, at)) + 1 -> BOOLEAN]
      /\ sent'[at][1] = (sent[at][1] \/ carry)
      /\ \A j \in 2..Reach(Source(program, at)) + 1 : sent'[at][j] = sent[at][j]
      /\ sent' = [x \in StatementsOf(program) |-> sent'[x]]
  <2>1. sent = [x \in StatementsOf(program) |-> sent[x]]
    BY <1>1 DEF Known
  <2> DEFINE n == Reach(Source(program, at))
             value == sent[at][1] \/ carry
             h == [sent[at] EXCEPT ![1] = value]
  <2>2. at \in StatementsOf(program) /\ n \in Nat \ {0} /\ sent[at] \in [1..n + 1 -> BOOLEAN]
    BY <1>4, <1>7
  <2>3. sent' = [sent EXCEPT ![at] = h]
    BY <1>3
  <2>4. h \in [1..n + 1 -> BOOLEAN] /\ h[1] = value /\ \A j \in 2..n + 1 : h[j] = sent[at][j]
    <3>1. value \in BOOLEAN /\ 1 \in 1..n + 1
      BY <2>2
    <3> HIDE DEF value, n
    <3>2. QED
      BY <2>2, <3>1
  <2> HIDE DEF h, value
  <2>5. sent'[at] = h /\ (\A x \in StatementsOf(program) \ {at} : sent'[x] = sent[x])
        /\ sent' = [x \in StatementsOf(program) |-> sent'[x]]
    BY <2>1, <2>2, <2>3
  <2>6. QED
    BY <2>4, <2>5 DEF value
<1>9. /\ \A x \in StatementsOf(program) : Passed(program, x, at') <=> Passed(program, x, at) \/ x = at
      /\ Behind(program, scope, at') = Behind(program, scope, at) \union {at}
      /\ \A c \in Around(program, scope) \ {scope} : Behind(program, c, at') = Behind(program, c, at)
  <2> DEFINE i == at[2]
             next == <<scope, i + 1>>
             here == <<scope, i>>
  <2>1. WellFormed(program) /\ scope \in DOMAIN program /\ i \in Nat /\ at' = next /\ at = here
    BY <1>1, <1>2
  <2> HIDE DEF i
  <2>2. \A x \in StatementsOf(program) :
          Passed(program, x, next) <=> Passed(program, x, here) \/ x \in Ahead(program, scope, i)
    BY <2>1, StepOn
  <2>3. Behind(program, scope, next) = Behind(program, scope, here) \union Ahead(program, scope, i)
    BY <2>1, StepOn
  <2>4. \A c \in Around(program, scope) \ {scope} : Behind(program, c, next) = Behind(program, c, here)
    BY <2>1, StepOn
  <2> HIDE DEF next, here
  <2>5. Ahead(program, scope, i) = {at}
    BY <1>4 DEF i
  <2>6. QED
    BY <2>1, <2>2, <2>3, <2>4, <2>5
<1>10. ~Passed(program, at, at)
  BY <1>1, <1>4, NotPassedItself
<1>11. \A x \in StatementsOf(program) : InLoop(x)' <=> InLoop(x)
  BY <1>2, <1>5 DEF InLoop
<1>12. /\ k \in PacksFor(program, at)
       /\ \A x \in StatementsOf(program) \ {at} : k \notin PacksFor(program, x)
       /\ \A c \in DOMAIN program : c \notin Around(program, scope) => k \notin PacksOf(program, c)
  <2>1. k \in PacksFor(program, at)
    BY <1>1, <1>4, PackIs
  <2>2. \A x \in StatementsOf(program) \ {at} : PacksFor(program, at) \cap PacksFor(program, x) = {}
    BY <1>1, <1>4, PacksApart
  <2>3. ASSUME NEW c \in DOMAIN program, c \notin Around(program, scope) PROVE k \notin PacksOf(program, c)
    <3>1. at \notin Within(program, c)
      BY <2>3 DEF Within, scope
    <3>2. PacksFor(program, at) \cap PacksOf(program, c) = {}
      BY <1>1, <1>4, <3>1, PacksApart
    <3>3. QED
      BY <2>1, <3>2
  <2>4. QED
    BY <2>1, <2>2, <2>3
<1>13. /\ \A j \in DOMAIN mem \ {k} : mem'[j] = mem[j]
       /\ ~InLoop(at) => mem'[k] = carry
       /\ InLoop(at) => /\ mem' = mem /\ mCarryOutPack'[k] = carry
                        /\ \A j \in DOMAIN mem \ {k} : mCarryOutPack'[j] = mCarryOutPack[j]
  BY <1>2, <1>3, <1>6
<1>14. \A x \in StatementsOf(program) : PacksFor(program, x) \subseteq DOMAIN mem
                                       /\ \A block \in Int : Pack(program, x, block) \in PacksFor(program, x)
  BY <1>1, PackIs, FrameIs
<1> HIDE DEF k, z, OwnLong
<1>15. TypeOK'
  <2>1. at[2] + 1 \in 1..Len(program[scope].body) + 1
    BY <1>1, <1>2 DEF Ended
  <2>2. \A x \in StatementsOf(program) : sent'[x] \in [1..Reach(Source(program, x)) + 1 -> BOOLEAN]
    BY <1>7, <1>8
  <2>3. Statements' = StatementsOf(program)
    BY <1>1, <1>2 DEF Statements
  <2>4. QED
    BY <1>1, <1>2, <1>5, <1>6, <2>1, <2>2, <2>3 DEF TypeOK, Source, scope
<1>16. Known'
  <2>1. at' = <<scope', (at')[2]>>
    BY <1>2, <1>5
  <2>2. QED
    BY <1>1, <1>2, <1>8, <2>1 DEF Known
<1>17. MemoryIsHistory'
  <2>1. SUFFICES ASSUME NEW x \in StatementsOf(program),
                        NEW back \in IF Kept(x)' THEN 0..Reach(Source(program, x)) - 1 ELSE 1..Reach(Source(program, x))
                 PROVE  mem'[Pack(program, x, blockNo - back)] = sent'[x][back + 1]
    BY <1>2 DEF MemoryIsHistory
  <2>2. Reach(Source(program, x)) \in Nat \ {0} /\ back \in Nat /\ blockNo - back \in Int
    BY <1>1, <1>7
  <2>3. Pack(program, x, blockNo - back) \in PacksFor(program, x)
    BY <1>14, <2>2
  <2>4. \A b \in IF Kept(x) THEN 0..Reach(Source(program, x)) - 1 ELSE 1..Reach(Source(program, x)) :
          mem[Pack(program, x, blockNo - b)] = sent[x][b + 1]
    BY DEF IInv, MemoryIsHistory
  <2>5. CASE x # at
    <3>1. Kept(x)' <=> Kept(x)
      BY <1>2, <1>9, <1>11, <2>5 DEF Kept
    <3>2. mem'[Pack(program, x, blockNo - back)] = mem[Pack(program, x, blockNo - back)]
      BY <1>12, <1>13, <1>14, <2>3, <2>5
    <3>3. sent'[x] = sent[x]
      BY <1>8, <2>5
    <3>4. QED
      BY <2>1, <2>4, <3>1, <3>2, <3>3
  <2>6. CASE x = at /\ InLoop(at)
    <3>1. ~Kept(x) /\ ~Kept(x)'
      BY <1>2, <1>11, <2>6 DEF Kept
    <3>2. back \in 1..Reach(Source(program, at)) /\ back + 1 \in 2..Reach(Source(program, at)) + 1
      BY <2>1, <2>2, <2>6, <3>1
    <3>3. QED
      BY <1>8, <1>13, <2>4, <2>6, <3>1, <3>2
  <2>7. CASE x = at /\ ~InLoop(at)
    <3>1. ~Kept(x) /\ Kept(x)'
      BY <1>2, <1>9, <1>10, <1>11, <2>7 DEF Kept
    <3>2. back \in 0..Reach(Source(program, at)) - 1
      BY <2>1, <2>7, <3>1
    <3>3. blockNo \in 0..MaxRing - 1
      BY <1>1 DEF TypeOK
    <3>4. CASE back = 0
      <4>1. Pack(program, x, blockNo - back) = k
        BY <1>1, <2>7, <3>3, <3>4, SlotsKept DEF k
      <4>2. ~sent[at][1]
        BY <1>4, <1>10, <2>7 DEF IInv, NothingYet
      <4>3. QED
        BY <1>8, <1>13, <2>7, <3>4, <4>1, <4>2
    <3>5. CASE back # 0
      <4>1. back \in 1..Reach(Source(program, at)) - 1 /\ back \in Int
        BY <2>2, <3>2, <3>5
      <4>2. Pack(program, x, blockNo - back) # k
        BY <1>1, <1>4, <2>7, <3>3, <4>1, SlotsKept DEF k
      <4>3. mem'[Pack(program, x, blockNo - back)] = mem[Pack(program, x, blockNo - back)]
        BY <1>13, <1>14, <2>3, <4>2
      <4>4. back \in 1..Reach(Source(program, x)) /\ back + 1 \in 2..Reach(Source(program, at)) + 1
        BY <2>2, <2>7, <4>1
      <4>5. QED
        BY <1>8, <2>4, <2>7, <3>1, <4>3, <4>4
    <3>6. QED
      BY <3>4, <3>5
  <2>8. QED
    BY <2>5, <2>6, <2>7
<1>18. NothingYet'
  <2>1. SUFFICES ASSUME NEW x \in StatementsOf(program), ~Passed(program, x, at'), ~InLoop(x)'
                 PROVE  ~sent'[x][1]
    BY <1>2 DEF NothingYet
  <2>2. x # at /\ ~Passed(program, x, at) /\ ~InLoop(x)
    BY <1>9, <1>11, <2>1
  <2>3. QED
    BY <1>8, <2>2 DEF IInv, NothingYet
<1>19. LoopAccumulates'
  <2>1. SUFFICES ASSUME NEW x \in StatementsOf(program), InLoop(x)'
                 PROVE  sent'[x][1] <=> \/ accum[Pack(program, x, 0)]
                                        \/ Passed(program, x, at') /\ mCarryOutPack'[Pack(program, x, 0)]
    BY <1>2 DEF LoopAccumulates
  <2>2. sent[x][1] <=> \/ accum[Pack(program, x, 0)]
                       \/ Passed(program, x, at) /\ mCarryOutPack[Pack(program, x, 0)]
    BY <1>11, <2>1 DEF IInv, LoopAccumulates
  <2>3. InLoop(at)
    BY <1>11, <2>1 DEF InLoop, scope
  <2>4. Pack(program, x, 0) \in PacksFor(program, x) /\ Pack(program, x, 0) \in DOMAIN mem
    BY <1>14
  <2>5. CASE x = at
    <3>1. Source(program, at).type # "long"
      BY <1>1, <1>4, <2>3 DEF Supported, InLoop, Source, scope
    <3>2. PacksFor(program, at) = {Pack(program, at, 0)}
      BY <1>1, <1>4, <3>1, PackIs
    <3>3. Pack(program, x, 0) = k
      BY <1>12, <2>5, <3>2
    <3>4. QED
      BY <1>8, <1>9, <1>10, <1>13, <2>2, <2>3, <2>5, <3>3
  <2>6. CASE x # at
    BY <1>8, <1>9, <1>12, <1>13, <2>2, <2>3, <2>4, <2>6
  <2>7. QED
    BY <2>5, <2>6
<1>20. SummariesKept'
  <2>1. SUFFICES ASSUME NEW c \in DOMAIN program, program[c].kind = "if",
                        c \notin Around(program, scope), HasSummary(program, c)
                 PROVE  IF mem'[SummaryPack(program, c)]
                        THEN LongWithin(program, c) \/ \E x \in Within(program, c) : \E j \in PacksFor(program, x) : mem'[j]
                        ELSE ~\E x \in Within(program, c) : \E j \in PacksFor(program, x) : mem'[j]
    BY <1>2, <1>5 DEF SummariesKept, Carries
  <2>2. \A j \in PacksOf(program, c) : mem'[j] = mem[j]
    <3>1. PacksOf(program, c) \subseteq DOMAIN mem /\ k \notin PacksOf(program, c)
      BY <1>1, <1>12, <2>1, FrameIs
    <3>2. QED
      BY <1>13, <3>1
  <2>3. SummaryPack(program, c) \in PacksOf(program, c)
    <3>1. Bases(program)[c] \in Nat /\ Sizes(program)[c] \in Nat
      BY <1>1, BasesAre, SizesAre
    <3>2. QED
      BY <2>1, <3>1 DEF SummaryPack, PacksOf, HasSummary
  <2>4. \A x \in Within(program, c) : PacksFor(program, x) \subseteq PacksOf(program, c)
    BY <1>1, PacksApart DEF Within
  <2>5. IF mem[SummaryPack(program, c)]
        THEN LongWithin(program, c) \/ \E x \in Within(program, c) : \E j \in PacksFor(program, x) : mem[j]
        ELSE ~\E x \in Within(program, c) : \E j \in PacksFor(program, x) : mem[j]
    BY <2>1 DEF IInv, SummariesKept, Carries
  <2>6. QED
    BY <2>2, <2>3, <2>4, <2>5
<1>21. SummariesCollected'
  <2>1. SUFFICES ASSUME NEW c \in Around(program, scope), program[c].kind = "if"
                 PROVE  IF Summary(c)'
                        THEN \/ LongWithin(program, c)
                             \/ \E x \in Behind(program, c, at') : \E j \in PacksFor(program, x) : mem'[j]
                        ELSE \/ OwnLong(c)
                             \/ ~\E x \in Behind(program, c, at') : \E j \in PacksFor(program, x) : mem'[j]
    BY <1>2, <1>5 DEF SummariesCollected, Carries, OwnLong
  <2>2. IF Summary(c)
        THEN LongWithin(program, c) \/ \E x \in Behind(program, c, at) : \E j \in PacksFor(program, x) : mem[j]
        ELSE OwnLong(c) \/ ~\E x \in Behind(program, c, at) : \E j \in PacksFor(program, x) : mem[j]
    BY <2>1 DEF IInv, SummariesCollected, Carries, OwnLong
  <2>3. at \notin Behind(program, c, at)
    BY <1>1, <1>4, <2>1, PlaceIs DEF Behind, scope
  <2>4. \A x \in Behind(program, c, at) : x \in StatementsOf(program) \ {at} /\ x \in Within(program, c)
    BY <2>3 DEF Behind, Within
  <2>5. \A x \in Behind(program, c, at) : \A j \in PacksFor(program, x) : mem'[j] = mem[j]
    BY <1>12, <1>13, <1>14, <2>4
  <2>6. CASE c # scope
    <3>1. Summary(c)' <=> Summary(c)
      BY <1>2, <1>5, <2>6 DEF Summary
    <3>2. Behind(program, c, at') = Behind(program, c, at)
      BY <1>9, <2>6
    <3>3. QED
      BY <2>2, <2>5, <3>1, <3>2
  <2>7. CASE c = scope
    <3>1. ~InLoop(at) /\ at \in Within(program, c)
      BY <1>4, <2>1, <2>7 DEF InLoop, Within, scope
    <3>2. Behind(program, c, at') = Behind(program, c, at) \union {at}
      BY <1>9, <2>7
    <3>3. Summary(c)' <=> mCarryOutPack'[z]
      BY <1>2, <1>5, <2>7 DEF Summary, z
    <3>4. ASSUME OwnLong(c) PROVE LongWithin(program, c)
      <4>1. PICK i \in Local(program, c) : program[c].body[i].type = "long"
        BY <3>4 DEF OwnLong
      <4>2. <<c, i>> \in Within(program, c)
        BY <1>1, <2>7, AroundChain DEF Within, StatementsOf
      <4>3. QED
        BY <4>1, <4>2 DEF LongWithin, Source
    <3>5. CASE OwnLong(c)
      BY <3>4, <3>5
    <3>6. CASE ~OwnLong(c)
      <4>1. Summary(c)' <=> carry \/ (HasSummary(program, c) /\ Summary(c))
        BY <1>3, <2>1, <2>7, <3>3, <3>6
      <4>2. Source(program, at).type # "long"
        BY <1>4, <2>7, <3>6 DEF OwnLong, Source, scope
      <4>3. PacksFor(program, at) = {k} /\ mem'[k] = carry
        BY <1>1, <1>4, <1>12, <1>13, <3>1, <4>2, PackIs
      <4>4. CASE HasSummary(program, c)
        BY <2>2, <2>5, <3>2, <3>6, <4>1, <4>3, <4>4
      <4>5. CASE ~HasSummary(program, c)
        <5>1. \A x \in Within(program, c) : PacksFor(program, x) = {SummaryPack(program, c)}
          BY <1>1, <2>1, <2>7, <4>5, OnePackIs
        <5>2. \A x \in Behind(program, c, at') : PacksFor(program, x) = {k}
          BY <2>4, <3>1, <3>2, <4>3, <5>1
        <5>3. QED
          BY <3>2, <3>6, <4>1, <4>3, <4>5, <5>2
      <4>6. QED
        BY <4>4, <4>5
    <3>7. QED
      BY <3>5, <3>6
  <2>8. QED
    BY <2>6, <2>7
<1>22. QED
  BY <1>15, <1>16, <1>17, <1>18, <1>19, <1>20, <1>21 DEF IInv

-----------------------------------------------------------------------------
(* The end of a block.                                                        *)

\* What was carried out of a block goes one block back.
LEMMA HistoryShifts ==
  ASSUME NEW n \in Nat \ {0}, NEW f \in [1..n + 1 -> BOOLEAN]
  PROVE  /\ <<FALSE>> \o Front(f) \in [1..n + 1 -> BOOLEAN]
         /\ (<<FALSE>> \o Front(f))[1] = FALSE
         /\ \A j \in 1..n : (<<FALSE>> \o Front(f))[j + 1] = f[j]
<1>1. f \in Seq(BOOLEAN) /\ Len(f) = n + 1
  OBVIOUS
<1> DEFINE g == Front(f)
<1>2. g \in Seq(BOOLEAN) /\ Len(g) = n /\ \A j \in 1..n : g[j] = f[j]
  BY <1>1 DEF Front
<1> HIDE DEF g
<1> DEFINE h == <<FALSE>> \o g
<1>3. h \in Seq(BOOLEAN) /\ Len(h) = n + 1 /\ h[1] = FALSE /\ \A j \in 1..n : h[j + 1] = g[j]
  BY <1>2
<1> HIDE DEF h
<1>4. h \in [1..n + 1 -> BOOLEAN]
  BY <1>3
<1>5. QED
  BY <1>2, <1>3, <1>4 DEF g, h

LEMMA NextBlockStep ==
  ASSUME \A p \in Programs : Supported(p), IInv, NextBlock
  PROVE  IInv'
<1>1. /\ TypeOK /\ Known /\ WellFormed(program) /\ Supported(program) /\ Statements = StatementsOf(program)
      /\ DOMAIN mem = Frame(program) /\ blockNo \in 0..MaxRing - 1 /\ MaxRing \in Nat \ {0}
      /\ Len(program[scope].body) \in Nat /\ at = <<scope, at[2]>> /\ 1 \in DOMAIN program
      /\ at[2] \in Nat /\ at[2] <= Len(program[scope].body) + 1
  BY HereIs, ScopesAre DEF IInv
<1>2. /\ Ended /\ scope = 1 /\ at' = <<1, 1>> /\ blockNo' = (blockNo + 1) % MaxRing
      /\ sent' = [x \in DOMAIN sent |-> <<FALSE>> \o Front(sent[x])]
      /\ mCarryOutPack' = Cleared(mCarryOutPack, 1)
      /\ program' = program /\ info' = info /\ mem' = mem /\ mCarrySummary' = mCarrySummary /\ accum' = accum
  BY DEF NextBlock, compiled
<1>3. at = <<1, Len(program[1].body) + 1>> /\ scope' = 1 /\ (at')[2] = 1
  BY <1>1, <1>2 DEF Ended, scope
<1>4. Around(program, 1) = {1} /\ program[1].kind = "main"
  BY <1>1, AroundIs, KindsAre
<1>5. \A x \in StatementsOf(program) :
        /\ Passed(program, x, at) /\ ~Passed(program, x, at') /\ ~InLoop(x) /\ ~InLoop(x)'
        /\ Kept(x) /\ ~Kept(x)'
  <2>1. ASSUME NEW x \in StatementsOf(program) PROVE Passed(program, x, at) /\ ~Passed(program, x, at')
    BY <1>1, <1>2, <1>3, BlockEnds
  <2>2. ASSUME NEW x \in StatementsOf(program) PROVE ~InLoop(x) /\ ~InLoop(x)'
    BY <1>2, <1>3, <1>4 DEF InLoop
  <2>3. QED
    BY <1>2, <2>1, <2>2 DEF Kept
<1>6. \A x \in StatementsOf(program) : Reach(Source(program, x)) \in Nat \ {0}
  BY <1>1, ReachIs
<1>7. \A x \in StatementsOf(program) :
        /\ sent'[x] \in [1..Reach(Source(program, x)) + 1 -> BOOLEAN]
        /\ ~sent'[x][1]
        /\ \A j \in 1..Reach(Source(program, x)) : sent'[x][j + 1] = sent[x][j]
  <2>1. ASSUME NEW x \in StatementsOf(program)
        PROVE  /\ sent'[x] \in [1..Reach(Source(program, x)) + 1 -> BOOLEAN]
               /\ ~sent'[x][1]
               /\ \A j \in 1..Reach(Source(program, x)) : sent'[x][j + 1] = sent[x][j]
    <3> DEFINE n == Reach(Source(program, x))
               g == <<FALSE>> \o Front(sent[x])
    <3>1. sent[x] \in [1..n + 1 -> BOOLEAN] /\ n \in Nat \ {0}
      BY <1>1, <1>6 DEF TypeOK, Source
    <3>2. DOMAIN sent = StatementsOf(program)
      BY <1>1 DEF Known
    <3>3. sent'[x] = g
      BY <1>2, <3>2
    <3> HIDE DEF n
    <3>4. g \in [1..n + 1 -> BOOLEAN] /\ g[1] = FALSE /\ \A j \in 1..n : g[j + 1] = sent[x][j]
      BY <3>1, HistoryShifts
    <3> HIDE DEF g
    <3>5. QED
      BY <3>3, <3>4 DEF n
  <2>2. QED
    BY <2>1
<1>8. TypeOK'
  <2>1. mCarryOutPack' \in [DOMAIN mem -> BOOLEAN]
    BY <1>1, <1>2 DEF TypeOK, Cleared
  <2>2. (blockNo + 1) % MaxRing \in 0..MaxRing - 1
    <3>1. blockNo + 1 \in Int
      BY <1>1
    <3>2. QED
      BY <1>1, <3>1, DivisionIs
  <2>3. Statements' = StatementsOf(program)
    BY <1>1, <1>2 DEF Statements
  <2>4. Len(mCarrySummary) + 1 = Cardinality(Around(program, 1)) /\ mCarrySummary \in Seq(BOOLEAN)
    BY <1>1, <1>2 DEF TypeOK
  <2>5. 1 \in 1..Len(program[1].body) + 1
    BY <1>1, <1>2
  <2>6. mem \in [0..Max({info[1].size, 1}) - 1 -> BOOLEAN] /\ accum \in [DOMAIN mem -> BOOLEAN] /\ program \in Programs
    BY <1>1 DEF TypeOK
  <2>7. QED
    BY <1>1, <1>2, <1>3, <1>7, <2>1, <2>2, <2>3, <2>4, <2>5, <2>6 DEF TypeOK, Source, scope
<1>9. Known'
  <2>1. DOMAIN sent = StatementsOf(program)
    BY <1>1 DEF Known
  <2>2. sent' = [x \in StatementsOf(program) |-> sent'[x]]
    BY <1>2, <2>1
  <2>3. at' = <<scope', (at')[2]>>
    BY <1>2, <1>3
  <2>4. QED
    BY <1>1, <1>2, <2>2, <2>3 DEF Known
<1>10. MemoryIsHistory'
  <2>1. SUFFICES ASSUME NEW x \in StatementsOf(program), NEW back \in 1..Reach(Source(program, x))
                 PROVE  mem[Pack(program, x, ((blockNo + 1) % MaxRing) - back)] = sent'[x][back + 1]
    BY <1>2, <1>5 DEF MemoryIsHistory
  <2> DEFINE b == back - 1
  <2>2. b \in 0..Reach(Source(program, x)) - 1 /\ b \in Int /\ back = b + 1 /\ back \in 1..Reach(Source(program, x))
    BY <1>6
  <2>3. mem[Pack(program, x, blockNo - b)] = sent[x][b + 1]
    BY <1>5, <2>2 DEF IInv, MemoryIsHistory
  <2> HIDE DEF b
  <2>4. Pack(program, x, ((blockNo + 1) % MaxRing) - (b + 1)) = Pack(program, x, blockNo - b)
    <3>1. WellFormed(program) /\ blockNo \in 0..MaxRing - 1
      BY <1>1 DEF TypeOK
    <3>2. QED
      BY <2>2, <3>1, SlotsKept
  <2>5. sent'[x][back + 1] = sent[x][back]
    BY <1>7, <2>2
  <2>6. QED
    BY <2>2, <2>3, <2>4, <2>5
<1>11. NothingYet'
  BY <1>2, <1>7 DEF NothingYet
<1>12. LoopAccumulates'
  BY <1>2, <1>5 DEF LoopAccumulates
<1>13. SummariesKept'
  BY <1>2, <1>3 DEF IInv, SummariesKept, Carries
<1>14. SummariesCollected'
  <2>1. \A c \in Around(program, 1) : program[c].kind # "if"
    BY <1>4
  <2>2. QED
    BY <1>2, <1>3, <2>1 DEF SummariesCollected
<1>15. QED
  BY <1>8, <1>9, <1>10, <1>11, <1>12, <1>13, <1>14 DEF IInv

-----------------------------------------------------------------------------
(* Into a nested scope, or past it.                                           *)

LEMMA NestedHere ==
  ASSUME \A p \in Programs : Supported(p), TypeOK, Known, ~Ended, Statement.type = "scope"
  PROVE  LET c == Statement.n
         IN  /\ c \in DOMAIN program \ {1} /\ c \in Children(program, scope) /\ program[c].parent = scope
             /\ at[2] = Position(program, c) /\ at = <<program[c].parent, Position(program, c)>>
             /\ Ahead(program, scope, at[2]) = Within(program, c)
             /\ Around(program, c) = {c} \union Around(program, scope) /\ c \notin Around(program, scope)
             /\ Level(program, c) = Level(program, scope) + 1
             /\ \A x \in StatementsOf(program) : ~InLoop(x)
<1> DEFINE c == Statement.n
<1>1. /\ WellFormed(program) /\ Supported(program) /\ scope \in DOMAIN program /\ at = <<scope, at[2]>>
      /\ at[2] \in DOMAIN program[scope].body
  BY HereIs DEF Ended
<1>2. c \in DOMAIN program \ {1} /\ program[c].parent = scope /\ program[scope].body[at[2]] = Nested(c)
  BY <1>1 DEF WellFormed, Statement
<1>3. c \in Children(program, scope)
  BY <1>2 DEF Children
<1> HIDE DEF c
<1>4. at[2] = Position(program, c)
  BY <1>1, <1>2, PositionIs
<1>5. Ahead(program, scope, at[2]) = Within(program, c)
  BY <1>1, <1>3, <1>4, AheadIs
<1>6. Around(program, c) = {c} \union Around(program, scope) /\ c \notin Around(program, scope)
  <2>1. scope < c /\ scope \in Nat /\ c \in Nat /\ Around(program, scope) \subseteq 1..scope
    BY <1>1, <1>2, ScopesAre, AroundChain
  <2>2. QED
    BY <1>1, <1>2, <2>1, AroundIs
<1>7. Level(program, c) = Level(program, scope) + 1
  BY <1>1, <1>2, LevelsAre
<1>8. program[scope].kind # "while"
  <2>1. scope \in Around(program, c) /\ c # scope
    BY <1>1, <1>6, AroundChain
  <2>2. QED
    BY <1>1, <1>2, <2>1, KindsAre
<1>9. QED
  BY <1>1, <1>2, <1>3, <1>4, <1>5, <1>6, <1>7, <1>8 DEF c, InLoop

LEMMA EnterStep ==
  ASSUME \A p \in Programs : Supported(p), IInv, EnterIf \/ EnterWhile
  PROVE  IInv'
<1> DEFINE c == Statement.n
           z == SummaryPack(program, c)
           y == SummaryPack(program, scope)
<1>1. /\ TypeOK /\ Known /\ WellFormed(program) /\ Supported(program) /\ Statements = StatementsOf(program)
      /\ DOMAIN mem = Frame(program) /\ scope \in DOMAIN program
  BY HereIs DEF IInv
<1>2. ~Ended /\ Statement.type = "scope" /\ program[c].kind \in {"if", "while"}
      /\ (program[c].kind = "if" => accum' = accum) /\ (program[c].kind # "if" => accum' = [k \in DOMAIN accum |-> FALSE])
  BY DEF EnterIf, EnterWhile, AtNested
<1>3. /\ c \in DOMAIN program \ {1} /\ program[c].parent = scope /\ at = <<program[c].parent, Position(program, c)>>
      /\ Around(program, c) = {c} \union Around(program, scope) /\ c \notin Around(program, scope)
      /\ Level(program, c) = Level(program, scope) + 1
      /\ \A x \in StatementsOf(program) : ~InLoop(x)
  BY <1>1, <1>2, NestedHere
<1>4. /\ mCarrySummary' = Append(mCarrySummary, mCarryOutPack[y])
      /\ mCarryOutPack' = [mCarryOutPack EXCEPT ![z] = FALSE]
      /\ at' = <<c, 1>> /\ program' = program /\ info' = info
      /\ mem' = mem /\ blockNo' = blockNo /\ sent' = sent
  <2>1. enterScope(c) /\ program' = program /\ info' = info /\ mem' = mem /\ blockNo' = blockNo /\ sent' = sent
    BY DEF EnterIf, EnterWhile, compiled
  <2>2. summaryPack(scope) = y /\ summaryPack(c) = z
    BY <1>1, <1>3, InfoIs
  <2>3. QED
    BY <2>1, <2>2 DEF enterScope, Cleared
<1>5. /\ \A x \in StatementsOf(program) : Passed(program, x, at') <=> Passed(program, x, at)
      /\ \A x \in Within(program, c) : ~Passed(program, x, at)
      /\ Behind(program, c, at') = {}
      /\ \A a \in Around(program, scope) : Behind(program, a, at') = Behind(program, a, at)
  BY <1>1, <1>3, <1>4, NestedEnds
<1>6. scope' = c /\ (at')[2] = 1
  BY <1>4 DEF scope
<1>7. y \in DOMAIN mem /\ z \in DOMAIN mem
  BY <1>1, <1>3, FrameIs
<1>8. /\ mCarryOutPack \in [DOMAIN mem -> BOOLEAN] /\ accum \in [DOMAIN mem -> BOOLEAN]
      /\ mCarrySummary \in Seq(BOOLEAN) /\ Len(mCarrySummary) + 1 = Level(program, scope)
  BY <1>1 DEF TypeOK, Level
<1>9. Len(program[c].body) \in Nat
  BY <1>1, <1>3 DEF WellFormed
<1> HIDE DEF c, y, z
<1>10. \A x \in StatementsOf(program) : InLoop(x)' <=> x[1] = c /\ program[c].kind = "while"
  BY <1>4, <1>6 DEF InLoop
<1>11. \A x \in StatementsOf(program) : x[1] = c => x \in Within(program, c)
  BY <1>1, <1>3, AroundChain DEF Within
<1>12. \A x \in StatementsOf(program) : Kept(x)' <=> Kept(x)
  <2>1. ASSUME NEW x \in StatementsOf(program) PROVE Kept(x)' <=> Kept(x)
    <3>1. InLoop(x)' => ~Passed(program, x, at)
      BY <1>5, <1>10, <1>11
    <3>2. ~InLoop(x) /\ (Passed(program, x, at') <=> Passed(program, x, at))
      BY <1>3, <1>5
    <3>3. QED
      BY <1>4, <3>1, <3>2 DEF Kept
  <2>2. QED
    BY <2>1
<1>13. TypeOK'
  <2>1. mCarryOutPack' \in [DOMAIN mem -> BOOLEAN] /\ accum' \in [DOMAIN mem -> BOOLEAN]
    BY <1>2, <1>4, <1>8
  <2>2. mCarrySummary' \in Seq(BOOLEAN) /\ Len(mCarrySummary') = Len(mCarrySummary) + 1
    BY <1>4, <1>7, <1>8
  <2>3. Len(mCarrySummary') + 1 = Cardinality(Around(program, c))
    BY <1>3, <1>8, <2>2 DEF Level
  <2>4. 1 \in 1..Len(program[c].body) + 1
    BY <1>9
  <2>5. Statements' = StatementsOf(program)
    BY <1>1, <1>4 DEF Statements
  <2>6. QED
    BY <1>1, <1>3, <1>4, <1>6, <2>1, <2>2, <2>3, <2>4, <2>5 DEF TypeOK, scope
<1>14. Known'
  BY <1>1, <1>4, <1>6 DEF Known
<1>15. MemoryIsHistory'
  BY <1>4, <1>12 DEF IInv, MemoryIsHistory
<1>16. NothingYet'
  BY <1>3, <1>4, <1>5 DEF IInv, NothingYet
<1>17. LoopAccumulates'
  <2>1. SUFFICES ASSUME NEW x \in StatementsOf(program), InLoop(x)'
                 PROVE  sent[x][1] <=> \/ accum'[Pack(program, x, 0)]
                                       \/ Passed(program, x, at') /\ mCarryOutPack'[Pack(program, x, 0)]
    BY <1>4 DEF LoopAccumulates
  <2>2. program[c].kind = "while" /\ ~Passed(program, x, at) /\ ~Passed(program, x, at')
    BY <1>5, <1>10, <1>11, <2>1
  <2>3. ~sent[x][1]
    BY <1>3, <2>2 DEF IInv, NothingYet
  <2>4. Pack(program, x, 0) \in DOMAIN mem
    BY <1>1, PackIs, FrameIs
  <2>5. QED
    BY <1>2, <1>8, <2>2, <2>3, <2>4
<1>18. SummariesKept'
  <2>1. \A d \in DOMAIN program : d \notin Around(program, c) => d \notin Around(program, scope)
    BY <1>3
  <2>2. QED
    BY <1>4, <1>6, <2>1 DEF IInv, SummariesKept, Carries
<1>19. SummariesCollected'
  <2>1. SUFFICES ASSUME NEW d \in Around(program, c), program[d].kind = "if"
                 PROVE  IF Summary(d)'
                        THEN LongWithin(program, d) \/ Carries(Behind(program, d, at'))
                        ELSE \/ \E i \in Local(program, d) : program[d].body[i].type = "long"
                             \/ ~Carries(Behind(program, d, at'))
    BY <1>4, <1>6 DEF SummariesCollected, Carries
  <2>2. CASE d = c
    <3>1. ~Summary(d)'
      BY <1>4, <1>6, <1>7, <1>8, <2>2 DEF Summary, z
    <3>2. QED
      BY <1>5, <2>2, <3>1 DEF Carries
  <2>3. CASE d # c
    <3>1. d \in Around(program, scope)
      BY <1>3, <2>1, <2>3
    <3>2. Summary(d)' <=> Summary(d)
      <4>1. Summary(d)' <=> mCarrySummary'[Level(program, d)]
        BY <1>4, <1>6, <2>3 DEF Summary
      <4>2. CASE d = scope
        BY <1>4, <1>7, <1>8, <4>1, <4>2 DEF Summary, y
      <4>3. CASE d # scope
        <5>1. Level(program, d) \in Nat /\ 1 <= Level(program, d) /\ Level(program, d) < Level(program, scope)
          BY <1>1, <3>1, <4>3, LevelsAre
        <5>2. Level(program, d) \in 1..Len(mCarrySummary)
          BY <1>8, <5>1
        <5>3. mCarrySummary'[Level(program, d)] = mCarrySummary[Level(program, d)]
          BY <1>4, <1>8, <5>2
        <5>4. QED
          BY <4>1, <4>3, <5>3 DEF Summary
      <4>4. QED
        BY <4>2, <4>3
    <3>3. IF Summary(d)
          THEN LongWithin(program, d) \/ Carries(Behind(program, d, at))
          ELSE \/ \E i \in Local(program, d) : program[d].body[i].type = "long"
               \/ ~Carries(Behind(program, d, at))
      BY <2>1, <3>1 DEF IInv, SummariesCollected
    <3>4. Behind(program, d, at') = Behind(program, d, at)
      BY <1>5, <3>1
    <3>5. QED
      BY <3>2, <3>3, <3>4
  <2>4. QED
    BY <2>2, <2>3
<1>20. QED
  BY <1>13, <1>14, <1>15, <1>16, <1>17, <1>18, <1>19 DEF IInv

LEMMA SkipStep ==
  ASSUME \A p \in Programs : Supported(p), IInv, SkipIf
  PROVE  IInv'
<1> DEFINE c == Statement.n
           z == SummaryPack(program, c)
           y == SummaryPack(program, scope)
           OwnLong(d) == \E i \in Local(program, d) : program[d].body[i].type = "long"
<1>1. /\ TypeOK /\ Known /\ WellFormed(program) /\ Supported(program) /\ Statements = StatementsOf(program)
      /\ DOMAIN mem = Frame(program) /\ scope \in DOMAIN program /\ blockNo \in 0..MaxRing - 1
      /\ at[2] \in Nat /\ 1 <= at[2] /\ Len(program[scope].body) \in Nat /\ at = <<scope, at[2]>>
  BY HereIs DEF IInv
<1>2. /\ ~Ended /\ Statement.type = "scope" /\ program[c].kind = "if"
      /\ ~(hasCarries(c) /\ mem[summaryPack(c)])
  BY DEF SkipIf, AtNested, generateSummaryTest
<1>3. /\ c \in DOMAIN program \ {1} /\ c \notin Around(program, scope)
      /\ Ahead(program, scope, at[2]) = Within(program, c)
      /\ at = <<program[c].parent, Position(program, c)>>
      /\ \A x \in StatementsOf(program) : ~InLoop(x)
  BY <1>1, <1>2, NestedHere
<1>4. /\ at' = <<scope, at[2] + 1>> /\ program' = program /\ info' = info /\ sent' = sent
      /\ mem' = mem /\ blockNo' = blockNo /\ mCarrySummary' = mCarrySummary /\ accum' = accum
  BY DEF SkipIf, compiled
<1>5. scope' = scope /\ (at')[2] = at[2] + 1
  BY <1>4 DEF scope
<1>6. summaryPack(scope) = y /\ summaryPack(c) = z /\ (hasCarries(c) <=> Sizes(program)[c] > 0) /\ info[c].whileDepth = 0
  BY <1>1, <1>2, <1>3, InfoIs, DepthsAre
<1>7. y \in DOMAIN mem /\ z \in DOMAIN mem
  BY <1>1, <1>3, FrameIs
<1>8. /\ mCarryOutPack \in [DOMAIN mem -> BOOLEAN] /\ mCarryOutPack' \in [DOMAIN mem -> BOOLEAN]
      /\ mCarryOutPack'[y] = mCarryOutPack[y]
  <2>1. mCarryOutPack \in [DOMAIN mem -> BOOLEAN]
    BY <1>1 DEF TypeOK
  <2>2. mCarryOutPack' = [k \in DOMAIN mCarryOutPack |->
                            IF k \in {z, y} THEN mCarryOutPack[y] ELSE mCarryOutPack[k]]
    <3>1. ~(info[c].whileDepth > 0)
      BY <1>6
    <3> HIDE DEF c
    <3>2. QED
      BY <1>6, <3>1 DEF SkipIf, c
  <2> HIDE DEF c, y, z
  <2>3. QED
    BY <1>7, <2>1, <2>2
<1>9. \A x \in Within(program, c) : \A k \in PacksFor(program, x) : ~mem[k]
  <2>1. CASE HasSummary(program, c)
    <3>1. Sizes(program)[c] \in Nat /\ Sizes(program)[c] > 1
      BY <1>1, <1>3, <2>1, SizesAre DEF HasSummary
    <3>2. Sizes(program)[c] > 0
      BY <3>1
    <3>3. ~mem[z]
      BY <1>2, <1>6, <3>2
    <3> HIDE DEF c
    <3>4. QED
      BY <1>2, <1>3, <2>1, <3>3 DEF IInv, SummariesKept, Carries, z
  <2>2. CASE ~HasSummary(program, c)
    <3> HIDE DEF c
    <3>1. ASSUME NEW x \in Within(program, c) PROVE PacksFor(program, x) = {z} /\ ~mem[z]
      <4>1. PacksFor(program, x) = {z} /\ Sizes(program)[c] > 0
        BY <1>1, <1>2, <1>3, <2>2, OnePackIs
      <4>2. QED
        BY <1>2, <1>6, <4>1
    <3>2. QED
      BY <3>1
  <2>3. QED
    BY <2>1, <2>2
<1> HIDE DEF c, y, z, OwnLong
<1>10. /\ \A x \in StatementsOf(program) : Passed(program, x, at') <=> Passed(program, x, at) \/ x \in Within(program, c)
       /\ Behind(program, scope, at') = Behind(program, scope, at) \union Within(program, c)
       /\ \A d \in Around(program, scope) \ {scope} : Behind(program, d, at') = Behind(program, d, at)
  <2> DEFINE i == at[2]
             next == <<scope, i + 1>>
             here == <<scope, i>>
  <2>1. WellFormed(program) /\ scope \in DOMAIN program /\ i \in Nat /\ at' = next /\ at = here
    BY <1>1, <1>4
  <2> HIDE DEF i
  <2>2. \A x \in StatementsOf(program) :
          Passed(program, x, next) <=> Passed(program, x, here) \/ x \in Ahead(program, scope, i)
    BY <2>1, StepOn
  <2>3. Behind(program, scope, next) = Behind(program, scope, here) \union Ahead(program, scope, i)
    BY <2>1, StepOn
  <2>4. \A d \in Around(program, scope) \ {scope} : Behind(program, d, next) = Behind(program, d, here)
    BY <2>1, StepOn
  <2> HIDE DEF next, here
  <2>5. Ahead(program, scope, i) = Within(program, c)
    BY <1>3 DEF i
  <2>6. QED
    BY <2>1, <2>2, <2>3, <2>4, <2>5
<1>11. \A x \in Within(program, c) : ~Passed(program, x, at)
  BY <1>1, <1>3, NestedEnds
<1>12. \A x \in StatementsOf(program) : ~InLoop(x)'
  BY <1>3, <1>4, <1>5 DEF InLoop
<1>13. TypeOK'
  <2>1. at[2] + 1 \in 1..Len(program[scope].body) + 1
    <3>1. at[2] <= Len(program[scope].body)
      BY <1>1, <1>2 DEF Ended
    <3>2. QED
      BY <1>1, <3>1
  <2>2. Statements' = StatementsOf(program)
    BY <1>1, <1>4 DEF Statements
  <2>3. QED
    BY <1>1, <1>4, <1>5, <1>8, <2>1, <2>2 DEF TypeOK, scope
<1>14. Known'
  BY <1>1, <1>4, <1>5 DEF Known
<1>15. MemoryIsHistory'
  <2>1. SUFFICES ASSUME NEW x \in StatementsOf(program),
                        NEW back \in IF Kept(x)' THEN 0..Reach(Source(program, x)) - 1 ELSE 1..Reach(Source(program, x))
                 PROVE  mem[Pack(program, x, blockNo - back)] = sent[x][back + 1]
    BY <1>4 DEF MemoryIsHistory
  <2>2. Reach(Source(program, x)) \in Nat \ {0}
    BY <1>1, ReachIs
  <2>3. \A b \in IF Kept(x) THEN 0..Reach(Source(program, x)) - 1 ELSE 1..Reach(Source(program, x)) :
          mem[Pack(program, x, blockNo - b)] = sent[x][b + 1]
    BY DEF IInv, MemoryIsHistory
  <2>4. CASE x \notin Within(program, c)
    <3>1. Kept(x)' <=> Kept(x)
      BY <1>3, <1>4, <1>10, <1>12, <2>4 DEF Kept
    <3>2. QED
      BY <2>1, <2>3, <3>1
  <2>5. CASE x \in Within(program, c)
    <3>1. Kept(x)' /\ ~Kept(x) /\ ~sent[x][1]
      BY <1>3, <1>4, <1>10, <1>11, <1>12, <2>5 DEF Kept, IInv, NothingYet
    <3>2. CASE back = 0
      <4>1. blockNo - back \in Int
        BY <1>1, <3>2
      <4>2. Pack(program, x, blockNo - back) \in PacksFor(program, x)
        BY <1>1, <4>1, PackIs
      <4>3. ~mem[Pack(program, x, blockNo - back)]
        BY <1>9, <2>5, <4>2
      <4>4. Pack(program, x, blockNo - back) \in DOMAIN mem
        BY <1>1, <4>2, FrameIs
      <4>5. mem[Pack(program, x, blockNo - back)] \in BOOLEAN
        BY <1>1, <4>4 DEF TypeOK
      <4>6. sent[x][1] \in BOOLEAN
        <5>1. sent[x] \in [1..Reach(Source(program, x)) + 1 -> BOOLEAN]
          BY <1>1 DEF TypeOK, Source
        <5>2. QED
          BY <2>2, <5>1
      <4>7. QED
        BY <3>1, <3>2, <4>3, <4>5, <4>6
    <3>3. CASE back # 0
      <4>1. back \in 1..Reach(Source(program, x))
        BY <2>1, <2>2, <3>1, <3>3
      <4>2. QED
        BY <2>3, <3>1, <4>1
    <3>4. QED
      BY <3>2, <3>3
  <2>6. QED
    BY <2>4, <2>5
<1>16. NothingYet'
  BY <1>3, <1>4, <1>10 DEF IInv, NothingYet
<1>17. LoopAccumulates'
  BY <1>4, <1>12 DEF LoopAccumulates
<1>18. SummariesKept'
  BY <1>4, <1>5 DEF IInv, SummariesKept, Carries
<1>19. SummariesCollected'
  <2>1. SUFFICES ASSUME NEW d \in Around(program, scope), program[d].kind = "if"
                 PROVE  IF Summary(d)' THEN LongWithin(program, d) \/ Carries(Behind(program, d, at'))
                                       ELSE OwnLong(d) \/ ~Carries(Behind(program, d, at'))
    BY <1>4, <1>5 DEF SummariesCollected, Carries, OwnLong
  <2>2. IF Summary(d) THEN LongWithin(program, d) \/ Carries(Behind(program, d, at))
                      ELSE OwnLong(d) \/ ~Carries(Behind(program, d, at))
    BY <2>1 DEF IInv, SummariesCollected, OwnLong
  <2>3. Summary(d)' <=> Summary(d)
    BY <1>4, <1>5, <1>8 DEF Summary, y
  <2>4. Carries(Behind(program, d, at')) <=> Carries(Behind(program, d, at))
    <3>1. CASE d = scope
      BY <1>9, <1>10, <3>1 DEF Carries
    <3>2. CASE d # scope
      BY <1>10, <2>1, <3>2
    <3>3. QED
      BY <3>1, <3>2
  <2>5. QED
    BY <2>2, <2>3, <2>4
<1>20. QED
  BY <1>13, <1>14, <1>15, <1>16, <1>17, <1>18, <1>19 DEF IInv

-----------------------------------------------------------------------------
(* Out of a nested scope.                                                     *)

\* The place at the end of a nested scope, and the one after it.
LEMMA ScopeEnds ==
  ASSUME \A p \in Programs : Supported(p), TypeOK, Known, Ended, scope # 1
  PROVE  LET q == program[scope].parent
             next == After(scope)
         IN  /\ q \in DOMAIN program /\ q # scope /\ q \in Around(program, q) /\ program[q].kind # "while"
             /\ next = <<q, Position(program, scope) + 1>> /\ next[2] \in 1..Len(program[q].body) + 1
             /\ Around(program, scope) = {scope} \union Around(program, q) /\ scope \notin Around(program, q)
             /\ Level(program, scope) = Level(program, q) + 1
             /\ \A x \in Within(program, scope) : Passed(program, x, at)
             /\ Behind(program, scope, at) = Within(program, scope)
             /\ \A x \in StatementsOf(program) : Passed(program, x, next) <=> Passed(program, x, at)
             /\ Behind(program, q, next) = Behind(program, q, at) \union Within(program, scope)
             /\ \A d \in Around(program, q) \ {q} : Behind(program, d, next) = Behind(program, d, at)
<1> DEFINE q == program[scope].parent
           i == Position(program, scope)
           here == <<q, i>>
           next == <<q, i + 1>>
<1>1. /\ WellFormed(program) /\ Supported(program) /\ scope \in DOMAIN program \ {1}
      /\ at = <<scope, at[2]>> /\ at[2] \in Nat /\ at[2] <= Len(program[scope].body) + 1
      /\ Len(program[scope].body) \in Nat
  BY HereIs
<1>2. at = <<scope, Len(program[scope].body) + 1>>
  BY <1>1 DEF Ended
<1>3. /\ q \in DOMAIN program /\ q # scope /\ scope \in Children(program, q)
      /\ Around(program, scope) = {scope} \union Around(program, q) /\ scope \notin Around(program, q)
      /\ q \in Around(program, q)
  <2>1. q \in DOMAIN program /\ q < scope /\ q \in Nat /\ scope \in Nat
    BY <1>1, ScopesAre
  <2>2. Around(program, q) \subseteq 1..q /\ q \in Around(program, q)
    BY <1>1, <2>1, AroundChain
  <2>3. QED
    BY <1>1, <2>1, <2>2, AroundIs DEF Children
<1>4. program[q].kind # "while"
  BY <1>1, <1>3, KindsAre
<1>5. i \in DOMAIN program[q].body /\ i \in Nat /\ DOMAIN program[q].body = 1..Len(program[q].body)
      /\ Len(program[q].body) \in Nat
  <2>1. i \in DOMAIN program[q].body
    BY <1>1, PositionIs
  <2>2. DOMAIN program[q].body = 1..Len(program[q].body) /\ Len(program[q].body) \in Nat
    BY <1>1, <1>3 DEF WellFormed
  <2>3. QED
    BY <2>1, <2>2
<1>6. Level(program, scope) = Level(program, q) + 1
  BY <1>1, LevelsAre
<1>7. Ahead(program, q, i) = Within(program, scope)
  BY <1>1, <1>3, <1>5, AheadIs
<1>8. /\ \A x \in StatementsOf(program) : Passed(program, x, at) <=> Passed(program, x, here) \/ x \in Within(program, scope)
      /\ Behind(program, scope, at) = Within(program, scope)
      /\ \A d \in Around(program, q) : Behind(program, d, at) = Behind(program, d, here)
  <2> DEFINE end == <<scope, Len(program[scope].body) + 1>>
  <2>1. \A x \in StatementsOf(program) : Passed(program, x, end) <=> Passed(program, x, here) \/ x \in Within(program, scope)
    BY <1>1, NestedEnds
  <2>2. Behind(program, scope, end) = Within(program, scope)
    BY <1>1, NestedEnds
  <2>3. \A d \in Around(program, q) : Behind(program, d, end) = Behind(program, d, here)
    BY <1>1, NestedEnds
  <2>4. at = end
    BY <1>2
  <2> HIDE DEF end, here, q
  <2>5. \A x \in StatementsOf(program) : Passed(program, x, at) <=> Passed(program, x, here) \/ x \in Within(program, scope)
    BY <2>1, <2>4
  <2>6. Behind(program, scope, at) = Within(program, scope)
    BY <2>2, <2>4
  <2>7. \A d \in Around(program, q) : Behind(program, d, at) = Behind(program, d, here)
    BY <2>3, <2>4
  <2>8. QED
    BY <2>5, <2>6, <2>7
<1>9. After(scope) = next
  BY DEF After
<1> HIDE DEF i, q
<1>10. /\ \A x \in StatementsOf(program) : Passed(program, x, next) <=> Passed(program, x, here) \/ x \in Ahead(program, q, i)
       /\ Behind(program, q, next) = Behind(program, q, here) \union Ahead(program, q, i)
       /\ \A d \in Around(program, q) \ {q} : Behind(program, d, next) = Behind(program, d, here)
  <2>1. WellFormed(program) /\ q \in DOMAIN program /\ i \in Nat
    BY <1>1, <1>3, <1>5
  <2>2. \A x \in StatementsOf(program) : Passed(program, x, next) <=> Passed(program, x, here) \/ x \in Ahead(program, q, i)
    BY <2>1, StepOn
  <2>3. Behind(program, q, next) = Behind(program, q, here) \union Ahead(program, q, i)
    BY <2>1, StepOn
  <2>4. \A d \in Around(program, q) \ {q} : Behind(program, d, next) = Behind(program, d, here)
    BY <2>1, StepOn
  <2> HIDE DEF here, next
  <2>5. QED
    BY <2>2, <2>3, <2>4
<1>11. next[2] \in 1..Len(program[q].body) + 1
  BY <1>5
<1> HIDE DEF here
<1>12. Within(program, scope) \subseteq StatementsOf(program)
  BY DEF Within
<1>13. next = <<q, i + 1>>
  OBVIOUS
<1> HIDE DEF next
<1>14. QED
  BY <1>3, <1>4, <1>6, <1>7, <1>8, <1>9, <1>10, <1>11, <1>12, <1>13 DEF q, i

LEMMA LeaveIfStep ==
  ASSUME \A p \in Programs : Supported(p), IInv, LeaveIf
  PROVE  IInv'
<1> DEFINE c == scope
           q == program[c].parent
           z == SummaryPack(program, c)
           y == SummaryPack(program, q)
           OwnLong(d) == \E i \in Local(program, d) : program[d].body[i].type = "long"
           sum == Summary(c) \/ (HasSummary(program, c) /\ OwnLong(c))
<1>1. /\ TypeOK /\ Known /\ WellFormed(program) /\ Supported(program) /\ Statements = StatementsOf(program)
      /\ DOMAIN mem = Frame(program) /\ c \in DOMAIN program /\ blockNo \in Int
  BY HereIs DEF IInv
<1>2. Ended /\ program[c].kind = "if" /\ c # 1
  BY <1>1, KindsAre DEF LeaveIf
<1>3. /\ q \in DOMAIN program /\ q # c /\ q \in Around(program, q) /\ program[q].kind # "while"
      /\ After(c) = <<q, Position(program, c) + 1>> /\ After(c)[2] \in 1..Len(program[q].body) + 1
      /\ Around(program, c) = {c} \union Around(program, q) /\ c \notin Around(program, q)
      /\ Level(program, c) = Level(program, q) + 1
  BY <1>1, <1>2, ScopeEnds
<1>4. /\ \A x \in Within(program, c) : Passed(program, x, at)
      /\ Behind(program, c, at) = Within(program, c)
      /\ \A x \in StatementsOf(program) : Passed(program, x, After(c)) <=> Passed(program, x, at)
      /\ Behind(program, q, After(c)) = Behind(program, q, at) \union Within(program, c)
      /\ \A d \in Around(program, q) \ {q} : Behind(program, d, After(c)) = Behind(program, d, at)
  BY <1>1, <1>2, ScopeEnds
<1>5. /\ program' = program /\ info' = info /\ sent' = sent /\ blockNo' = blockNo /\ accum' = accum
      /\ at' = After(c) /\ mCarrySummary' = Front(mCarrySummary)
  BY DEF LeaveIf, leaveScope, compiled
<1>6. y \in DOMAIN mem /\ z \in DOMAIN mem
  BY <1>1, <1>3, FrameIs
<1>7. /\ mCarryOutPack \in [DOMAIN mem -> BOOLEAN] /\ mem \in [DOMAIN mem -> BOOLEAN]
      /\ mCarrySummary \in Seq(BOOLEAN) /\ Len(mCarrySummary) = Level(program, q)
      /\ Level(program, q) \in Nat /\ 1 <= Level(program, q)
  <2>1. /\ mCarryOutPack \in [DOMAIN mem -> BOOLEAN] /\ mem \in [DOMAIN mem -> BOOLEAN]
        /\ mCarrySummary \in Seq(BOOLEAN) /\ Len(mCarrySummary) + 1 = Level(program, c)
    BY <1>1 DEF TypeOK, Level
  <2>2. Level(program, q) \in Nat /\ 1 <= Level(program, q)
    BY <1>1, <1>3, LevelsAre
  <2>3. Len(mCarrySummary) \in Nat
    BY <2>1
  <2> HIDE DEF c, q
  <2>4. Len(mCarrySummary) = Level(program, q)
    BY <1>3, <2>1, <2>2, <2>3
  <2>5. QED
    BY <2>1, <2>2, <2>4
<1>8. /\ summaryPack(c) = z /\ summaryPack(q) = y
      /\ explicitSummaryRequired(c) <=> HasSummary(program, c)
      /\ info[c].hasLongAdvances <=> OwnLong(c)
  BY <1>1, <1>3, InfoIs
<1>9. /\ storeCarryOutSummary(c) \in [DOMAIN mem -> BOOLEAN]
      /\ storeCarryOutSummary(c)[z] <=> sum
  <2>1. storeCarryOutSummary(c) = IF HasSummary(program, c) /\ OwnLong(c) THEN [mCarryOutPack EXCEPT ![z] = TRUE]
                                                                         ELSE mCarryOutPack
    BY <1>8 DEF storeCarryOutSummary
  <2>2. Summary(c) <=> mCarryOutPack[z]
    BY DEF Summary
  <2> HIDE DEF c, z, OwnLong
  <2>3. QED
    BY <1>6, <1>7, <2>1, <2>2
<1>10. Last(mCarrySummary) = mCarrySummary[Level(program, q)] /\ Last(mCarrySummary) \in BOOLEAN
  <2> HIDE DEF q
  <2>1. QED
    BY <1>7 DEF Last
<1>11. /\ mem' = IF HasSummary(program, c) THEN [mem EXCEPT ![z] = sum] ELSE mem
       /\ mCarryOutPack' \in [DOMAIN mem -> BOOLEAN]
       /\ mCarryOutPack'[y] <=> sum \/ mCarrySummary[Level(program, q)]
  <2> DEFINE out == storeCarryOutSummary(c)
             both == [out EXCEPT ![z] = @ \/ Last(mCarrySummary)]
  <2>1. mem' = (IF HasSummary(program, c) THEN [mem EXCEPT ![z] = out[z]] ELSE mem)
    BY <1>8 DEF LeaveIf, Stored
  <2>2. mCarryOutPack' = [both EXCEPT ![y] = both[z]]
    BY <1>8 DEF LeaveIf, leaveScope, addOuterSummaryToNestedSummary, addToSummary
  <2> HIDE DEF out, y, z, sum
  <2>3. both \in [DOMAIN mem -> BOOLEAN] /\ (both[z] <=> sum \/ mCarrySummary[Level(program, q)])
    BY <1>6, <1>9, <1>10 DEF out
  <2>4. out[z] = sum
    <3>1. out[z] \in BOOLEAN /\ sum \in BOOLEAN
      BY <1>6, <1>9 DEF out, sum
    <3>2. QED
      BY <1>9, <3>1 DEF out
  <2> HIDE DEF both
  <2>5. QED
    BY <1>6, <2>1, <2>2, <2>3, <2>4
<1>12. scope' = q /\ at' = <<q, (at')[2]>> /\ (at')[2] \in 1..Len(program[q].body) + 1
  BY <1>3, <1>5 DEF scope
<1>13. \A x \in StatementsOf(program) : ~InLoop(x) /\ ~InLoop(x)'
  BY <1>2, <1>3, <1>5, <1>12 DEF InLoop
<1>14. /\ \A x \in StatementsOf(program) : /\ \A block \in Int : Pack(program, x, block) \in PacksFor(program, x)
                                           /\ PacksFor(program, x) \subseteq DOMAIN mem
                                           /\ \A k \in PacksFor(program, x) : mem'[k] = mem[k]
  <2>1. ASSUME NEW x \in StatementsOf(program)
        PROVE  /\ \A block \in Int : Pack(program, x, block) \in PacksFor(program, x)
               /\ PacksFor(program, x) \subseteq DOMAIN mem
               /\ \A k \in PacksFor(program, x) : mem'[k] = mem[k]
    <3>1. \A block \in Int : Pack(program, x, block) \in PacksFor(program, x)
      BY <1>1, PackIs
    <3>2. PacksFor(program, x) \subseteq DOMAIN mem
      BY <1>1, FrameIs
    <3>3. HasSummary(program, c) => z \notin PacksFor(program, x)
      BY <1>1, PacksApart
    <3> HIDE DEF z, c, sum
    <3>4. QED
      BY <1>7, <1>11, <3>1, <3>2, <3>3
  <2>2. QED
    BY <2>1
<1>15. \A X \in SUBSET StatementsOf(program) : Carries(X)' <=> Carries(X)
  <2>1. ASSUME NEW X \in SUBSET StatementsOf(program) PROVE Carries(X)' <=> Carries(X)
    BY <1>5, <1>14 DEF Carries
  <2>2. QED
    BY <2>1
<1>16. /\ sum => LongWithin(program, c) \/ Carries(Within(program, c))
       /\ ~sum => (OwnLong(c) /\ ~HasSummary(program, c)) \/ ~Carries(Within(program, c))
       /\ OwnLong(c) => LongWithin(program, c)
  <2>1. c \in Around(program, c)
    BY <1>3
  <2>2. IF Summary(c) THEN LongWithin(program, c) \/ Carries(Within(program, c))
                      ELSE OwnLong(c) \/ ~Carries(Within(program, c))
    BY <1>2, <1>4, <2>1 DEF IInv, SummariesCollected
  <2>3. ASSUME OwnLong(c) PROVE LongWithin(program, c)
    <3>1. PICK i \in Local(program, c) : program[c].body[i].type = "long"
      BY <2>3
    <3>2. <<c, i>> \in Within(program, c)
      BY <1>1, <2>1 DEF Within, StatementsOf
    <3> HIDE DEF c
    <3>3. QED
      BY <3>1, <3>2 DEF LongWithin, Source
  <2>4. QED
    BY <2>2, <2>3
<1>17. Within(program, c) \subseteq Within(program, q)
  <2>1. \A t \in DOMAIN program : c \in Around(program, t) => q \in Around(program, t)
    <3>1. \A t \in DOMAIN program : c \in Around(program, t) => Around(program, c) \subseteq Around(program, t)
      BY <1>1, AroundChain
    <3>2. QED
      BY <1>3, <3>1
  <2>2. QED
    BY <1>1, <2>1, StatementIs DEF Within
<1>18. \A d \in DOMAIN program : Within(program, d) \subseteq StatementsOf(program)
                                /\ Behind(program, d, at) \subseteq StatementsOf(program)
                                /\ Behind(program, d, After(c)) \subseteq StatementsOf(program)
  BY DEF Behind, Within
<1> HIDE DEF c, q, y, z, OwnLong, sum
<1>19. TypeOK'
  <2>1. mem' \in [DOMAIN mem -> BOOLEAN] /\ DOMAIN mem' = DOMAIN mem
    <3>1. sum \in BOOLEAN
      BY DEF sum
    <3>2. QED
      BY <1>6, <1>7, <1>11, <3>1
  <2>2. mCarrySummary' \in Seq(BOOLEAN) /\ Len(mCarrySummary') + 1 = Level(program, q)
    <3>1. Front(mCarrySummary) \in Seq(BOOLEAN) /\ Len(Front(mCarrySummary)) = Len(mCarrySummary) - 1
      BY <1>7 DEF Front
    <3>2. QED
      BY <1>5, <1>7, <3>1
  <2>3. Statements' = StatementsOf(program)
    BY <1>1, <1>5 DEF Statements
  <2>4. mem' \in [0..Max({info[1].size, 1}) - 1 -> BOOLEAN]
    BY <1>1, <2>1 DEF TypeOK
  <2>5. accum' \in [DOMAIN mem' -> BOOLEAN] /\ mCarryOutPack' \in [DOMAIN mem' -> BOOLEAN]
    BY <1>1, <1>5, <1>11, <2>1 DEF TypeOK
  <2>6. QED
    BY <1>1, <1>3, <1>5, <1>12, <2>2, <2>3, <2>4, <2>5 DEF TypeOK, scope, Level
<1>20. Known'
  BY <1>1, <1>5, <1>12 DEF Known
<1>21. MemoryIsHistory'
  <2>1. SUFFICES ASSUME NEW x \in StatementsOf(program),
                        NEW back \in IF Kept(x)' THEN 0..Reach(Source(program, x)) - 1 ELSE 1..Reach(Source(program, x))
                 PROVE  mem'[Pack(program, x, blockNo - back)] = sent[x][back + 1]
    BY <1>5 DEF MemoryIsHistory
  <2>2. Reach(Source(program, x)) \in Nat \ {0} /\ back \in Int /\ blockNo - back \in Int
    BY <1>1, ReachIs
  <2>3. Kept(x)' <=> Kept(x)
    BY <1>4, <1>5, <1>13 DEF Kept
  <2>4. mem'[Pack(program, x, blockNo - back)] = mem[Pack(program, x, blockNo - back)]
    BY <1>14, <2>2
  <2>5. QED
    BY <2>1, <2>3, <2>4 DEF IInv, MemoryIsHistory
<1>22. NothingYet'
  BY <1>4, <1>5, <1>13 DEF IInv, NothingYet
<1>23. LoopAccumulates'
  BY <1>5, <1>13 DEF LoopAccumulates
<1>24. SummariesKept'
  <2>1. SUFFICES ASSUME NEW d \in DOMAIN program, program[d].kind = "if",
                        d \notin Around(program, q), HasSummary(program, d)
                 PROVE  IF mem'[SummaryPack(program, d)]
                        THEN LongWithin(program, d) \/ Carries(Within(program, d))'
                        ELSE ~Carries(Within(program, d))'
    BY <1>5, <1>12 DEF SummariesKept, Carries
  <2>2. Carries(Within(program, d))' <=> Carries(Within(program, d))
    <3>1. Carries(Within(program, d)) <=> \E x \in Within(program, d) : \E k \in PacksFor(program, x) : mem[k]
      BY DEF Carries
    <3>2. Carries(Within(program, d))' <=> \E x \in Within(program, d) : \E k \in PacksFor(program, x) : mem'[k]
      BY <1>5 DEF Carries
    <3>3. QED
      BY <1>14, <1>18, <3>1, <3>2
  <2>3. CASE d = c
    <3>1. mem'[SummaryPack(program, d)] <=> sum
      BY <1>6, <1>7, <1>11, <2>1, <2>3 DEF z
    <3>2. QED
      BY <1>16, <2>1, <2>2, <2>3, <3>1
  <2>4. CASE d # c
    <3>1. SummaryPack(program, d) \in DOMAIN mem
      BY <1>1, FrameIs
    <3>2. HasSummary(program, c) => SummaryPack(program, d) # z
      BY <1>1, <2>1, <2>4, SummaryPacksApart DEF z
    <3>3. mem'[SummaryPack(program, d)] = mem[SummaryPack(program, d)]
      BY <1>7, <1>11, <3>1, <3>2
    <3>4. d \notin Around(program, scope)
      BY <1>3, <2>1, <2>4 DEF c
    <3>5. QED
      BY <2>1, <2>2, <3>3, <3>4 DEF IInv, SummariesKept
  <2>5. QED
    BY <2>3, <2>4
<1>25. SummariesCollected'
  <2>1. SUFFICES ASSUME NEW d \in Around(program, q), program[d].kind = "if"
                 PROVE  IF Summary(d)' THEN LongWithin(program, d) \/ Carries(Behind(program, d, at))'
                                       ELSE OwnLong(d) \/ ~Carries(Behind(program, d, at))'
    BY <1>5, <1>12 DEF SummariesCollected, OwnLong
  <2>2. d \in Around(program, scope) /\ d \in DOMAIN program
    BY <1>1, <1>3, <2>1, AroundChain, ScopesAre DEF c
  <2>3. Carries(Behind(program, d, at))' <=> Carries(Behind(program, d, After(c)))
    <3>1. Carries(Behind(program, d, After(c))) <=>
            \E x \in Behind(program, d, After(c)) : \E k \in PacksFor(program, x) : mem[k]
      BY DEF Carries
    <3>2. Carries(Behind(program, d, at))' <=>
            \E x \in Behind(program, d, After(c)) : \E k \in PacksFor(program, x) : mem'[k]
      BY <1>5 DEF Carries
    <3>3. QED
      BY <1>14, <1>18, <2>2, <3>1, <3>2
  <2>4. IF Summary(d) THEN LongWithin(program, d) \/ Carries(Behind(program, d, at))
                      ELSE OwnLong(d) \/ ~Carries(Behind(program, d, at))
    BY <2>1, <2>2 DEF IInv, SummariesCollected, OwnLong
  <2>5. Summary(d) <=> mCarrySummary[Level(program, d)]
    BY <1>3, <2>1 DEF Summary, c
  <2>6. CASE d = q
    <3>1. Summary(d)' <=> sum \/ mCarrySummary[Level(program, q)]
      BY <1>5, <1>11, <1>12, <2>6 DEF Summary, y
    <3>2. Behind(program, d, After(c)) = Behind(program, d, at) \union Within(program, c)
      BY <1>4, <2>6
    <3>3. Carries(Behind(program, d, After(c))) <=> Carries(Behind(program, d, at)) \/ Carries(Within(program, c))
      BY <3>2 DEF Carries
    <3>4. LongWithin(program, c) => LongWithin(program, d)
      BY <1>17, <2>6 DEF LongWithin
    <3>5. ~(OwnLong(c) /\ ~HasSummary(program, c))
      <4>1. q # 1
        BY <1>1, <1>3, <2>1, <2>6, KindsAre
      <4>2. ~HasSummary(program, c) => ~OwnLong(c)
        BY <1>1, <1>2, <4>1, OnePackIs DEF OwnLong, q
      <4>3. QED
        BY <4>2
    <3>6. QED
      BY <1>16, <2>3, <2>4, <2>5, <2>6, <3>1, <3>3, <3>4, <3>5
  <2>7. CASE d # q
    <3>1. Level(program, d) \in Nat /\ 1 <= Level(program, d) /\ Level(program, d) < Level(program, q)
      BY <1>1, <1>3, <2>1, <2>7, LevelsAre
    <3>2. mCarrySummary'[Level(program, d)] = mCarrySummary[Level(program, d)]
      <4> DEFINE l == Level(program, d)
      <4>1. l \in 1..Len(mCarrySummary) - 1
        BY <1>7, <3>1
      <4> HIDE DEF l
      <4>2. Front(mCarrySummary)[l] = mCarrySummary[l]
        BY <1>7, <4>1 DEF Front
      <4>3. QED
        BY <1>5, <4>2 DEF l
    <3>3. Summary(d)' <=> mCarrySummary'[Level(program, d)]
      BY <1>5, <1>12, <2>7 DEF Summary
    <3>4. Behind(program, d, After(c)) = Behind(program, d, at)
      BY <1>4, <2>1, <2>7
    <3>5. QED
      BY <2>3, <2>4, <2>5, <3>2, <3>3, <3>4
  <2>8. QED
    BY <2>6, <2>7
<1>26. QED
  BY <1>19, <1>20, <1>21, <1>22, <1>23, <1>24, <1>25 DEF IInv

\* What the body of a While is: its statements alone, without a summary.
LEMMA LoopIs ==
  ASSUME \A p \in Programs : Supported(p), TypeOK, Known, program[scope].kind = "while"
  PROVE  /\ scope # 1 /\ program[scope].parent = 1 /\ Around(program, scope) = {scope, 1}
         /\ ~HasSummary(program, scope) /\ info[scope].whileDepth = 1 /\ Packs(scope) = PacksOf(program, scope)
         /\ storeCarryOutSummary(scope) = mCarryOutPack /\ Stored(mCarryOutPack, scope) = mem
         /\ \A x \in StatementsOf(program) :
              /\ InLoop(x) <=> x \in Within(program, scope)
              /\ x \in Within(program, scope) => /\ Reach(Source(program, x)) = 1
                                                 /\ \A block \in Int : PacksFor(program, x) = {Pack(program, x, block)}
         /\ \A d \in DOMAIN program : scope \in Around(program, d) => d = scope
         /\ \A d \in Around(program, scope) : program[d].kind # "if"
<1>1. WellFormed(program) /\ Supported(program) /\ scope \in DOMAIN program /\ 1 \in DOMAIN program
  BY HereIs, ScopesAre
<1>2. /\ scope # 1 /\ program[scope].parent = 1 /\ Around(program, scope) = {scope, 1}
      /\ \A d \in DOMAIN program : scope \in Around(program, d) => d = scope
  BY <1>1, KindsAre
<1>3. ~HasSummary(program, scope) /\ DepthOf(program, scope, "while") = 1
  BY <1>1, DepthsAre DEF HasSummary
<1>4. /\ ~explicitSummaryRequired(scope) /\ info[scope].whileDepth = 1 /\ Packs(scope) = PacksOf(program, scope)
  BY <1>1, <1>3, InfoIs
<1>5. storeCarryOutSummary(scope) = mCarryOutPack /\ Stored(mCarryOutPack, scope) = mem
  BY <1>4 DEF storeCarryOutSummary, Stored
<1>6. ASSUME NEW x \in StatementsOf(program)
      PROVE  /\ InLoop(x) <=> x \in Within(program, scope)
             /\ x \in Within(program, scope) => /\ Reach(Source(program, x)) = 1
                                                /\ \A block \in Int : PacksFor(program, x) = {Pack(program, x, block)}
  <2>1. x[1] \in DOMAIN program /\ x[2] \in Local(program, x[1]) /\ scope \in Around(program, scope)
    BY <1>1, StatementIs, AroundChain
  <2>2. InLoop(x) <=> x \in Within(program, scope)
    BY <1>2, <2>1 DEF InLoop, Within
  <2>3. ASSUME x[1] = scope PROVE Source(program, x).type # "long"
    BY <1>1, <2>1, <2>3 DEF Supported, Source
  <2>4. x \in Within(program, scope) => Source(program, x).type # "long"
    BY <2>2, <2>3 DEF InLoop
  <2>5. QED
    BY <1>1, <2>2, <2>4, ReachIs, PackIs
<1>7. \A d \in Around(program, scope) : program[d].kind # "if"
  BY <1>1, <1>2, KindsAre
<1>8. QED
  BY <1>2, <1>3, <1>4, <1>5, <1>6, <1>7

LEMMA RepeatStep ==
  ASSUME \A p \in Programs : Supported(p), IInv, RepeatWhile
  PROVE  IInv'
<1>1. /\ TypeOK /\ Known /\ WellFormed(program) /\ Supported(program) /\ Statements = StatementsOf(program)
      /\ DOMAIN mem = Frame(program) /\ scope \in DOMAIN program
      /\ at = <<scope, at[2]>> /\ at[2] \in Nat /\ at[2] <= Len(program[scope].body) + 1
      /\ Len(program[scope].body) \in Nat
  BY HereIs DEF IInv
<1>2. Ended /\ program[scope].kind = "while"
  BY DEF RepeatWhile
<1>3. /\ scope # 1 /\ Packs(scope) = PacksOf(program, scope)
      /\ storeCarryOutSummary(scope) = mCarryOutPack /\ Stored(mCarryOutPack, scope) = mem
      /\ \A x \in StatementsOf(program) : InLoop(x) <=> x \in Within(program, scope)
      /\ \A d \in Around(program, scope) : program[d].kind # "if"
  BY <1>1, <1>2, LoopIs
<1>4. /\ mem' = mem /\ accum' = Accumulated(mCarryOutPack)
      /\ mCarryOutPack' = [Accumulated(mCarryOutPack) EXCEPT ![SummaryPack(program, scope)] = FALSE]
      /\ at' = <<scope, 1>> /\ program' = program /\ info' = info
      /\ mCarrySummary' = mCarrySummary /\ blockNo' = blockNo /\ sent' = sent
  BY <1>1, <1>3, InfoIs DEF RepeatWhile, compiled, Cleared
<1>5. scope' = scope /\ (at')[2] = 1
  BY <1>4 DEF scope
<1>6. \A x \in StatementsOf(program) :
        /\ InLoop(x)' <=> InLoop(x)
        /\ InLoop(x) => Passed(program, x, at) /\ ~Passed(program, x, at')
        /\ ~InLoop(x) => (Passed(program, x, at') <=> Passed(program, x, at))
  <2> DEFINE y == <<program[scope].parent, Position(program, scope)>>
             first == <<scope, 1>>
             last == <<scope, Len(program[scope].body) + 1>>
  <2>1. WellFormed(program) /\ scope \in DOMAIN program \ {1} /\ at = last /\ at' = first
    BY <1>1, <1>2, <1>3, <1>4 DEF Ended
  <2>2. \A x \in StatementsOf(program) : Passed(program, x, first) <=> Passed(program, x, y)
    BY <2>1, NestedEnds
  <2>3. \A x \in StatementsOf(program) : Passed(program, x, last) <=> Passed(program, x, y) \/ x \in Within(program, scope)
    BY <2>1, NestedEnds
  <2>4. \A x \in Within(program, scope) : ~Passed(program, x, y)
    BY <2>1, NestedEnds
  <2> HIDE DEF y, first, last
  <2>5. \A x \in StatementsOf(program) : InLoop(x)' <=> InLoop(x)
    BY <1>4, <1>5 DEF InLoop
  <2>6. QED
    BY <1>3, <2>1, <2>2, <2>3, <2>4, <2>5
<1>7. /\ mCarryOutPack \in [DOMAIN mem -> BOOLEAN] /\ accum \in [DOMAIN mem -> BOOLEAN]
      /\ SummaryPack(program, scope) \in DOMAIN mem
  BY <1>1, FrameIs DEF TypeOK
<1>8. /\ accum' \in [DOMAIN mem -> BOOLEAN]
      /\ \A k \in PacksOf(program, scope) \cap DOMAIN mem : accum'[k] <=> mCarryOutPack[k] \/ accum[k]
      /\ mCarryOutPack' \in [DOMAIN mem -> BOOLEAN]
  <2>1. accum' = [k \in DOMAIN mem |-> mCarryOutPack[k] \/ (k \in PacksOf(program, scope) /\ accum[k])]
    BY <1>3, <1>4, <1>7 DEF Accumulated
  <2>2. accum' \in [DOMAIN mem -> BOOLEAN]
    BY <1>7, <2>1
  <2>3. mCarryOutPack' = [accum' EXCEPT ![SummaryPack(program, scope)] = FALSE]
    BY <1>4
  <2>4. QED
    BY <1>7, <2>1, <2>2, <2>3
<1>9. TypeOK'
  <2>1. Statements' = StatementsOf(program)
    BY <1>1, <1>4 DEF Statements
  <2>2. 1 \in 1..Len(program[scope].body) + 1
    BY <1>1
  <2>3. QED
    BY <1>1, <1>4, <1>5, <1>8, <2>1, <2>2 DEF TypeOK, scope
<1>10. Known'
  BY <1>1, <1>4, <1>5 DEF Known
<1>11. MemoryIsHistory'
  <2>1. \A x \in StatementsOf(program) : Kept(x)' <=> Kept(x)
    BY <1>4, <1>6 DEF Kept
  <2>2. QED
    BY <1>4, <2>1 DEF IInv, MemoryIsHistory
<1>12. NothingYet'
  BY <1>4, <1>6 DEF IInv, NothingYet
<1>13. LoopAccumulates'
  <2>1. SUFFICES ASSUME NEW x \in StatementsOf(program), InLoop(x)'
                 PROVE  sent[x][1] <=> \/ accum'[Pack(program, x, 0)]
                                       \/ Passed(program, x, at') /\ mCarryOutPack'[Pack(program, x, 0)]
    BY <1>4 DEF LoopAccumulates
  <2>2. InLoop(x) /\ Passed(program, x, at) /\ ~Passed(program, x, at') /\ x \in Within(program, scope)
    BY <1>3, <1>6, <2>1
  <2>3. sent[x][1] <=> accum[Pack(program, x, 0)] \/ mCarryOutPack[Pack(program, x, 0)]
    BY <2>2 DEF IInv, LoopAccumulates
  <2>4. Pack(program, x, 0) \in PacksFor(program, x)
    BY <1>1, PackIs
  <2>5. Pack(program, x, 0) \in DOMAIN mem /\ Pack(program, x, 0) \in PacksOf(program, scope)
    BY <1>1, <2>2, <2>4, FrameIs, PacksApart
  <2>6. QED
    BY <1>8, <2>2, <2>3, <2>5
<1>14. SummariesKept'
  BY <1>4, <1>5 DEF IInv, SummariesKept, Carries
<1>15. SummariesCollected'
  BY <1>3, <1>4, <1>5 DEF SummariesCollected
<1>16. QED
  BY <1>9, <1>10, <1>11, <1>12, <1>13, <1>14, <1>15 DEF IInv

LEMMA LeaveWhileStep ==
  ASSUME \A p \in Programs : Supported(p), IInv, LeaveWhile
  PROVE  IInv'
<1> DEFINE w == scope
           y == SummaryPack(program, 1)
           out == Accumulated(mCarryOutPack)
<1>1. /\ TypeOK /\ Known /\ WellFormed(program) /\ Supported(program) /\ Statements = StatementsOf(program)
      /\ DOMAIN mem = Frame(program) /\ w \in DOMAIN program /\ blockNo \in Int /\ 1 \in DOMAIN program
  BY HereIs, ScopesAre DEF IInv
<1>2. Ended /\ program[w].kind = "while"
  BY DEF LeaveWhile
<1>3. /\ w # 1 /\ program[w].parent = 1 /\ Around(program, w) = {w, 1} /\ Packs(w) = PacksOf(program, w)
      /\ info[w].whileDepth = 1 /\ storeCarryOutSummary(w) = mCarryOutPack
      /\ \A x \in StatementsOf(program) :
           /\ InLoop(x) <=> x \in Within(program, w)
           /\ x \in Within(program, w) => /\ Reach(Source(program, x)) = 1
                                          /\ \A block \in Int : PacksFor(program, x) = {Pack(program, x, block)}
      /\ \A d \in DOMAIN program : w \in Around(program, d) => d = w
  BY <1>1, <1>2, LoopIs
<1>4. /\ After(w) = <<1, Position(program, w) + 1>> /\ After(w)[2] \in 1..Len(program[1].body) + 1
      /\ Level(program, w) = Level(program, 1) + 1
      /\ \A x \in Within(program, w) : Passed(program, x, at)
      /\ \A x \in StatementsOf(program) : Passed(program, x, After(w)) <=> Passed(program, x, at)
  BY <1>1, <1>2, <1>3, ScopeEnds
<1>5. Around(program, 1) = {1} /\ Level(program, 1) = 1 /\ program[1].kind = "main"
  BY <1>1, AroundIs, LevelsAre, KindsAre
<1>6. y \in DOMAIN mem
  BY <1>1, FrameIs
<1>7. /\ program' = program /\ info' = info /\ sent' = sent /\ blockNo' = blockNo /\ accum' = accum
      /\ at' = After(w) /\ mCarrySummary' = Front(mCarrySummary)
  BY DEF LeaveWhile, leaveScope, compiled
<1>8. /\ mCarryOutPack \in [DOMAIN mem -> BOOLEAN] /\ mem \in [DOMAIN mem -> BOOLEAN] /\ accum \in [DOMAIN mem -> BOOLEAN]
      /\ mCarrySummary \in Seq(BOOLEAN) /\ Len(mCarrySummary) = 1
  <2>1. /\ mCarryOutPack \in [DOMAIN mem -> BOOLEAN] /\ mem \in [DOMAIN mem -> BOOLEAN] /\ accum \in [DOMAIN mem -> BOOLEAN]
        /\ mCarrySummary \in Seq(BOOLEAN) /\ Len(mCarrySummary) + 1 = Level(program, w)
    BY <1>1 DEF TypeOK, Level
  <2>2. Len(mCarrySummary) \in Nat
    BY <2>1
  <2>3. Level(program, w) = 2
    BY <1>4, <1>5
  <2> DEFINE n == Len(mCarrySummary)
             lvl == Level(program, w)
  <2>4. n + 1 = lvl /\ n \in Nat /\ lvl = 2
    BY <2>1, <2>2, <2>3
  <2> HIDE DEF n, lvl
  <2>5. n = 1
    BY <2>4
  <2> USE DEF n
  <2>6. QED
    BY <2>1, <2>5
<1>9. /\ out \in [DOMAIN mem -> BOOLEAN]
      /\ \A k \in PacksOf(program, w) \cap DOMAIN mem : out[k] <=> mCarryOutPack[k] \/ accum[k]
  <2>1. out = [k \in DOMAIN mem |-> mCarryOutPack[k] \/ (k \in PacksOf(program, w) /\ accum[k])]
    BY <1>3, <1>8 DEF Accumulated
  <2> HIDE DEF out, w
  <2>2. QED
    BY <1>8, <2>1
<1>10. /\ mem' = [k \in DOMAIN mem |-> IF k \in PacksOf(program, w) THEN out[k] ELSE mem[k]]
       /\ mCarryOutPack' \in [DOMAIN mem -> BOOLEAN]
  <2>1. mem' = [k \in DOMAIN mem |-> IF k \in PacksOf(program, w) THEN out[k] ELSE mem[k]]
    BY <1>3 DEF LeaveWhile
  <2>2. \E v : mCarryOutPack' = [out EXCEPT ![y] = v] /\ v = out[SummaryPack(program, w)]
    BY <1>1, <1>3, InfoIs DEF LeaveWhile, leaveScope
  <2>3. SummaryPack(program, w) \in DOMAIN mem
    BY <1>1, FrameIs
  <2> HIDE DEF out, w, y
  <2>4. QED
    BY <1>9, <2>1, <2>2, <2>3
<1>11. scope' = 1 /\ at' = <<1, (at')[2]>> /\ (at')[2] \in 1..Len(program[1].body) + 1
  BY <1>4, <1>7 DEF scope
<1>12. \A x \in StatementsOf(program) : ~InLoop(x)'
  BY <1>5, <1>7, <1>11 DEF InLoop
<1>13. \A x \in StatementsOf(program) : /\ \A block \in Int : Pack(program, x, block) \in PacksFor(program, x)
                                        /\ PacksFor(program, x) \subseteq DOMAIN mem
                                        /\ x \in Within(program, w) => PacksFor(program, x) \subseteq PacksOf(program, w)
                                        /\ x \notin Within(program, w) => PacksFor(program, x) \cap PacksOf(program, w) = {}
  <2>1. ASSUME NEW x \in StatementsOf(program)
        PROVE  /\ \A block \in Int : Pack(program, x, block) \in PacksFor(program, x)
               /\ PacksFor(program, x) \subseteq DOMAIN mem
               /\ x \in Within(program, w) => PacksFor(program, x) \subseteq PacksOf(program, w)
               /\ x \notin Within(program, w) => PacksFor(program, x) \cap PacksOf(program, w) = {}
    BY <1>1, PackIs, FrameIs, PacksApart
  <2>2. QED
    BY <2>1
<1> HIDE DEF w, y, out
<1>14. TypeOK'
  <2>1. mem' \in [DOMAIN mem -> BOOLEAN] /\ DOMAIN mem' = DOMAIN mem
    BY <1>8, <1>9, <1>10
  <2>2. mCarrySummary' \in Seq(BOOLEAN) /\ Len(mCarrySummary') + 1 = Cardinality(Around(program, 1))
    <3>1. Front(mCarrySummary) \in Seq(BOOLEAN) /\ Len(Front(mCarrySummary)) = 0
      BY <1>8 DEF Front
    <3>2. QED
      BY <1>5, <1>7, <3>1 DEF Level
  <2>3. Statements' = StatementsOf(program)
    BY <1>1, <1>7 DEF Statements
  <2>4. mem' \in [0..Max({info[1].size, 1}) - 1 -> BOOLEAN]
    BY <1>1, <2>1 DEF TypeOK
  <2>5. accum' \in [DOMAIN mem' -> BOOLEAN] /\ mCarryOutPack' \in [DOMAIN mem' -> BOOLEAN]
    BY <1>7, <1>8, <1>10, <2>1
  <2>6. QED
    BY <1>1, <1>7, <1>11, <2>2, <2>3, <2>4, <2>5 DEF TypeOK, scope
<1>15. Known'
  BY <1>1, <1>7, <1>11 DEF Known
<1>16. MemoryIsHistory'
  <2>1. SUFFICES ASSUME NEW x \in StatementsOf(program),
                        NEW back \in IF Kept(x)' THEN 0..Reach(Source(program, x)) - 1 ELSE 1..Reach(Source(program, x))
                 PROVE  mem'[Pack(program, x, blockNo - back)] = sent[x][back + 1]
    BY <1>7 DEF MemoryIsHistory
  <2>2. Reach(Source(program, x)) \in Nat \ {0} /\ back \in Int /\ blockNo - back \in Int
    BY <1>1, ReachIs
  <2>3. Pack(program, x, blockNo - back) \in PacksFor(program, x)
    BY <1>13, <2>2
  <2>4. CASE x \in Within(program, w)
    <3>1. Kept(x)' /\ InLoop(x) /\ Passed(program, x, at)
      BY <1>3, <1>4, <1>7, <1>12, <2>4 DEF Kept
    <3>2. back = 0
      BY <1>3, <2>1, <2>4, <3>1
    <3>3. Pack(program, x, blockNo - back) = Pack(program, x, 0)
      BY <1>3, <2>2, <2>3, <2>4
    <3>4. sent[x][1] <=> accum[Pack(program, x, 0)] \/ mCarryOutPack[Pack(program, x, 0)]
      BY <3>1 DEF IInv, LoopAccumulates
    <3>5. Pack(program, x, 0) \in PacksOf(program, w) \cap DOMAIN mem
      BY <1>13, <2>3, <2>4, <3>3
    <3>6. mem'[Pack(program, x, 0)] = out[Pack(program, x, 0)] /\ out[Pack(program, x, 0)] \in BOOLEAN
      BY <1>9, <1>10, <3>5
    <3>7. sent[x][1] \in BOOLEAN
      <4>1. sent[x] \in [1..Reach(Source(program, x)) + 1 -> BOOLEAN]
        BY <1>1 DEF TypeOK, Source
      <4>2. QED
        BY <2>2, <4>1
    <3>8. mem'[Pack(program, x, 0)] = sent[x][1]
      BY <1>9, <3>4, <3>5, <3>6, <3>7
    <3>9. QED
      BY <3>2, <3>3, <3>8
  <2>5. CASE x \notin Within(program, w)
    <3>1. Kept(x)' <=> Kept(x)
      BY <1>3, <1>4, <1>7, <1>12, <2>5 DEF Kept
    <3>2. mem'[Pack(program, x, blockNo - back)] = mem[Pack(program, x, blockNo - back)]
      BY <1>10, <1>13, <2>3, <2>5
    <3>3. QED
      BY <2>1, <3>1, <3>2 DEF IInv, MemoryIsHistory
  <2>6. QED
    BY <2>4, <2>5
<1>17. NothingYet'
  <2>1. SUFFICES ASSUME NEW x \in StatementsOf(program), ~Passed(program, x, at') PROVE ~sent[x][1]
    BY <1>7 DEF NothingYet
  <2>2. ~Passed(program, x, at) /\ ~InLoop(x)
    BY <1>3, <1>4, <1>7, <2>1
  <2>3. QED
    BY <2>2 DEF IInv, NothingYet
<1>18. LoopAccumulates'
  BY <1>7, <1>12 DEF LoopAccumulates
<1>19. SummariesKept'
  <2>1. SUFFICES ASSUME NEW d \in DOMAIN program, program[d].kind = "if", d \notin Around(program, 1), HasSummary(program, d)
                 PROVE  IF mem'[SummaryPack(program, d)]
                        THEN \/ LongWithin(program, d)
                             \/ \E x \in Within(program, d) : \E k \in PacksFor(program, x) : mem'[k]
                        ELSE ~\E x \in Within(program, d) : \E k \in PacksFor(program, x) : mem'[k]
    BY <1>7, <1>11 DEF SummariesKept, Carries
  <2>2. d # w /\ d \notin Around(program, w) /\ w \notin Around(program, d)
    BY <1>2, <1>3, <1>5, <2>1
  <2>3. \A x \in Within(program, d) : x \in StatementsOf(program) /\ x \notin Within(program, w)
    <3>1. ASSUME NEW x \in Within(program, d), x \in Within(program, w) PROVE FALSE
      <4>1. x[1] \in DOMAIN program /\ d \in Around(program, x[1]) /\ w \in Around(program, x[1])
        BY <1>1, <3>1, StatementIs DEF Within
      <4>2. QED
        BY <1>3, <2>2, <4>1
    <3>2. QED
      BY <3>1 DEF Within
  <2>4. \A x \in Within(program, d) : \A k \in PacksFor(program, x) : mem'[k] = mem[k]
    BY <1>10, <1>13, <2>3
  <2>5. SummaryPack(program, d) \in DOMAIN mem /\ SummaryPack(program, d) \notin PacksOf(program, w)
    BY <1>1, <2>1, <2>2, FrameIs, SummaryPacksApart
  <2>6. mem'[SummaryPack(program, d)] = mem[SummaryPack(program, d)]
    BY <1>10, <2>5
  <2>7. IF mem[SummaryPack(program, d)]
        THEN LongWithin(program, d) \/ \E x \in Within(program, d) : \E k \in PacksFor(program, x) : mem[k]
        ELSE ~\E x \in Within(program, d) : \E k \in PacksFor(program, x) : mem[k]
    BY <2>1, <2>2 DEF IInv, SummariesKept, Carries, w
  <2>8. QED
    BY <2>4, <2>6, <2>7
<1>20. SummariesCollected'
  BY <1>5, <1>7, <1>11 DEF SummariesCollected
<1>21. QED
  BY <1>14, <1>15, <1>16, <1>17, <1>18, <1>19, <1>20 DEF IInv

-----------------------------------------------------------------------------
(* The theorems.                                                              *)

LEMMA StartsRight ==
  ASSUME \A p \in Programs : Supported(p), Init
  PROVE  IInv
<1>1. /\ program \in Programs /\ info = Layout(program) /\ at = <<1, 1>>
      /\ mem = [k \in 0..Max({info[1].size, 1}) - 1 |-> FALSE]
      /\ mCarryOutPack = mem /\ mCarrySummary = << >> /\ accum = mem /\ blockNo = 0
      /\ sent = [x \in Statements |-> [k \in 1..Reach(program[x[1]].body[x[2]]) + 1 |-> FALSE]]
  BY DEF Init
<1>2. WellFormed(program) /\ Supported(program) /\ 1 \in DOMAIN program /\ Len(program[1].body) \in Nat
  <2>1. WellFormed(program) /\ Supported(program)
    BY <1>1, ProgramsAssumption
  <2>2. 1 \in DOMAIN program
    BY <2>1, ScopesAre
  <2>3. Len(program[1].body) \in Nat
    BY <2>1, <2>2 DEF WellFormed
  <2>4. QED
    BY <2>1, <2>2, <2>3
<1>3. Around(program, 1) = {1} /\ Level(program, 1) = 1 /\ program[1].kind = "main"
  BY <1>2, AroundIs, LevelsAre, KindsAre
<1>4. Statements = StatementsOf(program) /\ scope = 1 /\ MaxRing \in Nat \ {0}
  BY <1>1, MaxRingAssumption DEF Statements, StatementsOf, scope
<1>5. sent = [x \in StatementsOf(program) |-> [k \in 1..Reach(Source(program, x)) + 1 |-> FALSE]]
  BY <1>1, <1>4 DEF Source
<1>6. \A x \in StatementsOf(program) :
        /\ Reach(Source(program, x)) \in Nat \ {0}
        /\ sent[x] \in [1..Reach(Source(program, x)) + 1 -> BOOLEAN]
        /\ \A k \in 1..Reach(Source(program, x)) + 1 : sent[x][k] = FALSE
  BY <1>2, <1>5, ReachIs
<1>7. TypeOK
  <2>1. mem \in [0..Max({info[1].size, 1}) - 1 -> BOOLEAN]
    BY <1>1
  <2>2. mCarryOutPack \in [DOMAIN mem -> BOOLEAN] /\ accum \in [DOMAIN mem -> BOOLEAN]
    BY <1>1
  <2>3. mCarrySummary \in Seq(BOOLEAN) /\ Len(mCarrySummary) + 1 = Cardinality(Around(program, scope))
    BY <1>1, <1>3, <1>4 DEF Level
  <2>4. at[1] \in DOMAIN program /\ at[2] \in 1..Len(program[at[1]].body) + 1
    BY <1>1, <1>2
  <2>5. QED
    BY <1>1, <1>4, <1>6, <2>1, <2>2, <2>3, <2>4 DEF TypeOK, Source
<1>8. Known
  BY <1>1, <1>4, <1>5 DEF Known
<1>9. \A x \in StatementsOf(program) : ~Passed(program, x, at) /\ ~InLoop(x) /\ ~Kept(x)
  <2>1. ASSUME NEW x \in StatementsOf(program) PROVE ~Passed(program, x, at)
    BY <1>1, <1>2, BlockEnds
  <2>2. QED
    BY <1>3, <1>4, <2>1 DEF InLoop, Kept
<1>10. \A k \in Frame(program) : mem[k] = FALSE
  <2>1. DOMAIN mem = Frame(program)
    BY <1>7, <1>8, HereIs
  <2>2. QED
    BY <1>1, <2>1
<1>11. MemoryIsHistory
  <2>1. SUFFICES ASSUME NEW x \in StatementsOf(program), NEW back \in 1..Reach(Source(program, x))
                 PROVE  mem[Pack(program, x, blockNo - back)] = sent[x][back + 1]
    BY <1>9 DEF MemoryIsHistory
  <2>2. Reach(Source(program, x)) \in Nat
    BY <1>6
  <2>3. blockNo - back \in Int /\ back + 1 \in 1..Reach(Source(program, x)) + 1
    BY <1>1, <2>2
  <2>4. Pack(program, x, blockNo - back) \in Frame(program)
    BY <1>2, <2>3, PackIs, FrameIs
  <2>5. mem[Pack(program, x, blockNo - back)] = FALSE
    BY <1>10, <2>4
  <2> DEFINE k == back + 1
  <2>6. k \in 1..Reach(Source(program, x)) + 1
    BY <2>3
  <2> HIDE DEF k
  <2>7. sent[x][k] = FALSE
    BY <1>6, <2>6
  <2>8. sent[x][back + 1] = FALSE
    BY <2>7 DEF k
  <2>9. QED
    BY <2>5, <2>8
<1>12. NothingYet
  <2>1. \A x \in StatementsOf(program) : 1 \in 1..Reach(Source(program, x)) + 1
    BY <1>6
  <2>2. QED
    BY <1>6, <2>1 DEF NothingYet
<1>13. LoopAccumulates
  BY <1>9 DEF LoopAccumulates
<1>14. SummariesKept
  <2>1. \A x \in StatementsOf(program) : PacksFor(program, x) \subseteq Frame(program)
    BY <1>2, FrameIs
  <2>2. \A c \in DOMAIN program : ~Carries(Within(program, c))
    BY <1>10, <2>1 DEF Carries, Within
  <2>3. \A c \in DOMAIN program : SummaryPack(program, c) \in Frame(program)
    BY <1>2, FrameIs
  <2>4. QED
    BY <1>10, <2>2, <2>3 DEF SummariesKept
<1>15. SummariesCollected
  BY <1>3, <1>4 DEF SummariesCollected
<1>16. QED
  BY <1>7, <1>8, <1>11, <1>12, <1>13, <1>14, <1>15 DEF IInv

LEMMA StaysRight ==
  ASSUME \A p \in Programs : Supported(p)
  PROVE  IInv /\ [Next]_vars => IInv'
<1>1. SUFFICES ASSUME IInv, [Next]_vars PROVE IInv'
  OBVIOUS
<1>2. CASE CarryInCarryOut
  BY <1>1, <1>2, StatementStep
<1>3. CASE longAdvanceCarryInCarryOut
  BY <1>1, <1>3, StatementStep
<1>4. CASE EnterIf
  BY <1>1, <1>4, EnterStep
<1>5. CASE SkipIf
  BY <1>1, <1>5, SkipStep
<1>6. CASE LeaveIf
  BY <1>1, <1>6, LeaveIfStep
<1>7. CASE EnterWhile
  BY <1>1, <1>7, EnterStep
<1>8. CASE RepeatWhile
  BY <1>1, <1>8, RepeatStep
<1>9. CASE LeaveWhile
  BY <1>1, <1>9, LeaveWhileStep
<1>10. CASE NextBlock
  BY <1>1, <1>10, NextBlockStep
<1>11. CASE UNCHANGED vars
  <2>1. /\ program' = program /\ info' = info /\ at' = at /\ mem' = mem /\ mCarryOutPack' = mCarryOutPack
        /\ mCarrySummary' = mCarrySummary /\ accum' = accum /\ blockNo' = blockNo /\ sent' = sent
    BY <1>11 DEF vars, compiled
  <2>2. scope' = scope /\ Statements' = Statements
    BY <2>1 DEF scope, Statements
  <2>3. TypeOK' /\ Known'
    BY <1>1, <2>1, <2>2 DEF IInv, TypeOK, Known
  <2>4. \A x \in StatementsOf(program) : (InLoop(x)' <=> InLoop(x)) /\ (Kept(x)' <=> Kept(x))
    BY <2>1, <2>2 DEF InLoop, Kept
  <2>5. MemoryIsHistory'
    BY <1>1, <2>1, <2>4 DEF IInv, MemoryIsHistory
  <2>6. NothingYet' /\ LoopAccumulates'
    BY <1>1, <2>1, <2>4 DEF IInv, NothingYet, LoopAccumulates
  <2>7. SummariesKept'
    BY <1>1, <2>1, <2>2 DEF IInv, SummariesKept, Carries
  <2>8. \A c : Summary(c)' <=> Summary(c)
    BY <2>1, <2>2 DEF Summary
  <2>9. SummariesCollected'
    BY <1>1, <2>1, <2>2, <2>8 DEF IInv, SummariesCollected, Carries
  <2>10. QED
    BY <2>3, <2>5, <2>6, <2>7, <2>9 DEF IInv
<1>12. QED
  BY <1>1, <1>2, <1>3, <1>4, <1>5, <1>6, <1>7, <1>8, <1>9, <1>10, <1>11 DEF Next

\* The inductive invariant holds for every set of programs that the carry manager can keep
\* the carries of: at every statement, every pack and every summary says what it stands for.
THEOREM CarriesAreKept ==
  ASSUME \A p \in Programs : Supported(p)
  PROVE  Spec => []IInv
<1>1. Init => IInv
  BY StartsRight
<1>2. IInv /\ [Next]_vars => IInv'
  BY StaysRight
<1>3. QED
  BY <1>1, <1>2, PTL DEF Spec

\* Every variable keeps its type, and the stack of summaries that enterScope and leaveScope
\* keep has one entry for every scope around the statement.
THEOREM CarryTypeCorrect ==
  ASSUME \A p \in Programs : Supported(p)
  PROVE  Spec => []TypeOK
<1>1. IInv => TypeOK
  BY DEF IInv
<1>2. QED
  BY <1>1, CarriesAreKept, PTL

\* What is still to come in from earlier blocks, at the nested scope that comes next.
LEMMA NestedIsNext ==
  ASSUME \A p \in Programs : Supported(p), IInv, AtNested("if")
  PROVE  LET c == Statement.n
         IN  /\ c \in DOMAIN program /\ program[c].kind = "if" /\ c \notin Around(program, scope)
             /\ generateSummaryTest(c, FALSE) <=> Sizes(program)[c] > 0 /\ mem[SummaryPack(program, c)]
             /\ Inside(c) = Within(program, c)
             /\ \A x \in Within(program, c) :
                  /\ x \in StatementsOf(program) /\ Reach(Source(program, x)) \in Nat \ {0}
                  /\ sent[x] \in [1..Reach(Source(program, x)) + 1 -> BOOLEAN]
                  /\ \A back \in 1..Reach(Source(program, x)) :
                       /\ Pack(program, x, blockNo - back) \in PacksFor(program, x)
                       /\ mem[Pack(program, x, blockNo - back)] = sent[x][back + 1]
<1> DEFINE c == Statement.n
<1>1. /\ TypeOK /\ Known /\ WellFormed(program) /\ Supported(program) /\ Statements = StatementsOf(program)
      /\ blockNo \in Int /\ scope \in DOMAIN program
  BY HereIs DEF IInv
<1>2. ~Ended /\ Statement.type = "scope" /\ program[c].kind = "if"
  BY DEF AtNested
<1>3. /\ c \in DOMAIN program \ {1} /\ c \notin Around(program, scope)
      /\ at = <<program[c].parent, Position(program, c)>> /\ \A x \in StatementsOf(program) : ~InLoop(x)
  BY <1>1, <1>2, NestedHere
<1> HIDE DEF c
<1>4. generateSummaryTest(c, FALSE) <=> Sizes(program)[c] > 0 /\ mem[SummaryPack(program, c)]
  BY <1>1, <1>3, InfoIs DEF generateSummaryTest
<1>5. Inside(c) = Within(program, c)
  BY <1>1 DEF Inside, Within
<1>6. \A x \in Within(program, c) : x \in StatementsOf(program) /\ ~Passed(program, x, at)
  BY <1>1, <1>3, NestedEnds DEF Within
<1>7. ASSUME NEW x \in Within(program, c)
      PROVE  /\ x \in StatementsOf(program) /\ Reach(Source(program, x)) \in Nat \ {0}
             /\ sent[x] \in [1..Reach(Source(program, x)) + 1 -> BOOLEAN]
             /\ \A back \in 1..Reach(Source(program, x)) :
                  /\ Pack(program, x, blockNo - back) \in PacksFor(program, x)
                  /\ mem[Pack(program, x, blockNo - back)] = sent[x][back + 1]
  <2>1. x \in StatementsOf(program) /\ ~Kept(x)
    BY <1>6 DEF Kept
  <2>2. Reach(Source(program, x)) \in Nat \ {0}
    BY <1>1, <2>1, ReachIs
  <2>3. sent[x] \in [1..Reach(Source(program, x)) + 1 -> BOOLEAN]
    BY <1>1, <2>1 DEF TypeOK, Source
  <2>4. \A back \in 1..Reach(Source(program, x)) : Pack(program, x, blockNo - back) \in PacksFor(program, x)
    <3>1. \A back \in 1..Reach(Source(program, x)) : blockNo - back \in Int
      BY <1>1, <2>2
    <3>2. QED
      BY <1>1, <2>1, <3>1, PackIs
  <2>5. \A back \in 1..Reach(Source(program, x)) : mem[Pack(program, x, blockNo - back)] = sent[x][back + 1]
    BY <2>1 DEF IInv, MemoryIsHistory
  <2>6. QED
    BY <2>1, <2>2, <2>3, <2>4, <2>5
<1>8. QED
  BY <1>2, <1>3, <1>4, <1>5, <1>7 DEF c

\* An If is skipped only when nothing inside it is still to come in (generateSummaryTest).
THEOREM SkippedScopesAreEmpty ==
  ASSUME \A p \in Programs : Supported(p)
  PROVE  Spec => []SkippedScopesHoldNoCarry
<1>1. ASSUME IInv, AtNested("if"), ~generateSummaryTest(Statement.n, FALSE) PROVE Pending(Statement.n) = {}
  <2> DEFINE c == Statement.n
  <2>1. /\ c \in DOMAIN program /\ program[c].kind = "if" /\ c \notin Around(program, scope)
        /\ ~(Sizes(program)[c] > 0 /\ mem[SummaryPack(program, c)])
        /\ Inside(c) = Within(program, c)
        /\ \A x \in Within(program, c) :
             /\ x \in StatementsOf(program) /\ Reach(Source(program, x)) \in Nat \ {0}
             /\ sent[x] \in [1..Reach(Source(program, x)) + 1 -> BOOLEAN]
             /\ \A back \in 1..Reach(Source(program, x)) :
                  /\ Pack(program, x, blockNo - back) \in PacksFor(program, x)
                  /\ mem[Pack(program, x, blockNo - back)] = sent[x][back + 1]
    BY <1>1, NestedIsNext
  <2>2. WellFormed(program) /\ Supported(program)
    BY <1>1, HereIs DEF IInv
  <2> HIDE DEF c
  <2>3. \A x \in Within(program, c) : \A k \in PacksFor(program, x) : ~mem[k]
    <3>1. CASE HasSummary(program, c)
      <4>1. Sizes(program)[c] \in Nat /\ Sizes(program)[c] > 1
        BY <2>1, <2>2, <3>1, SizesAre DEF HasSummary
      <4>2. ~mem[SummaryPack(program, c)]
        BY <2>1, <4>1
      <4>3. QED
        BY <1>1, <2>1, <3>1, <4>2 DEF IInv, SummariesKept, Carries
    <3>2. CASE ~HasSummary(program, c)
      <4>1. \A x \in Within(program, c) : PacksFor(program, x) = {SummaryPack(program, c)} /\ Sizes(program)[c] > 0
        BY <2>1, <2>2, <3>2, OnePackIs
      <4>2. QED
        BY <2>1, <4>1
    <3>3. QED
      BY <3>1, <3>2
  <2>4. ASSUME NEW x \in Within(program, c), NEW k \in 2..Len(sent[x]) PROVE ~sent[x][k]
    <3> DEFINE back == k - 1
    <3>1. Len(sent[x]) = Reach(Source(program, x)) + 1
      BY <2>1
    <3>2. back \in 1..Reach(Source(program, x)) /\ back + 1 = k
      BY <2>1, <3>1
    <3> HIDE DEF back
    <3>3. QED
      BY <2>1, <2>3, <3>2
  <2>5. QED
    BY <2>1, <2>4 DEF Pending, c
<1>2. IInv => SkippedScopesHoldNoCarry
  BY <1>1 DEF SkippedScopesHoldNoCarry
<1>3. QED
  BY <1>2, CarriesAreKept, PTL

\* The summary alone takes the program into an If only when a statement inside it carried
\* something out of earlier blocks, or has a circular buffer (storeCarryOutSummary).
THEOREM SummariesSayWhatIsCarried ==
  ASSUME \A p \in Programs : Supported(p)
  PROVE  Spec => []SummariesAreExact
<1>1. ASSUME IInv, AtNested("if"), generateSummaryTest(Statement.n, FALSE)
      PROVE  \/ Pending(Statement.n) # {}
             \/ \E o \in Inside(Statement.n) : info[o[1]].hasLongAdvances
  <2> DEFINE c == Statement.n
  <2>1. /\ c \in DOMAIN program /\ program[c].kind = "if" /\ c \notin Around(program, scope)
        /\ Sizes(program)[c] > 0 /\ mem[SummaryPack(program, c)]
        /\ Inside(c) = Within(program, c)
        /\ \A x \in Within(program, c) :
             /\ x \in StatementsOf(program) /\ Reach(Source(program, x)) \in Nat \ {0}
             /\ sent[x] \in [1..Reach(Source(program, x)) + 1 -> BOOLEAN]
             /\ \A back \in 1..Reach(Source(program, x)) :
                  /\ Pack(program, x, blockNo - back) \in PacksFor(program, x)
                  /\ mem[Pack(program, x, blockNo - back)] = sent[x][back + 1]
    BY <1>1, NestedIsNext
  <2>2. TypeOK /\ Known /\ WellFormed(program) /\ Supported(program)
    BY <1>1, HereIs DEF IInv
  <2> HIDE DEF c
  <2>3. LongWithin(program, c) \/ \E x \in Within(program, c) : \E k \in PacksFor(program, x) : mem[k]
    <3>1. CASE HasSummary(program, c)
      BY <1>1, <2>1, <3>1 DEF IInv, SummariesKept, Carries
    <3>2. CASE ~HasSummary(program, c)
      <4>1. Within(program, c) # {} /\ \A x \in Within(program, c) : PacksFor(program, x) = {SummaryPack(program, c)}
        BY <2>1, <2>2, <3>2, OnePackIs
      <4>2. QED
        BY <2>1, <4>1
    <3>3. QED
      BY <3>1, <3>2
  <2>4. ASSUME NEW x \in Within(program, c), Source(program, x).type = "long"
        PROVE  info[x[1]].hasLongAdvances
    <3>1. x[1] \in DOMAIN program /\ x[2] \in Local(program, x[1])
      BY <2>1, <2>2, StatementIs
    <3>2. info[x[1]].hasLongAdvances <=> \E i \in Local(program, x[1]) : program[x[1]].body[i].type = "long"
      BY <2>2, <3>1, InfoIs
    <3>3. QED
      BY <2>4, <3>1, <3>2 DEF Source
  <2>5. ASSUME NEW x \in Within(program, c), Source(program, x).type # "long", NEW k \in PacksFor(program, x), mem[k]
        PROVE  x \in Pending(c)
    <3>1. Reach(Source(program, x)) = 1 /\ \A block \in Int : PacksFor(program, x) = {Pack(program, x, block)}
      BY <2>1, <2>2, <2>5, ReachIs, PackIs
    <3>2. 1 \in 1..Reach(Source(program, x)) /\ blockNo - 1 \in Int
      BY <2>2, <3>1 DEF TypeOK
    <3>3. k = Pack(program, x, blockNo - 1)
      BY <3>1, <3>2
    <3>4. sent[x][1 + 1] = mem[k]
      BY <2>1, <3>2, <3>3
    <3>5. 2 \in 2..Len(sent[x]) /\ sent[x][2]
      BY <2>1, <2>5, <3>1, <3>4
    <3>6. QED
      BY <2>1, <3>5 DEF Pending
  <2>6. QED
    BY <2>1, <2>3, <2>4, <2>5 DEF LongWithin, c
<1>2. IInv => SummariesAreExact
  BY <1>1 DEF SummariesAreExact
<1>3. QED
  BY <1>2, CarriesAreKept, PTL

\* What a statement carries in is what it carried out of the last block, or of the blocks
\* that a long advance reaches back to: no statement, scope or summary writes over it.
THEOREM CarriesComeIn ==
  ASSUME \A p \in Programs : Supported(p)
  PROVE  Spec => []CarriesInWhatWasCarriedOut
<1>1. ASSUME IInv, ~Ended, Statement.type # "scope"
      PROVE  IF Statement.type = "long"
             THEN \A back \in {Statement.n, Max({Statement.n - 1, 1})} :
                    mem[Slot(blockNo - back)] = sent[at][back + 1]
             ELSE mem[Index] = sent[at][2]
  <2>1. TypeOK /\ Known /\ WellFormed(program) /\ blockNo \in Int
    BY <1>1, HereIs DEF IInv
  <2>2. /\ at \in StatementsOf(program) /\ Statement = Source(program, at)
        /\ Statement.type = "long" => \A block \in Int : Slot(block) = Pack(program, at, block)
        /\ Statement.type # "long" => \A block \in Int : Index = Pack(program, at, block)
    BY <1>1, <2>1, LocalHere
  <2>3. ~Kept(at)
    BY <2>1, <2>2, NotPassedItself DEF Kept
  <2>4. \A back \in 1..Reach(Statement) : mem[Pack(program, at, blockNo - back)] = sent[at][back + 1]
    BY <1>1, <2>2, <2>3 DEF IInv, MemoryIsHistory
  <2>5. CASE Statement.type = "long"
    <3> DEFINE n == Statement.n
               m == Max({n - 1, 1})
    <3>1. n \in Nat \ {0} /\ Reach(Statement) = n
      <4>1. n \in 1..MaxRing /\ Reach(Statement) = n
        BY <2>1, <2>2, <2>5, ReachIs
      <4>2. QED
        BY <4>1, MaxRingAssumption
    <3> HIDE DEF n
    <3>2. m \in 1..n
      <4>1. \E v \in {n - 1, 1} : \A u \in {n - 1, 1} : v >= u
        <5>1. CASE n = 1
          BY <5>1
        <5>2. CASE n > 1
          BY <3>1, <5>2
        <5>3. QED
          BY <3>1, <5>1, <5>2
      <4>2. m \in {n - 1, 1} /\ m >= 1
        BY <4>1 DEF Max
      <4>3. QED
        BY <3>1, <4>2
    <3> HIDE DEF m
    <3>3. ASSUME NEW back \in 1..n PROVE mem[Slot(blockNo - back)] = sent[at][back + 1]
      <4>1. blockNo - back \in Int
        BY <2>1, <3>1
      <4>2. Slot(blockNo - back) = Pack(program, at, blockNo - back)
        BY <2>2, <2>5, <4>1
      <4>3. QED
        BY <2>4, <3>1, <4>2
    <3>4. \A back \in {n, m} : mem[Slot(blockNo - back)] = sent[at][back + 1]
      BY <3>1, <3>2, <3>3
    <3>5. QED
      BY <2>5, <3>4 DEF n, m
  <2>6. CASE Statement.type # "long"
    <3>1. Reach(Statement) = 1
      BY <2>1, <2>2, <2>6, ReachIs
    <3>2. blockNo - 1 \in Int /\ 1 \in 1..Reach(Statement)
      BY <2>1, <3>1
    <3>3. Index = Pack(program, at, blockNo - 1)
      BY <2>2, <2>6, <3>2
    <3>4. mem[Index] = sent[at][1 + 1]
      BY <2>4, <3>2, <3>3
    <3>5. QED
      BY <2>6, <3>4
  <2>7. QED
    BY <2>5, <2>6
<1>2. IInv => CarriesInWhatWasCarriedOut
  BY <1>1 DEF CarriesInWhatWasCarriedOut
<1>3. QED
  BY <1>2, CarriesAreKept, PTL
=============================================================================
