------------------------- MODULE LineReportProofs --------------------------
(* What is printed of a file is its selected lines, for files of any length: *)
(* the breaks that the program finds among the bytes are where the lines of  *)
(* characters end, and a report goes from one to the next.                   *)
EXTENDS LineReport, ProofFacts, FiniteSetTheorems, SequenceTheorems, TLAPS

-----------------------------------------------------------------------------
(* Sequences, one after another.                                            *)

LEMMA FlattenIsLast ==
  ASSUME NEW s, NEW n \in Nat \ {0}, Len(s) = n, NEW f, Concatenations(s, n, f)
  PROVE  FlattenSeq(s) = f[n]
<1> DEFINE g == CHOOSE h : h = [i \in 1..n |-> IF i = 1 THEN s[i] ELSE h[i - 1] \o s[i]]
<1>1. FlattenSeq(s) = g[n]
  BY DEF FlattenSeq
<1>2. Concatenations(s, n, g)
  BY DEF Concatenations
<1> HIDE DEF g
<1>3. QED
  BY <1>1, <1>2, ConcatenationsAgree

\* With one more element, what they give together grows by it.
LEMMA FlattenGrows ==
  ASSUME NEW n \in Nat \ {0}, NEW s, NEW u, Len(s) = n, Len(u) = n + 1, \A i \in 1..n : s[i] = u[i]
  PROVE  /\ FlattenSeq(u) = FlattenSeq(s) \o u[n + 1]
         /\ \E g : Concatenations(u, n + 1, g) /\ FlattenSeq(u) = g[n + 1]
<1>1. PICK f, g : Concatenations(s, n, f) /\ Concatenations(u, n + 1, g)
  <2>1. n \in Nat /\ n + 1 \in Nat
    OBVIOUS
  <2>2. QED
    BY <2>1, ConcatenationsExist
<1>2. FlattenSeq(u) = g[n + 1]
  <2>1. n + 1 \in Nat \ {0}
    OBVIOUS
  <2>2. QED
    BY <1>1, <2>1, FlattenIsLast
<1>3. FlattenSeq(s) = f[n]
  BY <1>1, FlattenIsLast
<1>4. f[n] = g[n]
  BY <1>1, ConcatenationsAgree
<1>5. g[n + 1] = g[n] \o u[n + 1]
  <2>1. n + 1 \in 1..n + 1 /\ n + 1 # 1 /\ (n + 1) - 1 = n
    OBVIOUS
  <2>2. g[n + 1] = IF n + 1 = 1 THEN u[n + 1] ELSE g[(n + 1) - 1] \o u[n + 1]
    BY <1>1, <2>1 DEF Concatenations
  <2>3. QED
    BY <2>1, <2>2
<1>6. QED
  BY <1>1, <1>2, <1>3, <1>4, <1>5

\* Of sequences over S they give one.
LEMMA FlattenMore ==
  ASSUME NEW S, NEW n \in Nat, NEW u, Len(u) = n + 1, \A i \in 1..n + 1 : u[i] \in Seq(S)
  PROVE  /\ FlattenSeq(u) = FlattenSeq([i \in 1..n |-> u[i]]) \o u[n + 1]
         /\ FlattenSeq(u) \in Seq(S)
<1> DEFINE s == [i \in 1..n |-> u[i]]
<1>1. Len(s) = n /\ \A i \in 1..n : s[i] = u[i]
  OBVIOUS
<1>2. n = 0 => s = << >>
  OBVIOUS
<1> HIDE DEF s
<1>3. PICK g : Concatenations(u, n + 1, g) /\ FlattenSeq(u) = g[n + 1]
  <2>1. n + 1 \in Nat \ {0} /\ n + 1 \in Nat
    OBVIOUS
  <2>2. QED
    BY <2>1, ConcatenationsExist, FlattenIsLast
<1>4. \A i \in 1..n + 1 : g[i] = IF i = 1 THEN u[i] ELSE g[i - 1] \o u[i]
  BY <1>3 DEF Concatenations
<1>5. FlattenSeq(u) = FlattenSeq(s) \o u[n + 1]
  <2>1. CASE n = 0
    <3>1. FlattenSeq(s) = << >>
      <4>1. Len(s) = 0
        BY <1>1, <2>1
      <4>2. QED
        BY <1>2, <2>1, <4>1 DEF FlattenSeq
    <3>2. u[1] \in Seq(S) /\ g[1] = u[1] /\ n + 1 = 1
      BY <1>4, <2>1
    <3>3. << >> \o u[1] = u[1]
      BY <3>2, ConcatEmptySeq
    <3>4. QED
      BY <1>3, <3>1, <3>2, <3>3
  <2>2. CASE n # 0
    BY <1>1, <2>2, FlattenGrows
  <2>3. QED
    BY <2>1, <2>2
<1>6. FlattenSeq(u) \in Seq(S)
  <2> DEFINE T == {i \in 1..n + 1 : g[i] \notin Seq(S)}
  <2>1. SUFFICES ASSUME T # {} PROVE FALSE
    <3>1. n + 1 \in 1..n + 1
      OBVIOUS
    <3>2. QED
      BY <1>3, <3>1
  <2>2. PICK i \in T : \A k \in T : i <= k
    <3>1. T \subseteq Nat
      OBVIOUS
    <3> HIDE DEF T
    <3>2. QED
      BY <2>1, <3>1, LeastNatural
  <2>3. i \in 1..n + 1 /\ g[i] \notin Seq(S) /\ u[i] \in Seq(S)
    BY <2>2
  <2>4. i # 1
    BY <1>4, <2>3
  <2>5. i - 1 \in 1..n + 1 /\ i - 1 < i
    BY <2>3, <2>4
  <2>6. g[i - 1] \in Seq(S)
    BY <2>2, <2>5
  <2>7. g[i] = g[i - 1] \o u[i]
    BY <1>4, <2>3, <2>4
  <2>8. g[i - 1] \o u[i] \in Seq(S)
    BY <2>3, <2>6, ConcatProperties
  <2>9. QED
    BY <2>3, <2>7, <2>8
<1>7. QED
  BY <1>5, <1>6 DEF s

-----------------------------------------------------------------------------
(* Characters and their bytes.                                              *)

Byte == UNION {Range(Encoding[c]) : c \in Chars}

Width(c) == Len(Encoding[c])

\* Which byte tells which character.
LEMMA EncodingIs ==
  ASSUME NEW c \in Chars
  PROVE  /\ Encoding[c] \in Seq(Byte) /\ Width(c) \in 1..3
         /\ \A k \in 1..Width(c) :
              /\ Encoding[c][k] = "0A" <=> c = "lf"
              /\ Encoding[c][k] = "0B" <=> c = "vt"
              /\ Encoding[c][k] = "0D" <=> c = "cr"
              /\ Encoding[c][k] = "85" <=> c \in {"nel", "aring"} /\ k = 2
              /\ Encoding[c][k] = "C2" <=> c = "nel" /\ k = 1
              /\ Encoding[c][k] = "A8" <=> c \in {"ls", "u1028"} /\ k = 3
              /\ Encoding[c][k] = "80" <=> c \in {"ls", "u1028"} /\ k = 2
              /\ Encoding[c][k] = "E2" <=> c = "ls" /\ k = 1
              /\ Encoding[c][k] # "00"
         /\ c \in {"lf", "vt", "cr"} => Width(c) = 1
         /\ c \in {"nel", "aring"} => Width(c) = 2
         /\ c \in {"ls", "u1028"} => Width(c) = 3
<1>1. DOMAIN Encoding = {"x", "lf", "vt", "cr", "nel", "ls", "aring", "u1028"}
  BY DEF Encoding
<1>2. c \in DOMAIN Encoding
  BY CharsAssumption
<1>3. /\ Encoding["x"] = <<"x">> /\ Encoding["lf"] = <<"0A">> /\ Encoding["vt"] = <<"0B">>
      /\ Encoding["cr"] = <<"0D">> /\ Encoding["nel"] = <<"C2", "85">>
      /\ Encoding["ls"] = <<"E2", "80", "A8">> /\ Encoding["aring"] = <<"C3", "85">>
      /\ Encoding["u1028"] = <<"E1", "80", "A8">>
  BY DEF Encoding
<1>4. \A k \in DOMAIN Encoding[c] : Encoding[c][k] \in Byte
  BY DEF Byte, Range
<1> HIDE DEF Encoding
<1>5. CASE c = "x"
  <2>1. Encoding[c] = <<"x">>
    BY <1>3, <1>5
  <2>2. QED
    BY <1>4, <1>5, <2>1 DEF Width
<1>6. CASE c = "lf"
  <2>1. Encoding[c] = <<"0A">>
    BY <1>3, <1>6
  <2>2. QED
    BY <1>4, <1>6, <2>1 DEF Width
<1>7. CASE c = "vt"
  <2>1. Encoding[c] = <<"0B">>
    BY <1>3, <1>7
  <2>2. QED
    BY <1>4, <1>7, <2>1 DEF Width
<1>8. CASE c = "cr"
  <2>1. Encoding[c] = <<"0D">>
    BY <1>3, <1>8
  <2>2. QED
    BY <1>4, <1>8, <2>1 DEF Width
<1>9. CASE c = "nel"
  <2>1. Encoding[c] = <<"C2", "85">>
    BY <1>3, <1>9
  <2>2. QED
    BY <1>4, <1>9, <2>1 DEF Width
<1>10. CASE c = "ls"
  <2>1. Encoding[c] = <<"E2", "80", "A8">>
    BY <1>3, <1>10
  <2>2. QED
    BY <1>4, <1>10, <2>1 DEF Width
<1>11. CASE c = "aring"
  <2>1. Encoding[c] = <<"C3", "85">>
    BY <1>3, <1>11
  <2>2. QED
    BY <1>4, <1>11, <2>1 DEF Width
<1>12. CASE c = "u1028"
  <2>1. Encoding[c] = <<"E1", "80", "A8">>
    BY <1>3, <1>12
  <2>2. QED
    BY <1>4, <1>12, <2>1 DEF Width
<1>13. QED
  BY <1>1, <1>2, <1>5, <1>6, <1>7, <1>8, <1>9, <1>10, <1>11, <1>12

\* The bytes of a part of a sequence of characters, with one character more.
LEMMA BytesGrow ==
  ASSUME NEW cs \in Seq(Chars), NEW i \in 1..Len(cs), NEW a \in 1..i
  PROVE  /\ Bytes(SubSeq(cs, a, i)) = Bytes(SubSeq(cs, a, i - 1)) \o Encoding[cs[i]]
         /\ Bytes(SubSeq(cs, a, i)) \in Seq(Byte)
<1> DEFINE n == i - a
           t == SubSeq(cs, a, i)
           r == SubSeq(cs, a, i - 1)
           u == [k \in 1..Len(t) |-> Encoding[t[k]]]
<1>1. /\ Len(t) = n + 1 /\ \A k \in 1..n + 1 : t[k] = cs[a + k - 1] /\ t[k] \in Chars
      /\ n \in Nat
  <2>1. \A k \in a..i : cs[k] \in Chars
    OBVIOUS
  <2>2. \A k \in 1..n + 1 : a + k - 1 \in a..i
    OBVIOUS
  <2>3. /\ Len(t) = IF a <= i THEN i - a + 1 ELSE 0
        /\ \A k \in 1..i - a + 1 : t[k] = cs[a + k - 1]
    BY <2>1, SubSeqProperties
  <2>4. QED
    BY <2>1, <2>2, <2>3
<1>2. Len(r) = n /\ \A k \in 1..n : r[k] = cs[a + k - 1]
  <2>1. \A k \in a..i - 1 : cs[k] \in Chars
    OBVIOUS
  <2>2. /\ Len(r) = IF a <= i - 1 THEN (i - 1) - a + 1 ELSE 0
        /\ \A k \in 1..(i - 1) - a + 1 : r[k] = cs[a + k - 1]
    BY <2>1, SubSeqProperties
  <2>3. QED
    BY <2>2
<1>3. a + (n + 1) - 1 = i
  OBVIOUS
<1> HIDE DEF t, r, n
<1>4. Len(u) = n + 1 /\ \A k \in 1..n + 1 : u[k] = Encoding[t[k]] /\ u[k] \in Seq(Byte)
  BY <1>1, EncodingIs
<1>5. u[n + 1] = Encoding[cs[i]]
  BY <1>1, <1>3, <1>4
<1>6. [k \in 1..n |-> u[k]] = [k \in 1..Len(r) |-> Encoding[r[k]]]
  BY <1>1, <1>2, <1>4
<1>7. Bytes(t) = FlattenSeq(u) /\ Bytes(r) = FlattenSeq([k \in 1..n |-> u[k]])
  BY <1>6 DEF Bytes
<1> HIDE DEF u
<1>8. FlattenSeq(u) = FlattenSeq([k \in 1..n |-> u[k]]) \o u[n + 1] /\ FlattenSeq(u) \in Seq(Byte)
  BY <1>1, <1>4, FlattenMore
<1>9. QED
  BY <1>5, <1>7, <1>8 DEF t, r

LEMMA BytesStart ==
  ASSUME NEW cs, NEW a \in Int
  PROVE  Bytes(SubSeq(cs, a, a - 1)) = << >>
<1>1. SubSeq(cs, a, a - 1) = << >>
  BY SubSeqEmpty
<1>2. [k \in 1..Len(<< >>) |-> Encoding[<< >>[k]]] = << >>
  OBVIOUS
<1>3. FlattenSeq(<< >>) = << >>
  BY DEF FlattenSeq
<1>4. QED
  BY <1>1, <1>2, <1>3 DEF Bytes

\* The bytes of the first i characters, and how many they are.
Upto(cs, i) == Bytes(SubSeq(cs, 1, i))
End(cs, i) == Len(Upto(cs, i))

LEMMA EndsAre ==
  ASSUME NEW cs \in Seq(Chars)
  PROVE  /\ Upto(cs, 0) = << >> /\ End(cs, 0) = 0
         /\ \A i \in 0..Len(cs) : Upto(cs, i) \in Seq(Byte) /\ End(cs, i) \in Nat
         /\ \A i \in 1..Len(cs) : /\ Upto(cs, i) = Upto(cs, i - 1) \o Encoding[cs[i]]
                                  /\ End(cs, i) = End(cs, i - 1) + Width(cs[i])
                                  /\ cs[i] \in Chars /\ Width(cs[i]) \in 1..3
         /\ Upto(cs, Len(cs)) = Bytes(cs)
<1>1. Upto(cs, 0) = << >>
  <2>1. 1 \in Int /\ 1 - 1 = 0
    OBVIOUS
  <2>2. QED
    BY <2>1, BytesStart DEF Upto
<1>2. \A i \in 0..Len(cs) : Upto(cs, i) \in Seq(Byte)
  <2>1. ASSUME NEW i \in 1..Len(cs) PROVE Upto(cs, i) \in Seq(Byte)
    <3>1. 1 \in 1..i
      OBVIOUS
    <3>2. QED
      BY <3>1, BytesGrow DEF Upto
  <2>2. << >> \in Seq(Byte)
    OBVIOUS
  <2>3. \A i \in 0..Len(cs) : i = 0 \/ i \in 1..Len(cs)
    OBVIOUS
  <2>4. QED
    BY <1>1, <2>1, <2>2, <2>3
<1>3. \A i \in 0..Len(cs) : End(cs, i) \in Nat
  BY <1>2 DEF End
<1>4. ASSUME NEW i \in 1..Len(cs)
      PROVE  /\ Upto(cs, i) = Upto(cs, i - 1) \o Encoding[cs[i]]
             /\ End(cs, i) = End(cs, i - 1) + Width(cs[i])
             /\ cs[i] \in Chars /\ Width(cs[i]) \in 1..3
  <2>1. cs[i] \in Chars /\ 1 \in 1..i /\ i - 1 \in 0..Len(cs)
    OBVIOUS
  <2>2. Upto(cs, i) = Upto(cs, i - 1) \o Encoding[cs[i]]
    BY <2>1, BytesGrow DEF Upto
  <2>3. Upto(cs, i - 1) \in Seq(Byte) /\ Encoding[cs[i]] \in Seq(Byte) /\ Width(cs[i]) \in 1..3
    BY <1>2, <2>1, EncodingIs
  <2>4. Len(Upto(cs, i)) = Len(Upto(cs, i - 1)) + Len(Encoding[cs[i]])
    BY <2>2, <2>3, ConcatProperties
  <2>5. QED
    BY <2>1, <2>2, <2>3, <2>4 DEF End, Width
<1>5. Upto(cs, Len(cs)) = Bytes(cs)
  BY SubSeqFull DEF Upto
<1>6. End(cs, 0) = 0
  BY <1>1 DEF End
<1>7. QED
  BY <1>1, <1>2, <1>3, <1>4, <1>5, <1>6


LEMMA EndsIncrease ==
  ASSUME NEW cs \in Seq(Chars), NEW a \in 0..Len(cs), NEW b \in a..Len(cs)
  PROVE  /\ End(cs, a) <= End(cs, b)
         /\ a < b => End(cs, a) < End(cs, b)
         /\ \A q \in 1..End(cs, a) : Upto(cs, b)[q] = Upto(cs, a)[q]
<1> DEFINE Holds(i) == /\ End(cs, a) <= End(cs, i)
                       /\ a < i => End(cs, a) < End(cs, i)
                       /\ \A q \in 1..End(cs, a) : Upto(cs, i)[q] = Upto(cs, a)[q]
           T == {i \in a..Len(cs) : ~Holds(i)}
<1>1. SUFFICES ASSUME T # {} PROVE FALSE
  OBVIOUS
<1>2. PICK i \in T : \A k \in T : i <= k
  <2>1. T \subseteq Nat
    OBVIOUS
  <2> HIDE DEF T
  <2>2. QED
    BY <1>1, <2>1, LeastNatural
<1>3. i \in a..Len(cs) /\ ~Holds(i) /\ i \in 0..Len(cs) /\ i \in Nat
  BY <1>2
<1>4. CASE i = a
  <2>1. End(cs, a) \in Nat
    BY EndsAre
  <2>2. QED
    BY <1>3, <1>4, <2>1
<1>5. CASE i # a
  <2>1. i - 1 \in a..Len(cs) /\ i - 1 < i /\ i \in 1..Len(cs) /\ i - 1 \in 0..Len(cs)
    BY <1>3, <1>5
  <2>2. Holds(i - 1)
    BY <1>2, <2>1
  <2>3. /\ Upto(cs, i) = Upto(cs, i - 1) \o Encoding[cs[i]]
        /\ End(cs, i) = End(cs, i - 1) + Width(cs[i]) /\ Width(cs[i]) \in 1..3
        /\ Upto(cs, i - 1) \in Seq(Byte) /\ cs[i] \in Chars
    BY <2>1, EndsAre
  <2>4. End(cs, i - 1) \in Nat /\ End(cs, a) \in Nat /\ End(cs, i) \in Nat
    BY <1>3, <2>1, EndsAre
  <2>5. Encoding[cs[i]] \in Seq(Byte)
    BY <2>3, EncodingIs
  <2>6. \A q \in 1..End(cs, i - 1) : Upto(cs, i)[q] = Upto(cs, i - 1)[q]
    BY <2>3, <2>5, <2>4, ConcatProperties DEF End
  <2> HIDE DEF T
  <2>7. End(cs, a) < End(cs, i)
    BY <2>2, <2>3, <2>4
  <2>8. \A q \in 1..End(cs, a) : Upto(cs, i)[q] = Upto(cs, a)[q]
    <3>1. \A q \in 1..End(cs, a) : q \in 1..End(cs, i - 1)
      BY <2>2, <2>3, <2>4
    <3>2. QED
      BY <2>2, <2>6, <3>1
  <2>9. End(cs, a) <= End(cs, i)
    BY <2>7, <2>4
  <2>10. QED
    BY <1>3, <2>7, <2>8, <2>9
<1>6. QED
  BY <1>4, <1>5

\* Where the bytes of character number i are.
LEMMA BytesOfCharacter ==
  ASSUME NEW cs \in Seq(Chars), NEW i \in 1..Len(cs), NEW k \in 1..Width(cs[i])
  PROVE  /\ Bytes(cs)[End(cs, i - 1) + k] = Encoding[cs[i]][k]
         /\ End(cs, i - 1) + k \in 1..Len(Bytes(cs))
<1>1. /\ Upto(cs, i) = Upto(cs, i - 1) \o Encoding[cs[i]]
      /\ End(cs, i) = End(cs, i - 1) + Width(cs[i])
      /\ cs[i] \in Chars /\ Width(cs[i]) \in 1..3
      /\ Upto(cs, i - 1) \in Seq(Byte)
      /\ End(cs, i - 1) \in Nat /\ End(cs, i) \in Nat
      /\ Bytes(cs) = Upto(cs, Len(cs)) /\ End(cs, Len(cs)) = Len(Bytes(cs))
      /\ End(cs, Len(cs)) \in Nat
  <2>1. i - 1 \in 0..Len(cs) /\ i \in 0..Len(cs) /\ Len(cs) \in 0..Len(cs)
    OBVIOUS
  <2>2. QED
    BY <2>1, EndsAre DEF End
<1>2. Encoding[cs[i]] \in Seq(Byte)
  BY <1>1, EncodingIs
<1>3. Upto(cs, i)[End(cs, i - 1) + k] = Encoding[cs[i]][k]
  <2>1. \A q \in 1..Len(Upto(cs, i - 1)) + Len(Encoding[cs[i]]) : q > Len(Upto(cs, i - 1)) =>
          (Upto(cs, i - 1) \o Encoding[cs[i]])[q] = Encoding[cs[i]][q - Len(Upto(cs, i - 1))]
    BY <1>1, <1>2, ConcatProperties
  <2>2. Len(Upto(cs, i - 1)) = End(cs, i - 1) /\ Len(Encoding[cs[i]]) = Width(cs[i])
    BY DEF End, Width
  <2>3. (End(cs, i - 1) + k) - End(cs, i - 1) = k
    BY <1>1
  <2>4. End(cs, i - 1) + k \in 1..End(cs, i - 1) + Width(cs[i]) /\ End(cs, i - 1) + k > End(cs, i - 1)
    BY <1>1
  <2>5. QED
    BY <1>1, <2>1, <2>2, <2>3, <2>4
<1>4. End(cs, i) <= End(cs, Len(cs)) /\ \A q \in 1..End(cs, i) : Bytes(cs)[q] = Upto(cs, i)[q]
  <2>1. i \in 0..Len(cs) /\ Len(cs) \in i..Len(cs)
    OBVIOUS
  <2>2. QED
    BY <1>1, <2>1, EndsIncrease
<1>5. End(cs, i - 1) + k \in 1..End(cs, i)
  BY <1>1
<1>6. Bytes(cs)[End(cs, i - 1) + k] = Encoding[cs[i]][k]
  BY <1>3, <1>4, <1>5
<1>7. End(cs, i - 1) + k \in 1..End(cs, Len(cs))
  BY <1>1, <1>4, <1>5
<1>8. QED
  BY <1>1, <1>6, <1>7

\* Every byte belongs to a character.
LEMMA CharacterOfByte ==
  ASSUME NEW cs \in Seq(Chars), NEW q \in 1..Len(Bytes(cs))
  PROVE  \E i \in 1..Len(cs) : \E k \in 1..Width(cs[i]) : q = End(cs, i - 1) + k
<1> DEFINE T == {i \in 0..Len(cs) : q <= End(cs, i)}
<1>1. q \in Nat /\ q >= 1 /\ q <= Len(Bytes(cs))
  OBVIOUS
<1>2. Len(cs) \in T
  <2>1. Len(cs) \in 0..Len(cs)
    OBVIOUS
  <2>2. Upto(cs, Len(cs)) = Bytes(cs)
    BY EndsAre
  <2>3. End(cs, Len(cs)) = Len(Bytes(cs))
    BY <2>2 DEF End
  <2>4. QED
    BY <1>1, <2>1, <2>3
<1>3. PICK i \in T : \A k \in T : i <= k
  <2>1. T \subseteq Nat /\ T # {}
    BY <1>2
  <2> HIDE DEF T
  <2>2. QED
    BY <2>1, LeastNatural
<1>4. i # 0
  <2>1. End(cs, 0) = 0 /\ q <= End(cs, i)
    BY <1>3, EndsAre
  <2>2. QED
    BY <1>1, <2>1
<1>5. i \in 1..Len(cs) /\ i - 1 \in 0..Len(cs) /\ i - 1 < i /\ i \in 0..Len(cs)
  BY <1>3, <1>4
<1>6. ~(q <= End(cs, i - 1)) /\ q <= End(cs, i)
  BY <1>3, <1>5
<1>7. End(cs, i - 1) \in Nat /\ End(cs, i) = End(cs, i - 1) + Width(cs[i]) /\ Width(cs[i]) \in 1..3
  BY <1>5, EndsAre
<1>8. q - End(cs, i - 1) \in 1..Width(cs[i]) /\ q = End(cs, i - 1) + (q - End(cs, i - 1))
  BY <1>1, <1>6, <1>7
<1>9. QED
  BY <1>5, <1>8

\* The bytes between the ends of two characters are those of the characters between them.
LEMMA BytesOfPart ==
  ASSUME NEW cs \in Seq(Chars), NEW a \in 0..Len(cs), NEW b \in a..Len(cs)
  PROVE  SubSeq(Bytes(cs), End(cs, a) + 1, End(cs, b)) = Bytes(SubSeq(cs, a + 1, b))
<1> DEFINE Holds(i) == SubSeq(Bytes(cs), End(cs, a) + 1, End(cs, i)) = Bytes(SubSeq(cs, a + 1, i))
           T == {i \in a..Len(cs) : ~Holds(i)}
<1>1. SUFFICES ASSUME T # {} PROVE FALSE
  OBVIOUS
<1>2. PICK i \in T : \A k \in T : i <= k
  <2>1. T \subseteq Nat
    OBVIOUS
  <2> HIDE DEF T
  <2>2. QED
    BY <1>1, <2>1, LeastNatural
<1>3. i \in a..Len(cs) /\ ~Holds(i) /\ i \in 0..Len(cs) /\ i \in Nat /\ a \in Nat
  BY <1>2
<1> DEFINE B == Bytes(cs)
<1>4. B \in Seq(Byte) /\ Len(B) = End(cs, Len(cs)) /\ End(cs, a) \in Nat /\ End(cs, a) <= Len(B)
  <2>1. Len(cs) \in 0..Len(cs) /\ Len(cs) \in a..Len(cs)
    OBVIOUS
  <2>2. Upto(cs, Len(cs)) = B /\ Upto(cs, Len(cs)) \in Seq(Byte)
    BY <2>1, EndsAre
  <2>3. Len(B) = End(cs, Len(cs))
    BY <2>2 DEF End
  <2>4. End(cs, a) \in Nat
    BY EndsAre
  <2>5. End(cs, a) <= End(cs, Len(cs))
    BY <2>1, EndsIncrease
  <2>6. QED
    BY <2>2, <2>3, <2>4, <2>5
<1>5. CASE i = a
  <2>1. SubSeq(B, End(cs, a) + 1, End(cs, a)) = << >>
    BY <1>4, SubSeqEmpty
  <2>2. Bytes(SubSeq(cs, a + 1, a)) = << >>
    <3>1. a + 1 \in Int /\ (a + 1) - 1 = a
      BY <1>3
    <3>2. QED
      BY <3>1, BytesStart
  <2>3. QED
    BY <1>3, <1>5, <2>1, <2>2
<1>6. CASE i # a
  <2>1. /\ i - 1 \in a..Len(cs) /\ i - 1 < i /\ i \in 1..Len(cs) /\ i - 1 \in 0..Len(cs)
        /\ a + 1 \in 1..i /\ a \in 0..Len(cs) /\ i - 1 \in 0..i - 1 /\ i \in i - 1..Len(cs)
    BY <1>3, <1>6
  <2>2. Holds(i - 1)
    BY <1>2, <2>1
  <2>3. Bytes(SubSeq(cs, a + 1, i)) = Bytes(SubSeq(cs, a + 1, i - 1)) \o Encoding[cs[i]]
    BY <2>1, BytesGrow
  <2>4. /\ End(cs, i) = End(cs, i - 1) + Width(cs[i]) /\ Width(cs[i]) \in 1..3
        /\ cs[i] \in Chars
    BY <2>1, EndsAre
  <2>5. End(cs, i) \in Nat /\ End(cs, i - 1) \in Nat
    BY <1>3, <2>1, EndsAre
  <2>6. End(cs, a) <= End(cs, i - 1)
    BY <2>1, EndsIncrease
  <2>7. End(cs, i) <= Len(B)
    <3>1. Len(cs) \in i..Len(cs)
      BY <1>3
    <3>2. End(cs, i) <= End(cs, Len(cs))
      BY <1>3, <3>1, EndsIncrease
    <3>3. QED
      BY <1>4, <3>2
  <2>8. SubSeq(B, End(cs, i - 1) + 1, End(cs, i)) = Encoding[cs[i]]
    <3> DEFINE e == End(cs, i - 1)
               w == Width(cs[i])
               t == SubSeq(B, e + 1, e + w)
    <3>1. \A k \in 1..w : B[e + k] = Encoding[cs[i]][k]
      BY <2>1, BytesOfCharacter
    <3>2. Encoding[cs[i]] \in Seq(Byte) /\ Len(Encoding[cs[i]]) = w
      BY <2>4, EncodingIs DEF Width
    <3>3. e \in Nat /\ w \in 1..3 /\ e + w <= Len(B)
      BY <2>4, <2>5, <2>7
    <3>4. \A k \in e + 1..e + w : B[k] \in Byte
      <4> HIDE DEF e, w, t, B
      <4>1. QED
        BY <1>4, <3>3
    <3>5. /\ t \in Seq(Byte) /\ Len(t) = IF e + 1 <= e + w THEN (e + w) - (e + 1) + 1 ELSE 0
          /\ \A k \in 1..(e + w) - (e + 1) + 1 : t[k] = B[e + 1 + k - 1]
      <4> HIDE DEF e, w, B
      <4>1. e + 1 \in Int /\ e + w \in Int
        BY <3>3
      <4>2. SubSeq(B, e + 1, e + w) \in Seq(Byte)
        BY <3>4, <4>1, SubSeqProperties
      <4>3. /\ Len(SubSeq(B, e + 1, e + w)) = IF e + 1 <= e + w THEN (e + w) - (e + 1) + 1 ELSE 0
            /\ \A k \in 1..(e + w) - (e + 1) + 1 : SubSeq(B, e + 1, e + w)[k] = B[e + 1 + k - 1]
        BY <3>4, <4>1, SubSeqProperties
      <4>4. QED
        BY <4>2, <4>3
    <3> HIDE DEF e, w, t, B
    <3>6. Len(t) = w /\ \A k \in 1..w : t[k] = B[e + k]
      <4>1. (e + w) - (e + 1) + 1 = w /\ e + 1 <= e + w /\ \A k \in 1..w : e + 1 + k - 1 = e + k
        BY <3>3
      <4>2. QED
        BY <3>5, <4>1
    <3> DEFINE u == Encoding[cs[i]]
    <3> HIDE DEF u
    <3>7. t = u
      <4>1. u \in Seq(Byte) /\ Len(u) = w /\ \A k \in 1..w : B[e + k] = u[k]
        BY <3>1, <3>2 DEF u
      <4>2. t \in Seq(Byte) /\ Len(t) = Len(u) /\ \A k \in 1..Len(t) : t[k] = u[k]
        BY <3>5, <3>6, <4>1
      <4>3. QED
        BY <4>1, <4>2, SeqEqual
    <3>8. QED
      BY <2>4, <3>7 DEF e, w, t, u
  <2>9. SubSeq(B, End(cs, a) + 1, End(cs, i - 1)) \o SubSeq(B, End(cs, i - 1) + 1, End(cs, i))
          = SubSeq(B, End(cs, a) + 1, End(cs, i))
    <3> DEFINE m == End(cs, a) + 1
               k == End(cs, i - 1)
               n == End(cs, i)
           l == Len(B)
    <3>1. m \in 1..l + 1 /\ k \in m - 1..l /\ n \in k..l
      <4>1. l \in Nat
        BY <1>4
      <4>2. n = k + Width(cs[i]) /\ Width(cs[i]) \in 1..3 /\ n \in Nat /\ k \in Nat
        BY <2>4, <2>5
      <4>3. m = End(cs, a) + 1 /\ End(cs, a) \in Nat /\ End(cs, a) <= k /\ n <= l /\ End(cs, a) <= l
        BY <1>4, <2>6, <2>7
      <4> HIDE DEF m, k, n, l, B
      <4>4. m \in 1..l + 1
        BY <4>1, <4>3
      <4>5. k \in m - 1..l
        BY <4>1, <4>2, <4>3
      <4>6. n \in k..l
        BY <4>1, <4>2, <4>3
      <4>7. QED
        BY <4>4, <4>5, <4>6
    <3> HIDE DEF m, k, n, B
    <3>2. SubSeq(B, m, k) \o SubSeq(B, k + 1, n) = SubSeq(B, m, n)
      BY <1>4, <3>1, ConcatAdjacentSubSeq DEF l
    <3>3. QED
      BY <3>2 DEF m, k, n
  <2>10. QED
    BY <1>3, <2>2, <2>3, <2>8, <2>9
<1>7. QED
  BY <1>5, <1>6

-----------------------------------------------------------------------------
(* The streams, in terms of the characters.                                 *)

File ==
  /\ chars \in Seq(Chars) /\ Len(chars) \in Nat \ {0}
  /\ buffer = Bytes(chars)

\* Where character number i ends.
E(i) == End(chars, i)

LEMMA EndsOfFile ==
  ASSUME File
  PROVE  /\ E(0) = 0 /\ filesize = E(Len(chars)) /\ Len(chars) \in Nat \ {0}
         /\ \A i \in 0..Len(chars) : E(i) \in Nat /\ E(i) <= filesize
         /\ \A i \in 1..Len(chars) : /\ E(i) = E(i - 1) + Width(chars[i]) /\ Width(chars[i]) \in 1..3
                                     /\ chars[i] \in Chars /\ E(i) >= 1
         /\ \A i, j \in 0..Len(chars) : i < j => E(i) < E(j)
         /\ \A i, j \in 0..Len(chars) : E(i) = E(j) => i = j
<1>1. chars \in Seq(Chars) /\ Len(chars) \in Nat \ {0} /\ buffer = Bytes(chars)
  BY DEF File
<1>2. E(0) = 0
  BY <1>1, EndsAre DEF E
<1>3. \A i \in 0..Len(chars) : E(i) \in Nat
  BY <1>1, EndsAre DEF E
<1>4. filesize = E(Len(chars))
  <2>1. Upto(chars, Len(chars)) = Bytes(chars)
    BY <1>1, EndsAre
  <2>2. QED
    BY <1>1, <2>1 DEF E, End, filesize
<1>5. \A i, j \in 0..Len(chars) : i < j => E(i) < E(j)
  <2>1. ASSUME NEW i \in 0..Len(chars), NEW j \in 0..Len(chars), i < j PROVE E(i) < E(j)
    <3>1. j \in i..Len(chars)
      BY <1>1, <2>1
    <3>2. QED
      BY <1>1, <2>1, <3>1, EndsIncrease DEF E
  <2>2. QED
    BY <2>1
<1>6. \A i \in 0..Len(chars) : E(i) <= filesize
  BY <1>1, <1>3, <1>4, <1>5
<1>7. \A i, j \in 0..Len(chars) : E(i) = E(j) => i = j
  BY <1>1, <1>3, <1>5
<1>8. ASSUME NEW i \in 1..Len(chars)
      PROVE  /\ E(i) = E(i - 1) + Width(chars[i]) /\ Width(chars[i]) \in 1..3
             /\ chars[i] \in Chars /\ E(i) >= 1
  <2>1. End(chars, i) = End(chars, i - 1) + Width(chars[i]) /\ Width(chars[i]) \in 1..3 /\ chars[i] \in Chars
    BY <1>1, EndsAre
  <2>2. i - 1 \in 0..Len(chars)
    OBVIOUS
  <2>3. E(i - 1) \in Nat
    BY <1>3, <2>2
  <2>4. QED
    BY <2>1, <2>3 DEF E
<1>9. QED
  BY <1>1, <1>2, <1>3, <1>4, <1>5, <1>6, <1>7, <1>8

LEMMA BytesOfFile ==
  ASSUME File
  PROVE  /\ \A i \in 1..Len(chars) : \A k \in 1..Width(chars[i]) :
              /\ E(i - 1) + k - 1 \in 0..filesize - 1
              /\ ByteAt(E(i - 1) + k - 1) = Encoding[chars[i]][k]
         /\ \A p \in 0..filesize - 1 :
              \E i \in 1..Len(chars) : \E k \in 1..Width(chars[i]) : p = E(i - 1) + k - 1
<1>1. chars \in Seq(Chars) /\ buffer = Bytes(chars) /\ filesize = Len(Bytes(chars)) /\ filesize \in Nat
  <2>1. chars \in Seq(Chars) /\ buffer = Bytes(chars)
    BY DEF File
  <2>2. filesize = E(Len(chars)) /\ Len(chars) \in 0..Len(chars)
    BY EndsOfFile
  <2>3. filesize \in Nat
    BY <2>2, EndsOfFile
  <2>4. QED
    BY <2>1, <2>3 DEF filesize
<1>2. ASSUME NEW i \in 1..Len(chars), NEW k \in 1..Width(chars[i])
      PROVE  E(i - 1) + k - 1 \in 0..filesize - 1 /\ ByteAt(E(i - 1) + k - 1) = Encoding[chars[i]][k]
  <2>1. /\ Bytes(chars)[End(chars, i - 1) + k] = Encoding[chars[i]][k]
        /\ End(chars, i - 1) + k \in 1..Len(Bytes(chars))
    BY <1>1, BytesOfCharacter
  <2>2. i - 1 \in 0..Len(chars)
    OBVIOUS
  <2>3. E(i - 1) \in Nat /\ k \in Nat
    BY <2>2, EndsOfFile
  <2>4. E(i - 1) + k - 1 \in 0..filesize - 1 /\ E(i - 1) + k - 1 + 1 = E(i - 1) + k
    BY <1>1, <2>1, <2>3 DEF E
  <2>5. QED
    BY <1>1, <2>1, <2>4 DEF E, ByteAt
<1>3. ASSUME NEW p \in 0..filesize - 1
      PROVE  \E i \in 1..Len(chars) : \E k \in 1..Width(chars[i]) : p = E(i - 1) + k - 1
  <2>1. p + 1 \in 1..Len(Bytes(chars))
    BY <1>1
  <2>2. PICK i \in 1..Len(chars) : \E k \in 1..Width(chars[i]) : p + 1 = End(chars, i - 1) + k
    BY <1>1, <2>1, CharacterOfByte
  <2>3. PICK k \in 1..Width(chars[i]) : p + 1 = End(chars, i - 1) + k
    BY <2>2
  <2>4. i - 1 \in 0..Len(chars)
    OBVIOUS
  <2>5. E(i - 1) \in Nat /\ k \in Nat
    BY <2>4, EndsOfFile
  <2>6. p = E(i - 1) + k - 1
    BY <2>3, <2>5 DEF E
  <2>7. QED
    BY <2>6
<1>4. QED
  BY <1>2, <1>3

Breakers == {"lf", "vt", "cr", "nel", "ls"}

\* The last byte of a character, with the ones before it, tells what ends a line.
LEMMA LastByteTells ==
  ASSUME File, NEW i \in 1..Len(chars)
  PROVE  /\ E(i) - 1 \in 0..filesize - 1 /\ E(i) - 1 \in Nat
         /\ ByteAt(E(i) - 1) = "0A" <=> chars[i] = "lf"
         /\ ByteAt(E(i) - 1) = "0B" <=> chars[i] = "vt"
         /\ ByteAt(E(i) - 1) = "0D" <=> chars[i] = "cr"
         /\ ByteAt(E(i) - 1) = "85" <=> chars[i] \in {"nel", "aring"}
         /\ ByteAt(E(i) - 1) = "A8" <=> chars[i] \in {"ls", "u1028"}
         /\ chars[i] \in {"nel", "aring"} => E(i) >= 2 /\ (ByteAt(E(i) - 2) = "C2" <=> chars[i] = "nel")
         /\ chars[i] \in {"ls", "u1028"} => /\ E(i) >= 3 /\ ByteAt(E(i) - 2) = "80"
                                            /\ ByteAt(E(i) - 3) = "E2" <=> chars[i] = "ls"
<1> DEFINE c == chars[i]
           w == Width(c)
           e == E(i - 1)
<1>1. /\ E(i) = e + w /\ w \in 1..3 /\ c \in Chars /\ e \in Nat
      /\ \A k \in 1..w : e + k - 1 \in 0..filesize - 1 /\ ByteAt(e + k - 1) = Encoding[c][k]
  <2>1. i - 1 \in 0..Len(chars)
    OBVIOUS
  <2>2. QED
    BY <2>1, EndsOfFile, BytesOfFile
<1> HIDE DEF c, w, e
<1>2. w = Width(c)
  BY DEF w
<1>3. /\ e + w - 1 = E(i) - 1 /\ w \in 1..w
      /\ w >= 2 => w - 1 \in 1..w /\ e + (w - 1) - 1 = E(i) - 2 /\ E(i) >= 2
      /\ w = 3 => 1 \in 1..w /\ e + 1 - 1 = E(i) - 3 /\ E(i) >= 3
  BY <1>1
<1>4. /\ ByteAt(E(i) - 1) = Encoding[c][w] /\ E(i) - 1 \in 0..filesize - 1
      /\ w >= 2 => ByteAt(E(i) - 2) = Encoding[c][w - 1]
      /\ w = 3 => ByteAt(E(i) - 3) = Encoding[c][1]
  <2>1. ByteAt(E(i) - 1) = Encoding[c][w] /\ E(i) - 1 \in 0..filesize - 1
    BY <1>1, <1>3
  <2>2. ASSUME w >= 2 PROVE ByteAt(E(i) - 2) = Encoding[c][w - 1]
    <3>1. w - 1 \in 1..w /\ e + (w - 1) - 1 = E(i) - 2
      BY <1>3, <2>2
    <3>2. ByteAt(e + (w - 1) - 1) = Encoding[c][w - 1]
      BY <1>1, <3>1
    <3>3. QED
      BY <3>1, <3>2
  <2>3. ASSUME w = 3 PROVE ByteAt(E(i) - 3) = Encoding[c][1]
    <3>1. 1 \in 1..w /\ e + 1 - 1 = E(i) - 3
      BY <1>3, <2>3
    <3>2. ByteAt(e + 1 - 1) = Encoding[c][1]
      BY <1>1, <3>1
    <3>3. QED
      BY <3>1, <3>2
  <2>4. QED
    BY <2>1, <2>2, <2>3
<1>5. E(i) - 1 \in Nat
  BY <1>4
<1> DEFINE F(k) == /\ Encoding[c][k] = "0A" <=> c = "lf"
                   /\ Encoding[c][k] = "0B" <=> c = "vt"
                   /\ Encoding[c][k] = "0D" <=> c = "cr"
                   /\ Encoding[c][k] = "85" <=> c \in {"nel", "aring"} /\ k = 2
                   /\ Encoding[c][k] = "C2" <=> c = "nel" /\ k = 1
                   /\ Encoding[c][k] = "A8" <=> c \in {"ls", "u1028"} /\ k = 3
                   /\ Encoding[c][k] = "80" <=> c \in {"ls", "u1028"} /\ k = 2
                   /\ Encoding[c][k] = "E2" <=> c = "ls" /\ k = 1
<1>6. (\A k \in 1..w : F(k)) /\ (c \in {"nel", "aring"} => w = 2) /\ (c \in {"ls", "u1028"} => w = 3)
  BY <1>1, <1>2, EncodingIs
<1>7. F(w)
  BY <1>3, <1>6
<1>8. /\ ByteAt(E(i) - 1) = "0A" <=> c = "lf"
      /\ ByteAt(E(i) - 1) = "0B" <=> c = "vt"
      /\ ByteAt(E(i) - 1) = "0D" <=> c = "cr"
      /\ ByteAt(E(i) - 1) = "85" <=> c \in {"nel", "aring"}
      /\ ByteAt(E(i) - 1) = "A8" <=> c \in {"ls", "u1028"}
  BY <1>4, <1>6, <1>7
<1>9. c \in {"nel", "aring"} => E(i) >= 2 /\ (ByteAt(E(i) - 2) = "C2" <=> c = "nel")
  <2>1. SUFFICES ASSUME c \in {"nel", "aring"} PROVE E(i) >= 2 /\ (ByteAt(E(i) - 2) = "C2" <=> c = "nel")
    OBVIOUS
  <2>2. w = 2 /\ 1 \in 1..w
    BY <1>6, <2>1
  <2>3. F(1)
    BY <1>6, <2>2
  <2>4. QED
    BY <1>3, <1>4, <2>1, <2>2, <2>3
<1>10. c \in {"ls", "u1028"} => /\ E(i) >= 3 /\ ByteAt(E(i) - 2) = "80"
                                /\ ByteAt(E(i) - 3) = "E2" <=> c = "ls"
  <2>1. SUFFICES ASSUME c \in {"ls", "u1028"}
                 PROVE  E(i) >= 3 /\ ByteAt(E(i) - 2) = "80" /\ (ByteAt(E(i) - 3) = "E2" <=> c = "ls")
    OBVIOUS
  <2>2. w = 3 /\ 1 \in 1..w /\ 2 \in 1..w
    BY <1>6, <2>1
  <2>3. F(1) /\ F(2)
    BY <1>6, <2>2
  <2>4. QED
    BY <1>3, <1>4, <2>1, <2>2, <2>3
<1>11. QED
  BY <1>4, <1>5, <1>8, <1>9, <1>10 DEF c

\* Only the last byte of a character can be one that the streams look for.
LEMMA LastBytesOnly ==
  ASSUME File, NEW p \in 0..filesize - 1, ByteAt(p) \in {"0A", "0B", "0D", "85", "A8"}
  PROVE  \E i \in 1..Len(chars) : p = E(i) - 1
<1>1. PICK i \in 1..Len(chars) : \E k \in 1..Width(chars[i]) : p = E(i - 1) + k - 1
  BY BytesOfFile
<1>2. PICK k \in 1..Width(chars[i]) : p = E(i - 1) + k - 1
  BY <1>1
<1> DEFINE c == chars[i]
           w == Width(c)
           e == E(i - 1)
<1>3. c \in Chars /\ w \in 1..3 /\ E(i) = e + w /\ e \in Nat /\ Encoding[c][k] = ByteAt(p)
      /\ k \in 1..w /\ p = e + k - 1
  <2>1. i - 1 \in 0..Len(chars)
    OBVIOUS
  <2>2. QED
    BY <1>2, <2>1, EndsOfFile, BytesOfFile
<1>4. /\ Encoding[c][k] = "0A" <=> c = "lf"
      /\ Encoding[c][k] = "0B" <=> c = "vt"
      /\ Encoding[c][k] = "0D" <=> c = "cr"
      /\ Encoding[c][k] = "85" <=> c \in {"nel", "aring"} /\ k = 2
      /\ Encoding[c][k] = "A8" <=> c \in {"ls", "u1028"} /\ k = 3
      /\ c \in {"lf", "vt", "cr"} => w = 1
      /\ c \in {"nel", "aring"} => w = 2
      /\ c \in {"ls", "u1028"} => w = 3
  <2>1. c \in Chars /\ k \in 1..Width(c)
    BY <1>3
  <2> HIDE DEF c
  <2>2. QED
    BY <2>1, EncodingIs
<1> HIDE DEF c, w, e
<1>5. k = w
  BY <1>3, <1>4
<1>6. p = E(i) - 1
  BY <1>3, <1>5
<1>7. QED
  BY <1>6

\* The program's test for a missing last line break is the right one.
LEMMA UnterminatedIs ==
  ASSUME File
  PROVE  finalLineIsUnterminated <=> chars[Len(chars)] \notin Breakers
<1>1. Len(chars) \in 1..Len(chars) /\ filesize = E(Len(chars))
  BY EndsOfFile
<1>2. /\ ByteAt(filesize - 1) = "0A" <=> chars[Len(chars)] = "lf"
      /\ ByteAt(filesize - 1) = "0B" <=> chars[Len(chars)] = "vt"
      /\ ByteAt(filesize - 1) = "0D" <=> chars[Len(chars)] = "cr"
      /\ ByteAt(filesize - 1) = "85" <=> chars[Len(chars)] \in {"nel", "aring"}
      /\ ByteAt(filesize - 1) = "A8" <=> chars[Len(chars)] \in {"ls", "u1028"}
      /\ chars[Len(chars)] \in {"nel", "aring"} => (ByteAt(filesize - 2) = "C2" <=> chars[Len(chars)] = "nel")
      /\ chars[Len(chars)] \in {"ls", "u1028"} =>
           ByteAt(filesize - 2) = "80" /\ (ByteAt(filesize - 3) = "E2" <=> chars[Len(chars)] = "ls")
  BY <1>1, LastByteTells
<1> DEFINE c == chars[Len(chars)]
<1>3. finalLineIsUnterminated <=> c \notin Breakers
  <2> HIDE DEF c
  <2>1. CASE c \in {"nel", "aring"}
    BY <1>2, <2>1 DEF c, finalLineIsUnterminated, Breakers
  <2>2. CASE c \in {"ls", "u1028"}
    BY <1>2, <2>2 DEF c, finalLineIsUnterminated, Breakers
  <2>3. CASE c \notin {"nel", "aring", "ls", "u1028"}
    BY <1>2, <2>3 DEF c, finalLineIsUnterminated, Breakers
  <2>4. QED
    BY <2>1, <2>2, <2>3
<1>4. QED
  BY <1>3

\* The line feed of a CRLF.
Crlf(i) == i > 1 /\ chars[i] = "lf" /\ chars[i - 1] = "cr"

\* What the streams see of a character, and of the position after the last.
LEMMA StreamsSee ==
  ASSUME File
  PROVE  /\ \A i \in 1..Len(chars) :
              /\ E(i) - 1 \in LF_VT_FF_CR <=> chars[i] \in {"lf", "vt", "cr"}
              /\ E(i) - 1 \in NEL <=> chars[i] = "nel"
              /\ E(i) - 1 \in LS_PS <=> chars[i] = "ls"
              /\ E(i) - 1 \in CRLF <=> Crlf(i)
              /\ E(i) - 1 \in LF <=> chars[i] = "lf"
         /\ filesize \in LF_VT_FF_CR <=> finalLineIsUnterminated
         /\ filesize \in LF <=> finalLineIsUnterminated
         /\ filesize \notin NEL /\ filesize \notin LS_PS /\ filesize \notin CRLF
<1>1. filesize \in Nat /\ filesize = E(Len(chars)) /\ Len(chars) \in 1..Len(chars) /\ filesize >= 1
  <2>1. Len(chars) \in 1..Len(chars) /\ Len(chars) \in 0..Len(chars) /\ filesize = E(Len(chars))
    BY EndsOfFile
  <2>2. QED
    BY <2>1, EndsOfFile
<1>2. \A p \in Int : p # filesize => Input(p) = ByteAt(p)
  BY DEF Input
<1>3. ASSUME NEW i \in 1..Len(chars)
      PROVE  /\ E(i) - 1 \in LF_VT_FF_CR <=> chars[i] \in {"lf", "vt", "cr"}
             /\ E(i) - 1 \in NEL <=> chars[i] = "nel"
             /\ E(i) - 1 \in LS_PS <=> chars[i] = "ls"
             /\ E(i) - 1 \in CRLF <=> Crlf(i)
             /\ E(i) - 1 \in LF <=> chars[i] = "lf"
  <2> DEFINE p == E(i) - 1
             c == chars[i]
  <2>1. /\ p \in 0..filesize - 1 /\ p \in Nat /\ p \in Position
        /\ ByteAt(p) = "0A" <=> c = "lf"
        /\ ByteAt(p) = "0B" <=> c = "vt"
        /\ ByteAt(p) = "0D" <=> c = "cr"
        /\ ByteAt(p) = "85" <=> c \in {"nel", "aring"}
        /\ ByteAt(p) = "A8" <=> c \in {"ls", "u1028"}
    BY <1>1, LastByteTells DEF Position
  <2>2. /\ c \in {"nel", "aring"} => p >= 1 /\ (ByteAt(p - 1) = "C2" <=> c = "nel")
        /\ c \in {"ls", "u1028"} => /\ p >= 2 /\ ByteAt(p - 1) = "80"
                                    /\ ByteAt(p - 2) = "E2" <=> c = "ls"
    <3>1. E(i) \in Nat /\ E(i) - 1 - 1 = E(i) - 2 /\ E(i) - 1 - 2 = E(i) - 3
      <4>1. i \in 0..Len(chars)
        OBVIOUS
      <4>2. E(i) \in Nat
        BY <4>1, EndsOfFile
      <4>3. QED
        BY <4>2
    <3>2. QED
      BY <3>1, LastByteTells
  <2> HIDE DEF p
  <2>3. Input(p) = ByteAt(p) /\ Input(p - 1) = ByteAt(p - 1) /\ Input(p - 2) = ByteAt(p - 2)
    BY <1>1, <1>2, <2>1
  <2>4. p \in LF_VT_FF_CR <=> c \in {"lf", "vt", "cr"}
    BY <2>1, <2>3 DEF LF_VT_FF_CR
  <2>5. p \in LF <=> c = "lf"
    BY <2>1, <2>3 DEF LF
  <2>6. p \in NEL <=> c = "nel"
    BY <2>1, <2>2, <2>3 DEF NEL
  <2>7. p \in LS_PS <=> c = "ls"
    BY <2>1, <2>2, <2>3 DEF LS_PS
  <2>8. p \in CRLF <=> Crlf(i)
    <3>1. p \in CRLF <=> c = "lf" /\ p > 0 /\ ByteAt(p - 1) = "0D"
      BY <2>3, <2>5 DEF CRLF
    <3>2. CASE c # "lf"
      BY <3>1, <3>2 DEF Crlf
    <3>3. CASE c = "lf"
      <4>1. Width(c) = 1 /\ E(i) = E(i - 1) + Width(c)
        BY <3>3, EndsOfFile, EncodingIs
      <4>2. i - 1 \in 0..Len(chars) /\ E(i - 1) \in Nat
        <5>1. i - 1 \in 0..Len(chars)
          OBVIOUS
        <5>2. QED
          BY <5>1, EndsOfFile
      <4>3. p = E(i - 1)
        BY <4>1, <4>2 DEF p
      <4>4. CASE i = 1
        BY <3>1, <4>3, <4>4, EndsOfFile DEF Crlf
      <4>5. CASE i # 1
        <5>1. i - 1 \in 1..Len(chars) /\ i > 1
          BY <4>5
        <5>2. ByteAt(E(i - 1) - 1) = "0D" <=> chars[i - 1] = "cr"
          BY <5>1, LastByteTells
        <5>3. p > 0
          BY <4>3, <5>1, EndsOfFile
        <5>4. QED
          BY <3>1, <3>3, <4>3, <5>1, <5>2, <5>3 DEF Crlf
      <4>6. QED
        BY <4>4, <4>5
    <3>4. QED
      BY <3>2, <3>3
  <2>9. QED
    BY <2>4, <2>5, <2>6, <2>7, <2>8 DEF p
<1>4. ByteAt(filesize) = "00"
  BY <1>1 DEF ByteAt
<1>5. Input(filesize) \in {"00", "0A"} /\ (Input(filesize) = "0A" <=> finalLineIsUnterminated)
  BY <1>4 DEF Input
<1>6. filesize \in Position
  BY <1>1 DEF Position
<1>7. filesize \in LF_VT_FF_CR <=> finalLineIsUnterminated
  BY <1>5, <1>6 DEF LF_VT_FF_CR
<1>8. filesize \in LF <=> finalLineIsUnterminated
  BY <1>5, <1>6 DEF LF
<1>9. filesize \notin NEL /\ filesize \notin LS_PS
  BY <1>5 DEF NEL, LS_PS
<1>10. filesize \notin CRLF
  <2>1. Input(filesize - 1) = ByteAt(filesize - 1)
    BY <1>1, <1>2
  <2>2. finalLineIsUnterminated => ByteAt(filesize - 1) # "0D"
    BY DEF finalLineIsUnterminated
  <2>3. QED
    BY <1>8, <2>1, <2>2 DEF CRLF
<1>11. QED
  BY <1>3, <1>7, <1>8, <1>9, <1>10

LEMMA StreamPositions ==
  ASSUME File, NEW p \in LF_VT_FF_CR \union NEL \union LS_PS, p # filesize
  PROVE  \E i \in 1..Len(chars) : p = E(i) - 1
<1>1. filesize \in Nat
  <2>1. filesize = E(Len(chars)) /\ Len(chars) \in 0..Len(chars)
    BY EndsOfFile
  <2>2. QED
    BY <2>1, EndsOfFile
<1>2. p \in Position /\ Input(p) \in {"0A", "0B", "0D", "85", "A8"}
  BY DEF LF_VT_FF_CR, NEL, LS_PS
<1>3. p \in 0..filesize - 1
  BY <1>1, <1>2 DEF Position
<1>4. Input(p) = ByteAt(p)
  BY DEF Input
<1>5. QED
  BY <1>2, <1>3, <1>4, LastBytesOnly

-----------------------------------------------------------------------------
(* The lines of characters and the places of the bytes, one for one.        *)

\* Where the line that ends with character number i is reported.
Place(i) == IF ~EndsLine(i) THEN filesize ELSE IF Crlf(i) THEN E(i) - 2 ELSE E(i) - 1

LEMMA LinesEnd ==
  ASSUME File, ~LFOnly
  PROVE  /\ LastChars \subseteq 1..Len(chars) /\ Len(chars) \in LastChars
         /\ \A i \in 1..Len(chars) : chars[i] \in Breakers /\ ~EndsLine(i) =>
              i + 1 \in LastChars /\ Crlf(i + 1) /\ chars[i] = "cr"
         /\ \A i \in 1..Len(chars) : EndsLine(i) => chars[i] \in Breakers /\ i \in LastChars
         /\ \A i \in LastChars : i # Len(chars) => EndsLine(i)
         /\ EndsLine(Len(chars)) <=> chars[Len(chars)] \in Breakers
         /\ \A i \in 1..Len(chars) : Crlf(i) =>
              EndsLine(i) /\ i - 1 \in 1..Len(chars) /\ i - 1 \notin LastChars
         /\ \A i \in 1..Len(chars) : EndsLine(i) /\ i + 1 \in 1..Len(chars) => ~Crlf(i + 1)
<1>1. Len(chars) \in Nat \ {0}
  BY DEF File
<1>2. \A i \in 1..Len(chars) :
        EndsLine(i) <=> chars[i] \in Breakers /\ ~(chars[i] = "cr" /\ i < Len(chars) /\ chars[i + 1] = "lf")
  BY DEF EndsLine, Breakers
<1>3. \A i : i \in LastChars <=> i \in 1..Len(chars) /\ (EndsLine(i) \/ i = Len(chars))
  BY <1>1 DEF LastChars
<1>4. ASSUME NEW i \in 1..Len(chars), chars[i] \in Breakers, ~EndsLine(i)
      PROVE  i + 1 \in LastChars /\ Crlf(i + 1) /\ chars[i] = "cr"
  <2>1. chars[i] = "cr" /\ i + 1 \in 1..Len(chars) /\ chars[i + 1] = "lf" /\ i + 1 > 1 /\ (i + 1) - 1 = i
    BY <1>1, <1>2, <1>4
  <2>2. EndsLine(i + 1)
    BY <1>2, <2>1 DEF Breakers
  <2>3. QED
    BY <1>3, <2>1, <2>2 DEF Crlf
<1>5. ASSUME NEW i \in 1..Len(chars), Crlf(i)
      PROVE  EndsLine(i) /\ i - 1 \in 1..Len(chars) /\ i - 1 \notin LastChars
  <2>1. chars[i] = "lf" /\ chars[i - 1] = "cr" /\ i - 1 \in 1..Len(chars) /\ i - 1 < Len(chars) /\ (i - 1) + 1 = i
    BY <1>1, <1>5 DEF Crlf
  <2>2. QED
    BY <1>2, <1>3, <2>1 DEF Breakers
<1>6. ASSUME NEW i \in 1..Len(chars), EndsLine(i), i + 1 \in 1..Len(chars)
      PROVE  ~Crlf(i + 1)
  <2>1. (i + 1) - 1 = i /\ i < Len(chars)
    BY <1>1, <1>6
  <2>2. QED
    BY <1>2, <1>6, <2>1 DEF Crlf
<1>7. Len(chars) \in 1..Len(chars) /\ ~(Len(chars) < Len(chars))
  BY <1>1
<1>8. EndsLine(Len(chars)) <=> chars[Len(chars)] \in Breakers
  BY <1>2, <1>7
<1>9. QED
  BY <1>2, <1>3, <1>4, <1>5, <1>6, <1>7, <1>8

\* What a place is, from the kind of the line's end.
LEMMA PlaceIs ==
  ASSUME File, ~LFOnly, NEW i \in LastChars
  PROVE  /\ i \in 1..Len(chars) /\ Place(i) \in 0..filesize /\ filesize \in Nat
         /\ ~EndsLine(i) => Place(i) = filesize /\ i = Len(chars) /\ E(i) = filesize
         /\ EndsLine(i) => Place(i) < filesize
         /\ EndsLine(i) /\ Crlf(i) => /\ Place(i) = E(i) - 2 /\ Place(i) = E(i - 1) - 1
                                      /\ i - 1 \in 1..Len(chars) /\ E(i) = E(i - 1) + 1
         /\ EndsLine(i) /\ ~Crlf(i) => Place(i) = E(i) - 1
<1>1. i \in 1..Len(chars) /\ i \in 0..Len(chars)
  BY LinesEnd
<1>2. filesize \in Nat /\ filesize = E(Len(chars)) /\ E(i) \in Nat /\ E(i) <= filesize /\ E(i) >= 1
  <2>1. filesize = E(Len(chars)) /\ Len(chars) \in 0..Len(chars)
    BY EndsOfFile
  <2>2. QED
    BY <1>1, <2>1, EndsOfFile
<1>3. CASE ~EndsLine(i)
  <2>1. i = Len(chars)
    BY <1>3, LinesEnd
  <2>2. QED
    BY <1>1, <1>2, <1>3, <2>1 DEF Place
<1>4. CASE EndsLine(i) /\ ~Crlf(i)
  BY <1>1, <1>2, <1>4 DEF Place
<1>5. CASE EndsLine(i) /\ Crlf(i)
  <2>1. i - 1 \in 1..Len(chars)
    BY <1>1, <1>5, LinesEnd
  <2>2. E(i - 1) >= 1 /\ E(i) = E(i - 1) + Width(chars[i]) /\ chars[i] \in Chars
    BY <1>1, <2>1, EndsOfFile
  <2>3. E(i - 1) \in Nat
    <3>1. i - 1 \in 0..Len(chars)
      BY <2>1
    <3>2. QED
      BY <3>1, EndsOfFile
  <2>4. Width(chars[i]) = 1
    <3>1. chars[i] = "lf"
      BY <1>5 DEF Crlf
    <3>2. QED
      BY <2>2, <3>1, EncodingIs
  <2>5. Place(i) = E(i) - 2
    BY <1>5 DEF Place
  <2>6. QED
    BY <1>1, <1>2, <1>5, <2>1, <2>2, <2>3, <2>4, <2>5
<1>6. QED
  BY <1>3, <1>4, <1>5

\* The places are in the order of the lines.
LEMMA PlacesInOrder ==
  ASSUME File, ~LFOnly, NEW i \in LastChars, NEW j \in LastChars, i < j
  PROVE  Place(i) < Place(j) /\ Place(i) < E(i) /\ EndsLine(i) /\ E(i) <= Place(j)
<1>1. i \in 1..Len(chars) /\ j \in 1..Len(chars) /\ i # Len(chars) /\ i \in 0..Len(chars) /\ j \in 0..Len(chars)
  BY LinesEnd
<1>2. EndsLine(i)
  BY <1>1, LinesEnd
<1>3. E(i) \in Nat /\ E(j) \in Nat /\ E(i) < E(j) /\ E(j) <= filesize
  BY <1>1, EndsOfFile
<1>4. Place(i) < E(i) /\ Place(i) \in Nat
  BY <1>2, <1>3, PlaceIs
<1>5. E(i) <= Place(j)
  <2>1. CASE ~EndsLine(j)
    BY <1>3, <2>1, PlaceIs
  <2>2. CASE EndsLine(j) /\ ~Crlf(j)
    BY <1>3, <2>2, PlaceIs
  <2>3. CASE EndsLine(j) /\ Crlf(j)
    <3>1. Place(j) = E(j - 1) - 1 /\ j - 1 \in 1..Len(chars) /\ j - 1 \notin LastChars
      BY <1>1, <2>3, PlaceIs, LinesEnd
    <3>2. i < j - 1 /\ j - 1 \in 0..Len(chars)
      BY <1>1, <3>1
    <3>3. E(i) < E(j - 1) /\ E(j - 1) \in Nat
      BY <1>1, <3>2, EndsOfFile
    <3>4. QED
      BY <1>3, <3>1, <3>3
  <2>4. QED
    BY <2>1, <2>2, <2>3
<1>6. Place(j) \in Int
  BY PlaceIs
<1>7. QED
  BY <1>2, <1>3, <1>4, <1>5, <1>6

\* The streams have a bit where a line is reported, and nowhere else.
LEMMA PlacesAre ==
  ASSUME File, ~LFOnly
  PROVE  /\ UnicodeLineBreak = {Place(i) : i \in LastChars}
         /\ RecordBreaks = UnicodeLineBreak /\ MatchPlaces = UnicodeLineBreak
<1>1. \A p : p \in UnicodeLineBreak <=> p \in LF_VT_FF_CR \union NEL \union LS_PS /\ p \notin CRLF
  BY DEF UnicodeLineBreak
<1>2. filesize \in UnicodeLineBreak <=> ~EndsLine(Len(chars))
  BY <1>1, StreamsSee, UnterminatedIs, LinesEnd
<1>3. \A i \in 1..Len(chars) : E(i) - 1 \in UnicodeLineBreak <=> chars[i] \in Breakers /\ ~Crlf(i)
  BY <1>1, StreamsSee DEF Breakers
<1>4. ASSUME NEW i \in LastChars PROVE Place(i) \in UnicodeLineBreak
  <2>1. CASE ~EndsLine(i)
    BY <1>2, <2>1, PlaceIs
  <2>2. CASE EndsLine(i) /\ ~Crlf(i)
    <3>1. i \in 1..Len(chars) /\ chars[i] \in Breakers /\ Place(i) = E(i) - 1
      BY <2>2, PlaceIs, LinesEnd
    <3>2. QED
      BY <1>3, <2>2, <3>1
  <2>3. CASE EndsLine(i) /\ Crlf(i)
    <3>1. i - 1 \in 1..Len(chars) /\ Place(i) = E(i - 1) - 1
      BY <2>3, PlaceIs
    <3>2. chars[i - 1] = "cr"
      BY <2>3 DEF Crlf
    <3>3. ~Crlf(i - 1)
      BY <3>2 DEF Crlf
    <3>4. QED
      BY <1>3, <3>1, <3>2, <3>3 DEF Breakers
  <2>4. QED
    BY <2>1, <2>2, <2>3
<1>5. ASSUME NEW p \in UnicodeLineBreak PROVE \E i \in LastChars : p = Place(i)
  <2>1. CASE p = filesize
    <3>1. ~EndsLine(Len(chars)) /\ Len(chars) \in LastChars
      BY <1>2, <2>1, LinesEnd
    <3>2. Place(Len(chars)) = filesize
      BY <3>1, PlaceIs
    <3>3. QED
      BY <2>1, <3>1, <3>2
  <2>2. CASE p # filesize
    <3>1. PICK i \in 1..Len(chars) : p = E(i) - 1
      BY <1>1, <2>2, StreamPositions
    <3>2. chars[i] \in Breakers /\ ~Crlf(i)
      BY <1>3, <3>1
    <3>3. CASE EndsLine(i)
      <4>1. i \in LastChars
        BY <3>3, LinesEnd
      <4>2. Place(i) = E(i) - 1
        BY <3>2, <3>3, <4>1, PlaceIs
      <4>3. QED
        BY <3>1, <4>1, <4>2
    <3>4. CASE ~EndsLine(i)
      <4>1. i + 1 \in LastChars /\ Crlf(i + 1)
        BY <3>2, <3>4, LinesEnd
      <4>2. i + 1 \in 1..Len(chars) /\ (i + 1) - 1 = i
        BY <4>1, LinesEnd
      <4>3. EndsLine(i + 1)
        BY <4>1, <4>2, LinesEnd
      <4>4. Place(i + 1) = E(i) - 1
        <5>1. Place(i + 1) = E((i + 1) - 1) - 1
          BY <4>1, <4>3, PlaceIs
        <5>2. QED
          BY <4>2, <5>1
      <4>5. QED
        BY <3>1, <4>1, <4>4
    <3>5. QED
      BY <3>3, <3>4
  <2>3. QED
    BY <2>1, <2>2
<1>6. UnicodeLineBreak = {Place(i) : i \in LastChars}
  BY <1>4, <1>5
<1>7. RecordBreaks = UnicodeLineBreak /\ MatchPlaces = UnicodeLineBreak
  BY DEF RecordBreaks, MatchPlaces, UnicodeLineBreak
<1>8. QED
  BY <1>6, <1>7

LEMMA MaxIs ==
  ASSUME NEW T, T \subseteq Nat, T # {}, NEW n \in Nat, \A k \in T : k <= n
  PROVE  Max(T) \in T /\ \A k \in T : k <= Max(T)
<1>1. PICK m \in T : \A k \in T : k <= m
  BY GreatestNatural
<1>2. \E x \in T : \A y \in T : x >= y
  BY <1>1
<1>3. Max(T) \in T /\ \A y \in T : Max(T) >= y
  BY <1>2 DEF Max
<1>4. QED
  BY <1>3

\* The last character of the line before.
Previous(i) == Max({0} \union {j \in LastChars : j < i})

LEMMA PreviousIs ==
  ASSUME File, ~LFOnly, NEW i \in LastChars
  PROVE  /\ Previous(i) \in 0..i - 1 /\ i \in 1..Len(chars) /\ Previous(i) \in 0..Len(chars)
         /\ Previous(i) # 0 => Previous(i) \in LastChars
         /\ \A j \in LastChars : j < i => j <= Previous(i)
         /\ EndsLine(i) /\ Crlf(i) => Previous(i) <= i - 2 /\ i - 1 \in 1..Len(chars)
<1> DEFINE T == {0} \union {j \in LastChars : j < i}
<1>1. LastChars \subseteq 1..Len(chars) /\ Len(chars) \in Nat /\ i \in 1..Len(chars)
  BY LinesEnd DEF File
<1>2. T \subseteq Nat /\ T # {} /\ i \in Nat /\ \A k \in T : k <= i
  <2>1. \A j \in LastChars : j \in Nat
    BY <1>1
  <2>2. i \in Nat
    BY <1>1
  <2>3. \A k \in T : k = 0 \/ (k \in LastChars /\ k < i)
    OBVIOUS
  <2>4. 0 \in T
    OBVIOUS
  <2> HIDE DEF T
  <2>5. ASSUME NEW k \in T PROVE k \in Nat /\ k <= i
    <3>1. k = 0 \/ (k \in LastChars /\ k < i)
      BY <2>3
    <3>2. CASE k = 0
      BY <2>2, <3>2
    <3>3. CASE k \in LastChars /\ k < i
      BY <2>1, <2>2, <3>3
    <3>4. QED
      BY <3>1, <3>2, <3>3
  <2>6. QED
    BY <2>2, <2>4, <2>5
<1>3. Previous(i) \in T /\ \A k \in T : k <= Previous(i)
  <2> HIDE DEF T
  <2>1. Max(T) \in T /\ \A k \in T : k <= Max(T)
    BY <1>2, MaxIs
  <2>2. Previous(i) = Max(T)
    BY DEF Previous, T
  <2>3. QED
    BY <2>1, <2>2
<1>4. Previous(i) \in 0..i - 1 /\ (Previous(i) # 0 => Previous(i) \in LastChars)
  <2>1. Previous(i) = 0 \/ (Previous(i) \in LastChars /\ Previous(i) < i)
    BY <1>3
  <2>2. \A j \in LastChars : j \in Nat
    BY <1>1
  <2>3. i - 1 \in Nat
    BY <1>1
  <2>4. QED
    BY <1>2, <2>1, <2>2, <2>3
<1>5. \A j \in LastChars : j < i => j <= Previous(i)
  BY <1>3
<1>6. ASSUME EndsLine(i), Crlf(i) PROVE Previous(i) <= i - 2 /\ i - 1 \in 1..Len(chars)
  <2>1. i - 1 \in 1..Len(chars) /\ i - 1 \notin LastChars
    BY <1>1, <1>6, LinesEnd
  <2>2. Previous(i) # i - 1
    BY <1>1, <1>4, <2>1
  <2>3. QED
    BY <1>1, <1>4, <2>1, <2>2
<1>7. QED
  BY <1>1, <1>4, <1>5, <1>6

\* The breaks before a line are those of the lines before it.
LEMMA BreaksBeforeAre ==
  ASSUME File, ~LFOnly, breaks = {Place(j) : j \in LastChars}, NEW i \in LastChars
  PROVE  BreaksBefore(Place(i)) = {Place(j) : j \in {h \in LastChars : h < i}}
<1>1. i \in Int /\ \A j \in LastChars : j \in Int
  BY LinesEnd
<1>2. \A j \in LastChars : Place(j) \in Int
  BY PlaceIs
<1>3. ASSUME NEW j \in LastChars PROVE Place(j) < Place(i) <=> j < i
  <2>1. CASE j < i
    BY <2>1, PlacesInOrder
  <2>2. CASE j = i
    BY <1>1, <1>2, <2>2
  <2>3. CASE i < j
    <3>1. Place(i) < Place(j)
      BY <2>3, PlacesInOrder
    <3>2. QED
      BY <1>1, <1>2, <2>3, <3>1
  <2>4. QED
    BY <1>1, <2>1, <2>2, <2>3
<1>4. QED
  BY <1>3 DEF BreaksBefore

\* A report starts where the line before ends, after the line feed of a CRLF too.
LEMMA ReportStartIs ==
  ASSUME File, ~LFOnly, breaks = {Place(j) : j \in LastChars}, NEW i \in LastChars
  PROVE  ReportStart(Place(i)) = E(Previous(i))
<1> DEFINE p == Place(i)
           v == Previous(i)
<1>1. /\ v \in 0..i - 1 /\ i \in 1..Len(chars) /\ v \in 0..Len(chars)
      /\ v # 0 => v \in LastChars
      /\ \A j \in LastChars : j < i => j <= v
  BY PreviousIs
<1>2. p \in 0..filesize /\ filesize \in Nat /\ E(v) \in Nat
  BY <1>1, PlaceIs, EndsOfFile
<1>3. BreaksBefore(p) = {Place(j) : j \in {h \in LastChars : h < i}}
  BY BreaksBeforeAre
\* A line feed as the first byte of a line is the whole line.
<1>4. ASSUME v + 1 \in 1..Len(chars), ByteAt(E(v)) = "0A", ~Crlf(v + 1)
      PROVE  p = E(v)
  <2>1. /\ E(v + 1) = E(v) + Width(chars[v + 1]) /\ chars[v + 1] \in Chars
        /\ Width(chars[v + 1]) \in 1..3
        /\ ByteAt(E(v)) = Encoding[chars[v + 1]][1]
    <3>1. (v + 1) - 1 = v /\ E((v + 1) - 1) = E(v) /\ E(v) + 1 - 1 = E(v)
      BY <1>1, <1>2
    <3>2. E(v + 1) = E((v + 1) - 1) + Width(chars[v + 1]) /\ chars[v + 1] \in Chars
          /\ Width(chars[v + 1]) \in 1..3
      BY <1>4, EndsOfFile
    <3>3. 1 \in 1..Width(chars[v + 1])
      BY <3>2
    <3>4. ByteAt(E((v + 1) - 1) + 1 - 1) = Encoding[chars[v + 1]][1]
      BY <1>4, <3>3, BytesOfFile
    <3>5. QED
      BY <3>1, <3>2, <3>4
  <2>2. chars[v + 1] = "lf"
    <3>1. 1 \in 1..Width(chars[v + 1])
      BY <2>1
    <3>2. QED
      BY <1>4, <2>1, <3>1, EncodingIs
  <2>3. v + 1 \in LastChars /\ EndsLine(v + 1)
    <3>1. EndsLine(v + 1)
      BY <1>4, <2>2, LinesEnd DEF Breakers
    <3>2. QED
      BY <1>4, <3>1, LinesEnd
  <2>4. i = v + 1
    <3>1. ~(v + 1 < i)
      BY <1>1, <2>3
    <3>2. QED
      BY <1>1, <3>1
  <2>5. Place(v + 1) = E(v + 1) - 1
    BY <1>4, <2>3, PlaceIs
  <2>6. E(v + 1) = E(v) + 1
    BY <2>1, <2>2, EncodingIs
  <2>7. QED
    BY <1>2, <2>4, <2>5, <2>6
<1>5. CASE v = 0
  <2>1. \A j \in LastChars : ~(j < i)
    BY <1>1, <1>5, LinesEnd
  <2>2. LineStart(p) = 0
    BY <1>3, <2>1 DEF LineStart
  <2>3. E(v) = 0 /\ 1 \in 1..Len(chars) /\ ~Crlf(1)
    BY <1>1, <1>5, EndsOfFile DEF Crlf
  <2>4. QED
    BY <1>4, <1>5, <2>2, <2>3 DEF ReportStart
<1>6. CASE v # 0
  <2>1. v \in LastChars /\ v < i /\ v \in 1..Len(chars)
    BY <1>1, <1>6
  <2>2. EndsLine(v) /\ Place(v) < p /\ E(v) <= p /\ Place(v) \in Nat
    BY <2>1, PlacesInOrder, PlaceIs
  <2>3. Place(v) \in BreaksBefore(p) /\ \A r \in BreaksBefore(p) : r <= Place(v)
    <3>1. ASSUME NEW j \in LastChars, j < i PROVE Place(j) <= Place(v)
      <4>1. j <= v /\ j \in Int /\ v \in Int
        BY <1>1, <2>1, <3>1, LinesEnd
      <4>2. CASE j = v
        BY <2>2, <4>2
      <4>3. CASE j # v
        <5>1. j < v
          BY <4>1, <4>3
        <5>2. Place(j) < Place(v) /\ Place(j) \in Int
          BY <2>1, <5>1, PlacesInOrder, PlaceIs
        <5>3. QED
          BY <2>2, <5>2
      <4>4. QED
        BY <4>2, <4>3
    <3>2. QED
      BY <1>3, <2>1, <3>1
  <2>4. LineStart(p) = Place(v) + 1
    <3> DEFINE m == CHOOSE q \in BreaksBefore(p) : \A r \in BreaksBefore(p) : r <= q
    <3>1. m \in BreaksBefore(p) /\ \A r \in BreaksBefore(p) : r <= m
      BY <2>3
    <3>2. LineStart(p) = 1 + m
      BY <2>3 DEF LineStart
    <3>3. \A r \in BreaksBefore(p) : r \in Int
      BY <1>3, PlaceIs
    <3> HIDE DEF m
    <3>4. m = Place(v)
      BY <2>2, <2>3, <3>1, <3>3
    <3>5. QED
      BY <2>2, <3>2, <3>4
  <2>5. CASE Crlf(v)
    <3>1. Place(v) + 1 = E(v) - 1
      BY <1>2, <2>1, <2>2, <2>5, PlaceIs
    <3>2. ByteAt(E(v) - 1) = "0A"
      BY <2>1, <2>5, LastByteTells DEF Crlf
    <3>3. E(v) - 1 # p
      BY <1>2, <2>2
    <3>4. QED
      BY <1>2, <2>4, <3>1, <3>2, <3>3 DEF ReportStart
  <2>6. CASE ~Crlf(v)
    <3>1. LineStart(p) = E(v)
      BY <1>2, <2>1, <2>2, <2>4, <2>6, PlaceIs
    <3>2. v + 1 \in 1..Len(chars) /\ ~Crlf(v + 1)
      <4>1. v + 1 \in 1..Len(chars)
        BY <1>1, <2>1
      <4>2. QED
        BY <2>1, <2>2, <4>1, LinesEnd
    <3>3. QED
      BY <1>4, <3>1, <3>2 DEF ReportStart
  <2>7. QED
    BY <2>5, <2>6
<1>7. QED
  BY <1>5, <1>6

-----------------------------------------------------------------------------
(* A report is the line.                                                    *)

\* The line that ends with character number i, and how much of it is text.
LEMMA LineIs ==
  ASSUME File, ~LFOnly, NEW i \in LastChars
  PROVE  /\ LineOf(i) = SubSeq(chars, Previous(i) + 1, i)
         /\ TextLength(LineOf(i)) = IF ~EndsLine(i) THEN i - Previous(i)
                                    ELSE IF Crlf(i) THEN i - Previous(i) - 2 ELSE i - Previous(i) - 1
         /\ \A t \in 0..i - Previous(i) :
              SubSeq(LineOf(i), 1, t) = SubSeq(chars, Previous(i) + 1, Previous(i) + t)
<1> DEFINE v == Previous(i)
           n == i - v
           line == SubSeq(chars, v + 1, i)
<1>1. /\ v \in 0..i - 1 /\ i \in 1..Len(chars)
      /\ EndsLine(i) /\ Crlf(i) => v <= i - 2
      /\ chars \in Seq(Chars) /\ Len(chars) \in Nat
  BY PreviousIs DEF File
<1>2. LineOf(i) = line
  <2>1. 1 + v = v + 1
    BY <1>1
  <2>2. QED
    BY <2>1 DEF LineOf, Previous
<1> HIDE DEF v
<1>3. n \in Nat \ {0} /\ v + n = i
  BY <1>1
<1>4. line \in Seq(Chars) /\ Len(line) = n /\ \A k \in 1..n : line[k] = chars[v + k]
  <2>1. \A k \in v + 1..i : chars[k] \in Chars
    BY <1>1
  <2>2. v + 1 \in Int /\ i \in Int /\ v + 1 <= i /\ i - (v + 1) + 1 = n
    BY <1>1
  <2>3. /\ line \in Seq(Chars) /\ Len(line) = IF v + 1 <= i THEN i - (v + 1) + 1 ELSE 0
        /\ \A k \in 1..i - (v + 1) + 1 : line[k] = chars[v + 1 + k - 1]
    BY <2>1, <2>2, SubSeqProperties
  <2>4. \A k \in 1..n : v + 1 + k - 1 = v + k
    BY <1>1
  <2>5. QED
    BY <2>2, <2>3, <2>4
<1> HIDE DEF line
<1>5. \A t \in 0..n : SubSeq(line, 1, t) = SubSeq(chars, v + 1, v + t)
  <2>1. ASSUME NEW t \in 0..n PROVE SubSeq(line, 1, t) = SubSeq(chars, v + 1, v + t)
    <3>1. CASE t = 0
      <4>1. SubSeq(line, 1, t) = << >> /\ SubSeq(chars, v + 1, v + t) = << >>
        BY <1>1, <3>1, SubSeqEmpty
      <4>2. QED
        BY <4>1
    <3>2. CASE t # 0
      <4>1. /\ v + 1 \in 1..Len(chars) /\ i \in 1..Len(chars)
            /\ 1 \in 1..i - (v + 1) + 1 /\ t \in 1..i - (v + 1) + 1
            /\ v + 1 + 1 - 1 = v + 1 /\ v + 1 + t - 1 = v + t
        BY <1>1, <3>2
      <4>2. SubSeq(SubSeq(chars, v + 1, i), 1, t) = SubSeq(chars, v + 1 + 1 - 1, v + 1 + t - 1)
        BY <1>1, <1>4, <4>1, SubSeqOfSubSeq
      <4>3. QED
        BY <4>1, <4>2 DEF line
    <3>3. QED
      BY <3>1, <3>2
  <2>2. QED
    BY <2>1
<1>6. line[n] = chars[i] /\ (n > 1 => line[n - 1] = chars[i - 1])
  <2>1. n \in 1..n /\ (n > 1 => n - 1 \in 1..n /\ v + (n - 1) = i - 1)
    BY <1>1
  <2>2. QED
    BY <1>3, <1>4, <2>1
<1> HIDE DEF n
<1>7. n > 1 => (SubSeq(line, n - 1, n) = <<"cr", "lf">> <=> Crlf(i))
  <2>1. SUFFICES ASSUME n > 1 PROVE SubSeq(line, n - 1, n) = <<"cr", "lf">> <=> Crlf(i)
    OBVIOUS
  <2> DEFINE t == SubSeq(line, n - 1, n)
  <2>2. /\ t \in Seq(Chars) /\ Len(t) = IF n - 1 <= n THEN n - (n - 1) + 1 ELSE 0
        /\ \A k \in 1..n - (n - 1) + 1 : t[k] = line[n - 1 + k - 1]
    <3>1. \A k \in n - 1..n : line[k] \in Chars
      BY <1>3, <1>4, <2>1
    <3>2. n - 1 \in Int /\ n \in Int
      BY <1>3
    <3>3. QED
      BY <3>1, <3>2, SubSeqProperties
  <2>3. n - (n - 1) + 1 = 2 /\ n - 1 <= n /\ n - 1 + 1 - 1 = n - 1 /\ n - 1 + 2 - 1 = n
    BY <1>3
  <2> HIDE DEF t
  <2>4. t \in Seq(Chars) /\ Len(t) = 2 /\ t[1] = chars[i - 1] /\ t[2] = chars[i]
    <3>1. 1 \in 1..2 /\ 2 \in 1..2
      OBVIOUS
    <3>2. t[1] = line[n - 1] /\ t[2] = line[n]
      BY <2>2, <2>3, <3>1
    <3>3. QED
      BY <1>6, <2>1, <2>2, <2>3, <3>2
  <2>5. t = <<t[1], t[2]>>
    BY <2>4
  <2>6. i > 1
    BY <1>1, <1>3, <2>1
  <2>7. t = <<"cr", "lf">> <=> t[1] = "cr" /\ t[2] = "lf"
    BY <2>5
  <2>8. QED
    BY <2>4, <2>6, <2>7 DEF Crlf, t
<1>8. TextLength(line) = IF ~EndsLine(i) THEN n ELSE IF Crlf(i) THEN n - 2 ELSE n - 1
  <2>1. TextLength(line) = IF n > 1 /\ SubSeq(line, n - 1, n) = <<"cr", "lf">> THEN n - 2
                           ELSE IF chars[i] \in Breakers THEN n - 1 ELSE n
    BY <1>4, <1>6 DEF TextLength, Breakers
  <2>2. CASE Crlf(i)
    <3>1. EndsLine(i) /\ n > 1
      <4>1. EndsLine(i)
        BY <1>1, <2>2, LinesEnd
      <4>2. QED
        BY <1>1, <1>3, <2>2, <4>1
    <3>2. QED
      BY <1>7, <2>1, <2>2, <3>1
  <2>3. CASE ~Crlf(i)
    <3>1. EndsLine(i) <=> chars[i] \in Breakers
      BY <1>1, LinesEnd
    <3>2. QED
      BY <1>7, <2>1, <2>3, <3>1
  <2>4. QED
    BY <2>2, <2>3
<1>9. /\ LineOf(i) = SubSeq(chars, Previous(i) + 1, i)
      /\ TextLength(line) = IF ~EndsLine(i) THEN i - Previous(i)
                            ELSE IF Crlf(i) THEN i - Previous(i) - 2 ELSE i - Previous(i) - 1
      /\ \A t \in 0..i - Previous(i) : SubSeq(line, 1, t) = SubSeq(chars, Previous(i) + 1, Previous(i) + t)
  BY <1>2, <1>5, <1>8 DEF n, v, line
<1>10. QED
  BY <1>2, <1>9

\* The bytes from the end of the line before to the end of a character of this one.
LEMMA WrittenIs ==
  ASSUME File, ~LFOnly, breaks = {Place(j) : j \in LastChars}, NEW i \in LastChars,
         NEW t \in Previous(i)..Len(chars)
  PROVE  Written(ReportStart(Place(i)), E(t) - 1) = Bytes(SubSeq(chars, Previous(i) + 1, t))
<1>1. Previous(i) \in 0..Len(chars) /\ Len(chars) \in Nat /\ chars \in Seq(Chars)
  BY PreviousIs DEF File
<1>2. E(t) \in Nat /\ E(t) - 1 + 1 = E(t)
  <2>1. t \in 0..Len(chars)
    BY <1>1
  <2>2. E(t) \in Nat
    BY <2>1, EndsOfFile
  <2>3. QED
    BY <2>2
<1>3. ReportStart(Place(i)) = E(Previous(i))
  BY ReportStartIs
<1>4. Written(ReportStart(Place(i)), E(t) - 1) = SubSeq(Bytes(chars), E(Previous(i)) + 1, E(t))
  BY <1>2, <1>3 DEF Written, File
<1>5. SubSeq(Bytes(chars), End(chars, Previous(i)) + 1, End(chars, t)) = Bytes(SubSeq(chars, Previous(i) + 1, t))
  BY <1>1, BytesOfPart
<1>6. QED
  BY <1>4, <1>5 DEF E

LEMMA ReportIsPrinted ==
  ASSUME File, ~LFOnly, normalize \in BOOLEAN, breaks = {Place(j) : j \in LastChars}, NEW i \in LastChars
  PROVE  report_match(Place(i)) = Printed(i)
<1> DEFINE p == Place(i)
           v == Previous(i)
<1>1. /\ v \in 0..i - 1 /\ i \in 1..Len(chars) /\ v \in 0..Len(chars) /\ Len(chars) \in Nat
      /\ EndsLine(i) /\ Crlf(i) => v <= i - 2
  BY PreviousIs DEF File
<1>2. \A t \in v..Len(chars) : Written(ReportStart(p), E(t) - 1) = Bytes(SubSeq(chars, v + 1, t))
  BY WrittenIs
<1>3. /\ LineOf(i) = SubSeq(chars, v + 1, i)
      /\ TextLength(LineOf(i)) = IF ~EndsLine(i) THEN i - v ELSE IF Crlf(i) THEN i - v - 2 ELSE i - v - 1
      /\ \A t \in 0..i - v : SubSeq(LineOf(i), 1, t) = SubSeq(chars, v + 1, v + t)
  BY LineIs
<1>4. /\ p \in 0..filesize /\ filesize \in Nat
      /\ ~EndsLine(i) => p = filesize /\ E(i) = filesize
      /\ EndsLine(i) => p < filesize
      /\ EndsLine(i) /\ Crlf(i) => /\ p = E(i) - 2 /\ p = E(i - 1) - 1
                                   /\ i - 1 \in 1..Len(chars) /\ E(i) = E(i - 1) + 1
      /\ EndsLine(i) /\ ~Crlf(i) => p = E(i) - 1
  BY PlaceIs
<1>5. i \in v..Len(chars) /\ Written(ReportStart(p), E(i) - 1) = Bytes(LineOf(i))
  <2>1. i \in v..Len(chars)
    BY <1>1
  <2>2. QED
    BY <1>2, <1>3, <2>1
<1>6. E(i) \in Nat /\ E(i - 1) \in Nat /\ E(i) = E(i - 1) + Width(chars[i]) /\ Width(chars[i]) \in 1..3
  <2>1. i \in 0..Len(chars) /\ i - 1 \in 0..Len(chars)
    BY <1>1
  <2>2. QED
    BY <1>1, <2>1, EndsOfFile
<1>7. CASE ~EndsLine(i)
  <2>1. p = filesize /\ E(i) = filesize
    BY <1>4, <1>7
  <2>2. Written(ReportStart(p), p - 1) = Bytes(LineOf(i))
    BY <1>5, <2>1
  <2>3. SubSeq(LineOf(i), 1, TextLength(LineOf(i))) = LineOf(i)
    <3>1. i - v \in 0..i - v /\ v + (i - v) = i
      BY <1>1
    <3>2. QED
      BY <1>3, <1>7, <3>1
  <2>4. CASE normalize
    BY <2>1, <2>2, <2>3, <2>4 DEF report_match, Printed
  <2>5. CASE ~normalize
    <3>1. Bytes(LineOf(i)) \o << >> = Bytes(LineOf(i))
      <4>1. Bytes(LineOf(i)) \in Seq(Byte)
        <5>1. v + 1 \in 1..i
          BY <1>1
        <5>2. QED
          BY <1>1, <1>3, <5>1, BytesGrow DEF File
      <4>2. QED
        BY <4>1, ConcatEmptySeq
    <3>2. QED
      BY <2>1, <2>2, <2>5, <3>1 DEF report_match, Printed
  <2>6. QED
    BY <2>4, <2>5
<1>8. CASE EndsLine(i) /\ Crlf(i)
  <2>1. /\ p # filesize /\ p = E(i - 1) - 1 /\ p + 1 = E(i) - 1 /\ i - 1 \in 1..Len(chars)
        /\ chars[i] = "lf" /\ chars[i - 1] = "cr" /\ i - 2 \in v..Len(chars) /\ i - 2 \in 0..Len(chars)
    <3>1. p < filesize /\ p = E(i - 1) - 1 /\ i - 1 \in 1..Len(chars) /\ E(i) = E(i - 1) + 1
      BY <1>4, <1>8
    <3>2. p # filesize /\ p + 1 = E(i) - 1
      BY <1>4, <1>6, <3>1
    <3>3. i - 2 \in v..Len(chars) /\ i - 2 \in 0..Len(chars)
      BY <1>1, <1>8
    <3>4. chars[i] = "lf" /\ chars[i - 1] = "cr"
      BY <1>8 DEF Crlf
    <3>5. QED
      BY <3>1, <3>2, <3>3, <3>4
  <2>2. ByteAt(p) = "0D" /\ ByteAt(p + 1) = "0A"
    BY <1>1, <2>1, LastByteTells
  <2>3. Written(ReportStart(p), p - BreakLength(p)) = Bytes(SubSeq(chars, v + 1, i - 2))
    <3>1. BreakLength(p) = 1
      BY <2>2 DEF BreakLength
    <3>2. E(i - 1) = E(i - 2) + 1
      <4>1. (i - 1) - 1 = i - 2
        BY <1>1
      <4>2. E(i - 1) = E((i - 1) - 1) + Width(chars[i - 1]) /\ chars[i - 1] \in Chars
        BY <2>1, EndsOfFile
      <4>3. Width(chars[i - 1]) = 1
        BY <2>1, <4>2, EncodingIs
      <4>4. QED
        BY <4>1, <4>2, <4>3
    <3>3. p - BreakLength(p) = E(i - 2) - 1
      <4>1. E(i - 2) \in Nat
        BY <2>1, EndsOfFile
      <4>2. QED
        BY <2>1, <3>1, <3>2, <4>1
    <3>4. QED
      BY <1>2, <2>1, <3>3
  <2>4. SubSeq(LineOf(i), 1, TextLength(LineOf(i))) = SubSeq(chars, v + 1, i - 2)
    <3>1. i - v - 2 \in 0..i - v /\ v + (i - v - 2) = i - 2
      BY <1>1, <1>8
    <3>2. QED
      BY <1>3, <1>8, <3>1
  <2>5. Written(ReportStart(p), BreakEnd(p)) = Bytes(LineOf(i))
    BY <1>5, <2>1, <2>2 DEF BreakEnd
  <2>6. CASE normalize
    BY <2>1, <2>3, <2>4, <2>6 DEF report_match, Printed
  <2>7. CASE ~normalize
    BY <2>1, <2>5, <2>7 DEF report_match, Printed
  <2>8. QED
    BY <2>6, <2>7
<1>9. CASE EndsLine(i) /\ ~Crlf(i)
  <2>1. p # filesize /\ p = E(i) - 1 /\ chars[i] \in Breakers /\ i - 1 \in v..Len(chars) /\ chars[i] \in Chars
    BY <1>1, <1>4, <1>9, LinesEnd, EndsOfFile
  <2>2. BreakLength(p) = Width(chars[i])
    <3>1. /\ ByteAt(p) = "0A" <=> chars[i] = "lf"
          /\ ByteAt(p) = "0B" <=> chars[i] = "vt"
          /\ ByteAt(p) = "0D" <=> chars[i] = "cr"
          /\ ByteAt(p) = "85" <=> chars[i] \in {"nel", "aring"}
      BY <1>1, <2>1, LastByteTells
    <3>2. /\ chars[i] \in {"lf", "vt", "cr"} => Width(chars[i]) = 1
          /\ chars[i] \in {"nel", "aring"} => Width(chars[i]) = 2
          /\ chars[i] \in {"ls", "u1028"} => Width(chars[i]) = 3
      BY <2>1, EncodingIs
    <3>3. QED
      BY <2>1, <3>1, <3>2 DEF BreakLength, Breakers
  <2>3. Written(ReportStart(p), p - BreakLength(p)) = Bytes(SubSeq(chars, v + 1, i - 1))
    <3>1. p - BreakLength(p) = E(i - 1) - 1
      BY <1>6, <2>1, <2>2
    <3>2. QED
      BY <1>2, <2>1, <3>1
  <2>4. SubSeq(LineOf(i), 1, TextLength(LineOf(i))) = SubSeq(chars, v + 1, i - 1)
    <3>1. i - v - 1 \in 0..i - v /\ v + (i - v - 1) = i - 1
      BY <1>1
    <3>2. QED
      BY <1>3, <1>9, <3>1
  <2>5. BreakEnd(p) = p
    <3>1. SUFFICES ASSUME ByteAt(p) = "0D", ByteAt(p + 1) = "0A" PROVE FALSE
      BY DEF BreakEnd
    <3>2. chars[i] = "cr"
      BY <1>1, <2>1, <3>1, LastByteTells
    <3>3. p + 1 = E(i) /\ p + 1 \in 0..filesize - 1
      BY <1>4, <1>6, <2>1, <3>1 DEF ByteAt
    <3>4. i # Len(chars)
      BY <1>4, <3>3, EndsOfFile
    <3>5. i + 1 \in 1..Len(chars) /\ (i + 1) - 1 = i
      BY <1>1, <3>4
    <3>6. ByteAt(E(i)) = Encoding[chars[i + 1]][1] /\ chars[i + 1] \in Chars /\ 1 \in 1..Width(chars[i + 1])
      <4>1. chars[i + 1] \in Chars /\ Width(chars[i + 1]) \in 1..3
        BY <3>5, EndsOfFile
      <4>2. 1 \in 1..Width(chars[i + 1])
        BY <4>1
      <4>3. ByteAt(E((i + 1) - 1) + 1 - 1) = Encoding[chars[i + 1]][1]
        BY <3>5, <4>2, BytesOfFile
      <4>4. E((i + 1) - 1) + 1 - 1 = E(i)
        BY <1>6, <3>5
      <4>5. QED
        BY <4>1, <4>2, <4>3, <4>4
    <3>7. chars[i + 1] = "lf"
      BY <3>1, <3>3, <3>6, EncodingIs
    <3>8. Crlf(i + 1)
      BY <1>1, <3>2, <3>5, <3>7 DEF Crlf
    <3>9. QED
      BY <1>1, <1>9, <3>5, <3>8, LinesEnd
  <2>6. Written(ReportStart(p), BreakEnd(p)) = Bytes(LineOf(i))
    BY <1>5, <2>1, <2>5
  <2>7. CASE normalize
    BY <2>1, <2>3, <2>4, <2>7 DEF report_match, Printed
  <2>8. CASE ~normalize
    BY <2>1, <2>6, <2>8 DEF report_match, Printed
  <2>9. QED
    BY <2>7, <2>8
<1>10. QED
  BY <1>7, <1>8, <1>9

\* A place tells the line that is reported there.
LEMMA ReportedAtPlace ==
  ASSUME File, ~LFOnly, NEW i \in LastChars, NEW j \in LastChars
  PROVE  ReportedAt(i, Place(j)) <=> i = j
<1>1. i \in 1..Len(chars) /\ j \in 1..Len(chars) /\ i \in 0..Len(chars) /\ Len(chars) \in Nat
  BY LinesEnd DEF File
<1>2. LastByte(i) = E(i) - 1
  BY DEF LastByte, E, End, Upto
<1>3. E(i) \in Nat /\ E(i) <= filesize /\ filesize \in Nat /\ Place(i) \in Int /\ Place(j) \in Int
  BY <1>1, EndsOfFile, PlaceIs
<1>4. \A h \in LastChars : Place(h) = Place(i) => h = i
  <2>1. SUFFICES ASSUME NEW h \in LastChars, Place(h) = Place(i), h # i PROVE FALSE
    OBVIOUS
  <2>2. h \in Int /\ i \in Int
    BY LinesEnd
  <2>3. h < i \/ i < h
    BY <2>1, <2>2
  <2>4. Place(h) < Place(i) \/ Place(i) < Place(h)
    BY <2>3, PlacesInOrder
  <2>5. QED
    BY <1>3, <2>1, <2>4
<1>5. ReportedAt(i, Place(i))
  <2>1. CASE ~EndsLine(i)
    BY <2>1, PlaceIs DEF ReportedAt
  <2>2. CASE EndsLine(i) /\ ~Crlf(i)
    BY <1>2, <2>2, PlaceIs DEF ReportedAt
  <2>3. CASE EndsLine(i) /\ Crlf(i)
    <3>1. /\ Place(i) = E(i) - 2 /\ Place(i) = E(i - 1) - 1 /\ i - 1 \in 1..Len(chars)
          /\ Place(i) + 1 = E(i) - 1 /\ E(i) - 2 = E(i) - 1 - 1
      BY <1>3, <2>3, PlaceIs
    <3>2. ByteAt(Place(i)) = "0D" /\ ByteAt(Place(i) + 1) = "0A"
      BY <1>1, <2>3, <3>1, LastByteTells DEF Crlf
    <3>3. QED
      BY <1>2, <3>1, <3>2 DEF ReportedAt
  <2>4. QED
    BY <2>1, <2>2, <2>3
<1>6. ASSUME ReportedAt(i, Place(j)) PROVE i = j
  <2>1. CASE Place(j) = E(i) - 1
    <3>1. EndsLine(j)
      BY <1>3, <2>1, PlaceIs
    <3>2. CASE Crlf(j)
      <4>1. Place(j) = E(j - 1) - 1 /\ j - 1 \in 1..Len(chars) /\ j - 1 \notin LastChars
        BY <1>1, <3>1, <3>2, PlaceIs, LinesEnd
      <4>2. j - 1 \in 0..Len(chars) /\ E(j - 1) \in Nat
        <5>1. j - 1 \in 0..Len(chars)
          BY <4>1
        <5>2. QED
          BY <5>1, EndsOfFile
      <4>3. E(i) = E(j - 1)
        BY <1>3, <2>1, <4>1, <4>2
      <4>4. i = j - 1
        BY <1>1, <4>2, <4>3, EndsOfFile
      <4>5. QED
        BY <4>1, <4>4
    <3>3. CASE ~Crlf(j)
      <4>1. Place(j) = E(j) - 1 /\ j \in 0..Len(chars)
        BY <1>1, <3>1, <3>3, PlaceIs
      <4>2. E(j) \in Nat
        BY <4>1, EndsOfFile
      <4>3. E(i) = E(j)
        BY <1>3, <2>1, <4>1, <4>2
      <4>4. QED
        BY <1>1, <4>1, <4>3, EndsOfFile
    <3>4. QED
      BY <3>2, <3>3
  <2>2. CASE Place(j) = E(i) - 2 /\ ByteAt(Place(j)) = "0D" /\ ByteAt(Place(j) + 1) = "0A"
    <3>1. Place(j) + 1 = E(i) - 1
      BY <1>3, <2>2
    <3>2. chars[i] = "lf"
      BY <1>1, <2>2, <3>1, LastByteTells
    <3>3. E(i) = E(i - 1) + 1
      <4>1. E(i) = E(i - 1) + Width(chars[i]) /\ chars[i] \in Chars
        BY <1>1, EndsOfFile
      <4>2. QED
        BY <3>2, <4>1, EncodingIs
    <3>4. i - 1 \in 0..Len(chars) /\ E(i - 1) \in Nat
      <4>1. i - 1 \in 0..Len(chars)
        BY <1>1
      <4>2. QED
        BY <4>1, EndsOfFile
    <3>5. Place(j) = E(i - 1) - 1 /\ Place(j) >= 0
      BY <2>2, <3>3, <3>4, PlaceIs
    <3>6. i # 1
      <4>1. E(0) = 0
        BY EndsOfFile
      <4>2. QED
        BY <3>5, <4>1
    <3>7. i - 1 \in 1..Len(chars) /\ i > 1
      BY <1>1, <3>6
    <3>8. chars[i - 1] = "cr"
      BY <2>2, <3>5, <3>7, LastByteTells
    <3>9. Crlf(i)
      BY <3>2, <3>7, <3>8 DEF Crlf
    <3>10. EndsLine(i)
      BY <1>1, <3>9, LinesEnd
    <3>11. Place(i) = Place(j)
      BY <2>2, <3>9, <3>10, PlaceIs
    <3>12. QED
      BY <1>4, <3>11
  <2>3. CASE Place(j) = filesize /\ i = Len(chars) /\ ~EndsLine(i)
    <3>1. Place(i) = Place(j)
      BY <2>3, PlaceIs
    <3>2. QED
      BY <1>4, <3>1
  <2>4. E(i) - 1 - 1 = E(i) - 2
    BY <1>3
  <2>5. QED
    BY <1>2, <1>6, <2>1, <2>2, <2>3, <2>4 DEF ReportedAt
<1>7. QED
  BY <1>5, <1>6

-----------------------------------------------------------------------------
(* The elements of a set in order, when one above them all joins.           *)

LEMMA NthIs ==
  ASSUME NEW S, S \subseteq Nat, IsFiniteSet(S), NEW m \in Nat, \A i \in S : i < m
  PROVE  /\ IsFiniteSet(S \union {m}) /\ Cardinality(S) \in Nat
         /\ Cardinality(S \union {m}) = Cardinality(S) + 1
         /\ \A k \in 1..Cardinality(S) : Nth(S \union {m}, k) = Nth(S, k)
         /\ Nth(S \union {m}, Cardinality(S) + 1) = m
<1> DEFINE U == S \union {m}
           n == Cardinality(S)
           Below(T, i) == {j \in T : j < i}
<1>1. m \notin S /\ m \in U
  OBVIOUS
<1>2. n \in Nat /\ IsFiniteSet(U) /\ Cardinality(U) = n + 1
  BY <1>1, FS_CardinalityType, FS_AddElement
<1>3. ASSUME NEW i \in S PROVE Below(U, i) = Below(S, i)
  BY <1>3
<1>4. Below(U, m) = S
  <2>1. ~(m < m) /\ \A j \in S : j < m
    OBVIOUS
  <2>2. QED
    BY <2>1
<1>5. \A i \in S : Cardinality(Below(S, i)) \in Nat /\ Cardinality(Below(S, i)) < n
  <2>1. ASSUME NEW i \in S PROVE Cardinality(Below(S, i)) \in Nat /\ Cardinality(Below(S, i)) < n
    <3> DEFINE V == Below(S, i)
    <3>1. V \in SUBSET S /\ V # S
      <4>1. i \in S /\ i \notin V
        OBVIOUS
      <4>2. QED
        BY <4>1
    <3> HIDE DEF V
    <3>2. Cardinality(V) <= n /\ IsFiniteSet(V) /\ Cardinality(V) # n
      BY <3>1, FS_Subset
    <3>3. Cardinality(V) \in Nat
      BY <3>2, FS_CardinalityType
    <3>4. QED
      BY <1>2, <3>2, <3>3 DEF V
  <2>2. QED
    BY <2>1
<1>6. \A T, k : Ranked(T, k) = {i \in T : Cardinality(Below(T, i)) = k - 1}
  BY DEF Ranked
<1> HIDE DEF Below
<1>7. ASSUME NEW k \in 1..n PROVE Ranked(U, k) = Ranked(S, k)
  <2>1. k \in Nat /\ n # k - 1
    BY <1>2
  <2> HIDE DEF n
  <2>2. Cardinality(Below(U, m)) = n
    BY <1>4 DEF n
  <2>3. Ranked(U, k) = {i \in U : Cardinality(Below(U, i)) = k - 1}
    BY <1>6
  <2>4. Ranked(S, k) = {i \in S : Cardinality(Below(S, i)) = k - 1}
    BY <1>6
  <2>5. QED
    BY <1>3, <2>1, <2>2, <2>3, <2>4
<1>8. ASSUME NEW k, k = n + 1 PROVE Ranked(U, k) = {m}
  <2> HIDE DEF n
  <2>1. k - 1 = n
    BY <1>2, <1>8
  <2>2. Cardinality(Below(U, m)) = n
    BY <1>4 DEF n
  <2>3. Ranked(U, k) = {i \in U : Cardinality(Below(U, i)) = k - 1}
    BY <1>6
  <2>4. \A i \in S : Cardinality(Below(U, i)) # n
    BY <1>2, <1>3, <1>5
  <2>5. QED
    BY <2>1, <2>2, <2>3, <2>4
<1>9. \A k \in 1..n : Nth(U, k) = Nth(S, k)
  BY <1>7 DEF Nth
<1>10. Nth(U, n + 1) = m
  <2>1. Ranked(U, n + 1) = {m}
    BY <1>8
  <2>2. QED
    BY <2>1 DEF Nth
<1>11. QED
  BY <1>2, <1>9, <1>10

-----------------------------------------------------------------------------
(* Types, with either notion of a line break.                               *)

Printable == {"EOL"} \union UNION {Range(Encoding[c]) : c \in Chars}

\* The streams are those of the file once they are computed, and what was
\* selected lies behind the scan.
Shape ==
  /\ File /\ normalize \in BOOLEAN
  /\ \/ next = -1 /\ breaks = {} /\ places = {} /\ selected = {} /\ output = << >>
     \/ next \in 0..filesize + 1 /\ breaks = RecordBreaks /\ places = MatchPlaces
  /\ selected \subseteq {p \in places : p < next}
  /\ output \in Seq(Printable)

LEMMA ShapeIsTyped == Shape => TypeOK
<1> SUFFICES ASSUME Shape PROVE TypeOK
  OBVIOUS
<1>1. File /\ normalize \in BOOLEAN /\ output \in Seq(Printable)
  BY DEF Shape
<1>2. filesize \in Nat
  <2>1. filesize = E(Len(chars)) /\ Len(chars) \in 0..Len(chars)
    BY <1>1, EndsOfFile
  <2>2. QED
    BY <1>1, <2>1, EndsOfFile
<1>3. RecordBreaks \subseteq MatchPlaces /\ MatchPlaces \subseteq Position
  BY DEF RecordBreaks, MatchPlaces, UnicodeLineBreak, LF, LF_VT_FF_CR, NEL, LS_PS
<1>4. places \subseteq Position /\ breaks \subseteq places
  BY <1>3 DEF Shape
<1>5. next \in -1..filesize + 1
  BY <1>2 DEF Shape
<1>6. selected \subseteq Position
  BY <1>4 DEF Shape
<1>7. QED
  BY <1>1, <1>4, <1>5, <1>6 DEF TypeOK, File, Printable

LEMMA ReportIsTyped ==
  ASSUME Shape, NEW p \in places
  PROVE  report_match(p) \in Seq(Printable)
<1>1. File /\ TypeOK
  BY ShapeIsTyped DEF Shape
<1>2. filesize \in Nat /\ buffer \in Seq(Byte) /\ filesize = Len(buffer)
  <2>1. filesize = E(Len(chars)) /\ Len(chars) \in 0..Len(chars) /\ chars \in Seq(Chars) /\ buffer = Bytes(chars)
    BY <1>1, EndsOfFile DEF File
  <2>2. filesize \in Nat
    BY <1>1, <2>1, EndsOfFile
  <2>3. Upto(chars, Len(chars)) \in Seq(Byte) /\ Upto(chars, Len(chars)) = Bytes(chars)
    BY <2>1, EndsAre
  <2>4. QED
    BY <2>1, <2>2, <2>3 DEF filesize
<1>3. p \in 0..filesize /\ breaks \subseteq 0..filesize
  BY <1>1 DEF TypeOK, Position
<1>4. LineStart(p) \in Nat
  <2>1. CASE BreaksBefore(p) = {}
    BY <2>1 DEF LineStart
  <2>2. CASE BreaksBefore(p) # {}
    <3> DEFINE T == BreaksBefore(p)
    <3>1. T \subseteq 0..filesize
      BY <1>3 DEF BreaksBefore
    <3> HIDE DEF T
    <3>2. T \subseteq Nat /\ \A k \in T : k <= filesize
      BY <3>1
    <3>3. Max(T) \in T /\ \A k \in T : k <= Max(T)
      BY <1>2, <2>2, <3>2, MaxIs DEF T
    <3>4. (CHOOSE q \in T : \A r \in T : r <= q) \in T
      BY <3>3
    <3>5. LineStart(p) = 1 + CHOOSE q \in T : \A r \in T : r <= q
      BY <2>2 DEF LineStart, T
    <3> DEFINE m == CHOOSE q \in T : \A r \in T : r <= q
    <3> HIDE DEF m
    <3>6. m \in Nat /\ LineStart(p) = 1 + m
      BY <3>2, <3>4, <3>5 DEF m
    <3>7. QED
      BY <3>6
  <2>3. QED
    BY <2>1, <2>2
<1>5. ReportStart(p) \in Nat
  BY <1>4 DEF ReportStart
<1>6. ASSUME NEW first \in Nat, NEW last \in Int, last <= filesize - 1
      PROVE  Written(first, last) \in Seq(Printable)
  <2>1. \A k \in first + 1..last + 1 : k \in 1..Len(buffer)
    BY <1>2, <1>6
  <2>2. \A k \in first + 1..last + 1 : buffer[k] \in Byte
    BY <1>2, <2>1
  <2>3. \A k \in first + 1..last + 1 : buffer[k] \in Printable
    BY <2>2 DEF Byte, Printable
  <2>4. first + 1 \in Int /\ last + 1 \in Int
    OBVIOUS
  <2>5. SubSeq(buffer, first + 1, last + 1) \in Seq(Printable)
    BY <2>3, <2>4, SubSeqProperties
  <2>6. QED
    BY <2>5 DEF Written
<1>7. <<"EOL">> \in Seq(Printable) /\ << >> \in Seq(Printable)
  <2>1. "EOL" \in Printable
    BY DEF Printable
  <2>2. QED
    BY <2>1
<1>8. CASE p = filesize
  <2>1. p - 1 \in Int /\ p - 1 <= filesize - 1
    BY <1>2, <1>8
  <2>2. Written(ReportStart(p), p - 1) \in Seq(Printable)
    BY <1>5, <1>6, <2>1
  <2>3. CASE normalize
    BY <1>7, <1>8, <2>2, <2>3, ConcatProperties DEF report_match
  <2>4. CASE ~normalize
    BY <1>7, <1>8, <2>2, <2>4, ConcatProperties DEF report_match
  <2>5. QED
    BY <2>3, <2>4
<1>9. CASE p # filesize
  <2>1. p \in 0..filesize - 1
    BY <1>2, <1>3, <1>9
  <2>2. CASE normalize
    <3>1. BreakLength(p) \in 1..3
      BY DEF BreakLength
    <3>2. p - BreakLength(p) \in Int /\ p - BreakLength(p) <= filesize - 1
      BY <1>2, <2>1, <3>1
    <3>3. Written(ReportStart(p), p - BreakLength(p)) \in Seq(Printable)
      BY <1>5, <1>6, <3>2
    <3>4. QED
      BY <1>7, <1>9, <2>2, <3>3, ConcatProperties DEF report_match
  <2>3. CASE ~normalize
    <3>1. ByteAt(p + 1) = "0A" => p + 1 \in 0..filesize - 1
      BY DEF ByteAt
    <3>2. BreakEnd(p) \in Int /\ BreakEnd(p) <= filesize - 1
      BY <1>2, <2>1, <3>1 DEF BreakEnd
    <3>3. Written(ReportStart(p), BreakEnd(p)) \in Seq(Printable)
      BY <1>5, <1>6, <3>2
    <3>4. QED
      BY <1>9, <2>3, <3>3 DEF report_match
  <2>4. QED
    BY <2>2, <2>3
<1>10. QED
  BY <1>8, <1>9

LEMMA ShapeInit == Init => Shape
<1> SUFFICES ASSUME Init PROVE Shape
  OBVIOUS
<1>1. PICK n \in 1..MaxChars : chars \in [1..n -> Chars]
  BY DEF Init
<1>2. chars \in Seq(Chars) /\ Len(chars) = n /\ n \in Nat \ {0}
  BY <1>1, MaxCharsAssumption
<1>3. << >> \in Seq(Printable)
  OBVIOUS
<1>4. QED
  BY <1>2, <1>3 DEF Init, Shape, File

LEMMA ShapeNext == Shape /\ [Next]_vars => Shape'
<1> SUFFICES ASSUME Shape, [Next]_vars PROVE Shape'
  OBVIOUS
<1>1. File /\ normalize \in BOOLEAN /\ filesize \in Nat /\ TypeOK
  <2>1. File /\ normalize \in BOOLEAN /\ TypeOK
    BY ShapeIsTyped DEF Shape
  <2>2. filesize = E(Len(chars)) /\ Len(chars) \in 0..Len(chars)
    BY <2>1, EndsOfFile
  <2>3. QED
    BY <2>1, <2>2, EndsOfFile
<1>2. ASSUME UNCHANGED file
      PROVE  /\ File' /\ normalize' \in BOOLEAN /\ filesize' = filesize
             /\ RecordBreaks' = RecordBreaks /\ MatchPlaces' = MatchPlaces
  <2>1. UNCHANGED <<chars, buffer, normalize>>
    BY <1>2 DEF file
  <2>2. filesize' = filesize /\ Position' = Position
    BY <2>1 DEF filesize, Position
  <2>3. \A p : ByteAt(p)' = ByteAt(p)
    BY <2>1, <2>2 DEF ByteAt
  <2>4. finalLineIsUnterminated' <=> finalLineIsUnterminated
    BY <2>2, <2>3 DEF finalLineIsUnterminated
  <2>5. \A p : Input(p)' = Input(p)
    BY <2>2, <2>3, <2>4 DEF Input
  <2>6. LF' = LF /\ LF_VT_FF_CR' = LF_VT_FF_CR
    BY <2>2, <2>5 DEF LF, LF_VT_FF_CR
  <2>7. CRLF' = CRLF
    BY <2>5, <2>6 DEF CRLF
  <2>8. NEL' = NEL
    BY <2>2, <2>5 DEF NEL
  <2>9. LS_PS' = LS_PS
    BY <2>2, <2>5 DEF LS_PS
  <2>10. UnicodeLineBreak' = UnicodeLineBreak
    BY <2>6, <2>7, <2>8, <2>9 DEF UnicodeLineBreak
  <2>11. RecordBreaks' = RecordBreaks /\ MatchPlaces' = MatchPlaces
    BY <2>6, <2>7, <2>10 DEF RecordBreaks, MatchPlaces
  <2>12. QED
    BY <1>1, <2>1, <2>2, <2>11 DEF File
<1>3. ASSUME ComputeStreams PROVE Shape'
  <2>1. UNCHANGED file /\ breaks' = RecordBreaks /\ places' = MatchPlaces /\ next' = 0 /\ next = -1
        /\ selected' = selected /\ output' = output
    BY <1>3 DEF ComputeStreams
  <2>2. selected = {} /\ output \in Seq(Printable)
    BY <2>1 DEF Shape
  <2>3. 0 \in 0..filesize + 1
    BY <1>1
  <2>4. QED
    BY <1>2, <2>1, <2>2, <2>3 DEF Shape
<1>4. ASSUME NEW p \in places, Reaches(p), next' = p + 1, UNCHANGED <<file, breaks, places>>
      PROVE  /\ File' /\ normalize' \in BOOLEAN /\ next' \in 0..filesize' + 1
             /\ breaks' = RecordBreaks' /\ places' = MatchPlaces'
             /\ p \in places' /\ p < next' /\ \A q \in selected : q \in places' /\ q < next'
  <2>1. next # -1
    BY <1>4 DEF Shape
  <2>2. p \in 0..filesize /\ next <= p /\ next \in Int
    BY <1>1, <1>4 DEF TypeOK, Position, Reaches
  <2>3. breaks = RecordBreaks /\ places = MatchPlaces
    BY <2>1 DEF Shape
  <2>4. next' \in 0..filesize + 1 /\ p < next'
    BY <1>1, <1>4, <2>2
  <2>5. \A q \in selected : q \in places /\ q < next /\ q \in Int
    BY <1>1 DEF Shape, TypeOK, Position
  <2>6. \A q \in selected : q < next'
    BY <1>4, <2>2, <2>5
  <2>7. QED
    BY <1>2, <1>4, <2>3, <2>4, <2>5, <2>6
<1>5. ASSUME ReportMatch PROVE Shape'
  <2>1. PICK p \in places : /\ Reaches(p) /\ output' = output \o report_match(p)
                            /\ selected' = selected \union {p} /\ next' = p + 1
                            /\ UNCHANGED <<file, breaks, places>>
    BY <1>5 DEF ReportMatch
  <2>2. output' \in Seq(Printable)
    <3>1. output \in Seq(Printable) /\ report_match(p) \in Seq(Printable)
      BY ReportIsTyped DEF Shape
    <3>2. QED
      BY <2>1, <3>1, ConcatProperties
  <2>3. QED
    BY <1>4, <2>1, <2>2 DEF Shape
<1>6. ASSUME NoMatch PROVE Shape'
  <2>1. PICK p \in places : /\ Reaches(p) /\ next' = p + 1
                            /\ UNCHANGED <<file, breaks, places, selected, output>>
    BY <1>6 DEF NoMatch
  <2>2. output' \in Seq(Printable) /\ selected' = selected
    BY <2>1 DEF Shape
  <2>3. QED
    BY <1>4, <2>1, <2>2 DEF Shape
<1>7. ASSUME UNCHANGED vars PROVE Shape'
  <2>1. UNCHANGED <<file, breaks, places, next, selected, output>>
    BY <1>7 DEF vars
  <2>2. QED
    BY <1>2, <2>1 DEF Shape
<1>8. QED
  BY <1>3, <1>5, <1>6, <1>7 DEF Next

LEMMA ShapeAlways == Spec => []Shape
<1>1. QED
  BY ShapeInit, ShapeNext, PTL DEF Spec

\* Every variable keeps its type, whichever line breaks there are.
THEOREM LinesTypeCorrect == Spec => []TypeOK
BY ShapeAlways, ShapeIsTyped, PTL

-----------------------------------------------------------------------------
(* What has been printed, with the Unicode line breaks.                     *)

\* The lines stay what they are.
LEMMA LinesStay ==
  ASSUME UNCHANGED file
  PROVE  /\ LastChars' = LastChars
         /\ \A i, p : ReportedAt(i, p)' <=> ReportedAt(i, p)
         /\ \A i : Printed(i)' = Printed(i)
<1>1. UNCHANGED <<chars, buffer, normalize>>
  BY DEF file
<1>2. \A i : EndsLine(i)' <=> EndsLine(i)
  BY <1>1 DEF EndsLine
<1>3. LastChars' = LastChars
  BY <1>1, <1>2 DEF LastChars
<1>4. \A i, p : ReportedAt(i, p)' <=> ReportedAt(i, p)
  BY <1>1, <1>2 DEF ReportedAt, LastByte, ByteAt, filesize
<1>5. \A i : LineOf(i)' = LineOf(i)
  BY <1>1, <1>3 DEF LineOf
<1>6. \A i : Printed(i)' = Printed(i)
  BY <1>1, <1>5 DEF Printed
<1>7. QED
  BY <1>3, <1>4, <1>6

LEMMA SelectedLinesAre ==
  ASSUME Shape, ~LFOnly
  PROVE  /\ SelectedLines = {i \in LastChars : Place(i) \in selected}
         /\ SelectedLines \subseteq Nat /\ IsFiniteSet(SelectedLines)
         /\ next # -1 => /\ breaks = {Place(i) : i \in LastChars}
                         /\ places = {Place(i) : i \in LastChars}
         /\ selected # {} => next # -1
<1>1. File
  BY DEF Shape
<1>2. next # -1 => /\ breaks = {Place(i) : i \in LastChars}
                   /\ places = {Place(i) : i \in LastChars}
  BY <1>1, PlacesAre DEF Shape
<1>3. selected # {} => next # -1
  BY DEF Shape
<1>4. \A p \in selected : \E i \in LastChars : p = Place(i)
  BY <1>2, <1>3 DEF Shape
<1>5. ASSUME NEW i \in LastChars
      PROVE  (\E p \in selected : ReportedAt(i, p)) <=> Place(i) \in selected
  <2>1. ASSUME NEW p \in selected, ReportedAt(i, p) PROVE Place(i) \in selected
    <3>1. PICK j \in LastChars : p = Place(j)
      BY <1>4
    <3>2. i = j
      BY <1>1, <2>1, <3>1, ReportedAtPlace
    <3>3. QED
      BY <3>1, <3>2
  <2>2. ASSUME Place(i) \in selected PROVE \E p \in selected : ReportedAt(i, p)
    <3>1. ReportedAt(i, Place(i))
      BY <1>1, ReportedAtPlace
    <3>2. QED
      BY <2>2, <3>1
  <2>3. QED
    BY <2>1, <2>2
<1>6. SelectedLines = {i \in LastChars : Place(i) \in selected}
  BY <1>5 DEF SelectedLines
<1>7. SelectedLines \subseteq 1..Len(chars) /\ Len(chars) \in Nat
  BY <1>1, <1>6, LinesEnd DEF File
<1>8. IsFiniteSet(SelectedLines)
  <2>1. IsFiniteSet(1..Len(chars))
    BY <1>7, FS_Interval
  <2>2. QED
    BY <1>7, <2>1, FS_Subset
<1>9. SelectedLines \subseteq Nat
  BY <1>7
<1>10. QED
  BY <1>2, <1>3, <1>6, <1>8, <1>9

\* When a line is reported, it is the last of those selected.
LEMMA NextSelected ==
  ASSUME Shape, ~LFOnly, NEW p \in places, Reaches(p),
         selected' = selected \union {p}, UNCHANGED file, Shape'
  PROVE  \E m \in LastChars : /\ p = Place(m) /\ SelectedLines' = SelectedLines \union {m}
                              /\ m \in Nat /\ \A i \in SelectedLines : i < m
<1>1. File /\ next # -1
  BY DEF Shape
<1>2. PICK m \in LastChars : p = Place(m)
  BY <1>1, SelectedLinesAre
<1>3. m \in Nat /\ LastChars \subseteq Nat /\ p \in Int /\ next <= p /\ next \in Int
  <2>1. LastChars \subseteq 1..Len(chars)
    BY <1>1, LinesEnd
  <2>2. \A i \in LastChars : i \in Nat
    BY <2>1
  <2>3. p \in Int
    BY <1>1, <1>2, PlaceIs
  <2>4. next \in Int
    BY <1>1, ShapeIsTyped DEF TypeOK
  <2>5. QED
    BY <2>2, <2>3, <2>4 DEF Reaches
<1>4. SelectedLines' = SelectedLines \union {m}
  <2>1. \A i \in LastChars : ReportedAt(i, p) <=> i = m
    BY <1>1, <1>2, ReportedAtPlace
  <2>2. SelectedLines' = {i \in LastChars : \E q \in selected \union {p} : ReportedAt(i, q)}
    BY LinesStay DEF SelectedLines
  <2>3. QED
    BY <2>1, <2>2 DEF SelectedLines
<1>5. ASSUME NEW i \in SelectedLines PROVE i < m
  <2>1. i \in LastChars /\ Place(i) \in selected
    BY SelectedLinesAre
  <2>2. Place(i) < next /\ Place(i) \in Int
    BY <1>1, <2>1, PlaceIs DEF Shape
  <2>3. Place(i) < Place(m)
    BY <1>2, <1>3, <2>2
  <2>4. ~(m < i)
    <3>1. SUFFICES ASSUME m < i PROVE FALSE
      OBVIOUS
    <3>2. Place(m) < Place(i) /\ Place(m) \in Int
      BY <1>1, <2>1, <3>1, PlacesInOrder, PlaceIs
    <3>3. QED
      BY <2>2, <2>3, <3>2
  <2>5. i # m
    <3>1. Place(m) \in Int
      BY <1>1, PlaceIs
    <3>2. QED
      BY <2>3, <3>1
  <2>6. QED
    BY <1>3, <2>1, <2>4, <2>5
<1>6. QED
  BY <1>2, <1>3, <1>4, <1>5

IInv == Shape /\ OutputIsSelectedLines

LEMMA OutputInit ==
  ASSUME Init
  PROVE  OutputIsSelectedLines
<1>1. SelectedLines = {} /\ output = << >>
  BY DEF Init, SelectedLines
<1> DEFINE s == [k \in 1..Cardinality(SelectedLines) |-> Printed(Nth(SelectedLines, k))]
<1>2. s = << >>
  <2>1. Cardinality(SelectedLines) = 0
    BY <1>1, FS_EmptySet
  <2>2. QED
    BY <2>1
<1>3. FlattenSeq(s) = << >>
  BY <1>2 DEF FlattenSeq
<1>4. QED
  BY <1>1, <1>3 DEF OutputIsSelectedLines

\* One more line at the end, and nothing else changes.
LEMMA OutputGrows ==
  ASSUME NEW S, S \subseteq Nat, IsFiniteSet(S), NEW m \in Nat, \A i \in S : i < m,
         Printed(m) \in Seq(Printable)
  PROVE  FlattenSeq([k \in 1..Cardinality(S \union {m}) |-> Printed(Nth(S \union {m}, k))])
           = FlattenSeq([k \in 1..Cardinality(S) |-> Printed(Nth(S, k))]) \o Printed(m)
<1> DEFINE n == Cardinality(S)
           U == S \union {m}
           s == [k \in 1..n |-> Printed(Nth(S, k))]
           u == [k \in 1..n + 1 |-> Printed(Nth(U, k))]
<1>1. n \in Nat /\ Cardinality(U) = n + 1 /\ (\A k \in 1..n : Nth(U, k) = Nth(S, k)) /\ Nth(U, n + 1) = m
  BY NthIs
<1>2. u = [k \in 1..Cardinality(U) |-> Printed(Nth(U, k))]
  BY <1>1
<1> HIDE DEF n, U
<1>3. /\ Len(s) = n /\ Len(u) = n + 1 /\ \A k \in 1..n : s[k] = u[k]
      /\ u[n + 1] = Printed(m)
  BY <1>1
<1>4. n = 0 => s = << >>
  OBVIOUS
<1>5. n = 0 => [k \in 1..n |-> u[k]] = << >>
  OBVIOUS
<1> HIDE DEF s, u
<1>6. FlattenSeq(u) = FlattenSeq(s) \o Printed(m)
  <2>1. CASE n = 0
    <3>1. Len(u) = 0 + 1 /\ \A k \in 1..0 + 1 : u[k] \in Seq(Printable)
      BY <1>3, <2>1
    <3>2. FlattenSeq(u) = FlattenSeq([k \in 1..0 |-> u[k]]) \o u[0 + 1]
      BY <3>1, FlattenMore
    <3>3. [k \in 1..0 |-> u[k]] = s
      BY <1>4, <1>5, <2>1
    <3>4. QED
      BY <1>3, <2>1, <3>2, <3>3
  <2>2. CASE n # 0
    <3>1. n \in Nat \ {0}
      BY <1>1, <2>2
    <3>2. FlattenSeq(u) = FlattenSeq(s) \o u[n + 1]
      BY <1>3, <3>1, FlattenGrows
    <3>3. QED
      BY <1>3, <3>2
  <2>3. QED
    BY <2>1, <2>2
<1>7. QED
  BY <1>2, <1>6 DEF n, U, s

LEMMA OutputNext ==
  ASSUME IInv, ~LFOnly, [Next]_vars, Shape'
  PROVE  OutputIsSelectedLines'
<1>1. Shape /\ OutputIsSelectedLines
  BY DEF IInv
<1>2. ASSUME UNCHANGED <<file, selected, output>> PROVE OutputIsSelectedLines'
  <2>1. SelectedLines' = SelectedLines
    BY <1>2, LinesStay DEF SelectedLines
  <2>2. [k \in 1..Cardinality(SelectedLines) |-> Printed(Nth(SelectedLines, k))]'
          = [k \in 1..Cardinality(SelectedLines) |-> Printed(Nth(SelectedLines, k))]
    BY <1>2, <2>1, LinesStay
  <2>3. QED
    BY <1>1, <1>2, <2>2 DEF OutputIsSelectedLines
<1>3. ASSUME ReportMatch PROVE OutputIsSelectedLines'
  <2>1. PICK p \in places : /\ Reaches(p) /\ output' = output \o report_match(p)
                            /\ selected' = selected \union {p}
                            /\ UNCHANGED <<file, breaks, places>>
    BY <1>3 DEF ReportMatch
  <2>2. PICK m \in LastChars : /\ p = Place(m) /\ SelectedLines' = SelectedLines \union {m}
                               /\ m \in Nat /\ \A i \in SelectedLines : i < m
    BY <1>1, <2>1, NextSelected
  <2>3. breaks = {Place(i) : i \in LastChars} /\ SelectedLines \subseteq Nat /\ IsFiniteSet(SelectedLines)
    <3>1. next # -1
      BY <1>1 DEF Shape
    <3>2. QED
      BY <1>1, <3>1, SelectedLinesAre
  <2>4. report_match(p) = Printed(m)
    BY <1>1, <2>2, <2>3, ReportIsPrinted DEF Shape
  <2>5. Printed(m) \in Seq(Printable)
    BY <1>1, <2>4, ReportIsTyped
  <2> DEFINE S == SelectedLines
             U == S \union {m}
  <2>6. FlattenSeq([k \in 1..Cardinality(U) |-> Printed(Nth(U, k))])
          = FlattenSeq([k \in 1..Cardinality(S) |-> Printed(Nth(S, k))]) \o Printed(m)
    BY <2>2, <2>3, <2>5, OutputGrows
  <2>7. [k \in 1..Cardinality(SelectedLines) |-> Printed(Nth(SelectedLines, k))]'
          = [k \in 1..Cardinality(U) |-> Printed(Nth(U, k))]
    BY <2>1, <2>2, LinesStay
  <2>8. QED
    BY <1>1, <2>1, <2>4, <2>6, <2>7 DEF OutputIsSelectedLines
<1>4. ASSUME ComputeStreams \/ NoMatch \/ UNCHANGED vars PROVE UNCHANGED <<file, selected, output>>
  BY <1>4 DEF ComputeStreams, NoMatch, vars
<1>5. QED
  BY <1>2, <1>3, <1>4 DEF Next

LEMMA InvariantHolds ==
  ASSUME ~LFOnly
  PROVE  Spec => []IInv
<1>1. Init => IInv
  BY ShapeInit, OutputInit DEF IInv
<1>2. IInv /\ [Next]_vars => IInv'
  <2> SUFFICES ASSUME IInv, [Next]_vars PROVE IInv'
    OBVIOUS
  <2>1. Shape'
    BY ShapeNext DEF IInv
  <2>2. QED
    BY <2>1, OutputNext DEF IInv
<1>3. QED
  BY <1>1, <1>2, PTL DEF Spec

\* With the Unicode line breaks, what is printed is the lines that matched, byte
\* for byte, each with its own break or the program's: finalLineIsUnterminated,
\* the streams and wrapped_report_match agree on where every line ends.
THEOREM OutputIsTheLines ==
  ASSUME ~LFOnly
  PROVE  Spec => []OutputIsSelectedLines
<1>1. IInv => OutputIsSelectedLines
  BY DEF IInv
<1>2. QED
  BY <1>1, InvariantHolds, PTL

\* Every line of the file has one place where a match may be reported: scanMatch
\* comes to each of them, to the last one too, however the file ends.
THEOREM LinesAreOffered ==
  ASSUME ~LFOnly
  PROVE  Spec => []EveryLineOffered
<1>1. Shape => EveryLineOffered
  <2> SUFFICES ASSUME Shape, Finished, NEW i \in LastChars
               PROVE  Cardinality({p \in places : ReportedAt(i, p)}) = 1
    BY DEF EveryLineOffered
  <2>1. File /\ next # -1
    BY ShapeIsTyped DEF Shape, Finished, TypeOK
  <2>2. places = {Place(j) : j \in LastChars}
    BY <2>1, SelectedLinesAre
  <2>3. \A j \in LastChars : ReportedAt(i, Place(j)) <=> i = j
    BY <2>1, ReportedAtPlace
  <2>4. {p \in places : ReportedAt(i, p)} = {Place(i)}
    BY <2>2, <2>3
  <2>5. QED
    BY <2>4, FS_Singleton
<1>2. QED
  BY <1>1, ShapeAlways, PTL

\* The number of a reported line counts the lines before it: there is one break
\* for each of them, and a CRLF counts once.
THEOREM LineNumbersCount ==
  ASSUME ~LFOnly
  PROVE  Spec => []LineNumbersRight
<1>1. Shape => LineNumbersRight
  <2> SUFFICES ASSUME Shape, NEW p \in selected, NEW i \in LastChars, ReportedAt(i, p)
               PROVE  Cardinality(BreaksBefore(p)) = Cardinality({j \in LastChars : j < i})
    BY DEF LineNumbersRight
  <2>1. File /\ p \in places /\ next # -1
    BY DEF Shape
  <2>2. breaks = {Place(j) : j \in LastChars} /\ places = {Place(j) : j \in LastChars}
    BY <2>1, SelectedLinesAre
  <2>3. p = Place(i)
    <3>1. PICK j \in LastChars : p = Place(j)
      BY <2>1, <2>2
    <3>2. i = j
      BY <2>1, <3>1, ReportedAtPlace
    <3>3. QED
      BY <3>1, <3>2
  <2> DEFINE A == {j \in LastChars : j < i}
             f == [j \in A |-> Place(j)]
             B == BreaksBefore(p)
  <2>4. B = {Place(j) : j \in A}
    BY <2>1, <2>2, <2>3, BreaksBeforeAre
  <2>5. LastChars \subseteq 1..Len(chars) /\ Len(chars) \in Nat
    BY <2>1, LinesEnd DEF File
  <2>6. IsFiniteSet(A)
    <3>1. IsFiniteSet(1..Len(chars))
      BY <2>5, FS_Interval
    <3>2. A \in SUBSET (1..Len(chars))
      BY <2>5
    <3> HIDE DEF A
    <3>3. QED
      BY <3>1, <3>2, FS_Subset
  <2>7. \A j, k \in LastChars : Place(j) = Place(k) => j = k
    <3>1. SUFFICES ASSUME NEW j \in LastChars, NEW k \in LastChars, Place(j) = Place(k), j # k PROVE FALSE
      OBVIOUS
    <3>2. j \in Int /\ k \in Int
      BY <2>5
    <3>3. j < k \/ k < j
      BY <3>1, <3>2
    <3>4. Place(j) < Place(k) \/ Place(k) < Place(j)
      BY <2>1, <3>3, PlacesInOrder
    <3>5. Place(j) \in Int
      BY <2>1, PlaceIs
    <3>6. QED
      BY <3>1, <3>4, <3>5
  <2>8. f \in Bijection(A, B)
    <3>1. f \in [A -> B]
      BY <2>4
    <3>2. \A j, k \in A : f[j] = f[k] => j = k
      BY <2>7
    <3>3. \A q \in B : \E j \in A : f[j] = q
      BY <2>4
    <3> HIDE DEF f, A, B
    <3>4. QED
      BY <3>1, <3>2, <3>3 DEF Bijection, Injection, Surjection, IsInjective
  <2>9. ExistsBijection(A, B)
    <3> HIDE DEF f, A, B
    <3>1. QED
      BY <2>8 DEF ExistsBijection
  <2>10. Cardinality(B) = Cardinality(A)
    <3> HIDE DEF A, B
    <3>1. QED
      BY <2>6, <2>9, FS_Bijection
  <2>11. QED
    BY <2>10
<1>2. QED
  BY <1>1, ShapeAlways, PTL
=============================================================================
