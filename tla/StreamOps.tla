----------------------------- MODULE StreamOps -----------------------------
(***************************************************************************)
(* What the compiled Pablo statements compute, bit by bit: operations on   *)
(* unbounded bit streams, carried out one block at a time with the vector  *)
(* instructions of IDISA and a carry from block to block                   *)
(* (CarryManager::addCarryInCarryOut, shortAdvance..., longAdvance...),     *)
(* the bounded repetitions that the RE compiler builds of them, and the    *)
(* deletion of positions that the transcoder's last kernels do of each     *)
(* block (deletion.cpp, p2s_kernel.cpp).                                   *)
(*                                                                         *)
(* A block is the set of the positions that hold a one.  The fields of a   *)
(* block, which have 64 bits in the code, have op.width bits here.         *)
(***************************************************************************)
EXTENDS Integers, Sequences, FiniteSets, FiniteSetsExt, SequencesExt

CONSTANTS
  Ops,      \* the operations: [name, width, fields, n]
  ByteBits, \* bound: the bits of a byte
  MaxRing   \* bound: the blocks of the largest circular buffer

MaskBits == 8  \* bound: the code's masks have 32 bits, of which it uses op.fields + 1

ASSUME OpsAssumption ==
  /\ ByteBits \in Nat \ {0} /\ MaxRing \in Nat \ {0}
  /\ \A o \in Ops :
       /\ o.name \in {"MatchStar", "ScanThru", "Advance", "consecutive", "reachable", "bounded",
                     "delete"}
       /\ o.width \in Nat \ {0} /\ o.fields \in Nat \ {0} /\ o.n \in Nat
       /\ (o.width * o.fields) % ByteBits = 0
       /\ o.name = "consecutive" => o.n # 0
       /\ o.name \in {"MatchStar", "ScanThru", "bounded"} => o.fields < MaskBits

VARIABLES
  op,       \* the operation, with its second argument n
  input,    \* the block of the stream and that of the character class or of the deletion
            \* mask, and where the stream ends, if it does in this block
  result,   \* the block of the result; of a deletion, the sequence of units written
  carry,    \* the carry packs and circular buffers of the statements
  blockNo,  \* the number of the block, modulo MaxRing
  pc,       \* "read" a block, or go on to the "next"
  past,     \* history: the earlier blocks that matter, the newest first
  open      \* history: whether a scan reaches the first position of this block

vars == <<op, input, result, carry, blockNo, pc, past, open>>

-----------------------------------------------------------------------------
(* Vector instructions.                                                     *)

F == op.width
W == op.width * op.fields
Block == SUBSET (0..W - 1)

Number(bits) == MapThenSumSet(LAMBDA i : 2^i, bits)
Bits(n, width) == {i \in 0..width - 1 : (n \div 2^i) % 2 = 1}
Field(w, a, k) == {i - k * w : i \in {j \in a : j \div w = k}}
Fields(w, f(_)) == UNION {{k * w + i : i \in f(k)} : k \in 0..(W \div w) - 1}

Not(a) == (0..W - 1) \ a
Xor(a, b) == (a \ b) \union (b \ a)
simd_add(w, a, b) == Fields(w, LAMBDA k : Bits(Number(Field(w, a, k)) + Number(Field(w, b, k)), w))
simd_slli(w, a, s) == {i \in 0..W - 1 : i % w >= s /\ i - s \in a}
simd_srli(w, a, s) == {i \in 0..W - 1 : (i % w) + s < w /\ i + s \in a}
mvmd_dslli(w, a, b, s) ==
  {i \in 0..W - 1 : IF i + s * w < W THEN i + s * w \in b ELSE i + s * w - W \in a}
hsimd_signmask(w, a) == {k \in 0..(W \div w) - 1 : (k + 1) * w - 1 \in a}
esimd_bitspread(w, mask) == {k * w : k \in mask \cap 0..(W \div w) - 1}

-----------------------------------------------------------------------------
(* Carries.                                                                 *)

\* The carry out is the most significant bit of this stream, moved down by setCarryOut.
CarryStream(e1, e2, sum) == (e1 \intersect e2) \union ((e1 \union e2) \ sum)

\* Mutant: the bit is not moved down.
setCarryOutUnshifted(stream) == stream

setCarryOut(stream) == simd_srli(W, stream, W - 1)

\* Blocks of one field.
AddSingle(e1, e2, q) ==
  LET sum == simd_add(W, simd_add(W, e1, e2), q)
  IN  [sum |-> sum, out |-> setCarryOut(CarryStream(e1, e2, sum))]

\* Blocks of two fields (128 bits): the carry of the lower goes into the upper.
AddPair(e1, e2, q) ==
  LET partial    == simd_add(F, simd_add(F, e1, e2), q)
      digitcarry == CarryStream(e1, e2, partial)
      sum == simd_add(F, partial, simd_slli(W, simd_srli(F, digitcarry, F - 1), F))
  IN  [sum |-> sum, out |-> setCarryOut(CarryStream(e1, e2, sum))]

\* Mutant: fields that are all ones do not pass a carry on.
AddWithoutBubble(e1, e2, q) ==
  LET digitsum   == simd_add(F, e1, e2)
      carryMask  == Number(hsimd_signmask(F, CarryStream(e1, e2, digitsum)))
      incrementMask == Bits(carryMask + carryMask, MaskBits) \union q
  IN  [sum |-> simd_add(F, digitsum, esimd_bitspread(F, incrementMask)),
       out |-> Bits(Number(incrementMask) \div 2^op.fields, W)]

\* LONG_ADD (256 bits and more): one addition of masks moves the carries through all
\* fields that are all ones.
AddLong(e1, e2, q) ==
  LET digitsum   == simd_add(F, e1, e2)
      carryMask  == Number(hsimd_signmask(F, CarryStream(e1, e2, digitsum)))
      carryMask2 == Number(Bits(carryMask + carryMask, MaskBits) \union (q \intersect 0..MaskBits - 1))
      bubbleMask == {k \in 0..op.fields - 1 : Field(F, digitsum, k) = 0..F - 1}
      incrementMask == Xor(Bits(Number(bubbleMask) + carryMask2, MaskBits), bubbleMask)
  IN  [sum |-> simd_add(F, digitsum, esimd_bitspread(F, incrementMask)),
       out |-> Bits(Number(incrementMask) \div 2^op.fields, W)]

addCarryInCarryOut(e1, e2, q) ==
  IF op.fields = 1 THEN AddSingle(e1, e2, q)
  ELSE IF op.fields = 2 THEN AddPair(e1, e2, q) ELSE AddLong(e1, e2, q)

\* A shift within a field takes in the field below, or the top field of the last block.
shortAdvance(n, value, q) ==
  IF n % ByteBits = 0
  THEN mvmd_dslli(ByteBits, value, q, (W \div ByteBits) - (n \div ByteBits))
  ELSE simd_srli(F, mvmd_dslli(F, value, q, op.fields - 1), F - n) \union simd_slli(F, value, n)

\* LongAdvanceBase is the width of a field.
IsLong(o, n) == n # 1 /\ n >= o.width
Entries(o, n) == (n + o.width * o.fields - 1) \div (o.width * o.fields)
BufferSize(o, n) == Min({c \in {2^k : k \in 0..MaxRing} : c >= Entries(o, n)})

\* Mutant: the two blocks are taken in the wrong order.
TwoBlocksSwapped(n, ring) ==
  LET at(back) == ring[(blockNo - back) % BufferSize(op, n)]
  IN  simd_srli(W, at(Entries(op, n) - 1), W - (n % W)) \union simd_slli(W, at(Entries(op, n)), n % W)

\* Parts of the two oldest blocks.
TwoBlocks(n, ring) ==
  LET at(back) == ring[(blockNo - back) % BufferSize(op, n)]
  IN  simd_srli(W, at(Entries(op, n)), W - (n % W)) \union simd_slli(W, at(Entries(op, n) - 1), n % W)

longAdvance(n, value, ring) ==
  IF n = W THEN ring[0]
  ELSE IF n < W THEN simd_slli(W, value, n) \union simd_srli(W, ring[0], W - n)
  ELSE IF n % W = 0 THEN ring[(blockNo - Entries(op, n)) % BufferSize(op, n)]
  ELSE TwoBlocks(n, ring)

Advance(n, value, q) ==
  IF IsLong(op, n)
  THEN [sum |-> longAdvance(n, value, q), out |-> [q EXCEPT ![blockNo % BufferSize(op, n)] = value]]
  ELSE [sum |-> shortAdvance(n, value, q), out |-> value]

-----------------------------------------------------------------------------
(* Statements, and the repetitions of RE_Compiler. Each takes the block of   *)
(* the stream, that of the character class and the carries of its statements.*)

MatchStar(m, cc, q) ==
  LET add == addCarryInCarryOut(m \intersect cc, cc, q)
  IN  [sum |-> Xor(add.sum, cc) \union m, out |-> add.out]

ScanThru(m, cc, q) ==
  LET add == addCarryInCarryOut(m, cc, q) IN [sum |-> add.sum \ cc, out |-> add.out]

\* Mutant: the doubling stops a step late and the rest is not made up.
DoublingsOnly(total) == [j \in 1..Min({k \in 0..total : 2^k >= total}) |-> 2^(j - 1)]

\* i doubles as long as it stays below the total; a last shift makes up the rest.
Doublings(total) ==
  LET times == Min({k \in 0..total : 2^k * 2 >= total})
      i == 2^times
  IN  [j \in 1..times |-> 2^(j - 1)] \o (IF i < total THEN <<total - i>> ELSE << >>)

\* The stream joined with itself, advanced by each of the shifts in turn.
Joined(shifts, stream, q, join(_, _)) ==
  LET after[j \in 0..Len(shifts)] ==
        IF j = 0 THEN [sum |-> stream, out |-> << >>]
        ELSE LET adv == Advance(shifts[j], after[j - 1].sum, q[j])
             IN  [sum |-> join(after[j - 1].sum, adv.sum), out |-> Append(after[j - 1].out, adv.out)]
  IN  after[Len(shifts)]

Shifts(name, n) ==
  IF name = "consecutive" THEN Doublings(n)
  ELSE IF n = 0 THEN << >> ELSE <<1>> \o Doublings(n)

Repeating(o) == o.name \in {"consecutive", "reachable", "bounded"}
ShiftsOf(o) == IF Repeating(o) THEN Shifts(o.name, o.n) ELSE <<o.n>>

\* The bound is a multiple of the size of every circular buffer: the number of the block
\* modulo MaxRing says where in the buffer it goes.
ASSUME MaxRingAssumption ==
  \A o \in Ops : o.name = "Advance" \/ Repeating(o) =>
    \A j \in DOMAIN ShiftsOf(o) : IsLong(o, ShiftsOf(o)[j]) =>
      /\ Entries(o, ShiftsOf(o)[j]) <= MaxRing
      /\ MaxRing % BufferSize(o, ShiftsOf(o)[j]) = 0

consecutive_matches(stream, q) ==
  Joined(Shifts("consecutive", op.n), stream, q, LAMBDA a, b : a \intersect b)
reachable(stream, q) == Joined(Shifts("reachable", op.n), stream, q, LAMBDA a, b : a \union b)

\* processBoundedRep: as far as the class goes, but no further than n. The carry of the
\* MatchStar comes first.
bounded(m, cc, q) ==
  LET star == MatchStar(m, cc, q[1])
      mask == reachable(m, Tail(q))
  IN  [sum |-> star.sum \intersect mask.sum, out |-> <<star.out>> \o mask.out]

-----------------------------------------------------------------------------
(* Deletion.  A block has as many fields as a register of output has units. *)

\* The loops double a shift from 1 as long as it is less than n.
Doubled(n) == Min({k \in 0..n : 2^k >= n})

\* The positions with an odd number of marks at or below them in their field.
parity(mk) ==
  LET mp[k \in 0..Doubled(F)] ==
        IF k = 0 THEN mk ELSE Xor(mp[k - 1], simd_slli(F, mp[k - 1], 2^(k - 1)))
  IN  mp[Doubled(F)]

\* Mutant: positions keep the number of deletions that earlier moves have used up.
move_masks_unreduced(del) ==
  LET move[k \in 0..Doubled(F)] ==
        IF k = 0 THEN [m |-> Not(del), mk |-> simd_slli(F, del, 1), mv |-> {}]
        ELSE LET before == move[k - 1]
                 mv == parity(before.mk) \intersect before.m
             IN  [m |-> Xor(before.m, mv) \union simd_srli(F, mv, 2^(k - 1)),
                  mk |-> before.mk,
                  mv |-> mv]
  IN  [k \in 1..Doubled(F) |-> move[k].mv]

\* For each power of two, the positions to be moved down by it: those with an odd number
\* of marks in mk at or below them, which keeps every second mark for the next power.
parallel_prefix_deletion_masks(del) ==
  LET move[k \in 0..Doubled(F)] ==
        IF k = 0 THEN [m |-> Not(del), mk |-> simd_slli(F, del, 1), mv |-> {}]
        ELSE LET before == move[k - 1]
                 mp == parity(before.mk)
                 mv == mp \intersect before.m
             IN  [m |-> Xor(before.m, mv) \union simd_srli(F, mv, 2^(k - 1)),
                  mk |-> before.mk \ mp,
                  mv |-> mv]
  IN  [k \in 1..Doubled(F) |-> move[k].mv]

apply_parallel_prefix_deletion(del, masks, stream) ==
  LET after[i \in 0..Len(masks)] ==
        IF i = 0 THEN stream \ del
        ELSE LET t == after[i - 1] \intersect masks[i]
             IN  Xor(after[i - 1], t) \union simd_srli(F, t, 2^(i - 1))
  IN  after[Len(masks)]

\* The number of positions kept in each field and those before it. The fields of 8, 16
\* or 32 bits in the code hold the width of a block, which is 16 times theirs.
partial_sum_popcount(mask) ==
  LET sum[j \in 0..Doubled(op.fields)] ==
        IF j = 0 THEN [k \in 0..op.fields - 1 |-> Cardinality(Field(F, mask, k))]
        ELSE LET before == sum[j - 1]
                 move   == 2^(j - 1)
             IN  [k \in 0..op.fields - 1 |->
                    before[k] + (IF k >= move THEN before[k - move] ELSE 0)]
  IN  sum[Doubled(op.fields)]

\* Each register is stored whole behind the units kept of those before it, over what
\* they left there; then the units kept of all are written.
CompressedOutput(stream, counts) ==
  LET offset(k) == IF k = 0 THEN 0 ELSE counts[k - 1]
      stored[k \in 0..op.fields] ==
        IF k = 0 THEN << >>
        ELSE LET start == offset(k - 1)
             IN  [j \in 1..start + F |->
                    IF j > start THEN (k - 1) * F + (j - start - 1) \in stream ELSE stored[k - 1][j]]
  IN  SubSeq(stored[op.fields], 1, offset(op.fields))

\* ExecuteKernels: from the end of the input on everything is deleted.
EOF_del(end) == {p \in 0..W - 1 : p >= end}

delete(stream, del) ==
  LET masks == parallel_prefix_deletion_masks(del)
  IN  CompressedOutput(apply_parallel_prefix_deletion(del, masks, stream),
                       partial_sum_popcount(Not(del)))

-----------------------------------------------------------------------------
(* Blocks one after another.                                                *)

\* The carry of an Advance before the first block.
Empty(o, n) == IF IsLong(o, n) THEN [k \in 0..BufferSize(o, n) - 1 |-> {}] ELSE {}

NoCarry(o) ==
  IF o.name \in {"MatchStar", "ScanThru", "delete"} THEN {}
  ELSE IF o.name = "Advance" THEN Empty(o, o.n)
  ELSE LET advances == [j \in DOMAIN Shifts(o.name, o.n) |-> Empty(o, Shifts(o.name, o.n)[j])]
       IN  IF o.name = "bounded" THEN <<{}>> \o advances ELSE advances

Compute(m, cc, end) ==
  CASE op.name = "MatchStar"   -> MatchStar(m, cc, carry)
    [] op.name = "ScanThru"    -> ScanThru(m, cc, carry)
    [] op.name = "Advance"     -> Advance(op.n, m, carry)
    [] op.name = "consecutive" -> consecutive_matches(m, carry)
    [] op.name = "reachable"   -> reachable(m, carry)
    [] op.name = "bounded"     -> bounded(m, cc, carry)
    [] op.name = "delete"      -> [sum |-> delete(m, cc \union EOF_del(end)), out |-> {}]

TakesClass == op.name \in {"MatchStar", "ScanThru", "bounded", "delete"}
NoInput == [stream |-> {}, class |-> {}, end |-> W]

\* The blocks that a result may still depend on.
PastBlocks(o) ==
  IF o.name \in {"MatchStar", "ScanThru", "delete"} THEN 0 ELSE Entries(o, o.n)

Init ==
  /\ op \in Ops
  /\ input = NoInput
  /\ result = {}
  /\ carry = NoCarry(op)
  /\ blockNo = 0
  /\ pc = "read"
  /\ past = [k \in 1..PastBlocks(op) |-> NoInput]
  /\ open = FALSE

\* The streams at a position, counted from the start of this block.
At(field, p) ==
  IF p >= 0 THEN p \in input[field]
  ELSE -(p \div W) <= Len(past) /\ (p % W) \in past[-(p \div W)][field]

\* The positions that a scan along the class reaches from the marks before or at them,
\* and whether it goes on in the next block.
Reached(marks, class) ==
  LET at[p \in 0..W - 1] == p \in marks \/ (IF p = 0 THEN open ELSE at[p - 1] /\ p - 1 \in class)
  IN  {p \in 0..W - 1 : at[p]}
GoesOn(marks, class) == W - 1 \in class /\ W - 1 \in Reached(marks, class)

\* The marks of a ScanThru are starts of characters and the class their bytes before the
\* last, so that no mark lies where the scan from another one ends.
WellPlaced(marks, class) ==
  \A p \in marks \ class : p \notin Reached(marks \ {p}, class)

ReadBlock ==
  /\ pc = "read"
  /\ \E m \in Block, cc \in (IF TakesClass THEN Block ELSE {{}}),
        end \in (IF op.name = "delete" THEN 0..W ELSE {W}) :
       /\ op.name = "ScanThru" => WellPlaced(m, cc)
       /\ input' = [stream |-> m, class |-> cc, end |-> end]
       /\ \E block \in {Compute(m, cc, end)} : result' = block.sum /\ carry' = block.out
  /\ pc' = "next"
  /\ UNCHANGED <<op, blockNo, past, open>>

NextBlock ==
  /\ pc = "next"
  /\ open' = (TakesClass /\ op.name \notin {"bounded", "delete"} /\ GoesOn(input.stream, input.class))
  /\ past' = IF past = << >> THEN past ELSE <<input>> \o Front(past)
  /\ blockNo' = (IF op.name = "Advance" \/ Repeating(op) THEN (blockNo + 1) % MaxRing ELSE 0)
  /\ input' = NoInput /\ result' = {}
  /\ pc' = "read"
  /\ UNCHANGED <<op, carry>>

Next == ReadBlock \/ NextBlock

Spec == Init /\ [][Next]_vars

-----------------------------------------------------------------------------
\* Blocks stay within their width, and a carry of an addition is at most one bit.
TypeOK ==
  /\ op \in Ops
  /\ input \in [stream : Block, class : Block, end : 0..W]
  /\ IF op.name = "delete" /\ pc = "next" THEN result \in Seq(BOOLEAN) ELSE result \in Block
  /\ op.name \in {"MatchStar", "ScanThru"} => carry \in {{}, {0}}
  /\ blockNo \in 0..MaxRing - 1
  /\ pc \in {"read", "next"} /\ open \in BOOLEAN
  /\ past \in [1..PastBlocks(op) -> [stream : Block, class : Block, end : 0..W]]

\* Block by block, MatchStar marks every position that can be reached from a mark by
\* characters of the class, and ScanThru the first position after them, however many
\* fields and blocks the run of characters covers.
ScansCrossBlocks ==
  pc = "next" =>
    /\ op.name = "MatchStar" => result = Reached(input.stream, input.class)
    /\ op.name = "ScanThru" => result = Reached(input.stream, input.class) \ input.class

\* Block by block, Advance is the stream moved by n positions, for shifts within a
\* field, within a block, by a block, by many blocks and anything between.
AdvancesCrossBlocks ==
  pc = "next" /\ op.name = "Advance" =>
    result = {p \in 0..W - 1 : At("stream", p - op.n)}

\* The doubling shifts give runs of n matches, positions within n of a match, and up
\* to n characters of a class after a mark: neither one more nor one less.
RepetitionsCountRight ==
  pc = "next" =>
    /\ op.name = "consecutive" =>
         result = {p \in 0..W - 1 : \A d \in 0..op.n - 1 : At("stream", p - d)}
    /\ op.name = "reachable" =>
         result = {p \in 0..W - 1 : \E d \in 0..op.n : At("stream", p - d)}
    /\ op.name = "bounded" =>
         result = {p \in 0..W - 1 : \E d \in 0..op.n :
                     At("stream", p - d) /\ \A e \in 1..d : At("class", p - e)}

\* Of each block exactly the units that are not deleted and lie before the end of the
\* input are written, in their order: not one of a register that a later one covers is
\* lost, and none of what the moves leave behind gets out.
DeletionKeepsTheRest ==
  pc = "next" /\ op.name = "delete" =>
    LET kept == {p \in 0..input.end - 1 : p \notin input.class}
    IN  /\ Len(result) = Cardinality(kept)
        /\ \A p \in kept :
             result[Cardinality({q \in kept : q <= p})] = (p \in input.stream)
=============================================================================
