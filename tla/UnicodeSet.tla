----------------------------- MODULE UnicodeSet -----------------------------
(***************************************************************************)
(* UCD::UnicodeSet (unicode_set.h, unicode_set.cpp): a set of code points  *)
(* as runs of quads, Empty, Mixed or Full, with the quads of the Mixed     *)
(* runs kept in a vector of their own, which every operation must leave in *)
(* step with the runs.                                                     *)
(*                                                                         *)
(* A quad is the set of the offsets of its members.  Where an operation    *)
(* takes the quads of a run one by one or the run as a whole makes no      *)
(* difference to append_run, so a set is read here as its cells, one for   *)
(* each quad of the code point space; insert and insert_range, which work  *)
(* on the runs themselves, are modelled run by run.                        *)
(***************************************************************************)
EXTENDS Integers, SequencesExt

CONSTANTS
  QUAD_BITS,            \* code points of a quad: 32
  UNICODE_QUAD_COUNT,   \* quads of the code point space: 34816
  IntervalLists         \* the lists of intervals that sets are made from

ASSUME SizesAssumption == QUAD_BITS \in Nat \ {0, 1} /\ UNICODE_QUAD_COUNT \in Nat \ {0}

UNICODE_MAX == QUAD_BITS * UNICODE_QUAD_COUNT - 1
CodePoints == 0..UNICODE_MAX

\* Lists are in order and do not overlap, as convertIntervalRangesToSparseSet needs them.
\* Its assertion tests less: is_sorted fails only if an interval lies wholly before the
\* one in front of it.
ASSUME ListsAssumption ==
  \A list \in IntervalLists :
    /\ list \in Seq(CodePoints \X CodePoints)
    /\ \A k \in DOMAIN list : list[k][1] <= list[k][2] /\ list[k][2] < UNICODE_MAX
    /\ \A k \in 2..Len(list) : list[k - 1][2] < list[k][1]

VARIABLES
  set,      \* the object: its runs and its quads
  members,  \* history: the set of code points that it stands for
  sound     \* history: no operation was applied where it breaks the object

vars == <<set, members, sound>>

Empty == "Empty"
Mixed == "Mixed"
Full == "Full"
FULL_QUAD_MASK == 0..QUAD_BITS - 1
Quads == SUBSET FULL_QUAD_MASK

NoRuns == [runs |-> << >>, quads |-> << >>]

append_run(s, type, length) ==
  LET last == Len(s.runs) IN
  CASE length = 0 -> s
    [] length > 0 /\ last > 0 /\ s.runs[last].type = type -> [s EXCEPT !.runs[last].length = @ + length]
    [] OTHER -> [s EXCEPT !.runs = Append(@, [type |-> type, length |-> length])]

append_quad(s, quad) ==
  CASE quad = {} -> append_run(s, Empty, 1)
    [] quad = FULL_QUAD_MASK -> append_run(s, Full, 1)
    [] OTHER -> append_run([s EXCEPT !.quads = Append(@, quad)], Mixed, 1)

\* The quads of the runs before run k, and those of the Mixed ones among them.
QuadsBefore(runs, k) ==
  LET before[j \in 1..Len(runs) + 1] ==
        IF j = 1 THEN 0 ELSE before[j - 1] + runs[j - 1].length
  IN  before[k]
MixedBefore(runs, k) ==
  LET before[j \in 1..Len(runs) + 1] ==
        IF j = 1 THEN 0
        ELSE before[j - 1] + (IF runs[j - 1].type = Mixed THEN runs[j - 1].length ELSE 0)
  IN  before[k]

\* The run that holds quad number index of the code point space.
RunOf(runs, index) ==
  CHOOSE k \in DOMAIN runs :
    QuadsBefore(runs, k) <= index /\ index < QuadsBefore(runs, k) + runs[k].length

\* quad_iterator after index quads: the type it is at, and the quad its
\* mQuadIterator is at whatever the type is, past the last quad some garbage.
Cell(s, index, garbage) ==
  LET k == RunOf(s.runs, index)
      within == IF s.runs[k].type = Mixed THEN index - QuadsBefore(s.runs, k) ELSE 0
      q == MixedBefore(s.runs, k) + within + 1
  IN  [type |-> s.runs[k].type, quad |-> IF q \in DOMAIN s.quads THEN s.quads[q] ELSE garbage]

Indices == 0..UNICODE_QUAD_COUNT - 1

-----------------------------------------------------------------------------
(* Queries.                                                                *)

contains(s, cp) ==
  LET cell == Cell(s, cp \div QUAD_BITS, {})
  IN  IF cell.type = Mixed THEN cp % QUAD_BITS \in cell.quad ELSE cell.type = Full

empty(s) == Len(s.runs) = 1 /\ s.runs[1].type = Empty

-----------------------------------------------------------------------------
(* Constructors.                                                           *)

Offset(cp) == cp % QUAD_BITS
\* Mutant: a bit beyond the quad is kept.
LoQuadTooWide(lo) == Offset(lo)..QUAD_BITS

LoQuad(lo) == Offset(lo)..QUAD_BITS - 1
HiQuad(hi) == 0..Offset(hi)

EmptySet == append_run(NoRuns, Empty, UNICODE_QUAD_COUNT)

Singleton(cp) ==
  LET quad_no == cp \div QUAD_BITS
  IN  append_run(append_quad(append_run(NoRuns, Empty, quad_no), {Offset(cp)}),
                 Empty, UNICODE_QUAD_COUNT - (quad_no + 1))

RangeSet(lo, hi) ==
  LET lo_index == lo \div QUAD_BITS
      hi_index == hi \div QUAD_BITS
      start == append_run(NoRuns, Empty, lo_index)
      middle == append_run(append_quad(start, LoQuad(lo)), Full, hi_index - (lo_index + 1))
      end == IF lo_index = hi_index THEN append_quad(start, LoQuad(lo) \intersect HiQuad(hi))
             ELSE append_quad(middle, HiQuad(hi))
  IN  append_run(end, Empty, UNICODE_QUAD_COUNT - (hi_index + 1))

\* One round of convertIntervalRangesToSparseSet: the quad an interval ends in waits in
\* mask if the next interval begins in it.
Convert(list, k, x) ==
  LET lo == list[k][1]
      hi == list[k][2]
      lo_index == lo \div QUAD_BITS
      hi_index == hi \div QUAD_BITS
      skipped == append_run(x.set, Empty, lo_index - x.prior_index)
      begun == IF lo_index = hi_index THEN skipped
               ELSE append_run(append_quad(skipped, x.mask \union LoQuad(lo)), Full, hi_index - (lo_index + 1))
      mask == IF lo_index = hi_index THEN x.mask \union (LoQuad(lo) \intersect HiQuad(hi)) ELSE HiQuad(hi)
  IN  IF k < Len(list) /\ hi_index = list[k + 1][1] \div QUAD_BITS
      THEN [set |-> begun, prior_index |-> hi_index, mask |-> mask]
      ELSE [set |-> append_quad(begun, mask), prior_index |-> hi_index + 1, mask |-> {}]

IntervalSet(list) ==
  LET after[k \in 0..Len(list)] ==
        IF k = 0 THEN [set |-> NoRuns, prior_index |-> 0, mask |-> {}]
        ELSE Convert(list, k, after[k - 1])
      last == after[Len(list)]
  IN  append_run(last.set, Empty, UNICODE_QUAD_COUNT - last.prior_index)

-----------------------------------------------------------------------------
(* Operations on two sets, cell by cell.                                   *)

\* A run without its quad, or a quad.
Run(type) == [run |-> type, quad |-> {}]
Quad(quad) == [run |-> "", quad |-> quad]
append(s, piece) == IF piece.run = "" THEN append_quad(s, piece.quad) ELSE append_run(s, piece.run, 1)

complement(c) ==
  CASE c.type = Empty -> Run(Full)
    [] c.type = Full -> Run(Empty)
    [] c.type = Mixed -> Quad(FULL_QUAD_MASK \ c.quad)

intersection(c, d) ==
  CASE Empty \in {c.type, d.type} -> Run(Empty)
    [] Empty \notin {c.type, d.type} /\ c.type = Full /\ d.type = Full -> Run(Full)
    [] c.type = Full /\ d.type = Mixed -> Quad(d.quad)
    [] c.type = Mixed /\ d.type = Full -> Quad(c.quad)
    [] c.type = Mixed /\ d.type = Mixed -> Quad(c.quad \intersect d.quad)

union(c, d) ==
  CASE Full \in {c.type, d.type} -> Run(Full)
    [] Full \notin {c.type, d.type} /\ c.type = Empty /\ d.type = Empty -> Run(Empty)
    [] c.type = Empty /\ d.type = Mixed -> Quad(d.quad)
    [] c.type = Mixed /\ d.type = Empty -> Quad(c.quad)
    [] c.type = Mixed /\ d.type = Mixed -> Quad(c.quad \union d.quad)

\* What is under a Full cell stays: a Full cell as it is, a Mixed one without its quad.
difference(c, d) ==
  CASE c.type = Empty \/ d.type = Full \/ (c.type = Full /\ d.type = Empty) -> Run(c.type)
    [] c.type = Full /\ d.type = Mixed -> Quad(FULL_QUAD_MASK \ d.quad)
    [] c.type = Mixed /\ d.type = Empty -> Quad(c.quad)
    [] c.type = Mixed /\ d.type = Mixed -> Quad(c.quad \ d.quad)

\* A Mixed cell and a Full one are taken for two Mixed ones.
symmetric_difference(c, d) ==
  LET xor(q, r) == (q \ r) \union (r \ q) IN
  CASE c.type # Mixed /\ d.type # Mixed -> Run(IF c.type = d.type THEN Empty ELSE Full)
    [] c.type = Empty /\ d.type = Mixed -> Quad(d.quad)
    [] c.type = Mixed /\ d.type = Empty -> Quad(c.quad)
    [] c.type = Full /\ d.type = Mixed -> Quad(FULL_QUAD_MASK \ d.quad)
    [] c.type = Mixed /\ d.type \in {Mixed, Full} -> Quad(xor(c.quad, d.quad))

\* The object made of one piece for each quad.
Collected(pieces) ==
  LET made[k \in 0..Len(pieces)] == IF k = 0 THEN NoRuns ELSE append(made[k - 1], pieces[k])
  IN  made[Len(pieces)]

-----------------------------------------------------------------------------
(* insert splits the run of a quad that changes its type, and joins        *)
(* nothing: runs of one type may lie side by side afterwards.              *)

\* The runs with run k cut around its quad number offset, of type inside.
Split(runs, k, offset, inside) ==
  LET run == runs[k]
      piece(type, length) == IF length = 0 THEN << >> ELSE <<[type |-> type, length |-> length]>>
  IN  SubSeq(runs, 1, k - 1) \o piece(run.type, offset) \o piece(inside, 1)
        \o piece(run.type, run.length - (offset + 1)) \o SubSeq(runs, k + 1, Len(runs))

\* Mutant: a quad that has become full stays in the vector.
insertedKeepingQuad(s, cp) ==
  LET k == RunOf(s.runs, cp \div QUAD_BITS)
      offset == cp \div QUAD_BITS - QuadsBefore(s.runs, k)
      before == MixedBefore(s.runs, k)
      q == before + offset + 1
      quad == s.quads[q] \union {Offset(cp)}
  IN  CASE s.runs[k].type = Full -> s
        [] s.runs[k].type = Empty ->
             [runs |-> Split(s.runs, k, offset, Mixed),
              quads |-> InsertAt(s.quads, before + 1, {Offset(cp)})]
        [] s.runs[k].type = Mixed ->
             [s EXCEPT !.quads[q] = quad,
                       !.runs = IF quad = FULL_QUAD_MASK THEN Split(@, k, offset, Full) ELSE @]

inserted(s, cp) ==
  LET k == RunOf(s.runs, cp \div QUAD_BITS)
      offset == cp \div QUAD_BITS - QuadsBefore(s.runs, k)
      before == MixedBefore(s.runs, k)
      q == before + offset + 1
      quad == s.quads[q] \union {Offset(cp)}
  IN  CASE s.runs[k].type = Full -> s
        [] s.runs[k].type = Empty ->
             [runs |-> Split(s.runs, k, offset, Mixed),
              quads |-> InsertAt(s.quads, before + 1, {Offset(cp)})]
        [] s.runs[k].type = Mixed ->
             IF quad = FULL_QUAD_MASK
             THEN [runs |-> Split(s.runs, k, offset, Full), quads |-> RemoveAt(s.quads, q)]
             ELSE [s EXCEPT !.quads[q] = quad]

-----------------------------------------------------------------------------
(* insert_range.  Once the quad of lo is written, the loop looks for the   *)
(* run of hi: it steps to the next run first, and compares hi_index, which *)
(* counts from the quad of lo, with lengths that count from that run.      *)

\* The run at which the loop stops; 0 if it runs past the last.
RunOfHi(runs, k, hi_index) ==
  LET left(m) == hi_index - (QuadsBefore(runs, m) - QuadsBefore(runs, k + 1))
      stops == {m \in k + 1..Len(runs) : left(m) < runs[m].length}
  IN  IF stops = {} THEN 0 ELSE Min(stops)

\* The part of the object in front of the quad of lo.
Kept(s, k, offset) ==
  [runs |-> SubSeq(s.runs, 1, k - 1)
              \o (IF offset = 0 THEN << >> ELSE <<[s.runs[k] EXCEPT !.length = offset]>>),
   quads |-> SubSeq(s.quads, 1, MixedBefore(s.runs, k) + (IF s.runs[k].type = Mixed THEN offset ELSE 0))]

\* Mutant: the old quad is overwritten.
MergedOver(s, type, old, quad) ==
  IF type = Full THEN append_run(s, Full, 1) ELSE append_quad(s, quad)

\* A quad of a run of this type with more code points.
Merged(s, type, old, quad) ==
  CASE type = Full -> append_run(s, Full, 1)
    [] type = Mixed -> append_quad(s, quad \union old)
    [] type = Empty -> append_quad(s, quad)

\* And the rest, from run m on without its first taken quads; q quads are used up.
Rest(s, new, m, taken, q) ==
  LET run == s.runs[m]
      runs == append_run(new, run.type, run.length - taken)
  IN  [runs |-> runs.runs \o SubSeq(s.runs, m + 1, Len(s.runs)),
       quads |-> runs.quads \o SubSeq(s.quads, q + 1, Len(s.quads))]

\* What is left when the loop has run past the last run: nothing to rely on.
Undefined == NoRuns

inserted_range(s, lo, hi) ==
  LET k == RunOf(s.runs, lo \div QUAD_BITS)
      type == s.runs[k].type
      offset == lo \div QUAD_BITS - QuadsBefore(s.runs, k)
      q == MixedBefore(s.runs, k) + (IF type = Mixed THEN offset + 1 ELSE 0)
      hi_index == hi \div QUAD_BITS - lo \div QUAD_BITS
      lo_quad == IF hi_index = 0 THEN LoQuad(lo) \intersect HiQuad(hi) ELSE LoQuad(lo)
      begun == Merged(Kept(s, k, offset), type, s.quads[q], lo_quad)
      filled == append_run(begun, Full, hi_index - 1)
      m == RunOfHi(s.runs, k, hi_index)
      left == hi_index - (QuadsBefore(s.runs, m) - QuadsBefore(s.runs, k + 1))
      hi_q == MixedBefore(s.runs, m) + (IF s.runs[m].type = Mixed THEN left + 1 ELSE 0)
      ended == Merged(filled, s.runs[m].type, s.quads[hi_q], HiQuad(hi))
  IN  CASE hi_index = 0 -> Rest(s, begun, k, offset + 1, q)
        [] hi_index > 0 /\ m = 0 -> Undefined
        [] hi_index > 0 /\ m > 0 -> Rest(s, ended, m, left, hi_q)

\* Where that is right: the quad of lo is the last of its run, and hi is beyond
\* the quad at which the run of hi begins to count, in a run without mixed quads.
RangeFits(s, lo, hi) ==
  LET k == RunOf(s.runs, lo \div QUAD_BITS)
      offset == lo \div QUAD_BITS - QuadsBefore(s.runs, k)
      hi_index == hi \div QUAD_BITS - lo \div QUAD_BITS
      m == RunOfHi(s.runs, k, hi_index)
  IN  \/ hi_index = 0
      \/ /\ offset = s.runs[k].length - 1
         /\ m > 0
         /\ m = RunOf(s.runs, hi \div QUAD_BITS)
         /\ s.runs[m].type # Mixed

-----------------------------------------------------------------------------
(* A program that builds a set and goes on changing it, as the parser does *)
(* with a bracket expression and resolveUnicodeProperties with classes.    *)

Within(list) == UNION {list[k][1]..list[k][2] : k \in DOMAIN list}

Init ==
  \/ set = EmptySet /\ members = {} /\ sound = TRUE
  \/ \E cp \in CodePoints : set = Singleton(cp) /\ members = {cp} /\ sound = TRUE
  \/ \E lo \in CodePoints : \E hi \in lo..UNICODE_MAX :
       set = RangeSet(lo, hi) /\ members = lo..hi /\ sound = TRUE
  \/ \E list \in IntervalLists :
       set = IntervalSet(list) /\ members = Within(list) /\ sound = TRUE

\* insert throws for the last code point and for what is beyond it.
Insert(cp) ==
  /\ cp < UNICODE_MAX
  /\ set' = inserted(set, cp)
  /\ members' = members \union {cp}
  /\ UNCHANGED sound

InsertRange(lo, hi) ==
  /\ lo <= hi
  /\ set' = inserted_range(set, lo, hi)
  /\ members' = members \union (lo..hi)
  /\ sound' = RangeFits(set, lo, hi)

\* The cells of the object and of another; both operands read past their vectors.
CellsOf(s, garbage) == [k \in 1..UNICODE_QUAD_COUNT |-> Cell(s, k - 1, garbage)]
Combined(op(_, _), s, t, garbage) ==
  LET c == CellsOf(s, garbage)
      d == CellsOf(t, garbage)
  IN  Collected([k \in 1..UNICODE_QUAD_COUNT |-> op(c[k], d[k])])

\* A quad of one of these types in s is full in t.
UnderFull(types, s, t) ==
  \E k \in Indices : Cell(s, k, {}).type \in types /\ Cell(t, k, {}).type = Full

Intersect(list) ==
  /\ set' = Combined(intersection, set, IntervalSet(list), {})
  /\ members' = members \intersect Within(list)
  /\ UNCHANGED sound

Unite(list) ==
  /\ set' = Combined(union, set, IntervalSet(list), {})
  /\ members' = members \union Within(list)
  /\ UNCHANGED sound

Subtract(list) ==
  /\ set' = Combined(difference, set, IntervalSet(list), {})
  /\ members' = members \ Within(list)
  /\ sound' = ~UnderFull({Mixed, Full}, set, IntervalSet(list))

SubtractFrom(list) ==
  /\ set' = Combined(difference, IntervalSet(list), set, {})
  /\ members' = Within(list) \ members
  /\ sound' = ~UnderFull({Mixed, Full}, IntervalSet(list), set)

Toggle(list) ==
  /\ \E garbage \in Quads :
       set' = Combined(symmetric_difference, set, IntervalSet(list), garbage)
  /\ members' = (members \ Within(list)) \union (Within(list) \ members)
  /\ sound' = ~UnderFull({Mixed}, set, IntervalSet(list))

\* The quads are read from the vector of the result, which is still empty.
Complement ==
  /\ \E garbage \in Quads :
       set' = Collected([k \in 1..UNICODE_QUAD_COUNT |->
                           complement([Cell(set, k - 1, {}) EXCEPT !.quad = garbage])])
  /\ members' = CodePoints \ members
  /\ sound' = (set.quads = << >>)

\* What a broken object does next is left open.
Next ==
  /\ sound
  /\ \/ \E cp \in CodePoints : Insert(cp)
     \/ \E lo, hi \in CodePoints : InsertRange(lo, hi)
     \/ \E list \in IntervalLists :
          \/ Intersect(list) \/ Unite(list) \/ Subtract(list) \/ SubtractFrom(list) \/ Toggle(list)
     \/ Complement

Spec == Init /\ [][Next]_vars

-----------------------------------------------------------------------------
(* Properties.                                                             *)

\* The object is made of runs and quads, and the history of code points.
TypeOK ==
  /\ \A k \in DOMAIN set.runs : set.runs[k].type \in {Empty, Mixed, Full}
  /\ set.quads \in Seq(Quads)
  /\ members \subseteq CodePoints
  /\ sound \in BOOLEAN

\* verify, the "sanity check for each function that constructs or modifies a
\* UnicodeSet" (unicode_set.cpp:91): the runs cover the code point space, there
\* is one quad for each quad of a Mixed run, and none of them is empty or full.
Verified ==
  /\ \A k \in DOMAIN set.runs : set.runs[k].length > 0
  /\ QuadsBefore(set.runs, Len(set.runs) + 1) = UNICODE_QUAD_COUNT
  /\ MixedBefore(set.runs, Len(set.runs) + 1) = Len(set.quads)
  /\ \A k \in DOMAIN set.quads : set.quads[k] \notin {{}, FULL_QUAD_MASK}

\* After any sequence of constructions, insertions and operations that stays off
\* the operands they break, the object passes verify.
StaysVerified == sound => Verified

\* And it stands for the set of code points that the same operations on sets
\* give: contains answers accordingly, and empty, which looks at the runs only,
\* is right although runs are not always joined.
RepresentsMembers ==
  sound => /\ \A cp \in CodePoints : contains(set, cp) <=> cp \in members
           /\ empty(set) <=> members = {}
=============================================================================
