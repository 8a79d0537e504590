------------------------- MODULE UnicodeSetIterator -------------------------
(***************************************************************************)
(* The iterator of UCD::UnicodeSet, which visits the set as intervals, and *)
(* what is built on it.                                                    *)
(***************************************************************************)
EXTENDS UnicodeSet

LeastNotBelow(quad, offset) == Min({o \in quad : o >= offset} \union {QUAD_BITS})

\* The iterator, its members mRunIterator, mQuadIterator, mMixedRunIndex, mQuadOffset,
\* mBaseCodePoint and mMinCodePoint; whether advance is in the second of its loops, inside
\* an interval; and the intervals visited up to now.
Begin == [run |-> 1, quad |-> 1, mixed |-> 0, offset |-> 0, base |-> 0, min |-> 0,
          inside |-> FALSE, visited |-> << >>]

\* Mutant: the offset in the last quad is kept.
NextQuadAtOffset(x) == [x EXCEPT !.base = @ + QUAD_BITS, !.quad = @ + 1, !.mixed = @ + 1]

NextQuad(x) == [x EXCEPT !.base = @ + QUAD_BITS, !.quad = @ + 1, !.mixed = @ + 1, !.offset = 0]
NextRun(x) == [x EXCEPT !.run = @ + 1, !.mixed = 0, !.offset = 0]

\* The loop has found the code point it looks for, where an interval begins or after its end.
Found(x, cp) ==
  IF x.inside THEN [x EXCEPT !.inside = FALSE, !.visited = Append(@, <<x.min, cp - 1>>)]
  ELSE [x EXCEPT !.inside = TRUE, !.min = cp]

\* One round of the loop that advance is in: the first looks for a code point of the set,
\* the second for one that is not.  Both go past runs of the other kind as a whole, quad
\* by quad in Mixed runs.
advance(s, x) ==
  LET run == s.runs[x.run]
      quad == s.quads[x.quad]
      past == [x EXCEPT !.run = @ + 1, !.base = @ + run.length * QUAD_BITS]
      offset == LeastNotBelow(IF x.inside THEN FULL_QUAD_MASK \ quad ELSE quad, x.offset)
  IN  CASE x.base > UNICODE_MAX -> IF x.inside THEN Found(x, UNICODE_MAX + 1) ELSE x
        [] x.base <= UNICODE_MAX /\ run.type # Mixed ->
             IF (run.type = Full) = x.inside THEN past ELSE Found(past, x.base)
        [] x.base <= UNICODE_MAX /\ run.type = Mixed /\ x.mixed = run.length -> NextRun(x)
        [] OTHER -> IF offset = QUAD_BITS THEN NextQuad(x)
                    ELSE Found([x EXCEPT !.offset = offset], x.base + offset)

\* Bound: a round goes on to another code point, run or loop.
Rounds == 3 * (UNICODE_MAX + 2)

\* What a loop from begin() to end() visits.
Intervals(s) ==
  LET after[n \in 0..Rounds] == IF n = 0 THEN Begin ELSE advance(s, after[n - 1])
  IN  after[Rounds].visited

\* The first interval that does not end below lo decides.
intersects(s, lo, hi) ==
  LET list == Intervals(s)
      notBelow == {k \in DOMAIN list : list[k][2] >= lo}
  IN  notBelow # {} /\ list[Min(notBelow)][1] <= hi

-----------------------------------------------------------------------------
\* Iterating visits the members as maximal intervals, in order: none is missed,
\* split at a quad or run boundary, or joined with the next; and intersects, which
\* iterates, finds every common code point.
IntervalsAreExact ==
  LET list == Intervals(set) IN
  sound => /\ Within(list) = members
           /\ \A k \in DOMAIN list : list[k][1] <= list[k][2]
           /\ \A k \in 2..Len(list) : list[k - 1][2] + 1 < list[k][1]
           /\ \A lo \in CodePoints : \A hi \in lo..UNICODE_MAX :
                intersects(set, lo, hi) <=> (lo..hi) \intersect members # {}
=============================================================================
