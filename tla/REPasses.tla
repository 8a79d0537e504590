------------------------------ MODULE REPasses ------------------------------
(***************************************************************************)
(* What happens to a regular expression before it is compiled: the         *)
(* functions that the parser builds nodes with (re_seq.h, re_alt.h,        *)
(* re_rep.cpp), the removal of nullable prefixes and suffixes              *)
(* (re_nullable.cpp), the simplifier (re_simplifier.cpp) and the merging   *)
(* of character classes (resolveUnicodeProperties in re_compiler.cpp).     *)
(***************************************************************************)
EXTENDS RegExp, SequencesExt

\* Seq::flatten and Alt::flatten: the items of nested nodes of the same class.
RECURSIVE Flatten(_, _)
Flatten(op, items) ==
  FlattenSeq([k \in DOMAIN items |-> IF items[k].op = op THEN Flatten(op, items[k].items)
                                     ELSE <<items[k]>>])

Flattened(op, items) ==
  IF Len(items) = 1 THEN items[1]
  ELSE LET flat == Flatten(op, items)
       IN  IF Len(flat) = 1 THEN flat[1] ELSE [op |-> op, items |-> flat]

makeSeq(items) == Flattened("seq", items)
makeAlt(items) == Flattened("alt", items)
EmptySeq == Sequence(<< >>)

ubCombine(h1, h2) ==
  IF UNBOUNDED_REP \in {h1, h2} THEN UNBOUNDED_REP ELSE h1 * h2

\* A repetition of a repetition.
CombinedRep(rep, lb, ub) ==
  CASE rep.ub = UNBOUNDED_REP /\ (lb > 0 \/ rep.lb <= 1) -> Rep(rep.re, rep.lb * lb, UNBOUNDED_REP)
    [] rep.ub = UNBOUNDED_REP /\ lb = 0 /\ rep.lb > 1 -> Rep(rep, 0, 1)
    [] rep.ub # UNBOUNDED_REP /\ lb = ub -> Rep(rep.re, lb * rep.lb, ub * rep.ub)
    [] rep.ub # UNBOUNDED_REP /\ lb # ub ->
         IF rep.ub * lb >= rep.lb * (lb + 1) - 1
         THEN Rep(rep.re, rep.ub * lb, ubCombine(rep.ub, ub))
         ELSE Rep(rep, lb, ub)

makeRep(re, lb, ub) ==
  CASE re.op = "rep" -> CombinedRep(re, lb, ub)
    [] re.op \in {"lookbehind", "lookahead"} -> IF lb > 0 THEN re ELSE EmptySeq
    [] OTHER ->
         CASE re = EmptySeq \/ <<lb, ub>> = <<1, 1>> -> re
           [] re # EmptySeq /\ <<lb, ub>> = <<0, 0>> -> EmptySeq
           [] OTHER -> Rep(re, lb, ub)

-----------------------------------------------------------------------------
\* The parser applies them bottom up to what was written.
RECURSIVE Parsed(_)
Parsed(re) ==
  LET all(items) == [k \in DOMAIN items |-> Parsed(items[k])] IN
  CASE re.op = "seq" -> makeSeq(all(re.items))
    [] re.op = "alt" -> makeAlt(all(re.items))
    [] re.op = "rep" -> makeRep(Parsed(re.re), re.lb, re.ub)
    [] re.op \in {"lookbehind", "lookahead"} -> [re EXCEPT !.re = Parsed(@)]
    [] re.op \in {"diff", "intersect"} -> [re EXCEPT !.lh = Parsed(@), !.rh = Parsed(@)]
    [] OTHER -> re

-----------------------------------------------------------------------------
(* re_nullable.cpp.                                                        *)

RECURSIVE isNullable(_)
isNullable(re) ==
  CASE re.op = "seq" -> \A k \in DOMAIN re.items : isNullable(re.items[k])
    [] re.op = "alt" -> \E k \in DOMAIN re.items : isNullable(re.items[k])
    [] re.op = "rep" -> re.lb = 0 \/ isNullable(re.re)
    [] OTHER -> FALSE

\* hasNullablePrefix with outer = Head, hasNullableSuffix with outer = Last.
RECURSIVE hasNullable(_, _)
hasNullable(at, re) ==
  CASE re.op = "seq" ->
         LET outer == IF at = "prefix" THEN Head(re.items) ELSE Last(re.items)
         IN  isNullable(outer) \/ hasNullable(at, outer)
    [] re.op = "alt" -> \E k \in DOMAIN re.items : hasNullable(at, re.items[k])
    [] re.op = "rep" -> re.lb = re.ub => hasNullable(at, re.re)
    [] OTHER -> FALSE

\* Mutant: the repetitions that remain are counted with the one that was stripped.
RepStrippedKeepingAll(at, re, stripped) ==
  LET rest == makeRep(re.re, re.lb, re.lb)
  IN  makeSeq(IF at = "prefix" THEN <<stripped, rest>> ELSE <<rest, stripped>>)

RepStripped(at, re, stripped) ==
  LET rest == makeRep(re.re, re.lb - 1, re.lb - 1)
  IN  makeSeq(IF at = "prefix" THEN <<stripped, rest>> ELSE <<rest, stripped>>)

\* The first item that cannot be left out, or the last.
Outermost(at, items) ==
  LET needed == {k \in DOMAIN items : ~isNullable(items[k])}
  IN  IF at = "prefix" THEN Min(needed) ELSE Max(needed)

SeqStripped(at, items, k, stripped) ==
  makeSeq(IF at = "prefix" THEN <<stripped>> \o SubSeq(items, k + 1, Len(items))
          ELSE Append(SubSeq(items, 1, k - 1), stripped))

RECURSIVE removeNullable(_, _)
removeNullable(at, re) ==
  CASE isNullable(re) /\ re.op # "alt" -> EmptySeq
    [] ~isNullable(re) /\ re.op = "seq" ->
         LET k == Outermost(at, re.items)
         IN  SeqStripped(at, re.items, k, removeNullable(at, re.items[k]))
    [] re.op = "alt" ->
         makeAlt([k \in DOMAIN re.items |-> removeNullable(at, re.items[k])])
    [] ~isNullable(re) /\ re.op = "rep" ->
         IF hasNullable(at, re.re) THEN RepStripped(at, re, removeNullable(at, re.re))
         ELSE makeRep(re.re, re.lb, re.lb)
    [] OTHER -> re

removeNullablePrefix(re) == removeNullable("prefix", re)
removeNullableSuffix(re) == removeNullable("suffix", re)

-----------------------------------------------------------------------------
(* re_simplifier.cpp: everything is built again, but the right operands.   *)
RECURSIVE simplify(_)
simplify(re) ==
  LET all(items) == [k \in DOMAIN items |-> simplify(items[k])] IN
  CASE re.op = "seq" -> makeSeq(all(re.items))
    [] re.op = "alt" -> makeAlt(all(re.items))
    [] re.op = "rep" -> makeRep(simplify(re.re), re.lb, re.ub)
    [] re.op \in {"lookbehind", "lookahead"} -> [re EXCEPT !.re = simplify(@)]
    [] re.op \in {"diff", "intersect"} -> [re EXCEPT !.lh = simplify(@)]
    [] OTHER -> re

-----------------------------------------------------------------------------
(* resolveUnicodeProperties: the classes among the alternatives of an Alt  *)
(* become one, at the end; classes subtracted or intersected become one.   *)

IsName(re) == re.op = "name"

MergedAlt(items) ==
  LET classes == SelectSeq(items, IsName)
      others == SelectSeq(items, LAMBDA re : ~IsName(re))
      union == UNION {classes[k].cc : k \in DOMAIN classes}
      merged == IF classes = << >> THEN others ELSE Append(others, Name(union))
  IN  IF Len(merged) = 1 THEN merged[1] ELSE Alt(merged)

MergedPair(re) ==
  CASE ~(IsName(re.lh) /\ IsName(re.rh)) -> re
    [] IsName(re.lh) /\ IsName(re.rh) /\ re.op = "diff" -> Name(re.lh.cc \ re.rh.cc)
    [] IsName(re.lh) /\ IsName(re.rh) /\ re.op = "intersect" -> Name(re.lh.cc \intersect re.rh.cc)

RECURSIVE resolve(_)
resolve(re) ==
  LET all(items) == [k \in DOMAIN items |-> resolve(items[k])] IN
  CASE re.op = "seq" -> Sequence(all(re.items))
    [] re.op = "alt" -> MergedAlt(all(re.items))
    [] re.op \in {"rep", "lookbehind", "lookahead"} -> [re EXCEPT !.re = resolve(@)]
    [] re.op \in {"diff", "intersect"} ->
         MergedPair([re EXCEPT !.lh = resolve(@), !.rh = resolve(@)])
    [] OTHER -> re
=============================================================================
