----------------------------- MODULE RECompiler -----------------------------
(***************************************************************************)
(* From a regular expression to the lines it selects: the passes of        *)
(* REPasses, one action each, and RE_Compiler (re_compiler.cpp), whose     *)
(* marker computations are carried out on one file as they are compiled.   *)
(*                                                                         *)
(* A bit stream is the set of the byte positions at which it is 1.  A      *)
(* marker is a stream with the kind of position it marks.  The file is     *)
(* valid UTF-8, and the streams are those of the whole file: how they are  *)
(* computed block by block is the matter of StreamOps and CarryScopes.     *)
(***************************************************************************)
EXTENDS REPasses, TLC

CONSTANTS
  Lines,      \* the lines of the file, each a sequence of characters
  Breaks,     \* for each setting of unicodeLineBreak, the line break after each line
  Width,      \* the number of bytes of each character
  Commands    \* the command lines considered

\* What a command says: the expression as it is written, whether Unicode line
\* breaks count (not -disable-unicode-linebreak), and -v.
ASSUME CommandsAssumption ==
  \A c \in Commands : DOMAIN c = {"written", "unicodeLineBreak", "invert"}

ASSUME LinesAssumption ==
  \A u \in BOOLEAN : \A k \in DOMAIN Lines :
    Breaks[u][k] \in {<<"LF">>} \union (IF u THEN {<<"CR", "LF">>, <<"CR">>, <<"NEL">>} ELSE {})

VARIABLES
  command,    \* the command line
  re,         \* the expression at this stage
  streams,    \* the bit streams of the file, as the compiler needs them
  stage,      \* the pass that comes next
  found,      \* the lines reported, by their numbers
  strayed     \* history: the kinds of markers that were set off their positions

vars == <<command, re, streams, stage, found, strayed>>

unicodeLineBreak == command.unicodeLineBreak
invert == command.invert
written == command.written

-----------------------------------------------------------------------------
(* The streams of initializeRequiredStreams, and those of the characters.  *)

FileStreams(u) ==
  LET chars == FlattenSeq([k \in DOMAIN Lines |-> Lines[k] \o Breaks[u][k]])
      bytes == {<<i, n>> \in (DOMAIN chars) \X (1..4) : n <= Width[chars[i]]}
      end == [i \in 0..Len(chars) |-> Cardinality({byte \in bytes : byte[1] <= i})]
      final == {end[i] - 1 : i \in DOMAIN chars}
      at == [c \in DOMAIN Width |-> {end[i] - 1 : i \in {j \in DOMAIN chars : chars[j] = c}}]
      all == 0..end[Len(chars)] - 1
      crlf == {p \in at["LF"] : p - 1 \in at["CR"]}
  IN  [all |-> all,
       at |-> at,
       initial |-> {end[i - 1] : i \in DOMAIN chars},
       nonFinal |-> all \ final,
       final |-> final,
       crlf |-> crlf,
       lineBreak |-> IF u THEN (at["LF"] \union at["CR"] \union at["NEL"]) \ crlf ELSE at["LF"]]

Streams == [u \in BOOLEAN |-> FileStreams(u)]

\* The statements of Pablo that the compiler uses.
Not(s) == streams.all \ s
Advance(s, n) == {p + n : p \in s} \intersect streams.all

RECURSIVE MatchStar(_, _)
MatchStar(m, class) ==
  LET longer == m \union Advance(m \intersect class, 1)
  IN  IF longer = m THEN m ELSE MatchStar(longer, class)

ScanThru(m, class) == MatchStar(m, class) \ class

-----------------------------------------------------------------------------
(* Markers.  A compilation state x is a marker and the state of the While  *)
(* loop that is being compiled: mStarDepth, the Assigns of the stars in    *)
(* its body in the order they are compiled (old in this iteration, new in  *)
(* the next), and mWhileTest.                                              *)

FinalMatchByte == 0
InitialPostPositionByte == 1
FinalPostPositionByte == 2

NoLoop == [depth |-> 0, count |-> 0, old |-> << >>, new |-> << >>, test |-> {}]

\* compile: everything matches from everywhere.
Everywhere(x) == [x EXCEPT !.pos = FinalPostPositionByte, !.stream = streams.all]

\* Where the marker of each kind may be set.
PositionsOf(pos) == IF pos = InitialPostPositionByte THEN streams.initial ELSE streams.final

makeMarker(x, pos, stream) ==
  [x EXCEPT !.pos = pos, !.stream = stream,
            !.strayed = @ \union (IF stream \subseteq PositionsOf(pos) THEN {} ELSE {pos})]

\* Mutant: the post positions of the last byte are taken to be those of the first.
AdvanceMarkerUnscanned(x, newpos) ==
  LET initial == IF x.pos = FinalMatchByte
                 THEN makeMarker(x, InitialPostPositionByte, Advance(x.stream, 1)) ELSE x
  IN  IF x.pos = newpos THEN x ELSE [initial EXCEPT !.pos = newpos]

\* From FinalPostPositionByte there is no way back.
AdvanceMarker(x, newpos) ==
  LET initial == IF x.pos = FinalMatchByte
                 THEN makeMarker(x, InitialPostPositionByte, Advance(x.stream, 1)) ELSE x
      final == ScanThru(streams.initial \intersect initial.stream, streams.nonFinal)
  IN  CASE x.pos = newpos -> x
        [] x.pos # newpos /\ newpos = FinalPostPositionByte -> makeMarker(initial, newpos, final)
        [] OTHER -> initial

Align(x, y) == IF x.pos < y.pos THEN AdvanceMarker(x, y.pos) ELSE x

-----------------------------------------------------------------------------
(* re_analysis.cpp.                                                        *)

IsByteName(r) == IsName(r) /\ \A c \in r.cc : Width[c] = 1

RECURSIVE isByteLength(_)
isByteLength(r) ==
  CASE r.op = "alt" -> \A k \in DOMAIN r.items : isByteLength(r.items[k])
    [] r.op = "rep" -> r.lb = 1 /\ r.ub = 1 /\ isByteLength(r.re)
    [] r.op \in {"diff", "intersect"} -> isByteLength(r.lh) /\ isByteLength(r.rh)
    [] OTHER -> IsByteName(r)

RECURSIVE isUnicodeUnitLength(_)
isUnicodeUnitLength(r) ==
  CASE r.op = "alt" -> \A k \in DOMAIN r.items : isUnicodeUnitLength(r.items[k])
    [] r.op = "rep" -> r.lb = 1 /\ r.ub = 1 /\ isUnicodeUnitLength(r.re)
    [] r.op \in {"diff", "intersect"} -> isUnicodeUnitLength(r.lh) /\ isUnicodeUnitLength(r.rh)
    [] OTHER -> r.op \in {"any", "name"}

RECURSIVE minMatchLength(_)
minMatchLength(r) ==
  LET lengths(items) == [k \in DOMAIN items |-> minMatchLength(items[k])] IN
  CASE r.op = "alt" -> Min(Range(lengths(r.items)))
    [] r.op = "seq" -> FoldLeft(+, 0, lengths(r.items))
    [] r.op = "rep" -> r.lb * minMatchLength(r.re)
    [] r.op = "diff" -> minMatchLength(r.lh)
    [] r.op = "intersect" -> Min({minMatchLength(r.lh), minMatchLength(r.rh)})
    [] OTHER -> IF r.op \in {"any", "name"} THEN 1 ELSE 0

-----------------------------------------------------------------------------
(* The compilation of each kind of node.                                   *)

RECURSIVE process(_, _)
compile(r, x) == process(r, Everywhere(x))

ClassStream(r) == UNION {streams.at[c] : c \in r.cc}

compileName(r, x) ==
  LET newpos == IF IsByteName(r) THEN InitialPostPositionByte ELSE FinalPostPositionByte
      next == IF x.pos = FinalPostPositionByte THEN x ELSE AdvanceMarker(x, newpos)
  IN  makeMarker(next, FinalMatchByte, next.stream \intersect ClassStream(r))

compileAny(x) ==
  LET next == AdvanceMarker(x, FinalPostPositionByte)
      lb == streams.lineBreak \union (IF unicodeLineBreak THEN streams.crlf ELSE {})
  IN  [next EXCEPT !.pos = FinalMatchByte, !.stream = @ \ lb]

IfInsertionGap == 3

\* Within a loop there are no Ifs; elsewhere one skips the rest of a sequence when no marker is left.
RECURSIVE compileSeqTail(_, _, _)
compileSeqTail(items, matchLenSoFar, x) ==
  CASE items = << >> -> x
    [] items # << >> /\ (x.loop.depth > 0 \/ matchLenSoFar < IfInsertionGap) ->
         compileSeqTail(Tail(items), matchLenSoFar + minMatchLength(Head(items)),
                        process(Head(items), x))
    [] OTHER ->
         LET nested == compileSeqTail(items, 0, x)
         IN  [nested EXCEPT !.stream = IF x.stream = {} THEN {} ELSE @]

\* The results of the alternatives, all from the marker of base.
RECURSIVE ProcessAll(_, _)
ProcessAll(items, base) ==
  IF items = << >> THEN << >>
  ELSE LET x == process(Head(items), base)
       IN  <<x>> \o ProcessAll(Tail(items), [x EXCEPT !.pos = base.pos, !.stream = base.stream])

\* Mutant: the markers before the first byte are joined with those at the last byte.
compileAltUnscanned(items, x) ==
  LET results == ProcessAll(items, x)
      poses == {results[k].pos : k \in DOMAIN results}
      accum(pos) == UNION {results[k].stream : k \in {j \in DOMAIN results : results[j].pos = pos}}
      combine == accum(InitialPostPositionByte) \union Advance(accum(FinalMatchByte), 1)
  IN  CASE poses = {FinalMatchByte} ->
             makeMarker(Last(results), FinalMatchByte, accum(FinalMatchByte))
        [] OTHER -> [Last(results) EXCEPT !.pos = FinalPostPositionByte,
                       !.stream = combine \union accum(FinalPostPositionByte)]

compileAlt(items, x) ==
  LET results == ProcessAll(items, x)
      poses == {results[k].pos : k \in DOMAIN results}
      accum(pos) == UNION {results[k].stream : k \in {j \in DOMAIN results : results[j].pos = pos}}
      combine == accum(InitialPostPositionByte) \union Advance(accum(FinalMatchByte), 1)
  IN  CASE poses = {FinalMatchByte} ->
             makeMarker(Last(results), FinalMatchByte, accum(FinalMatchByte))
        [] poses # {FinalMatchByte} /\ FinalPostPositionByte \notin poses ->
             makeMarker(Last(results), InitialPostPositionByte, combine)
        [] FinalPostPositionByte \in poses ->
             makeMarker(Last(results), FinalPostPositionByte,
               ScanThru(streams.initial \intersect combine, streams.nonFinal)
                 \union accum(FinalPostPositionByte))

Sense(r, stream) == IF r.positive THEN stream ELSE Not(stream)

compileLookbehind(r, x) ==
  LET back == compile(r.re, x)
      marker == Align([back EXCEPT !.pos = x.pos, !.stream = x.stream], back)
      lookback == Align(back, marker)
  IN  [marker EXCEPT !.stream = @ \intersect Sense(r, lookback.stream)]

compileLookahead(r, x) ==
  LET ahead == compile(r.re, x)
      fbyte == AdvanceMarker([ahead EXCEPT !.pos = x.pos, !.stream = x.stream], FinalPostPositionByte)
  IN  makeMarker(fbyte, FinalPostPositionByte, fbyte.stream \intersect Sense(r, ahead.stream))

\* Both operands are one character long: the parser builds no others, and for others
\* there would be an exception.
compilePair(r, x) ==
  LET results == ProcessAll(<<r.lh, r.rh>>, x)
      t1 == Align(results[1], results[2])
      t2 == Align(results[2], results[1])
  IN  makeMarker([t1 EXCEPT !.loop = t2.loop, !.strayed = t2.strayed], t1.pos,
                 IF r.op = "diff" THEN t1.stream \ t2.stream ELSE t1.stream \intersect t2.stream)

compileStart(x) ==
  LET m == AdvanceMarker(x, InitialPostPositionByte)
      lineEnd == streams.lineBreak \union (IF unicodeLineBreak THEN streams.crlf ELSE {})
      sol == Not(Advance(Not(lineEnd), 1) \union (IF unicodeLineBreak THEN streams.crlf ELSE {}))
  IN  makeMarker(m, IF unicodeLineBreak THEN InitialPostPositionByte ELSE FinalPostPositionByte,
                 m.stream \intersect sol)

compileEnd(x) ==
  LET newpos == IF unicodeLineBreak THEN FinalPostPositionByte ELSE InitialPostPositionByte
      next == AdvanceMarker(x, newpos)
  IN  makeMarker(next, FinalPostPositionByte, next.stream \intersect streams.lineBreak)

-----------------------------------------------------------------------------
(* Repetitions.                                                            *)

\* Shifts that double from 1 while two of them stay below the total, and what is missing to it.
RECURSIVE Doubled(_, _, _, _)
Doubled(stream, i, total, both) ==
  LET shift == IF i * 2 < total THEN i ELSE total - i
      moved == Advance(stream, shift)
      next == IF both THEN stream \intersect moved ELSE stream \union moved
  IN  CASE i >= total -> stream
        [] i < total /\ i * 2 < total -> Doubled(next, i * 2, total, both)
        [] i < total /\ i * 2 >= total -> next

consecutive_matches(repeated, times) == Doubled(repeated, 1, times, TRUE)
reachable(repeated, times) == Doubled(repeated \union Advance(repeated, 1), 1, times, FALSE)

RECURSIVE Times(_, _, _)
Times(r, n, x) == IF n = 0 THEN x ELSE Times(r, n - 1, process(r, x))

processLowerBound(r, lb, x) ==
  LET cc == compile(r, x)
      forward == Advance(x.stream, IF x.pos = FinalMatchByte THEN lb ELSE lb - 1)
  IN  IF isByteLength(r)
      THEN makeMarker(cc, FinalMatchByte,
                      forward \intersect consecutive_matches(cc.stream, lb))
      ELSE Times(r, lb, x)

RECURSIVE UpTo(_, _, _)
UpTo(r, n, x) ==
  LET a == process(r, x)
      m == Align([x EXCEPT !.loop = a.loop, !.strayed = a.strayed], a)
      b == Align(a, x)
  IN  IF n = 0 THEN x
      ELSE UpTo(r, n - 1, makeMarker([b EXCEPT !.strayed = @ \union m.strayed], b.pos,
                                     b.stream \union m.stream))

processBoundedRep(r, ub, x) ==
  LET cursor == AdvanceMarker(x, InitialPostPositionByte)
      cc == compile(r, cursor)
  IN  IF isByteLength(r) /\ ub > 1
      THEN makeMarker(cc, InitialPostPositionByte,
             MatchStar(cursor.stream, cc.stream) \intersect reachable(cursor.stream, ub))
      ELSE UpTo(r, ub, x)

\* MatchStar over one byte or one character.
StarOfClass(r, base) ==
  LET cc == compile(r, base)
      class == IF isByteLength(r) THEN cc.stream ELSE cc.stream \union streams.nonFinal
      star == MatchStar(base.stream, class)
  IN  IF isByteLength(r) THEN makeMarker(cc, InitialPostPositionByte, star)
      ELSE makeMarker(cc, FinalPostPositionByte, star \intersect streams.final)

\* Mutant: the loop does not go on for what is pending in a star inside it.
LeaveStarUntested(loop, k, pending, accum) ==
  [loop EXCEPT !.depth = @ - 1, !.new = (k :> [pending |-> pending, accum |-> accum]) @@ @]

\* A star in the body of a loop adds to the loop's variants and to its test.
LeaveStar(loop, k, pending, accum) ==
  [loop EXCEPT !.depth = @ - 1, !.test = @ \union pending,
     !.new = (k :> [pending |-> pending, accum |-> accum]) @@ @]

\* It does a step in every iteration.
StarInLoop(r, base) ==
  LET loop == base.loop
      k == loop.count + 1
      own == IF k \in DOMAIN loop.old THEN loop.old[k] ELSE [pending |-> {}, accum |-> {}]
      m2 == base.stream \union own.accum
      body == process(r, [base EXCEPT !.pos = InitialPostPositionByte,
                                      !.stream = @ \union own.pending,
                                      !.loop = [loop EXCEPT !.depth = @ + 1, !.count = k]])
      result == AdvanceMarker(body, InitialPostPositionByte)
      pending == result.stream \ m2
      accum == result.stream \union m2
      left == LeaveStar(result.loop, k, pending, accum)
  IN  makeMarker([result EXCEPT !.loop = left], result.pos, base.stream \union accum)

\* The While loop.  With an empty test its body would compute nothing but zeroes.
RECURSIVE While(_, _, _, _, _)
While(r, x, pending, accum, old) ==
  LET body == process(r, [x EXCEPT !.pos = InitialPostPositionByte, !.stream = pending,
                                   !.loop = [NoLoop EXCEPT !.depth = 1, !.old = old]])
      result == AdvanceMarker(body, InitialPostPositionByte)
      nextPending == result.stream \ accum
      nextAccum == result.stream \union accum
  IN  IF result.loop.test \union nextPending = {}
      THEN makeMarker([result EXCEPT !.loop = x.loop], result.pos, nextAccum)
      ELSE While(r, [x EXCEPT !.strayed = result.strayed], nextPending, nextAccum, result.loop.new)

processUnboundedRep(r, x) ==
  LET base == AdvanceMarker(x, InitialPostPositionByte)
  IN  CASE isUnicodeUnitLength(r) -> StarOfClass(r, base)
        [] ~isUnicodeUnitLength(r) /\ x.loop.depth > 0 -> StarInLoop(r, base)
        [] OTHER -> While(r, base, base.stream, base.stream, << >>)

compileRep(r, x) ==
  LET least == IF r.lb > 0 THEN processLowerBound(r.re, r.lb, x) ELSE x
  IN  CASE r.ub = UNBOUNDED_REP -> processUnboundedRep(r.re, least)
        [] r.ub # UNBOUNDED_REP /\ r.lb < r.ub -> processBoundedRep(r.re, r.ub - r.lb, least)
        [] OTHER -> least

process(r, x) ==
  CASE r.op = "name" -> compileName(r, x)
    [] r.op = "seq" -> compileSeqTail(r.items, 0, x)
    [] r.op = "alt" -> compileAlt(r.items, x)
    [] r.op = "rep" -> compileRep(r, x)
    [] r.op = "lookbehind" -> compileLookbehind(r, x)
    [] r.op = "lookahead" -> compileLookahead(r, x)
    [] r.op = "any" -> compileAny(x)
    [] r.op \in {"diff", "intersect"} -> compilePair(r, x)
    [] r.op = "start" -> compileStart(x)
    [] r.op = "end" -> compileEnd(x)

\* The parts of an expression, itself included.
RECURSIVE Parts(_)
Parts(r) ==
  {r} \union
    CASE r.op \in {"seq", "alt"} -> UNION {Parts(r.items[k]) : k \in DOMAIN r.items}
      [] r.op \in {"rep", "lookbehind", "lookahead"} -> Parts(r.re)
      [] r.op \in {"diff", "intersect"} -> Parts(r.lh) \union Parts(r.rh)
      [] OTHER -> {}

\* compileAssertion throws an exception unless what is ahead is one character.
Unsupported(r) ==
  \E part \in Parts(r) : part.op = "lookahead" /\ ~isUnicodeUnitLength(part.re)

\* Mutant: the positions between the marker and the end of its line are reported too.
finalizeWithinLines(marker) ==
  LET follow == MatchStar(marker.stream, Not(streams.lineBreak))
  IN  IF invert THEN Not(follow) ELSE follow

\* finalizeMatchResult: from each marker on to the end of its line.
finalizeMatchResult(marker) ==
  LET follow == MatchStar(marker.stream, Not(streams.lineBreak))
  IN  (IF invert THEN Not(follow) ELSE follow) \intersect streams.lineBreak

-----------------------------------------------------------------------------
\* The number of a line break is that of its line.
LineOf(p) == Cardinality({q \in streams.lineBreak : q <= p})

Init ==
  /\ command \in Commands
  /\ re = written
  /\ streams = << >>
  /\ stage = "parse"
  /\ found = {}
  /\ strayed = {}

Pass(this, next, result) ==
  /\ stage = this
  /\ re' = result
  /\ stage' = next
  /\ UNCHANGED <<command, streams, found, strayed>>

Parse == Pass("parse", "nullablePrefix", Parsed(re))
RemoveNullablePrefix == Pass("nullablePrefix", "nullableSuffix", removeNullablePrefix(re))
RemoveNullableSuffix == Pass("nullableSuffix", "simplify", removeNullableSuffix(re))
Simplify == Pass("simplify", "initialize", simplify(re))

InitializeRequiredStreams ==
  /\ stage = "initialize"
  /\ streams' = Streams[unicodeLineBreak]
  /\ stage' = "resolve"
  /\ UNCHANGED <<command, re, found, strayed>>

CompileUnicodeNames == Pass("resolve", "compile", resolve(re))

Compile ==
  LET empty == [pos |-> FinalPostPositionByte, stream |-> {}, loop |-> NoLoop, strayed |-> {}]
      marker == compile(re, empty)
  IN  /\ stage = "compile"
      /\ ~Unsupported(re)
      /\ found' = {LineOf(p) : p \in finalizeMatchResult(marker)}
      /\ strayed' = makeMarker(marker, marker.pos, marker.stream).strayed
      /\ stage' = "done"
      /\ UNCHANGED <<command, re, streams>>

\* The exception for a lookahead at anything but one character ends the program.
CompileThrows ==
  /\ stage = "compile"
  /\ Unsupported(re)
  /\ stage' = "thrown"
  /\ UNCHANGED <<command, re, streams, found, strayed>>

Next ==
  \/ Parse \/ RemoveNullablePrefix \/ RemoveNullableSuffix \/ Simplify
  \/ InitializeRequiredStreams \/ CompileUnicodeNames \/ Compile \/ CompileThrows

Spec == Init /\ [][Next]_vars

-----------------------------------------------------------------------------
(* Properties.                                                             *)

LinesMatching(r) == {k \in DOMAIN Lines : Matches(r, Lines[k])}
Selected == IF invert THEN DOMAIN Lines \ found ELSE found

\* Every variable keeps its type; in particular what finalizeMatchResult leaves
\* is a set of line breaks, so that every report is a line of the file.
TypeOK ==
  /\ DOMAIN command = {"written", "unicodeLineBreak", "invert"}
  /\ stage \in {"parse", "nullablePrefix", "nullableSuffix", "simplify", "initialize", "resolve", "compile", "done", "thrown"}
  /\ streams # << >> <=> stage \in {"resolve", "compile", "done", "thrown"}
  /\ found \subseteq DOMAIN Lines
  /\ strayed \subseteq {FinalMatchByte, InitialPostPositionByte, FinalPostPositionByte}

\* makeRep takes the larger of the inner bounds for the lower bound of a
\* repetition of this form (re_rep.cpp:34), and the two differ.
WidensBounds(r) ==
  \E part \in Parts(r) :
    /\ part.op = "rep" /\ part.lb > 0 /\ part.lb # part.ub
    /\ LET inner == Parsed(part.re)
       IN  inner.op = "rep" /\ inner.ub \notin {UNBOUNDED_REP, inner.lb}

\* No pass of regular_expression_passes, and nothing that the functions building
\* the nodes rewrite, changes which lines match: stripping nullable prefixes and
\* suffixes, flattening, combining nested repetitions and merging classes.
PassesKeepTheLines ==
  re = written \/ WidensBounds(written) \/ LinesMatching(re) = LinesMatching(written)

\* Every line that matches is reported, if the markers kept to the positions of
\* their kinds (re_compiler.h:23-33), those at the last byte of a match apart:
\* whatever the widths of the characters, the nesting of repetitions and loops,
\* and the kinds of markers that alternatives and assertions have to align.
NoLineMissed ==
  stage = "done" /\ strayed \subseteq {FinalMatchByte} => LinesMatching(re) \subseteq Selected

\* No line is reported that does not match, if every marker kept to the positions
\* of its kind: no match crosses a line break, ends inside a character, or joins
\* the bytes of two characters.
NoLineAdded ==
  stage = "done" /\ strayed = {} => Selected \subseteq LinesMatching(re)

\* "Normal usage to find lines in a file f matching a regexp r"
\* (README-icgrep.txt:13): the lines reported are the lines that match.
LinesFoundMatch == stage = "done" => Selected = LinesMatching(written)
=============================================================================
