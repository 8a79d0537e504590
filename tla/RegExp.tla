------------------------------- MODULE RegExp -------------------------------
(***************************************************************************)
(* Regular expressions as icgrep represents them (the classes of re/*.h),  *)
(* and what they mean.  A node is a record with a field op; the other      *)
(* fields are those of the class.  The meaning is given on one line, a     *)
(* sequence of characters without its line break, and knows nothing of     *)
(* bytes and marker streams: it is what the compiled program promises.     *)
(***************************************************************************)
EXTENDS Integers, Sequences

UNBOUNDED_REP == -1

Name(cc) == [op |-> "name", cc |-> cc]
AnyChar == [op |-> "any"]
Start == [op |-> "start"]
End == [op |-> "end"]
Sequence(items) == [op |-> "seq", items |-> items]
Alt(items) == [op |-> "alt", items |-> items]
Rep(re, lb, ub) == [op |-> "rep", re |-> re, lb |-> lb, ub |-> ub]
Diff(lh, rh) == [op |-> "diff", lh |-> lh, rh |-> rh]
Intersect(lh, rh) == [op |-> "intersect", lh |-> lh, rh |-> rh]
Lookbehind(re, positive) == [op |-> "lookbehind", re |-> re, positive |-> positive]
Lookahead(re, positive) == [op |-> "lookahead", re |-> re, positive |-> positive]

-----------------------------------------------------------------------------
\* Where a match of re that starts before character i of the line can end.
RECURSIVE Ends(_, _, _)

EndsFrom(re, line, starts) == UNION {Ends(re, line, i) : i \in starts}

RECURSIVE EndsOfSeq(_, _, _)
EndsOfSeq(items, line, starts) ==
  IF items = << >> THEN starts
  ELSE EndsOfSeq(Tail(items), line, EndsFrom(Head(items), line, starts))

\* After the least number of turns, each of the others may be the last.
RECURSIVE EndsOfRep(_, _, _, _, _)
EndsOfRep(re, line, starts, least, others) ==
  IF starts = {} \/ least + others = 0 THEN starts
  ELSE LET ends == EndsFrom(re, line, starts)
       IN  IF least > 0 THEN EndsOfRep(re, line, ends, least - 1, others)
           ELSE starts \union EndsOfRep(re, line, ends, 0, others - 1)

Ends(re, line, i) ==
  LET positions == 1..Len(line) + 1
      holds(test) == IF test THEN {i} ELSE {}
      next(test) == IF i <= Len(line) /\ test THEN {i + 1} ELSE {}
  IN
  CASE re.op = "name" -> next(i <= Len(line) /\ line[i] \in re.cc)
    [] re.op = "any" -> next(TRUE)
    [] re.op = "start" -> holds(i = 1)
    [] re.op = "end" -> holds(i = Len(line) + 1)
    [] re.op = "seq" -> EndsOfSeq(re.items, line, {i})
    [] re.op = "alt" -> UNION {Ends(re.items[k], line, i) : k \in DOMAIN re.items}
    [] re.op = "rep" ->
         \* More repetitions than characters add nothing.
         EndsOfRep(re.re, line, {i}, re.lb,
                   IF re.ub = UNBOUNDED_REP THEN Len(line) ELSE re.ub - re.lb)
    [] re.op = "diff" -> Ends(re.lh, line, i) \ Ends(re.rh, line, i)
    [] re.op = "intersect" -> Ends(re.lh, line, i) \intersect Ends(re.rh, line, i)
    [] re.op = "lookbehind" -> holds((i \in EndsFrom(re.re, line, positions)) <=> re.positive)
    [] re.op = "lookahead" -> holds((Ends(re.re, line, i) # {}) <=> re.positive)

\* grep's question: does some part of the line match?
Matches(re, line) == \E i \in 1..Len(line) + 1 : Ends(re, line, i) # {}
=============================================================================
