---------------------------- MODULE MCRECompiler ----------------------------
(* One file and families of expressions for RECompiler.                    *)
EXTENDS RECompiler

\* e stands for a character of two bytes, h for one of three.
MCWidth ==
  [c \in {"a", "b", "LF", "CR"} |-> 1] @@ [c \in {"e", "NEL"} |-> 2] @@ [c \in {"h"} |-> 3]

\* All words of up to three letters, two more empty lines, and some longer characters.
Letter == <<"a", "b", "e">>
Words(n) == [k \in 1..3^n |-> [i \in 1..n |-> Letter[(((k - 1) \div 3^(i - 1)) % 3) + 1]]]
ShortLines ==
  Words(1) \o Words(0) \o Words(2) \o Words(3)
    \o << << >>, << >>, <<"h">>, <<"a", "h">>, <<"h", "e">> >>

\* Lines for several turns of a loop, of the loops inside it, and of a counted repetition.
\* A While goes on until no line of the file needs it: the last line needs it for a turn
\* of an inner loop when no line needs it for one of the outer loop.
LongLines ==
  << <<"a", "a", "a", "a">>, <<"a", "a", "a", "a", "a">>, <<"a", "a", "a", "a", "a", "a">>,
     <<"e", "e", "e", "e">>, <<"e", "e", "e", "e", "e", "e">>,
     <<"a", "b", "b", "a">>, <<"e", "a", "e", "a">>, <<"a", "e", "a", "e", "a">>,
     <<"a", "b", "a", "b">>, <<"a", "a", "b", "a", "a">>, <<"e", "a", "b", "a", "e">>,
     <<"a", "a", "b", "a", "b", "a">>, <<"e", "a", "e", "a", "b">>, <<"e", "a", "b", "e", "a", "b">>,
     <<"b", "a", "b", "a", "e">>, <<"a", "b", "a", "b", "a", "e">>, <<"b", "a", "e", "b", "a", "e">>,
     <<"a", "b", "a", "e", "b">>, <<"a", "b", "a", "b", "a", "e", "b">>,
     <<"a", "b", "a", "e", "b", "a", "e", "b">>, <<"a", "b", "a", "e", "a", "b", "a", "b">>,
     <<"a", "b", "a", "b", "a", "b", "a", "b", "a", "e">> >>

MCLines == ShortLines \o LongLines

\* With Unicode line breaks the kinds of breaks take turns.
UnicodeBreak(k) == << <<"CR", "LF">>, <<"LF">>, <<"NEL">>, <<"CR">> >>[(k % 4) + 1]
MCBreaks ==
  [u \in BOOLEAN |-> [k \in DOMAIN MCLines |-> IF u THEN UnicodeBreak(k) ELSE <<"LF">>]]

-----------------------------------------------------------------------------
a == Name({"a"})
b == Name({"b"})
e == Name({"e"})
ae == Name({"a", "e"})
notE == Diff(AnyChar, e)
Star(r) == Rep(r, 0, UNBOUNDED_REP)
Plus(r) == Rep(r, 1, UNBOUNDED_REP)
Opt(r) == Rep(r, 0, 1)

\* Repetitions of groups that hold repetitions, between two elements.
Group ==
  {a, e, ae, AnyChar, notE, Sequence(<<a, e>>), Sequence(<<e, a>>),
   Alt(<<Sequence(<<e, a>>), b>>), Alt(<<e, Star(a)>>),
   Sequence(<<a, Star(e)>>), Sequence(<<e, Star(b)>>), Sequence(<<Star(b), a>>),
   Sequence(<<Opt(e), a>>), Sequence(<<a, Star(Sequence(<<b, a>>))>>),
   Sequence(<<a, Star(Sequence(<<e, a>>))>>), Sequence(<<Star(Sequence(<<e, a>>)), b>>),
   Opt(Sequence(<<a, b>>)), Star(a), Plus(e), Opt(a), Rep(ae, 1, 2)}
Bounds == {<<0, UNBOUNDED_REP>>, <<1, UNBOUNDED_REP>>, <<0, 1>>, <<2, 2>>, <<1, 3>>}
Repetitions(groups) ==
  {Sequence(<<p, Rep(g, n[1], n[2]), q>>) :
     p \in {EmptySeq, a, e}, q \in {a, e, AnyChar}, g \in groups, n \in Bounds}

\* Loops in loops, and several of them in one, over whole lines.
Loops ==
  {Sequence(<<Star(Sequence(<<b, a>>)), e>>), Sequence(<<a, Star(Sequence(<<b, a>>)), e>>),
   Sequence(<<a, Star(Sequence(<<b, a>>)), e, Star(Sequence(<<a, b>>))>>),
   Sequence(<<a, Star(Sequence(<<Star(Sequence(<<b, a>>)), e>>)), b>>),
   Alt(<<Sequence(<<a, Star(Sequence(<<b, a>>))>>), Sequence(<<e, Star(Sequence(<<a, e>>)), b>>)>>),
   Sequence(<<a, Star(Sequence(<<Opt(b), Opt(e)>>)), a>>)}
\* Repetitions whose bounds are combined with those of another.
Counted ==
  {Rep(ae, 2, 3), Rep(e, 2, 2), Rep(a, 3, 3), Rep(a, 2, UNBOUNDED_REP), Rep(Sequence(<<e, a>>), 2, 2)}
Counts == Bounds \union {<<0, 3>>, <<0, 5>>, <<2, 5>>, <<4, 4>>, <<3, UNBOUNDED_REP>>}
WholeLines(groups) == {Sequence(<<Start, Rep(g, n[1], n[2]), End>>) : g \in groups, n \in Counts}

\* Nodes of every class and every kind of marker, as alternatives and in sequence.
Kinds ==
  {a, e, ae, AnyChar, notE, EmptySeq, Star(a), Star(e), Opt(e), Start, End,
   Sequence(<<a, e>>), Sequence(<<e, b>>), Sequence(<<a, Opt(e)>>), Sequence(<<Opt(a), e>>),
   Star(Sequence(<<e, a>>)),
   Lookbehind(e, TRUE), Lookbehind(Sequence(<<a, e>>), FALSE), Lookbehind(Plus(e), TRUE),
   Lookbehind(a, FALSE), Lookahead(a, TRUE), Lookahead(e, FALSE), Lookahead(notE, TRUE),
   Intersect(notE, ae), Intersect(ae, Name({"e", "b"})), Diff(ae, a)}

\* Lookaheads that the compiler supports only if the passes leave one character of them.
Ahead == {Sequence(<<a, Lookahead(r, positive)>>) :
            r \in {Sequence(<<e, a>>), Opt(e), Alt(<<a, Start>>), Rep(e, 1, 1), Alt(<<e, Intersect(notE, ae)>>)},
            positive \in BOOLEAN}

\* \b and its like: makeWordBoundary in re_parser.cpp.
Boundary(w) ==
  Alt(<<Sequence(<<Lookbehind(w, FALSE), Lookahead(w, TRUE)>>),
        Sequence(<<Lookbehind(w, TRUE), Lookahead(w, FALSE)>>)>>)

Mixtures(kinds) ==
  UNION {{Sequence(<<a, Alt(<<x, y>>), a>>), Sequence(<<a, Alt(<<x, y>>), e>>),
          Sequence(<<Alt(<<x, y>>), e>>),
          Sequence(<<b, x, y, e>>), Sequence(<<b, x, y>>)} : x, y \in kinds}
    \union {Boundary(w) : w \in {a, e, ae}}
    \union {Sequence(<<x, Boundary(ae), y>>) : x, y \in {a, b, e, AnyChar}}

With(r, u, v) == [written |-> r, unicodeLineBreak |-> u, invert |-> v]

\* The kind of line break matters to these only.
LineKinds == {a, e, notE, AnyChar, Start, End, EmptySeq, Star(e), Lookahead(notE, TRUE)}

\* -v only changes what is done with the last marker.
MCCommands ==
  {With(r, TRUE, FALSE) : r \in Repetitions(Group) \union WholeLines(Group \union Loops \union Counted) \union Mixtures(Kinds) \union Ahead}
    \union {With(r, FALSE, FALSE) : r \in Repetitions({e, AnyChar, notE}) \union Mixtures(LineKinds)}
    \union {With(r, u, TRUE) : r \in Group \union Kinds, u \in BOOLEAN}

\* Expressions whose lines are not those found.
WrongCommands ==
  {With(notE, TRUE, FALSE),
   With(Sequence(<<b, Star(e), Star(a), e>>), TRUE, FALSE),
   With(Sequence(<<Start, e>>), FALSE, FALSE),
   With(Sequence(<<b, Plus(Opt(a)), e>>), TRUE, FALSE)}
=============================================================================
