--------------------------- MODULE MCCarryScopes ---------------------------
(* Programs for CarryScopes: the shapes that the RE compiler emits.         *)
EXTENDS CarryScopes

S(type) == [type |-> type, n |-> 1]
Far(blocks) == [type |-> "long", n |-> blocks]
Block(kind, parent, body) == [kind |-> kind, parent |-> parent, body |-> body]

\* Ifs nested in an If, before, between and after statements that carry.
NestedIfs ==
  << Block("main", 0, <<S("unit"), Nested(2)>>),
     Block("if", 1, <<S("add"), Nested(3), S("unit"), Nested(4)>>),
     Block("if", 2, <<S("short"), S("unit")>>),
     Block("if", 2, <<S("unit")>>) >>

\* A While in the entry block, and an If after it.
WhileThenIf ==
  << Block("main", 0, <<Nested(2), S("unit"), Nested(3)>>),
     Block("while", 1, <<S("unit"), S("add")>>),
     Block("if", 1, <<S("unit"), Nested(4)>>),
     Block("if", 3, <<S("add")>>) >>

\* Long advances in an If, in one nested in it, and in the entry block.
LongAdvances ==
  << Block("main", 0, <<Nested(2), S("unit"), Far(2)>>),
     Block("if", 1, <<S("unit"), Nested(3)>>),
     Block("if", 2, <<Far(3), S("add")>>) >>

LongestAdvance ==
  << Block("main", 0, <<Far(1), Nested(2)>>),
     Block("if", 1, <<Far(4), S("unit")>>) >>

\* abcde(fg)*h: the Ifs come after every three characters (compileSeqTail).
WhileInIf ==
  << Block("main", 0, <<S("unit"), S("unit"), Nested(2)>>),
     Block("if", 1, <<S("unit"), Nested(3), S("unit")>>),
     Block("while", 2, <<S("unit"), S("unit")>>) >>

\* abc(?<=c)d: nothing is carried in an If whose summary is a pack of the next one.
NothingCarried ==
  << Block("main", 0, <<S("unit"), Nested(2), Nested(3)>>),
     Block("if", 1, << >>),
     Block("if", 1, <<S("unit"), S("add"), Nested(4)>>),
     Block("if", 3, << >>) >>

\* a{64}bcda{64}: the second a{64} shares the advances that count its characters with the
\* first, so that only that of the marker is left. Of alike statements one stands for all.
LongAloneInIf ==
  << Block("main", 0, <<S("unit"), S("short"), Nested(2)>>),
     Block("if", 1, <<S("unit"), Nested(3)>>),
     Block("if", 2, <<Far(1)>>) >>

\* (a{65}b)*
LongInWhile ==
  << Block("main", 0, <<Nested(2)>>),
     Block("while", 1, <<Far(1), S("short"), S("unit")>>) >>

SupportedPrograms == {NestedIfs, WhileThenIf, LongAdvances, LongestAdvance, NothingCarried}
ASSUME SupportedAssumption == \A p \in SupportedPrograms : Supported(p)
SkippedPrograms == {WhileInIf, LongAloneInIf}
WithLongInWhile == {LongInWhile}
=============================================================================
