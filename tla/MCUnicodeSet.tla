---------------------------- MODULE MCUnicodeSet ----------------------------
(* A code point space of a few small quads.                                *)
EXTENDS UnicodeSetIterator

\* All lists of at most one interval, and some of two and three that share a quad,
\* touch, or leave whole quads between them.
MCIntervalLists ==
  { << >> } \union { <<<<lo, hi>>>> : lo \in {0, 1, 2, 3}, hi \in {3, 4, 5, 6} }
    \union { <<<<0, 0>>, <<2, 2>>>>, <<<<1, 1>>, <<3, 6>>>>, <<<<0, 2>>, <<5, 5>>>>,
             <<<<0, 1>>, <<2, 3>>, <<6, 6>>>>, <<<<1, 4>>, <<6, 6>>>> }
=============================================================================
