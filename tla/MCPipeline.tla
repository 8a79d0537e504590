----------------------------- MODULE MCPipeline -----------------------------
(***************************************************************************)
(* An instance of Pipeline for TLC: every short file, and long files whose *)
(* bytes repeat.                                                           *)
(***************************************************************************)
EXTENDS Pipeline

CONSTANTS
  MaxShort,   \* bound: bytes of a file that has any contents
  LongSizes,  \* bound: bytes of a file whose bytes repeat
  Period      \* bound: bytes of a long file until they repeat

Bytes == {"a", "b", "lf"}

MCFiles ==
  UNION {[1..n -> Bytes] : n \in 1..MaxShort}
    \union {[i \in 1..n |-> w[i % Period]] :
               w \in [0..Period - 1 -> Bytes], n \in LongSizes}
=============================================================================
