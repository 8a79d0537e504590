---------------------------- MODULE MCStreamOps ----------------------------
(* Operations for StreamOps, on fields of one, two or four bits.            *)
EXTENDS StreamOps

Op(name, width, fields, n) == [name |-> name, width |-> width, fields |-> fields, n |-> n]

\* Blocks of one, two and three fields: the three ways to add.
Scans == {Op(name, 2, fields, 0) : name \in {"MatchStar", "ScanThru"}, fields \in 1..3}
\* Within a field (by bytes and bits), within a block, and by up to three blocks.
Advances == {Op("Advance", 4, 2, n) : n \in 2..3} \union
            {Op("Advance", 2, 2, n) : n \in 1..4} \union
            {Op("Advance", 1, 2, n) : n \in 3..6}
\* Powers of two and their neighbours; shifts by up to two blocks.
Repetitions == {Op(name, 2, 2, n) : name \in {"consecutive", "reachable"}, n \in 1..5}
                 \union {Op(name, 1, 2, n) : name \in {"consecutive", "reachable"}, n \in {6, 7, 8}}
                 \union {Op("bounded", 2, 2, 3)}
\* Moves by 1 and by 2 within a field, and up to four registers.
Deletions == {Op("delete", 4, 1, 0), Op("delete", 2, 2, 0), Op("delete", 1, 4, 0),
              Op("delete", 2, 3, 0)}

AllOps == Scans \union Advances \union Repetitions \union Deletions
=============================================================================
