----------------------------- MODULE SearchSpec -----------------------------
(***************************************************************************)
(* What one call of the compiled search function promises of a file: the   *)
(* matching lines are reported, each once and in the order of the file,    *)
(* with the number of the line (from 0) and the positions of its first     *)
(* byte and of its line break.  A last line without a break ends at the    *)
(* end of the file.                                                        *)
(*                                                                         *)
(* The pattern is the two-byte sequence ab, the least pattern whose match  *)
(* can lie across the end of a block; bytes are "a", "b" and "lf".         *)
(* Positions in a file are numbered from 0, as in the code.                *)
(***************************************************************************)
EXTENDS Integers, Sequences, FiniteSets

VARIABLES
  file,      \* the bytes of the file
  invert,    \* the -v option
  reported,  \* the calls of wrapped_report_match so far
  finished   \* whether the search function has returned

searchVars == <<file, invert, reported, finished>>

Byte == {"a", "b", "lf"}
FileSize == Len(file)
At(p) == file[p + 1]

\* finalLineIsUnterminated; a file that is searched is not empty.
Unterminated == At(FileSize - 1) # "lf"

\* Where lines end, and what is known of the line that ends at p.
Ends == {p \in 0..FileSize - 1 : At(p) = "lf"}
          \union (IF Unterminated THEN {FileSize} ELSE {})
EndsBefore(p) == {q \in Ends : q < p}
Start(p) ==
  IF EndsBefore(p) = {} THEN 0 ELSE 1 + CHOOSE q \in EndsBefore(p) : \A r \in EndsBefore(p) : r <= q
Contains(p) == \E i \in Start(p) + 1..p - 1 : At(i - 1) = "a" /\ At(i) = "b"

MatchEnds == {p \in Ends : Contains(p) # invert}
LineReport(p) == [num |-> Cardinality(EndsBefore(p)), start |-> Start(p), end |-> p]

-----------------------------------------------------------------------------
SearchInit == reported = << >> /\ finished = FALSE

\* The next matching line, in the order of the file.
ReportMatch ==
  /\ ~finished
  /\ \E p \in MatchEnds :
       /\ Cardinality({q \in MatchEnds : q < p}) = Len(reported)
       /\ reported' = Append(reported, LineReport(p))
  /\ UNCHANGED <<file, invert, finished>>

Return ==
  /\ ~finished
  /\ Len(reported) = Cardinality(MatchEnds)
  /\ finished' = TRUE
  /\ UNCHANGED <<file, invert, reported>>

SearchNext == ReportMatch \/ Return

\* The search function comes to its end.
Spec == SearchInit /\ [][SearchNext]_searchVars /\ WF_searchVars(SearchNext)
=============================================================================
