----------------------------- MODULE LineReport -----------------------------
(***************************************************************************)
(* Line breaks, from the bytes of a file to the text that is printed: the  *)
(* end-of-file mark (GrepEngine::finalLineIsUnterminated), the streams of  *)
(* breaks and of places where a match may be reported (RE_Compiler), and   *)
(* what wrapped_report_match writes of a line.  Which lines the pattern    *)
(* matches is left open: every choice of lines is a behaviour.             *)
(***************************************************************************)
EXTENDS Integers, Sequences, FiniteSets, SequencesExt

CONSTANTS
  Chars,        \* the characters that files are made of
  MaxChars,     \* bound: characters of a file
  LFOnly        \* the -disable-unicode-linebreak option

\* The UTF-8 encoding of the characters.  LF to CR are one byte each (VT stands
\* for FF too); NEL and LS (which stands for PS too) end a line as well.  Aring
\* and U1028 do not, but have the last byte of NEL and the last two of LS.
Encoding ==
  [x     |-> <<"x">>,  lf |-> <<"0A">>, vt |-> <<"0B">>, cr |-> <<"0D">>,
   nel   |-> <<"C2", "85">>,       ls    |-> <<"E2", "80", "A8">>,
   aring |-> <<"C3", "85">>,       u1028 |-> <<"E1", "80", "A8">>]

ASSUME CharsAssumption == Chars \subseteq DOMAIN Encoding
ASSUME MaxCharsAssumption == MaxChars \in Nat

VARIABLES
  chars,      \* the file, as characters
  buffer,     \* the file, as the bytes that are mapped
  normalize,  \* the -normalize-line-breaks option
  breaks,     \* result 1 of the compiled function: the ends of the lines
  places,     \* where result 0 may have a bit: a match is moved on to one of these
  next,       \* how far scanMatch has come in the file, -1 before the streams exist
  selected,   \* history: the ends of the lines that matched
  output      \* the bytes written to resultStrs, "EOL" for the '\n' of the program

file == <<chars, buffer, normalize>>
vars == <<file, breaks, places, next, selected, output>>

-----------------------------------------------------------------------------
(* The file as the program sees it.                                        *)

Bytes(cs) == FlattenSeq([i \in 1..Len(cs) |-> Encoding[cs[i]]])
filesize == Len(buffer)
ByteAt(p) == IF p \in 0..filesize - 1 THEN buffer[p + 1] ELSE "00"

\* finalLineIsUnterminated: compares the last one, two or three bytes.
\* Mutant: only the last byte is compared.
LastByteCompared == ByteAt(filesize - 1) \notin {"0A", "0B", "0D", "85", "A8"}

finalLineIsUnterminated ==
  /\ ByteAt(filesize - 1) \notin {"0A", "0B", "0D"}
  /\ ~(ByteAt(filesize - 1) = "85" /\ ByteAt(filesize - 2) = "C2")
  /\ ~(ByteAt(filesize - 1) = "A8" /\ ByteAt(filesize - 2) = "80" /\ ByteAt(filesize - 3) = "E2")

\* The bytes the streams are computed from: the mark is a line feed after the file.
Input(p) == IF p = filesize /\ finalLineIsUnterminated THEN "0A" ELSE ByteAt(p)
Position == 0..filesize

\* The streams of RE_Compiler::initializeRequiredStreams.
LF == {p \in Position : Input(p) = "0A"}
CRLF == {p \in LF : p > 0 /\ Input(p - 1) = "0D"}
LF_VT_FF_CR == {p \in Position : Input(p) \in {"0A", "0B", "0D"}}
NEL == {p \in Position : p > 0 /\ Input(p) = "85" /\ Input(p - 1) = "C2"}
LS_PS == {p \in Position : p > 1 /\ Input(p) = "A8" /\ Input(p - 1) = "80" /\ Input(p - 2) = "E2"}

\* Mutant: a CRLF counts as two line breaks.
WithoutCRLF == LF_VT_FF_CR \union NEL \union LS_PS

UnicodeLineBreak == (LF_VT_FF_CR \union NEL \union LS_PS) \ CRLF

\* Mutant: a match is moved on to a line feed, whatever the breaks are.
LineFeeds == LF

RecordBreaks == (IF LFOnly THEN LF ELSE UnicodeLineBreak) \ CRLF
MatchPlaces == IF LFOnly THEN LF ELSE UnicodeLineBreak

-----------------------------------------------------------------------------
(* What scanMatch finds, and what wrapped_report_match writes.             *)

BreaksBefore(p) == {q \in breaks : q < p}
LineStart(p) ==
  IF BreaksBefore(p) = {} THEN 0
  ELSE 1 + CHOOSE q \in BreaksBefore(p) : \A r \in BreaksBefore(p) : r <= q

Written(first, last) == SubSeq(buffer, first + 1, last + 1)

\* Mutant: the line feed of a CRLF is taken for the first byte of the next line.
StartOnLF(p) == LineStart(p)

\* A line that "starts" on the LF of a CRLF starts after it.
ReportStart(p) ==
  IF ByteAt(LineStart(p)) = "0A" /\ LineStart(p) # p THEN LineStart(p) + 1 ELSE LineStart(p)

\* Mutant: NEL is taken for a break of three bytes.
BreakLengthOf3(p) == IF ByteAt(p) \in {"0A", "0B", "0D"} THEN 1 ELSE 3

\* A break above CR ends on its second byte (NEL) or third (LS and PS).
BreakLength(p) ==
  IF ByteAt(p) \in {"0A", "0B", "0D"} THEN 1 ELSE IF ByteAt(p) = "85" THEN 2 ELSE 3

\* With both bytes of a CRLF, if there is one more byte.
BreakEnd(p) == IF ByteAt(p) = "0D" /\ ByteAt(p + 1) = "0A" THEN p + 1 ELSE p

report_match(p) ==
  IF p = filesize
  THEN Written(ReportStart(p), p - 1) \o (IF normalize THEN <<"EOL">> ELSE << >>)
  ELSE IF normalize
       THEN Written(ReportStart(p), p - BreakLength(p)) \o <<"EOL">>
       ELSE Written(ReportStart(p), BreakEnd(p))

-----------------------------------------------------------------------------
Init ==
  /\ chars \in UNION {[1..n -> Chars] : n \in 1..MaxChars}
  /\ buffer = Bytes(chars)
  /\ normalize \in BOOLEAN
  /\ breaks = {} /\ places = {}
  /\ next = -1
  /\ selected = {}
  /\ output = << >>

\* The kernels run over the file.
ComputeStreams ==
  /\ next = -1
  /\ breaks' = RecordBreaks
  /\ places' = MatchPlaces
  /\ next' = 0
  /\ UNCHANGED <<file, selected, output>>

\* The first place from here on where a match may be reported.
Reaches(p) == p \in places /\ p >= next /\ \A q \in places : q >= next => p <= q

ReportMatch ==
  \E p \in places :
    /\ Reaches(p)
    /\ output' = output \o report_match(p)
    /\ selected' = selected \union {p}
    /\ next' = p + 1
    /\ UNCHANGED <<file, breaks, places>>

\* The line does not match.
NoMatch ==
  \E p \in places :
    /\ Reaches(p)
    /\ next' = p + 1
    /\ UNCHANGED <<file, breaks, places, selected, output>>

Next == ComputeStreams \/ ReportMatch \/ NoMatch

Spec == Init /\ [][Next]_vars

-----------------------------------------------------------------------------
(* The lines of the file, told from its characters.                        *)

\* A line ends with a line break character; CR and LF together are one.
EndsLine(i) ==
  IF LFOnly THEN chars[i] = "lf"
  ELSE /\ chars[i] \in {"lf", "vt", "cr", "nel", "ls"}
       /\ ~(chars[i] = "cr" /\ i < Len(chars) /\ chars[i + 1] = "lf")
LastChars == {i \in 1..Len(chars) : EndsLine(i)} \union {Len(chars)}

\* The line whose last character is number i: its characters, and those of them
\* that are its break.
LineOf(i) == SubSeq(chars, 1 + Max({0} \union {j \in LastChars : j < i}), i)
TextLength(line) ==
  LET n == Len(line)
  IN  IF ~LFOnly /\ n > 1 /\ SubSeq(line, n - 1, n) = <<"cr", "lf">> THEN n - 2
      ELSE IF line[n] = "lf" \/ (~LFOnly /\ line[n] \in {"vt", "cr", "nel", "ls"}) THEN n - 1
      ELSE n
Printed(i) ==
  IF normalize
  THEN Bytes(SubSeq(LineOf(i), 1, TextLength(LineOf(i)))) \o <<"EOL">>
  ELSE Bytes(LineOf(i))

\* Where the break of that line ends, and whether scanMatch has come to it.
LastByte(i) == Len(Bytes(SubSeq(chars, 1, i))) - 1
ReportedAt(i, p) ==
  \/ p = LastByte(i)
  \/ p = LastByte(i) - 1 /\ ByteAt(p) = "0D" /\ ByteAt(p + 1) = "0A" /\ ~LFOnly
  \/ p = filesize /\ i = Len(chars) /\ ~EndsLine(i)

\* Every variable keeps its type; wherever a line ends a match may be reported.
TypeOK ==
  /\ chars \in Seq(Chars)
  /\ normalize \in BOOLEAN
  /\ places \subseteq Position /\ breaks \subseteq places
  /\ next \in -1..filesize + 1
  /\ selected \subseteq Position
  /\ output \in Seq({"EOL"} \union UNION {Range(Encoding[c]) : c \in Chars})

\* The elements of S that have k - 1 smaller ones: the k-th in order.
Ranked(S, k) == {i \in S : Cardinality({j \in S : j < i}) = k - 1}
Nth(S, k) == CHOOSE i \in Ranked(S, k) : TRUE

SelectedLines == {i \in LastChars : \E p \in selected : ReportedAt(i, p)}

\* What is printed is, byte for byte, the lines that matched, each with its own
\* break (or the program's), and no byte of another line.
OutputIsSelectedLines ==
  output = FlattenSeq([k \in 1..Cardinality(SelectedLines) |-> Printed(Nth(SelectedLines, k))])

\* Every line of the file, the last one too, comes up for a match exactly once.
Finished == next >= 0 /\ \A p \in places : p < next
EveryLineOffered ==
  Finished => \A i \in LastChars : Cardinality({p \in places : ReportedAt(i, p)}) = 1

\* The number of a reported line is the number of lines before it.
LineNumbersRight ==
  \A p \in selected : \A i \in LastChars :
    ReportedAt(i, p) => Cardinality(BreaksBefore(p)) = Cardinality({j \in LastChars : j < i})
=============================================================================
