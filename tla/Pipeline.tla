------------------------------ MODULE Pipeline ------------------------------
(***************************************************************************)
(* The search function that kernels/pipeline.cpp builds: three kernels,    *)
(* s2p (bytes to basis bits), icgrep (basis bits to the streams of matches *)
(* and line breaks) and scanMatch (one report per match), called block by  *)
(* block and, with -segment-size above 1, segment by segment.  Between two *)
(* kernels lies a ring of SegmentSize blocks that both address by their    *)
(* own BlockNo (kernels/instance.cpp).                                     *)
(*                                                                         *)
(* One step is one DoBlock call, except that scanMatch takes one step per  *)
(* iteration of its loop; the branches of the driver are steps as well.    *)
(* The icgrep kernel is the code for the pattern ab; see SearchSpec.       *)
(***************************************************************************)
EXTENDS Integers, Sequences, FiniteSets

CONSTANTS
  BlockSize,     \* bits in a block
  ScanWordSize,  \* bits in a word of scanMatch
  SegmentSize,   \* the -segment-size option
  Files          \* the files considered

ASSUME BlockSizeAssumption == BlockSize \in Nat \ {0}
ASSUME SegmentSizeAssumption == SegmentSize \in Nat \ {0}
\* A block is a whole number of words.
ASSUME ScanWordSizeAssumption ==
  ScanWordSize \in Nat \ {0} /\ \E n \in 1..BlockSize : BlockSize = n * ScanWordSize
\* doGrep does not search an empty file.
ASSUME FilesAssumption == \A f \in Files : f \in Seq({"a", "b", "lf"}) /\ Len(f) > 0

VARIABLES
  file,        \* the mapped bytes
  invert,      \* the -v option
  pc,          \* the basic block of Main that control is in
  remaining,   \* remainingBytes
  due,         \* DoBlock calls of the current basic block still to be made
  blockNo,     \* BlockNo of each kernel
  basis,       \* the output ring of s2p: a block of bytes per slot
  eofSlot,     \* the slot that b4 and b6 point into
  carry,       \* carries of the icgrep kernel
  results,     \* the output ring of icgrep: sets of bit positions per slot
  lineStart,   \* LineStart of scanMatch
  lineNum,     \* LineNum of scanMatch
  scan,        \* the scan in progress: what scanMatch has in registers
  reported     \* history: the calls of wrapped_report_match

control == <<pc, remaining, eofSlot>>
lineState == <<lineStart, lineNum, scan, reported>>
vars == <<file, invert, control, due, blockNo, basis, carry, results, lineState>>

Promise == INSTANCE SearchSpec WITH finished <- pc = "done"

FileSize == Promise!FileSize
finalLineUnterminated == Promise!Unterminated

Kernel == {"s2p", "icgrep", "scanMatch"}
Bit == 0..BlockSize - 1
Slot == 0..SegmentSize - 1
WordCount == BlockSize \div ScanWordSize

Undefined == [i \in Bit |-> "undefined"]
NoResult == [matches |-> {}, breaks |-> {}]
NotScanning == [word |-> -1, matches |-> {}, breaks |-> {}, start |-> 0, num |-> 0]

-----------------------------------------------------------------------------
(* Kernel instances: the state is zeroed, the output rings are not.        *)

Init ==
  /\ file \in Files
  /\ invert \in BOOLEAN
  /\ pc = IF SegmentSize > 1 THEN "segmentCond" ELSE "fullCond"
  /\ remaining = FileSize
  /\ due = [k \in Kernel |-> 0]
  /\ blockNo = [k \in Kernel |-> 0]
  /\ basis = [s \in Slot |-> Undefined]
  /\ eofSlot = 0
  /\ carry = [advance |-> FALSE, matchStar |-> FALSE]
  /\ results = [s \in Slot |-> NoResult]
  /\ lineStart = 0
  /\ lineNum = 0
  /\ scan = NotScanning
  /\ reported = << >>

\* Mutant: the slot of the block after.
NextSlot(k) == (blockNo[k] + 1) % SegmentSize

\* getStreamSet: both ends of a ring address it by their own block number.
SlotOf(k) == blockNo[k] % SegmentSize

\* finalize: a DoBlock call ends by counting its block.
Done(k) ==
  /\ blockNo' = [blockNo EXCEPT ![k] = @ + 1]
  /\ due' = [due EXCEPT ![k] = @ - 1]

-----------------------------------------------------------------------------
(* s2p.  What lies between the end of the file and that of its page is 0.  *)

MappedByte(p) == IF p < FileSize THEN file[p + 1] ELSE "nul"

S2PDoBlock ==
  /\ due["s2p"] > 0
  /\ basis' = [basis EXCEPT ![SlotOf("s2p")] =
                 [i \in Bit |-> MappedByte(blockNo["s2p"] * BlockSize + i)]]
  /\ Done("s2p")
  /\ UNCHANGED <<file, invert, control, carry, results, lineState>>

-----------------------------------------------------------------------------
(* icgrep: a match ends where b follows a, MatchStar takes it to the break *)
(* of its line, and two carries go from block to block.                    *)

MarkerAt(block, i) ==
  /\ block[i] = "b"
  /\ IF i = 0 THEN carry.advance ELSE block[i - 1] = "a"

\* mAny is what is not a line break.
AnyFrom(block, j, i) == \A k \in j..i - 1 : block[k] # "lf"

MatchStarAt(block, i) ==
  \/ carry.matchStar /\ AnyFrom(block, 0, i)
  \/ \E j \in 0..i : MarkerAt(block, j) /\ AnyFrom(block, j, i)

\* Mutant: the carry of the MatchStar is not stored.
NoCarryOut(block) ==
  [advance   |-> block[BlockSize - 1] = "a",
   matchStar |-> FALSE]

\* Mutant: the carry of the MatchStar is taken before the break stops it.
CarryPastBreak(block) ==
  [advance   |-> block[BlockSize - 1] = "a",
   matchStar |-> MatchStarAt(block, BlockSize - 1)]

CarryOut(block) ==
  [advance   |-> block[BlockSize - 1] = "a",
   matchStar |-> block[BlockSize - 1] # "lf" /\ MatchStarAt(block, BlockSize - 1)]

\* finalizeMatchResult: -v negates the matches before they are cut to the breaks.
BreaksOf(block) == {i \in Bit : block[i] = "lf"}
MatchesOf(block) == {i \in BreaksOf(block) : MatchStarAt(block, i) # invert}

ICGrepDoBlock ==
  LET block == basis[SlotOf("icgrep")]
  IN  /\ due["s2p"] = 0 /\ due["icgrep"] > 0
      /\ results' = [results EXCEPT ![SlotOf("icgrep")] =
                       [matches |-> MatchesOf(block), breaks |-> BreaksOf(block)]]
      /\ carry' = CarryOut(block)
      /\ Done("icgrep")
      /\ UNCHANGED <<file, invert, control, basis, lineState>>

-----------------------------------------------------------------------------
(* scanMatch: word by word, the lowest match bit first.                    *)

LastOf(S) == CHOOSE i \in S : \A j \in S : j <= i
FirstOf(S) == CHOOSE i \in S : \A j \in S : i <= j

WordOf(stream, w) == {i \in 0..ScanWordSize - 1 : w * ScanWordSize + i \in stream}
scanwordPos == blockNo["scanMatch"] * BlockSize + scan.word * ScanWordSize

\* The registers when word w is entered.
EnterWord(w, start, num) ==
  LET result == results[SlotOf("scanMatch")]
  IN  [word |-> w, start |-> start, num |-> num,
       matches |-> WordOf(result.matches, w), breaks |-> WordOf(result.breaks, w)]

ScanBegin ==
  /\ due["s2p"] = 0 /\ due["icgrep"] = 0 /\ due["scanMatch"] > 0
  /\ scan = NotScanning
  /\ scan' = EnterWord(0, lineStart, lineNum)
  /\ UNCHANGED <<file, invert, control, due, blockNo, basis, carry, results,
                 lineStart, lineNum, reported>>

\* Mutant: the breaks are counted, but the start is that of the first of them.
StartAfterFirst(breaks) == IF breaks = {} THEN scan.start ELSE scanwordPos + FirstOf(breaks) + 1

\* The start of the line after the given breaks of the word.
StartAfter(breaks) == IF breaks = {} THEN scan.start ELSE scanwordPos + LastOf(breaks) + 1
NumAfter(breaks) == scan.num + Cardinality(breaks)

ScanMatch ==
  LET m     == FirstOf(scan.matches)
      prior == {i \in scan.breaks : i < m}
  IN  /\ scan.matches # {}
      /\ reported' = Append(reported, [num   |-> NumAfter(prior),
                                       start |-> StartAfter(prior),
                                       end   |-> scanwordPos + m])
      /\ scan' = [scan EXCEPT !.matches = @ \ {m}, !.breaks = @ \ prior,
                              !.start = StartAfter(prior), !.num = NumAfter(prior)]
      /\ UNCHANGED <<file, invert, control, due, blockNo, basis, carry, results,
                     lineStart, lineNum>>

WordDone == scan # NotScanning /\ scan.matches = {}

ScanNextWord ==
  /\ WordDone /\ scan.word < WordCount - 1
  /\ scan' = EnterWord(scan.word + 1, StartAfter(scan.breaks), NumAfter(scan.breaks))
  /\ UNCHANGED <<file, invert, control, due, blockNo, basis, carry, results,
                 lineStart, lineNum, reported>>

ScanEnd ==
  /\ WordDone /\ scan.word = WordCount - 1
  /\ lineStart' = StartAfter(scan.breaks)
  /\ lineNum' = NumAfter(scan.breaks)
  /\ scan' = NotScanning
  /\ Done("scanMatch")
  /\ UNCHANGED <<file, invert, control, basis, carry, results, reported>>

-----------------------------------------------------------------------------
(* Main.                                                                   *)

BodyDone == due = [k \in Kernel |-> 0]
Branch(from, to) == pc = from /\ BodyDone /\ pc' = to

\* A loop of Main: n blocks through all kernels as long as that many are left.
Body(cond, n) ==
  /\ Branch(cond, cond)
  /\ remaining >= n * BlockSize
  /\ remaining' = remaining - n * BlockSize
  /\ due' = [k \in Kernel |-> n]
  /\ UNCHANGED <<file, invert, eofSlot, blockNo, basis, carry, results, lineState>>

LoopDone(cond, n, next) ==
  /\ Branch(cond, next)
  /\ remaining < n * BlockSize
  /\ UNCHANGED <<file, invert, remaining, due, eofSlot, blockNo, basis, carry, results,
                 lineState>>

SegmentBody == Body("segmentCond", SegmentSize)
SegmentsDone == LoopDone("segmentCond", SegmentSize, "fullCond")
FullBody == Body("fullCond", 1)
FullDone == LoopDone("fullCond", 1, "final")

\* Mutant: b4 and b6 are taken after s2p has run.
SlotTakenLate == IF remaining > 0 THEN NextSlot("s2p") ELSE SlotOf("s2p")

SlotTaken == SlotOf("s2p")

\* The pointers b4 and b6 are taken before the last block goes through s2p.
FinalPartial ==
  /\ Branch("final", "end")
  /\ remaining > 0
  /\ eofSlot' = SlotTaken
  /\ due' = [due EXCEPT !["s2p"] = 1]
  /\ UNCHANGED <<file, invert, remaining, blockNo, basis, carry, results, lineState>>

\* Mutant: the slot keeps the block it held.
NotCleared(s) == basis

\* clearOutputStreamSet; s2p does not count the block.
Cleared(s) == [basis EXCEPT ![s] = [i \in Bit |-> "nul"]]

FinalEmpty ==
  /\ Branch("final", "end")
  /\ remaining = 0
  /\ eofSlot' = SlotTaken
  /\ basis' = Cleared(SlotOf("s2p"))
  /\ UNCHANGED <<file, invert, remaining, due, blockNo, carry, results, lineState>>

\* Setting bits 4 and 6 turns the zero byte after the file into a line feed.
WithBits4And6(byte) == IF byte \in {"nul", "lf"} THEN "lf" ELSE "other"

\* Mutant: the mark is set on the last byte.
EOF_posEarly == remaining - 1

EOF_pos == remaining

LastCalls == due' = [due EXCEPT !["icgrep"] = 1, !["scanMatch"] = 1]

MarkEOF ==
  /\ Branch("end", "exit")
  /\ finalLineUnterminated
  /\ basis' = [basis EXCEPT ![eofSlot][EOF_pos] = WithBits4And6(@)]
  /\ LastCalls
  /\ UNCHANGED <<file, invert, remaining, eofSlot, blockNo, carry, results, lineState>>

NoMark ==
  /\ Branch("end", "exit")
  /\ ~finalLineUnterminated
  /\ LastCalls
  /\ UNCHANGED <<file, invert, remaining, eofSlot, blockNo, basis, carry, results, lineState>>

Return ==
  /\ Branch("exit", "done")
  /\ UNCHANGED <<file, invert, remaining, due, eofSlot, blockNo, basis, carry, results,
                 lineState>>

-----------------------------------------------------------------------------
Kernels == S2PDoBlock \/ ICGrepDoBlock \/ ScanBegin \/ ScanMatch \/ ScanNextWord \/ ScanEnd
Main ==
  \/ SegmentBody \/ SegmentsDone \/ FullBody \/ FullDone
  \/ FinalPartial \/ FinalEmpty \/ MarkEOF \/ NoMark \/ Return

Next == Kernels \/ Main

\* One thread runs the function to its end.
Spec == Init /\ [][Next]_vars /\ WF_vars(Next)

-----------------------------------------------------------------------------
(* Properties.                                                             *)

\* The streams of the search: the file, then the end mark, then zeros.
StreamByte(p) == IF p = FileSize /\ finalLineUnterminated THEN "lf" ELSE MappedByte(p)
StreamBlock(n) == [i \in Bit |-> StreamByte(n * BlockSize + i)]

\* Every variable keeps its type.
ControlType ==
  /\ file \in Files
  /\ invert \in BOOLEAN
  /\ pc \in {"segmentCond", "fullCond", "final", "end", "exit", "done"}
  /\ remaining \in Nat
  /\ eofSlot \in Slot
  /\ due \in [Kernel -> 0..SegmentSize]
  /\ blockNo \in [Kernel -> Nat]

RingType ==
  /\ basis \in [Slot -> [Bit -> {"a", "b", "lf", "nul", "undefined"}]]
  /\ carry \in [advance : BOOLEAN, matchStar : BOOLEAN]
  /\ results \in [Slot -> [matches : SUBSET Bit, breaks : SUBSET Bit]]

LineType ==
  /\ lineStart \in Nat
  /\ lineNum \in Nat
  /\ scan \in [word : -1..WordCount - 1, start : Nat, num : Nat,
               matches : SUBSET (0..ScanWordSize - 1), breaks : SUBSET (0..ScanWordSize - 1)]
  /\ reported \in Seq([num : Nat, start : Nat, end : Nat])

TypeOK == ControlType /\ RingType /\ LineType

\* Whenever the icgrep kernel is called, the slot it reads holds its own block of
\* the file: not an earlier one, not one that s2p has written over, not memory
\* nobody has written, and with the end mark in the right byte of the last block.
ICGrepReadsItsBlock ==
  due["s2p"] = 0 /\ due["icgrep"] > 0
    => basis[SlotOf("icgrep")] = StreamBlock(blockNo["icgrep"])

\* Likewise scanMatch: each bit it reads says whether a (matching) line ends there.
InBlock(S) == {i \in Bit : blockNo["scanMatch"] * BlockSize + i \in S}
ScanReadsItsBlock ==
  due["s2p"] = 0 /\ due["icgrep"] = 0 /\ due["scanMatch"] > 0
    => results[SlotOf("scanMatch")]
         = [matches |-> InBlock(Promise!MatchEnds), breaks |-> InBlock(Promise!Ends)]

\* After any number of blocks the carries of icgrep know the last byte and whether
\* the line it belongs to has matched so far.
Consumed == blockNo["icgrep"] * BlockSize
CarriesKnowTheLine ==
  pc \in {"segmentCond", "fullCond", "final"} =>
    /\ carry.advance <=> Consumed > 0 /\ MappedByte(Consumed - 1) = "a"
    /\ carry.matchStar <=>
         \E i \in 1..Consumed - 1 :
           /\ MappedByte(i - 1) = "a" /\ MappedByte(i) = "b"
           /\ \A j \in i..Consumed - 1 : MappedByte(j) # "lf"

\* The inductive invariant behind TypeOK and ICGrepReadsItsBlock.
\* scanMatch is in its loop only while a call of it is due, the last of all.
ScanInv ==
  scan # NotScanning =>
    /\ scan.word >= 0
    /\ due["s2p"] = 0 /\ due["icgrep"] = 0 /\ due["scanMatch"] > 0

FileBlock(n) == [i \in Bit |-> MappedByte(n * BlockSize + i)]

\* In a loop of Main every kernel is promised the same blocks, and those that s2p
\* has counted and icgrep has not are the file's, each in the slot of its number.
LoopInv ==
  pc \in {"segmentCond", "fullCond", "final"} =>
    /\ blockNo["s2p"] + due["s2p"] = blockNo["icgrep"] + due["icgrep"]
    /\ blockNo["s2p"] >= blockNo["icgrep"]
    /\ remaining + BlockSize * (blockNo["icgrep"] + due["icgrep"]) = FileSize
    /\ \A n \in blockNo["icgrep"]..blockNo["s2p"] - 1 : basis[n % SegmentSize] = FileBlock(n)

\* Less than a block is left after the loops, and nothing is due.
FinalInv ==
  pc = "final" => due = [k \in Kernel |-> 0] /\ remaining < BlockSize

\* The last block: b4 and b6 point into the slot that icgrep will read.
EndInv ==
  pc = "end" =>
    /\ due["s2p"] <= 1 /\ due["icgrep"] = 0 /\ due["scanMatch"] = 0
    /\ remaining < BlockSize
    /\ remaining + BlockSize * blockNo["icgrep"] = FileSize
    /\ eofSlot = blockNo["icgrep"] % SegmentSize
    /\ due["s2p"] > 0 => blockNo["s2p"] = blockNo["icgrep"]
    /\ due["s2p"] = 0 => basis[eofSlot] = FileBlock(blockNo["icgrep"])

ExitInv ==
  pc \in {"exit", "done"} =>
    /\ due["s2p"] = 0 /\ due["icgrep"] <= 1
    /\ due["icgrep"] > 0 => basis[SlotOf("icgrep")] = StreamBlock(blockNo["icgrep"])

IndInv == TypeOK /\ ScanInv /\ LoopInv /\ FinalInv /\ EndInv /\ ExitInv

\* The search function implements SearchSpec: every matching line is reported once,
\* in order, with its number and its positions, and the function returns.
PipelineImplementsSearch == Promise!Spec
=============================================================================
