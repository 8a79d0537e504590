--------------------------- MODULE PipelineProofs ---------------------------
(* Proofs about the search pipeline, for every block, word and segment size *)
(* and every file.                                                         *)
EXTENDS Pipeline, ProofFacts, FiniteSetTheorems, TLAPS

-----------------------------------------------------------------------------
(* Ring slots and positions.                                               *)

LEMMA SlotRange ==
  ASSUME NEW n \in Nat
  PROVE  n % SegmentSize \in Slot
BY SegmentSizeAssumption DEF Slot

\* Blocks in one slot of the ring are at least SegmentSize apart.
LEMMA SlotsDistinct ==
  ASSUME NEW a \in Nat, NEW b \in Nat, a < b, a % SegmentSize = b % SegmentSize
  PROVE  b - a >= SegmentSize
<1> DEFINE n == SegmentSize
           p == a \div n
           q == b \div n
           r == a % n
<1>1. n \in Nat \ {0} /\ p \in Int /\ q \in Int /\ r \in 0..n - 1
  BY SegmentSizeAssumption DEF p, q, r
<1>2. a = n * p + r
  BY SegmentSizeAssumption DEF p, r
<1>3. b = n * q + r
  BY SegmentSizeAssumption DEF q, r
<1> HIDE DEF n, p, q, r
<1>4. n * (q - p) = b - a
  BY <1>1, <1>2, <1>3
<1>5. q - p >= 1
  BY <1>1, <1>4
<1>6. n * (q - p) >= n
  BY <1>1, <1>5
<1> QED
  BY <1>4, <1>6 DEF n

LEMMA FileSizeType ==
  ASSUME file \in Files
  PROVE  FileSize \in Nat \ {0} /\ file \in Seq({"a", "b", "lf"})
BY FilesAssumption DEF FileSize, Promise!FileSize

LEMMA FileBlockType ==
  ASSUME file \in Files, NEW n \in Nat
  PROVE  FileBlock(n) \in [Bit -> {"a", "b", "lf", "nul", "undefined"}]
<1>1. ASSUME NEW i \in Bit PROVE MappedByte(n * BlockSize + i) \in {"a", "b", "lf", "nul"}
  <2>1. n * BlockSize + i \in Nat
    BY BlockSizeAssumption DEF Bit
  <2> QED
    BY <2>1, FileSizeType DEF MappedByte, FileSize, Promise!FileSize
<1> QED
  BY <1>1 DEF FileBlock

\* A non-empty set of bits has a first and a last one.
LEMMA BoundsOfBits ==
  ASSUME NEW n \in Nat, NEW T \in SUBSET (0..n - 1), T # {}
  PROVE  /\ FirstOf(T) \in T /\ LastOf(T) \in T
         /\ \A k \in T : FirstOf(T) <= k /\ k <= LastOf(T)
<1>1. T \subseteq Nat /\ n \in Nat /\ \A k \in T : k <= n
  OBVIOUS
<1>2. \E m \in T : \A k \in T : m <= k
  BY <1>1, LeastNatural
<1>3. \E m \in T : \A k \in T : k <= m
  BY <1>1, GreatestNatural
<1> QED
  BY <1>2, <1>3 DEF FirstOf, LastOf

\* Registers of the scan: the positions and counts it computes are naturals.
LEMMA ScanValues ==
  ASSUME LineType, blockNo["scanMatch"] \in Nat, scan.word >= 0,
         NEW S \in SUBSET scan.breaks
  PROVE  StartAfter(S) \in Nat /\ NumAfter(S) \in Nat /\ scanwordPos \in Nat
<1>0. /\ scan.word \in Nat /\ scan.start \in Nat /\ scan.num \in Nat
      /\ scan.breaks \in SUBSET (0..ScanWordSize - 1)
  BY DEF LineType
<1>1. scanwordPos \in Nat
  BY <1>0, BlockSizeAssumption, ScanWordSizeAssumption DEF scanwordPos
<1>2. S \in SUBSET (0..ScanWordSize - 1) /\ IsFiniteSet(S)
  <2>1. S \in SUBSET (0..ScanWordSize - 1)
    BY <1>0
  <2>2. IsFiniteSet(0..ScanWordSize - 1)
    <3>1. 0 \in Int /\ ScanWordSize - 1 \in Int
      BY ScanWordSizeAssumption
    <3> QED
      BY <3>1, FS_Interval, Zenon
  <2> QED
    BY <2>1, <2>2, FS_Subset, Zenon
<1>3. StartAfter(S) \in Nat
  <2>1. CASE S = {}
    BY <2>1, <1>0 DEF StartAfter
  <2>2. CASE S # {}
    <3>1. LastOf(S) \in 0..ScanWordSize - 1
      BY <1>2, <2>2, BoundsOfBits, ScanWordSizeAssumption
    <3> QED
      BY <1>1, <2>2, <3>1, ScanWordSizeAssumption DEF StartAfter
  <2> QED
    BY <2>1, <2>2
<1>4. NumAfter(S) \in Nat
  BY <1>0, <1>2, FS_CardinalityType DEF NumAfter
<1> QED
  BY <1>1, <1>3, <1>4

-----------------------------------------------------------------------------
(* The invariant holds initially.                                          *)

LEMMA InitIndInv == Init => IndInv
<1> SUFFICES ASSUME Init PROVE IndInv
  OBVIOUS
<1>1. FileSize \in Nat \ {0}
  BY FileSizeType DEF Init
<1>2. ControlType
  BY <1>1, SegmentSizeAssumption DEF Init, ControlType, Slot
<1>3. RingType
  BY DEF Init, RingType, Undefined, NoResult
<1>4. LineType
  <2>1. WordCount \in Nat
    BY BlockSizeAssumption, ScanWordSizeAssumption DEF WordCount
  <2>2. reported \in Seq([num : Nat, start : Nat, end : Nat])
    BY DEF Init
  <2> QED
    BY <2>1, <2>2 DEF Init, LineType, NotScanning
<1>5. ScanInv
  BY DEF Init, ScanInv
<1>6. LoopInv
  BY <1>1, BlockSizeAssumption DEF Init, LoopInv, Kernel
<1>7. FinalInv /\ EndInv /\ ExitInv
  BY DEF Init, FinalInv, EndInv, ExitInv
<1> QED
  BY <1>2, <1>3, <1>4, <1>5, <1>6, <1>7 DEF IndInv, TypeOK

-----------------------------------------------------------------------------
(* Every step preserves it, one part at a time.                            *)

LEMMA FileKept ==
  ASSUME [Next]_vars
  PROVE  /\ file' = file /\ invert' = invert /\ FileSize' = FileSize
         /\ finalLineUnterminated' = finalLineUnterminated
<1>1. file' = file /\ invert' = invert
  BY DEF Next, Kernels, Main, S2PDoBlock, ICGrepDoBlock, ScanBegin, ScanMatch, ScanNextWord,
     ScanEnd, SegmentBody, SegmentsDone, FullBody, FullDone, Body, LoopDone, FinalPartial,
     FinalEmpty, MarkEOF, NoMark, Return, vars
<1> QED
  BY <1>1 DEF FileSize, Promise!FileSize, finalLineUnterminated, Promise!Unterminated,
     Promise!At

LEMMA BlocksKept ==
  ASSUME [Next]_vars, NEW n
  PROVE  FileBlock(n)' = FileBlock(n) /\ StreamBlock(n)' = StreamBlock(n)
BY FileKept DEF FileBlock, StreamBlock, MappedByte, StreamByte

LEMMA NextControlType ==
  ASSUME IndInv, [Next]_vars
  PROVE  ControlType'
<1> USE SegmentSizeAssumption, FileKept DEF IndInv, TypeOK, ControlType
<1>0. \A k \in Kernel : SlotOf(k) \in Slot
  BY SlotRange DEF SlotOf
<1>1. ASSUME NEW k \in Kernel, due[k] > 0, Done(k), UNCHANGED control
      PROVE  ControlType'
  BY <1>1 DEF Done, control
<1>2. CASE S2PDoBlock
  BY <1>1, <1>2 DEF S2PDoBlock, Kernel
<1>3. CASE ICGrepDoBlock
  BY <1>1, <1>3 DEF ICGrepDoBlock, Kernel
<1>4. CASE ScanBegin \/ ScanMatch \/ ScanNextWord
  BY <1>4 DEF ScanBegin, ScanMatch, ScanNextWord, control
<1>5. CASE ScanEnd
  BY <1>1, <1>5 DEF ScanEnd, WordDone, ScanInv, Kernel
<1>6. ASSUME NEW c \in {"segmentCond", "fullCond"}, NEW n \in 1..SegmentSize, Body(c, n)
      PROVE  ControlType'
  <2>1. n * BlockSize \in Nat
    BY <1>6, BlockSizeAssumption
  <2> QED
    BY <1>6, <2>1 DEF Body, Branch
<1>7. CASE SegmentBody \/ FullBody
  BY <1>6, <1>7 DEF SegmentBody, FullBody
<1>8. CASE SegmentsDone \/ FullDone \/ Return
  BY <1>8 DEF SegmentsDone, FullDone, LoopDone, Return, Branch
<1>9. CASE FinalPartial
  BY <1>0, <1>9 DEF FinalPartial, Branch, SlotTaken, Kernel
<1>10. CASE FinalEmpty
  BY <1>0, <1>10 DEF FinalEmpty, Branch, SlotTaken, Kernel
<1>11. CASE MarkEOF \/ NoMark
  BY <1>11 DEF MarkEOF, NoMark, LastCalls, Branch
<1>12. CASE UNCHANGED vars
  BY <1>12 DEF vars, control
<1> QED
  BY <1>2, <1>3, <1>4, <1>5, <1>7, <1>8, <1>9, <1>10, <1>11, <1>12 DEF Next, Kernels, Main

LEMMA NextRingType ==
  ASSUME IndInv, [Next]_vars
  PROVE  RingType'
<1> USE DEF IndInv, TypeOK, RingType
<1>0. \A k \in Kernel : SlotOf(k) \in Slot /\ blockNo[k] \in Nat
  BY SlotRange DEF SlotOf, ControlType
<1>1. CASE S2PDoBlock
  <2>1. FileBlock(blockNo["s2p"]) \in [Bit -> {"a", "b", "lf", "nul", "undefined"}]
    BY <1>0, FileBlockType DEF ControlType, Kernel
  <2>2. basis' = [basis EXCEPT ![SlotOf("s2p")] = FileBlock(blockNo["s2p"])]
    BY <1>1 DEF S2PDoBlock, FileBlock
  <2> QED
    BY <1>1, <2>1, <2>2 DEF S2PDoBlock
<1>2. CASE ICGrepDoBlock
  <2> DEFINE block == basis[SlotOf("icgrep")]
  <2>1. carry' \in [advance : BOOLEAN, matchStar : BOOLEAN]
    BY <1>2 DEF ICGrepDoBlock, CarryOut
  <2>2. [matches |-> MatchesOf(block), breaks |-> BreaksOf(block)]
          \in [matches : SUBSET Bit, breaks : SUBSET Bit]
    BY DEF MatchesOf, BreaksOf
  <2>3. results' \in [Slot -> [matches : SUBSET Bit, breaks : SUBSET Bit]]
    BY <1>2, <2>2 DEF ICGrepDoBlock
  <2> QED
    BY <1>2, <2>1, <2>3 DEF ICGrepDoBlock
<1>3. CASE ScanBegin \/ ScanMatch \/ ScanNextWord \/ ScanEnd
  BY <1>3 DEF ScanBegin, ScanMatch, ScanNextWord, ScanEnd
<1>4. CASE SegmentBody \/ FullBody \/ SegmentsDone \/ FullDone \/ Return
  BY <1>4 DEF SegmentBody, FullBody, Body, SegmentsDone, FullDone, LoopDone, Return
<1>5. CASE FinalPartial \/ NoMark
  BY <1>5 DEF FinalPartial, NoMark
<1>6. CASE FinalEmpty
  BY <1>6 DEF FinalEmpty, Cleared
<1>7. CASE MarkEOF
  <2>1. due["s2p"] = 0 /\ pc = "end"
    BY <1>7 DEF MarkEOF, Branch, BodyDone, Kernel
  <2>2. /\ basis[eofSlot] = FileBlock(blockNo["icgrep"]) /\ remaining < BlockSize
        /\ remaining + BlockSize * blockNo["icgrep"] = FileSize
    BY <2>1 DEF EndInv
  <2>3. remaining \in Bit /\ eofSlot \in Slot /\ blockNo["icgrep"] \in Nat
    BY <1>0, <2>2, BlockSizeAssumption DEF ControlType, Bit, Kernel
  <2>4. blockNo["icgrep"] * BlockSize + remaining = FileSize
    BY <2>2, <2>3, BlockSizeAssumption DEF Bit
  <2>5. basis[eofSlot][remaining] = "nul"
    BY <2>2, <2>3, <2>4, FileSizeType DEF FileBlock, MappedByte, ControlType
  <2> QED
    BY <1>7, <2>3, <2>5 DEF MarkEOF, EOF_pos, WithBits4And6
<1>8. CASE UNCHANGED vars
  BY <1>8 DEF vars
<1> QED
  BY <1>1, <1>2, <1>3, <1>4, <1>5, <1>6, <1>7, <1>8 DEF Next, Kernels, Main

LEMMA EnterWordType ==
  ASSUME IndInv, NEW w \in 0..WordCount - 1, NEW start \in Nat, NEW num \in Nat
  PROVE  EnterWord(w, start, num) \in
           [word : -1..WordCount - 1, start : Nat, num : Nat,
            matches : SUBSET (0..ScanWordSize - 1), breaks : SUBSET (0..ScanWordSize - 1)]
BY DEF EnterWord, WordOf

LEMMA WordCountType == WordCount \in Nat \ {0}
<1>1. PICK n \in 1..BlockSize : BlockSize = n * ScanWordSize
  BY ScanWordSizeAssumption
<1>2. BlockSize \div ScanWordSize = n
  BY <1>1, ScanWordSizeAssumption, BlockSizeAssumption
<1> QED
  BY <1>1, <1>2, BlockSizeAssumption DEF WordCount

LEMMA NextLineType ==
  ASSUME IndInv, [Next]_vars
  PROVE  LineType'
<1> USE DEF IndInv, TypeOK, LineType
<1>0. blockNo["scanMatch"] \in Nat /\ (scan # NotScanning => scan.word >= 0)
  BY DEF ControlType, Kernel, ScanInv
<1>1. CASE UNCHANGED lineState
  BY <1>1 DEF lineState
<1>2. CASE ScanBegin
  <2>1. 0 \in 0..WordCount - 1
    BY WordCountType
  <2> QED
    BY <1>2, <2>1, EnterWordType DEF ScanBegin
<1>3. CASE ScanMatch
  <2> DEFINE m == FirstOf(scan.matches)
             prior == {i \in scan.breaks : i < m}
  <2>1. scan # NotScanning /\ scan.word >= 0
    BY <1>0, <1>3 DEF ScanMatch, NotScanning
  <2>2. m \in 0..ScanWordSize - 1
    BY <1>3, BoundsOfBits, ScanWordSizeAssumption DEF ScanMatch
  <2>3. StartAfter(prior) \in Nat /\ NumAfter(prior) \in Nat /\ scanwordPos \in Nat
    BY <1>0, <2>1, ScanValues
  <2> HIDE DEF m
  <2>4. [num |-> NumAfter(prior), start |-> StartAfter(prior), end |-> scanwordPos + m]
          \in [num : Nat, start : Nat, end : Nat]
    BY <2>2, <2>3, ScanWordSizeAssumption
  <2>5. reported' \in Seq([num : Nat, start : Nat, end : Nat])
    BY <1>3, <2>4 DEF ScanMatch, m
  <2>6. scan' = [scan EXCEPT !.matches = @ \ {m}, !.breaks = @ \ prior,
                             !.start = StartAfter(prior), !.num = NumAfter(prior)]
    BY <1>3 DEF ScanMatch, m
  <2>7. scan' \in [word : -1..WordCount - 1, start : Nat, num : Nat,
                   matches : SUBSET (0..ScanWordSize - 1), breaks : SUBSET (0..ScanWordSize - 1)]
    BY <2>3, <2>6
  <2> QED
    BY <1>3, <2>5, <2>7 DEF ScanMatch
<1>4. CASE ScanNextWord
  <2>1. scan.word + 1 \in 0..WordCount - 1
    BY <1>0, <1>4, WordCountType DEF ScanNextWord, WordDone
  <2>2. StartAfter(scan.breaks) \in Nat /\ NumAfter(scan.breaks) \in Nat
    BY <1>0, <1>4, ScanValues DEF ScanNextWord, WordDone
  <2> QED
    BY <1>4, <2>1, <2>2, EnterWordType DEF ScanNextWord
<1>5. CASE ScanEnd
  <2>1. StartAfter(scan.breaks) \in Nat /\ NumAfter(scan.breaks) \in Nat
    BY <1>0, <1>5, ScanValues DEF ScanEnd, WordDone
  <2>2. NotScanning \in [word : -1..WordCount - 1, start : Nat, num : Nat,
                   matches : SUBSET (0..ScanWordSize - 1), breaks : SUBSET (0..ScanWordSize - 1)]
    BY WordCountType DEF NotScanning
  <2> QED
    BY <1>5, <2>1, <2>2 DEF ScanEnd
<1>6. CASE Main \/ S2PDoBlock \/ ICGrepDoBlock
  <2>1. UNCHANGED lineState
    BY <1>6 DEF Main, S2PDoBlock, ICGrepDoBlock, SegmentBody, SegmentsDone, FullBody, FullDone,
       Body, LoopDone, FinalPartial, FinalEmpty, MarkEOF, NoMark, Return
  <2> QED
    BY <1>1, <2>1
<1>7. CASE UNCHANGED vars
  BY <1>1, <1>7 DEF vars
<1> QED
  BY <1>2, <1>3, <1>4, <1>5, <1>6, <1>7 DEF Next, Kernels

LEMMA NextScanInv ==
  ASSUME IndInv, [Next]_vars
  PROVE  ScanInv'
<1> USE DEF IndInv, TypeOK, ScanInv
<1>0. due \in [Kernel -> 0..SegmentSize] /\ WordCount \in Nat \ {0}
  BY WordCountType DEF ControlType
<1>1. CASE S2PDoBlock \/ ICGrepDoBlock
  <2>1. scan = NotScanning /\ scan' = scan
    BY <1>1, <1>0 DEF S2PDoBlock, ICGrepDoBlock, lineState
  <2> QED
    BY <2>1 DEF NotScanning
<1>2. CASE ScanBegin
  BY <1>2 DEF ScanBegin, EnterWord
<1>3. CASE ScanMatch
  BY <1>3 DEF ScanMatch, NotScanning, LineType
<1>4. CASE ScanNextWord
  BY <1>4, <1>0 DEF ScanNextWord, WordDone, EnterWord, LineType
<1>5. CASE ScanEnd
  BY <1>5 DEF ScanEnd
<1>6. CASE Main
  <2>1. scan = NotScanning
    BY <1>6, <1>0 DEF Main, SegmentBody, SegmentsDone, FullBody, FullDone, Body, LoopDone,
       FinalPartial, FinalEmpty, MarkEOF, NoMark, Return, Branch, BodyDone, Kernel
  <2>2. scan' = scan
    BY <1>6 DEF Main, SegmentBody, SegmentsDone, FullBody, FullDone, Body, LoopDone,
       FinalPartial, FinalEmpty, MarkEOF, NoMark, Return, lineState
  <2> QED
    BY <2>1, <2>2 DEF NotScanning
<1>7. CASE UNCHANGED vars
  BY <1>7 DEF vars, lineState
<1> QED
  BY <1>1, <1>2, <1>3, <1>4, <1>5, <1>6, <1>7 DEF Next, Kernels

LEMMA NextLoopInv ==
  ASSUME IndInv, [Next]_vars
  PROVE  LoopInv'
<1> USE SegmentSizeAssumption, BlockSizeAssumption, FileKept, BlocksKept DEF IndInv, TypeOK
<1>0. /\ due \in [Kernel -> 0..SegmentSize] /\ blockNo \in [Kernel -> Nat]
      /\ remaining \in Nat /\ FileSize \in Nat
      /\ basis \in [Slot -> [Bit -> {"a", "b", "lf", "nul", "undefined"}]]
      /\ {"s2p", "icgrep", "scanMatch"} = Kernel
  BY FileSizeType DEF ControlType, RingType, Kernel
<1>1. CASE S2PDoBlock
  <2> SUFFICES ASSUME pc \in {"segmentCond", "fullCond", "final"} PROVE LoopInv'
    BY <1>1 DEF S2PDoBlock, control, LoopInv
  <2>1. /\ blockNo' = [blockNo EXCEPT !["s2p"] = @ + 1] /\ due' = [due EXCEPT !["s2p"] = @ - 1]
        /\ basis' = [basis EXCEPT ![blockNo["s2p"] % SegmentSize] = FileBlock(blockNo["s2p"])]
        /\ remaining' = remaining /\ due["s2p"] > 0
    BY <1>1 DEF S2PDoBlock, Done, SlotOf, FileBlock, control
  <2>2. blockNo["s2p"] - blockNo["icgrep"] < SegmentSize
    BY <1>0, <2>1 DEF LoopInv
  <2>3. ASSUME NEW n \in blockNo'["icgrep"]..blockNo'["s2p"] - 1
        PROVE  basis'[n % SegmentSize] = FileBlock(n)
    <3>0. /\ n \in Nat /\ n >= blockNo["icgrep"] /\ n <= blockNo["s2p"]
          /\ blockNo["s2p"] \in Nat /\ blockNo["icgrep"] \in Nat
      BY <1>0, <2>1
    <3>1. CASE n = blockNo["s2p"]
      BY <1>0, <2>1, <3>0, <3>1, SlotRange
    <3>2. CASE n < blockNo["s2p"]
      <4>1. n % SegmentSize # blockNo["s2p"] % SegmentSize
        <5> SUFFICES ASSUME n % SegmentSize = blockNo["s2p"] % SegmentSize PROVE FALSE
          OBVIOUS
        <5>1. blockNo["s2p"] - n >= SegmentSize
          BY <3>0, <3>2, SlotsDistinct
        <5> QED
          BY <2>2, <3>0, <5>1
      <4>2. basis[n % SegmentSize] = FileBlock(n)
        <5>1. n \in blockNo["icgrep"]..blockNo["s2p"] - 1
          BY <3>0, <3>2
        <5> QED
          BY <5>1 DEF LoopInv
      <4>3. n % SegmentSize \in Slot
        BY <3>0, SlotRange
      <4> QED
        BY <1>0, <2>1, <4>1, <4>2, <4>3
    <3> QED
      BY <3>0, <3>1, <3>2
  <2>4. ASSUME NEW n \in blockNo'["icgrep"]..blockNo'["s2p"] - 1
        PROVE  basis'[n % SegmentSize] = FileBlock(n)'
    BY <2>3
  <2>5. /\ blockNo'["s2p"] + due'["s2p"] = blockNo["s2p"] + due["s2p"]
        /\ blockNo'["s2p"] >= blockNo["s2p"] /\ FileSize' = FileSize
        /\ blockNo'["icgrep"] = blockNo["icgrep"] /\ due'["icgrep"] = due["icgrep"]
    BY <1>0, <2>1
  <2> QED
    BY <1>0, <2>1, <2>4, <2>5 DEF LoopInv
<1>2. CASE ICGrepDoBlock
  <2>1. /\ blockNo' = [blockNo EXCEPT !["icgrep"] = @ + 1]
        /\ due' = [due EXCEPT !["icgrep"] = @ - 1]
        /\ basis' = basis /\ remaining' = remaining /\ pc' = pc
        /\ due["s2p"] = 0 /\ due["icgrep"] > 0
    BY <1>2 DEF ICGrepDoBlock, Done, control
  <2>2. /\ blockNo'["s2p"] = blockNo["s2p"] /\ due'["s2p"] = due["s2p"]
        /\ blockNo'["icgrep"] + due'["icgrep"] = blockNo["icgrep"] + due["icgrep"]
        /\ blockNo'["icgrep"] = blockNo["icgrep"] + 1 /\ FileSize' = FileSize
    BY <1>0, <2>1
  <2> SUFFICES ASSUME pc \in {"segmentCond", "fullCond", "final"} PROVE LoopInv'
    BY <2>1 DEF LoopInv
  <2>3. /\ blockNo["s2p"] = blockNo["icgrep"] + due["icgrep"]
        /\ remaining + BlockSize * (blockNo["icgrep"] + due["icgrep"]) = FileSize
    BY <1>0, <2>1 DEF LoopInv
  <2>4. remaining' + BlockSize * (blockNo'["icgrep"] + due'["icgrep"]) = FileSize'
    BY <2>1, <2>2, <2>3
  <2>5. ASSUME NEW n \in blockNo'["icgrep"]..blockNo'["s2p"] - 1
        PROVE  basis'[n % SegmentSize] = FileBlock(n)'
    <3>1. n \in blockNo["icgrep"]..blockNo["s2p"] - 1
      BY <1>0, <2>2
    <3> QED
      BY <2>1, <3>1 DEF LoopInv
  <2> QED
    BY <1>0, <2>1, <2>2, <2>3, <2>4, <2>5 DEF LoopInv
<1>3. CASE ScanBegin \/ ScanMatch \/ ScanNextWord
  BY <1>3 DEF ScanBegin, ScanMatch, ScanNextWord, control, LoopInv
<1>4. CASE ScanEnd
  <2>1. /\ blockNo'["s2p"] = blockNo["s2p"] /\ due'["s2p"] = due["s2p"]
        /\ blockNo'["icgrep"] = blockNo["icgrep"] /\ due'["icgrep"] = due["icgrep"]
        /\ basis' = basis /\ remaining' = remaining /\ pc' = pc
    BY <1>0, <1>4 DEF ScanEnd, Done, control
  <2> QED
    BY <1>0, <2>1 DEF LoopInv
<1>5. ASSUME NEW c \in {"segmentCond", "fullCond"}, NEW n \in 1..SegmentSize, Body(c, n)
      PROVE  LoopInv'
  <2>1. /\ pc = c /\ due = [k \in Kernel |-> 0] /\ due' = [k \in Kernel |-> n]
        /\ remaining' = remaining - n * BlockSize /\ blockNo' = blockNo /\ basis' = basis
    BY <1>5 DEF Body, Branch, BodyDone
  <2>2. /\ remaining + BlockSize * blockNo["icgrep"] = FileSize
        /\ blockNo["s2p"] = blockNo["icgrep"]
    BY <1>0, <2>1 DEF LoopInv
  <2>3. BlockSize * (blockNo["icgrep"] + n) = BlockSize * blockNo["icgrep"] + n * BlockSize
    BY <1>0
  <2>4. remaining' + BlockSize * (blockNo'["icgrep"] + due'["icgrep"]) = FileSize
    BY <1>0, <2>1, <2>2, <2>3
  <2> QED
    BY <1>0, <2>1, <2>2, <2>4 DEF LoopInv
<1>6. CASE SegmentBody \/ FullBody
  BY <1>5, <1>6 DEF SegmentBody, FullBody
<1>7. CASE SegmentsDone \/ FullDone
  BY <1>7 DEF SegmentsDone, FullDone, LoopDone, Branch, LoopInv
<1>8. CASE FinalPartial \/ FinalEmpty \/ MarkEOF \/ NoMark \/ Return
  BY <1>8 DEF FinalPartial, FinalEmpty, MarkEOF, NoMark, Return, Branch, LoopInv
<1>9. CASE UNCHANGED vars
  BY <1>9 DEF vars, control, LoopInv
<1> QED
  BY <1>1, <1>2, <1>3, <1>4, <1>6, <1>7, <1>8, <1>9 DEF Next, Kernels, Main

LEMMA NextFinalInv ==
  ASSUME IndInv, [Next]_vars
  PROVE  FinalInv'
<1> USE DEF IndInv, TypeOK
<1>1. CASE Kernels
  <2>1. due # [k \in Kernel |-> 0]
    BY <1>1 DEF Kernels, S2PDoBlock, ICGrepDoBlock, ScanBegin, ScanMatch, ScanNextWord, ScanEnd,
       WordDone, ScanInv, NotScanning, Kernel
  <2>2. pc # "final" /\ pc' = pc
    BY <1>1, <2>1 DEF FinalInv, Kernels, S2PDoBlock, ICGrepDoBlock, ScanBegin, ScanMatch,
       ScanNextWord, ScanEnd, control
  <2> QED
    BY <2>2 DEF FinalInv
<1>2. CASE SegmentBody \/ FullBody \/ SegmentsDone
  BY <1>2 DEF SegmentBody, FullBody, SegmentsDone, Body, LoopDone, Branch, FinalInv
<1>3. CASE FullDone
  BY <1>3, BlockSizeAssumption DEF FullDone, LoopDone, Branch, BodyDone, FinalInv
<1>4. CASE FinalPartial \/ FinalEmpty \/ MarkEOF \/ NoMark \/ Return
  BY <1>4 DEF FinalPartial, FinalEmpty, MarkEOF, NoMark, Return, Branch, FinalInv
<1>5. CASE UNCHANGED vars
  BY <1>5 DEF vars, control, FinalInv
<1> QED
  BY <1>1, <1>2, <1>3, <1>4, <1>5 DEF Next, Main

LEMMA NextEndInv ==
  ASSUME IndInv, [Next]_vars
  PROVE  EndInv'
<1> USE SegmentSizeAssumption, BlockSizeAssumption, FileKept, BlocksKept DEF IndInv, TypeOK
<1>0. /\ due \in [Kernel -> 0..SegmentSize] /\ blockNo \in [Kernel -> Nat]
      /\ remaining \in Nat /\ FileSize \in Nat /\ eofSlot \in Slot
      /\ basis \in [Slot -> [Bit -> {"a", "b", "lf", "nul", "undefined"}]]
      /\ {"s2p", "icgrep", "scanMatch"} = Kernel
  BY FileSizeType DEF ControlType, RingType, Kernel
<1>1. CASE S2PDoBlock
  <2> SUFFICES ASSUME pc = "end" PROVE EndInv'
    BY <1>1 DEF S2PDoBlock, control, EndInv
  <2>1. /\ blockNo' = [blockNo EXCEPT !["s2p"] = @ + 1] /\ due' = [due EXCEPT !["s2p"] = @ - 1]
        /\ basis' = [basis EXCEPT ![blockNo["s2p"] % SegmentSize] = FileBlock(blockNo["s2p"])]
        /\ remaining' = remaining /\ eofSlot' = eofSlot /\ due["s2p"] > 0
    BY <1>1 DEF S2PDoBlock, Done, SlotOf, FileBlock, control
  <2>2. blockNo["s2p"] = blockNo["icgrep"] /\ eofSlot = blockNo["icgrep"] % SegmentSize
    BY <2>1 DEF EndInv
  <2>3. basis'[eofSlot] = FileBlock(blockNo["icgrep"])
    BY <1>0, <2>1, <2>2
  <2>4. due["s2p"] = 1
    BY <1>0, <2>1 DEF EndInv
  <2>5. due'["s2p"] = 0 /\ due'["icgrep"] = due["icgrep"] /\ due'["scanMatch"] = due["scanMatch"]
        /\ blockNo'["icgrep"] = blockNo["icgrep"]
    BY <1>0, <2>1, <2>4
  <2> QED
    BY <1>0, <2>1, <2>2, <2>3, <2>5 DEF EndInv
<1>2. CASE ICGrepDoBlock \/ ScanBegin \/ ScanMatch \/ ScanNextWord \/ ScanEnd
  <2>1. due["icgrep"] > 0 \/ due["scanMatch"] > 0
    BY <1>2 DEF ICGrepDoBlock, ScanBegin, ScanMatch, ScanNextWord, ScanEnd, WordDone, ScanInv,
       NotScanning
  <2>2. pc # "end" /\ pc' = pc
    BY <1>0, <1>2, <2>1 DEF EndInv, ICGrepDoBlock, ScanBegin, ScanMatch, ScanNextWord, ScanEnd,
       control
  <2> QED
    BY <2>2 DEF EndInv
<1>3. CASE SegmentBody \/ FullBody \/ SegmentsDone \/ FullDone \/ MarkEOF \/ NoMark \/ Return
  BY <1>3 DEF SegmentBody, FullBody, SegmentsDone, FullDone, Body, LoopDone, MarkEOF, NoMark,
     Return, Branch, EndInv
<1>4. ASSUME pc = "final", due = [k \in Kernel |-> 0]
      PROVE  /\ remaining < BlockSize
             /\ remaining + BlockSize * blockNo["icgrep"] = FileSize
             /\ blockNo["s2p"] = blockNo["icgrep"]
  BY <1>0, <1>4 DEF LoopInv, FinalInv
<1>5. CASE FinalPartial
  <2>1. pc = "final" /\ due = [k \in Kernel |-> 0] /\ due' = [due EXCEPT !["s2p"] = 1]
        /\ eofSlot' = blockNo["s2p"] % SegmentSize /\ remaining' = remaining /\ blockNo' = blockNo
    BY <1>5 DEF FinalPartial, Branch, BodyDone, SlotTaken, SlotOf
  <2>2. due'["s2p"] = 1 /\ due'["icgrep"] = 0 /\ due'["scanMatch"] = 0
    BY <1>0, <2>1
  <2> QED
    BY <1>0, <1>4, <2>1, <2>2 DEF EndInv
<1>6. CASE FinalEmpty
  <2>1. /\ pc = "final" /\ due = [k \in Kernel |-> 0] /\ due' = due /\ remaining = 0
        /\ eofSlot' = blockNo["s2p"] % SegmentSize /\ remaining' = remaining /\ blockNo' = blockNo
        /\ basis' = [basis EXCEPT ![blockNo["s2p"] % SegmentSize] = [i \in Bit |-> "nul"]]
    BY <1>6 DEF FinalEmpty, Branch, BodyDone, SlotTaken, SlotOf, Cleared
  <2>2. FileBlock(blockNo["icgrep"]) = [i \in Bit |-> "nul"]
    <3>1. blockNo["icgrep"] * BlockSize = FileSize
      BY <1>0, <1>4, <2>1
    <3>2. \A i \in Bit : ~(blockNo["icgrep"] * BlockSize + i < FileSize)
      BY <1>0, <3>1 DEF Bit
    <3> QED
      BY <3>2 DEF FileBlock, MappedByte
  <2>3. basis'[eofSlot'] = FileBlock(blockNo["icgrep"])
    BY <1>0, <1>4, <2>1, <2>2, SlotRange
  <2>4. due'["s2p"] = 0 /\ due'["icgrep"] = 0 /\ due'["scanMatch"] = 0
    BY <1>0, <2>1
  <2> QED
    BY <1>0, <1>4, <2>1, <2>3, <2>4 DEF EndInv
<1>7. CASE UNCHANGED vars
  BY <1>7 DEF vars, control, EndInv
<1> QED
  BY <1>1, <1>2, <1>3, <1>5, <1>6, <1>7 DEF Next, Kernels, Main

LEMMA NextExitInv ==
  ASSUME IndInv, [Next]_vars
  PROVE  ExitInv'
<1> USE SegmentSizeAssumption, BlockSizeAssumption, FileKept, BlocksKept DEF IndInv, TypeOK
<1>0. /\ due \in [Kernel -> 0..SegmentSize] /\ blockNo \in [Kernel -> Nat]
      /\ remaining \in Nat /\ FileSize \in Nat /\ eofSlot \in Slot
      /\ basis \in [Slot -> [Bit -> {"a", "b", "lf", "nul", "undefined"}]]
      /\ {"s2p", "icgrep", "scanMatch"} = Kernel
  BY FileSizeType DEF ControlType, RingType, Kernel
<1>1. CASE S2PDoBlock
  BY <1>1 DEF S2PDoBlock, control, ExitInv
<1>2. CASE ICGrepDoBlock
  BY <1>0, <1>2 DEF ICGrepDoBlock, Done, control, ExitInv
<1>3. CASE ScanBegin \/ ScanMatch \/ ScanNextWord
  BY <1>3 DEF ScanBegin, ScanMatch, ScanNextWord, control, ExitInv, SlotOf
<1>4. CASE ScanEnd
  <2>1. /\ due'["s2p"] = due["s2p"] /\ due'["icgrep"] = due["icgrep"]
        /\ blockNo'["icgrep"] = blockNo["icgrep"] /\ basis' = basis /\ pc' = pc
    BY <1>0, <1>4 DEF ScanEnd, Done, control
  <2> QED
    BY <2>1 DEF ExitInv, SlotOf
<1>5. CASE SegmentBody \/ FullBody \/ SegmentsDone \/ FullDone \/ FinalPartial \/ FinalEmpty
  BY <1>5 DEF SegmentBody, FullBody, SegmentsDone, FullDone, Body, LoopDone, FinalPartial,
     FinalEmpty, Branch, ExitInv
<1>6. ASSUME pc = "end", due = [k \in Kernel |-> 0]
      PROVE  /\ remaining \in Bit
             /\ blockNo["icgrep"] * BlockSize + remaining = FileSize
             /\ eofSlot = SlotOf("icgrep")
             /\ basis[eofSlot] = FileBlock(blockNo["icgrep"])
  BY <1>0, <1>6 DEF EndInv, SlotOf, Bit
<1>7. CASE MarkEOF
  <2>1. /\ pc = "end" /\ due = [k \in Kernel |-> 0] /\ blockNo' = blockNo
        /\ due' = [due EXCEPT !["icgrep"] = 1, !["scanMatch"] = 1] /\ finalLineUnterminated
        /\ basis' = [basis EXCEPT ![eofSlot][remaining] = WithBits4And6(@)]
    BY <1>7 DEF MarkEOF, Branch, BodyDone, LastCalls, EOF_pos
  <2>2. basis[eofSlot][remaining] = "nul"
    BY <1>0, <1>6, <2>1 DEF FileBlock, MappedByte
  <2>3. basis'[eofSlot] = [FileBlock(blockNo["icgrep"]) EXCEPT ![remaining] = "lf"]
    BY <1>0, <1>6, <2>1, <2>2 DEF WithBits4And6
  <2>4. \A i \in Bit : blockNo["icgrep"] * BlockSize + i = FileSize <=> i = remaining
    BY <1>0, <1>6, <2>1 DEF Bit
  <2>5. StreamBlock(blockNo["icgrep"]) = [FileBlock(blockNo["icgrep"]) EXCEPT ![remaining] = "lf"]
    BY <2>1, <2>4 DEF StreamBlock, FileBlock, StreamByte
  <2> QED
    BY <1>0, <1>6, <2>1, <2>3, <2>5 DEF ExitInv, SlotOf
<1>8. CASE NoMark
  <2>1. /\ pc = "end" /\ due = [k \in Kernel |-> 0] /\ blockNo' = blockNo /\ basis' = basis
        /\ due' = [due EXCEPT !["icgrep"] = 1, !["scanMatch"] = 1] /\ ~finalLineUnterminated
    BY <1>8 DEF NoMark, Branch, BodyDone, LastCalls
  <2>2. StreamBlock(blockNo["icgrep"]) = FileBlock(blockNo["icgrep"])
    BY <2>1 DEF StreamBlock, FileBlock, StreamByte
  <2> QED
    BY <1>0, <1>6, <2>1, <2>2 DEF ExitInv, SlotOf
<1>9. CASE Return
  BY <1>0, <1>9 DEF Return, Branch, BodyDone, ExitInv
<1>10. CASE UNCHANGED vars
  BY <1>10 DEF vars, control, ExitInv, SlotOf
<1> QED
  BY <1>1, <1>2, <1>3, <1>4, <1>5, <1>7, <1>8, <1>9, <1>10 DEF Next, Kernels, Main

-----------------------------------------------------------------------------
(* Theorems.                                                               *)

LEMMA NextIndInv == IndInv /\ [Next]_vars => IndInv'
BY NextControlType, NextRingType, NextLineType, NextScanInv, NextLoopInv, NextFinalInv,
   NextEndInv, NextExitInv DEF IndInv, TypeOK

THEOREM SpecIndInv == Spec => []IndInv
BY InitIndInv, NextIndInv, PTL DEF Spec

\* The variables of the search function keep their types; in particular no byte of
\* a block is damaged by the end mark, and no slot outside the rings is used.
THEOREM SpecTypeOK == Spec => []TypeOK
<1>1. IndInv => TypeOK
  BY DEF IndInv
<1> QED
  BY <1>1, SpecIndInv, PTL

LEMMA ReadsItsBlock == IndInv => ICGrepReadsItsBlock
<1> SUFFICES ASSUME IndInv, due["s2p"] = 0, due["icgrep"] > 0
             PROVE  basis[SlotOf("icgrep")] = StreamBlock(blockNo["icgrep"])
  BY DEF ICGrepReadsItsBlock
<1> USE SegmentSizeAssumption, BlockSizeAssumption DEF IndInv, TypeOK
<1>0. /\ due \in [Kernel -> 0..SegmentSize] /\ blockNo \in [Kernel -> Nat]
      /\ remaining \in Nat /\ FileSize \in Nat /\ {"s2p", "icgrep", "scanMatch"} = Kernel
  BY FileSizeType DEF ControlType, Kernel
<1>1. CASE pc \in {"segmentCond", "fullCond", "final"}
  <2> DEFINE n == blockNo["icgrep"]
             d == due["icgrep"]
  <2>1. n \in Nat /\ d \in Nat \ {0} /\ remaining + BlockSize * (n + d) = FileSize
    BY <1>0, <1>1 DEF LoopInv
  <2>2. basis[n % SegmentSize] = FileBlock(n)
    BY <1>0, <1>1 DEF LoopInv
  <2> HIDE DEF n, d
  <2>3. BlockSize * (n + d) = BlockSize * n + BlockSize * d /\ BlockSize * d >= BlockSize
    BY <2>1
  <2>4. \A i \in Bit : n * BlockSize + i < FileSize
    BY <1>0, <2>1, <2>3 DEF Bit
  <2>5. \A i \in Bit : n * BlockSize + i # FileSize
    BY <1>0, <2>1, <2>4 DEF Bit
  <2>6. StreamBlock(n) = FileBlock(n)
    BY <2>5 DEF StreamBlock, FileBlock, StreamByte
  <2> QED
    BY <2>2, <2>6 DEF SlotOf, n
<1>2. CASE pc = "end"
  BY <1>2 DEF EndInv
<1>3. CASE pc \in {"exit", "done"}
  BY <1>3 DEF ExitInv
<1> QED
  BY <1>1, <1>2, <1>3 DEF ControlType

\* For every block and segment size and every file, the icgrep kernel reads its own
\* block of the file, with the end mark where it belongs.
THEOREM SpecICGrepReadsItsBlock == Spec => []ICGrepReadsItsBlock
BY ReadsItsBlock, SpecIndInv, PTL

-----------------------------------------------------------------------------
(* What icgrep carries from block to block and what scanMatch reads, for   *)
(* every block and segment size and every file, in terms of the lines of   *)
(* the whole file.                                                         *)

-----------------------------------------------------------------------------
(* The inductive invariant.                                                *)

\* The basic blocks of Main before the last block of the file.
Loops == {"segmentCond", "fullCond", "final"}

\* A match ends at position j, and no line ends between there and position p.
Reaches(j, p) ==
  /\ StreamByte(j - 1) = "a" /\ StreamByte(j) = "b"
  /\ \A k \in j..p - 1 : StreamByte(k) # "lf"

\* What is carried into the block that icgrep reads next.
CarryInv ==
  /\ carry.advance <=> Consumed > 0 /\ StreamByte(Consumed - 1) = "a"
  /\ carry.matchStar <=> \E j \in 1..Consumed - 1 : Reaches(j, Consumed)

\* The bits of a block at which lines, or matching lines, end.
Expected(n) ==
  [matches |-> {i \in Bit : n * BlockSize + i \in Promise!MatchEnds},
   breaks  |-> {i \in Bit : n * BlockSize + i \in Promise!Ends}]

\* The blocks that icgrep has counted and scanMatch has not are in their slots, and
\* there are never more of them than slots.
ResultInv ==
  /\ pc \in Loops =>
       /\ blockNo["scanMatch"] + due["scanMatch"] = blockNo["icgrep"] + due["icgrep"]
       /\ blockNo["scanMatch"] <= blockNo["icgrep"]
       /\ \A n \in blockNo["scanMatch"]..blockNo["icgrep"] - 1 :
            results[n % SegmentSize] = Expected(n)
  /\ pc = "end" => blockNo["scanMatch"] = blockNo["icgrep"]
  /\ pc \in {"exit", "done"} =>
       /\ due["scanMatch"] <= 1
       /\ due["icgrep"] > 0 =>
            blockNo["scanMatch"] = blockNo["icgrep"] /\ due["scanMatch"] = 1
       /\ due["icgrep"] = 0 /\ due["scanMatch"] > 0 =>
            results[blockNo["scanMatch"] % SegmentSize] = Expected(blockNo["scanMatch"])

ScanIndInv == IndInv /\ CarryInv /\ ResultInv

-----------------------------------------------------------------------------
(* Streams and lines.                                                      *)

LEMMA StreamByteType ==
  ASSUME file \in Files, NEW p \in Nat
  PROVE  /\ StreamByte(p) \in {"a", "b", "lf", "nul"}
         /\ p < FileSize => StreamByte(p) = MappedByte(p) /\ StreamByte(p) = Promise!At(p)
BY FileSizeType DEF StreamByte, MappedByte, Promise!At, FileSize, Promise!FileSize

\* The stream has a line feed exactly where a line ends.
LEMMA LineFeedsAreEnds ==
  ASSUME file \in Files, NEW p \in Nat
  PROVE  StreamByte(p) = "lf" <=> p \in Promise!Ends
<1>1. /\ FileSize \in Nat \ {0} /\ FileSize = Promise!FileSize
      /\ finalLineUnterminated <=> Promise!Unterminated
  BY FileSizeType DEF FileSize, finalLineUnterminated
<1>2. CASE p < FileSize
  BY <1>1, <1>2, StreamByteType DEF Promise!Ends
<1>3. CASE p >= FileSize
  BY <1>1, <1>3 DEF Promise!Ends, StreamByte, MappedByte
<1>4. QED
  BY <1>1, <1>2, <1>3

\* A line contains the pattern if a match in it reaches its end.
LEMMA ContainsReaches ==
  ASSUME file \in Files, NEW p \in Promise!Ends
  PROVE  Promise!Contains(p) <=> \E j \in 1..p : Reaches(j, p)
<1> DEFINE before == Promise!EndsBefore(p)
           start == Promise!Start(p)
<1>1. p \in Nat /\ p <= FileSize /\ FileSize \in Nat /\ StreamByte(p) = "lf"
  <2>1. p \in Nat /\ p <= FileSize /\ FileSize \in Nat
    BY FileSizeType DEF Promise!Ends, FileSize
  <2>2. QED
    BY <2>1, LineFeedsAreEnds
<1>2. before \in SUBSET (0..p - 1)
  BY <1>1, FileSizeType DEF Promise!EndsBefore, Promise!Ends, FileSize
<1>3. \A k \in 0..p - 1 : StreamByte(k) = "lf" <=> k \in before
  BY <1>1, LineFeedsAreEnds DEF Promise!EndsBefore
<1>4. /\ start \in 0..p
      /\ start > 0 => StreamByte(start - 1) = "lf"
      /\ \A k \in start..p - 1 : StreamByte(k) # "lf"
  <2>1. CASE before = {}
    <3>1. start = 0
      BY <2>1 DEF Promise!Start
    <3>2. QED
      BY <1>1, <1>3, <2>1, <3>1
  <2>2. CASE before # {}
    <3>1. start = 1 + LastOf(before)
      BY <2>2 DEF Promise!Start, LastOf
    <3>2. LastOf(before) \in before /\ \A k \in before : k <= LastOf(before)
      BY <1>1, <1>2, <2>2, BoundsOfBits
    <3> HIDE DEF before, start
    <3>3. LastOf(before) \in 0..p - 1
      BY <1>2, <3>2
    <3>4. QED
      BY <1>1, <1>3, <3>1, <3>2, <3>3
  <2>3. QED
    BY <2>1, <2>2
<1>5. \A i \in 1..p - 1 : /\ Promise!At(i) = StreamByte(i)
                          /\ Promise!At(i - 1) = StreamByte(i - 1)
  <2>1. \A k \in Nat : k < p => Promise!At(k) = StreamByte(k)
    BY <1>1, StreamByteType
  <2>2. QED
    BY <1>1, <2>1
<1>6. ASSUME Promise!Contains(p) PROVE \E j \in 1..p : Reaches(j, p)
  <2>1. PICK i \in start + 1..p - 1 : Promise!At(i - 1) = "a" /\ Promise!At(i) = "b"
    BY <1>6 DEF Promise!Contains
  <2> HIDE DEF start
  <2>2. i \in 1..p - 1 /\ \A k \in i..p - 1 : k \in start..p - 1
    BY <1>1, <1>4, <2>1
  <2>3. Reaches(i, p)
    BY <1>4, <1>5, <2>1, <2>2 DEF Reaches
  <2>4. QED
    BY <1>1, <2>2, <2>3
<1>7. ASSUME NEW j \in 1..p, Reaches(j, p) PROVE Promise!Contains(p)
  <2>1. /\ StreamByte(j - 1) = "a" /\ StreamByte(j) = "b"
        /\ \A k \in j..p - 1 : StreamByte(k) # "lf"
    BY <1>7 DEF Reaches
  <2>2. j # p
    BY <1>1, <2>1
  <2> HIDE DEF start
  <2>3. ~(start > j)
    <3> SUFFICES ASSUME start > j PROVE FALSE
      OBVIOUS
    <3>1. start - 1 \in j..p - 1
      BY <1>1, <1>4, <1>7
    <3>2. QED
      BY <1>1, <1>4, <2>1, <3>1
  <2>4. start # j
    BY <1>1, <1>4, <1>7, <2>1
  <2>5. j \in start + 1..p - 1 /\ j \in 1..p - 1
    BY <1>1, <1>4, <1>7, <2>2, <2>3, <2>4
  <2>6. Promise!At(j - 1) = "a" /\ Promise!At(j) = "b"
    BY <1>5, <2>1, <2>5
  <2>7. QED
    BY <2>5, <2>6 DEF Promise!Contains, start
<1>8. QED
  BY <1>6, <1>7

-----------------------------------------------------------------------------
(* One call of icgrep.                                                     *)

\* The marks of a block are the positions that a match reaches, in whatever block.
LEMMA MatchStarReaches ==
  ASSUME CarryInv, Consumed \in Nat, NEW block, NEW i \in Bit,
         \A k \in Bit : block[k] = StreamByte(Consumed + k)
  PROVE  MatchStarAt(block, i) <=> \E j \in 1..Consumed + i : Reaches(j, Consumed + i)
<1> DEFINE C == Consumed
<1>0. C \in Nat /\ i \in Nat /\ BlockSize \in Nat \ {0} /\ i <= BlockSize - 1
  BY BlockSizeAssumption DEF Bit
<1>1. /\ carry.advance <=> C > 0 /\ StreamByte(C - 1) = "a"
      /\ carry.matchStar <=> \E j \in 1..C - 1 : Reaches(j, C)
      /\ \A k \in 0..i : block[k] = StreamByte(C + k)
  BY <1>0 DEF CarryInv, Bit
<1> HIDE DEF C
<1>2. ASSUME NEW j \in 0..i
      PROVE  AnyFrom(block, j, i) <=> \A k \in C + j..(C + i) - 1 : StreamByte(k) # "lf"
  <2>1. ASSUME AnyFrom(block, j, i), NEW k \in C + j..(C + i) - 1 PROVE StreamByte(k) # "lf"
    <3>1. k - C \in j..i - 1 /\ k - C \in 0..i /\ C + (k - C) = k
      BY <1>0, <1>2, <2>1
    <3>2. QED
      BY <1>1, <2>1, <3>1 DEF AnyFrom
  <2>2. ASSUME \A k \in C + j..(C + i) - 1 : StreamByte(k) # "lf", NEW k \in j..i - 1
        PROVE  block[k] # "lf"
    <3>1. C + k \in C + j..(C + i) - 1 /\ k \in 0..i
      BY <1>0, <1>2, <2>2
    <3>2. QED
      BY <1>1, <2>2, <3>1
  <2>3. QED
    BY <2>1, <2>2 DEF AnyFrom
<1>3. ASSUME NEW j \in 0..i
      PROVE  MarkerAt(block, j) <=>
               C + j >= 1 /\ StreamByte((C + j) - 1) = "a" /\ StreamByte(C + j) = "b"
  <2>1. CASE j = 0
    BY <1>0, <1>1, <2>1 DEF MarkerAt
  <2>2. CASE j # 0
    <3>1. j - 1 \in 0..i /\ C + (j - 1) = (C + j) - 1 /\ C + j >= 1
      BY <1>0, <1>3, <2>2
    <3>2. QED
      BY <1>1, <2>2, <3>1 DEF MarkerAt
  <2>3. QED
    BY <2>1, <2>2
<1>4. CASE carry.matchStar /\ AnyFrom(block, 0, i)
  <2>1. PICK j \in 1..C - 1 : Reaches(j, C)
    BY <1>1, <1>4
  <2>2. \A k \in C..(C + i) - 1 : StreamByte(k) # "lf"
    BY <1>0, <1>2, <1>4
  <2>3. Reaches(j, C + i) /\ j \in 1..C + i
    BY <1>0, <2>1, <2>2 DEF Reaches
  <2>4. QED
    BY <1>4, <2>3 DEF MatchStarAt, C
<1>5. ASSUME NEW j \in 0..i, MarkerAt(block, j), AnyFrom(block, j, i)
      PROVE  \E q \in 1..C + i : Reaches(q, C + i)
  <2>1. /\ C + j >= 1 /\ StreamByte((C + j) - 1) = "a" /\ StreamByte(C + j) = "b"
        /\ \A k \in C + j..(C + i) - 1 : StreamByte(k) # "lf"
    BY <1>2, <1>3, <1>5
  <2>2. Reaches(C + j, C + i)
    BY <2>1, Zenon DEF Reaches
  <2>3. C + j \in 1..C + i
    BY <1>0, <1>5, <2>1
  <2>4. QED
    BY <2>2, <2>3
<1>6. ASSUME NEW q \in 1..C + i, Reaches(q, C + i) PROVE MatchStarAt(block, i)
  <2>1. CASE q < C
    <3>1. q \in 1..C - 1 /\ Reaches(q, C) /\ \A k \in C..(C + i) - 1 : StreamByte(k) # "lf"
      BY <1>0, <1>6, <2>1 DEF Reaches
    <3>2. carry.matchStar /\ AnyFrom(block, 0, i)
      BY <1>0, <1>1, <1>2, <3>1
    <3>3. QED
      BY <3>2 DEF MatchStarAt
  <2>2. CASE q >= C
    <3>1. q - C \in 0..i /\ C + (q - C) = q /\ q >= 1
      BY <1>0, <1>6, <2>2
    <3>2. /\ StreamByte(q - 1) = "a" /\ StreamByte(q) = "b"
          /\ \A k \in q..(C + i) - 1 : StreamByte(k) # "lf"
      BY <1>6, Zenon DEF Reaches
    <3>3. MarkerAt(block, q - C)
      BY <1>3, <3>1, <3>2
    <3>4. AnyFrom(block, q - C, i)
      BY <1>2, <3>1, <3>2
    <3>5. QED
      BY <3>1, <3>3, <3>4 DEF MatchStarAt
  <2>3. QED
    BY <1>0, <1>6, <2>1, <2>2
<1>7. QED
  BY <1>4, <1>5, <1>6 DEF MatchStarAt, C

\* What a call of icgrep finds, and what it carries out.
LEMMA ICGrepBlock ==
  ASSUME ScanIndInv, ICGrepDoBlock
  PROVE  LET n == blockNo["icgrep"]
         IN  /\ results' = [results EXCEPT ![n % SegmentSize] = Expected(n)]
             /\ carry'.advance <=> StreamByte(Consumed + BlockSize - 1) = "a"
             /\ carry'.matchStar <=>
                  \E j \in 1..Consumed + BlockSize - 1 : Reaches(j, Consumed + BlockSize)
<1> DEFINE n == blockNo["icgrep"]
           block == basis[SlotOf("icgrep")]
           last == BlockSize - 1
           C == Consumed
<1>0. /\ file \in Files /\ n \in Nat /\ BlockSize \in Nat \ {0} /\ last \in Bit /\ C \in Nat
      /\ C = n * BlockSize
  BY BlockSizeAssumption DEF ScanIndInv, IndInv, TypeOK, ControlType, Kernel, Bit, Consumed
<1>1. block = StreamBlock(n)
  BY ReadsItsBlock DEF ScanIndInv, ICGrepDoBlock, ICGrepReadsItsBlock
<1>2. \A k \in Bit : block[k] = StreamByte(C + k)
  BY <1>0, <1>1 DEF StreamBlock
<1>3. \A i \in Bit : MatchStarAt(block, i) <=> \E j \in 1..C + i : Reaches(j, C + i)
  BY <1>0, <1>2, MatchStarReaches DEF ScanIndInv
<1> HIDE DEF block, C
<1>4. \A i \in Bit : C + i \in Nat
  BY <1>0 DEF Bit
<1>5. BreaksOf(block) = {i \in Bit : C + i \in Promise!Ends}
  BY <1>0, <1>2, <1>4, LineFeedsAreEnds DEF BreaksOf
<1>6. ASSUME NEW i \in BreaksOf(block) PROVE MatchStarAt(block, i) = Promise!Contains(C + i)
  <2>1. i \in Bit /\ C + i \in Promise!Ends
    BY <1>5
  <2>2. MatchStarAt(block, i) <=> Promise!Contains(C + i)
    BY <1>0, <1>3, <2>1, ContainsReaches
  <2>3. MatchStarAt(block, i) \in BOOLEAN /\ Promise!Contains(C + i) \in BOOLEAN
    BY DEF MatchStarAt, Promise!Contains
  <2>4. QED
    BY <2>2, <2>3
<1>7. MatchesOf(block) = {i \in Bit : C + i \in Promise!MatchEnds}
  BY <1>5, <1>6 DEF MatchesOf, Promise!MatchEnds
<1>8. results' = [results EXCEPT ![n % SegmentSize] = Expected(n)]
  BY <1>0, <1>5, <1>7 DEF ICGrepDoBlock, Expected, SlotOf, block
<1>9. carry' = CarryOut(block)
  BY DEF ICGrepDoBlock, block
<1>10. C + last = C + BlockSize - 1 /\ block[last] = StreamByte(C + BlockSize - 1)
  BY <1>0, <1>2
<1>11. carry'.matchStar <=> \E j \in 1..C + BlockSize - 1 : Reaches(j, C + BlockSize)
  <2> DEFINE p == C + last
  <2>1. carry'.matchStar <=> StreamByte(p) # "lf" /\ \E j \in 1..p : Reaches(j, p)
    BY <1>0, <1>3, <1>9, <1>10 DEF CarryOut
  <2>2. \A j \in 1..p : Reaches(j, p + 1) <=> Reaches(j, p) /\ StreamByte(p) # "lf"
    <3>1. p \in Nat
      BY <1>0, <1>4
    <3> HIDE DEF p
    <3>2. ASSUME NEW j \in 1..p PROVE j..p + 1 - 1 = (j..p - 1) \union {p}
      BY <3>1, <3>2
    <3>3. QED
      BY <3>2 DEF Reaches
  <2>3. p + 1 = C + BlockSize /\ p = C + BlockSize - 1
    BY <1>0
  <2> HIDE DEF p
  <2>4. QED
    BY <2>1, <2>2, <2>3
<1>12. QED
  BY <1>8, <1>9, <1>10, <1>11 DEF CarryOut, C

-----------------------------------------------------------------------------
(* Every step preserves the invariant.                                     *)

\* The lines of the file do not change.
LEMMA PromiseKept ==
  ASSUME [Next]_vars
  PROVE  /\ Promise!Ends' = Promise!Ends /\ Promise!MatchEnds' = Promise!MatchEnds
         /\ \A p : Promise!Start(p)' = Promise!Start(p)
<1>1. file' = file /\ invert' = invert
  BY FileKept
<1>2. Promise!Ends' = Promise!Ends
  BY <1>1 DEF Promise!Ends, Promise!At, Promise!FileSize, Promise!Unterminated
<1>3. \A p : Promise!EndsBefore(p)' = Promise!EndsBefore(p)
  BY <1>2 DEF Promise!EndsBefore
<1>4. \A p : Promise!Start(p)' = Promise!Start(p)
  <2>1. \A p : Promise!Start(p) = IF Promise!EndsBefore(p) = {} THEN 0
                                  ELSE 1 + LastOf(Promise!EndsBefore(p))
    BY DEF Promise!Start, LastOf
  <2>2. \A p : Promise!Start(p)' = IF Promise!EndsBefore(p)' = {} THEN 0
                                   ELSE 1 + LastOf(Promise!EndsBefore(p)')
    BY DEF Promise!Start, LastOf
  <2>3. QED
    BY <1>3, <2>1, <2>2
<1>5. \A p : Promise!Contains(p)' = Promise!Contains(p)
  BY <1>1, <1>4 DEF Promise!Contains, Promise!At
<1>6. Promise!MatchEnds' = Promise!MatchEnds
  BY <1>1, <1>2, <1>5 DEF Promise!MatchEnds
<1>7. QED
  BY <1>2, <1>4, <1>6

LEMMA LinesKept ==
  ASSUME [Next]_vars
  PROVE  /\ \A p : StreamByte(p)' = StreamByte(p)
         /\ \A j, p : Reaches(j, p)' = Reaches(j, p)
         /\ \A n : Expected(n)' = Expected(n)
<1>1. \A p : StreamByte(p)' = StreamByte(p)
  BY FileKept DEF StreamByte, MappedByte
<1>2. \A j, p : Reaches(j, p)' = Reaches(j, p)
  BY <1>1 DEF Reaches
<1>3. \A n : Expected(n)' = Expected(n)
  BY PromiseKept DEF Expected
<1>4. QED
  BY <1>1, <1>2, <1>3

LEMMA InitScanIndInv == Init => ScanIndInv
<1> SUFFICES ASSUME Init PROVE ScanIndInv
  OBVIOUS
<1>1. Consumed = 0
  BY BlockSizeAssumption DEF Init, Consumed, Kernel
<1>2. CarryInv
  BY <1>1 DEF Init, CarryInv
<1>3. ResultInv
  BY DEF Init, ResultInv, Loops, Kernel
<1>4. QED
  BY <1>2, <1>3, InitIndInv DEF ScanIndInv

LEMMA NextCarryInv ==
  ASSUME ScanIndInv, [Next]_vars
  PROVE  CarryInv'
<1>1. CASE ICGrepDoBlock
  <2>1. Consumed \in Nat /\ Consumed' = Consumed + BlockSize /\ BlockSize \in Nat \ {0}
    <3>1. blockNo["icgrep"] \in Nat /\ blockNo'["icgrep"] = blockNo["icgrep"] + 1
      BY <1>1 DEF ICGrepDoBlock, Done, ScanIndInv, IndInv, TypeOK, ControlType, Kernel
    <3>2. QED
      BY <3>1, BlockSizeAssumption DEF Consumed
  <2>2. /\ carry'.advance <=> StreamByte(Consumed + BlockSize - 1) = "a"
        /\ carry'.matchStar <=>
             \E j \in 1..Consumed + BlockSize - 1 : Reaches(j, Consumed + BlockSize)
    BY <1>1, ICGrepBlock
  <2>3. Consumed' > 0
    BY <2>1
  <2>4. carry'.advance <=> Consumed' > 0 /\ StreamByte(Consumed' - 1) = "a"
    BY <2>1, <2>2, <2>3
  <2>5. carry'.matchStar <=> \E j \in 1..Consumed' - 1 : Reaches(j, Consumed')
    BY <2>1, <2>2
  <2>6. QED
    BY <2>4, <2>5, LinesKept DEF CarryInv
<1>2. CASE carry' = carry /\ blockNo'["icgrep"] = blockNo["icgrep"]
  <2>1. Consumed' = Consumed
    BY <1>2 DEF Consumed
  <2>2. QED
    BY <1>2, <2>1, LinesKept DEF CarryInv, ScanIndInv
<1>3. ICGrepDoBlock \/ (carry' = carry /\ blockNo'["icgrep"] = blockNo["icgrep"])
  <2>1. blockNo \in [Kernel -> Nat]
    BY DEF ScanIndInv, IndInv, TypeOK, ControlType
  <2>2. QED
    BY <2>1 DEF Next, Kernels, Main, S2PDoBlock, ScanBegin, ScanMatch, ScanNextWord, ScanEnd,
       Done, SegmentBody, SegmentsDone, FullBody, FullDone, Body, LoopDone, FinalPartial,
       FinalEmpty, MarkEOF, NoMark, Return, vars, Kernel
<1>4. QED
  BY <1>1, <1>2, <1>3

LEMMA NextResultInv ==
  ASSUME ScanIndInv, [Next]_vars
  PROVE  ResultInv'
<1> USE LinesKept
<1>0. /\ due \in [Kernel -> 0..SegmentSize] /\ blockNo \in [Kernel -> Nat]
      /\ results \in [Slot -> [matches : SUBSET Bit, breaks : SUBSET Bit]]
      /\ {"s2p", "icgrep", "scanMatch"} = Kernel /\ SegmentSize \in Nat \ {0}
      /\ ResultInv /\ FinalInv /\ EndInv /\ ExitInv /\ ScanInv
      /\ pc \in Loops \union {"end", "exit", "done"}
  BY SegmentSizeAssumption DEF ScanIndInv, IndInv, TypeOK, ControlType, RingType, Kernel, Loops
<1>1. CASE S2PDoBlock
  <2>1. /\ blockNo'["icgrep"] = blockNo["icgrep"]
        /\ blockNo'["scanMatch"] = blockNo["scanMatch"]
        /\ due'["icgrep"] = due["icgrep"] /\ due'["scanMatch"] = due["scanMatch"]
        /\ pc' = pc /\ results' = results
    BY <1>0, <1>1 DEF S2PDoBlock, Done, control
  <2>2. QED
    BY <1>0, <2>1 DEF ResultInv
<1>2. CASE ICGrepDoBlock
  <2> DEFINE n == blockNo["icgrep"]
             m == blockNo["scanMatch"]
  <2>1. /\ blockNo'["icgrep"] = n + 1 /\ blockNo'["scanMatch"] = m
        /\ due'["icgrep"] = due["icgrep"] - 1 /\ due'["scanMatch"] = due["scanMatch"]
        /\ pc' = pc /\ due["icgrep"] > 0
    BY <1>0, <1>2 DEF ICGrepDoBlock, Done, control
  <2>2. /\ results' = [results EXCEPT ![n % SegmentSize] = Expected(n)]
        /\ n % SegmentSize \in Slot /\ m \in Nat /\ n \in Nat
    BY <1>0, <1>2, ICGrepBlock, SlotRange
  <2>3. CASE pc \in Loops
    <3>1. m + due["scanMatch"] = n + due["icgrep"] /\ m <= n /\ n - m < SegmentSize
      BY <1>0, <2>1, <2>3 DEF ResultInv
    <3>2. ASSUME NEW k \in m..n PROVE results'[k % SegmentSize] = Expected(k)
      <4>1. CASE k = n
        BY <1>0, <2>2, <4>1
      <4>2. CASE k < n
        <5>1. k \in m..n - 1 /\ k \in Nat
          BY <2>2, <3>2, <4>2
        <5>2. k % SegmentSize # n % SegmentSize
          <6> SUFFICES ASSUME k % SegmentSize = n % SegmentSize PROVE FALSE
            OBVIOUS
          <6>1. n - k >= SegmentSize
            BY <2>2, <4>2, <5>1, SlotsDistinct
          <6>2. QED
            BY <1>0, <2>2, <3>1, <3>2, <5>1, <6>1
        <5>3. results[k % SegmentSize] = Expected(k)
          BY <1>0, <2>3, <5>1 DEF ResultInv
        <5>4. QED
          BY <1>0, <2>2, <5>1, <5>2, <5>3, SlotRange
      <4>3. QED
        BY <2>2, <3>2, <4>1, <4>2
    <3>3. due["icgrep"] \in Nat /\ due["scanMatch"] \in Nat
      BY <1>0
    <3> HIDE DEF n, m
    <3>4. /\ m + due'["scanMatch"] = (n + 1) + due'["icgrep"]
          /\ m <= n + 1 /\ (n + 1) - 1 = n
      BY <2>1, <2>2, <3>1, <3>3
    <3>5. /\ blockNo'["scanMatch"] + due'["scanMatch"] = blockNo'["icgrep"] + due'["icgrep"]
          /\ blockNo'["scanMatch"] <= blockNo'["icgrep"]
          /\ \A k \in blockNo'["scanMatch"]..blockNo'["icgrep"] - 1 :
               results'[k % SegmentSize] = Expected(k)
      BY <2>1, <3>2, <3>4
    <3>6. QED
      BY <2>1, <2>3, <3>5 DEF ResultInv, Loops
  <2>4. CASE pc = "end"
    BY <1>0, <2>1, <2>4 DEF EndInv
  <2>5. CASE pc \in {"exit", "done"}
    <3>1. m = n /\ due["scanMatch"] = 1 /\ due["icgrep"] = 1
      BY <1>0, <2>1, <2>5 DEF ResultInv, ExitInv
    <3>2. results'[m % SegmentSize] = Expected(m)
      BY <1>0, <2>2, <3>1
    <3>3. QED
      BY <2>1, <2>5, <3>1, <3>2 DEF ResultInv, Loops
  <2>6. QED
    BY <1>0, <2>3, <2>4, <2>5
<1>3. CASE ScanBegin \/ ScanMatch \/ ScanNextWord
  BY <1>0, <1>3 DEF ScanBegin, ScanMatch, ScanNextWord, control, ResultInv
<1>4. CASE ScanEnd
  <2>1. /\ blockNo'["icgrep"] = blockNo["icgrep"]
        /\ blockNo'["scanMatch"] = blockNo["scanMatch"] + 1
        /\ due'["icgrep"] = due["icgrep"] /\ due'["scanMatch"] = due["scanMatch"] - 1
        /\ pc' = pc /\ results' = results
    BY <1>0, <1>4 DEF ScanEnd, Done, control
  <2>2. due["icgrep"] = 0 /\ due["scanMatch"] > 0
    BY <1>0, <1>4 DEF ScanEnd, WordDone, ScanInv
  <2>3. CASE pc \in Loops
    <3>1. /\ blockNo["scanMatch"] + due["scanMatch"] = blockNo["icgrep"] + due["icgrep"]
          /\ \A k \in blockNo["scanMatch"]..blockNo["icgrep"] - 1 :
               results[k % SegmentSize] = Expected(k)
      BY <1>0, <2>3 DEF ResultInv
    <3>2. /\ blockNo'["scanMatch"] + due'["scanMatch"] = blockNo'["icgrep"] + due'["icgrep"]
          /\ blockNo'["scanMatch"] <= blockNo'["icgrep"]
          /\ \A k \in blockNo'["scanMatch"]..blockNo'["icgrep"] - 1 :
               results'[k % SegmentSize] = Expected(k)
      BY <1>0, <2>1, <2>2, <3>1
    <3>3. QED
      BY <2>1, <2>3, <3>2 DEF ResultInv, Loops
  <2>4. CASE pc = "end"
    BY <1>0, <2>2, <2>4 DEF EndInv
  <2>5. CASE pc \in {"exit", "done"}
    BY <1>0, <2>1, <2>2, <2>5 DEF ResultInv, Loops
  <2>6. QED
    BY <1>0, <2>3, <2>4, <2>5
<1>5. ASSUME NEW c \in {"segmentCond", "fullCond"}, NEW n \in 1..SegmentSize, Body(c, n)
      PROVE  ResultInv'
  <2>1. /\ pc = c /\ pc' = c /\ due = [k \in Kernel |-> 0] /\ due' = [k \in Kernel |-> n]
        /\ blockNo' = blockNo /\ results' = results
    BY <1>5 DEF Body, Branch, BodyDone
  <2>2. QED
    BY <1>0, <2>1 DEF ResultInv, Loops
<1>6. CASE SegmentBody \/ FullBody
  BY <1>0, <1>5, <1>6 DEF SegmentBody, FullBody
<1>7. CASE SegmentsDone \/ FullDone
  BY <1>0, <1>7 DEF SegmentsDone, FullDone, LoopDone, Branch, ResultInv, Loops
<1>8. CASE FinalPartial \/ FinalEmpty
  <2>1. /\ pc = "final" /\ pc' = "end" /\ due = [k \in Kernel |-> 0] /\ blockNo' = blockNo
    BY <1>8 DEF FinalPartial, FinalEmpty, Branch, BodyDone
  <2>2. blockNo["scanMatch"] = blockNo["icgrep"]
    BY <1>0, <2>1 DEF ResultInv, Loops
  <2>3. QED
    BY <2>1, <2>2 DEF ResultInv, Loops
<1>9. CASE MarkEOF \/ NoMark
  <2>1. /\ pc = "end" /\ pc' = "exit" /\ blockNo' = blockNo
        /\ due' = [due EXCEPT !["icgrep"] = 1, !["scanMatch"] = 1]
    BY <1>9 DEF MarkEOF, NoMark, Branch, LastCalls
  <2>2. due'["icgrep"] = 1 /\ due'["scanMatch"] = 1 /\ blockNo["scanMatch"] = blockNo["icgrep"]
    BY <1>0, <2>1 DEF ResultInv
  <2>3. QED
    BY <2>1, <2>2 DEF ResultInv, Loops
<1>10. CASE Return
  <2>1. /\ pc' = "done" /\ due = [k \in Kernel |-> 0] /\ due' = due
    BY <1>10 DEF Return, Branch, BodyDone
  <2>2. QED
    BY <1>0, <2>1 DEF ResultInv, Loops
<1>11. CASE UNCHANGED vars
  BY <1>0, <1>11 DEF vars, control, ResultInv
<1>12. QED
  BY <1>1, <1>2, <1>3, <1>4, <1>6, <1>7, <1>8, <1>9, <1>10, <1>11 DEF Next, Kernels, Main

-----------------------------------------------------------------------------
(* Theorems.                                                               *)

LEMMA SpecScanIndInv == Spec => []ScanIndInv
<1>1. Init => ScanIndInv
  BY InitScanIndInv
<1>2. IndInv /\ [Next]_vars => IndInv'
  BY NextIndInv
<1>3. ScanIndInv /\ [Next]_vars => ScanIndInv'
  BY <1>2, NextCarryInv, NextResultInv DEF ScanIndInv
<1>4. QED
  BY <1>1, <1>3, PTL DEF Spec

\* Wherever blocks and segments end, the carries of the icgrep kernel know the last
\* byte and whether a match in the current line came before.
THEOREM SpecCarriesKnowTheLine == Spec => []CarriesKnowTheLine
<1>1. ScanIndInv => CarriesKnowTheLine
  <2> SUFFICES ASSUME ScanIndInv, pc \in Loops
               PROVE  /\ carry.advance <=> Consumed > 0 /\ MappedByte(Consumed - 1) = "a"
                      /\ carry.matchStar <=>
                           \E i \in 1..Consumed - 1 :
                             /\ MappedByte(i - 1) = "a" /\ MappedByte(i) = "b"
                             /\ \A j \in i..Consumed - 1 : MappedByte(j) # "lf"
    BY DEF CarriesKnowTheLine, Loops
  <2>1. Consumed \in Nat /\ Consumed <= FileSize /\ FileSize \in Nat /\ file \in Files
    <3>1. /\ remaining \in Nat /\ FileSize \in Nat /\ file \in Files
          /\ blockNo["icgrep"] \in Nat /\ due["icgrep"] \in Nat
      BY FileSizeType, SegmentSizeAssumption
         DEF ScanIndInv, IndInv, TypeOK, ControlType, Kernel
    <3>2. remaining + BlockSize * (blockNo["icgrep"] + due["icgrep"]) = FileSize
      BY DEF ScanIndInv, IndInv, LoopInv, Loops
    <3>3. BlockSize * (blockNo["icgrep"] + due["icgrep"])
            = blockNo["icgrep"] * BlockSize + BlockSize * due["icgrep"]
      BY <3>1, BlockSizeAssumption
    <3>4. blockNo["icgrep"] * BlockSize \in Nat /\ BlockSize * due["icgrep"] \in Nat
      BY <3>1, BlockSizeAssumption
    <3>5. QED
      BY <3>1, <3>2, <3>3, <3>4 DEF Consumed
  <2>2. \A p \in Nat : p < Consumed => MappedByte(p) = StreamByte(p)
    BY <2>1, StreamByteType
  <2>3. /\ carry.advance <=> Consumed > 0 /\ StreamByte(Consumed - 1) = "a"
        /\ carry.matchStar <=> \E j \in 1..Consumed - 1 : Reaches(j, Consumed)
    BY DEF ScanIndInv, CarryInv
  <2>4. carry.advance <=> Consumed > 0 /\ MappedByte(Consumed - 1) = "a"
    BY <2>1, <2>2, <2>3
  <2>5. ASSUME NEW i \in 1..Consumed - 1
        PROVE  Reaches(i, Consumed) <=>
                 /\ MappedByte(i - 1) = "a" /\ MappedByte(i) = "b"
                 /\ \A j \in i..Consumed - 1 : MappedByte(j) # "lf"
    <3>1. /\ MappedByte(i - 1) = StreamByte(i - 1) /\ MappedByte(i) = StreamByte(i)
          /\ \A j \in i..Consumed - 1 : MappedByte(j) = StreamByte(j)
      BY <2>1, <2>2, <2>5
    <3>2. QED
      BY <3>1 DEF Reaches
  <2>6. QED
    BY <2>3, <2>4, <2>5
<1>2. QED
  BY <1>1, SpecScanIndInv, PTL

LEMMA ReadsItsResult == ScanIndInv => ScanReadsItsBlock
<1> SUFFICES ASSUME ScanIndInv, due["s2p"] = 0, due["icgrep"] = 0, due["scanMatch"] > 0
             PROVE  results[blockNo["scanMatch"] % SegmentSize] = Expected(blockNo["scanMatch"])
  BY DEF ScanReadsItsBlock, SlotOf, InBlock, Expected
<1>0. /\ due \in [Kernel -> 0..SegmentSize] /\ blockNo \in [Kernel -> Nat]
      /\ {"s2p", "icgrep", "scanMatch"} = Kernel /\ ResultInv /\ EndInv
      /\ pc \in Loops \union {"end", "exit", "done"} /\ SegmentSize \in Nat
  BY SegmentSizeAssumption DEF ScanIndInv, IndInv, TypeOK, ControlType, Kernel, Loops
<1>1. CASE pc \in Loops
  <2>1. /\ blockNo["scanMatch"] + due["scanMatch"] = blockNo["icgrep"]
        /\ \A n \in blockNo["scanMatch"]..blockNo["icgrep"] - 1 :
             results[n % SegmentSize] = Expected(n)
    BY <1>0, <1>1 DEF ResultInv
  <2>2. blockNo["scanMatch"] \in blockNo["scanMatch"]..blockNo["icgrep"] - 1
    BY <1>0, <2>1
  <2>3. QED
    BY <2>1, <2>2
<1>2. CASE pc = "end"
  BY <1>0, <1>2 DEF EndInv
<1>3. CASE pc \in {"exit", "done"}
  BY <1>0, <1>3 DEF ResultInv
<1>4. QED
  BY <1>0, <1>1, <1>2, <1>3

\* Whenever scanMatch is called, each bit in the slot it reads says whether a line, or
\* a matching line, of the file ends there, however the line lies across blocks.
THEOREM SpecScanReadsItsBlock == Spec => []ScanReadsItsBlock
BY ReadsItsResult, SpecScanIndInv, PTL

-----------------------------------------------------------------------------
(***************************************************************************)
(* Every step of the search function is a step of SearchSpec or none: for  *)
(* all sizes and files, each report is that of the next matching line, and *)
(* none is left when the function returns.                                 *)
(***************************************************************************)
-----------------------------------------------------------------------------
(* The inductive invariant.                                                *)

\* Those of the positions that lie before p.
Below(S, p) == {q \in S : q < p}

\* A scan s in the word at position w, after n reports: the breaks up to position fb
\* are behind it, the matches up to fm are reported, and its registers hold what follows.
InWord(w, fb, fm, s, n) ==
  /\ w <= fb /\ fb <= fm /\ fm <= w + ScanWordSize
  /\ s.start = Promise!Start(fb)
  /\ s.num = Cardinality(Below(Promise!Ends, fb))
  /\ n = Cardinality(Below(Promise!MatchEnds, fm))
  /\ s.matches = {i \in 0..ScanWordSize - 1 : fm <= w + i /\ w + i \in Promise!MatchEnds}
  /\ s.breaks = {i \in 0..ScanWordSize - 1 : fb <= w + i /\ w + i \in Promise!Ends}

WordInv == \E fb, fm \in Nat : InWord(scanwordPos, fb, fm, scan, Len(reported))

\* Between two calls everything up to position p, the first of a block, is reported and
\* counted.
Seen(p) ==
  /\ lineStart = Promise!Start(p)
  /\ lineNum = Cardinality(Below(Promise!Ends, p))
  /\ scan = NotScanning => Len(reported) = Cardinality(Below(Promise!MatchEnds, p))

Scanned == blockNo["scanMatch"] * BlockSize

ReportInv == Seen(Scanned) /\ (scan # NotScanning => WordInv)

\* The calls that are due at the end cover the file and its end mark.
CoverInv ==
  /\ pc \in {"exit", "done"} =>
       FileSize < (blockNo["scanMatch"] + due["scanMatch"]) * BlockSize
  /\ pc = "done" => due = [k \in Kernel |-> 0]

ReportIndInv == ScanIndInv /\ ReportInv /\ CoverInv

-----------------------------------------------------------------------------
(* Positions and how many of them lie before others.                       *)

LEMMA EndsInFile ==
  ASSUME file \in Files
  PROVE  Promise!Ends \in SUBSET (0..FileSize) /\ Promise!MatchEnds \in SUBSET (0..FileSize)
BY FileSizeType DEF Promise!Ends, Promise!MatchEnds, FileSize

\* Positions before q are those before p and those from p on.
LEMMA BelowSplit ==
  ASSUME file \in Files, NEW S \in SUBSET (0..FileSize), NEW p \in Nat, NEW q \in Nat, p <= q
  PROVE  /\ IsFiniteSet(Below(S, p)) /\ Cardinality(Below(S, p)) \in Nat
         /\ IsFiniteSet({x \in S : p <= x /\ x < q})
         /\ Cardinality(Below(S, q))
              = Cardinality(Below(S, p)) + Cardinality({x \in S : p <= x /\ x < q})
<1> DEFINE A == Below(S, p)
           D == {x \in S : p <= x /\ x < q}
<1>1. FileSize \in Nat
  BY FileSizeType
<1>2. IsFiniteSet(S)
  <2>1. 0 \in Int /\ FileSize \in Int
    BY <1>1
  <2>2. IsFiniteSet(0..FileSize)
    BY <2>1, FS_Interval, Zenon
  <2>3. QED
    BY <2>2, FS_Subset, Zenon
<1>3. A \in SUBSET S /\ D \in SUBSET S
  BY DEF Below
<1>4. IsFiniteSet(A) /\ IsFiniteSet(D)
  BY <1>2, <1>3, FS_Subset, Zenon
<1>5. Below(S, q) = A \union D /\ A \cap D = {}
  <2>1. \A x \in S : x \in Nat
    BY <1>1
  <2>2. \A x \in S : x < q <=> x < p \/ (p <= x /\ x < q)
    BY <2>1
  <2>3. \A x \in S : ~(x < p /\ p <= x)
    BY <2>1
  <2>4. QED
    BY <2>2, <2>3 DEF Below
<1>6. Cardinality(A) \in Nat /\ Cardinality(D) \in Nat
  BY <1>4, FS_CardinalityType, Zenon
<1>7. Cardinality(A \union D) = Cardinality(A) + Cardinality(D) - Cardinality(A \cap D)
  BY <1>4, FS_Union, Zenon
<1>8. Cardinality(A \cap D) = 0
  BY <1>5, FS_EmptySet
<1> HIDE DEF A, D
<1>9. Cardinality(Below(S, q)) = Cardinality(A) + Cardinality(D)
  BY <1>5, <1>6, <1>7, <1>8
<1>10. QED
  BY <1>4, <1>6, <1>9 DEF A, D

\* A set of bits of a word and their positions are as many.
LEMMA ShiftedCount ==
  ASSUME NEW w \in Nat, NEW T \in SUBSET (0..ScanWordSize - 1), NEW U,
         \A i \in T : w + i \in U, \A x \in U : \E i \in T : x = w + i
  PROVE  Cardinality(U) = Cardinality(T)
<1> DEFINE f == [i \in T |-> w + i]
<1>1. IsFiniteSet(T)
  <2>1. 0 \in Int /\ ScanWordSize - 1 \in Int
    BY ScanWordSizeAssumption
  <2>2. IsFiniteSet(0..ScanWordSize - 1)
    BY <2>1, FS_Interval, Zenon
  <2>3. QED
    BY <2>2, FS_Subset, Zenon
<1>2. f \in Bijection(T, U)
  <2>1. f \in [T -> U]
    OBVIOUS
  <2>2. \A x, y \in T : f[x] = f[y] => x = y
    OBVIOUS
  <2>3. \A u \in U : \E x \in T : f[x] = u
    OBVIOUS
  <2>4. QED
    BY <2>1, <2>2, <2>3 DEF Bijection, Injection, IsInjective, Surjection
<1>3. ExistsBijection(T, U)
  BY <1>2, Zenon DEF ExistsBijection
<1>4. QED
  BY <1>1, <1>3, FS_Bijection, Zenon

\* A line that starts with no break between p and q starts before p; otherwise it
\* starts after the last of them.
LEMMA StartSplit ==
  ASSUME file \in Files, NEW p \in Nat, NEW q \in Nat, p <= q
  PROVE  LET D == {x \in Promise!Ends : p <= x /\ x < q}
         IN  /\ D = {} => Promise!Start(q) = Promise!Start(p)
             /\ \A l \in D : (\A x \in D : x <= l) => Promise!Start(q) = 1 + l
<1> DEFINE E == Promise!Ends
           D == {x \in E : p <= x /\ x < q}
<1>1. E \subseteq Nat
  BY EndsInFile, FileSizeType
<1> HIDE DEF E
<1>2. /\ Promise!EndsBefore(p) = {x \in E : x < p} /\ Promise!EndsBefore(q) = {x \in E : x < q}
  BY DEF Promise!EndsBefore, E
<1>3. ASSUME D = {} PROVE Promise!Start(q) = Promise!Start(p)
  <2>1. \A x \in E : ~(p <= x /\ x < q)
    BY <1>3
  <2>2. \A x \in E : x < q <=> x < p
    BY <1>1, <2>1
  <2>3. Promise!EndsBefore(q) = Promise!EndsBefore(p)
    BY <1>2, <2>2
  <2>4. QED
    BY <2>3 DEF Promise!Start
<1>4. ASSUME NEW l \in D, \A x \in D : x <= l PROVE Promise!Start(q) = 1 + l
  <2> DEFINE B == Promise!EndsBefore(q)
  <2>0. l \in E /\ p <= l /\ l < q /\ \A x \in E : p <= x /\ x < q => x <= l
    BY <1>4
  <2>1. l \in B /\ \A x \in B : x <= l
    <3>1. \A x \in E : x < q => x <= l
      BY <1>1, <2>0
    <3>2. QED
      BY <1>2, <2>0, <3>1
  <2>2. l \in Nat /\ B \subseteq Nat
    BY <1>1, <1>2, <2>1
  <2> HIDE DEF B
  <2>3. \A y \in B : (\A x \in B : x <= y) => y = l
    BY <2>1, <2>2
  <2>4. (CHOOSE y \in B : \A x \in B : x <= y) = l
    BY <2>1, <2>3
  <2>5. QED
    BY <2>1, <2>4 DEF Promise!Start, B
<1>5. QED
  BY <1>3, <1>4 DEF E

\* Bits T of the word at w, and the positions of E from fb to p that they stand for.
LEMMA WordPositions ==
  ASSUME NEW w \in Nat, NEW E \in SUBSET Nat, NEW fb \in Nat, NEW p \in Nat,
         w <= fb, fb <= p, p <= w + ScanWordSize,
         NEW T \in SUBSET (0..ScanWordSize - 1),
         \A i \in 0..ScanWordSize - 1 : i \in T <=> fb <= w + i /\ w + i < p /\ w + i \in E
  PROVE  LET D == {x \in E : fb <= x /\ x < p}
         IN  /\ Cardinality(D) = Cardinality(T)
             /\ T = {} => D = {}
             /\ T # {} => w + LastOf(T) \in D /\ \A x \in D : x <= w + LastOf(T)
<1> DEFINE D == {x \in E : fb <= x /\ x < p}
<1>1. ASSUME NEW x \in D PROVE \E i \in T : x = w + i
  <2>1. x \in Nat /\ x \in E /\ fb <= x /\ x < p
    BY <1>1
  <2>2. x - w \in 0..ScanWordSize - 1 /\ w + (x - w) = x
    BY <2>1, ScanWordSizeAssumption
  <2>3. x - w \in T
    BY <2>1, <2>2
  <2>4. QED
    BY <2>2, <2>3
<1>2. ASSUME NEW i \in T PROVE w + i \in D
  <2>1. i \in 0..ScanWordSize - 1
    BY <1>2
  <2>2. QED
    BY <1>2, <2>1
<1> HIDE DEF D
<1>3. Cardinality(D) = Cardinality(T)
  BY <1>1, <1>2, ShiftedCount, ZenonT(30)
<1>4. ASSUME T # {} PROVE w + LastOf(T) \in D /\ \A x \in D : x <= w + LastOf(T)
  <2>1. LastOf(T) \in T /\ \A k \in T : k <= LastOf(T)
    BY <1>4, ScanWordSizeAssumption, BoundsOfBits
  <2>2. LastOf(T) \in Int /\ \A k \in T : k \in Int
    <3>1. \A k \in T : k \in 0..ScanWordSize - 1
      BY Zenon
    <3>2. \A k \in 0..ScanWordSize - 1 : k \in Int
      BY ScanWordSizeAssumption
    <3>3. QED
      BY <2>1, <3>1, <3>2, Zenon
  <2>3. \A k \in T : w + k <= w + LastOf(T)
    BY <2>1, <2>2
  <2>4. QED
    BY <1>1, <1>2, <2>1, <2>3
<1>5. QED
  BY <1>1, <1>3, <1>4 DEF D

\* The breaks of a word that lie before position p take the registers to p.
LEMMA ScanAdvances ==
  ASSUME file \in Files, NEW fb \in Nat, NEW p \in Nat, scanwordPos \in Nat,
         scanwordPos <= fb, fb <= p, p <= scanwordPos + ScanWordSize,
         scan.start = Promise!Start(fb), scan.num = Cardinality(Below(Promise!Ends, fb)),
         NEW T \in SUBSET (0..ScanWordSize - 1),
         \A i \in 0..ScanWordSize - 1 :
           i \in T <=> /\ fb <= scanwordPos + i /\ scanwordPos + i < p
                      /\ scanwordPos + i \in Promise!Ends
  PROVE  StartAfter(T) = Promise!Start(p) /\ NumAfter(T) = Cardinality(Below(Promise!Ends, p))
<1> DEFINE E == Promise!Ends
           D == {x \in E : fb <= x /\ x < p}
<1>1. E \in SUBSET (0..FileSize) /\ E \in SUBSET Nat
  BY EndsInFile, FileSizeType
<1>2. /\ Cardinality(D) = Cardinality(T)
      /\ T = {} => D = {}
      /\ T # {} => scanwordPos + LastOf(T) \in D /\ \A x \in D : x <= scanwordPos + LastOf(T)
  BY <1>1, WordPositions
<1>3. NumAfter(T) = Cardinality(Below(E, p))
  <2>1. Cardinality(Below(E, p)) = Cardinality(Below(E, fb)) + Cardinality(D)
    BY <1>1, BelowSplit
  <2>2. QED
    BY <1>2, <2>1 DEF NumAfter
<1>4. /\ D = {} => Promise!Start(p) = Promise!Start(fb)
      /\ \A l \in D : (\A x \in D : x <= l) => Promise!Start(p) = 1 + l
  BY StartSplit
<1>5. StartAfter(T) = Promise!Start(p)
  <2> HIDE DEF D
  <2>1. CASE T = {}
    BY <1>2, <1>4, <2>1 DEF StartAfter
  <2>2. CASE T # {}
    <3>1. Promise!Start(p) = 1 + (scanwordPos + LastOf(T))
      BY <1>2, <1>4, <2>2
    <3>2. LastOf(T) \in Nat
      <4>1. LastOf(T) \in T
        BY <2>2, ScanWordSizeAssumption, BoundsOfBits
      <4>2. LastOf(T) \in 0..ScanWordSize - 1
        BY <4>1, Zenon
      <4>3. QED
        BY <4>2, ScanWordSizeAssumption
    <3>3. StartAfter(T) = scanwordPos + LastOf(T) + 1
      BY <2>2 DEF StartAfter
    <3>4. QED
      BY <3>1, <3>2, <3>3
  <2>3. QED
    BY <2>1, <2>2
<1>6. QED
  BY <1>3, <1>5

-----------------------------------------------------------------------------
(* The words of a block.                                                   *)

LEMMA WordsOfBlock ==
  /\ WordCount \in Nat \ {0} /\ WordCount * ScanWordSize = BlockSize
  /\ \A k \in 0..WordCount - 1 : \A i \in 0..ScanWordSize - 1 : k * ScanWordSize + i \in Bit
<1>1. PICK n \in 1..BlockSize : BlockSize = n * ScanWordSize
  BY ScanWordSizeAssumption
<1>2. n \in Nat \ {0} /\ ScanWordSize \in Nat \ {0} /\ BlockSize \in Nat \ {0}
  BY <1>1, ScanWordSizeAssumption, BlockSizeAssumption
<1>3. WordCount = n
  BY <1>1, <1>2 DEF WordCount
<1>4. ASSUME NEW k \in 0..n - 1, NEW i \in 0..ScanWordSize - 1
      PROVE  k * ScanWordSize + i \in Bit
  <2>1. k \in Nat /\ i \in Nat /\ n - k >= 1 /\ i < ScanWordSize
    BY <1>2, <1>4
  <2>2. (n - k) * ScanWordSize >= ScanWordSize
    BY <1>2, <2>1
  <2>3. (n - k) * ScanWordSize = n * ScanWordSize - k * ScanWordSize
    BY <1>2, <2>1
  <2>4. k * ScanWordSize \in Nat
    BY <1>2, <2>1
  <2>5. QED
    BY <1>1, <1>2, <2>1, <2>2, <2>3, <2>4 DEF Bit
<1>5. QED
  BY <1>1, <1>2, <1>3, <1>4

\* The registers hold the ends of lines that lie in the word, if the slot holds those
\* of the block.
LEMMA WordEntered ==
  ASSUME ScanIndInv, due["s2p"] = 0, due["icgrep"] = 0, due["scanMatch"] > 0,
         NEW k \in 0..WordCount - 1, NEW start, NEW num
  PROVE  LET r == EnterWord(k, start, num)
             w == Scanned + k * ScanWordSize
         IN  /\ w \in Nat /\ r.word = k /\ r.start = start /\ r.num = num
             /\ r.matches = {i \in 0..ScanWordSize - 1 : w + i \in Promise!MatchEnds}
             /\ r.breaks = {i \in 0..ScanWordSize - 1 : w + i \in Promise!Ends}
<1> DEFINE r == EnterWord(k, start, num)
           w == Scanned + k * ScanWordSize
           n == blockNo["scanMatch"]
<1>1. /\ n \in Nat /\ BlockSize \in Nat /\ ScanWordSize \in Nat /\ WordCount \in Nat
      /\ Scanned = n * BlockSize /\ Scanned \in Nat
  BY BlockSizeAssumption, ScanWordSizeAssumption, WordsOfBlock
     DEF ScanIndInv, IndInv, TypeOK, ControlType, Kernel, Scanned
<1>2. results[SlotOf("scanMatch")] = Expected(n)
  BY ReadsItsResult DEF ScanReadsItsBlock, InBlock, Expected
<1>3. k * ScanWordSize \in Nat
  BY <1>1
<1>4. \A i \in 0..ScanWordSize - 1 : /\ k * ScanWordSize + i \in Bit
                                     /\ n * BlockSize + (k * ScanWordSize + i) = w + i
  BY <1>1, <1>3, WordsOfBlock
<1> HIDE DEF w, n
<1>5. /\ WordOf(Expected(n).matches, k)
           = {i \in 0..ScanWordSize - 1 : w + i \in Promise!MatchEnds}
      /\ WordOf(Expected(n).breaks, k)
           = {i \in 0..ScanWordSize - 1 : w + i \in Promise!Ends}
  BY <1>4 DEF WordOf, Expected
<1>6. w \in Nat
  BY <1>1, <1>3 DEF w
<1>7. QED
  BY <1>2, <1>5, <1>6 DEF EnterWord, w

LEMMA ScanType ==
  ASSUME ScanIndInv, scan # NotScanning
  PROVE  /\ file \in Files /\ due["s2p"] = 0 /\ due["icgrep"] = 0 /\ due["scanMatch"] > 0
         /\ scan.word \in 0..WordCount - 1 /\ scanwordPos = Scanned + scan.word * ScanWordSize
         /\ scanwordPos \in Nat /\ Scanned \in Nat /\ Len(reported) \in Nat
         /\ scan.matches \in SUBSET (0..ScanWordSize - 1)
         /\ scan.breaks \in SUBSET (0..ScanWordSize - 1)
<1>1. /\ LineType /\ file \in Files /\ blockNo["scanMatch"] \in Nat /\ scan.word >= 0
      /\ due["s2p"] = 0 /\ due["icgrep"] = 0 /\ due["scanMatch"] > 0
  BY DEF ScanIndInv, IndInv, TypeOK, ControlType, Kernel, ScanInv
<1>2. /\ scan.word \in -1..WordCount - 1 /\ Len(reported) \in Nat
      /\ scan.matches \in SUBSET (0..ScanWordSize - 1)
      /\ scan.breaks \in SUBSET (0..ScanWordSize - 1)
  BY <1>1 DEF LineType
<1>3. scan.word \in 0..WordCount - 1 /\ scan.word \in Nat
  BY <1>1, <1>2, WordsOfBlock
<1>4. Scanned \in Nat /\ scan.word * ScanWordSize \in Nat
  BY <1>1, <1>3, BlockSizeAssumption, ScanWordSizeAssumption DEF Scanned
<1>5. QED
  BY <1>1, <1>2, <1>3, <1>4 DEF scanwordPos, Scanned

\* The lowest match bit in the registers is that of the next matching line, its number
\* and start are those of the line, and what is left in the registers lies behind it.
LEMMA NextMatch ==
  ASSUME ScanIndInv, WordInv, scan.matches # {}
  PROVE  LET m     == FirstOf(scan.matches)
             p     == scanwordPos + m
             prior == {i \in scan.breaks : i < m}
         IN  /\ p \in Promise!MatchEnds /\ p \in Nat
             /\ Len(reported) = Cardinality(Below(Promise!MatchEnds, p))
             /\ StartAfter(prior) = Promise!Start(p)
             /\ NumAfter(prior) = Cardinality(Below(Promise!Ends, p))
             /\ InWord(scanwordPos, p, p + 1,
                       [scan EXCEPT !.matches = @ \ {m}, !.breaks = @ \ prior,
                                    !.start = StartAfter(prior), !.num = NumAfter(prior)],
                       Len(reported) + 1)
<1> DEFINE m     == FirstOf(scan.matches)
           w     == scanwordPos
           p     == w + m
           prior == {i \in scan.breaks : i < m}
           M     == Promise!MatchEnds
           E     == Promise!Ends
           rest  == [scan EXCEPT !.matches = @ \ {m}, !.breaks = @ \ prior,
                                 !.start = StartAfter(prior), !.num = NumAfter(prior)]
<1>1. PICK fb \in Nat, fm \in Nat : InWord(w, fb, fm, scan, Len(reported))
  BY DEF WordInv
<1>2. /\ file \in Files /\ w \in Nat /\ Len(reported) \in Nat
      /\ scan.matches \in SUBSET (0..ScanWordSize - 1)
      /\ scan.breaks \in SUBSET (0..ScanWordSize - 1)
  BY ScanType DEF NotScanning
<1>3. M \in SUBSET (0..FileSize) /\ M \subseteq Nat
  BY <1>2, EndsInFile, FileSizeType
<1>4. m \in scan.matches /\ \A k \in scan.matches : m <= k
  BY <1>2, ScanWordSizeAssumption, BoundsOfBits
<1> HIDE DEF w, m, M, E
<1>5. /\ w <= fb /\ fb <= fm /\ fm <= w + ScanWordSize
      /\ scan.start = Promise!Start(fb) /\ scan.num = Cardinality(Below(E, fb))
      /\ Len(reported) = Cardinality(Below(M, fm))
      /\ \A i \in 0..ScanWordSize - 1 : i \in scan.matches <=> fm <= w + i /\ w + i \in M
      /\ \A i \in 0..ScanWordSize - 1 : i \in scan.breaks <=> fb <= w + i /\ w + i \in E
  BY <1>1 DEF InWord, M, E
<1>6. /\ m \in 0..ScanWordSize - 1 /\ m \in Nat /\ p \in Nat /\ p \in M
      /\ fb <= p /\ fm <= p /\ w <= p /\ p + 1 <= w + ScanWordSize
  <2>1. m \in 0..ScanWordSize - 1
    BY <1>2, <1>4, Zenon
  <2>2. fm <= p /\ p \in M
    BY <1>4, <1>5, <2>1
  <2>3. QED
    BY <1>2, <1>5, <2>1, <2>2, ScanWordSizeAssumption
<1>7. \A x \in M : ~(fm <= x /\ x < p)
  <2>1. ASSUME NEW x \in M, fm <= x, x < p PROVE FALSE
    <3>1. x \in Nat /\ x - w \in 0..ScanWordSize - 1 /\ w + (x - w) = x /\ x - w < m
      BY <1>2, <1>3, <1>5, <1>6, <2>1, ScanWordSizeAssumption
    <3>2. x - w \in scan.matches
      BY <1>5, <2>1, <3>1
    <3>3. QED
      BY <1>4, <1>6, <3>1, <3>2
  <2>2. QED
    BY <2>1
<1>8. Len(reported) = Cardinality(Below(M, p))
  <2>1. Below(M, p) = Below(M, fm)
    <3>1. \A x \in M : x < p <=> x < fm
      BY <1>3, <1>6, <1>7
    <3>2. QED
      BY <3>1 DEF Below
  <2>2. QED
    BY <1>5, <2>1
<1>9. Len(reported) + 1 = Cardinality(Below(M, p + 1))
  <2>1. Below(M, p + 1) = Below(M, p) \union {p} /\ p \notin Below(M, p)
    <3>1. \A x \in M : x < p + 1 <=> x < p \/ x = p
      BY <1>3, <1>6
    <3>2. ~(p < p)
      BY <1>6
    <3> HIDE DEF p
    <3>3. QED
      BY <1>6, <3>1, <3>2 DEF Below
  <2>2. IsFiniteSet(Below(M, p))
    <3>1. p \in Nat /\ p <= p
      BY <1>6
    <3> HIDE DEF p
    <3>2. QED
      BY <1>2, <1>3, <3>1, BelowSplit
  <2>3. Cardinality(Below(M, p) \union {p}) = Cardinality(Below(M, p)) + 1
    BY <2>1, <2>2, FS_AddElement
  <2>4. QED
    BY <1>8, <2>1, <2>3
<1>10. prior \in SUBSET (0..ScanWordSize - 1)
  BY <1>2
<1>11. \A i \in 0..ScanWordSize - 1 : i \in prior <=> fb <= w + i /\ w + i < p /\ w + i \in E
  <2>1. \A i \in 0..ScanWordSize - 1 : i < m <=> w + i < p
    BY <1>2, <1>6, ScanWordSizeAssumption
  <2>2. QED
    BY <1>5, <2>1
<1>12. StartAfter(prior) = Promise!Start(p) /\ NumAfter(prior) = Cardinality(Below(E, p))
  <2>1. p <= w + ScanWordSize
    BY <1>2, <1>6, ScanWordSizeAssumption
  <2> HIDE DEF p, prior
  <2>2. QED
    BY <1>2, <1>5, <1>6, <1>10, <1>11, <2>1, ScanAdvances DEF w, E
<1>13. scan.matches \ {m} = {i \in 0..ScanWordSize - 1 : p + 1 <= w + i /\ w + i \in M}
  <2>1. \A i \in 0..ScanWordSize - 1 :
          i \in scan.matches /\ i # m <=> p + 1 <= w + i /\ w + i \in M
    <3>1. \A i \in 0..ScanWordSize - 1 : p + 1 <= w + i <=> m < i
      BY <1>2, <1>6, ScanWordSizeAssumption
    <3>2. \A i \in 0..ScanWordSize - 1 : m < i => fm <= w + i
      BY <1>2, <1>6, ScanWordSizeAssumption
    <3>3. \A i \in 0..ScanWordSize - 1 : i \in scan.matches /\ i # m => m < i
      BY <1>4, <1>6, ScanWordSizeAssumption
    <3>4. \A i \in 0..ScanWordSize - 1 : m < i => i # m
      BY <1>6
    <3> HIDE DEF p
    <3>5. QED
      BY <1>5, <3>1, <3>2, <3>3, <3>4
  <2> HIDE DEF p
  <2>2. QED
    BY <1>2, <2>1
<1>14. scan.breaks \ prior = {i \in 0..ScanWordSize - 1 : p <= w + i /\ w + i \in E}
  <2>1. \A i \in 0..ScanWordSize - 1 :
          i \in scan.breaks /\ i \notin prior <=> p <= w + i /\ w + i \in E
    <3>1. \A i \in 0..ScanWordSize - 1 : p <= w + i <=> ~(w + i < p)
      BY <1>2, <1>6, ScanWordSizeAssumption
    <3>2. \A i \in 0..ScanWordSize - 1 : p <= w + i => fb <= w + i
      BY <1>2, <1>5, <1>6, ScanWordSizeAssumption
    <3> HIDE DEF p, prior
    <3>3. QED
      BY <1>5, <1>11, <3>1, <3>2
  <2> HIDE DEF p, prior
  <2>2. QED
    BY <1>2, <2>1
<1>15. /\ rest.matches = scan.matches \ {m} /\ rest.breaks = scan.breaks \ prior
       /\ rest.start = StartAfter(prior) /\ rest.num = NumAfter(prior)
  BY DEF ScanIndInv, IndInv, TypeOK, LineType
<1> HIDE DEF p, prior, rest
<1>16. InWord(w, p, p + 1, rest, Len(reported) + 1)
  BY <1>6, <1>9, <1>12, <1>13, <1>14, <1>15 DEF InWord, M, E
<1>17. QED
  BY <1>6, <1>8, <1>12, <1>16 DEF w, m, p, prior, M, E, rest

\* When no match is left in the registers, everything up to the end of the word is
\* reported and counted.
LEMMA WordEnd ==
  ASSUME ScanIndInv, WordInv, WordDone
  PROVE  LET q == scanwordPos + ScanWordSize
         IN  /\ StartAfter(scan.breaks) = Promise!Start(q)
             /\ NumAfter(scan.breaks) = Cardinality(Below(Promise!Ends, q))
             /\ Len(reported) = Cardinality(Below(Promise!MatchEnds, q))
<1> DEFINE w == scanwordPos
           q == w + ScanWordSize
           M == Promise!MatchEnds
           E == Promise!Ends
<1>1. PICK fb \in Nat, fm \in Nat : InWord(w, fb, fm, scan, Len(reported))
  BY DEF WordInv
<1>2. /\ file \in Files /\ w \in Nat /\ scan.matches = {}
      /\ scan.breaks \in SUBSET (0..ScanWordSize - 1) /\ ScanWordSize \in Nat \ {0}
  BY ScanType, ScanWordSizeAssumption DEF WordDone
<1>3. M \in SUBSET (0..FileSize) /\ M \subseteq Nat
  BY <1>2, EndsInFile, FileSizeType
<1> HIDE DEF w, M, E
<1>4. /\ w <= fb /\ fb <= fm /\ fm <= w + ScanWordSize
      /\ scan.start = Promise!Start(fb) /\ scan.num = Cardinality(Below(E, fb))
      /\ Len(reported) = Cardinality(Below(M, fm))
      /\ \A i \in 0..ScanWordSize - 1 : i \in scan.matches <=> fm <= w + i /\ w + i \in M
      /\ \A i \in 0..ScanWordSize - 1 : i \in scan.breaks <=> fb <= w + i /\ w + i \in E
  BY <1>1 DEF InWord, M, E
<1>5. q \in Nat /\ fb <= q /\ fm <= q /\ \A i \in 0..ScanWordSize - 1 : w + i < q
  BY <1>2, <1>4
<1>6. /\ StartAfter(scan.breaks) = Promise!Start(q)
      /\ NumAfter(scan.breaks) = Cardinality(Below(E, q))
  <2>1. \A i \in 0..ScanWordSize - 1 :
          i \in scan.breaks <=> fb <= w + i /\ w + i < q /\ w + i \in E
    BY <1>4, <1>5
  <2>2. q <= w + ScanWordSize
    BY <1>5
  <2> HIDE DEF q
  <2>3. QED
    BY <1>2, <1>4, <1>5, <2>1, <2>2, ScanAdvances DEF w, E
<1>7. \A x \in M : x < q <=> x < fm
  <2>1. ASSUME NEW x \in M, x < q, ~(x < fm) PROVE FALSE
    <3>1. x - w \in 0..ScanWordSize - 1 /\ w + (x - w) = x /\ fm <= x
      BY <1>2, <1>3, <1>4, <2>1
    <3>2. QED
      BY <1>2, <1>4, <2>1, <3>1
  <2>2. QED
    BY <1>3, <1>5, <2>1
<1>8. Below(M, q) = Below(M, fm)
  <2> HIDE DEF q
  <2>1. QED
    BY <1>7 DEF Below
<1>9. QED
  BY <1>4, <1>6, <1>8 DEF w, q, M, E

-----------------------------------------------------------------------------
(* Every step preserves the invariant.                                     *)

LEMMA ReportsKept ==
  ASSUME [Next]_vars
  PROVE  \A w, fb, fm, s, n : InWord(w, fb, fm, s, n)' <=> InWord(w, fb, fm, s, n)
<1>1. \A p : /\ Below(Promise!Ends, p)' = Below(Promise!Ends, p)
            /\ Below(Promise!MatchEnds, p)' = Below(Promise!MatchEnds, p)
  BY PromiseKept DEF Below
<1>2. QED
  BY <1>1, PromiseKept DEF InWord

LEMMA InitReportIndInv == Init => ReportIndInv
<1> SUFFICES ASSUME Init PROVE ReportIndInv
  OBVIOUS
<1>1. Scanned = 0 /\ file \in Files
  BY BlockSizeAssumption DEF Init, Scanned, Kernel
<1>2. \A S \in SUBSET (0..FileSize) : Cardinality(Below(S, 0)) = 0
  <2>1. \A S \in SUBSET (0..FileSize) : Below(S, 0) = {}
    <3>1. \A x \in 0..FileSize : ~(x < 0)
      BY <1>1, FileSizeType
    <3>2. QED
      BY <3>1 DEF Below
  <2>2. QED
    BY <2>1, FS_EmptySet
<1>3. Promise!EndsBefore(0) = {}
  BY <1>1, EndsInFile, FileSizeType DEF Promise!EndsBefore
<1>4. Promise!Start(0) = 0
  BY <1>3 DEF Promise!Start
<1>5. Len(reported) = 0 /\ lineStart = 0 /\ lineNum = 0 /\ scan = NotScanning
  BY DEF Init
<1>6. ReportInv
  BY <1>1, <1>2, <1>4, <1>5, EndsInFile DEF ReportInv, Seen
<1>7. CoverInv
  BY DEF Init, CoverInv
<1>8. QED
  BY <1>6, <1>7, InitScanIndInv DEF ReportIndInv

\* A word is entered with everything before it reported and counted.
LEMMA WordEntry ==
  ASSUME ScanIndInv, due["s2p"] = 0, due["icgrep"] = 0, due["scanMatch"] > 0,
         NEW k \in 0..WordCount - 1, NEW start, NEW num,
         start = Promise!Start(Scanned + k * ScanWordSize),
         num = Cardinality(Below(Promise!Ends, Scanned + k * ScanWordSize)),
         Len(reported) = Cardinality(Below(Promise!MatchEnds, Scanned + k * ScanWordSize))
  PROVE  LET w == Scanned + k * ScanWordSize
         IN  w \in Nat /\ InWord(w, w, w, EnterWord(k, start, num), Len(reported))
<1> DEFINE r == EnterWord(k, start, num)
           w == Scanned + k * ScanWordSize
<1>1. /\ w \in Nat /\ r.start = start /\ r.num = num
      /\ r.matches = {i \in 0..ScanWordSize - 1 : w + i \in Promise!MatchEnds}
      /\ r.breaks = {i \in 0..ScanWordSize - 1 : w + i \in Promise!Ends}
  BY WordEntered
<1> HIDE DEF r
<1>2. \A i \in 0..ScanWordSize - 1 : w <= w + i
  BY <1>1, ScanWordSizeAssumption
<1>3. w <= w /\ w <= w + ScanWordSize
  BY <1>1, ScanWordSizeAssumption
<1>4. start = Promise!Start(w) /\ num = Cardinality(Below(Promise!Ends, w))
      /\ Len(reported) = Cardinality(Below(Promise!MatchEnds, w))
  OBVIOUS
<1> HIDE DEF w
<1>5. InWord(w, w, w, r, Len(reported))
  BY <1>1, <1>2, <1>3, <1>4 DEF InWord
<1>6. QED
  BY <1>1, <1>5 DEF w, r

LEMMA NextReportInv ==
  ASSUME ReportIndInv, [Next]_vars
  PROVE  ReportInv'
<1> USE DEF ReportIndInv
<1>0. /\ due \in [Kernel -> 0..SegmentSize] /\ blockNo \in [Kernel -> Nat]
      /\ {"s2p", "icgrep", "scanMatch"} = Kernel /\ Scanned \in Nat
      /\ reported \in Seq([num : Nat, start : Nat, end : Nat])
      /\ BlockSize \in Nat /\ ScanWordSize \in Nat /\ WordCount \in Nat \ {0}
      /\ scan \in [word : -1..WordCount - 1, start : Nat, num : Nat,
                   matches : SUBSET (0..ScanWordSize - 1),
                   breaks : SUBSET (0..ScanWordSize - 1)]
  BY BlockSizeAssumption, ScanWordSizeAssumption, WordsOfBlock
     DEF ScanIndInv, IndInv, TypeOK, ControlType, LineType, Kernel, Scanned
<1>1. CASE ScanBegin
  <2>1. /\ due["s2p"] = 0 /\ due["icgrep"] = 0 /\ due["scanMatch"] > 0 /\ scan = NotScanning
        /\ scan' = EnterWord(0, lineStart, lineNum) /\ blockNo' = blockNo
        /\ lineStart' = lineStart /\ lineNum' = lineNum /\ reported' = reported
    BY <1>1 DEF ScanBegin
  <2>2. 0 \in 0..WordCount - 1 /\ Scanned + 0 * ScanWordSize = Scanned
    BY <1>0
  <2>3. InWord(Scanned, Scanned, Scanned, scan', Len(reported'))
    BY <2>1, <2>2, WordEntry DEF ReportInv, Seen
  <2>4. scan'.word = 0 /\ scan' # NotScanning
    BY <2>1 DEF EnterWord, NotScanning
  <2>5. scanwordPos' = Scanned /\ Scanned' = Scanned
    BY <1>0, <2>1, <2>4 DEF scanwordPos, Scanned
  <2>6. WordInv'
    BY <1>0, <2>3, <2>5, ReportsKept DEF WordInv
  <2>7. Seen(Scanned)'
    BY <2>1, <2>4, <2>5, PromiseKept DEF Seen, ReportInv, Below
  <2>8. QED
    BY <2>6, <2>7 DEF ReportInv
<1>2. CASE ScanMatch
  <2> DEFINE m     == FirstOf(scan.matches)
             p     == scanwordPos + m
             prior == {i \in scan.breaks : i < m}
             rest  == [scan EXCEPT !.matches = @ \ {m}, !.breaks = @ \ prior,
                                   !.start = StartAfter(prior), !.num = NumAfter(prior)]
             report == [num |-> NumAfter(prior), start |-> StartAfter(prior), end |-> p]
  <2>1. /\ scan.matches # {} /\ scan # NotScanning /\ scan' = rest
        /\ reported' = Append(reported, report)
        /\ blockNo' = blockNo /\ lineStart' = lineStart /\ lineNum' = lineNum
    BY <1>2 DEF ScanMatch, NotScanning
  <2>2. p \in Nat /\ InWord(scanwordPos, p, p + 1, rest, Len(reported) + 1)
    BY <2>1, NextMatch DEF ReportInv
  <2>3. rest.word = scan.word /\ scan.word >= 0 /\ rest # NotScanning
    <3>1. rest.word = scan.word
      BY <1>0
    <3>2. scan.word >= 0
      BY <2>1 DEF ScanIndInv, IndInv, ScanInv
    <3> HIDE DEF rest
    <3>3. QED
      BY <3>1, <3>2 DEF NotScanning
  <2> HIDE DEF rest, report, p
  <2>4. Len(reported') = Len(reported) + 1
    BY <1>0, <2>1
  <2>5. scanwordPos' = scanwordPos /\ Scanned' = Scanned
    BY <2>1, <2>3 DEF scanwordPos, Scanned
  <2>6. WordInv'
    <3>1. p \in Nat /\ p + 1 \in Nat
      BY <2>2
    <3>2. InWord(scanwordPos', p, p + 1, scan', Len(reported'))
      BY <2>1, <2>2, <2>4, <2>5
    <3>3. QED
      BY <3>1, <3>2, ReportsKept DEF WordInv
  <2>7. Seen(Scanned)'
    BY <2>1, <2>3, <2>5, PromiseKept DEF Seen, ReportInv, Below
  <2>8. QED
    BY <2>6, <2>7 DEF ReportInv
<1>3. ASSUME WordDone
      PROVE  LET q == Scanned + (scan.word + 1) * ScanWordSize
             IN  /\ StartAfter(scan.breaks) = Promise!Start(q)
                 /\ NumAfter(scan.breaks) = Cardinality(Below(Promise!Ends, q))
                 /\ Len(reported) = Cardinality(Below(Promise!MatchEnds, q))
  <2>1. scan # NotScanning /\ WordInv
    BY <1>3 DEF WordDone, ReportInv
  <2>2. scan.word \in Nat /\ scanwordPos = Scanned + scan.word * ScanWordSize
    BY <1>0, <2>1, ScanType
  <2>3. scanwordPos + ScanWordSize = Scanned + (scan.word + 1) * ScanWordSize
    <3>1. (scan.word + 1) * ScanWordSize = scan.word * ScanWordSize + ScanWordSize
      BY <1>0, <2>2
    <3>2. scan.word * ScanWordSize \in Nat
      BY <1>0, <2>2
    <3>3. QED
      BY <1>0, <2>2, <3>1, <3>2
  <2>4. QED
    BY <1>3, <2>1, <2>3, WordEnd
<1>4. CASE ScanNextWord
  <2> DEFINE k == scan.word + 1
             w == Scanned + k * ScanWordSize
  <2>1. /\ WordDone /\ scan # NotScanning /\ scan.word < WordCount - 1
        /\ scan' = EnterWord(k, StartAfter(scan.breaks), NumAfter(scan.breaks))
        /\ blockNo' = blockNo /\ lineStart' = lineStart /\ lineNum' = lineNum
        /\ reported' = reported
    BY <1>4 DEF ScanNextWord, WordDone
  <2>2. /\ k \in 0..WordCount - 1 /\ k \in Nat
        /\ due["s2p"] = 0 /\ due["icgrep"] = 0 /\ due["scanMatch"] > 0
    BY <1>0, <2>1, ScanType, SMTT(20)
  <2>3. w \in Nat /\ InWord(w, w, w, scan', Len(reported'))
    BY <1>3, <2>1, <2>2, WordEntry
  <2>4. scan'.word = k /\ scan' # NotScanning
    BY <2>1, <2>2 DEF EnterWord, NotScanning
  <2>5. scanwordPos' = w /\ Scanned' = Scanned
    BY <2>1, <2>4 DEF scanwordPos, Scanned
  <2> HIDE DEF w
  <2>6. WordInv'
    BY <2>3, <2>5, ReportsKept DEF WordInv
  <2>7. Seen(Scanned)'
    BY <2>1, <2>4, <2>5, PromiseKept DEF Seen, ReportInv, Below
  <2>8. QED
    BY <2>6, <2>7 DEF ReportInv
<1>5. CASE ScanEnd
  <2>1. /\ WordDone /\ scan.word = WordCount - 1
        /\ lineStart' = StartAfter(scan.breaks) /\ lineNum' = NumAfter(scan.breaks)
        /\ scan' = NotScanning /\ reported' = reported
        /\ blockNo'["scanMatch"] = blockNo["scanMatch"] + 1
    BY <1>0, <1>5 DEF ScanEnd, Done
  <2>2. scan.word + 1 = WordCount
    BY <1>0, <2>1
  <2>3. Scanned' = Scanned + (scan.word + 1) * ScanWordSize
    <3>1. (scan.word + 1) * ScanWordSize = BlockSize
      BY <2>2, WordsOfBlock
    <3>2. blockNo["scanMatch"] \in Nat /\ Scanned' = (blockNo["scanMatch"] + 1) * BlockSize
      BY <1>0, <2>1 DEF Scanned
    <3>3. (blockNo["scanMatch"] + 1) * BlockSize = blockNo["scanMatch"] * BlockSize + BlockSize
      BY <1>0, <3>2
    <3>4. QED
      BY <3>1, <3>2, <3>3 DEF Scanned
  <2> DEFINE q == Scanned'
  <2>4. /\ lineStart' = Promise!Start(q) /\ lineNum' = Cardinality(Below(Promise!Ends, q))
        /\ Len(reported') = Cardinality(Below(Promise!MatchEnds, q))
    BY <1>3, <2>1, <2>3
  <2>5. Seen(Scanned)'
    BY <2>4, PromiseKept DEF Seen, Below
  <2>6. QED
    BY <2>1, <2>5 DEF ReportInv
<1>6. CASE UNCHANGED lineState /\ blockNo'["scanMatch"] = blockNo["scanMatch"]
  <2>1. /\ Scanned' = Scanned /\ scanwordPos' = scanwordPos /\ scan' = scan
        /\ reported' = reported /\ lineStart' = lineStart /\ lineNum' = lineNum
    BY <1>6 DEF Scanned, scanwordPos, lineState
  <2>2. Seen(Scanned)'
    BY <2>1, PromiseKept DEF Seen, ReportInv, Below
  <2>3. WordInv' <=> WordInv
    BY <2>1, ReportsKept DEF WordInv
  <2>4. QED
    BY <2>1, <2>2, <2>3 DEF ReportInv
<1>7. \/ ScanBegin \/ ScanMatch \/ ScanNextWord \/ ScanEnd
      \/ UNCHANGED lineState /\ blockNo'["scanMatch"] = blockNo["scanMatch"]
  BY <1>0 DEF Next, Kernels, Main, S2PDoBlock, ICGrepDoBlock, Done, SegmentBody, SegmentsDone,
     FullBody, FullDone, Body, LoopDone, FinalPartial, FinalEmpty, MarkEOF, NoMark, Return,
     vars
<1>8. QED
  BY <1>1, <1>2, <1>4, <1>5, <1>6, <1>7

LEMMA NextCoverInv ==
  ASSUME ReportIndInv, [Next]_vars
  PROVE  CoverInv'
<1> USE FileKept DEF ReportIndInv
<1>0. /\ due \in [Kernel -> 0..SegmentSize] /\ blockNo \in [Kernel -> Nat]
      /\ {"s2p", "icgrep", "scanMatch"} = Kernel /\ SegmentSize \in Nat \ {0}
      /\ BlockSize \in Nat \ {0} /\ FileSize \in Nat /\ FileSize' = FileSize
      /\ pc \in Loops \union {"end", "exit", "done"}
      /\ CoverInv /\ EndInv /\ ResultInv /\ ScanInv /\ remaining \in Nat
  BY BlockSizeAssumption, SegmentSizeAssumption, FileSizeType
     DEF ScanIndInv, IndInv, TypeOK, ControlType, Kernel, Loops
<1>1. ASSUME pc' = pc, due' = due, blockNo'["scanMatch"] = blockNo["scanMatch"] PROVE CoverInv'
  BY <1>0, <1>1 DEF CoverInv
<1>2. ASSUME NEW k \in Kernel, due[k] > 0, Done(k), UNCHANGED control PROVE CoverInv'
  <2>1. pc # "done" /\ pc' = pc
    BY <1>0, <1>2 DEF CoverInv, control
  <2>2. /\ due'[k] = due[k] - 1 /\ blockNo'[k] = blockNo[k] + 1
        /\ \A j \in Kernel \ {k} : due'[j] = due[j] /\ blockNo'[j] = blockNo[j]
    BY <1>0, <1>2 DEF Done
  <2>3. blockNo'["scanMatch"] + due'["scanMatch"] = blockNo["scanMatch"] + due["scanMatch"]
    BY <1>0, <1>2, <2>2
  <2>4. QED
    BY <1>0, <2>1, <2>3 DEF CoverInv
<1>3. CASE S2PDoBlock
  BY <1>0, <1>2, <1>3 DEF S2PDoBlock
<1>4. CASE ICGrepDoBlock
  BY <1>0, <1>2, <1>4 DEF ICGrepDoBlock
<1>5. CASE ScanBegin \/ ScanMatch \/ ScanNextWord
  BY <1>1, <1>5 DEF ScanBegin, ScanMatch, ScanNextWord, control
<1>6. CASE ScanEnd
  BY <1>0, <1>2, <1>6 DEF ScanEnd, WordDone, ScanInv
<1>7. CASE \/ SegmentBody \/ SegmentsDone \/ FullBody \/ FullDone \/ FinalPartial \/ FinalEmpty
  BY <1>7 DEF SegmentBody, SegmentsDone, FullBody, FullDone, Body, LoopDone, FinalPartial,
     FinalEmpty, Branch, CoverInv
<1>8. CASE MarkEOF \/ NoMark
  <2>1. /\ pc = "end" /\ pc' = "exit" /\ blockNo' = blockNo
        /\ due' = [due EXCEPT !["icgrep"] = 1, !["scanMatch"] = 1]
    BY <1>8 DEF MarkEOF, NoMark, Branch, LastCalls
  <2> DEFINE n == blockNo["scanMatch"]
  <2>2. /\ n \in Nat /\ blockNo'["scanMatch"] = n /\ due'["scanMatch"] = 1
        /\ n = blockNo["icgrep"] /\ remaining < BlockSize
        /\ remaining + BlockSize * n = FileSize
    BY <1>0, <2>1 DEF EndInv, ResultInv
  <2> HIDE DEF n
  <2>3. (n + 1) * BlockSize = BlockSize * n + BlockSize /\ BlockSize * n \in Nat
    BY <1>0, <2>2
  <2>4. FileSize < (n + 1) * BlockSize
    BY <1>0, <2>2, <2>3
  <2>5. QED
    BY <1>0, <2>1, <2>2, <2>4 DEF CoverInv
<1>9. CASE Return
  <2>1. pc = "exit" /\ due = [k \in Kernel |-> 0] /\ due' = due /\ blockNo' = blockNo
    BY <1>9 DEF Return, Branch, BodyDone
  <2>2. QED
    BY <1>0, <2>1 DEF CoverInv
<1>10. CASE UNCHANGED vars
  BY <1>1, <1>10 DEF vars, control
<1>11. QED
  BY <1>3, <1>4, <1>5, <1>6, <1>7, <1>8, <1>9, <1>10 DEF Next, Kernels, Main

LEMMA NextReportIndInv == ReportIndInv /\ [Next]_vars => ReportIndInv'
BY NextIndInv, NextCarryInv, NextResultInv, NextReportInv, NextCoverInv
   DEF ReportIndInv, ScanIndInv

LEMMA SpecReportIndInv == Spec => []ReportIndInv
BY InitReportIndInv, NextReportIndInv, PTL DEF Spec

-----------------------------------------------------------------------------
(* Every step is one of the promise.                                       *)

LEMMA PromiseCounts == \A S : Promise!Cardinality(S) = Cardinality(S)
BY DEF Promise!Cardinality, Cardinality

LEMMA MatchReported ==
  ASSUME ReportIndInv, ScanMatch
  PROVE  Promise!ReportMatch
<1> DEFINE m     == FirstOf(scan.matches)
           p     == scanwordPos + m
           prior == {i \in scan.breaks : i < m}
<1>1. /\ scan.matches # {} /\ scan # NotScanning /\ UNCHANGED <<file, invert, pc>>
      /\ reported' = Append(reported, [num |-> NumAfter(prior), start |-> StartAfter(prior),
                                       end |-> p])
  BY DEF ScanMatch, NotScanning, control
<1>2. pc # "done"
  <2>1. due["scanMatch"] > 0
    BY <1>1 DEF ReportIndInv, ScanIndInv, IndInv, ScanInv
  <2>2. QED
    BY <2>1 DEF ReportIndInv, CoverInv, Kernel
<1>3. /\ p \in Promise!MatchEnds
      /\ Len(reported) = Cardinality(Below(Promise!MatchEnds, p))
      /\ StartAfter(prior) = Promise!Start(p)
      /\ NumAfter(prior) = Cardinality(Below(Promise!Ends, p))
  BY <1>1, NextMatch DEF ReportIndInv, ReportInv
<1> HIDE DEF p, prior
<1>4. reported' = Append(reported, Promise!LineReport(p))
  BY <1>1, <1>3, PromiseCounts DEF Promise!LineReport, Promise!EndsBefore, Below
<1>5. Cardinality({q \in Promise!MatchEnds : q < p}) = Len(reported)
  BY <1>3 DEF Below
<1>6. QED
  BY <1>1, <1>2, <1>3, <1>4, <1>5, PromiseCounts DEF Promise!ReportMatch

LEMMA AllReported ==
  ASSUME ReportIndInv, Return
  PROVE  Promise!Return
<1>1. /\ pc = "exit" /\ pc' = "done" /\ due = [k \in Kernel |-> 0]
      /\ UNCHANGED <<file, invert, reported>>
  BY DEF Return, Branch, BodyDone, lineState
<1>2. scan = NotScanning
  BY <1>1 DEF ReportIndInv, ScanIndInv, IndInv, ScanInv, Kernel
<1>3. FileSize < Scanned /\ file \in Files /\ Scanned \in Nat /\ FileSize \in Nat
  BY <1>1, FileSizeType, BlockSizeAssumption
     DEF ReportIndInv, CoverInv, ScanIndInv, IndInv, TypeOK, ControlType, Kernel, Scanned
<1>4. Below(Promise!MatchEnds, Scanned) = Promise!MatchEnds
  <2>1. \A x \in 0..FileSize : x < Scanned
    BY <1>3
  <2>2. \A x \in Promise!MatchEnds : x < Scanned
    BY <1>3, <2>1, EndsInFile
  <2>3. QED
    BY <2>2 DEF Below
<1>5. Len(reported) = Cardinality(Promise!MatchEnds)
  BY <1>2, <1>4 DEF ReportIndInv, ReportInv, Seen
<1>6. QED
  BY <1>1, <1>5, PromiseCounts DEF Promise!Return

\* Under the mapping of Promise, every step of the search function is a step of
\* SearchSpec or leaves its variables alone: each report is that of the next matching
\* line of the file, right in number and positions, and all matching lines have been
\* reported when the function returns.
THEOREM SpecReportsMatchingLines ==
  Spec => Promise!SearchInit /\ [][Promise!SearchNext]_(Promise!searchVars)
<1>1. Init => Promise!SearchInit
  BY DEF Init, Promise!SearchInit
<1>2. ReportIndInv /\ [Next]_vars => [Promise!SearchNext]_(Promise!searchVars)
  <2> SUFFICES ASSUME ReportIndInv, [Next]_vars
               PROVE  [Promise!SearchNext]_(Promise!searchVars)
    OBVIOUS
  <2>1. CASE ScanMatch
    BY <2>1, MatchReported DEF Promise!SearchNext
  <2>2. CASE Return
    BY <2>2, AllReported DEF Promise!SearchNext
  <2>3. CASE UNCHANGED <<file, invert, reported>> /\ (pc' = "done" <=> pc = "done")
    BY <2>3 DEF Promise!searchVars
  <2>4. \/ ScanMatch \/ Return
        \/ UNCHANGED <<file, invert, reported>> /\ (pc' = "done" <=> pc = "done")
    BY DEF Next, Kernels, Main, S2PDoBlock, ICGrepDoBlock, ScanBegin, ScanNextWord, ScanEnd,
       SegmentBody, SegmentsDone, FullBody, FullDone, Body, LoopDone, Branch, FinalPartial,
       FinalEmpty, MarkEOF, NoMark, vars, control, lineState
  <2>5. QED
    BY <2>1, <2>2, <2>3, <2>4
<1>3. QED
  BY <1>1, <1>2, SpecReportIndInv, PTL DEF Spec
=============================================================================
