---------------------------- MODULE CarryScopes ----------------------------
(***************************************************************************)
(* The carry manager (pablo/carry_manager.cpp, pablo/carry_data.cpp) and   *)
(* the code that compileIf and compileWhile emit around it.  A Pablo       *)
(* program works on one block of the streams at a time; what an Advance, a *)
(* MatchStar or a ScanThru carries into the next block is kept in a frame  *)
(* of packs.  A scope with If skips its body when its condition and the    *)
(* summary of its carries are zero; a While accumulates the carries of its *)
(* iterations.                                                             *)
(*                                                                         *)
(* The model runs compiled programs, chosen at the start, block by block.  *)
(* Only whether a carry or a condition is zero matters here, so a pack is  *)
(* a Boolean and what is computed is a free choice.                        *)
(***************************************************************************)
EXTENDS Integers, Sequences, FiniteSets, FiniteSetsExt, SequencesExt

CONSTANTS
  Programs,  \* the programs: sequences of scopes, the first is the entry block
  MaxRing    \* bound: the packs of the largest circular buffer

(***************************************************************************)
(* A scope is [kind, parent, body]; its body is a sequence of statements   *)
(* [type, n]: an Advance by one ("unit"), by less than LongAdvanceBase     *)
(* ("short"), or reaching n blocks back ("long"), a MatchStar or ScanThru  *)
(* ("add"), or the nested scope number n ("scope").                        *)
(***************************************************************************)
Classes == <<"long", "short", "add", "unit">>

Nested(c) == [type |-> "scope", n |-> c]

\* Every scope but the first is one statement of the scope around it. No scope is
\* nested in a While (RE_Compiler::compileSeq, RE_Compiler::processUnboundedRep).
WellFormed(p) ==
  /\ Len(p) \in Nat \ {0} /\ DOMAIN p = 1..Len(p)
  /\ \A s \in DOMAIN p :
       /\ p[s].kind \in {"main", "if", "while"}
       /\ p[s].kind = "main" <=> s = 1
       /\ Len(p[s].body) \in Nat /\ DOMAIN p[s].body = 1..Len(p[s].body)
       /\ s # 1 => /\ p[s].parent \in 1..s - 1
                   /\ p[p[s].parent].kind # "while"
                   /\ \E i \in DOMAIN p[p[s].parent].body : p[p[s].parent].body[i] = Nested(s)
       /\ \A i \in DOMAIN p[s].body : LET x == p[s].body[i] IN
            /\ x.type \in ToSet(Classes) \union {"scope"}
            /\ x.type = "scope" =>
                 /\ x = Nested(x.n) /\ x.n \in DOMAIN p \ {1} /\ p[x.n].parent = s
                 /\ \A j \in DOMAIN p[s].body : p[s].body[j] = x => j = i
            /\ x.type = "long" => x.n \in 1..MaxRing

ASSUME ProgramsAssumption == \A p \in Programs : WellFormed(p)

VARIABLES
  program,        \* the program
  info,           \* mCarryInfoVector: the layout of the frame, by scope
  at,             \* the statement that comes next: <<scope, position>>
  mem,            \* the packs of the frame, kept from block to block
  mCarryOutPack,  \* the packs as computed for this block
  mCarrySummary,  \* the summaries of the enclosing scopes
  accum,          \* mCarryOutAccumPhis: what a While has carried out so far
  blockNo,        \* the number of the block, modulo MaxRing
  sent            \* history: per statement, what it carried out of this and earlier blocks

compiled == <<program, info>>
vars == <<compiled, at, mem, mCarryOutPack, mCarrySummary, accum, blockNo, sent>>

-----------------------------------------------------------------------------
(* The layout of the frame (CarryData::enumerateLocal and                   *)
(* CarryManager::enumerate).                                                *)

Children(p, s) == {c \in DOMAIN p : c # 1 /\ p[c].parent = s}
Local(p, s) == {i \in DOMAIN p[s].body : p[s].body[i].type # "scope"}
Position(p, c) == CHOOSE i \in DOMAIN p[p[c].parent].body :
                    p[p[c].parent].body[i] = Nested(c)

\* A scope, and the scopes that it is nested in.
Around(p, s) ==
  LET up[t \in DOMAIN p] == {t} \union (IF t = 1 THEN {} ELSE up[p[t].parent])
  IN  up[s]

DepthOf(p, s, kind) == Cardinality({t \in Around(p, s) : p[t].kind = kind})

\* The loop doubles until it is large enough.
power2ceil(v) ==
  LET ceil[k \in 0..v] == IF k = 0 THEN 1 ELSE 2 * ceil[k - 1]
  IN  ceil[Min({k \in 0..v : ceil[k] >= v})]

\* Mutant: the block that is being stored has no place of its own.
OneTooFew(x) == power2ceil(x.n - 1)

longAdvanceBufferSize(x) == power2ceil(x.n)

\* The bound is a multiple of every size that a circular buffer can have: the number of
\* the block modulo MaxRing says where in the buffer it goes.
ASSUME MaxRingAssumption ==
  MaxRing \in Nat \ {0} /\ \A blocks \in 1..MaxRing : MaxRing % power2ceil(blocks) = 0

Width(x) == IF x.type = "long" THEN longAdvanceBufferSize(x) ELSE 1
Widths(p, s, positions) ==
  SumFunctionOnSet([i \in DOMAIN p[s].body |-> Width(p[s].body[i])], positions)

\* The packs of a scope are ordered by class, and in a class as in the program.
Offset(p, s, i) ==
  LET rank(j) == CHOOSE r \in DOMAIN Classes : Classes[r] = p[s].body[j].type
  IN  Widths(p, s, {j \in Local(p, s) : rank(j) < rank(i) \/ (rank(j) = rank(i) /\ j < i)})

\* Then come the nested scopes, and a pack for the summary if there is more than one
\* pack to be summarised and an If somewhere around.
Sizes(p) ==
  LET size[s \in DOMAIN p] ==
        LET nested == Widths(p, s, Local(p, s)) + SumFunctionOnSet(size, Children(p, s))
        IN  IF DepthOf(p, s, "if") > 0 /\ nested > 1 THEN nested + 1 ELSE nested
  IN  size

Bases(p) ==
  LET base[s \in DOMAIN p] ==
        IF s = 1 THEN 0
        ELSE LET q == p[s].parent
             IN  base[q] + Widths(p, q, Local(p, q))
                   + SumFunctionOnSet(Sizes(p), {c \in Children(p, q) : Position(p, c) < Position(p, s)})
  IN  base

Layout(p) ==
  [s \in DOMAIN p |->
     [base |-> Bases(p)[s], size |-> Sizes(p)[s],
      offset |-> [i \in Local(p, s) |-> Offset(p, s, i)],
      ifDepth |-> DepthOf(p, s, "if"), whileDepth |-> DepthOf(p, s, "while"),
      hasLongAdvances |-> \E i \in Local(p, s) : p[s].body[i].type = "long"]]

\* The programs that the carry manager can keep the carries of. The summary of an If
\* leaves out what is carried before a While in it, a While stores no block of a circular
\* buffer, and a circular buffer alone in its scope has no summary to be forced. The packs
\* are held in a vector as long as the frame: the summary of a scope must lie in it, also
\* when the scope carries nothing.
Supported(p) ==
  /\ \A s \in DOMAIN p : p[s].kind = "while" =>
       p[s].parent = 1 /\ \A i \in Local(p, s) : p[s].body[i].type # "long"
  /\ \A s \in DOMAIN p \ {1} : p[s].parent # 1 /\ Sizes(p)[s] = 1 =>
       \A i \in Local(p, s) : p[s].body[i].type # "long"
  /\ \A s \in DOMAIN p : Bases(p)[s] < Max({Sizes(p)[1], 1})

-----------------------------------------------------------------------------
Statements == UNION {{<<s, i>> : i \in Local(program, s)} : s \in DOMAIN program}
Reach(x) == IF x.type = "long" THEN x.n ELSE 1

Init ==
  /\ program \in Programs
  /\ info = Layout(program)
  /\ at = <<1, 1>>
  /\ mem = [k \in 0..Max({info[1].size, 1}) - 1 |-> FALSE]
  /\ mCarryOutPack = mem
  /\ mCarrySummary = << >>
  /\ accum = mem
  /\ blockNo = 0
  /\ sent = [o \in Statements |-> [k \in 1..Reach(program[o[1]].body[o[2]]) + 1 |-> FALSE]]

scope == at[1]
Ended == at[2] > Len(program[scope].body)
Statement == program[scope].body[at[2]]
After(s) == <<program[s].parent, Position(program, s) + 1>>

explicitSummaryRequired(s) == info[s].ifDepth > 0 /\ info[s].size > 1
hasSummary(s) == explicitSummaryRequired(s) /\ ~info[s].hasLongAdvances
hasCarries(s) == info[s].size > 0
summaryPack(s) == info[s].base + (IF explicitSummaryRequired(s) THEN info[s].size - 1 ELSE 0)
Packs(s) == info[s].base..info[s].base + info[s].size - 1

addToSummary(out, s, value) == [out EXCEPT ![summaryPack(s)] = @ \/ value]

\* Mutant: the summary starts with what it was in the last block.
NotCleared(out, s) == out

\* Every scope starts with an empty summary.
Cleared(out, s) == [out EXCEPT ![summaryPack(s)] = FALSE]

-----------------------------------------------------------------------------
(* Statements that carry.                                                   *)

Index == info[scope].base + info[scope].offset[at[2]]
Slot(block) == Index + (block % longAdvanceBufferSize(Statement))

Sends(carry) == sent' = [sent EXCEPT ![at][1] = @ \/ carry]

\* shortAdvanceCarryInCarryOut, and addCarryInCarryOut with setCarryOut. Inside a
\* While nothing is stored until the loop ends.
CarryInCarryOut ==
  /\ ~Ended /\ Statement.type \in {"short", "add", "unit"}
  /\ \E carry \in BOOLEAN :
       LET out == [mCarryOutPack EXCEPT ![Index] = carry]
       IN  /\ mCarryOutPack' = IF hasSummary(scope) THEN addToSummary(out, scope, carry) ELSE out
           /\ mem' = IF info[scope].whileDepth = 0 THEN [mem EXCEPT ![Index] = carry] ELSE mem
           /\ Sends(carry)
  /\ at' = <<scope, at[2] + 1>>
  /\ UNCHANGED <<compiled, mCarrySummary, accum, blockNo>>

\* The whole block goes into the circular buffer.
longAdvanceCarryInCarryOut ==
  /\ ~Ended /\ Statement.type = "long"
  /\ \E value \in BOOLEAN : mem' = [mem EXCEPT ![Slot(blockNo)] = value] /\ Sends(value)
  /\ at' = <<scope, at[2] + 1>>
  /\ UNCHANGED <<compiled, mCarryOutPack, mCarrySummary, accum, blockNo>>

-----------------------------------------------------------------------------
(* Scopes.                                                                  *)

storeCarryOutSummary(s) ==
  IF explicitSummaryRequired(s) /\ info[s].hasLongAdvances
  THEN [mCarryOutPack EXCEPT ![summaryPack(s)] = TRUE]  \* Force if entry
  ELSE mCarryOutPack

Stored(out, s) ==
  IF explicitSummaryRequired(s) THEN [mem EXCEPT ![summaryPack(s)] = out[summaryPack(s)]] ELSE mem

\* Mutant: the nested summary replaces the one of the scopes around it.
NestedSummaryOnly(out, s) == out

addOuterSummaryToNestedSummary(out, s) == addToSummary(out, s, Last(mCarrySummary))

\* Mutant: the stack of summaries is not popped.
leaveScopeUnpopped(out, s) ==
  /\ mCarryOutPack' = [out EXCEPT ![summaryPack(program[s].parent)] = out[summaryPack(s)]]
  /\ mCarrySummary' = mCarrySummary
  /\ at' = After(s)

\* The scope around gets the summary of the one that is left.
leaveScope(out, s) ==
  /\ mCarryOutPack' = [out EXCEPT ![summaryPack(program[s].parent)] = out[summaryPack(s)]]
  /\ mCarrySummary' = Front(mCarrySummary)
  /\ at' = After(s)

enterScope(c) ==
  /\ mCarrySummary' = Append(mCarrySummary, mCarryOutPack[summaryPack(scope)])
  /\ mCarryOutPack' = Cleared(mCarryOutPack, c)
  /\ at' = <<c, 1>>

AtNested(kind) == ~Ended /\ Statement.type = "scope" /\ program[Statement.n].kind = kind

generateSummaryTest(c, condition) == condition \/ (hasCarries(c) /\ mem[summaryPack(c)])

EnterIf ==
  /\ AtNested("if")
  /\ \E condition \in BOOLEAN : generateSummaryTest(Statement.n, condition)
  /\ enterScope(Statement.n)
  /\ UNCHANGED <<compiled, mem, accum, blockNo, sent>>

\* Around the body the summary keeps its value; in a While the packs of the body are
\* zero for this iteration (buildCarryDataPhisAfterIfBody).
SkipIf ==
  LET c == Statement.n
      outer == mCarryOutPack[summaryPack(scope)]
      zeros == IF info[c].whileDepth > 0 THEN Packs(c) ELSE {}
  IN  /\ AtNested("if")
      /\ \E condition \in BOOLEAN : ~generateSummaryTest(c, condition)
      /\ mCarryOutPack' = [k \in DOMAIN mCarryOutPack |->
           IF k \in {summaryPack(c), summaryPack(scope)} THEN outer
           ELSE IF k \in zeros THEN FALSE ELSE mCarryOutPack[k]]
      /\ at' = <<scope, at[2] + 1>>
      /\ UNCHANGED <<compiled, mem, mCarrySummary, accum, blockNo, sent>>

LeaveIf ==
  LET out == storeCarryOutSummary(scope)
  IN  /\ Ended /\ program[scope].kind = "if"
      /\ mem' = Stored(out, scope)
      /\ leaveScope(addOuterSummaryToNestedSummary(out, scope), scope)
      /\ UNCHANGED <<compiled, accum, blockNo, sent>>

\* The first iteration is unconditional.
EnterWhile ==
  /\ AtNested("while")
  /\ enterScope(Statement.n)
  /\ accum' = [k \in DOMAIN accum |-> FALSE]
  /\ UNCHANGED <<compiled, mem, blockNo, sent>>

\* finalizeWhileBlockCarryDataPhis: every pack of the body is accumulated.
Accumulated(out) ==
  [k \in DOMAIN out |-> out[k] \/ (k \in Packs(scope) /\ accum[k])]

RepeatWhile ==
  LET out == storeCarryOutSummary(scope)
  IN  /\ Ended /\ program[scope].kind = "while"
      /\ mem' = Stored(out, scope)
      /\ accum' = Accumulated(out)
      /\ mCarryOutPack' = Cleared(Accumulated(out), scope)
      /\ at' = <<scope, 1>>
      /\ UNCHANGED <<compiled, mCarrySummary, blockNo, sent>>

\* ensureCarriesStoredRecursive: the outermost While stores all its packs.
LeaveWhile ==
  LET out == Accumulated(storeCarryOutSummary(scope))
  IN  /\ Ended /\ program[scope].kind = "while"
      /\ mem' = IF info[scope].whileDepth = 1
                THEN [k \in DOMAIN mem |-> IF k \in Packs(scope) THEN out[k] ELSE mem[k]]
                ELSE Stored(storeCarryOutSummary(scope), scope)
      /\ leaveScope(out, scope)
      /\ UNCHANGED <<compiled, accum, blockNo, sent>>

\* The end of a block; the next one starts with reset().
NextBlock ==
  /\ Ended /\ scope = 1
  /\ blockNo' = (blockNo + 1) % MaxRing
  /\ sent' = [o \in DOMAIN sent |-> <<FALSE>> \o Front(sent[o])]
  /\ mCarryOutPack' = Cleared(mCarryOutPack, 1)
  /\ at' = <<1, 1>>
  /\ UNCHANGED <<compiled, mem, mCarrySummary, accum>>

Next ==
  \/ CarryInCarryOut \/ longAdvanceCarryInCarryOut
  \/ EnterIf \/ SkipIf \/ LeaveIf
  \/ EnterWhile \/ RepeatWhile \/ LeaveWhile
  \/ NextBlock

Spec == Init /\ [][Next]_vars

-----------------------------------------------------------------------------
\* Every variable keeps its type, and the stack of summaries has one entry for every
\* scope around the statement (reset() asserts that it is empty at the end).
TypeOK ==
  /\ program \in Programs
  /\ at[1] \in DOMAIN program /\ at[2] \in 1..Len(program[at[1]].body) + 1
  /\ mem \in [0..Max({info[1].size, 1}) - 1 -> BOOLEAN]
  /\ mCarryOutPack \in [DOMAIN mem -> BOOLEAN] /\ accum \in [DOMAIN mem -> BOOLEAN]
  /\ mCarrySummary \in Seq(BOOLEAN) /\ Len(mCarrySummary) + 1 = Cardinality(Around(program, scope))
  /\ blockNo \in 0..MaxRing - 1
  /\ \A o \in Statements :
       sent[o] \in [1..Reach(program[o[1]].body[o[2]]) + 1 -> BOOLEAN]

Inside(c) == {o \in Statements : c \in Around(program, o[1])}

\* What a statement inside c carried out of earlier blocks and has not used up.
Pending(c) == {o \in Inside(c) : \E k \in 2..Len(sent[o]) : sent[o][k]}

\* An If whose condition is zero skips its body only when nothing that its body
\* carried out of earlier blocks is still to come in: neither a carry of its own
\* statements, nor of a scope nested in it, nor a block in a circular buffer.
SkippedScopesHoldNoCarry ==
  AtNested("if") /\ ~generateSummaryTest(Statement.n, FALSE) => Pending(Statement.n) = {}

\* Without long advances, a body is not entered for nothing: if only its summary says
\* so, a statement inside it did carry something out of the last block.
SummariesAreExact ==
  AtNested("if") /\ generateSummaryTest(Statement.n, FALSE) =>
    \/ Pending(Statement.n) # {}
    \/ \E o \in Inside(Statement.n) : info[o[1]].hasLongAdvances

\* A statement carries in what it carried out of the last block, all iterations taken
\* together; a long advance reads the blocks that lie as far back as it reaches. No
\* other statement, scope or summary has written over it.
CarriesInWhatWasCarriedOut ==
  ~Ended /\ Statement.type # "scope" =>
    IF Statement.type = "long"
    THEN \A back \in {Statement.n, Max({Statement.n - 1, 1})} :
           mem[Slot(blockNo - back)] = sent[at][back + 1]
    ELSE mem[Index] = sent[at][2]
=============================================================================
