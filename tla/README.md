# icgrep in TLA+

icgrep is a grep that compiles a regular expression to a program over parallel
bit streams: the file is transposed to eight basis bit streams, a Pablo program
computes the positions where lines match, and a scanner reports those lines. The
program is compiled from the expression after several rewriting passes, is generated with LLVM at run time, as kernels that are called block by
block, and run over memory-mapped files, possibly by several threads.

This directory models the parts of it where an error would be an error of order,
position, carry or shared state: the driver and its threads, the compilation of a
regular expression to markers, the kernels' pipeline, the bit stream operations and
the carries that connect blocks, line breaks and the report of a line, sets of code
points, and the cache of compiled objects. Each module names the code it
stands for; `PROJECT.json` gives the lines for every definition. Paths below are
relative to `src/icgrep/`.

## 1. The system

| component | code | state | operations | talks to |
|---|---|---|---|---|
| Grep driver | `icgrep.cpp`, `grep_engine.cpp`, `toolchain.cpp` | `fileCount` under `count_mutex`, per-file `total_count` and `resultStrs`, `firstInputFile` | `main`, `DoGrep`, `doGrep`, `wrapped_report_match`, `PrintResult` | calls the compiled search function, which calls back for every match |
| Search pipeline | `kernels/pipeline.cpp`, `kernel.cpp`, `instance.cpp`, `s2p_kernel.cpp`, `scanmatchgen.cpp` | `BlockNo` per kernel, a ring of blocks between two kernels, `LineStart`, `LineNum` | one `DoBlock` call per kernel and block, `Main`'s loops, the end mark | contains the Pablo program as the kernel `icgrep` |
| Carry manager | `pablo/carry_manager.cpp`, `carry_data.*`, `compileIf`, `compileWhile` in `pablo_compiler.cpp` | the frame of carry packs, summaries, circular buffers | entering, leaving, skipping and repeating scopes; carry in, carry out | generates code inside the kernel `icgrep` |
| Stream operations | same, `IDISA/idisa_builder.cpp`, repetitions in `re/re_compiler.cpp` | a carry per statement | `Advance`, `MatchStar`, `ScanThru`, bounded repetition | what Pablo statements compute |
| Line breaks and reports | `re/re_compiler.cpp` (`initializeRequiredStreams`), `finalLineIsUnterminated`, `wrapped_report_match` | the streams of matches and record breaks, the output text | computing the streams, printing a line | positions found by scanMatch |
| Object cache | `object_cache.cpp`, the module name in `icgrep.cpp` | files in `~/.cache/icgrep`, shared by all runs | look-up, load, save | LLVM's execution engine; the file system |
| RE transformations | `re/re_nullable.cpp`, `re_simplifier.cpp`, `re_rep.cpp`, `re_seq.h`, `re_alt.h` | the expression | construction, nullable removal, simplification, name resolution | between parser and compiler |
| Compiler of expressions | `re/re_compiler.cpp`, `re_analysis.cpp`, `re_toolchain.cpp` | markers: a stream and the kind of position it marks | `process` and what it calls, one function per kind of expression | emits the Pablo program |
| RE parser | `re/re_parser.cpp` | the text left, modes, names | parsing | a nested engine for `\N{...}` |
| Pablo AST, optimizers, passes | `pablo/` | the stream program | rewriting | |
| Unicode sets and properties | `UCD/` | runs, and the quads of the Mixed ones | construction, insertion, set algebra, iteration | parser, compiler |
| UTF-8 to UTF-16 transcoder | `u8u16.cpp`, `kernels/deletion.cpp`, `p2s_kernel.cpp`, `u8u16_pipeline.cpp` | as the search pipeline | deletion of positions, compressed output | the same kernel framework |
| CC compiler, IDISA back ends | `cc/`, `IDISA/` | none | code generation | |
| Other programs | `casefold.cpp`, `symboltable.cpp` and their pipelines and kernels | as the search pipeline, with output and gather kernels | | the same kernel framework |
| Vendored | LLVM 3.8, CUDD, BuDDy | | | |

### What is hard about it

* Threads: two increments of one counter, slots written without a lock, results
  printed by `main`, threads that cannot be created, files that cannot be mapped.
* Positions: words, blocks, segments and files end independently of lines, and a line,
  a match, a run of characters or a repetition may cross any of those ends. Every
  crossing is a carry, a saved register or a slot of a ring.
* Skipped work: an `If` whose carries are forgotten loses a match far away from
  where it began; nothing fails, a line is just not printed.
* Line breaks: seven characters and one pair of them, one to three bytes each, in
  four pieces of code that must agree.
* Expressions: three kinds of marker positions that every element must bring into line,
  characters of one to three bytes, loops in loops, rewriting that must keep the lines.
* Unicode sets: two vectors that every operation must leave in step.
* Persistence: files written in place under the name they are looked up by, by runs
  that overlap or die.

The list of hazards in `PROJECT.json`, each at its line, is what the properties
below were chosen for.

### What makes each component correct

* Driver: whatever the schedule, the output is each file's own matches, complete
  and in command-line order; every file is searched, none twice; it does not hang.
* Pipeline: each kernel reads its own block; every matching line is reported once, in
  order, with its number, its start and its end, wherever blocks end.
* Carries: what a statement carries out it carries in, exactly once, in the next
  block (or as far on as it reaches); no skipped scope holds one.
* Operations: block arithmetic equals the definition on unbounded streams.
* Expressions: the lines found are the lines that match the expression as written.
* Unicode sets: after any operations the object is well formed, stands for the set of
  code points it should, and iterating visits exactly its intervals.
* Lines: exactly the bytes of the selected lines are printed; all lines are offered.
* Cache: a run executes the program it was asked for.

## 2. The modules

| module | role |
|---|---|
| `GrepSpec` | what the command promises |
| `GrepDriver` | the driver with one thread or several; implements `GrepSpec` |
| `GrepDriverProofs` | its theorems: who searches what, what is printed |
| `MCGrepDriver` | command lines for TLC |
| `SearchSpec` | what a call of the search function promises of a file |
| `Pipeline` | the generated `Main` and its kernels; implements `SearchSpec` |
| `PipelineProofs` | its theorems: the rings, the streams of lines, the steps of the promise |
| `MCPipeline` | files for TLC |
| `RegExp` | expressions and what they match |
| `REPasses` | the functions that build and rewrite expressions |
| `RECompiler` | the passes in order, then the compiler, carried out on a file |
| `MCRECompiler` | expressions and a file for TLC |
| `LineReport` | line break streams and the text that is printed |
| `LineReportProofs` | its theorems: the lines of characters are the lines of bytes |
| `UnicodeSet` | sets of code points as runs and quads |
| `UnicodeSetIterator` | their iterator, and `intersects`, which uses it |
| `UnicodeSetProofs` | their theorems: the object is the set it stands for, and iterating visits it |
| `MCUnicodeSet` | lists of intervals for TLC |
| `ObjectCache`, `MCObjectCache` | the cache of objects; interchangeable runs |
| `ObjectCacheProofs` | its theorems |
| `CarryScopes`, `MCCarryScopes` | the carry manager; programs for TLC |
| `CarryScopesProofs` | its theorems: the layout of the frame, what comes in again |
| `StreamOps`, `MCStreamOps` | stream operations; operations and widths for TLC |
| `StreamOpsProofs` | its theorems: types, advances move the stream, scans reach across blocks, repetitions count right, deletions keep the rest |
| `ProofFacts` | least and greatest elements, folds of sequences, sums over sets, remainders, for the proofs |

The modules meet at interfaces. `GrepDriver` takes the number of matching lines of
a file as given, which is what `SearchSpec` defines; `Pipeline` takes the pattern
and the kind of line break as the simplest that cross a block, `RECompiler` takes all
patterns on streams of the whole file, and `LineReport`
takes the positions that the pipeline finds and follows all kinds of break to the
text; the two carries of `Pipeline`'s kernel are an Advance and a MatchStar, which
`StreamOps` computes for all widths and `CarryScopes` stores for all nestings.

### GrepDriver

One variable per shared location (`count_mutex`, `fileCount`, `total_count`,
`resultStrs`), one function over the searching threads for each of `DoGrep`'s
locals, and `pc`. A step is at most one access to something another thread can
see: locking, incrementing and reading `fileCount` are three steps, and so are the
load and store of `total_count[idx]++`, and the two insertions into
`resultStrs[idx]`. `Skip`, `MapFails` and `Map` are the three outcomes of `doGrep`
before it searches. An exception in any thread ends the process (`Terminate`).
`Threads` is an option of the command: with one thread `main` itself is searcher 0,
and the two ways through `main` are one state machine. The text of a line is a token
`<<"line", name, k>>`: corruption, loss and reordering show, wording does not.

The refinement `DriverImplementsSpec` maps the driver's own `command`, `disk`,
`output` and `status` to `GrepSpec`; the promise there contains termination.

### Pipeline

`pc` is the basic block of the generated `Main`; `due[k]` counts the `DoBlock` calls
the block still makes of kernel `k`. A segment calls s2p `SegmentSize` times, then
icgrep as often, then scanMatch: this is why the rings have `SegmentSize` slots and
each kernel addresses them by its own `BlockNo`. `FinalPartial` and `FinalEmpty`
are the two ways to the last block, `MarkEOF` sets bits 4 and 6 in the byte after the
file, through pointers taken before (`eofSlot`). Rings hold "undefined" until
written. The icgrep kernel is the compiled pattern `ab`: one Advance, one
MatchStar, one carry for each; it is the smallest one whose match, line and carry can
all lie across a block. ScanMatch takes a step per reported match and per word.

`LineNum` starts at 0, so the first line of a file has number 0 in the report, and
`-n` prints it so (`toolchain.cpp:163`).

### LineReport

Files are sequences of characters, encoded to bytes; the end mark, the streams LF,
CRLF, NEL, LS/PS and UnicodeLineBreak are computed from bytes by the code's
equations, scanning and `wrapped_report_match` from the streams. Properties are
stated on characters, where a line is what a reader takes for one. VT stands for FF and LS
for PS, which the code treats alike; two characters that merely end in the bytes of
a line break are included. Which lines match is left open.

### RegExp, REPasses, RECompiler

An expression is a record, its meaning a recursive definition on positions of a line
(`RegExp`). `REPasses` has one operator per function that makes or rewrites
expressions, from the parser's constructors (`Parsed`) to `RE_Simplifier` and
`resolveNames`. A behaviour of `RECompiler` takes one expression through the passes in
the order of `main` and `get_icgrep_RE`, sets up the streams of the file
(`InitializeRequiredStreams`) and compiles it. The compiler's functions are operators
from a marker to a marker: the program they emit is run on the whole file at
once, so its statements are evaluated as they are emitted. A stream is a set of byte
positions; `While` loops iterate to the fixed point, with the pending and accumulated
streams of nested stars kept as the code keeps them. A lookahead at anything but one character
ends the program (`CompileThrows`).

`strayed` remembers which kinds of markers were set where a marker of that kind may not
be. `NoLineMissed` and `NoLineAdded` are claimed as long as the markers they depend on
have not strayed, `PassesKeepTheLines` of expressions without a repetition of a
repetition whose bounds are multiplied wrongly; `re_wrong` shows what happens otherwise.

### UnicodeSet

The object is the vector of runs and the vector of quads; `members` is the set that its
history of operations stands for. Operations that work quad by quad are written on
cells, one per quad; `insert` and `insert_range` are modelled run by run, as in the
code. `sound` becomes false, and the invariants stop claiming anything, when an
operation is applied to operands for which it is known to break the object (section 6).
`advance` of the iterator (`UnicodeSetIterator`) is one round of the loop it is in: the first
looks for a code point of the set, the second, `inside` an interval, for one that is not.
`Intervals` are what `Rounds` of them visit, a bound that no object needs more than, as the
proof shows; they are compared with `members`.

### ObjectCache

Runs of icgrep share a directory. Look-up opens and maps the file in one step
(`getObject`) and copies it in another (`CopyBuffer`), so a file can be emptied in
between; LLVM's `MemoryBuffer` fills up with zeros what a shorter file lacks (if it maps a
large file instead, the run gets a signal, which is `Kill`). Saving is
opening with truncation, writing in chunks at the writer's own offset, closing. A run
can be killed between any two steps; that is also how a run ends whose cache directory
cannot be written, since nobody looks at the error and the stream's destructor exits. A module is its name and the program it stands
for: expressions, `-i` and `-v`. The cache is used with `-enable-object-cache`.

### CarryScopes

`Layout` is `CarryManager::enumerate` and `CarryData::enumerateLocal`: a scope's
packs are its long advances (a circular buffer of a power of two of blocks each),
short advances, additions and unit advances, then its nested scopes, then a summary
if an `If` is around and more than one pack is summarised. Run-time actions are the
code the compiler emits at a statement, at the entry, skip and exit of an `If`, at
the entry, repetition and exit of a `While`, and at the end of a block. A pack is
"zero" or "not zero" and the data decide freely. `sent` remembers, per statement,
what was carried out of the last blocks, and the properties compare with it.

`WellFormed` is what `RE_Compiler` builds: a tree of scopes, and in a `While` no other
(`compileSeq`, `processUnboundedRep`). `Supported` is what the carry manager can keep the
carries of. It leaves out programs that `RE_Compiler` does build: those of findings 5 and 6,
and the two of the first observation in section 6.

### StreamOps

A block is a set of positions; IDISA's vector instructions are operators on sets and,
for additions, on numbers. `addCarryInCarryOut` has its three branches (a
single register, the 128-bit pair, the carry rippling by `hsimd_signmask` and
`esimd_bitspread`), Advance its five. The history `past` keeps as many blocks as the
result may depend on. ScanThru is used as the RE compiler uses it: a mark never lies
where the scan from another mark ends (`WellPlaced`). The repetitions (`consecutive_matches`,
`reachable`, `processBoundedRep`) are the shifts of `Doublings`, each an Advance with a
carry of its own; a repetition of none is never built (`compileRep` asks for `lb > 0`).

Deletion, which the transcoder does of each block, is here too since it is made of the
same instructions: `parallel_prefix_deletion_masks` computes the moves,
`apply_parallel_prefix_deletion` does them, `partial_sum_popcount` counts, and the
registers are stored one over the unused end of the other (`CompressedOutput`). Where
the input ends the rest of the block is deleted (`EOF_del`).

## 3. The runs

| run | instance | shows |
|---|---|---|
| `grep` | 1 and 2 threads, up to 2 files of 2 names, 0–2 matching lines, all kinds of file, with and without `-c`, `-H` and (one thread) `-e` | all interleavings of claims, reports and prints: types, claims, slots, every file searched, `DriverImplementsSpec` |
| `pipeline` | blocks of 2 words of 2 bits, segments of 2 blocks; all files up to 5 bytes over `a b lf`, periodic ones of 7 to 21 bytes | kernels read their blocks, carries know the line, the report is the promise, and the function returns |
| `lines` | all files of up to 4 of 8 characters, all choices of matching lines, both settings of `-normalize-line-breaks` | output, offered lines and numbers |
| `re` | 5,313 expressions and options, on one file of 67 lines of up to 10 characters, of 1 to 3 bytes, and four kinds of line break | every pass keeps the lines; the compiled program finds them |
| `unicode_set` | 4 quads of 2 code points, every sequence of operations from every list of intervals | well formed, the right members, exact intervals |
| `cache` | 3 runs, 3 expressions, objects of 2 chunks | undisturbed runs get their own program; disturbed ones never another; files settle |
| `carries` | five programs, any number of blocks (modulo the largest buffer, 4) | no skipped carry, exact summaries, carries in as carried out |
| `streamops` | 1–4 fields of 1–4 bits, shifts 1–6, repetitions 1–8, deletions | each result is its definition |
| `grep_regexfile`, `re_wrong`, `cache_invert`, `carries_skipped` | | the findings, section 6 |

### Why the bounds are enough

* Two threads show every race of pairs; the claims are proved for any number. Two
  files and a pattern give a file before and after another and more indices than
  threads. Two matching lines let two reports of one file meet another's.
* `pipeline`: 21 bytes are two segments, a block and a byte; 7, 8, 9 and 16, 17
  stand around the ends of a segment and of two; 12 leaves a block and nothing. With blocks of two
  words of two bits, a match, a break and the end mark fall on every bit of a word and
  every word of a block. The period 3 lets lines span blocks. Everything but
  that the function returns is proved for all sizes.
* `re`: the families of `MCRECompiler` are repetitions of groups that themselves hold
  sequences, alternatives, stars and counted repetitions, between two elements, and pairs
  of 26 kinds of element (classes, complements, assertions, look-arounds, intersections) as
  alternatives and in sequence. The file has every word of up to three of `a`, `b`, `é`
  as a line, empty lines, and a character of three bytes. Two loops in one another share one
  `While`, which is what nesting can break: with `WholeLines`, between `^` and `$`, groups
  that hold up to two loops, in one another or side by side, are repeated with up to five
  turns, and 22 longer lines (`LongLines`) need them, so that a `While` with a turn too few, a
  loop that forgets what is pending, or doubling shifts that fall short of a count of bytes
  shows. A `While` runs on as long as any line needs it; `ababababaé` needs it for
  the inner loop of `^(a(ba)*é)*$` when no line does for the outer one, which tells whether
  `mWhileTest` has the inner loop. Groups that are counted repetitions have their
  bounds combined, and the longer lines lie around the products. The kind of line break matters
  to few elements, and those are checked with both settings.
* `unicode_set`: a set of four quads has runs of every type next to every other; two code
  points make a quad empty, full, and mixed in two ways. The states are all the objects
  that the operations reach.
* `lines`: a CR LF pair, what is before and after it and one more character
  are four; look-alikes are in the alphabet.
* `cache`: a writer, a second writer and a reader; two chunks distinguish empty,
  partial and whole.
* `carries`: the shapes are those the RE compiler emits: an `If` per few characters
  of a sequence, nested; a `While` of an unbounded repetition; long advances of
  repeated classes; Ifs without a carry. Buffers of 1, 2 and 4 blocks, with reach 3 in a
  buffer of 4. All four properties are proved for every supported program.
* `streamops`: every branch of the code is taken, with fields small enough to see all
  pairs of blocks in all carry states, one field full, all full, none. Repetitions go up to
  bounds whose shifts take a circular buffer of two blocks. Deletion moves by 1
  and by 2 within a field, and stores up to four registers; moves by 4 and more repeat the
  same step.

Counters are bounded by the files (`Pipeline`, `GrepDriver`), by the sequence of
commands (`ObjectCache`), or kept modulo the largest ring (`CarryScopes`,
`StreamOps`: `MaxRing`, since block numbers matter only modulo a buffer's size).
`CHECK_DEADLOCK FALSE` is set where the program ends: the driver, the pipeline, the
report of a file, the compilation of an expression, a set whose operations
have broken it, the runs that share a cache. `streamops` and `carries` run for ever.

### Fairness

* `GrepDriver`: weak fairness of `main` and of each thread: the operating system runs
  every thread that can run. The mutex is not assumed to be fair; a thread waiting
  for it may be overtaken, but the others run out of files, leave the loop and
  never lock it again, so weak fairness is enough.
* `Pipeline`: weak fairness of the next step: the function is one thread's code.
* `ObjectCache`, `LineReport`, `CarryScopes`, `StreamOps`, `UnicodeSet` and `RECompiler`
  have safety properties only: their steps are calls that somebody makes, or one thread's
  code (the fixed points of `RECompiler` are evaluated in one step, and grow within a
  finite file).

## 4. Proofs

TLAPS checks the following for all values of the constants, under the assumptions
declared in the modules (`MaxLinesAssumption`;
`CommandsAssumption`: at least one argument, as `cl::OneOrMore` has it; `CacheAssumption`;
`BlockSizeAssumption`, `SegmentSizeAssumption`, `ScanWordSizeAssumption`: positive, a
block is whole words; `FilesAssumption`: files are not empty; `ProgramsAssumption`: programs
are `WellFormed`; `MaxRingAssumption`: the block number is kept modulo a multiple of every
buffer's size; `SizesAssumption`, `ListsAssumption`: quads of at least two code points, lists
of intervals in order and apart, as `convertIntervalRangesToSparseSet` needs them: its
assertion only fails where an interval lies wholly before the one in front of it).

`GrepDriverProofs`, for any number of threads, arguments and matching lines:

* `SpecTypeOK`.
* `SpecClaimsDiffer`: no two threads search the same argument. Not inductive alone:
  the increment and the read of `fileCount` are two steps. `IndInv` adds that the mutex is
  held exactly between `Lock` and `Claim` (`MutexInv`), that between the increment and the
  read nobody holds an index as large as `fileCount`, and that indices held differ
  and are at most `fileCount` (`ClaimInv`).
* `SpecSlotsNotShared`: with distinct names no two threads are inside a report of one
  slot. From `IndInv`: slots are functions of names (`IdxType`), names differ, so
  would the indices.
* `SpecSearchedOnce`: no argument is searched twice, and all are when the results
  are printed. `SearchInv` says that `searched[i]` is one exactly for the indices handed
  out whose holder has got past the test, and `ExitInv` that a thread leaves only with
  an index past the last.
* `SpecEveryFileSearched`: every file is searched before the results are printed, if
  `FirstIsHandedOut`: there is one thread, or the pattern is the first argument. Without
  that it is finding 2.

On top of it, under `Promised`: the pattern is the first argument and
no file is named twice. Without that both are false (finding 2, and two threads on one
slot):

* `SpecPrintedAsPromised`: when the command is done, each file's own lines or count have
  been printed, complete and in command-line order. `SlotInv` says what each slot holds
  at any time: nothing before its file is searched, the report of all its lines after
  it, and in between that of the lines its thread has passed, with a name token or a
  value read that is still true in the middle of a report (`InsideHolds`, `IdleHolds`).
  It needs `SearchIndInv`: a thread is alone with its index, hence (`OwnSlots`) with its
  slot. `LinesGrow` is about `FlattenSeq`, whose value for `n + 1` lines is that for `n`
  with one more; it goes by least counterexample.
* `SpecKeepsPromise`: the step part of `DriverImplementsSpec`. Every step of the driver is
  a `Finish` or an `Abort` of `GrepSpec` or leaves its variables alone.

`ObjectCacheProofs`, for any number of runs and expressions and any size of objects:

* `SpecTypeOK`, with `LoadInv` (a run has loaded as many modules as its progress says) and
  `FileInv` (who copies or writes has a file).
* `SpecNoForeignCode`, `SpecRunsItsProgram`, `SpecCacheSettles`, all under `SameInvert`: all
  runs agree about `-v`, without which they are false (finding 7). `DiskInv` says that a
  file holds only chunks of the program it is named after, or gaps; `WriteInv` that a
  missing chunk is still to come from somebody who has the file open; `SerialInv` that
  undisturbed runs see whole objects. `NameTellsProgram` is where `SameInvert` is needed.

`PipelineProofs`, for any block, word and segment size and any files:

* `SpecTypeOK`: among others, the end mark never changes a byte of the file (there is
  no "other" byte in the ring), since it goes to a zero byte.
* `SpecICGrepReadsItsBlock`: `LoopInv` says that in `Main`'s loops each kernel is promised
  the same blocks and that those between icgrep's and s2p's counts are in their slots;
  the slots of at most `SegmentSize` consecutive blocks differ (`SlotsDistinct`).
  `EndInv` follows the last block, whose slot is the one the mark's pointers name, and
  `ExitInv` the mark.

On top of it:

* `SpecCarriesKnowTheLine`: `CarryInv` says it of every block, the last included, in terms
  of `Reaches(j, p)`: a match ends at `j` and no line between there and `p`.
  `ContainsReaches` relates it to the lines of `SearchSpec`, `MatchStarReaches` to the
  kernel's `MatchStar` with what was carried in; `ICGrepBlock` puts them together for one
  call, which reads its own block by the theorem before.
* `SpecScanReadsItsBlock`: `ResultInv` says that the blocks that icgrep has counted and
  scanMatch has not are in their slots of the second ring, as `Expected`: the bits at
  which lines, or matching lines, of the whole file end.

* `SpecReportsMatchingLines`: the step part of `PipelineImplementsSearch`. In a word,
  two frontiers run over the file (`InWord`): the breaks up to `fb` are behind the scan,
  the matches up to `fm` are reported, and the registers hold what follows; they are
  apart because a match is taken from the registers before the break it lies on.
  `NextMatch` and `WordEnd` move them, by counting positions (`BelowSplit`,
  `WordPositions`) and by where the last line start is (`StartSplit`). `CoverInv` says
  that the last calls go past the end mark, so that nothing is left at `Return`.

`CarryScopesProofs`, first, for every well-formed program, about the frame. `Bases`, `Sizes`,
`Around` and `power2ceil` are recursive functions: that a function with such an equation
exists, and hence that the definition's CHOOSE has one, goes by least counterexample on
the number of scopes, and what it gives by another. Sums over sets are treated in the same
way (`SumIs`: a sum does not depend on which element is taken out). `InnerPacks`,
`OuterPacks` and `OwnPacksApart` then place every scope: its own packs, those of nested scopes and its
summary are apart, and inside the scope around it. `power2ceilIs`: a buffer is large enough.

Then, for any set of programs that are `Supported` (the runs' programs are,
TLC evaluates `SupportedAssumption`), any number of scopes, statements and blocks:

* `PacksApart`: no pack belongs to two statements, nor to a statement and a summary. It is
  why storing a carry changes nothing else.
* `CarriesAreKept`: the invariant `IInv`, which speaks of every pack at every statement,
  where the properties speak of the statement that comes next.
  `MemoryIsHistory`: a pack holds what its statement carried out of the last block until
  the program has passed the statement, and what it carried out of this block from
  then on; of the slots of a buffer, which turn with the block number
  (`SlotsKept`), each holds its own block. `Passed` is the order in which the program comes
  to its statements: two paths in the tree of scopes compared where they part.
  `LoopAccumulates`: in a `While`, where nothing is stored yet, the accumulators and the
  packs of this iteration hold it together. `SummariesKept`: the stored summary of an `If`
  is true exactly when a pack within it is, buffers aside, which force it.
  `SummariesCollected`: so is the summary in the making, for every scope around the
  statement and the part of it that has been passed; without it the summary stored at the
  end would say nothing, and it needs the stack to have the right height (`TypeOK`).
* `CarryTypeCorrect`, `SkippedScopesAreEmpty`, `SummariesSayWhatIsCarried`, `CarriesComeIn`:
  the four properties of the run, each from `IInv`. `Supported` is needed: the
  programs of findings 5 and 6 and `LongInWhile` each break one line of it, and one of them.

`LineReportProofs`, for files of any length over the characters of `Encoding`:

* `LinesTypeCorrect`, with either notion of a line break.
* `OutputIsTheLines`, `LinesAreOffered`, `LineNumbersCount`: the run's other properties, all
  under `~LFOnly`; with `-disable-unicode-linebreak` they are false (section 6). The properties
  speak of characters, the program of bytes. `BytesOfPart` says which bytes a run of
  characters is, `LastByteTells` and `LastBytesOnly` that a break is recognized on
  the last byte of its character and nowhere else, `UnterminatedIs` that the program's test
  of the last three bytes is right, though NEL and LS share them with other characters.
  `PlacesAre` then gives the streams: one `Place` for each line, in the order of the lines.
  `ReportStartIs` and `ReportIsPrinted` follow a report through the cases of
  CRLF, the break of two or three bytes and the missing one. `IInv` adds to the
  output that the streams are the file's and that what was selected lies behind the scan; the
  line that is reported next is then the last of the selected ones (`NextSelected`, `NthIs`).

`StreamOpsProofs`, for every shift and every width and number of fields, under
`OpsAssumption` (a block is whole bytes, and the masks of a scan, of 32 bits in the code, have
a bit for each field and one for the carry out) and `MaxRingAssumption` (the block number, which
the code counts up and the model takes modulo `MaxRing`, turns with the buffers):

* `AdvancesMoveTheStream`: block by block, the result of an Advance is the
  stream moved by `n` positions (`Moved`). `ShortAdvanceMoves` goes through the four ways in
  which a short one is computed and `LongAdvanceMoves` through the two of a long one, each
  ASSUMEs that the carry, or the circular buffer, is the part of the earlier blocks that
  `n` positions reach back to; `CarryIsPast` is that as an invariant, and `SlotsTurn`
  says that the slots of the buffer stay those of the last `Entries` blocks when the block number goes on.
* `ScansReachAcrossBlocks`: block by block, MatchStar marks what can be reached from a mark along
  the class, and ScanThru the first position behind it. The code adds numbers, and the property
  speaks of positions. `Carries(w, a, b, c)` says that the set `c` holds the carries of adding the
  bits `a` and `b`, the last one the carry out; `BitsOfSum` that the sum of the two numbers has the
  bits `Total`, each the parity of three, and `CarryOutIs` that `CarryStream` and
  `setCarryOut` find the carry out again. It rests on `NumberIs` (a number is the sum of its powers
  of two, in whatever order the sum takes them), `BelowIs` and `BitsAre` (the bits of a number
  are those it was made of). With fields, `c` is cut at the ends of the fields (`PartCarries`);
  each of the three ways to add must then get the carry into each field right: `AddPairIs`
  by the digit carry moved up, `AddLongIs` because the addition of masks is itself such
  an addition, in which a field of ones passes a carry on as a one would (`MasksMove`). `ReachedIs`
  says that the carries of the marks in the class, added to the class, are where a scan leads;
  `CarryIsScan` is the invariant: the carry is kept exactly when the scan goes on.

* `RepetitionsCount`: block by block, the doubling shifts mark the runs of `n` matches, the
  positions within `n` of a match, and what at most `n` characters of the class lead to from a
  mark. `Joining(shifts, r, total)` says of the shifts that `r[j]` positions are joined after
  `j` of them and that none leaves a gap (`ShiftsJoin`, from the loop's
  condition `i * 2 < total` and the shift that makes up the rest). Each shift moves
  the stream that the ones before it have made, not the input, and its carry holds blocks of that
  stream: `Keeps(all, n, r, q, blocks, number)` says that the carry is that of some earlier blocks
  which are, as far back as the shift reaches, the input joined `r` times (`Covered`). `StageIs` takes
  one shift, by the lemma that the advances rest on, `StagesJoin` all of them, and
  `CarriesFit` is the invariant. The MatchStar of a bounded repetition may have come from further
  back than the blocks that are kept, so the invariant says of its carry (`Comes`) only that
  it is there if a mark within `n` leads to it and that otherwise, if it is there, the class
  holds at all `n` positions before; with the mask of `reachable` that is enough (`BoundedAt`).
* `DeletionsKeepTheRest`: of each block exactly the units that are not deleted and lie before the
  end of the input are written, in their order. `Dels(del, i)` is the number of deletions
  before a position in its field, by which it has to move down, and the moves do it by the
  powers of two of that number: after those below `2^k` the position is at
  `Target(del, k, i)`. The code never moves the marks along; that they may stay where they are is
  the heart of it. `Marks(del, k, mk)` says that up to a position there are `Dels \div 2^k` marks
  left, which halving keeps (`SecondMarks`: every second one goes), and `TargetIs` that the
  position where the earlier moves took it has the same number: between the two
  are too few deletions to make a difference. So the parity at the new place says whether the
  next power moves it (`TargetMarked`), for the mask and for each stream alike (`MoveStep`,
  `MasksAre`, `AppliedIs`); `PackedApart` says that no two positions end up in one place. `ParityIs`
  is the prefix of exclusive ors, whose step doubles the positions counted, and
  `PartialSumIs` the running sums, whose step doubles the fields. `RankIs` puts together the
  number of units before a field and the place in it, and `StoredRight` says that what is stored
  is right for the units kept of the registers so far: `StoreNext` overwrites only what lies
  behind them. The loops are recursive functions; that such a function exists is proved too
  (`PrefixExists`, `MaskFunctionExists`, ...), since their definitions choose it.
* `TypeCorrect`: with the four results above, since they say what a result is made of.

`UnicodeSetProofs`, for quads of every size from two code points on, code point spaces of
every size and any lists of intervals:

* `TypeCorrect`: the object is made of runs and quads after any operation, those that
  break it included.
* `ObjectsStayVerified`, `ObjectsRepresentMembers`: as long as no operation has met the operands
  it is known to break (`sound`, section 6), the object passes `verify`, and `contains` and
  `empty` answer for the set of code points that the same operations on sets give.

  The invariant, `IInv`, says that the object is `Right`: its cells, quad by quad, are those of
  `members`. `Denotes(r, q, b, e, c)` says it of a list of runs and a list of quads for a part
  of the space, from quad `b` to quad `e`; what the operations do to the lists is cutting and
  joining, and `Denotes` can be cut (`CutDenotes`) and joined with them, also within a run
  (`PieceSplit`): that keeps the two lists in step, which is what the code may get wrong. A
  part may then be replaced by another that denotes the same (`Splice`).
  `append_run` and `append_quad` join one more piece, hence the constructors and the
  operations on two sets, which append cell after cell; `insert` opens a run at an offset
  (`Opening`) and puts a run of one quad between; `insert_range` is an open run in the
  front, new runs, and what is left of the run of the upper end (`RestRight`), if the
  search finds it, as under `RangeFits`. `empty` tests for one Empty run and not for no
  members, so `IInv` adds that an object without members is `Compact`: runs made anew are
  joined, and `insert`, which joins nothing, leaves members. `QuadsBefore`, `MixedBefore`
  and the loops are recursive functions, treated by least counterexample like those of
  the carries.
* `IteratingIsExact`: on such an object the iterator visits the members as maximal intervals, in
  order, and `intersects` finds every common code point. What a round keeps is in two parts.
  `At` holds the members of the iterator in step: base, run, number in the Mixed run and place
  in the vector of quads are those of one quad, and an offset is kept only within a Mixed run.
  `Visiting` says what was visited: the intervals so far `Covers` the members below the place
  the iterator has come to, and the last has ended, with a code point that is no member
  behind it; inside an interval, all since its begin are members. A round passes code
  points that are not looked for (`SkipTo`) or turns to the other loop where one is found
  (`TurnAt`). That `Rounds` are enough follows from `Pace`, which every round makes greater:
  twice the place, the run, and one more where the loop does not find at once.

TLC checked the inductive invariants (`IndInv` of each module, `IInv` of the carries, the advances and the sets, `SearchIndInv` and
`OutputIndInv` of the driver, `ScanIndInv` and `ReportIndInv` of the pipeline) on the same instances before
they were proved.

Only model-checked: the refinement `DriverImplementsSpec` of the commands with `-e` (one thread,
two files, their lines printed), the liveness part of it and of
`PipelineImplementsSearch`, that is, that everything ends (fairness and `ENABLED` are
beyond the prover), and all of `RECompiler`. Expressions are
recursive data: their meaning, the passes and the compiler are RECURSIVE operators, and
what they compute for every expression needs an induction that the prover's theorems
do not offer. `RegExp`, `REPasses` and `RECompiler` declare RECURSIVE operators.

## 5. Mutants

Every property of a passing run has a mutant in `PROJECT.json`: a definition and a
plausible wrong version of it, defined just before it in the module and marked
"Mutant", under which TLC finds the property violated: a lock taken whoever holds it,
printing before joining, a slot of the ring taken a call too late, a carry kept past
a line break, an object appended to instead of written, a summary not added, a
circular buffer with a block too few, a carry that does not ripple, positions moved
twice by one deletion, a loop that ends while a loop inside it is pending.

## 6. Findings

Each is a run that TLC ends with a counterexample; `PROJECT.json` quotes the lines.

1. `icgrep -f regexpf f`, the command of the README, prints nothing:
   `PrintResult` starts at argument 1 (`grep_regexfile`).
2. With `-e` or `-f` and several threads the first file is not searched: `DoGrep`
   increments before it reads (`grep_regexfile`: of the two files of its threaded commands
   only the second is searched).
3. Markers are joined at the wrong position in three cases: `[^é]` reports a line of only
   `é`; `bé*a*é` misses the line `bé`; under `-disable-unicode-linebreak`, `^é` never
   matches (`re_wrong`).
4. A repetition of a repetition gets the product of the wrong bounds (`re_rep.cpp:34`):
   `b(a?)+é` misses the line `bé` (`re_wrong`).
5. A `While` in an `If` overwrites the summary of the carries before it, as in
   `abcde(fg)*h`: a match across a block can be lost (`carries_skipped`).
6. A long advance alone in an `If` leaves its block out of the summaries, as in
   `a{64}bcda{64}`: the scopes around are skipped while the block is pending
   (`carries_skipped`).
7. The cached object's name lacks `-v` (and `-disable-unicode-linebreak`): a run loads
   the opposite program (`cache_invert`).

Observations that have no run of their own:

* A long advance in a `While`, as in `(a{65}b)*`, goes to memory at once: the second
  iteration carries in what the first carried out (`carry_manager.cpp:179`), against
  the comment at `pablo_compiler.cpp:278`, and `ensureCarriesStoredRecursive` stores a pack over it that no
  long advance sets. `Programs <- WithLongInWhile` in `MCCarryScopes.cfg` violates
  `CarriesInWhatWasCarriedOut`. A scope that carries nothing and comes last in the frame, as in
  `abc(?<=c)`, takes the element behind the end of `mCarryOutPack` for its summary (69),
  which is undefined.
* `-disable-unicode-linebreak` leaves the LF of a CR LF out of the record breaks but not
  out of the places of matches (`re_compiler.cpp:146`, `384`): in a file with CR LF a
  reported line is printed with those before it. `LFOnly = TRUE` in `MCLineReport.cfg`
  shows it.
* `UnicodeSet`, where the run excludes the operands: `operator-` leaves what is under
  a Full run in the set, a Full run as it is and a Mixed one without its quads
  (`unicode_set.cpp:293`); `operator^` reads a quad from a Full
  run (352); `operator~` of a set with quads iterates over the empty result (186);
  `insert_range` looks for the upper end from the next run on, reads past the last run
  when both ends are in one, and takes a wrong quad when the upper end's run is Mixed
  (537–551); `insert` rejects UNICODE_MAX, which `insert_range` accepts (415).

Hazards without a property of their own say so in a note: the operands above, on which
`UnicodeSet` is known to break; a file named twice has one slot; an interrupted save is loaded later; a file that ends in CR, NEL or the like
under `-disable-unicode-linebreak` loses its last line.

Latent in the code but not reached by what the RE compiler emits, and therefore not
`WellFormed`: nested `While`s share one vector of
accumulators (`carry_manager.cpp:336`); iterations after the first carry in again, although
the comment at `pablo_compiler.cpp:278` says zero, which is harmless in monotone loops
without long advances.
Also outside: `-e a -e b` and one expression with a newline between `a` and `b` have one
object (`icgrep.cpp:70`).

## 7. Not modelled

* The RE parser's reading of the pattern text: only what it builds of the parts is.
* In `RECompiler`: grapheme cluster mode, `\N{...}` and properties (names with other
  definitions than classes), invalid UTF-8, the options that disable one way of compiling
  (`-disable-log2-bounded-repetition` and the like).
* In `UnicodeSet`: comparisons, `size`, `front`, `back`, the dump, the slab allocator.
  Property tables are generated.
* Optimizers and passes of Pablo: equalities of Boolean functions, off by default.
* The CC compiler and machine-specific IDISA overrides: taken to be what they specify.
* Of the transcoder: its equations from UTF-8 to UTF-16, the transposition back to bytes,
  the loops over segments (those of `Pipeline`), and a `write` that takes only a part.
* `casefold` with its standard output kernel, `symboltable`.
* Code generation and LLVM: a compiled module runs its program.
* popCount and Lookahead statements; the UTF-8 validation streams.
* Memory management.
* Vendored code, which is nearly all of the repository by lines (LLVM alone is over a
  million): the modelled definitions cover about two fifths of the components that are
  modelled, and a tiny share of the whole tree.

## 8. Plan

Done, in this order: the driver and its promise (threads first, since nothing tests
them), the pipeline and its promise, lines, cache, carries, operations; proofs of the
driver and of the pipeline's rings; threads as part of the command, expressions from the
parser to the lines, Unicode sets, deletion; proofs of the cache and of the steps of the
pipeline's and of the driver's promise; proofs of the carries, of the
lines, of all stream operations, of the Unicode sets and of their iterator.

Left:

1. `Transcode`: u8u16 and casefold as instances of the ring discipline around the deletion
   of `StreamOps`, with the remaining bytes of standard output, against the abstract
   filter.
2. `SymbolTable`: the lookahead of the sorting kernel and the gather buffers.
