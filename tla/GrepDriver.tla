----------------------------- MODULE GrepDriver -----------------------------
(***************************************************************************)
(* The driver of icgrep: main and DoGrep (icgrep.cpp), GrepEngine::doGrep  *)
(* (grep_engine.cpp), and the per-file result slots that the compiled      *)
(* search function writes through wrapped_report_match and PrintResult     *)
(* prints (toolchain.cpp).                                                 *)
(*                                                                         *)
(* With -t N and N > 1, N threads take file indices from the shared        *)
(* counter fileCount under count_mutex and search the files concurrently;  *)
(* the slots are written without a lock.  Otherwise main (thread 0 here)   *)
(* searches the files itself.  An access to shared memory that another     *)
(* thread may interleave with is a step of its own.                        *)
(***************************************************************************)
EXTENDS Integers, Sequences

CONSTANTS
  Name,       \* what a positional argument can be
  Commands,   \* the command lines considered
  MaxLines    \* bound: matching lines of a file

CommandRecord ==
  [inputFiles: Seq(Name), patternOption: BOOLEAN, countOnly: BOOLEAN, withFilename: BOOLEAN,
   threads: Int]

FileState == [kind: {"absent", "directory", "empty", "unmappable", "regular"},
              lines: 0..MaxLines]

ASSUME MaxLinesAssumption == MaxLines \in Nat
\* cl::OneOrMore: there is at least one positional argument.
ASSUME CommandsAssumption ==
  \A c \in Commands : c \in CommandRecord /\ Len(c.inputFiles) > 0

VARIABLES
  command,      \* the command line
  disk,         \* what each name stands for in the file system
  status,       \* of the process: "running", "done", "aborted"
  created,      \* threads main has created
  joined,       \* threads main has joined
  count_mutex,  \* the thread that holds it, or Nobody
  fileCount,    \* last index handed out
  pc,           \* where each searching thread is
  fileIdx,      \* its local fileIdx
  line,         \* matching lines it has reported of its file
  loaded,       \* the value of total_count[idx] it has read
  total_count,  \* one counter per slot
  resultStrs,   \* one stream per slot, as the tokens written to it
  searched,     \* history: how often doGrep was called for each argument
  output        \* what was written to std::cout

inputs == <<command, disk>>
slots == <<total_count, resultStrs>>
mainVars == <<created, joined, output>>
claimVars == <<count_mutex, fileCount, fileIdx>>
vars == <<inputs, status, mainVars, claimVars, pc, line, loaded, slots, searched>>

Promise == INSTANCE GrepSpec

NumArgs == Promise!NumArgs
Arg(i) == Promise!Arg(i)
firstInputFile == Promise!FirstFile

Nobody == -1

\* The -t option: with a value of one or less main searches the files itself.
Threads == command.threads
PoolSize == IF Threads > 1 THEN Threads ELSE 0
ThreadPool == 1..PoolSize
Searcher == IF Threads > 1 THEN ThreadPool ELSE {0}

\* Every thread some command has.
ThreadIds == UNION {0..c.threads : c \in Commands} \union {0}

\* Mutant: one slot too few.
SlotsForFilesOnly == 0..NumArgs - 2

\* initResult allocates a slot for every argument, the pattern's included.
Slots == 0..NumArgs - 1

-----------------------------------------------------------------------------
(* The start: get_icgrep_RE has set firstInputFile and initResult the slots. *)

Init ==
  /\ command \in Commands
  /\ disk \in [Name -> {s \in FileState : s.kind # "regular" => s.lines = 0}]
  /\ status = "running"
  /\ created = 0
  /\ joined = 0
  /\ count_mutex = Nobody
  /\ fileCount = 0
  /\ pc = [t \in Searcher |-> IF t = 0 THEN "test" ELSE "unborn"]
  /\ fileIdx = [t \in Searcher |-> IF t = 0 THEN firstInputFile ELSE 0]
  /\ line = [t \in Searcher |-> 0]
  /\ loaded = [t \in Searcher |-> 0]
  /\ total_count = [i \in Slots |-> 0]
  /\ resultStrs = [i \in Slots |-> << >>]
  /\ searched = [i \in 0..NumArgs - 1 |-> 0]
  /\ output = << >>

-----------------------------------------------------------------------------
(* main.                                                                   *)

CreateThread ==
  /\ created < PoolSize
  /\ created' = created + 1
  /\ pc' = [pc EXCEPT ![created + 1] = "lock"]
  /\ UNCHANGED <<inputs, status, joined, output, claimVars, line, loaded, slots, searched>>

\* An exception nobody catches: std::terminate ends the process and every thread.
Terminate ==
  /\ status' = "aborted"
  /\ UNCHANGED <<inputs, mainVars, claimVars, pc, line, loaded, slots, searched>>

CreateThreadFails ==
  /\ created < PoolSize
  /\ Terminate

JoinThread ==
  /\ created = PoolSize
  /\ joined < created
  /\ pc[joined + 1] = "exit"
  /\ joined' = joined + 1
  /\ UNCHANGED <<inputs, status, created, output, claimVars, pc, line, loaded, slots, searched>>

\* Slot i - 1 is printed under the name of argument i; there is no slot for argument 0.
PrintedSlot(i) ==
  IF command.countOnly
  THEN Promise!NameToken(Arg(i)) \o Promise!CountToken(total_count[i - 1])
  ELSE resultStrs[i - 1]

\* Mutant: main prints without waiting for the threads.
PrintWithoutJoin ==
  /\ created = PoolSize
  /\ output' = Promise!FlattenSeq([i \in 1..NumArgs - 1 |-> PrintedSlot(i)])
  /\ status' = "done"
  /\ UNCHANGED <<inputs, created, joined, claimVars, pc, line, loaded, slots, searched>>

PrintResult ==
  /\ joined = PoolSize
  /\ \A t \in Searcher \ ThreadPool : pc[t] = "exit"
  /\ output' = Promise!FlattenSeq([i \in 1..NumArgs - 1 |-> PrintedSlot(i)])
  /\ status' = "done"
  /\ UNCHANGED <<inputs, created, joined, claimVars, pc, line, loaded, slots, searched>>

-----------------------------------------------------------------------------
(* DoGrep: a thread takes the next index ...                               *)

\* Mutant: the lock is taken whoever holds it.
LockHeld(t) ==
  /\ pc[t] = "lock"
  /\ count_mutex' = t
  /\ pc' = [pc EXCEPT ![t] = "increment"]
  /\ UNCHANGED <<inputs, status, mainVars, fileCount, fileIdx, line, loaded, slots, searched>>

Lock(t) ==
  /\ pc[t] = "lock"
  /\ count_mutex = Nobody
  /\ count_mutex' = t
  /\ pc' = [pc EXCEPT ![t] = "increment"]
  /\ UNCHANGED <<inputs, status, mainVars, fileCount, fileIdx, line, loaded, slots, searched>>

Increment(t) ==
  /\ pc[t] = "increment"
  /\ fileCount' = fileCount + 1
  /\ pc' = [pc EXCEPT ![t] = "claim"]
  /\ UNCHANGED <<inputs, status, mainVars, count_mutex, fileIdx, line, loaded, slots, searched>>

Claim(t) ==
  /\ pc[t] = "claim"
  /\ fileIdx' = [fileIdx EXCEPT ![t] = fileCount]
  /\ count_mutex' = Nobody
  /\ pc' = [pc EXCEPT ![t] = "test"]
  /\ UNCHANGED <<inputs, status, mainVars, fileCount, line, loaded, slots, searched>>

(* ... and calls doGrep on it, or leaves the loop.                         *)

\* Mutant: the loop ends one index too early.
LeaveEarly(t) ==
  /\ pc[t] = "test"
  /\ fileIdx[t] >= NumArgs - 1
  /\ pc' = [pc EXCEPT ![t] = "exit"]
  /\ UNCHANGED <<inputs, status, mainVars, claimVars, line, loaded, slots, searched>>

Leave(t) ==
  /\ pc[t] = "test"
  /\ fileIdx[t] >= NumArgs
  /\ pc' = [pc EXCEPT ![t] = "exit"]
  /\ UNCHANGED <<inputs, status, mainVars, claimVars, line, loaded, slots, searched>>

\* After doGrep: the pool takes another index, main's loop adds one to its own.
Continue(t) ==
  /\ fileIdx' = IF t = 0 THEN [fileIdx EXCEPT ![t] = @ + 1] ELSE fileIdx
  /\ pc' = [pc EXCEPT ![t] = IF t = 0 THEN "test" ELSE "lock"]

Opening(t, kinds) ==
  /\ pc[t] = "test"
  /\ fileIdx[t] < NumArgs
  /\ disk[Arg(fileIdx[t])].kind \in kinds

Skip(t) ==
  /\ Opening(t, {"absent", "directory", "empty"})
  /\ searched' = [searched EXCEPT ![fileIdx[t]] = @ + 1]
  /\ Continue(t)
  /\ UNCHANGED <<inputs, status, mainVars, count_mutex, fileCount, line, loaded, slots>>

MapFails(t) ==
  /\ Opening(t, {"unmappable"})
  /\ Terminate

\* Mutant: the position in the last file is kept.
MapKeepingLine(t) ==
  /\ Opening(t, {"regular"})
  /\ searched' = [searched EXCEPT ![fileIdx[t]] = @ + 1]
  /\ pc' = [pc EXCEPT ![t] = "grep"]
  /\ UNCHANGED <<inputs, status, mainVars, claimVars, line, loaded, slots>>

Map(t) ==
  /\ Opening(t, {"regular"})
  /\ searched' = [searched EXCEPT ![fileIdx[t]] = @ + 1]
  /\ line' = [line EXCEPT ![t] = 0]
  /\ pc' = [pc EXCEPT ![t] = "grep"]
  /\ UNCHANGED <<inputs, status, mainVars, claimVars, loaded, slots>>

-----------------------------------------------------------------------------
(* The search function calls wrapped_report_match for every matching line. *)

FileName(t) == Arg(fileIdx[t])
Unreported(t) == line[t] < Promise!MatchingLines(FileName(t))

\* Mutant: the loop over the names stops before the last.
IdxMissingLast(t) ==
  LET same == {i \in 1..NumArgs - 2 : Arg(i) = FileName(t)}
  IN  IF same = {} THEN 0 ELSE (CHOOSE i \in same : \A j \in same : i <= j) - 1

\* The slot is found by name, and is 0 when no argument from 1 on has the name.
Idx(t) ==
  LET same == {i \in 1..NumArgs - 1 : Arg(i) = FileName(t)}
  IN  IF same = {} THEN 0 ELSE (CHOOSE i \in same : \A j \in same : i <= j) - 1

LoadCount(t) ==
  /\ pc[t] = "grep" /\ Unreported(t) /\ command.countOnly
  /\ loaded' = [loaded EXCEPT ![t] = total_count[Idx(t)]]
  /\ pc' = [pc EXCEPT ![t] = "store"]
  /\ UNCHANGED <<inputs, status, mainVars, claimVars, line, slots, searched>>

StoreCount(t) ==
  /\ pc[t] = "store"
  /\ total_count' = [total_count EXCEPT ![Idx(t)] = loaded[t] + 1]
  /\ line' = [line EXCEPT ![t] = @ + 1]
  /\ pc' = [pc EXCEPT ![t] = "grep"]
  /\ UNCHANGED <<inputs, status, mainVars, claimVars, loaded, resultStrs, searched>>

WriteName(t) ==
  /\ pc[t] = "grep" /\ Unreported(t) /\ ~command.countOnly
  /\ resultStrs' = [resultStrs EXCEPT ![Idx(t)] = @ \o Promise!NameToken(FileName(t))]
  /\ pc' = [pc EXCEPT ![t] = "write"]
  /\ UNCHANGED <<inputs, status, mainVars, claimVars, line, loaded, total_count, searched>>

WriteLine(t) ==
  /\ pc[t] = "write"
  /\ resultStrs' = [resultStrs EXCEPT ![Idx(t)] =
                      @ \o Promise!LineToken(FileName(t), line[t] + 1)]
  /\ line' = [line EXCEPT ![t] = @ + 1]
  /\ pc' = [pc EXCEPT ![t] = "grep"]
  /\ UNCHANGED <<inputs, status, mainVars, claimVars, loaded, total_count, searched>>

Unmap(t) ==
  /\ pc[t] = "grep" /\ ~Unreported(t)
  /\ Continue(t)
  /\ UNCHANGED <<inputs, status, mainVars, count_mutex, fileCount, line, loaded, slots, searched>>

-----------------------------------------------------------------------------
DoGrep(t) ==
  \/ Lock(t) \/ Increment(t) \/ Claim(t) \/ Leave(t)
  \/ Skip(t) \/ MapFails(t) \/ Map(t)
  \/ LoadCount(t) \/ StoreCount(t) \/ WriteName(t) \/ WriteLine(t) \/ Unmap(t)

Main == CreateThread \/ CreateThreadFails \/ JoinThread \/ PrintResult

\* Nothing runs once the process is over.
Next == status = "running" /\ (Main \/ \E t \in Searcher : DoGrep(t))

Safe == Init /\ [][Next]_vars

\* The operating system runs every thread; main blocks only in pthread_join.
Running(A) == status = "running" /\ A
Fairness ==
  /\ WF_vars(Running(Main))
  /\ \A t \in ThreadIds : WF_vars(Running(t \in Searcher /\ DoGrep(t)))

\* A mutex gives no turn to a waiting thread, but one that leaves the loop never takes it again.
Spec == Safe /\ Fairness
-----------------------------------------------------------------------------
(* Properties.                                                             *)

\* Inside doGrep, or about to call it, for the argument numbered fileIdx.
Working(t) == pc[t] \in {"test", "grep", "store", "write"} /\ fileIdx[t] < NumArgs

\* Between the first and the last access of wrapped_report_match to its slot.
Reporting(t) == pc[t] \in {"store", "write"}

\* No file is named twice.
DistinctNames ==
  \A i, j \in firstInputFile..NumArgs - 1 : Arg(i) = Arg(j) => i = j

\* Every variable keeps its type (arrays are indexed by slot or thread).
TypeOK ==
  /\ command \in Commands
  /\ disk \in [Name -> FileState]
  /\ status \in {"running", "done", "aborted"}
  /\ created \in 0..PoolSize
  /\ joined \in 0..created
  /\ count_mutex \in Searcher \union {Nobody}
  /\ fileCount \in Nat
  /\ pc \in [Searcher -> {"unborn", "lock", "increment", "claim", "test", "grep",
                          "store", "write", "exit"}]
  /\ fileIdx \in [Searcher -> Nat]
  /\ line \in [Searcher -> Nat]
  /\ loaded \in [Searcher -> Nat]
  /\ total_count \in [0..NumArgs - 1 -> Nat]
  /\ DOMAIN resultStrs = 0..NumArgs - 1
  /\ searched \in [0..NumArgs - 1 -> Nat]

\* No two threads ever search the same argument at the same time: the
\* increment and the read of fileCount in DoGrep are one critical section.
ClaimsDiffer ==
  \A s, t \in Searcher : s # t /\ Working(s) /\ Working(t) => fileIdx[s] # fileIdx[t]

\* Over the whole run no argument is searched twice, and when the results are
\* printed every argument after the pattern has been searched.
SearchedOnce ==
  /\ \A i \in DOMAIN searched : searched[i] <= 1
  /\ status = "done" => \A i \in 1..NumArgs - 1 : searched[i] = 1

\* The slots of toolchain.cpp need no lock when no file is named twice: two
\* threads in the middle of a report never have the same slot.
SlotsNotShared ==
  DistinctNames =>
    \A s, t \in Searcher : s # t /\ Reporting(s) /\ Reporting(t) => Idx(s) # Idx(t)

\* The inductive invariant behind the properties on claims.
\* The mutex is held exactly between Lock and Claim.
MutexInv ==
  \A t \in Searcher : pc[t] \in {"increment", "claim"} <=> count_mutex = t

\* Threads not created yet have taken nothing.
BornInv == \A t \in ThreadPool : pc[t] = "unborn" <=> t > created

\* An index in hand is one that was handed out, and only once; between the
\* increment and the read of fileCount nobody has its value.
Holding(t) == pc[t] \in {"test", "grep", "store", "write"}
ClaimInv ==
  Threads > 1 =>
    \A t \in Searcher :
      /\ fileIdx[t] <= fileCount
      /\ pc[t] = "claim" => \A s \in Searcher : fileIdx[s] < fileCount
      /\ Holding(t) => \A s \in Searcher \ {t} : Holding(s) => fileIdx[s] # fileIdx[t]

\* A thread in doGrep has a regular file, and an argument after the pattern.
OpenInv ==
  \A t \in Searcher :
    /\ pc[t] \in {"grep", "store", "write"} => fileIdx[t] < NumArgs
    /\ Threads > 1 /\ Holding(t) => fileIdx[t] >= 1
    /\ Threads <= 1 => pc[t] \in {"test", "grep", "store", "write", "exit"}

\* Every index from FirstHanded to LastHanded has been handed out; it has been
\* searched unless the thread that has it is still about to call doGrep.
FirstHanded == IF Threads > 1 THEN 1 ELSE firstInputFile
LastHanded ==
  IF Threads > 1
  THEN IF \E t \in Searcher : pc[t] = "claim" THEN fileCount - 1 ELSE fileCount
  ELSE fileIdx[0]
Pending(i) == \E t \in Searcher : pc[t] = "test" /\ fileIdx[t] = i
SearchInv ==
  \A i \in 0..NumArgs - 1 :
    searched[i] = IF i \in FirstHanded..LastHanded /\ ~Pending(i) THEN 1 ELSE 0

\* A thread that left the loop has seen an index past the end; main joins only
\* such threads, and prints after the last.  main's own index never goes back.
ExitInv ==
  /\ Threads <= 1 => fileIdx[0] >= firstInputFile
  /\ \A t \in Searcher : pc[t] = "exit" => fileIdx[t] >= NumArgs
  /\ \A t \in ThreadPool : t <= joined => pc[t] = "exit"
  /\ status = "done" => \A t \in Searcher : pc[t] = "exit"

IndInv == TypeOK /\ MutexInv /\ BornInv /\ ClaimInv /\ OpenInv
SearchIndInv == IndInv /\ SearchInv /\ ExitInv

\* What is printed, whatever the schedule, is what the command promises: each
\* file's own lines or count, complete, uncorrupted, in command-line order.
PrintedAsPromised == status = "done" => output = Promise!Report

\* Every argument that is a file has been searched when the results are printed.
EveryFileSearched ==
  status = "done" => \A i \in firstInputFile..NumArgs - 1 : searched[i] = 1

\* The same as a refinement: the driver implements GrepSpec, so it also prints
\* only once and at the end, nothing when aborted, and does not hang.
DriverImplementsSpec == Promise!Spec
=============================================================================
