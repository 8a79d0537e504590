----------------------------- MODULE ObjectCache -----------------------------
(***************************************************************************)
(* The object cache (ICGrepObjectCache), shared through the file system by *)
(* all runs of icgrep with -enable-object-cache.  A run compiles one       *)
(* module per \N{...} name pattern of its regular expressions and then the *)
(* module of the search itself; each is looked up before it is compiled.   *)
(* The steps are those the file system sees: the file of an object is      *)
(* opened, read, truncated and written separately, by any number of runs.  *)
(***************************************************************************)
EXTENDS Integers, Sequences, FiniteSets

CONSTANTS
  Run,       \* the runs of icgrep
  Regex,     \* the texts of -e and -f, and of the first argument
  Named,     \* those that hold a name pattern
  Invert,    \* the values of -v that are given
  Chunks     \* bound: the writes it takes to save an object

ASSUME CacheAssumption ==
  /\ Named \subseteq Regex
  /\ Invert \subseteq BOOLEAN
  /\ Chunks \in Nat \ {0}

VARIABLES
  overlap,  \* whether the runs may overlap in time
  command,  \* the options of each run
  pc,       \* what each run does next
  engine,   \* the objects each run has loaded, one per module
  size,     \* getObject: the length of the file when it was opened
  written,  \* notifyObjectCompiled: the chunks written so far
  disk      \* the files of the cache directory, each a sequence of chunks

local == <<overlap, command, engine, size, written>>
vars == <<local, pc, disk>>

-----------------------------------------------------------------------------
(* Modules, and the names of their files.                                  *)

Command == [res : Regex, caseless : BOOLEAN, invert : Invert]

\* The code that a module stands for: what the name pattern selects, always without
\* regard to case, or what the search does. -v is compiled into both
\* (RE_Compiler::finalizeMatchResult).
NameModule(c) == [id |-> <<"NamePattern">>, program |-> <<"names", c.res, c.invert>>]

\* Mutant: the flags are left out of the name of the module.
SearchModuleOfRegex(c) ==
  [id |-> <<"grepcode:", c.res>>, program |-> <<"search", c.res, c.caseless, c.invert>>]

SearchModule(c) ==
  [id |-> <<"grepcode:", c.res, c.caseless>>, program |-> <<"search", c.res, c.caseless, c.invert>>]

Modules(c) == (IF c.res \in Named THEN <<NameModule(c)>> ELSE << >>) \o <<SearchModule(c)>>
Module(p) == Modules(command[p])[Len(engine[p]) + 1]

\* Mutant: every module has a file.
AnyPrefix(m) == TRUE

\* getCacheFilename: only names that begin with "grepcode:" have a file.
HasFile(m) == m.id[1] = "grepcode:"

Whole(program) == [i \in 1..Chunks |-> program]
Exists(id) == id \in DOMAIN disk
Content(id, f) == [i \in DOMAIN disk \union {id} |-> IF i = id THEN f ELSE disk[i]]

-----------------------------------------------------------------------------
Init ==
  /\ overlap \in BOOLEAN
  /\ command \in [Run -> Command]
  /\ pc = [p \in Run |-> "idle"]
  /\ engine = [p \in Run |-> << >>]
  /\ size = [p \in Run |-> 0]
  /\ written = [p \in Run |-> 0]
  /\ disk = << >>

Over == {"running", "killed"}

Start(p) ==
  /\ pc[p] = "idle"
  /\ overlap \/ \A q \in Run : pc[q] \in {"idle"} \union Over
  /\ pc' = [pc EXCEPT ![p] = "getObject"]
  /\ UNCHANGED <<local, disk>>

\* The file is opened and its size taken; without one the module is compiled.
getObject(p) ==
  /\ pc[p] = "getObject"
  /\ IF HasFile(Module(p)) /\ Exists(Module(p).id)
     THEN /\ size' = [size EXCEPT ![p] = Len(disk[Module(p).id])]
          /\ pc' = [pc EXCEPT ![p] = "copy"]
     ELSE pc' = [pc EXCEPT ![p] = "compile"] /\ UNCHANGED size
  /\ UNCHANGED <<overlap, command, engine, written, disk>>

\* MCJIT takes the object as it is, and goes on to the next module.
Load(p, object) ==
  /\ engine' = [engine EXCEPT ![p] = Append(@, object)]
  /\ pc' = [pc EXCEPT ![p] =
              IF Len(engine[p]) + 1 = Len(Modules(command[p])) THEN "running" ELSE "getObject"]

\* Reads that many bytes; a file that has become shorter is filled up with zeros.
CopyBuffer(p) ==
  LET file == disk[Module(p).id]
  IN  /\ pc[p] = "copy"
      /\ Load(p, [i \in 1..size[p] |-> IF i <= Len(file) THEN file[i] ELSE <<"zeros">>])
      /\ UNCHANGED <<overlap, command, size, written, disk>>

\* The compiled object is saved before it is loaded, if the module has a file.
emitObject(p) ==
  /\ pc[p] = "compile"
  /\ IF HasFile(Module(p))
     THEN pc' = [pc EXCEPT ![p] = "notifyObjectCompiled"] /\ UNCHANGED engine
     ELSE Load(p, Whole(Module(p).program))
  /\ UNCHANGED <<overlap, command, size, written, disk>>

\* raw_fd_ostream with F_None: creates the file, or empties the one that is there.
OpenFile(p) ==
  /\ pc[p] = "notifyObjectCompiled"
  /\ disk' = Content(Module(p).id, << >>)
  /\ written' = [written EXCEPT ![p] = 0]
  /\ pc' = [pc EXCEPT ![p] = "write"]
  /\ UNCHANGED <<overlap, command, engine, size>>

\* Mutant: the next chunk goes to the end of the file, wherever that is by now.
AppendChunk(file, k, program) == Append(file, program)

\* The k-th chunk goes to its place; a gap before it reads as zeros.
WriteChunk(file, k, program) ==
  [i \in 1..(IF Len(file) < k THEN k ELSE Len(file)) |->
     IF i = k THEN program ELSE IF i <= Len(file) THEN file[i] ELSE <<"zeros">>]

Write(p) ==
  LET m == Module(p)
  IN  /\ pc[p] = "write" /\ written[p] < Chunks
      /\ disk' = Content(m.id, WriteChunk(disk[m.id], written[p] + 1, m.program))
      /\ written' = [written EXCEPT ![p] = @ + 1]
      /\ UNCHANGED <<overlap, command, engine, size, pc>>

\* The file is closed; what is loaded is the object in memory.
Close(p) ==
  /\ pc[p] = "write" /\ written[p] = Chunks
  /\ Load(p, Whole(Module(p).program))
  /\ UNCHANGED <<overlap, command, size, written, disk>>

Kill(p) ==
  /\ pc[p] \notin {"idle"} \union Over
  /\ pc' = [pc EXCEPT ![p] = "killed"]
  /\ UNCHANGED <<local, disk>>

Next ==
  \E p \in Run :
    \/ Start(p) \/ getObject(p) \/ CopyBuffer(p) \/ emitObject(p)
    \/ OpenFile(p) \/ Write(p) \/ Close(p) \/ Kill(p)

Spec == Init /\ [][Next]_vars

-----------------------------------------------------------------------------
Program == {<<"names", r, v>> : r \in Regex, v \in Invert} \union
           {<<"search", r, c, v>> : r \in Regex, c \in BOOLEAN, v \in Invert}
Chunk == Program \union {<<"zeros">>}

\* Every variable keeps its type; files have names of search modules, and grow to
\* the size of an object and no further.
TypeOK ==
  /\ overlap \in BOOLEAN
  /\ command \in [Run -> Command]
  /\ pc \in [Run -> {"idle", "getObject", "copy", "compile", "notifyObjectCompiled", "write"}
                      \union Over]
  /\ \A p \in Run : Len(engine[p]) <= Len(Modules(command[p])) /\ engine[p] \in Seq(Seq(Chunk))
  /\ size \in [Run -> 0..Chunks]
  /\ written \in [Run -> 0..Chunks]
  /\ \A id \in DOMAIN disk :
       id[1] = "grepcode:" /\ disk[id] \in Seq(Chunk) /\ Len(disk[id]) <= Chunks

Killed == {p \in Run : pc[p] = "killed"}

\* As long as runs follow one another and none is killed, a run executes, for each
\* of its modules, the program it was asked for: the one compiled from its own
\* regular expressions and its own options, whoever compiled it.
RunsItsProgram ==
  ~overlap /\ Killed = {} =>
    \A p \in Run : pc[p] = "running" =>
      engine[p] = [k \in 1..Len(Modules(command[p])) |-> Whole(Modules(command[p])[k].program)]

\* A run never loads code of another program, in whole or in part, even when it
\* reads a file that others are emptying and writing, or left behind half written.
NoForeignCode ==
  \A p \in Run : \A k \in 1..Len(engine[p]) : \A i \in 1..Len(engine[p][k]) :
    engine[p][k][i] \in {Modules(command[p])[k].program, <<"zeros">>}

\* However the writers of an object overlapped, once they are all done the file
\* holds the whole object, unless one of them was killed.
CacheSettles ==
  Killed = {} /\ (\A p \in Run : pc[p] # "write") =>
    \A id \in DOMAIN disk : \E prog \in Program : disk[id] = Whole(prog)
=============================================================================
