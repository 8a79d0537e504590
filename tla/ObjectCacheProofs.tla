-------------------------- MODULE ObjectCacheProofs --------------------------
(***************************************************************************)
(* Theorems about ObjectCache, for any number of runs that start, overlap, *)
(* load, save and are killed in any order, any expressions and objects of  *)
(* any size. The last three assume that all runs agree about -v, which the *)
(* name of an object leaves out.                                           *)
(***************************************************************************)
EXTENDS ObjectCache, SequenceTheorems, TLAPS

\* All runs give -v, or none does.
SameInvert == \A v, w \in Invert : v = w

Saving == {"notifyObjectCompiled", "write"}
Active == {"getObject", "copy", "compile"} \union Saving
Zeros == <<"zeros">>

-----------------------------------------------------------------------------
(* The inductive invariant.                                                *)

\* A run that is not done has a module left to load, and one that is has none.
LoadInv ==
  /\ engine \in [Run -> Seq(Seq(Chunk))]
  /\ \A p \in Run :
       /\ pc[p] \in {"idle"} \union Active => Len(engine[p]) < Len(Modules(command[p]))
       /\ pc[p] = "running" => Len(engine[p]) = Len(Modules(command[p]))

\* What a run reads or saves has a file, and the file it has opened is there.
FileInv ==
  \A p \in Run :
    /\ pc[p] \in {"copy"} \union Saving => HasFile(Module(p))
    /\ pc[p] \in {"copy", "write"} => Module(p).id \in DOMAIN disk

\* A file holds the code of the search that it is named after, with gaps.
DiskInv ==
  \A id \in DOMAIN disk : \E c \in Command :
    /\ id = SearchModule(c).id
    /\ \A i \in 1..Len(disk[id]) : disk[id][i] \in {SearchModule(c).program, Zeros}

\* A chunk that is missing from a file is still to be written by a run that has it
\* open, unless a run was killed.
WriteInv ==
  Killed = {} =>
    \A id \in DOMAIN disk : \A i \in 1..Chunks :
      \/ i <= Len(disk[id]) /\ disk[id][i] # Zeros
      \/ \E p \in Run : pc[p] = "write" /\ Module(p).id = id /\ written[p] < i

\* Runs that follow one another find whole objects, and load what they asked for.
SerialInv ==
  ~overlap /\ Killed = {} =>
    /\ \A p, q \in Run : pc[p] \in Active /\ pc[q] \in Active => p = q
    /\ \A p \in Run :
         /\ pc[p] = "copy" => size[p] = Chunks
         /\ \A k \in 1..Len(engine[p]) : engine[p][k] = Whole(Modules(command[p])[k].program)

TypeInv == TypeOK /\ LoadInv /\ FileInv
IndInv == TypeInv /\ DiskInv /\ WriteInv /\ NoForeignCode /\ SerialInv

-----------------------------------------------------------------------------
(* Modules.                                                                *)

\* Two sequences of one element in a row.
LEMMA PairOfSequences ==
  ASSUME NEW a, NEW b
  PROVE  /\ Len(<<a>> \o <<b>>) = 2
         /\ (<<a>> \o <<b>>)[1] = a
         /\ (<<a>> \o <<b>>)[2] = b
<1>1. <<a>> \in Seq({a, b}) /\ <<b>> \in Seq({a, b})
  OBVIOUS
<1>2. QED
  BY <1>1, ConcatProperties

\* A run has one or two modules; the one with a file is that of the search.
LEMMA ModulesOfCommand ==
  ASSUME NEW c \in Command
  PROVE  /\ Len(Modules(c)) \in 1..2
         /\ \A k \in 1..Len(Modules(c)) :
              /\ Modules(c)[k] \in {NameModule(c), SearchModule(c)}
              /\ Modules(c)[k].program \in Chunk
              /\ HasFile(Modules(c)[k]) => Modules(c)[k] = SearchModule(c)
<1>1. /\ NameModule(c).program \in Chunk
      /\ SearchModule(c).program \in Chunk
      /\ ~HasFile(NameModule(c))
  BY DEF Command, NameModule, SearchModule, Chunk, Program, HasFile
<1>2. CASE c.res \in Named
  <2>1. /\ Len(Modules(c)) = 2
        /\ Modules(c)[1] = NameModule(c)
        /\ Modules(c)[2] = SearchModule(c)
    BY <1>2, PairOfSequences DEF Modules
  <2>2. QED
    BY <1>1, <2>1
<1>3. CASE c.res \notin Named
  <2>1. Modules(c) = <<SearchModule(c)>>
    <3>1. Modules(c) = << >> \o <<SearchModule(c)>>
      BY <1>3 DEF Modules
    <3>2. <<SearchModule(c)>> \in Seq({SearchModule(c)})
      OBVIOUS
    <3>3. QED
      BY <3>1, <3>2, ConcatEmptySeq
  <2>2. QED
    BY <1>1, <2>1
<1>4. QED
  BY <1>2, <1>3

\* The module that a run is at.
LEMMA CurrentModule ==
  ASSUME TypeOK, LoadInv, NEW p \in Run, pc[p] \in Active
  PROVE  /\ command[p] \in Command
         /\ Len(engine[p]) + 1 \in 1..Len(Modules(command[p]))
         /\ Module(p).program \in Chunk
         /\ HasFile(Module(p)) => Module(p) = SearchModule(command[p])
<1>1. command[p] \in Command /\ Len(engine[p]) \in Nat
  BY DEF TypeOK, LoadInv
<1>2. Len(engine[p]) + 1 \in 1..Len(Modules(command[p]))
  BY <1>1, ModulesOfCommand DEF LoadInv
<1>3. QED
  BY <1>1, <1>2, ModulesOfCommand DEF Module

\* The name of a search tells its program, as all agree about -v.
LEMMA NameTellsProgram ==
  ASSUME SameInvert, NEW c \in Command, NEW d \in Command,
         SearchModule(c).id = SearchModule(d).id
  PROVE  SearchModule(c) = SearchModule(d)
<1>1. c.res = d.res /\ c.caseless = d.caseless
  BY DEF SearchModule
<1>2. c.invert = d.invert
  BY DEF SameInvert, Command
<1>3. QED
  BY <1>1, <1>2 DEF SearchModule

\* No program is a chunk of zeros.
LEMMA ProgramsAreNotZeros ==
  ASSUME NEW prog \in Program
  PROVE  prog # Zeros
BY DEF Program, Zeros

\* An object in memory.
LEMMA WholeType ==
  ASSUME NEW prog \in Chunk
  PROVE  Whole(prog) \in Seq(Chunk) /\ Len(Whole(prog)) = Chunks
BY CacheAssumption DEF Whole

\* What writing a chunk makes of a file.
LEMMA WriteChunkType ==
  ASSUME NEW file \in Seq(Chunk), Len(file) <= Chunks,
         NEW k \in 1..Chunks, NEW prog \in Chunk
  PROVE  LET new == WriteChunk(file, k, prog)
         IN  /\ new \in Seq(Chunk)
             /\ Len(new) \in Nat /\ Len(new) <= Chunks
             /\ Len(file) <= Len(new) /\ k <= Len(new)
             /\ \A i \in 1..Len(new) :
                  new[i] = IF i = k THEN prog ELSE IF i <= Len(file) THEN file[i] ELSE Zeros
<1>1. Zeros \in Chunk
  BY DEF Zeros, Chunk
<1> DEFINE n == IF Len(file) < k THEN k ELSE Len(file)
           new == WriteChunk(file, k, prog)
<1>2. n \in Nat /\ n <= Chunks /\ Len(file) <= n /\ k <= n
  BY CacheAssumption
<1>3. new = [i \in 1..n |-> IF i = k THEN prog ELSE IF i <= Len(file) THEN file[i] ELSE Zeros]
  BY DEF WriteChunk, Zeros
<1> HIDE DEF n, new
<1>4. \A i \in 1..n : (IF i = k THEN prog ELSE IF i <= Len(file) THEN file[i] ELSE Zeros) \in Chunk
  BY <1>1, <1>2
<1>5. new \in Seq(Chunk) /\ Len(new) = n
  BY <1>2, <1>3, <1>4
<1>6. QED
  BY <1>2, <1>3, <1>5 DEF new

\* What is loaded from a file.
LEMMA CopyType ==
  ASSUME NEW file \in Seq(Chunk), NEW n \in Nat
  PROVE  LET object == [i \in 1..n |-> IF i <= Len(file) THEN file[i] ELSE <<"zeros">>]
         IN  object \in Seq(Chunk) /\ Len(object) = n
<1>1. <<"zeros">> \in Chunk
  BY DEF Chunk
<1>2. \A i \in 1..n : (IF i <= Len(file) THEN file[i] ELSE <<"zeros">>) \in Chunk
  BY <1>1
<1>3. QED
  BY <1>2

\* Only the named file changes.
LEMMA ContentOfDisk ==
  ASSUME NEW id, NEW f
  PROVE  /\ DOMAIN Content(id, f) = DOMAIN disk \union {id}
         /\ Content(id, f)[id] = f
         /\ \A i \in DOMAIN disk : i # id => Content(id, f)[i] = disk[i]
BY DEF Content

-----------------------------------------------------------------------------
(* Types.                                                                  *)

LEMMA InitTypeInv == Init => TypeInv
<1> SUFFICES ASSUME Init PROVE TypeInv
  OBVIOUS
<1>1. \A p \in Run : Len(Modules(command[p])) \in 1..2
  BY ModulesOfCommand DEF Init
<1>2. \A p \in Run : engine[p] \in Seq(Seq(Chunk)) /\ Len(engine[p]) = 0
  BY DEF Init
<1>3. TypeOK
  BY <1>1, <1>2, CacheAssumption DEF Init, TypeOK, Over
<1>4. LoadInv
  BY <1>1, <1>2 DEF Init, LoadInv, Active, Saving
<1>5. FileInv
  BY DEF Init, FileInv, Saving
<1>6. QED
  BY <1>3, <1>4, <1>5 DEF TypeInv

\* Loading an object brings a run to its next module, or to the end.
LEMMA LoadKeepsTypes ==
  ASSUME TypeInv, NEW p \in Run, pc[p] \in Active,
         NEW object \in Seq(Chunk), Load(p, object), UNCHANGED <<command, disk>>
  PROVE  /\ pc' \in [Run -> {"idle", "getObject", "copy", "compile",
                             "notifyObjectCompiled", "write"} \union Over]
         /\ pc'[p] \in {"running", "getObject"}
         /\ \A q \in Run : q # p => pc'[q] = pc[q] /\ engine'[q] = engine[q]
         /\ Len(engine[p]) \in Nat
         /\ Len(engine'[p]) = Len(engine[p]) + 1
         /\ engine'[p][Len(engine[p]) + 1] = object
         /\ \A k \in 1..Len(engine[p]) : engine'[p][k] = engine[p][k]
         /\ \A q \in Run : Len(engine'[q]) <= Len(Modules(command[q]))
                           /\ engine'[q] \in Seq(Seq(Chunk))
         /\ LoadInv' /\ FileInv'
<1>1. engine \in [Run -> Seq(Seq(Chunk))] /\ pc \in [Run -> {"idle", "getObject", "copy",
         "compile", "notifyObjectCompiled", "write"} \union Over] /\ command \in [Run -> Command]
  BY DEF TypeInv, TypeOK, LoadInv
<1>2. Len(engine[p]) + 1 \in 1..Len(Modules(command[p])) /\ Len(Modules(command[p])) \in 1..2
  BY <1>1, CurrentModule, ModulesOfCommand DEF TypeInv
<1>3. engine[p] \in Seq(Seq(Chunk)) /\ engine'[p] = Append(engine[p], object)
  BY <1>1 DEF Load
<1>4. /\ engine'[p] \in Seq(Seq(Chunk))
      /\ Len(engine[p]) \in Nat
      /\ Len(engine'[p]) = Len(engine[p]) + 1
      /\ engine'[p][Len(engine[p]) + 1] = object
      /\ \A k \in 1..Len(engine[p]) : engine'[p][k] = engine[p][k]
  BY <1>3
<1>5. \A q \in Run : q # p => pc'[q] = pc[q] /\ engine'[q] = engine[q]
  BY <1>1 DEF Load
<1>6. /\ pc'[p] = IF Len(engine[p]) + 1 = Len(Modules(command[p])) THEN "running" ELSE "getObject"
      /\ pc' \in [Run -> {"idle", "getObject", "copy", "compile",
                          "notifyObjectCompiled", "write"} \union Over]
  BY <1>1 DEF Load, Over
<1>7. engine' \in [Run -> Seq(Seq(Chunk))]
  BY <1>1, <1>3, <1>4 DEF Load
<1>8. \A q \in Run : Len(engine'[q]) <= Len(Modules(command[q])) /\ engine'[q] \in Seq(Seq(Chunk))
  <2>1. ASSUME NEW q \in Run PROVE Len(engine'[q]) <= Len(Modules(command[q]))
    <3>1. CASE q = p
      BY <3>1, <1>2, <1>4
    <3>2. CASE q # p
      BY <3>2, <1>5 DEF TypeInv, TypeOK
    <3>3. QED
      BY <3>1, <3>2
  <2>2. QED
    BY <1>7, <2>1
<1>9. LoadInv'
  <2>1. \A q \in Run : Modules(command'[q]) = Modules(command[q])
    OBVIOUS
  <2>2. ASSUME NEW q \in Run
        PROVE  /\ pc'[q] \in {"idle"} \union Active => Len(engine'[q]) < Len(Modules(command[q]))
               /\ pc'[q] = "running" => Len(engine'[q]) = Len(Modules(command[q]))
    <3>1. CASE q = p
      BY <3>1, <1>2, <1>4, <1>6 DEF Active, Saving
    <3>2. CASE q # p
      BY <3>2, <1>5 DEF TypeInv, LoadInv
    <3>3. QED
      BY <3>1, <3>2
  <2>3. QED
    BY <1>7, <2>1, <2>2 DEF LoadInv
<1>10. FileInv'
  <2>1. ASSUME NEW q \in Run
        PROVE  /\ pc'[q] \in {"copy"} \union Saving => HasFile(Module(q)')
               /\ pc'[q] \in {"copy", "write"} => Module(q)'.id \in DOMAIN disk'
    <3>1. CASE q = p
      BY <3>1, <1>6 DEF Saving
    <3>2. CASE q # p
      <4>1. Module(q)' = Module(q) /\ pc'[q] = pc[q]
        BY <3>2, <1>5 DEF Module
      <4>2. QED
        BY <4>1 DEF TypeInv, FileInv
    <3>3. QED
      BY <3>1, <3>2
  <2>2. QED
    BY <2>1 DEF FileInv, HasFile
<1>11. QED
  BY <1>4, <1>5, <1>6, <1>8, <1>9, <1>10

\* Each step keeps the types.
LEMMA NextTypeInv == TypeInv /\ [Next]_vars => TypeInv'
<1> SUFFICES ASSUME TypeInv, [Next]_vars PROVE TypeInv'
  OBVIOUS
<1> USE DEF vars, local
<1>1. /\ TypeOK /\ LoadInv /\ FileInv
      /\ command \in [Run -> Command] /\ engine \in [Run -> Seq(Seq(Chunk))]
      /\ pc \in [Run -> {"idle", "getObject", "copy", "compile",
                         "notifyObjectCompiled", "write"} \union Over]
  BY DEF TypeInv, TypeOK, LoadInv
<1>2. ASSUME UNCHANGED <<command, engine, disk>>,
             NEW p \in Run,
             NEW state \in {"getObject", "copy", "compile",
                           "notifyObjectCompiled", "write", "killed"},
             pc' = [pc EXCEPT ![p] = state],
             state # "killed" => Len(engine[p]) < Len(Modules(command[p])),
             state \in {"copy"} \union Saving => HasFile(Module(p)),
             state \in {"copy", "write"} => Module(p).id \in DOMAIN disk
      PROVE  /\ pc' \in [Run -> {"idle", "getObject", "copy", "compile",
                                 "notifyObjectCompiled", "write"} \union Over]
             /\ LoadInv' /\ FileInv'
  <2>1. \A q \in Run : /\ pc'[q] = (IF q = p THEN state ELSE pc[q])
                        /\ Module(q)' = Module(q)
    BY <1>1, <1>2 DEF Module
  <2>2. LoadInv'
    BY <1>1, <1>2, <2>1 DEF LoadInv, Active, Saving
  <2>3. FileInv'
    BY <1>1, <1>2, <2>1 DEF FileInv, HasFile
  <2>4. QED
    BY <1>1, <1>2, <2>2, <2>3 DEF Over
<1>3. ASSUME NEW p \in Run, Start(p)
      PROVE  TypeInv'
  <2>1. /\ pc[p] = "idle" /\ pc' = [pc EXCEPT ![p] = "getObject"]
        /\ UNCHANGED <<overlap, command, engine, size, written, disk>>
    BY <1>3 DEF Start
  <2>2. Len(engine[p]) < Len(Modules(command[p]))
    BY <1>1, <2>1 DEF LoadInv
  <2>3. /\ pc' \in [Run -> {"idle", "getObject", "copy", "compile",
                            "notifyObjectCompiled", "write"} \union Over]
        /\ LoadInv' /\ FileInv'
    BY <1>2, <2>1, <2>2 DEF Saving
  <2>4. QED
    BY <1>1, <2>1, <2>3 DEF TypeInv, TypeOK
<1>4. ASSUME NEW p \in Run, getObject(p)
      PROVE  TypeInv'
  <2>1. pc[p] = "getObject" /\ Len(engine[p]) < Len(Modules(command[p]))
    BY <1>1, <1>4 DEF getObject, LoadInv, Active
  <2>2. CASE HasFile(Module(p)) /\ Exists(Module(p).id)
    <3>1. /\ pc' = [pc EXCEPT ![p] = "copy"]
          /\ Module(p).id \in DOMAIN disk
          /\ size' = [size EXCEPT ![p] = Len(disk[Module(p).id])]
      BY <1>4, <2>2 DEF getObject, Exists
    <3>2. /\ pc' \in [Run -> {"idle", "getObject", "copy", "compile",
                              "notifyObjectCompiled", "write"} \union Over]
          /\ LoadInv' /\ FileInv'
      BY <1>2, <1>4, <2>1, <2>2, <3>1 DEF getObject
    <3>3. size' \in [Run -> 0..Chunks]
      BY <1>1, <3>1 DEF TypeOK
    <3>4. QED
      BY <1>1, <1>4, <3>2, <3>3 DEF getObject, TypeInv, TypeOK
  <2>3. CASE ~(HasFile(Module(p)) /\ Exists(Module(p).id))
    <3>1. pc' = [pc EXCEPT ![p] = "compile"] /\ UNCHANGED size
      BY <1>4, <2>3 DEF getObject
    <3>2. /\ pc' \in [Run -> {"idle", "getObject", "copy", "compile",
                              "notifyObjectCompiled", "write"} \union Over]
          /\ LoadInv' /\ FileInv'
      BY <1>2, <1>4, <2>1, <3>1 DEF getObject, Saving
    <3>3. QED
      BY <1>1, <1>4, <3>1, <3>2 DEF getObject, TypeInv, TypeOK
  <2>4. QED
    BY <2>2, <2>3
<1>5. ASSUME NEW p \in Run, NEW object \in Seq(Chunk), pc[p] \in Active,
             Load(p, object), UNCHANGED <<overlap, command, size, written, disk>>
      PROVE  TypeInv'
  <2>1. /\ pc' \in [Run -> {"idle", "getObject", "copy", "compile",
                            "notifyObjectCompiled", "write"} \union Over]
        /\ \A q \in Run : Len(engine'[q]) <= Len(Modules(command[q]))
                          /\ engine'[q] \in Seq(Seq(Chunk))
        /\ LoadInv' /\ FileInv'
    BY <1>5, LoadKeepsTypes
  <2>2. \A q \in Run : Modules(command'[q]) = Modules(command[q])
    BY <1>5
  <2>3. QED
    BY <1>1, <1>5, <2>1, <2>2 DEF TypeInv, TypeOK
<1>6. ASSUME NEW p \in Run, CopyBuffer(p)
      PROVE  TypeInv'
  <2>1. pc[p] = "copy" /\ size[p] \in Nat /\ disk[Module(p).id] \in Seq(Chunk)
    BY <1>1, <1>6, CacheAssumption DEF CopyBuffer, FileInv, TypeOK
  <2>2. QED
    BY <1>5, <1>6, <2>1, CopyType DEF CopyBuffer, Active
<1>7. ASSUME NEW p \in Run, emitObject(p)
      PROVE  TypeInv'
  <2>1. pc[p] = "compile" /\ Len(engine[p]) < Len(Modules(command[p]))
    BY <1>1, <1>7 DEF emitObject, LoadInv, Active
  <2>2. CASE HasFile(Module(p))
    <3>1. pc' = [pc EXCEPT ![p] = "notifyObjectCompiled"] /\ UNCHANGED engine
      BY <1>7, <2>2 DEF emitObject
    <3>2. /\ pc' \in [Run -> {"idle", "getObject", "copy", "compile",
                              "notifyObjectCompiled", "write"} \union Over]
          /\ LoadInv' /\ FileInv'
      BY <1>2, <1>7, <2>1, <2>2, <3>1 DEF emitObject, Saving
    <3>3. QED
      BY <1>1, <1>7, <3>1, <3>2 DEF emitObject, TypeInv, TypeOK
  <2>3. CASE ~HasFile(Module(p))
    <3>1. Whole(Module(p).program) \in Seq(Chunk)
      BY <1>1, <2>1, CurrentModule, WholeType DEF Active
    <3>2. QED
      BY <1>5, <1>7, <2>1, <2>3, <3>1 DEF emitObject, Active
  <2>4. QED
    BY <2>2, <2>3
<1>8. ASSUME NEW p \in Run, NEW f \in Seq(Chunk), Len(f) <= Chunks,
             HasFile(Module(p)), disk' = Content(Module(p).id, f)
      PROVE  /\ \A id \in DOMAIN disk' : /\ id[1] = "grepcode:" /\ disk'[id] \in Seq(Chunk)
                                        /\ Len(disk'[id]) <= Chunks
             /\ DOMAIN disk \union {Module(p).id} = DOMAIN disk'
  <2>1. /\ DOMAIN disk \union {Module(p).id} = DOMAIN disk'
        /\ disk'[Module(p).id] = f
        /\ \A i \in DOMAIN disk : i # Module(p).id => disk'[i] = disk[i]
    BY <1>8 DEF Content
  <2>2. ASSUME NEW id \in DOMAIN disk'
        PROVE  id[1] = "grepcode:" /\ disk'[id] \in Seq(Chunk) /\ Len(disk'[id]) <= Chunks
    <3>1. CASE id = Module(p).id
      BY <1>8, <2>1, <3>1 DEF HasFile
    <3>2. CASE id # Module(p).id
      BY <1>1, <2>1, <2>2, <3>2 DEF TypeOK
    <3>3. QED
      BY <3>1, <3>2
  <2>3. QED
    BY <2>1, <2>2
<1>9. ASSUME NEW p \in Run, OpenFile(p)
      PROVE  TypeInv'
  <2>1. /\ pc[p] = "notifyObjectCompiled" /\ HasFile(Module(p))
        /\ Len(engine[p]) < Len(Modules(command[p]))
        /\ pc' = [pc EXCEPT ![p] = "write"]
        /\ disk' = Content(Module(p).id, << >>)
        /\ UNCHANGED <<overlap, command, engine, size>>
    BY <1>1, <1>9 DEF OpenFile, LoadInv, FileInv, Active, Saving
  <2>2. << >> \in Seq(Chunk) /\ Len(<< >>) <= Chunks
    BY CacheAssumption
  <2>3. /\ \A id \in DOMAIN disk' : /\ id[1] = "grepcode:" /\ disk'[id] \in Seq(Chunk)
                                   /\ Len(disk'[id]) <= Chunks
        /\ DOMAIN disk \union {Module(p).id} = DOMAIN disk'
    BY <1>8, <2>1, <2>2
  <2>4. \A q \in Run : pc'[q] = (IF q = p THEN "write" ELSE pc[q]) /\ Module(q)' = Module(q)
    BY <1>1, <2>1 DEF Module
  <2>5. LoadInv' /\ FileInv'
    <3>1. LoadInv'
      BY <1>1, <2>1, <2>4 DEF LoadInv
    <3>2. FileInv'
      BY <1>1, <2>1, <2>3, <2>4 DEF FileInv, HasFile
    <3>3. QED
      BY <3>1, <3>2
  <2>6. written' \in [Run -> 0..Chunks]
    BY <1>1, <1>9, CacheAssumption DEF OpenFile, TypeOK
  <2>7. pc' \in [Run -> {"idle", "getObject", "copy", "compile",
                        "notifyObjectCompiled", "write"} \union Over]
    BY <1>1, <2>1
  <2>8. QED
    BY <1>1, <2>1, <2>3, <2>5, <2>6, <2>7 DEF TypeInv, TypeOK
<1>10. ASSUME NEW p \in Run, Write(p)
       PROVE  TypeInv'
  <2>1. /\ pc[p] = "write" /\ HasFile(Module(p)) /\ Module(p).id \in DOMAIN disk
        /\ written[p] \in Nat /\ written[p] + 1 \in 1..Chunks
        /\ written' = [written EXCEPT ![p] = @ + 1]
        /\ UNCHANGED <<overlap, command, engine, size, pc>>
    BY <1>1, <1>10, CacheAssumption DEF Write, FileInv, Saving, TypeOK
  <2>2. Module(p).program \in Chunk
    BY <1>1, <2>1, CurrentModule DEF Active, Saving
  <2> DEFINE f == WriteChunk(disk[Module(p).id], written[p] + 1, Module(p).program)
  <2>3. disk[Module(p).id] \in Seq(Chunk) /\ Len(disk[Module(p).id]) <= Chunks
    BY <1>1, <2>1 DEF TypeOK
  <2>4. f \in Seq(Chunk) /\ Len(f) <= Chunks
    BY <2>1, <2>2, <2>3, WriteChunkType
  <2>5. disk' = Content(Module(p).id, f)
    BY <1>10 DEF Write
  <2> HIDE DEF f
  <2>6. /\ \A id \in DOMAIN disk' : /\ id[1] = "grepcode:" /\ disk'[id] \in Seq(Chunk)
                                   /\ Len(disk'[id]) <= Chunks
        /\ DOMAIN disk \union {Module(p).id} = DOMAIN disk'
    BY <1>8, <2>1, <2>4, <2>5
  <2>7. LoadInv' /\ FileInv'
    <3>1. \A q \in Run : Module(q)' = Module(q)
      BY <2>1 DEF Module
    <3>2. LoadInv'
      BY <1>1, <2>1 DEF LoadInv
    <3>3. FileInv'
      BY <1>1, <2>1, <2>6, <3>1 DEF FileInv, HasFile
    <3>4. QED
      BY <3>2, <3>3
  <2>8. written' \in [Run -> 0..Chunks]
    BY <1>1, <2>1 DEF TypeOK
  <2>9. QED
    BY <1>1, <2>1, <2>6, <2>7, <2>8 DEF TypeInv, TypeOK
<1>11. ASSUME NEW p \in Run, Close(p)
       PROVE  TypeInv'
  <2>1. pc[p] = "write"
    BY <1>11 DEF Close
  <2>2. Whole(Module(p).program) \in Seq(Chunk)
    BY <1>1, <2>1, CurrentModule, WholeType DEF Active, Saving
  <2>3. QED
    BY <1>5, <1>11, <2>1, <2>2 DEF Close, Active, Saving
<1>12. ASSUME NEW p \in Run, Kill(p)
       PROVE  TypeInv'
  <2>1. /\ pc' = [pc EXCEPT ![p] = "killed"]
        /\ UNCHANGED <<overlap, command, engine, size, written, disk>>
    BY <1>12 DEF Kill
  <2>2. /\ pc' \in [Run -> {"idle", "getObject", "copy", "compile",
                            "notifyObjectCompiled", "write"} \union Over]
        /\ LoadInv' /\ FileInv'
    BY <1>2, <2>1 DEF Over, Active, Saving
  <2>3. QED
    BY <1>1, <2>1, <2>2 DEF TypeInv, TypeOK
<1>13. CASE UNCHANGED vars
  <2>1. UNCHANGED <<overlap, command, pc, engine, size, written, disk>>
    BY <1>13
  <2>2. TypeOK' /\ LoadInv' /\ FileInv'
    BY <1>1, <2>1 DEF TypeOK, LoadInv, FileInv, Module, HasFile
  <2>3. QED
    BY <2>2 DEF TypeInv
<1>14. QED
  BY <1>3, <1>4, <1>6, <1>7, <1>9, <1>10, <1>11, <1>12, <1>13 DEF Next

\* A step is of one run; nothing of the others changes, and none comes back to life.
Step(p) ==
  \/ Start(p) \/ getObject(p) \/ CopyBuffer(p) \/ emitObject(p)
  \/ OpenFile(p) \/ Write(p) \/ Close(p) \/ Kill(p)

LEMMA StepOfRun ==
  ASSUME TypeInv, NEW p \in Run, Step(p)
  PROVE  /\ UNCHANGED <<overlap, command>>
         /\ pc[p] \notin Over
         /\ \A q \in Run : q # p =>
              /\ pc'[q] = pc[q]
              /\ engine'[q] = engine[q]
              /\ size'[q] = size[q]
              /\ written'[q] = written[q]
              /\ Module(q)' = Module(q)
         /\ Killed' = {} => Killed = {}
<1>1. /\ pc \in [Run -> {"idle", "getObject", "copy", "compile",
                         "notifyObjectCompiled", "write"} \union Over]
      /\ engine \in [Run -> Seq(Seq(Chunk))]
      /\ size \in [Run -> 0..Chunks]
      /\ written \in [Run -> 0..Chunks]
  BY DEF TypeInv, TypeOK, LoadInv
<1>2. /\ UNCHANGED <<overlap, command>>
      /\ pc[p] \notin Over
      /\ \A q \in Run : q # p => pc'[q] = pc[q]
  BY <1>1 DEF Step, Start, getObject, CopyBuffer, emitObject, OpenFile, Write, Close, Kill,
              Load, Over, local
<1>3. \A q \in Run : q # p => engine'[q] = engine[q]
  BY <1>1 DEF Step, Start, getObject, CopyBuffer, emitObject, OpenFile, Write, Close, Kill,
              Load, local
<1>4. \A q \in Run : q # p => size'[q] = size[q] /\ written'[q] = written[q]
  BY <1>1 DEF Step, Start, getObject, CopyBuffer, emitObject, OpenFile, Write, Close, Kill, local
<1>5. \A q \in Run : q # p => Module(q)' = Module(q)
  BY <1>2, <1>3 DEF Module
<1>6. Killed' = {} => Killed = {}
  BY <1>2 DEF Killed, Over
<1>7. QED
  BY <1>2, <1>3, <1>4, <1>5, <1>6

-----------------------------------------------------------------------------
(* The code in files.                                                      *)

LEMMA NextDiskInv ==
  ASSUME SameInvert, TypeInv, DiskInv, NEW p \in Run, Step(p)
  PROVE  DiskInv'
<1>1. TypeOK /\ LoadInv /\ FileInv
  BY DEF TypeInv
<1>2. CASE UNCHANGED disk
  BY <1>2 DEF DiskInv
<1>3. ASSUME NEW f \in Seq(Chunk), disk' = Content(Module(p).id, f),
             Module(p) = SearchModule(command[p]), command[p] \in Command,
             \A i \in 1..Len(f) : f[i] \in {Module(p).program, Zeros}
      PROVE  DiskInv'
  <2>1. /\ DOMAIN disk' = DOMAIN disk \union {Module(p).id}
        /\ disk'[Module(p).id] = f
        /\ \A id \in DOMAIN disk : id # Module(p).id => disk'[id] = disk[id]
    BY <1>3 DEF Content
  <2>2. ASSUME NEW id \in DOMAIN disk'
        PROVE  \E c \in Command :
                 /\ id = SearchModule(c).id
                 /\ \A i \in 1..Len(disk'[id]) : disk'[id][i] \in {SearchModule(c).program, Zeros}
    <3>1. CASE id = Module(p).id
      BY <1>3, <2>1, <3>1
    <3>2. CASE id # Module(p).id
      BY <2>1, <2>2, <3>2 DEF DiskInv
    <3>3. QED
      BY <3>1, <3>2
  <2>3. QED
    BY <2>2 DEF DiskInv
<1>4. CASE OpenFile(p)
  <2>1. pc[p] = "notifyObjectCompiled" /\ disk' = Content(Module(p).id, << >>)
    BY <1>4 DEF OpenFile
  <2>2. Module(p) = SearchModule(command[p]) /\ command[p] \in Command
    BY <1>1, <2>1, CurrentModule DEF FileInv, Active, Saving
  <2>3. << >> \in Seq(Chunk) /\ \A i \in 1..Len(<< >>) : << >>[i] \in {Module(p).program, Zeros}
    OBVIOUS
  <2>4. QED
    BY <1>3, <2>1, <2>2, <2>3
<1>5. CASE Write(p)
  <2> DEFINE file == disk[Module(p).id]
             k == written[p] + 1
             prog == Module(p).program
             f == WriteChunk(file, k, prog)
  <2>1. pc[p] = "write" /\ disk' = Content(Module(p).id, f) /\ k \in 1..Chunks
    BY <1>1, <1>5, CacheAssumption DEF Write, TypeOK
  <2>2. /\ Module(p) = SearchModule(command[p]) /\ command[p] \in Command
        /\ prog \in Chunk /\ Module(p).id \in DOMAIN disk
    BY <1>1, <2>1, CurrentModule DEF FileInv, Active, Saving
  <2>3. file \in Seq(Chunk) /\ Len(file) <= Chunks
    BY <1>1, <2>2 DEF TypeOK
  <2>4. PICK c \in Command :
          /\ Module(p).id = SearchModule(c).id
          /\ \A i \in 1..Len(file) : file[i] \in {SearchModule(c).program, Zeros}
    BY <2>2 DEF DiskInv
  <2>5. SearchModule(c) = Module(p)
    BY <2>2, <2>4, NameTellsProgram
  <2>6. \A i \in 1..Len(file) : file[i] \in {prog, Zeros}
    BY <2>4, <2>5
  <2> HIDE DEF file, k, prog
  <2>7. /\ f \in Seq(Chunk)
        /\ \A i \in 1..Len(f) :
             f[i] = IF i = k THEN prog ELSE IF i <= Len(file) THEN file[i] ELSE Zeros
    BY <2>1, <2>2, <2>3, WriteChunkType
  <2> HIDE DEF f
  <2>8. \A i \in 1..Len(f) : f[i] \in {prog, Zeros}
    BY <2>3, <2>6, <2>7
  <2>9. QED
    BY <1>3, <2>1, <2>2, <2>7, <2>8 DEF prog
<1>6. QED
  BY <1>2, <1>4, <1>5
     DEF Step, Start, getObject, CopyBuffer, emitObject, Close, Kill

\* Chunks that are missing, and who is going to write them.
LEMMA NextWriteInv ==
  ASSUME TypeInv, WriteInv, NEW p \in Run, Step(p)
  PROVE  WriteInv'
<1> SUFFICES ASSUME Killed' = {}, NEW id \in DOMAIN disk', NEW i \in 1..Chunks
             PROVE  \/ i <= Len(disk'[id]) /\ disk'[id][i] # Zeros
                    \/ \E q \in Run : pc'[q] = "write" /\ Module(q)'.id = id /\ written'[q] < i
  BY DEF WriteInv
<1>1. /\ TypeOK /\ LoadInv /\ FileInv
      /\ pc \in [Run -> {"idle", "getObject", "copy", "compile",
                         "notifyObjectCompiled", "write"} \union Over]
      /\ written \in [Run -> 0..Chunks]
      /\ Chunks \in Nat
  BY CacheAssumption DEF TypeInv, TypeOK
<1>2. /\ Killed = {}
      /\ \A q \in Run : q # p => /\ pc'[q] = pc[q]
                               /\ written'[q] = written[q]
                               /\ Module(q)' = Module(q)
  BY StepOfRun
<1>3. ASSUME id \in DOMAIN disk, disk'[id] = disk[id], pc[p] = "write" => written[p] = Chunks
      PROVE  \/ i <= Len(disk'[id]) /\ disk'[id][i] # Zeros
             \/ \E q \in Run : pc'[q] = "write" /\ Module(q)'.id = id /\ written'[q] < i
  <2>1. CASE i <= Len(disk[id]) /\ disk[id][i] # Zeros
    BY <1>3, <2>1
  <2>2. CASE ~(i <= Len(disk[id]) /\ disk[id][i] # Zeros)
    <3>1. PICK q \in Run : pc[q] = "write" /\ Module(q).id = id /\ written[q] < i
      BY <1>2, <1>3, <2>2 DEF WriteInv
    <3>2. q # p
      BY <1>1, <1>3, <3>1
    <3>3. QED
      BY <1>2, <3>1, <3>2
  <2>3. QED
    BY <2>1, <2>2
<1>4. CASE OpenFile(p)
  <2>1. /\ pc[p] = "notifyObjectCompiled" /\ disk' = Content(Module(p).id, << >>)
        /\ pc'[p] = "write" /\ written'[p] = 0 /\ UNCHANGED <<command, engine>>
    BY <1>1, <1>4 DEF OpenFile
  <2>2. CASE id = Module(p).id
    <3>1. Module(p)' = Module(p)
      BY <2>1 DEF Module
    <3>2. QED
      BY <2>1, <2>2, <3>1
  <2>3. CASE id # Module(p).id
    <3>1. id \in DOMAIN disk /\ disk'[id] = disk[id]
      BY <2>1, <2>3 DEF Content
    <3>2. QED
      BY <1>3, <2>1, <3>1
  <2>4. QED
    BY <2>2, <2>3
<1>5. CASE Write(p)
  <2> DEFINE file == disk[Module(p).id]
             k == written[p] + 1
             prog == Module(p).program
             f == WriteChunk(file, k, prog)
  <2>1. /\ pc[p] = "write" /\ disk' = Content(Module(p).id, f) /\ k \in 1..Chunks
        /\ pc'[p] = "write" /\ written'[p] = k /\ UNCHANGED <<command, engine>>
        /\ written[p] \in Nat
    BY <1>1, <1>5 DEF Write
  <2>2. /\ Module(p) = SearchModule(command[p]) /\ command[p] \in Command
        /\ prog \in Chunk /\ Module(p).id \in DOMAIN disk
    BY <1>1, <2>1, CurrentModule DEF FileInv, Active, Saving
  <2>3. file \in Seq(Chunk) /\ Len(file) <= Chunks
    BY <1>1, <2>2 DEF TypeOK
  <2>4. prog # Zeros
    BY <2>2 DEF SearchModule, Zeros
  <2>5. Module(p)' = Module(p)
    BY <2>1 DEF Module
  <2>6. CASE id # Module(p).id
    <3>1. id \in DOMAIN disk /\ disk'[id] = disk[id]
      BY <2>1, <2>6 DEF Content
    <3>2. CASE i <= Len(disk[id]) /\ disk[id][i] # Zeros
      BY <3>1, <3>2
    <3>3. CASE ~(i <= Len(disk[id]) /\ disk[id][i] # Zeros)
      <4>1. PICK q \in Run : pc[q] = "write" /\ Module(q).id = id /\ written[q] < i
        BY <1>2, <3>1, <3>3 DEF WriteInv
      <4>2. QED
        BY <1>2, <2>6, <4>1
    <3>4. QED
      BY <3>2, <3>3
  <2>7. CASE id = Module(p).id
    <3>1. disk'[id] = f
      BY <2>1, <2>7 DEF Content
    <3>2. \/ i <= Len(file) /\ file[i] # Zeros
          \/ \E q \in Run : pc[q] = "write" /\ Module(q).id = id /\ written[q] < i
      BY <1>2, <2>2, <2>7 DEF WriteInv
    <3> HIDE DEF file, k, prog
    <3>3. /\ f \in Seq(Chunk)
          /\ Len(f) \in Nat /\ Len(file) <= Len(f) /\ k <= Len(f)
          /\ \A j \in 1..Len(f) :
               f[j] = IF j = k THEN prog ELSE IF j <= Len(file) THEN file[j] ELSE Zeros
      <4>1. k \in 1..Chunks /\ prog \in Chunk
        BY <2>1, <2>2
      <4>2. f \in Seq(Chunk) /\ Len(f) \in Nat /\ Len(file) <= Len(f) /\ k <= Len(f)
        BY <2>3, <4>1, WriteChunkType
      <4>3. \A j \in 1..Len(f) :
              f[j] = IF j = k THEN prog ELSE IF j <= Len(file) THEN file[j] ELSE Zeros
        BY <2>3, <4>1, WriteChunkType
      <4>4. QED
        BY <4>2, <4>3
    <3> HIDE DEF f
    <3>4. CASE i = k
      BY <2>1, <2>4, <3>1, <3>3, <3>4
    <3>5. CASE i # k /\ i <= Len(file) /\ file[i] # Zeros
      <4>1. Len(file) \in Nat
        BY <2>3
      <4>2. i \in 1..Len(f)
        BY <3>3, <3>5, <4>1
      <4>3. QED
        BY <3>1, <3>3, <3>5, <4>2
    <3>6. CASE i # k /\ ~(i <= Len(file) /\ file[i] # Zeros)
      <4>1. PICK q \in Run : pc[q] = "write" /\ Module(q).id = id /\ written[q] < i
        BY <3>2, <3>6
      <4>2. CASE q = p
        <5>1. written'[p] < i
          BY <2>1, <3>6, <4>1, <4>2 DEF k
        <5>2. QED
          BY <2>1, <2>5, <2>7, <5>1
      <4>3. CASE q # p
        BY <1>2, <4>1, <4>3
      <4>4. QED
        BY <4>2, <4>3
    <3>7. QED
      BY <3>4, <3>5, <3>6
  <2>8. QED
    BY <2>6, <2>7
<1>6. CASE Close(p)
  BY <1>3, <1>6 DEF Close
<1>7. CASE Start(p) \/ getObject(p) \/ CopyBuffer(p) \/ emitObject(p)
  BY <1>3, <1>7 DEF Start, getObject, CopyBuffer, emitObject
<1>8. CASE Kill(p)
  BY <1>1, <1>8 DEF Kill, Killed
<1>9. QED
  BY <1>4, <1>5, <1>6, <1>7, <1>8 DEF Step

-----------------------------------------------------------------------------
(* The code in memory.                                                     *)

\* What a run loads is the next object of its engine, and what it had stays.
LEMMA LoadedObject ==
  ASSUME TypeInv, NEW p \in Run, pc[p] \in Active, NEW object \in Seq(Chunk),
         Load(p, object), UNCHANGED <<command, disk>>,
         NEW q \in Run, NEW k \in 1..Len(engine'[q])
  PROVE  \/ k \in 1..Len(engine[q]) /\ engine'[q][k] = engine[q][k]
         \/ q = p /\ engine'[q][k] = object /\ Modules(command[q])[k] = Module(p)
<1>1. /\ \A r \in Run : r # p => engine'[r] = engine[r]
      /\ Len(engine[p]) \in Nat
      /\ Len(engine'[p]) = Len(engine[p]) + 1
      /\ engine'[p][Len(engine[p]) + 1] = object
      /\ \A j \in 1..Len(engine[p]) : engine'[p][j] = engine[p][j]
  BY LoadKeepsTypes
<1>2. CASE q # p
  BY <1>1, <1>2
<1>3. CASE q = p /\ k = Len(engine[p]) + 1
  BY <1>1, <1>3 DEF Module
<1>4. CASE q = p /\ k # Len(engine[p]) + 1
  BY <1>1, <1>4
<1>5. QED
  BY <1>2, <1>3, <1>4

\* What is read from a file is code of the module, or zeros.
LEMMA FileOfModule ==
  ASSUME SameInvert, TypeInv, DiskInv, NEW p \in Run, pc[p] \in {"getObject", "copy"},
         HasFile(Module(p)), Module(p).id \in DOMAIN disk
  PROVE  /\ disk[Module(p).id] \in Seq(Chunk) /\ Len(disk[Module(p).id]) <= Chunks
         /\ \A i \in 1..Len(disk[Module(p).id]) :
              disk[Module(p).id][i] \in {Module(p).program, Zeros}
<1>1. TypeOK /\ LoadInv
  BY DEF TypeInv
<1>2. command[p] \in Command /\ Module(p) = SearchModule(command[p])
  BY <1>1, CurrentModule DEF Active
<1>3. PICK c \in Command :
        /\ Module(p).id = SearchModule(c).id
        /\ \A i \in 1..Len(disk[Module(p).id]) :
             disk[Module(p).id][i] \in {SearchModule(c).program, Zeros}
  BY DEF DiskInv
<1>4. SearchModule(c) = Module(p)
  BY <1>2, <1>3, NameTellsProgram
<1>5. QED
  BY <1>1, <1>3, <1>4 DEF TypeOK

LEMMA NextNoForeignCode ==
  ASSUME SameInvert, TypeInv, DiskInv, NoForeignCode, NEW p \in Run, Step(p)
  PROVE  NoForeignCode'
<1>1. TypeOK /\ LoadInv /\ FileInv /\ UNCHANGED command
  BY StepOfRun DEF TypeInv
<1>2. CASE UNCHANGED engine
  BY <1>1, <1>2 DEF NoForeignCode
<1>3. ASSUME pc[p] \in Active, NEW object \in Seq(Chunk), Load(p, object), UNCHANGED disk,
             \A i \in 1..Len(object) : object[i] \in {Module(p).program, <<"zeros">>}
      PROVE  NoForeignCode'
  <2>1. ASSUME NEW q \in Run, NEW k \in 1..Len(engine'[q]), NEW i \in 1..Len(engine'[q][k])
        PROVE  engine'[q][k][i] \in {Modules(command[q])[k].program, <<"zeros">>}
    <3>1. CASE k \in 1..Len(engine[q]) /\ engine'[q][k] = engine[q][k]
      BY <2>1, <3>1 DEF NoForeignCode
    <3>2. CASE q = p /\ engine'[q][k] = object /\ Modules(command[q])[k] = Module(p)
      BY <1>3, <2>1, <3>2
    <3>3. QED
      BY <1>1, <1>3, <3>1, <3>2, LoadedObject
  <2>2. QED
    BY <1>1, <2>1 DEF NoForeignCode
<1>4. ASSUME pc[p] \in Active
      PROVE  /\ Whole(Module(p).program) \in Seq(Chunk)
             /\ \A i \in 1..Len(Whole(Module(p).program)) :
                  Whole(Module(p).program)[i] \in {Module(p).program, <<"zeros">>}
  <2>1. Module(p).program \in Chunk
    BY <1>1, <1>4, CurrentModule
  <2>2. QED
    BY <2>1, WholeType DEF Whole
<1>5. CASE CopyBuffer(p)
  <2> DEFINE file == disk[Module(p).id]
             object == [i \in 1..size[p] |-> IF i <= Len(file) THEN file[i] ELSE <<"zeros">>]
  <2>1. /\ pc[p] = "copy" /\ Load(p, object) /\ UNCHANGED disk
        /\ HasFile(Module(p)) /\ Module(p).id \in DOMAIN disk
        /\ size[p] \in Nat
    BY <1>1, <1>5, CacheAssumption DEF CopyBuffer, FileInv, TypeOK
  <2>2. /\ file \in Seq(Chunk)
        /\ \A i \in 1..Len(file) : file[i] \in {Module(p).program, <<"zeros">>}
    BY <2>1, FileOfModule DEF Zeros
  <2>3. object \in Seq(Chunk) /\ Len(object) = size[p]
    BY <2>1, <2>2, CopyType
  <2>4. \A i \in 1..Len(object) : object[i] \in {Module(p).program, <<"zeros">>}
    <3>1. \A i \in 1..size[p] : object[i] = IF i <= Len(file) THEN file[i] ELSE <<"zeros">>
      OBVIOUS
    <3>2. Len(file) \in Nat
      BY <2>2
    <3> HIDE DEF object, file
    <3>3. QED
      BY <2>1, <2>2, <2>3, <3>1, <3>2
  <2> HIDE DEF object
  <2>5. QED
    BY <1>3, <2>1, <2>3, <2>4 DEF Active
<1>6. CASE emitObject(p) /\ ~HasFile(Module(p))
  BY <1>3, <1>4, <1>6 DEF emitObject, Active
<1>7. CASE Close(p)
  BY <1>3, <1>4, <1>7 DEF Close, Active, Saving
<1>8. CASE emitObject(p) /\ HasFile(Module(p))
  BY <1>2, <1>8 DEF emitObject
<1>9. CASE Start(p) \/ getObject(p) \/ OpenFile(p) \/ Write(p) \/ Kill(p)
  BY <1>2, <1>9 DEF Start, getObject, OpenFile, Write, Kill, local
<1>10. QED
  BY <1>5, <1>6, <1>7, <1>8, <1>9 DEF Step

\* With nobody writing, the file of a module is the whole object.
LEMMA QuietFile ==
  ASSUME SameInvert, TypeInv, DiskInv, WriteInv, Killed = {},
         \A q \in Run : pc[q] # "write",
         NEW p \in Run, pc[p] \in {"getObject", "copy"},
         HasFile(Module(p)), Module(p).id \in DOMAIN disk
  PROVE  /\ Len(disk[Module(p).id]) = Chunks
         /\ \A i \in 1..Chunks : disk[Module(p).id][i] = Module(p).program
<1>1. /\ disk[Module(p).id] \in Seq(Chunk) /\ Len(disk[Module(p).id]) <= Chunks
      /\ \A i \in 1..Len(disk[Module(p).id]) :
           disk[Module(p).id][i] \in {Module(p).program, Zeros}
  BY FileOfModule
<1>2. \A i \in 1..Chunks : i <= Len(disk[Module(p).id]) /\ disk[Module(p).id][i] # Zeros
  BY DEF WriteInv
<1>3. Len(disk[Module(p).id]) \in Nat /\ Chunks \in 1..Chunks
  BY <1>1, CacheAssumption
<1>4. QED
  BY <1>1, <1>2, <1>3, CacheAssumption

\* Runs one after another.
LEMMA NextSerialInv ==
  ASSUME SameInvert, TypeInv, DiskInv, WriteInv, SerialInv, NEW p \in Run, Step(p)
  PROVE  SerialInv'
<1> SUFFICES ASSUME ~overlap', Killed' = {}
             PROVE  /\ \A q, r \in Run : pc'[q] \in Active /\ pc'[r] \in Active => q = r
                    /\ \A q \in Run :
                         /\ pc'[q] = "copy" => size'[q] = Chunks
                         /\ \A k \in 1..Len(engine'[q]) :
                              engine'[q][k] = Whole(Modules(command[q])[k].program)
  BY StepOfRun DEF SerialInv, Whole
<1>1. /\ TypeOK /\ LoadInv /\ FileInv
      /\ pc \in [Run -> {"idle", "getObject", "copy", "compile",
                         "notifyObjectCompiled", "write"} \union Over]
      /\ size \in [Run -> 0..Chunks]
      /\ UNCHANGED <<overlap, command>>
      /\ Killed = {} /\ ~overlap
      /\ \A q \in Run : q # p => pc'[q] = pc[q] /\ size'[q] = size[q] /\ engine'[q] = engine[q]
  BY StepOfRun DEF TypeInv, TypeOK
<1>2. /\ \A q, r \in Run : pc[q] \in Active /\ pc[r] \in Active => q = r
      /\ \A q \in Run :
           /\ pc[q] = "copy" => size[q] = Chunks
           /\ \A k \in 1..Len(engine[q]) :
                engine[q][k] = Whole(Modules(command[q])[k].program)
  BY <1>1 DEF SerialInv
<1>3. pc[p] = "idle" \/ pc[p] \in Active
  BY <1>1, StepOfRun DEF Active, Saving, Over
<1>4. \A q, r \in Run : pc'[q] \in Active /\ pc'[r] \in Active => q = r
  <2>1. \A q \in Run : q # p => pc[q] \notin Active
    <3>1. CASE pc[p] = "idle"
      <4>1. Start(p)
        BY <3>1 DEF Step, getObject, CopyBuffer, emitObject, OpenFile, Write, Close, Kill
      <4>2. QED
        BY <1>1, <4>1 DEF Start, Active, Saving, Over
    <3>2. CASE pc[p] \in Active
      BY <1>2, <3>2
    <3>3. QED
      BY <1>3, <3>1, <3>2
  <2>2. QED
    BY <1>1, <2>1
<1>5. ASSUME pc[p] \in {"getObject", "copy"} PROVE \A q \in Run : pc[q] # "write"
  BY <1>2, <1>5 DEF Active, Saving
<1>6. ASSUME NEW q \in Run, pc'[q] = "copy" PROVE size'[q] = Chunks
  <2>1. CASE q # p
    BY <1>1, <1>2, <1>6, <2>1
  <2>2. CASE q = p /\ getObject(p)
    <3>1. /\ pc[p] = "getObject" /\ HasFile(Module(p)) /\ Module(p).id \in DOMAIN disk
          /\ size' = [size EXCEPT ![p] = Len(disk[Module(p).id])]
      BY <1>1, <1>6, <2>2 DEF getObject, Exists
    <3>2. Len(disk[Module(p).id]) = Chunks
      BY <1>1, <1>5, <3>1, QuietFile
    <3>3. QED
      BY <1>1, <2>2, <3>1, <3>2
  <2>3. CASE q = p /\ ~getObject(p)
    <3>1. pc'[p] # "copy"
      BY <1>1, <2>3 DEF Step, Start, CopyBuffer, emitObject, OpenFile, Write, Close, Kill, Load
    <3>2. QED
      BY <1>6, <2>3, <3>1
  <2>4. QED
    BY <2>1, <2>2, <2>3
<1>7. ASSUME NEW q \in Run, NEW k \in 1..Len(engine'[q])
      PROVE  engine'[q][k] = Whole(Modules(command[q])[k].program)
  <2>1. CASE UNCHANGED engine
    BY <1>2, <1>7, <2>1
  <2>2. ASSUME pc[p] \in Active, NEW object \in Seq(Chunk), Load(p, object), UNCHANGED disk,
               object = Whole(Module(p).program)
        PROVE  engine'[q][k] = Whole(Modules(command[q])[k].program)
    <3>1. \/ k \in 1..Len(engine[q]) /\ engine'[q][k] = engine[q][k]
          \/ q = p /\ engine'[q][k] = object /\ Modules(command[q])[k] = Module(p)
      BY <1>1, <1>7, <2>2, LoadedObject
    <3>2. QED
      BY <1>2, <2>2, <3>1
  <2>3. ASSUME pc[p] \in Active PROVE Whole(Module(p).program) \in Seq(Chunk)
    BY <1>1, <2>3, CurrentModule, WholeType
  <2>4. CASE CopyBuffer(p)
    <3> DEFINE file == disk[Module(p).id]
               object == [i \in 1..size[p] |-> IF i <= Len(file) THEN file[i] ELSE <<"zeros">>]
    <3>1. /\ pc[p] = "copy" /\ Load(p, object) /\ UNCHANGED disk
          /\ HasFile(Module(p)) /\ Module(p).id \in DOMAIN disk
      BY <1>1, <2>4 DEF CopyBuffer, FileInv
    <3>2. size[p] = Chunks
      BY <1>2, <3>1
    <3>3. Len(file) = Chunks /\ \A i \in 1..Chunks : file[i] = Module(p).program
      BY <1>1, <1>5, <3>1, QuietFile
    <3>4. object = Whole(Module(p).program)
      BY <3>2, <3>3, CacheAssumption DEF Whole
    <3> HIDE DEF object
    <3>5. QED
      BY <2>2, <2>3, <3>1, <3>4 DEF Active
  <2>5. CASE emitObject(p) /\ ~HasFile(Module(p))
    BY <2>2, <2>3, <2>5 DEF emitObject, Active
  <2>6. CASE Close(p)
    BY <2>2, <2>3, <2>6 DEF Close, Active, Saving
  <2>7. CASE emitObject(p) /\ HasFile(Module(p))
    BY <2>1, <2>7 DEF emitObject
  <2>8. CASE Start(p) \/ getObject(p) \/ OpenFile(p) \/ Write(p) \/ Kill(p)
    BY <2>1, <2>8 DEF Start, getObject, OpenFile, Write, Kill, local
  <2>9. QED
    BY <2>4, <2>5, <2>6, <2>7, <2>8 DEF Step
<1>8. QED
  BY <1>4, <1>6, <1>7

-----------------------------------------------------------------------------
(* Theorems.                                                               *)

\* Every variable keeps its type: no object grows beyond its size, nothing that
\* is not a search gets a file, and no run loads more modules than it has,
\* however runs overlap and wherever they are killed.
THEOREM SpecTypeOK == Spec => []TypeOK
<1>1. TypeInv => TypeOK
  BY DEF TypeInv
<1>2. QED
  BY <1>1, InitTypeInv, NextTypeInv, PTL DEF Spec

LEMMA InitIndInv == Init => IndInv
<1> SUFFICES ASSUME Init PROVE IndInv
  OBVIOUS
<1>1. /\ \A p \in Run : Len(engine[p]) = 0 /\ pc[p] = "idle"
      /\ DOMAIN disk = {}
  BY DEF Init
<1>2. DiskInv /\ WriteInv
  BY <1>1 DEF DiskInv, WriteInv
<1>3. NoForeignCode /\ SerialInv
  BY <1>1 DEF NoForeignCode, SerialInv, Active, Saving
<1>4. QED
  BY <1>2, <1>3, InitTypeInv DEF IndInv

LEMMA NextIndInv ==
  ASSUME SameInvert
  PROVE  IndInv /\ [Next]_vars => IndInv'
<1> SUFFICES ASSUME IndInv, [Next]_vars PROVE IndInv'
  OBVIOUS
<1>1. TypeInv /\ DiskInv /\ WriteInv /\ NoForeignCode /\ SerialInv
  BY DEF IndInv
<1>2. TypeInv'
  BY <1>1, NextTypeInv
<1>3. CASE Next
  <2>1. PICK p \in Run : Step(p)
    BY <1>3 DEF Next, Step
  <2>2. QED
    BY <1>1, <1>2, <2>1, NextDiskInv, NextWriteInv, NextNoForeignCode, NextSerialInv DEF IndInv
<1>4. CASE UNCHANGED vars
  <2>1. UNCHANGED <<overlap, command, pc, engine, size, written, disk>>
    BY <1>4 DEF vars, local
  <2>2. DiskInv' /\ NoForeignCode'
    BY <1>1, <2>1 DEF DiskInv, NoForeignCode
  <2>3. Killed' = Killed /\ \A q \in Run : Module(q)' = Module(q)
    BY <2>1 DEF Killed, Module
  <2>4. WriteInv' /\ SerialInv'
    BY <1>1, <2>1, <2>3 DEF WriteInv, SerialInv, Whole
  <2>5. QED
    BY <1>2, <2>2, <2>4 DEF IndInv
<1>5. QED
  BY <1>3, <1>4

LEMMA SpecIndInv ==
  ASSUME SameInvert
  PROVE  Spec => []IndInv
<1>1. IndInv /\ [Next]_vars => IndInv'
  BY NextIndInv
<1>2. QED
  BY <1>1, InitIndInv, PTL DEF Spec

\* However runs overlap, whatever they save at the same time and wherever they
\* are killed, no run of icgrep loads code of another program than its own: a
\* disturbed object is short of code (ObjectCache.cpp writes it in place), but
\* never a mixture of programs.
THEOREM SpecNoForeignCode ==
  ASSUME SameInvert
  PROVE  Spec => []NoForeignCode
<1>1. IndInv => NoForeignCode
  BY DEF IndInv
<1>2. QED
  BY <1>1, SpecIndInv, PTL

\* Runs that follow one another and are not killed execute exactly what they
\* were asked for, out of the cache or not.
THEOREM SpecRunsItsProgram ==
  ASSUME SameInvert
  PROVE  Spec => []RunsItsProgram
<1>1. ASSUME IndInv PROVE RunsItsProgram
  <2>1. SUFFICES ASSUME ~overlap, Killed = {}, NEW p \in Run, pc[p] = "running"
                 PROVE  engine[p] = [k \in 1..Len(Modules(command[p])) |->
                                       Whole(Modules(command[p])[k].program)]
    BY DEF RunsItsProgram
  <2>2. /\ engine[p] \in Seq(Seq(Chunk))
        /\ Len(engine[p]) = Len(Modules(command[p]))
        /\ \A k \in 1..Len(engine[p]) :
             engine[p][k] = Whole(Modules(command[p])[k].program)
    BY <1>1, <2>1 DEF IndInv, TypeInv, LoadInv, SerialInv
  <2>3. engine[p] = [k \in 1..Len(engine[p]) |-> engine[p][k]]
    BY <2>2
  <2>4. QED
    BY <2>2, <2>3
<1>2. IndInv => RunsItsProgram
  BY <1>1
<1>3. QED
  BY <1>2, SpecIndInv, PTL

\* However the writers of one object overlapped, when all are done and none was
\* killed every file is a whole object.
THEOREM SpecCacheSettles ==
  ASSUME SameInvert
  PROVE  Spec => []CacheSettles
<1>1. ASSUME IndInv PROVE CacheSettles
  <2>1. SUFFICES ASSUME Killed = {}, \A p \in Run : pc[p] # "write", NEW id \in DOMAIN disk
                 PROVE  \E prog \in Program : disk[id] = Whole(prog)
    BY DEF CacheSettles
  <2>2. /\ disk[id] \in Seq(Chunk) /\ Len(disk[id]) <= Chunks
        /\ \A i \in 1..Chunks : i <= Len(disk[id]) /\ disk[id][i] # Zeros
    BY <1>1, <2>1 DEF IndInv, TypeInv, TypeOK, WriteInv
  <2>3. PICK c \in Command :
          \A i \in 1..Len(disk[id]) : disk[id][i] \in {SearchModule(c).program, Zeros}
    BY <1>1, <2>1 DEF IndInv, DiskInv
  <2>4. Len(disk[id]) = Chunks
    BY <2>2, CacheAssumption
  <2>5. disk[id] = [i \in 1..Chunks |-> disk[id][i]]
    BY <2>2, <2>4
  <2>6. disk[id] = Whole(SearchModule(c).program)
    BY <2>2, <2>3, <2>4, <2>5 DEF Whole
  <2>7. SearchModule(c).program \in Program
    BY DEF SearchModule, Program, Command
  <2>8. QED
    BY <2>6, <2>7
<1>2. IndInv => CacheSettles
  BY <1>1
<1>3. QED
  BY <1>2, SpecIndInv, PTL
=============================================================================
