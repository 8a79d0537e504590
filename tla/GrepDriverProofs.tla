-------------------------- MODULE GrepDriverProofs --------------------------
(* Proofs about the driver, for every number of threads and every command. *)
EXTENDS GrepDriver, ProofFacts, SequenceTheorems, TLAPS

LEMMA NumArgsType ==
  ASSUME TypeOK
  PROVE  NumArgs \in Nat \ {0} /\ firstInputFile \in {0, 1}
  BY CommandsAssumption DEF TypeOK, CommandRecord, NumArgs, firstInputFile,
     Promise!NumArgs, Promise!FirstFile

\* Who searches, for a command with any -t option.
LEMMA CommandSearchers ==
  ASSUME command \in Commands
  PROVE  /\ Threads \in Int
         /\ PoolSize \in Nat
         /\ ThreadPool \subseteq Nat \ {0}
         /\ Searcher \subseteq Nat
         /\ Threads > 1 => Searcher = ThreadPool /\ 0 \notin Searcher
         /\ ~(Threads > 1) => Searcher = {0} /\ PoolSize = 0 /\ ThreadPool = {}
<1>1. Threads \in Int
  BY CommandsAssumption DEF CommandRecord, Threads
<1> QED
  BY <1>1 DEF PoolSize, ThreadPool, Searcher

LEMMA SearcherType ==
  ASSUME TypeOK
  PROVE  /\ Threads \in Int
         /\ PoolSize \in Nat
         /\ ThreadPool \subseteq Nat \ {0}
         /\ Searcher \subseteq Nat
         /\ Threads > 1 => Searcher = ThreadPool /\ 0 \notin Searcher
         /\ ~(Threads > 1) => Searcher = {0} /\ PoolSize = 0 /\ ThreadPool = {}
  BY CommandSearchers DEF TypeOK

\* The slot of a report exists, and belongs to an argument with the name of
\* the file the thread searches, if an argument after the first has that name.
LEMMA IdxType ==
  ASSUME TypeOK, NEW t \in Searcher, NumArgs \in Nat \ {0}
  PROVE  /\ Idx(t) \in 0..NumArgs - 1
         /\ (\E i \in 1..NumArgs - 1 : Arg(i) = FileName(t)) => Arg(Idx(t) + 1) = FileName(t)
<1> DEFINE same == {i \in 1..NumArgs - 1 : Arg(i) = FileName(t)}
<1>1. CASE same = {}
  BY <1>1 DEF Idx
<1>2. CASE same # {}
  <2>1. same \subseteq Nat
    OBVIOUS
  <2>2. \E i \in same : \A j \in same : i <= j
    BY <1>2, <2>1, LeastNatural
  <2> QED
    BY <1>2, <2>2 DEF Idx
<1> QED
  BY <1>1, <1>2

-----------------------------------------------------------------------------
LEMMA InitIndInv == Init => IndInv
<1> SUFFICES ASSUME Init PROVE IndInv
  OBVIOUS
<1>1. NumArgs \in Nat \ {0} /\ firstInputFile \in {0, 1}
  BY CommandsAssumption DEF Init, CommandRecord, NumArgs, firstInputFile,
     Promise!NumArgs, Promise!FirstFile
<1>a. command \in Commands
  BY DEF Init
<1> USE <1>a
<1>2. TypeOK
  BY <1>1, CommandSearchers DEF Init, TypeOK, Slots
<1>3. MutexInv
  BY CommandSearchers DEF Init, MutexInv, Nobody
<1>4. BornInv
  BY CommandSearchers DEF Init, BornInv
<1>5. ClaimInv
  BY CommandSearchers DEF Init, ClaimInv, Holding
<1>6. OpenInv
  BY CommandSearchers DEF Init, OpenInv, Holding
<1> QED
  BY <1>2, <1>3, <1>4, <1>5, <1>6 DEF IndInv

\* Derived facts used in the step below.
LEMMA StepContext ==
  ASSUME IndInv, UNCHANGED inputs
  PROVE  /\ NumArgs \in Nat \ {0} /\ firstInputFile \in {0, 1}
         /\ NumArgs' = NumArgs /\ firstInputFile' = firstInputFile
         /\ command' \in Commands /\ disk' \in [Name -> FileState]
         /\ Nobody \notin Searcher
         /\ Threads' = Threads /\ PoolSize' = PoolSize
         /\ ThreadPool' = ThreadPool /\ Searcher' = Searcher
  BY NumArgsType, SearcherType
  DEF Threads, PoolSize, ThreadPool, Searcher, IndInv, TypeOK, inputs, NumArgs, firstInputFile, Promise!NumArgs, Promise!FirstFile, Nobody

LEMMA NextIndInv == IndInv /\ [Next]_vars => IndInv'
<1> SUFFICES ASSUME IndInv, [Next]_vars PROVE IndInv'
  OBVIOUS
<1>u. UNCHANGED inputs
  BY DEF Next, Main, DoGrep, CreateThread, CreateThreadFails, Terminate, JoinThread, PrintResult,
     Lock, Increment, Claim, Leave, Skip, MapFails, Map, LoadCount, StoreCount, WriteName,
     WriteLine, Unmap, vars
<1>s. /\ ThreadPool \subseteq Nat \ {0} /\ Searcher \subseteq Nat
      /\ Threads > 1 => Searcher = ThreadPool /\ 0 \notin Searcher
      /\ ~(Threads > 1) => Searcher = {0} /\ PoolSize = 0 /\ ThreadPool = {}
      /\ Threads \in Int /\ PoolSize \in Nat
  BY SearcherType DEF IndInv
<1>c. /\ NumArgs \in Nat \ {0} /\ firstInputFile \in {0, 1}
      /\ NumArgs' = NumArgs /\ firstInputFile' = firstInputFile
      /\ command' \in Commands /\ disk' \in [Name -> FileState]
      /\ Nobody \notin Searcher
      /\ Threads' = Threads /\ PoolSize' = PoolSize
      /\ ThreadPool' = ThreadPool /\ Searcher' = Searcher
  BY <1>u, StepContext
<1> USE <1>s, <1>c DEF IndInv, inputs, slots, mainVars, claimVars, vars
<1>1. ASSUME CreateThread PROVE IndInv'
  <2>0. /\ created + 1 \in Searcher /\ created + 1 \in ThreadPool /\ pc[created + 1] = "unborn"
        /\ created + 1 \in 0..PoolSize
    <3>1. created + 1 \in ThreadPool /\ created + 1 \in 0..PoolSize
      BY <1>1 DEF CreateThread, TypeOK, ThreadPool
    <3>2. created + 1 \in Searcher
      BY <3>1
    <3>3. pc[created + 1] = "unborn"
      BY <3>1 DEF BornInv, TypeOK
    <3> QED
      BY <3>1, <3>2, <3>3
  <2>1. TypeOK'
    <3>1. created' \in 0..PoolSize /\ UNCHANGED joined /\ joined \in 0..created'
      BY <1>1, <2>0 DEF CreateThread, TypeOK
    <3>2. pc' \in [Searcher -> {"unborn", "lock", "increment", "claim", "test", "grep",
                                "store", "write", "exit"}]
      BY <1>1, <2>0 DEF CreateThread, TypeOK
    <3>3. PoolSize' = PoolSize /\ Searcher' = Searcher /\ NumArgs' = NumArgs
      BY <1>1 DEF CreateThread
    <3> QED
      BY <1>1, <3>1, <3>2, <3>3 DEF CreateThread, TypeOK
  <2>2. MutexInv'
    BY <1>1, <2>0 DEF CreateThread, TypeOK, MutexInv
  <2>3. BornInv'
    BY <1>1 DEF CreateThread, TypeOK, BornInv
  <2>4. ClaimInv'
    BY <1>1 DEF CreateThread, TypeOK, Holding, ClaimInv
  <2>5. OpenInv'
    BY <1>1 DEF CreateThread, TypeOK, Holding, OpenInv
  <2> QED
    BY <2>1, <2>2, <2>3, <2>4, <2>5
<1>2. ASSUME CreateThreadFails PROVE IndInv'
  <2>1. TypeOK'
    BY <1>2 DEF CreateThreadFails, Terminate, TypeOK
  <2>2. MutexInv'
    BY <1>2 DEF CreateThreadFails, Terminate, TypeOK, MutexInv
  <2>3. BornInv'
    BY <1>2 DEF CreateThreadFails, Terminate, TypeOK, BornInv
  <2>4. ClaimInv'
    BY <1>2 DEF CreateThreadFails, Terminate, TypeOK, Holding, ClaimInv
  <2>5. OpenInv'
    BY <1>2 DEF CreateThreadFails, Terminate, TypeOK, Holding, OpenInv
  <2> QED
    BY <2>1, <2>2, <2>3, <2>4, <2>5
<1>3. ASSUME JoinThread PROVE IndInv'
  <2>1. TypeOK'
    BY <1>3 DEF JoinThread, TypeOK
  <2>2. MutexInv'
    BY <1>3 DEF JoinThread, TypeOK, MutexInv
  <2>3. BornInv'
    BY <1>3 DEF JoinThread, TypeOK, BornInv
  <2>4. ClaimInv'
    BY <1>3 DEF JoinThread, TypeOK, Holding, ClaimInv
  <2>5. OpenInv'
    BY <1>3 DEF JoinThread, TypeOK, Holding, OpenInv
  <2> QED
    BY <2>1, <2>2, <2>3, <2>4, <2>5
<1>4. ASSUME PrintResult PROVE IndInv'
  <2>1. TypeOK'
    BY <1>4 DEF PrintResult, TypeOK
  <2>2. MutexInv'
    BY <1>4 DEF PrintResult, TypeOK, MutexInv
  <2>3. BornInv'
    BY <1>4 DEF PrintResult, TypeOK, BornInv
  <2>4. ClaimInv'
    BY <1>4 DEF PrintResult, TypeOK, Holding, ClaimInv
  <2>5. OpenInv'
    BY <1>4 DEF PrintResult, TypeOK, Holding, OpenInv
  <2> QED
    BY <2>1, <2>2, <2>3, <2>4, <2>5
<1>5. ASSUME NEW t \in Searcher, Lock(t) PROVE IndInv'
  <2>1. TypeOK'
    BY <1>5 DEF Lock, TypeOK
  <2>2. MutexInv'
    BY <1>5 DEF Lock, TypeOK, MutexInv
  <2>3. BornInv'
    BY <1>5 DEF Lock, TypeOK, BornInv
  <2>4. ClaimInv'
    BY <1>5 DEF Lock, TypeOK, Holding, ClaimInv
  <2>5. OpenInv'
    BY <1>5 DEF Lock, TypeOK, Holding, OpenInv
  <2> QED
    BY <2>1, <2>2, <2>3, <2>4, <2>5
<1>6. ASSUME NEW t \in Searcher, Increment(t) PROVE IndInv'
  <2>1. TypeOK'
    BY <1>6 DEF Increment, TypeOK
  <2>2. MutexInv'
    BY <1>6 DEF Increment, TypeOK, MutexInv
  <2>3. BornInv'
    BY <1>6 DEF Increment, TypeOK, BornInv
  <2>4. ClaimInv'
    <3>1. \A s \in Searcher \ {t} : pc[s] # "claim"
      BY <1>6 DEF Increment, MutexInv
    <3>2. \A s \in Searcher : fileIdx[s] \in Nat
      BY DEF TypeOK
    <3>3. fileCount \in Nat /\ fileCount' = fileCount + 1 /\ UNCHANGED fileIdx
      BY <1>6 DEF Increment, TypeOK
    <3>4. \A s \in Searcher : Holding(s)' => Holding(s)
      BY <1>6 DEF Increment, TypeOK, Holding
    <3>5. \A s \in Searcher : pc'[s] = "claim" => s = t
      BY <1>6, <3>1 DEF Increment, TypeOK
    <3>6. Threads > 1 => \A s \in Searcher : fileIdx[s] < fileCount + 1
      BY <3>2, <3>3 DEF ClaimInv
    <3>a. Threads' = Threads /\ Searcher' = Searcher
      BY <1>6 DEF Increment
    <3> QED
      BY <3>a, <3>2, <3>3, <3>4, <3>5, <3>6 DEF ClaimInv
  <2>5. OpenInv'
    BY <1>6 DEF Increment, TypeOK, Holding, OpenInv
  <2> QED
    BY <2>1, <2>2, <2>3, <2>4, <2>5
<1>7. ASSUME NEW t \in Searcher, Claim(t) PROVE IndInv'
  <2>1. TypeOK'
    BY <1>7 DEF Claim, TypeOK
  <2>2. MutexInv'
    BY <1>7 DEF Claim, TypeOK, MutexInv
  <2>3. BornInv'
    BY <1>7 DEF Claim, TypeOK, BornInv
  <2>4. ClaimInv'
    <3>1. fileCount \in Nat /\ UNCHANGED fileCount
      BY <1>7 DEF Claim, TypeOK
    <3>2. \A s \in Searcher : fileIdx'[s] = IF s = t THEN fileCount ELSE fileIdx[s]
      BY <1>7 DEF Claim, TypeOK
    <3>3. Threads > 1 => \A s \in Searcher : fileIdx[s] < fileCount /\ fileIdx[s] \in Nat
      BY <1>7 DEF Claim, ClaimInv, TypeOK
    <3>4. \A s \in Searcher : pc'[s] # "claim"
      BY <1>7 DEF Claim, MutexInv, TypeOK
    <3>5. \A s \in Searcher : s # t /\ Holding(s)' => Holding(s)
      BY <1>7 DEF Claim, TypeOK, Holding
    <3>a. Threads' = Threads /\ Searcher' = Searcher
      BY <1>7 DEF Claim
    <3> QED
      BY <3>a, <3>1, <3>2, <3>3, <3>4, <3>5 DEF ClaimInv
  <2>5. OpenInv'
    <3>1. Threads > 1 => fileCount >= 1
      BY <1>7 DEF Claim, ClaimInv, TypeOK
    <3> QED
      BY <1>7, <3>1 DEF Claim, TypeOK, Holding, OpenInv
  <2> QED
    BY <2>1, <2>2, <2>3, <2>4, <2>5
<1>8. ASSUME NEW t \in Searcher, Leave(t) PROVE IndInv'
  <2>1. TypeOK'
    BY <1>8 DEF Leave, TypeOK
  <2>2. MutexInv'
    BY <1>8 DEF Leave, TypeOK, MutexInv
  <2>3. BornInv'
    BY <1>8 DEF Leave, TypeOK, BornInv
  <2>4. ClaimInv'
    BY <1>8 DEF Leave, TypeOK, Holding, ClaimInv
  <2>5. OpenInv'
    BY <1>8 DEF Leave, TypeOK, Holding, OpenInv
  <2> QED
    BY <2>1, <2>2, <2>3, <2>4, <2>5
<1>9. ASSUME NEW t \in Searcher, Skip(t) PROVE IndInv'
  <2>1. TypeOK'
    <3>1. searched' \in [0..NumArgs - 1 -> Nat]
      <4>1. fileIdx[t] \in 0..NumArgs - 1
        BY <1>9 DEF Skip, Opening, TypeOK
      <4>2. searched' = [searched EXCEPT ![fileIdx[t]] = @ + 1]
        BY <1>9 DEF Skip
      <4>3. searched \in [0..NumArgs - 1 -> Nat] /\ NumArgs' = NumArgs
        BY DEF TypeOK
      <4> QED
        BY ONLY <4>1, <4>2, <4>3
    <3>2. fileIdx' \in [Searcher -> Nat]
      <4>1. fileIdx' = IF t = 0 THEN [fileIdx EXCEPT ![t] = @ + 1] ELSE fileIdx
        BY <1>9 DEF Skip, Continue
      <4>2. fileIdx \in [Searcher -> Nat] /\ t \in Searcher
        BY DEF TypeOK
      <4> QED
        BY ONLY <4>1, <4>2
    <3>3. pc' \in [Searcher -> {"unborn", "lock", "increment", "claim", "test", "grep",
                                "store", "write", "exit"}]
      BY <1>9 DEF Skip, Continue, TypeOK
    <3> QED
      BY <1>9, <3>1, <3>2, <3>3 DEF Skip, TypeOK
  <2>2. MutexInv'
    BY <1>9 DEF Skip, Opening, Continue, TypeOK, MutexInv
  <2>3. BornInv'
    BY <1>9 DEF Skip, Opening, Continue, TypeOK, BornInv
  <2>4. ClaimInv'
    <3>1. \A s \in Searcher \ {t} : pc'[s] = pc[s] /\ fileIdx'[s] = fileIdx[s]
      BY <1>9 DEF Skip, Continue, TypeOK
    <3>2. Threads > 1 => pc'[t] = "lock" /\ fileIdx'[t] = fileIdx[t] /\ UNCHANGED fileCount
      BY <1>9 DEF Skip, Continue, TypeOK
    <3> QED
      BY <3>1, <3>2 DEF ClaimInv, Holding
  <2>5. OpenInv'
    <3>1. \A s \in Searcher \ {t} : pc'[s] = pc[s] /\ fileIdx'[s] = fileIdx[s]
      BY <1>9 DEF Skip, Continue, TypeOK
    <3>2. pc'[t] = IF Threads > 1 THEN "lock" ELSE "test"
      BY <1>9 DEF Skip, Continue, TypeOK
    <3> QED
      BY <3>1, <3>2 DEF OpenInv, Holding
  <2> QED
    BY <2>1, <2>2, <2>3, <2>4, <2>5
<1>10. ASSUME NEW t \in Searcher, MapFails(t) PROVE IndInv'
  <2>1. TypeOK'
    BY <1>10 DEF MapFails, Opening, Terminate, TypeOK
  <2>2. MutexInv'
    BY <1>10 DEF MapFails, Opening, Terminate, TypeOK, MutexInv
  <2>3. BornInv'
    BY <1>10 DEF MapFails, Opening, Terminate, TypeOK, BornInv
  <2>4. ClaimInv'
    BY <1>10 DEF MapFails, Opening, Terminate, TypeOK, Holding, ClaimInv
  <2>5. OpenInv'
    BY <1>10 DEF MapFails, Opening, Terminate, TypeOK, Holding, OpenInv
  <2> QED
    BY <2>1, <2>2, <2>3, <2>4, <2>5
<1>11. ASSUME NEW t \in Searcher, Map(t) PROVE IndInv'
  <2>1. TypeOK'
    <3>1. searched' \in [0..NumArgs - 1 -> Nat]
      <4>1. fileIdx[t] \in 0..NumArgs - 1
        BY <1>11 DEF Map, Opening, TypeOK
      <4>2. searched' = [searched EXCEPT ![fileIdx[t]] = @ + 1]
        BY <1>11 DEF Map
      <4>3. searched \in [0..NumArgs - 1 -> Nat] /\ NumArgs' = NumArgs
        BY DEF TypeOK
      <4> QED
        BY ONLY <4>1, <4>2, <4>3
    <3> QED
      BY <1>11, <3>1 DEF Map, TypeOK
  <2>2. MutexInv'
    BY <1>11 DEF Map, Opening, TypeOK, MutexInv
  <2>3. BornInv'
    BY <1>11 DEF Map, Opening, TypeOK, BornInv
  <2>4. ClaimInv'
    <3>1. UNCHANGED <<fileIdx, fileCount>>
      BY <1>11 DEF Map
    <3>2. \A s \in Searcher : (Holding(s)' <=> Holding(s)) /\ (pc'[s] = "claim" <=> pc[s] = "claim")
      BY <1>11 DEF Map, Opening, TypeOK, Holding
    <3> QED
      BY <3>1, <3>2 DEF ClaimInv
  <2>5. OpenInv'
    BY <1>11 DEF Map, Opening, TypeOK, Holding, OpenInv
  <2> QED
    BY <2>1, <2>2, <2>3, <2>4, <2>5
<1>12. ASSUME NEW t \in Searcher, LoadCount(t) PROVE IndInv'
  <2>1. TypeOK'
    BY <1>12, IdxType DEF LoadCount, TypeOK
  <2>2. MutexInv'
    BY <1>12 DEF LoadCount, TypeOK, MutexInv
  <2>3. BornInv'
    BY <1>12 DEF LoadCount, TypeOK, BornInv
  <2>4. ClaimInv'
    <3>1. UNCHANGED <<fileIdx, fileCount>>
      BY <1>12 DEF LoadCount
    <3>2. \A s \in Searcher : (Holding(s)' <=> Holding(s)) /\ (pc'[s] = "claim" <=> pc[s] = "claim")
      BY <1>12 DEF LoadCount, TypeOK, Holding
    <3> QED
      BY <3>1, <3>2 DEF ClaimInv
  <2>5. OpenInv'
    BY <1>12 DEF LoadCount, TypeOK, Holding, OpenInv
  <2> QED
    BY <2>1, <2>2, <2>3, <2>4, <2>5
<1>13. ASSUME NEW t \in Searcher, StoreCount(t) PROVE IndInv'
  <2>1. TypeOK'
    <3>1. total_count' \in [0..NumArgs - 1 -> Nat]
      <4>1. Idx(t) \in 0..NumArgs - 1
        BY IdxType, NumArgsType
      <4>2. loaded[t] + 1 \in Nat
        BY DEF TypeOK
      <4> QED
        BY <1>13, <4>1, <4>2 DEF StoreCount, TypeOK
    <3>2. line' \in [Searcher -> Nat]
      BY <1>13 DEF StoreCount, TypeOK
    <3> QED
      BY <1>13, <3>1, <3>2 DEF StoreCount, TypeOK
  <2>2. MutexInv'
    BY <1>13 DEF StoreCount, TypeOK, MutexInv
  <2>3. BornInv'
    BY <1>13 DEF StoreCount, TypeOK, BornInv
  <2>4. ClaimInv'
    <3>1. UNCHANGED <<fileIdx, fileCount>>
      BY <1>13 DEF StoreCount
    <3>2. \A s \in Searcher : (Holding(s)' <=> Holding(s)) /\ (pc'[s] = "claim" <=> pc[s] = "claim")
      BY <1>13 DEF StoreCount, TypeOK, Holding
    <3> QED
      BY <3>1, <3>2 DEF ClaimInv
  <2>5. OpenInv'
    BY <1>13 DEF StoreCount, TypeOK, Holding, OpenInv
  <2> QED
    BY <2>1, <2>2, <2>3, <2>4, <2>5
<1>14. ASSUME NEW t \in Searcher, WriteName(t) PROVE IndInv'
  <2>1. TypeOK'
    BY <1>14, IdxType DEF WriteName, TypeOK
  <2>2. MutexInv'
    BY <1>14 DEF WriteName, TypeOK, MutexInv
  <2>3. BornInv'
    BY <1>14 DEF WriteName, TypeOK, BornInv
  <2>4. ClaimInv'
    <3>1. UNCHANGED <<fileIdx, fileCount>>
      BY <1>14 DEF WriteName
    <3>2. \A s \in Searcher : (Holding(s)' <=> Holding(s)) /\ (pc'[s] = "claim" <=> pc[s] = "claim")
      BY <1>14 DEF WriteName, TypeOK, Holding
    <3> QED
      BY <3>1, <3>2 DEF ClaimInv
  <2>5. OpenInv'
    BY <1>14 DEF WriteName, TypeOK, Holding, OpenInv
  <2> QED
    BY <2>1, <2>2, <2>3, <2>4, <2>5
<1>15. ASSUME NEW t \in Searcher, WriteLine(t) PROVE IndInv'
  <2>1. TypeOK'
    <3>1. line' \in [Searcher -> Nat]
      BY <1>15 DEF WriteLine, TypeOK
    <3> QED
      BY <1>15, <3>1 DEF WriteLine, TypeOK
  <2>2. MutexInv'
    BY <1>15 DEF WriteLine, TypeOK, MutexInv
  <2>3. BornInv'
    BY <1>15 DEF WriteLine, TypeOK, BornInv
  <2>4. ClaimInv'
    <3>1. UNCHANGED <<fileIdx, fileCount>>
      BY <1>15 DEF WriteLine
    <3>2. \A s \in Searcher : (Holding(s)' <=> Holding(s)) /\ (pc'[s] = "claim" <=> pc[s] = "claim")
      BY <1>15 DEF WriteLine, TypeOK, Holding
    <3> QED
      BY <3>1, <3>2 DEF ClaimInv
  <2>5. OpenInv'
    BY <1>15 DEF WriteLine, TypeOK, Holding, OpenInv
  <2> QED
    BY <2>1, <2>2, <2>3, <2>4, <2>5
<1>16. ASSUME NEW t \in Searcher, Unmap(t) PROVE IndInv'
  <2>1. TypeOK'
    <3>1. fileIdx' \in [Searcher -> Nat]
      BY <1>16 DEF Unmap, Continue, TypeOK
    <3>2. pc' \in [Searcher -> {"unborn", "lock", "increment", "claim", "test", "grep",
                                "store", "write", "exit"}]
      BY <1>16 DEF Unmap, Continue, TypeOK
    <3> QED
      BY <1>16, <3>1, <3>2 DEF Unmap, TypeOK
  <2>2. MutexInv'
    BY <1>16 DEF Unmap, Continue, TypeOK, MutexInv
  <2>3. BornInv'
    BY <1>16 DEF Unmap, Continue, TypeOK, BornInv
  <2>4. ClaimInv'
    BY <1>16 DEF Unmap, Continue, TypeOK, Holding, ClaimInv
  <2>5. OpenInv'
    BY <1>16 DEF Unmap, Continue, TypeOK, Holding, OpenInv
  <2> QED
    BY <2>1, <2>2, <2>3, <2>4, <2>5
<1>17. CASE UNCHANGED vars
  BY <1>17 DEF TypeOK, MutexInv, BornInv, ClaimInv, OpenInv, Holding
<1> QED
  BY <1>1, <1>2, <1>3, <1>4, <1>5, <1>6, <1>7, <1>8, <1>9, <1>10, <1>11, <1>12, <1>13, <1>14, <1>15, <1>16, <1>17 DEF Next, Main, DoGrep

-----------------------------------------------------------------------------
\* The invariant holds throughout.
THEOREM SpecIndInv == Spec => []IndInv
<1>1. Init => IndInv
  BY InitIndInv
<1>2. IndInv /\ [Next]_vars => IndInv'
  BY NextIndInv
<1> QED
  BY <1>1, <1>2, PTL DEF Spec, Safe

\* Every variable keeps its type for every number of threads and every command.
THEOREM SpecTypeOK == Spec => []TypeOK
  BY SpecIndInv, PTL DEF IndInv

\* Threads never search the same argument at the same time, however many run.
THEOREM SpecClaimsDiffer == Spec => []ClaimsDiffer
<1>1. IndInv => ClaimsDiffer
  BY SearcherType
  DEF IndInv, ClaimInv, ClaimsDiffer, Working, Holding
<1> QED
  BY <1>1, SpecIndInv, PTL

\* When no file is named twice, no two threads ever write one slot concurrently.
THEOREM SpecSlotsNotShared == Spec => []SlotsNotShared
<1>1. IndInv => SlotsNotShared
  <2> SUFFICES ASSUME IndInv, DistinctNames,
                      NEW s \in Searcher, NEW t \in Searcher, s # t,
                      Reporting(s), Reporting(t), Idx(s) = Idx(t)
               PROVE  FALSE
    BY DEF SlotsNotShared
  <2>1. Threads > 1
    BY SearcherType DEF IndInv
  <2>2. fileIdx[s] # fileIdx[t]
    BY <2>1 DEF IndInv, ClaimInv, Reporting, Holding
  <2>3. fileIdx[s] \in 1..NumArgs - 1 /\ fileIdx[t] \in 1..NumArgs - 1
    BY <2>1, NumArgsType DEF IndInv, OpenInv, Reporting, Holding, TypeOK
  <2>4. Arg(Idx(s) + 1) = Arg(fileIdx[s]) /\ Arg(Idx(t) + 1) = Arg(fileIdx[t])
    BY <2>3, IdxType, NumArgsType DEF FileName, IndInv
  <2>5. Arg(fileIdx[s]) = Arg(fileIdx[t])
    BY <2>4
  <2> QED
    BY <2>2, <2>3, <2>5, NumArgsType DEF DistinctNames, IndInv
<1> QED
  BY <1>1, SpecIndInv, PTL

-----------------------------------------------------------------------------
\* The second invariant: what has been searched.

LEMMA InitSearch == Init => SearchInv /\ ExitInv
<1> SUFFICES ASSUME Init PROVE SearchInv /\ ExitInv
  OBVIOUS
<1>1. NumArgs \in Nat \ {0} /\ firstInputFile \in {0, 1}
  BY CommandsAssumption DEF Init, CommandRecord, NumArgs, firstInputFile,
     Promise!NumArgs, Promise!FirstFile
<1>a. command \in Commands
  BY DEF Init
<1> USE <1>a
<1>2. SearchInv
  <2>1. CASE Threads > 1
    BY <1>1, <2>1, CommandSearchers DEF Init, SearchInv, FirstHanded, LastHanded
  <2>2. CASE ~(Threads > 1)
    BY <1>1, <2>2, CommandSearchers DEF Init, SearchInv, FirstHanded, LastHanded, Pending
  <2> QED
    BY <2>1, <2>2
<1>3. ExitInv
  BY <1>1, CommandSearchers DEF Init, ExitInv
<1> QED
  BY <1>2, <1>3

\* The command, and with it who searches, never changes.
LEMMA SearchContext ==
  ASSUME SearchIndInv, UNCHANGED inputs
  PROVE  /\ Threads' = Threads /\ Searcher' = Searcher
         /\ ThreadPool' = ThreadPool /\ PoolSize' = PoolSize
         /\ Threads \in Int /\ PoolSize \in Nat /\ Searcher \subseteq Nat
         /\ Threads > 1 => Searcher = ThreadPool /\ 0 \notin Searcher
         /\ ~(Threads > 1) => Searcher = {0} /\ PoolSize = 0 /\ ThreadPool = {}
  BY SearcherType, StepContext DEF SearchIndInv, IndInv

\* Steps that hand out nothing and call doGrep for nobody leave it as it is.
LEMMA SearchFrame ==
  ASSUME SearchIndInv, UNCHANGED <<inputs, searched, fileCount, fileIdx>>,
         \A s \in Searcher : /\ pc'[s] = "claim" <=> pc[s] = "claim"
                             /\ pc'[s] = "test" <=> pc[s] = "test"
  PROVE  SearchInv'
<1>c. /\ Threads' = Threads /\ Searcher' = Searcher
      /\ ThreadPool' = ThreadPool /\ PoolSize' = PoolSize
      /\ Threads \in Int /\ PoolSize \in Nat /\ Searcher \subseteq Nat
      /\ Threads > 1 => Searcher = ThreadPool /\ 0 \notin Searcher
      /\ ~(Threads > 1) => Searcher = {0} /\ PoolSize = 0 /\ ThreadPool = {}
  BY SearchContext
<1>1. NumArgs' = NumArgs /\ firstInputFile' = firstInputFile
  BY StepContext DEF SearchIndInv
<1>2. LastHanded' = LastHanded /\ FirstHanded' = FirstHanded
  BY <1>c, <1>1 DEF LastHanded, FirstHanded
<1>3. \A i : Pending(i)' <=> Pending(i)
  BY <1>c DEF Pending
<1> QED
  BY <1>1, <1>2, <1>3 DEF SearchIndInv, SearchInv

\* The mutex protects the increment together with the read that follows it.
LEMMA SearchClaim ==
  ASSUME SearchIndInv, NEW t \in Searcher, Increment(t) \/ Claim(t)
  PROVE  SearchInv'
<1>c. /\ Threads' = Threads /\ Searcher' = Searcher
      /\ ThreadPool' = ThreadPool /\ PoolSize' = PoolSize
      /\ Threads \in Int /\ PoolSize \in Nat /\ Searcher \subseteq Nat
      /\ Threads > 1 => Searcher = ThreadPool /\ 0 \notin Searcher
      /\ ~(Threads > 1) => Searcher = {0} /\ PoolSize = 0 /\ ThreadPool = {}
  BY SearchContext DEF Increment, Claim
<1>1. /\ NumArgs' = NumArgs /\ firstInputFile' = firstInputFile /\ NumArgs \in Nat
      /\ FirstHanded' = FirstHanded /\ UNCHANGED searched
  BY StepContext DEF SearchIndInv, Increment, Claim, FirstHanded
<1>2. Threads > 1
  BY SearcherType DEF SearchIndInv, IndInv, OpenInv, Increment, Claim
<1>3. \A s \in Searcher : fileIdx[s] <= fileCount /\ fileIdx[s] \in Nat /\ fileCount \in Nat
  BY <1>2 DEF SearchIndInv, IndInv, ClaimInv, TypeOK
<1>4. CASE Increment(t)
  <2>1. ~\E s \in Searcher : pc[s] = "claim"
    BY <1>4 DEF Increment, SearchIndInv, IndInv, MutexInv
  <2>2. pc'[t] = "claim" /\ fileCount' = fileCount + 1
    BY <1>4 DEF Increment, SearchIndInv, IndInv, TypeOK
  <2>3. LastHanded' = LastHanded
    BY <1>c, <1>2, <1>3, <2>1, <2>2 DEF LastHanded
  <2>4. \A i : Pending(i)' <=> Pending(i)
    BY <1>c, <1>4 DEF Pending, Increment, SearchIndInv, IndInv, TypeOK
  <2> QED
    BY <1>1, <2>3, <2>4 DEF SearchIndInv, SearchInv
<1>5. CASE Claim(t)
  <2>1. \A s \in Searcher : pc'[s] # "claim"
    BY <1>5 DEF Claim, SearchIndInv, IndInv, MutexInv, TypeOK
  <2>2. LastHanded = fileCount - 1 /\ LastHanded' = fileCount
    BY <1>c, <1>2, <1>5, <2>1 DEF Claim, LastHanded
  <2>3. \A i \in Nat : Pending(i)' <=> Pending(i) \/ i = fileCount
    BY <1>c, <1>3, <1>5 DEF Pending, Claim, SearchIndInv, IndInv, TypeOK
  <2>4. FirstHanded \in Nat
    BY <1>2 DEF FirstHanded
  <2> QED
    BY <1>1, <1>3, <2>2, <2>3, <2>4 DEF SearchIndInv, SearchInv
<1> QED
  BY <1>4, <1>5

\* doGrep is called for an index that was handed out and not searched before.
LEMMA SearchOpen ==
  ASSUME SearchIndInv, NEW t \in Searcher, Skip(t) \/ Map(t)
  PROVE  SearchInv'
<1>c. /\ Threads' = Threads /\ Searcher' = Searcher
      /\ ThreadPool' = ThreadPool /\ PoolSize' = PoolSize
      /\ Threads \in Int /\ PoolSize \in Nat /\ Searcher \subseteq Nat
      /\ Threads > 1 => Searcher = ThreadPool /\ 0 \notin Searcher
      /\ ~(Threads > 1) => Searcher = {0} /\ PoolSize = 0 /\ ThreadPool = {}
  BY SearchContext DEF Skip, Map
<1> DEFINE j == fileIdx[t]
<1>0. UNCHANGED inputs
  BY DEF Skip, Map
<1>1. /\ NumArgs' = NumArgs /\ firstInputFile' = firstInputFile /\ NumArgs \in Nat
      /\ FirstHanded' = FirstHanded /\ UNCHANGED fileCount
  BY <1>0, StepContext DEF SearchIndInv, Skip, Map, FirstHanded, claimVars
<1>2. j \in 0..NumArgs - 1 /\ Pending(j) /\ pc[t] = "test"
  <2>1. j \in Nat /\ j < NumArgs /\ pc[t] = "test"
    BY DEF Skip, Map, Opening, SearchIndInv, IndInv, TypeOK
  <2> QED
    BY <1>1, <2>1 DEF Pending
<1>3. \A i \in 0..NumArgs - 1 : searched'[i] = searched[i] + (IF i = j THEN 1 ELSE 0)
  BY <1>1, <1>2 DEF Skip, Map, SearchIndInv, IndInv, TypeOK
<1>4. searched[j] = 0
  BY <1>2 DEF SearchIndInv, SearchInv
<1>5. CASE Threads > 1
  <2>1. UNCHANGED fileIdx /\ t # 0
    BY <1>c, <1>5, SearcherType DEF Skip, Map, Continue, claimVars
  <2>2. \A s \in Searcher : /\ pc'[s] = "claim" <=> pc[s] = "claim"
                            /\ pc'[s] = "test" <=> pc[s] = "test" /\ s # t
    BY <1>2, <2>1 DEF Skip, Map, Continue, SearchIndInv, IndInv, TypeOK
  <2>3. LastHanded' = LastHanded
    BY <1>c, <1>1, <1>5, <2>2 DEF LastHanded
  <2>4. j >= 1 /\ \A s \in Searcher \ {t} : pc[s] = "test" => fileIdx[s] # j
    BY <1>2, <1>5 DEF SearchIndInv, IndInv, ClaimInv, OpenInv, Holding
  <2>5. \A i : Pending(i)' <=> Pending(i) /\ i # j
    BY <1>c, <1>2, <2>1, <2>2, <2>4 DEF Pending
  <2>6. j <= LastHanded
    BY <1>2, <1>5 DEF SearchIndInv, IndInv, ClaimInv, TypeOK, LastHanded
  <2>7. j \in FirstHanded..LastHanded
    BY <1>2, <1>5, <2>4, <2>6 DEF SearchIndInv, IndInv, TypeOK, FirstHanded, LastHanded
  <2> QED
    BY <1>1, <1>2, <1>3, <1>4, <2>3, <2>5, <2>7 DEF SearchIndInv, SearchInv
<1>6. CASE ~(Threads > 1)
  <2>1. Searcher = {0} /\ t = 0 /\ LastHanded = j /\ FirstHanded = firstInputFile
    BY <1>c, <1>6, SearcherType DEF LastHanded, FirstHanded
  <2>2. firstInputFile \in {0, 1}
    BY NumArgsType DEF SearchIndInv, IndInv
  <2>3. j >= firstInputFile
    BY <1>c, <1>6, <2>1 DEF SearchIndInv, ExitInv
  <2>4. CASE Skip(t)
    <3>1. fileIdx'[0] = j + 1 /\ pc'[0] = "test"
      BY <2>1, <2>4 DEF Skip, Continue, SearchIndInv, IndInv, TypeOK
    <3>2. LastHanded' = j + 1 /\ \A i : Pending(i)' <=> i = j + 1
      BY <1>c, <1>6, <2>1, <3>1 DEF LastHanded, Pending
    <3>3. \A i : Pending(i) <=> i = j
      BY <1>2, <2>1 DEF Pending
    <3> QED
      BY <1>1, <1>2, <1>3, <1>4, <2>1, <2>2, <2>3, <3>2, <3>3 DEF SearchIndInv, SearchInv
  <2>5. CASE Map(t)
    <3>1. fileIdx'[0] = j /\ pc'[0] = "grep"
      BY <2>1, <2>5 DEF Map, claimVars, SearchIndInv, IndInv, TypeOK
    <3>2. LastHanded' = j /\ \A i : ~Pending(i)'
      BY <1>c, <1>6, <2>1, <3>1 DEF LastHanded, Pending
    <3>3. \A i : Pending(i) <=> i = j
      BY <1>2, <2>1 DEF Pending
    <3> QED
      BY <1>1, <1>2, <1>3, <1>4, <2>1, <2>2, <2>3, <3>2, <3>3 DEF SearchIndInv, SearchInv
  <2> QED
    BY <2>4, <2>5
<1> QED
  BY <1>5, <1>6

\* The ends of the loop: out of range, and after the search of a file.
LEMMA SearchLeave ==
  ASSUME SearchIndInv, NEW t \in Searcher, Leave(t)
  PROVE  SearchInv'
<1>c. /\ Threads' = Threads /\ Searcher' = Searcher
      /\ ThreadPool' = ThreadPool /\ PoolSize' = PoolSize
      /\ Threads \in Int /\ PoolSize \in Nat /\ Searcher \subseteq Nat
      /\ Threads > 1 => Searcher = ThreadPool /\ 0 \notin Searcher
      /\ ~(Threads > 1) => Searcher = {0} /\ PoolSize = 0 /\ ThreadPool = {}
  BY SearchContext DEF Leave
<1>0. UNCHANGED <<inputs, searched, fileCount, fileIdx>>
  BY DEF Leave, claimVars
<1>1. /\ NumArgs' = NumArgs /\ firstInputFile' = firstInputFile /\ NumArgs \in Nat
      /\ FirstHanded' = FirstHanded /\ UNCHANGED <<searched, fileCount, fileIdx>>
  BY <1>0, StepContext DEF SearchIndInv, FirstHanded
<1>2. \A s \in Searcher : pc'[s] = IF s = t THEN "exit" ELSE pc[s]
  BY DEF Leave, SearchIndInv, IndInv, TypeOK
<1>3. pc[t] = "test" /\ fileIdx[t] >= NumArgs
  BY DEF Leave
<1>4. LastHanded' = LastHanded
  BY <1>c, <1>1, <1>2, <1>3 DEF LastHanded
<1>5. \A i \in 0..NumArgs - 1 : fileIdx[t] # i
  BY <1>1, <1>3 DEF SearchIndInv, IndInv, TypeOK
<1>6. \A i \in 0..NumArgs - 1 : Pending(i)' <=> Pending(i)
  BY <1>c, <1>1, <1>2, <1>3, <1>5 DEF Pending
<1> QED
  BY <1>1, <1>4, <1>6 DEF SearchIndInv, SearchInv

LEMMA SearchUnmap ==
  ASSUME SearchIndInv, NEW t \in Searcher, Unmap(t)
  PROVE  SearchInv'
<1>c. /\ Threads' = Threads /\ Searcher' = Searcher
      /\ ThreadPool' = ThreadPool /\ PoolSize' = PoolSize
      /\ Threads \in Int /\ PoolSize \in Nat /\ Searcher \subseteq Nat
      /\ Threads > 1 => Searcher = ThreadPool /\ 0 \notin Searcher
      /\ ~(Threads > 1) => Searcher = {0} /\ PoolSize = 0 /\ ThreadPool = {}
  BY SearchContext DEF Unmap
<1>1. CASE Threads > 1
  BY <1>1, SearcherType, SearchFrame DEF Unmap, Continue, SearchIndInv, IndInv, TypeOK
<1>2. CASE ~(Threads > 1)
  <2>1. /\ NumArgs' = NumArgs /\ firstInputFile' = firstInputFile /\ NumArgs \in Nat
        /\ FirstHanded' = firstInputFile /\ UNCHANGED searched /\ FirstHanded = firstInputFile
    BY <1>2, StepContext DEF SearchIndInv, Unmap, FirstHanded
  <2>2. Searcher = {0} /\ t = 0 /\ fileIdx[0] \in Nat /\ firstInputFile \in Nat
    BY <1>2, SearcherType, NumArgsType DEF SearchIndInv, IndInv, TypeOK
  <2>3. pc[0] = "grep" /\ pc'[0] = "test" /\ fileIdx'[0] = fileIdx[0] + 1
    BY <2>2 DEF Unmap, Continue, SearchIndInv, IndInv, TypeOK
  <2>4. LastHanded = fileIdx[0] /\ LastHanded' = fileIdx[0] + 1
    BY <1>c, <1>2, <2>3 DEF LastHanded
  <2>5. \A i : ~Pending(i) /\ (Pending(i)' <=> i = fileIdx[0] + 1)
    BY <1>c, <2>2, <2>3 DEF Pending
  <2> QED
    BY <2>1, <2>2, <2>4, <2>5 DEF SearchIndInv, SearchInv
<1> QED
  BY <1>1, <1>2

LEMMA NextSearch == SearchIndInv /\ [Next]_vars => SearchInv'
<1> SUFFICES ASSUME SearchIndInv, [Next]_vars PROVE SearchInv'
  OBVIOUS
<1>1. CASE CreateThread
  <2>1. created + 1 \in ThreadPool /\ created + 1 \in Searcher
    BY <1>1, SearcherType DEF CreateThread, SearchIndInv, IndInv, TypeOK, ThreadPool, PoolSize
  <2>2. pc[created + 1] = "unborn"
    BY <2>1 DEF SearchIndInv, IndInv, TypeOK, BornInv
  <2> QED
    BY <1>1, <2>1, <2>2, SearchFrame DEF CreateThread, claimVars, SearchIndInv, IndInv, TypeOK
<1>2. CASE CreateThreadFails \/ JoinThread \/ PrintResult
  BY <1>2, SearchFrame DEF CreateThreadFails, Terminate, JoinThread, PrintResult, claimVars
<1>3. ASSUME NEW t \in Searcher, Increment(t) \/ Claim(t) PROVE SearchInv'
  BY <1>3, SearchClaim
<1>4. ASSUME NEW t \in Searcher, Skip(t) \/ Map(t) PROVE SearchInv'
  BY <1>4, SearchOpen
<1>5. ASSUME NEW t \in Searcher, Leave(t) PROVE SearchInv'
  BY <1>5, SearchLeave
<1>6. ASSUME NEW t \in Searcher, Unmap(t) PROVE SearchInv'
  BY <1>6, SearchUnmap
<1>7. ASSUME NEW t \in Searcher, Lock(t) \/ LoadCount(t) \/ StoreCount(t) \/ WriteName(t) \/ WriteLine(t)
      PROVE SearchInv'
  BY <1>7, SearchFrame
  DEF Lock, LoadCount, StoreCount, WriteName, WriteLine, claimVars, SearchIndInv, IndInv, TypeOK
<1>8. ASSUME NEW t \in Searcher, MapFails(t) PROVE SearchInv'
  BY <1>8, SearchFrame DEF MapFails, Terminate, claimVars
<1>9. CASE UNCHANGED vars
  BY <1>9, SearchFrame DEF vars, claimVars
<1> QED
  BY <1>1, <1>2, <1>3, <1>4, <1>5, <1>6, <1>7, <1>8, <1>9 DEF Next, Main, DoGrep

LEMMA NextExit == SearchIndInv /\ [Next]_vars => ExitInv'
<1> SUFFICES ASSUME SearchIndInv, [Next]_vars PROVE ExitInv'
  OBVIOUS
<1> USE SearcherType DEF inputs, slots, mainVars, claimVars, vars
<1>0. UNCHANGED inputs
  BY DEF Next, Main, DoGrep, CreateThread, CreateThreadFails, Terminate, JoinThread, PrintResult,
     Lock, Increment, Claim, Leave, Skip, MapFails, Map, LoadCount, StoreCount, WriteName,
     WriteLine, Unmap
<1>c. /\ Threads' = Threads /\ Searcher' = Searcher
      /\ ThreadPool' = ThreadPool /\ PoolSize' = PoolSize
      /\ Threads \in Int /\ PoolSize \in Nat /\ Searcher \subseteq Nat
      /\ Threads > 1 => Searcher = ThreadPool /\ 0 \notin Searcher
      /\ ~(Threads > 1) => Searcher = {0} /\ PoolSize = 0 /\ ThreadPool = {}
  BY <1>0, SearchContext
<1>1. /\ NumArgs' = NumArgs /\ firstInputFile' = firstInputFile
      /\ NumArgs \in Nat /\ firstInputFile \in Nat
  BY <1>0, StepContext DEF SearchIndInv
<1>2. CASE CreateThread
  <2>1. pc[created + 1] = "unborn" /\ created + 1 \in ThreadPool
    BY <1>2 DEF CreateThread, SearchIndInv, IndInv, TypeOK, BornInv, ThreadPool, PoolSize
  <2> QED
    BY <1>c, <1>1, <1>2, <2>1 DEF CreateThread, SearchIndInv, IndInv, TypeOK, ExitInv
<1>3. CASE CreateThreadFails
  BY <1>c, <1>1, <1>3 DEF CreateThreadFails, Terminate, SearchIndInv, ExitInv
<1>4. CASE JoinThread
  BY <1>c, <1>1, <1>4 DEF JoinThread, SearchIndInv, IndInv, TypeOK, ExitInv
<1>5. CASE PrintResult
  <2>1. \A t \in Searcher : pc[t] = "exit"
    BY <1>5 DEF PrintResult, SearchIndInv, ExitInv, ThreadPool
  <2> QED
    BY <1>c, <1>1, <1>5, <2>1 DEF PrintResult, SearchIndInv, ExitInv
<1>6. ASSUME NEW t \in Searcher, status = "running", DoGrep(t) PROVE ExitInv'
  <2>1. UNCHANGED <<created, joined>> /\ status' # "done"
    BY <1>6 DEF DoGrep, Terminate, Lock, Increment, Claim, Leave, Skip, MapFails, Map,
       LoadCount, StoreCount, WriteName, WriteLine, Unmap
  <2>2. pc[t] # "exit"
    BY <1>6 DEF DoGrep, Opening, Lock, Increment, Claim, Leave, Skip, MapFails, Map,
       LoadCount, StoreCount, WriteName, WriteLine, Unmap
  <2>3. \A s \in Searcher \ {t} : pc'[s] = pc[s] /\ fileIdx'[s] = fileIdx[s]
    BY <1>6 DEF DoGrep, Terminate, Continue, Lock, Increment, Claim, Leave, Skip, MapFails, Map,
       LoadCount, StoreCount, WriteName, WriteLine, Unmap, SearchIndInv, IndInv, TypeOK
  <2>4. pc'[t] = "exit" => fileIdx'[t] >= NumArgs
    <3>1. CASE Leave(t)
      BY <3>1 DEF Leave
    <3>2. CASE ~Leave(t)
      BY <1>6, <2>2, <3>2 DEF DoGrep, Terminate, Continue, Lock, Increment, Claim, Skip, MapFails,
         Map, LoadCount, StoreCount, WriteName, WriteLine, Unmap, SearchIndInv, IndInv, TypeOK
    <3> QED
      BY <3>1, <3>2
  <2>5. Threads <= 1 => fileIdx'[0] >= firstInputFile
    <3> SUFFICES ASSUME Threads <= 1 PROVE fileIdx'[0] >= firstInputFile
      OBVIOUS
    <3>1. t = 0 /\ fileIdx[0] \in Nat /\ fileIdx[0] >= firstInputFile /\ 0 \in Searcher
      BY DEF SearchIndInv, IndInv, TypeOK, ExitInv
    <3>2. fileIdx'[0] \in {fileIdx[0], fileIdx[0] + 1}
      BY <1>6, <3>1 DEF DoGrep, Terminate, Continue, Lock, Increment, Claim, Leave, Skip, MapFails,
         Map, LoadCount, StoreCount, WriteName, WriteLine, Unmap, SearchIndInv, IndInv, TypeOK,
         OpenInv
    <3> QED
      BY <1>1, <3>1, <3>2
  <2> QED
    BY <1>c, <1>1, <2>1, <2>2, <2>3, <2>4, <2>5 DEF SearchIndInv, ExitInv
<1>7. CASE UNCHANGED vars
  BY <1>c, <1>1, <1>7 DEF SearchIndInv, ExitInv
<1> QED
  BY <1>2, <1>3, <1>4, <1>5, <1>6, <1>7 DEF Next, Main

THEOREM SpecSearchIndInv == Spec => []SearchIndInv
<1>1. Init => SearchIndInv
  BY InitIndInv, InitSearch DEF SearchIndInv
<1>2. SearchIndInv /\ [Next]_vars => SearchIndInv'
  BY NextIndInv, NextSearch, NextExit DEF SearchIndInv
<1> QED
  BY <1>1, <1>2, PTL DEF Spec, Safe

\* When every thread has left the loop, every argument after the first has been searched.
LEMMA AllSearched ==
  ASSUME SearchIndInv, \A t \in Searcher : pc[t] = "exit"
  PROVE  \A i \in 1..NumArgs - 1 : searched[i] = 1
<1> SUFFICES ASSUME NEW i \in 1..NumArgs - 1 PROVE searched[i] = 1
  OBVIOUS
<1>1. \A t \in Searcher : pc[t] = "exit" /\ fileIdx[t] >= NumArgs /\ fileIdx[t] \in Nat
  BY DEF SearchIndInv, ExitInv, IndInv, TypeOK
<1>2. ~Pending(i) /\ \A t \in Searcher : pc[t] # "claim"
  BY <1>1 DEF Pending
<1>3. NumArgs \in Nat /\ firstInputFile \in {0, 1}
  BY NumArgsType DEF SearchIndInv, IndInv
<1>4. CASE Threads > 1
  <2>1. 1 \in Searcher
    BY <1>4, SearcherType DEF SearchIndInv, IndInv, Searcher, ThreadPool, PoolSize
  <2>2. fileCount >= NumArgs /\ fileCount \in Nat
    BY <1>1, <1>3, <1>4, <2>1 DEF SearchIndInv, IndInv, ClaimInv, TypeOK
  <2>3. LastHanded = fileCount /\ FirstHanded = 1
    BY <1>2, <1>4 DEF LastHanded, FirstHanded
  <2> QED
    BY <1>2, <1>3, <2>2, <2>3 DEF SearchIndInv, SearchInv
<1>5. CASE ~(Threads > 1)
  <2>1. LastHanded = fileIdx[0] /\ FirstHanded = firstInputFile /\ 0 \in Searcher
    BY <1>5, SearcherType DEF SearchIndInv, IndInv, LastHanded, FirstHanded
  <2> QED
    BY <1>1, <1>2, <1>3, <2>1 DEF SearchIndInv, SearchInv
<1> QED
  BY <1>4, <1>5

\* Every file is searched exactly once, for every number of threads and files.
THEOREM SpecSearchedOnce == Spec => []SearchedOnce
<1>1. SearchIndInv => SearchedOnce
  <2> SUFFICES ASSUME SearchIndInv PROVE SearchedOnce
    OBVIOUS
  <2>1. \A i \in 0..NumArgs - 1 : searched[i] <= 1
    BY DEF SearchIndInv, SearchInv
  <2>2. ASSUME status = "done", NEW i \in 1..NumArgs - 1 PROVE searched[i] = 1
    BY <2>2, AllSearched DEF SearchIndInv, ExitInv
  <2> QED
    BY <2>1, <2>2 DEF SearchedOnce, SearchIndInv, IndInv, TypeOK
<1> QED
  BY <1>1, SpecSearchIndInv, PTL

\* Whether DoGrep hands out every file: index 0 is one only with -e or -f, and
\* the pool of threads starts at 1.
FirstIsHandedOut == Threads <= 1 \/ ~command.patternOption

\* No file is left out, unless -e or -f meets a pool of threads: the reader of
\* fileCount in DoGrep then starts one index too late.
THEOREM SpecEveryFileSearched == Spec => [](FirstIsHandedOut => EveryFileSearched)
<1>1. SearchIndInv => (FirstIsHandedOut => EveryFileSearched)
  <2> SUFFICES ASSUME SearchIndInv, FirstIsHandedOut, status = "done",
                      NEW i \in firstInputFile..NumArgs - 1
               PROVE  searched[i] = 1
    BY DEF EveryFileSearched
  <2>1. \A t \in Searcher : pc[t] = "exit" /\ fileIdx[t] >= NumArgs /\ fileIdx[t] \in Nat
    BY DEF SearchIndInv, ExitInv, IndInv, TypeOK
  <2>2. ~Pending(i) /\ \A t \in Searcher : pc[t] # "claim"
    BY <2>1 DEF Pending
  <2>3. /\ NumArgs \in Nat /\ firstInputFile \in {0, 1}
        /\ ~command.patternOption => firstInputFile = 1
    BY NumArgsType DEF SearchIndInv, IndInv, firstInputFile, Promise!FirstFile
  <2>4. Threads \in Int /\ (~(Threads > 1) => 0 \in Searcher) /\ (Threads > 1 => 1 \in Searcher)
    BY SearcherType DEF SearchIndInv, IndInv, ThreadPool, Searcher, PoolSize
  <2>5. CASE Threads > 1
    <3>1. firstInputFile = 1
      BY <2>3, <2>4, <2>5 DEF FirstIsHandedOut
    <3>2. fileCount >= NumArgs /\ fileCount \in Nat
      BY <2>1, <2>3, <2>4, <2>5 DEF SearchIndInv, IndInv, ClaimInv, TypeOK
    <3>3. LastHanded = fileCount /\ FirstHanded = 1
      BY <2>2, <2>5 DEF LastHanded, FirstHanded
    <3> QED
      BY <2>2, <2>3, <3>1, <3>2, <3>3 DEF SearchIndInv, SearchInv
  <2>6. CASE ~(Threads > 1)
    <3>1. LastHanded = fileIdx[0] /\ FirstHanded = firstInputFile
      BY <2>6 DEF LastHanded, FirstHanded
    <3> QED
      BY <2>1, <2>2, <2>3, <2>4, <2>6, <3>1 DEF SearchIndInv, SearchInv
  <2> QED
    BY <2>5, <2>6
<1> QED
  BY <1>1, SpecSearchIndInv, PTL

-----------------------------------------------------------------------------
(* What is printed, for every number of threads, files and matching lines, *)
(* if the pattern is the first argument and no file is named twice.        *)

\* FlattenSeq returns what all the elements give together.
LEMMA FlattenIsLast ==
  ASSUME NEW s, NEW n \in Nat \ {0}, Len(s) = n, NEW f, Concatenations(s, n, f)
  PROVE  Promise!FlattenSeq(s) = f[n]
<1> DEFINE g == CHOOSE h : h = [i \in 1..n |-> IF i = 1 THEN s[i] ELSE h[i - 1] \o s[i]]
<1>1. Promise!FlattenSeq(s) = g[n]
  BY DEF Promise!FlattenSeq
<1>2. Concatenations(s, n, g)
  BY DEF Concatenations
<1> HIDE DEF g
<1>3. QED
  BY <1>1, <1>2, ConcatenationsAgree

\* What is printed of the first n matching lines of a file.
Tokens(name, k) == Promise!NameToken(name) \o Promise!LineToken(name, k)
Lines(name, n) == Promise!FlattenSeq([k \in 1..n |-> Tokens(name, k)])

LEMMA LinesGrow ==
  ASSUME NEW name, NEW n \in Nat
  PROVE  /\ Lines(name, 0) = << >>
         /\ Lines(name, n + 1) = Lines(name, n) \o Tokens(name, n + 1)
<1> DEFINE s == [k \in 1..n |-> Tokens(name, k)]
           u == [k \in 1..n + 1 |-> Tokens(name, k)]
<1>1. Lines(name, 0) = << >>
  <2>1. [k \in 1..0 |-> Tokens(name, k)] = << >>
    OBVIOUS
  <2>2. QED
    BY <2>1 DEF Lines, Promise!FlattenSeq
<1>2. Len(s) = n /\ Len(u) = n + 1 /\ \A i \in 1..n : s[i] = u[i]
  OBVIOUS
<1>3. u[n + 1] = Tokens(name, n + 1) /\ (n > 0 => s[1] = Tokens(name, 1))
  OBVIOUS
<1> HIDE DEF s, u
<1>4. PICK f, g : Concatenations(s, n, f) /\ Concatenations(u, n + 1, g)
  <2>1. n + 1 \in Nat
    OBVIOUS
  <2>2. QED
    BY <2>1, ConcatenationsExist
<1>5. Promise!FlattenSeq(u) = g[n + 1]
  <2>1. n + 1 \in Nat \ {0}
    OBVIOUS
  <2>2. QED
    BY <1>2, <1>4, <2>1, FlattenIsLast
<1>6. CASE n = 0
  <2>1. g[1] = u[1]
    BY <1>4, <1>6 DEF Concatenations
  <2>2. << >> \o Tokens(name, 1) = Tokens(name, 1)
    BY DEF Tokens, Promise!NameToken, Promise!LineToken
  <2>3. Lines(name, n + 1) = Promise!FlattenSeq(u)
    BY DEF Lines, u
  <2>4. n + 1 = 1 /\ Lines(name, n) = << >>
    BY <1>1, <1>6
  <2>5. Lines(name, n + 1) = Tokens(name, 1)
    BY <1>3, <1>5, <2>1, <2>3, <2>4
  <2>6. QED
    BY <1>1, <2>2, <2>4, <2>5
<1>7. CASE n > 0
  <2>1. Promise!FlattenSeq(s) = f[n]
    BY <1>2, <1>4, <1>7, FlattenIsLast
  <2>2. f[n] = g[n]
    BY <1>2, <1>4, <1>7, ConcatenationsAgree
  <2>3. g[n + 1] = g[n] \o u[n + 1]
    <3>1. n + 1 \in 1..n + 1 /\ n + 1 # 1 /\ (n + 1) - 1 = n
      BY <1>7
    <3>2. g[n + 1] = IF n + 1 = 1 THEN u[n + 1] ELSE g[(n + 1) - 1] \o u[n + 1]
      BY <1>4, <3>1 DEF Concatenations
    <3>3. QED
      BY <3>1, <3>2
  <2>4. QED
    BY <1>1, <1>3, <1>5, <2>1, <2>2, <2>3 DEF Lines, s, u
<1>8. QED
  BY <1>6, <1>7

TokensOf(name) == {<<"name", name>>} \union {<<"line", name, k>> : k \in Nat}

LEMMA TokensType ==
  ASSUME NEW name, NEW k \in Nat
  PROVE  /\ Promise!NameToken(name) \in Seq(TokensOf(name))
         /\ Promise!LineToken(name, k) \in Seq(TokensOf(name))
         /\ Tokens(name, k) \in Seq(TokensOf(name))
<1>1. <<"name", name>> \in TokensOf(name) /\ <<"line", name, k>> \in TokensOf(name)
  BY Zenon DEF TokensOf
<1>2. \A S : \A x \in S : << x >> \in Seq(S)
  OBVIOUS
<1>3. Promise!NameToken(name) \in Seq(TokensOf(name))
  BY <1>1, <1>2 DEF Promise!NameToken
<1>4. Promise!LineToken(name, k) \in Seq(TokensOf(name))
  BY <1>1, <1>2, Zenon DEF Promise!LineToken
<1>5. Tokens(name, k) \in Seq(TokensOf(name))
  BY <1>3, <1>4 DEF Tokens
<1>6. QED
  BY <1>3, <1>4, <1>5

LEMMA LinesType ==
  ASSUME NEW name
  PROVE  \A n \in Nat : Lines(name, n) \in Seq(TokensOf(name))
<1> DEFINE T == {n \in Nat : Lines(name, n) \notin Seq(TokensOf(name))}
<1>1. SUFFICES ASSUME T # {} PROVE FALSE
  OBVIOUS
<1>2. PICK n \in T : \A k \in T : n <= k
  BY <1>1, LeastNatural
<1>3. CASE n = 0
  <2>1. Lines(name, 0) = << >> /\ << >> \in Seq(TokensOf(name))
    BY LinesGrow
  <2>2. Lines(name, n) \in Seq(TokensOf(name))
    BY <1>3, <2>1
  <2>3. QED
    BY <1>2, <2>2
<1>4. CASE n # 0
  <2>1. n - 1 \in Nat /\ n = (n - 1) + 1 /\ n - 1 < n
    BY <1>2, <1>4
  <2>2. Lines(name, n - 1) \in Seq(TokensOf(name))
    BY <1>2, <2>1
  <2>3. Tokens(name, (n - 1) + 1) \in Seq(TokensOf(name))
    BY <2>1, TokensType
  <2>4. Lines(name, (n - 1) + 1) = Lines(name, n - 1) \o Tokens(name, (n - 1) + 1)
    BY <2>1, LinesGrow
  <2>5. Lines(name, (n - 1) + 1) \in Seq(TokensOf(name))
    <3>1. \A S : \A p, q \in Seq(S) : p \o q \in Seq(S)
      OBVIOUS
    <3>2. QED
      BY <2>2, <2>3, <2>4, <3>1, Zenon
  <2>6. QED
    BY <1>2, <2>1, <2>5
<1>5. QED
  BY <1>3, <1>4

LEMMA LineAssociates ==
  ASSUME NEW name, NEW n \in Nat
  PROVE  (Lines(name, n) \o Promise!NameToken(name)) \o Promise!LineToken(name, n + 1)
           = Lines(name, n) \o Tokens(name, n + 1)
<1>1. Lines(name, n) \in Seq(TokensOf(name))
  BY LinesType
<1>2. /\ Promise!NameToken(name) \in Seq(TokensOf(name))
      /\ Promise!LineToken(name, n + 1) \in Seq(TokensOf(name))
  BY TokensType
<1>3. \A p, q, r \in Seq(TokensOf(name)) : (p \o q) \o r = p \o (q \o r)
  BY ConcatAssociative
<1>4. QED
  BY <1>1, <1>2, <1>3, Zenon DEF Tokens

-----------------------------------------------------------------------------
(* What is in the slots.                                                   *)

\* The commands of which more is promised than that they end.
Promised == DistinctNames /\ ~command.patternOption

Inside(t) == pc[t] \in {"grep", "store", "write"}

\* The slot of argument i holds the report of n lines.
SlotHolds(i, n) ==
  IF command.countOnly
  THEN total_count[i - 1] = n
  ELSE resultStrs[i - 1] = Lines(Arg(i), n)

\* A thread that searches a file has reported the lines it has passed, and in
\* the middle of a report its read of the slot is still true.
InsideHolds(t) ==
  /\ fileIdx[t] \in 1..NumArgs - 1
  /\ searched[fileIdx[t]] = 1
  /\ line[t] <= Promise!MatchingLines(FileName(t))
  /\ Reporting(t) => Unreported(t)
  /\ pc[t] = "store" => command.countOnly /\ loaded[t] = line[t]
  /\ pc[t] = "write" => ~command.countOnly
  /\ IF pc[t] = "write"
     THEN resultStrs[fileIdx[t] - 1] = Lines(FileName(t), line[t]) \o Promise!NameToken(FileName(t))
     ELSE SlotHolds(fileIdx[t], line[t])

\* The slot of any other file is empty before the search and complete after it.
IdleHolds(i) == SlotHolds(i, IF searched[i] = 1 THEN Promise!MatchingLines(Arg(i)) ELSE 0)

InsideInv == \A t \in Searcher : Inside(t) => InsideHolds(t)
IdleInv ==
  \A i \in 1..NumArgs - 1 : (\A t \in Searcher : Inside(t) => fileIdx[t] # i) => IdleHolds(i)

SlotInv == InsideInv /\ IdleInv
OutputIndInv == SearchIndInv /\ (Promised => SlotInv /\ PrintedAsPromised)

-----------------------------------------------------------------------------
(* What a step that leaves the command and the files alone leaves alone.   *)

LEMMA LinesFrame ==
  ASSUME UNCHANGED inputs, NEW name, NEW n
  PROVE  /\ Lines(name, n)' = Lines(name, n)
         /\ Promise!NameToken(name)' = Promise!NameToken(name)
         /\ Promise!MatchingLines(name)' = Promise!MatchingLines(name)
<1>1. command' = command /\ disk' = disk
  BY DEF inputs
<1>2. QED
  BY <1>1, Zenon DEF Lines, Tokens, Promise!NameToken, Promise!LineToken, Promise!NamesShown,
     Promise!NumArgs, Promise!FirstFile, Promise!MatchingLines

LEMMA SlotFrame ==
  ASSUME UNCHANGED inputs, NEW i, NEW n,
         total_count'[i - 1] = total_count[i - 1], resultStrs'[i - 1] = resultStrs[i - 1]
  PROVE  SlotHolds(i, n)' <=> SlotHolds(i, n)
<1>1. command' = command /\ disk' = disk
  BY DEF inputs
<1>2. QED
  BY <1>1, Zenon DEF SlotHolds, Arg, Promise!Arg, Lines, Tokens, Promise!NameToken,
     Promise!LineToken, Promise!NamesShown, Promise!NumArgs, Promise!FirstFile

LEMMA IdleFrame ==
  ASSUME UNCHANGED inputs, NEW i, searched'[i] = searched[i],
         total_count'[i - 1] = total_count[i - 1], resultStrs'[i - 1] = resultStrs[i - 1],
         IdleHolds(i)
  PROVE  IdleHolds(i)'
<1>1. command' = command /\ disk' = disk
  BY DEF inputs
<1>2. QED
  BY <1>1, Zenon DEF IdleHolds, SlotHolds, Arg, Promise!Arg, Lines, Tokens, Promise!NameToken,
     Promise!LineToken, Promise!NamesShown, Promise!NumArgs, Promise!FirstFile, Promise!MatchingLines

LEMMA InsideFrame ==
  ASSUME UNCHANGED inputs, NEW s, pc'[s] = pc[s], fileIdx'[s] = fileIdx[s],
         line'[s] = line[s], loaded'[s] = loaded[s],
         searched'[fileIdx[s]] = searched[fileIdx[s]],
         total_count'[fileIdx[s] - 1] = total_count[fileIdx[s] - 1],
         resultStrs'[fileIdx[s] - 1] = resultStrs[fileIdx[s] - 1],
         InsideHolds(s)
  PROVE  InsideHolds(s)'
<1>1. command' = command /\ disk' = disk
  BY DEF inputs
<1>2. QED
  BY <1>1, Zenon DEF InsideHolds, SlotHolds, Reporting, Unreported, FileName, NumArgs, Arg,
     Promise!Arg, Lines, Tokens, Promise!NameToken, Promise!LineToken, Promise!NamesShown,
     Promise!NumArgs, Promise!FirstFile, Promise!MatchingLines

LEMMA PromisedFrame ==
  ASSUME UNCHANGED inputs
  PROVE  /\ Promised' <=> Promised
         /\ Promise!Report' = Promise!Report
<1>1. command' = command /\ disk' = disk
  BY DEF inputs
<1>2. Promised' <=> Promised
  BY <1>1, Zenon DEF Promised, DistinctNames, firstInputFile, NumArgs, Arg, Promise!Arg,
     Promise!NumArgs, Promise!FirstFile
<1>3. Promise!Report' = Promise!Report
  BY <1>1, ZenonT(30) DEF Promise!Arg, Promise!NameToken, Promise!LineToken, Promise!NamesShown,
     Promise!NumArgs, Promise!FirstFile, Promise!MatchingLines, Promise!Report,
     Promise!FileReport, Promise!CountToken
<1>4. QED
  BY <1>2, <1>3

\* Threads have different files after the pattern, each with a slot of its own.
LEMMA OwnSlots ==
  ASSUME SearchIndInv, Promised
  PROVE  /\ NumArgs \in Nat \ {0} /\ firstInputFile = 1
         /\ \A t \in Searcher :
              /\ fileIdx[t] \in Nat
              /\ Holding(t) => fileIdx[t] >= 1
              /\ fileIdx[t] \in 1..NumArgs - 1 => Idx(t) = fileIdx[t] - 1
              /\ Holding(t) => \A s \in Searcher \ {t} : Holding(s) => fileIdx[s] # fileIdx[t]
<1>1. NumArgs \in Nat \ {0} /\ firstInputFile = 1
  BY NumArgsType DEF SearchIndInv, IndInv, Promised, firstInputFile, Promise!FirstFile
<1>2. ASSUME NEW t \in Searcher
      PROVE  /\ fileIdx[t] \in Nat
             /\ Holding(t) => fileIdx[t] >= 1
             /\ Holding(t) => \A s \in Searcher \ {t} : Holding(s) => fileIdx[s] # fileIdx[t]
  <2>1. fileIdx[t] \in Nat
    BY <1>2 DEF SearchIndInv, IndInv, TypeOK
  <2>2. CASE Threads > 1
    BY <1>2, <2>1, <2>2 DEF SearchIndInv, IndInv, OpenInv, ClaimInv
  <2>3. CASE ~(Threads > 1)
    <3>1. Searcher = {0} /\ Threads <= 1
      BY <2>3, SearcherType DEF SearchIndInv, IndInv
    <3>2. t = 0 /\ fileIdx[0] >= 1
      BY <1>1, <1>2, <3>1 DEF SearchIndInv, ExitInv
    <3>3. QED
      BY <2>1, <3>1, <3>2
  <2>4. QED
    BY <2>2, <2>3
<1>3. ASSUME NEW t \in Searcher, fileIdx[t] \in 1..NumArgs - 1 PROVE Idx(t) = fileIdx[t] - 1
  <2>1. Idx(t) \in 0..NumArgs - 1 /\ Arg(Idx(t) + 1) = Arg(fileIdx[t])
    BY <1>1, <1>3, IdxType DEF FileName, SearchIndInv, IndInv
  <2>2. fileIdx[t] \in Nat
    BY <1>2, <1>3
  <2>3. Idx(t) + 1 \in 1..NumArgs - 1
    <3> DEFINE same == {i \in 1..NumArgs - 1 : Arg(i) = FileName(t)}
    <3>1. same # {} /\ same \subseteq Nat
      BY <1>3 DEF FileName
    <3>2. PICK m \in same : \A k \in same : m <= k
      BY <3>1, LeastNatural
    <3>3. (CHOOSE i \in same : \A k \in same : i <= k) \in same
      BY <3>2
    <3>4. Idx(t) = (CHOOSE i \in same : \A k \in same : i <= k) - 1
      BY <3>1 DEF Idx
    <3> DEFINE c == CHOOSE i \in same : \A k \in same : i <= k
    <3>5. c \in 1..NumArgs - 1 /\ Idx(t) = c - 1
      BY <3>3, <3>4
    <3> HIDE DEF c
    <3>6. QED
      BY <1>1, <3>5
  <2>4. Idx(t) + 1 = fileIdx[t]
    BY <1>1, <1>3, <2>1, <2>3 DEF Promised, DistinctNames
  <2>5. QED
    BY <2>1, <2>2, <2>4
<1>4. QED
  BY <1>1, <1>2, <1>3

\* A step that changes nothing a searching thread looks at keeps the slots right.
LEMMA SlotQuiet ==
  ASSUME SearchIndInv, Promised, SlotInv,
         UNCHANGED <<inputs, line, loaded, slots, searched>>,
         \A s \in Searcher :
           \/ pc'[s] = pc[s] /\ fileIdx'[s] = fileIdx[s]
           \/ ~Inside(s) /\ pc'[s] \notin {"grep", "store", "write"}
  PROVE  SlotInv'
<1>1. Searcher' = Searcher /\ NumArgs' = NumArgs /\ UNCHANGED <<inputs, total_count, resultStrs>>
  BY StepContext DEF SearchIndInv, slots
<1>2. InsideInv'
  <2>1. ASSUME NEW s \in Searcher, Inside(s)' PROVE InsideHolds(s)'
    <3>2. pc'[s] = pc[s] /\ fileIdx'[s] = fileIdx[s]
      BY <2>1 DEF Inside
    <3>1. InsideHolds(s)
      BY <2>1, <3>2 DEF SlotInv, InsideInv, Inside
    <3>3. QED
      BY <1>1, <3>1, <3>2, InsideFrame
  <2>2. QED
    BY <1>1, <2>1 DEF InsideInv
<1>3. IdleInv'
  <2>1. ASSUME NEW i \in 1..NumArgs - 1, \A s \in Searcher : Inside(s)' => fileIdx'[s] # i
        PROVE  IdleHolds(i)'
    <3>1. IdleHolds(i)
      BY <2>1 DEF SlotInv, IdleInv, Inside
    <3>2. QED
      BY <1>1, <3>1, IdleFrame
  <2>2. QED
    BY <1>1, <2>1 DEF IdleInv
<1>4. QED
  BY <1>2, <1>3 DEF SlotInv

\* A step of the thread t that touches only its own file and slot keeps the
\* others right.
LEMMA SlotOwner ==
  ASSUME SearchIndInv, Promised, SlotInv, UNCHANGED inputs,
         NEW t \in Searcher, Holding(t), NEW j \in 1..NumArgs - 1, fileIdx[t] = j,
         \A s \in Searcher \ {t} : /\ pc'[s] = pc[s] /\ fileIdx'[s] = fileIdx[s]
                                   /\ line'[s] = line[s] /\ loaded'[s] = loaded[s],
         \A i \in 1..NumArgs - 1 :
           i # j => /\ searched'[i] = searched[i]
                    /\ total_count'[i - 1] = total_count[i - 1]
                    /\ resultStrs'[i - 1] = resultStrs[i - 1],
         Inside(t)' => fileIdx'[t] = j /\ InsideHolds(t)',
         ~Inside(t)' => IdleHolds(j)'
  PROVE  SlotInv'
<1>1. Searcher' = Searcher /\ NumArgs' = NumArgs
  BY StepContext DEF SearchIndInv
<1>2. InsideInv'
  <2>1. ASSUME NEW s \in Searcher, Inside(s)', s # t PROVE InsideHolds(s)'
    <3>1. /\ pc'[s] = pc[s] /\ fileIdx'[s] = fileIdx[s]
          /\ line'[s] = line[s] /\ loaded'[s] = loaded[s]
      BY <2>1
    <3>2. Inside(s)
      BY <2>1, <3>1 DEF Inside
    <3>3. InsideHolds(s)
      BY <3>2 DEF SlotInv, InsideInv
    <3>4. fileIdx[s] \in 1..NumArgs - 1
      BY <3>3 DEF InsideHolds
    <3>5. fileIdx[s] # fileIdx[t]
      BY <2>1, <3>2, OwnSlots DEF Inside, Holding
    <3>6. QED
      BY <3>1, <3>3, <3>4, <3>5, InsideFrame
  <2>2. QED
    BY <1>1, <2>1 DEF InsideInv
<1>3. IdleInv'
  <2>1. ASSUME NEW i \in 1..NumArgs - 1, \A s \in Searcher : Inside(s)' => fileIdx'[s] # i
        PROVE  IdleHolds(i)'
    <3>1. CASE i = j
      BY <2>1, <3>1
    <3>2. CASE i # j
      <4>1. \A s \in Searcher : Inside(s) => fileIdx[s] # i
        BY <2>1, <3>2 DEF Inside
      <4>2. IdleHolds(i)
        BY <2>1, <4>1 DEF SlotInv, IdleInv
      <4>3. QED
        BY <2>1, <3>2, <4>2, IdleFrame
    <3>3. QED
      BY <3>1, <3>2
  <2>2. QED
    BY <1>1, <2>1 DEF IdleInv
<1>4. QED
  BY <1>2, <1>3 DEF SlotInv

\* After the search the slot is complete, and during it it holds n lines.
LEMMA IdleAfter ==
  ASSUME UNCHANGED inputs, NEW i, NEW n, searched'[i] = 1, Promise!MatchingLines(Arg(i)) = n,
         total_count'[i - 1] = total_count[i - 1], resultStrs'[i - 1] = resultStrs[i - 1],
         SlotHolds(i, n)
  PROVE  IdleHolds(i)'
<1>1. command' = command /\ disk' = disk
  BY DEF inputs
<1>2. QED
  BY <1>1, Zenon DEF IdleHolds, SlotHolds, Arg, Promise!Arg, Lines, Tokens, Promise!NameToken,
     Promise!LineToken, Promise!NamesShown, Promise!NumArgs, Promise!FirstFile, Promise!MatchingLines

LEMMA InsideAfter ==
  ASSUME UNCHANGED inputs, NEW s, NEW i \in 1..NumArgs - 1, NEW n, pc'[s] = "grep",
         fileIdx[s] = i, fileIdx'[s] = i, line'[s] = n, searched'[i] = 1,
         n <= Promise!MatchingLines(FileName(s)),
         IF command.countOnly
         THEN total_count'[i - 1] = n
         ELSE resultStrs'[i - 1] = Lines(FileName(s), n)
  PROVE  InsideHolds(s)'
<1>1. command' = command /\ disk' = disk
  BY DEF inputs
<1>2. i \in (1..NumArgs - 1)'
  BY <1>1, Zenon DEF NumArgs, Promise!NumArgs
<1>3. pc'[s] # "store" /\ pc'[s] # "write"
  OBVIOUS
<1>4. /\ (Promise!MatchingLines(FileName(s)))' = Promise!MatchingLines(FileName(s))
      /\ SlotHolds(i, n)'
  BY <1>1, Zenon DEF SlotHolds, FileName, Arg, Promise!Arg, Lines, Tokens, Promise!NameToken,
     Promise!LineToken, Promise!NamesShown, Promise!NumArgs, Promise!FirstFile, Promise!MatchingLines
<1>5. QED
  BY <1>2, <1>3, <1>4, Zenon DEF InsideHolds, Reporting

LEMMA Opened ==
  ASSUME SearchIndInv, Promised, SlotInv, NEW t \in Searcher, NEW kinds, Opening(t, kinds)
  PROVE  /\ Holding(t) /\ ~Inside(t)
         /\ fileIdx[t] \in 1..NumArgs - 1
         /\ searched[fileIdx[t]] = 0
         /\ SlotHolds(fileIdx[t], 0)
         /\ disk[Arg(fileIdx[t])].kind \in kinds
<1>1. pc[t] = "test" /\ fileIdx[t] < NumArgs /\ disk[Arg(fileIdx[t])].kind \in kinds
  BY DEF Opening
<1>2. Holding(t) /\ ~Inside(t)
  BY <1>1 DEF Holding, Inside
<1>3. fileIdx[t] \in 1..NumArgs - 1
  BY <1>1, <1>2, OwnSlots
<1>4. searched[fileIdx[t]] = 0
  <2>1. Pending(fileIdx[t])
    BY <1>1 DEF Pending
  <2>2. fileIdx[t] \in 0..NumArgs - 1
    BY <1>3, OwnSlots
  <2>3. QED
    BY <2>1, <2>2 DEF SearchIndInv, SearchInv
<1>5. \A s \in Searcher : Inside(s) => fileIdx[s] # fileIdx[t]
  BY <1>2, OwnSlots DEF Inside, Holding
<1>6. IdleHolds(fileIdx[t])
  BY <1>3, <1>5 DEF SlotInv, IdleInv
<1>7. SlotHolds(fileIdx[t], 0)
  BY <1>4, <1>6 DEF IdleHolds
<1>8. QED
  BY <1>1, <1>2, <1>3, <1>4, <1>7

LEMMA MatchingType ==
  ASSUME TypeOK, NEW i \in 1..NumArgs - 1
  PROVE  Promise!MatchingLines(Arg(i)) \in Nat
<1>1. Arg(i) \in Name
  BY NumArgsType, CommandsAssumption
  DEF TypeOK, CommandRecord, Arg, Promise!Arg, NumArgs, Promise!NumArgs
<1>2. disk[Arg(i)].lines \in Nat
  BY <1>1, MaxLinesAssumption DEF TypeOK, FileState
<1>3. QED
  BY <1>2 DEF Promise!MatchingLines

LEMMA SlotSkip ==
  ASSUME SearchIndInv, Promised, SlotInv, NEW t \in Searcher, Skip(t)
  PROVE  SlotInv'
<1>1. PICK j : j = fileIdx[t]
  OBVIOUS
<1>2. Opening(t, {"absent", "directory", "empty"})
  BY DEF Skip
<1>3. /\ Holding(t) /\ j \in 1..NumArgs - 1 /\ SlotHolds(j, 0)
      /\ disk[Arg(j)].kind \in {"absent", "directory", "empty"}
  BY <1>1, <1>2, Opened
<1>4. /\ UNCHANGED <<inputs, line, loaded, total_count, resultStrs>>
      /\ searched' = [searched EXCEPT ![j] = @ + 1]
      /\ fileIdx' = IF t = 0 THEN [fileIdx EXCEPT ![t] = @ + 1] ELSE fileIdx
      /\ pc' = [pc EXCEPT ![t] = IF t = 0 THEN "test" ELSE "lock"]
  BY <1>1 DEF Skip, Continue, slots
<1>5. /\ pc \in [Searcher -> {"unborn", "lock", "increment", "claim", "test", "grep",
                              "store", "write", "exit"}]
      /\ fileIdx \in [Searcher -> Nat] /\ searched \in [0..NumArgs - 1 -> Nat]
  BY DEF SearchIndInv, IndInv, TypeOK
<1>6. ~Inside(t)'
  BY <1>4, <1>5 DEF Inside
<1>7. \A s \in Searcher \ {t} : /\ pc'[s] = pc[s] /\ fileIdx'[s] = fileIdx[s]
                                 /\ line'[s] = line[s] /\ loaded'[s] = loaded[s]
  BY <1>4, <1>5
<1>8. \A i \in 1..NumArgs - 1 : i # j => /\ searched'[i] = searched[i]
                                        /\ total_count'[i - 1] = total_count[i - 1]
                                        /\ resultStrs'[i - 1] = resultStrs[i - 1]
  BY <1>4, <1>5
<1>9. IdleHolds(j)'
  <2>1. searched[j] = 0
    BY <1>1, <1>2, Opened
  <2>2. j \in 0..NumArgs - 1
    BY <1>3, OwnSlots
  <2>3. searched'[j] = 1
    BY <1>4, <1>5, <2>1, <2>2
  <2>4. Promise!MatchingLines(Arg(j)) = 0
    BY <1>3 DEF Promise!MatchingLines
  <2>5. QED
    BY <1>3, <1>4, <2>3, <2>4, IdleAfter
<1>10. QED
  BY <1>1, <1>3, <1>4, <1>6, <1>7, <1>8, <1>9, SlotOwner

LEMMA SlotMap ==
  ASSUME SearchIndInv, Promised, SlotInv, NEW t \in Searcher, Map(t)
  PROVE  SlotInv'
<1>1. PICK j : j = fileIdx[t]
  OBVIOUS
<1>2. Opening(t, {"regular"})
  BY DEF Map
<1>3. Holding(t) /\ j \in 1..NumArgs - 1 /\ SlotHolds(j, 0) /\ searched[j] = 0
  BY <1>1, <1>2, Opened
<1>4. /\ UNCHANGED <<inputs, fileIdx, loaded, total_count, resultStrs>>
      /\ searched' = [searched EXCEPT ![j] = @ + 1]
      /\ line' = [line EXCEPT ![t] = 0]
      /\ pc' = [pc EXCEPT ![t] = "grep"]
  BY <1>1 DEF Map, claimVars, slots
<1>5. /\ pc \in [Searcher -> {"unborn", "lock", "increment", "claim", "test", "grep",
                              "store", "write", "exit"}]
      /\ line \in [Searcher -> Nat] /\ searched \in [0..NumArgs - 1 -> Nat]
  BY DEF SearchIndInv, IndInv, TypeOK
<1>6. j \in 0..NumArgs - 1
  BY <1>3, OwnSlots
<1>7. /\ \A s \in Searcher \ {t} : /\ pc'[s] = pc[s] /\ fileIdx'[s] = fileIdx[s]
                                    /\ line'[s] = line[s] /\ loaded'[s] = loaded[s]
      /\ pc'[t] = "grep" /\ line'[t] = 0 /\ fileIdx'[t] = j /\ searched'[j] = 1
  BY <1>1, <1>3, <1>4, <1>5, <1>6
<1>8. \A i \in 1..NumArgs - 1 : i # j => /\ searched'[i] = searched[i]
                                        /\ total_count'[i - 1] = total_count[i - 1]
                                        /\ resultStrs'[i - 1] = resultStrs[i - 1]
  BY <1>4, <1>5
<1>9. InsideHolds(t)'
  <2>3. 0 <= Promise!MatchingLines(FileName(t))
    BY <1>1, <1>3, MatchingType DEF FileName, SearchIndInv, IndInv
  <2>4. IF command.countOnly
        THEN total_count'[j - 1] = 0
        ELSE resultStrs'[j - 1] = Lines(FileName(t), 0)
    BY <1>1, <1>3, <1>4, Zenon DEF SlotHolds, FileName
  <2>5. QED
    BY <1>1, <1>3, <1>4, <1>7, <2>3, <2>4, InsideAfter
<1>10. Inside(t)'
  BY <1>7 DEF Inside
<1>11. QED
  BY <1>1, <1>3, <1>4, <1>7, <1>8, <1>9, <1>10, SlotOwner

LEMMA SlotUnmap ==
  ASSUME SearchIndInv, Promised, SlotInv, NEW t \in Searcher, Unmap(t)
  PROVE  SlotInv'
<1>1. PICK j : j = fileIdx[t]
  OBVIOUS
<1>2. pc[t] = "grep" /\ ~Unreported(t)
  BY DEF Unmap
<1>3. Holding(t) /\ InsideHolds(t)
  BY <1>2 DEF Holding, SlotInv, InsideInv, Inside
<1>4. /\ j \in 1..NumArgs - 1 /\ searched[j] = 1 /\ SlotHolds(j, line[t])
      /\ line[t] <= Promise!MatchingLines(FileName(t))
  BY <1>1, <1>2, <1>3 DEF InsideHolds
<1>5. /\ UNCHANGED <<inputs, line, loaded, total_count, resultStrs, searched>>
      /\ fileIdx' = IF t = 0 THEN [fileIdx EXCEPT ![t] = @ + 1] ELSE fileIdx
      /\ pc' = [pc EXCEPT ![t] = IF t = 0 THEN "test" ELSE "lock"]
  BY DEF Unmap, Continue, slots
<1>6. /\ pc \in [Searcher -> {"unborn", "lock", "increment", "claim", "test", "grep",
                              "store", "write", "exit"}]
      /\ fileIdx \in [Searcher -> Nat] /\ line \in [Searcher -> Nat]
  BY DEF SearchIndInv, IndInv, TypeOK
<1>7. ~Inside(t)'
  BY <1>5, <1>6 DEF Inside
<1>8. \A s \in Searcher \ {t} : /\ pc'[s] = pc[s] /\ fileIdx'[s] = fileIdx[s]
                                 /\ line'[s] = line[s] /\ loaded'[s] = loaded[s]
  BY <1>5, <1>6
<1>9. IdleHolds(j)'
  <2>3. Promise!MatchingLines(Arg(j)) \in Nat
    BY <1>4, MatchingType DEF SearchIndInv, IndInv
  <2>4. Promise!MatchingLines(Arg(j)) = line[t]
    BY <1>1, <1>2, <1>4, <1>6, <2>3 DEF FileName, Unreported
  <2>5. QED
    BY <1>4, <1>5, <2>4, IdleAfter
<1>10. QED
  BY <1>1, <1>3, <1>4, <1>5, <1>7, <1>8, <1>9, SlotOwner

LEMMA SlotLoad ==
  ASSUME SearchIndInv, Promised, SlotInv, NEW t \in Searcher, LoadCount(t)
  PROVE  SlotInv'
<1>1. PICK j : j = fileIdx[t]
  OBVIOUS
<1>2. pc[t] = "grep" /\ Unreported(t) /\ command.countOnly
  BY DEF LoadCount
<1>3. Holding(t) /\ InsideHolds(t)
  BY <1>2 DEF Holding, SlotInv, InsideInv, Inside
<1>4. /\ j \in 1..NumArgs - 1 /\ Idx(t) = j - 1 /\ total_count[j - 1] = line[t]
  BY <1>1, <1>2, <1>3, OwnSlots DEF InsideHolds, SlotHolds
<1>5. /\ UNCHANGED <<inputs, line, fileIdx, total_count, resultStrs, searched>>
      /\ loaded' = [loaded EXCEPT ![t] = line[t]]
      /\ pc' = [pc EXCEPT ![t] = "store"]
  BY <1>4 DEF LoadCount, claimVars, slots
<1>6. /\ pc \in [Searcher -> {"unborn", "lock", "increment", "claim", "test", "grep",
                              "store", "write", "exit"}]
      /\ loaded \in [Searcher -> Nat]
  BY DEF SearchIndInv, IndInv, TypeOK
<1>7. /\ \A s \in Searcher \ {t} : /\ pc'[s] = pc[s] /\ fileIdx'[s] = fileIdx[s]
                                    /\ line'[s] = line[s] /\ loaded'[s] = loaded[s]
      /\ pc'[t] = "store" /\ loaded'[t] = line'[t] /\ fileIdx'[t] = j
  BY <1>1, <1>5, <1>6
<1>8. InsideHolds(t)'
  <2>1. command' = command /\ disk' = disk
    BY <1>5 DEF inputs
  <2>2. /\ (fileIdx[t] \in 1..NumArgs - 1)' /\ (searched[fileIdx[t]] = 1)'
        /\ (line[t] <= Promise!MatchingLines(FileName(t)))' /\ Unreported(t)'
    BY <1>2, <1>3, <1>5, <2>1, Zenon DEF InsideHolds, Unreported, FileName, NumArgs,
       Promise!NumArgs, Arg, Promise!Arg, Promise!MatchingLines
  <2>3. SlotHolds(fileIdx[t], line[t])'
    BY <1>1, <1>2, <1>4, <1>5, <2>1, Zenon DEF SlotHolds
  <2>4. pc'[t] # "write"
    BY <1>7
  <2>5. QED
    BY <1>2, <1>7, <2>1, <2>2, <2>3, <2>4, Zenon DEF InsideHolds
<1>9. Inside(t)'
  BY <1>7 DEF Inside
<1>10. QED
  BY <1>1, <1>3, <1>4, <1>5, <1>7, <1>8, <1>9, SlotOwner

LEMMA SlotStore ==
  ASSUME SearchIndInv, Promised, SlotInv, NEW t \in Searcher, StoreCount(t)
  PROVE  SlotInv'
<1>1. PICK j : j = fileIdx[t]
  OBVIOUS
<1>2. pc[t] = "store"
  BY DEF StoreCount
<1>3. Holding(t) /\ InsideHolds(t) /\ Reporting(t)
  BY <1>2 DEF Holding, SlotInv, InsideInv, Inside, Reporting
<1>4. /\ j \in 1..NumArgs - 1 /\ Idx(t) = j - 1 /\ searched[j] = 1
      /\ command.countOnly /\ loaded[t] = line[t] /\ Unreported(t)
  BY <1>1, <1>2, <1>3, OwnSlots DEF InsideHolds
<1>5. /\ UNCHANGED <<inputs, loaded, fileIdx, resultStrs, searched>>
      /\ total_count' = [total_count EXCEPT ![j - 1] = line[t] + 1]
      /\ line' = [line EXCEPT ![t] = @ + 1]
      /\ pc' = [pc EXCEPT ![t] = "grep"]
  BY <1>4 DEF StoreCount, claimVars, slots
<1>6. /\ pc \in [Searcher -> {"unborn", "lock", "increment", "claim", "test", "grep",
                              "store", "write", "exit"}]
      /\ line \in [Searcher -> Nat] /\ total_count \in [0..NumArgs - 1 -> Nat]
  BY DEF SearchIndInv, IndInv, TypeOK
<1>7. /\ \A s \in Searcher \ {t} : /\ pc'[s] = pc[s] /\ fileIdx'[s] = fileIdx[s]
                                    /\ line'[s] = line[s] /\ loaded'[s] = loaded[s]
      /\ pc'[t] = "grep" /\ line'[t] = line[t] + 1 /\ fileIdx'[t] = j /\ searched'[j] = 1
  BY <1>1, <1>4, <1>5, <1>6
<1>8. \A i \in 1..NumArgs - 1 : i # j => /\ searched'[i] = searched[i]
                                        /\ total_count'[i - 1] = total_count[i - 1]
                                        /\ resultStrs'[i - 1] = resultStrs[i - 1]
  BY <1>4, <1>5, <1>6, OwnSlots
<1>9. InsideHolds(t)'
  <2>1. j - 1 \in 0..NumArgs - 1
    BY <1>4, OwnSlots
  <2>2. total_count'[j - 1] = line[t] + 1
    BY <1>5, <1>6, <2>1
  <2>3. line[t] + 1 <= Promise!MatchingLines(FileName(t))
    BY <1>1, <1>4, <1>6, MatchingType DEF Unreported, SearchIndInv, IndInv, FileName
  <2>4. QED
    BY <1>1, <1>4, <1>5, <1>7, <2>2, <2>3, InsideAfter
<1>10. Inside(t)'
  BY <1>7 DEF Inside
<1>11. QED
  BY <1>1, <1>3, <1>4, <1>5, <1>7, <1>8, <1>9, <1>10, SlotOwner

LEMMA SlotName ==
  ASSUME SearchIndInv, Promised, SlotInv, NEW t \in Searcher, WriteName(t)
  PROVE  SlotInv'
<1>1. PICK j : j = fileIdx[t]
  OBVIOUS
<1>2. pc[t] = "grep" /\ Unreported(t) /\ ~command.countOnly
  BY DEF WriteName
<1>3. Holding(t) /\ InsideHolds(t)
  BY <1>2 DEF Holding, SlotInv, InsideInv, Inside
<1>4. /\ j \in 1..NumArgs - 1 /\ Idx(t) = j - 1
      /\ resultStrs[j - 1] = Lines(FileName(t), line[t])
  BY <1>1, <1>2, <1>3, OwnSlots DEF InsideHolds, SlotHolds, FileName
<1>5. /\ UNCHANGED <<inputs, line, loaded, fileIdx, total_count, searched>>
      /\ resultStrs' = [resultStrs EXCEPT ![j - 1] = @ \o Promise!NameToken(FileName(t))]
      /\ pc' = [pc EXCEPT ![t] = "write"]
  BY <1>4 DEF WriteName, claimVars, slots
<1>6. /\ pc \in [Searcher -> {"unborn", "lock", "increment", "claim", "test", "grep",
                              "store", "write", "exit"}]
      /\ DOMAIN resultStrs = 0..NumArgs - 1
  BY DEF SearchIndInv, IndInv, TypeOK
<1>7. /\ \A s \in Searcher \ {t} : /\ pc'[s] = pc[s] /\ fileIdx'[s] = fileIdx[s]
                                    /\ line'[s] = line[s] /\ loaded'[s] = loaded[s]
      /\ pc'[t] = "write" /\ fileIdx'[t] = j
  BY <1>1, <1>5, <1>6
<1>8. \A i \in 1..NumArgs - 1 : i # j => /\ searched'[i] = searched[i]
                                        /\ total_count'[i - 1] = total_count[i - 1]
                                        /\ resultStrs'[i - 1] = resultStrs[i - 1]
  BY <1>4, <1>5, <1>6, OwnSlots
<1>9. InsideHolds(t)'
  <2>1. command' = command /\ disk' = disk
    BY <1>5 DEF inputs
  <2>2. /\ (fileIdx[t] \in 1..NumArgs - 1)' /\ (searched[fileIdx[t]] = 1)'
        /\ (line[t] <= Promise!MatchingLines(FileName(t)))' /\ Unreported(t)'
    BY <1>2, <1>3, <1>5, <2>1, Zenon DEF InsideHolds, Unreported, FileName, NumArgs,
       Promise!NumArgs, Arg, Promise!Arg, Promise!MatchingLines
  <2>3. j - 1 \in 0..NumArgs - 1
    BY <1>4, OwnSlots
  <2>4. resultStrs'[j - 1] = Lines(FileName(t), line[t]) \o Promise!NameToken(FileName(t))
    BY <1>4, <1>5, <1>6, <2>3
  <2>5. (resultStrs[fileIdx[t] - 1] =
           Lines(FileName(t), line[t]) \o Promise!NameToken(FileName(t)))'
    BY <1>1, <1>5, <2>1, <2>4, Zenon DEF FileName, Arg, Promise!Arg, Lines, Tokens,
       Promise!NameToken, Promise!LineToken, Promise!NamesShown, Promise!NumArgs, Promise!FirstFile
  <2>6. pc'[t] # "store"
    BY <1>7
  <2>7. QED
    BY <1>2, <1>7, <2>1, <2>2, <2>5, <2>6, Zenon DEF InsideHolds
<1>10. Inside(t)'
  BY <1>7 DEF Inside
<1>11. QED
  BY <1>1, <1>3, <1>4, <1>5, <1>7, <1>8, <1>9, <1>10, SlotOwner

LEMMA SlotLine ==
  ASSUME SearchIndInv, Promised, SlotInv, NEW t \in Searcher, WriteLine(t)
  PROVE  SlotInv'
<1>1. PICK j : j = fileIdx[t]
  OBVIOUS
<1>2. pc[t] = "write"
  BY DEF WriteLine
<1>3. Holding(t) /\ InsideHolds(t) /\ Reporting(t)
  BY <1>2 DEF Holding, SlotInv, InsideInv, Inside, Reporting
<1>4. /\ j \in 1..NumArgs - 1 /\ Idx(t) = j - 1 /\ searched[j] = 1
      /\ ~command.countOnly /\ Unreported(t)
      /\ resultStrs[j - 1] = Lines(FileName(t), line[t]) \o Promise!NameToken(FileName(t))
  BY <1>1, <1>2, <1>3, OwnSlots DEF InsideHolds
<1>5. /\ UNCHANGED <<inputs, loaded, fileIdx, total_count, searched>>
      /\ resultStrs' = [resultStrs EXCEPT ![j - 1] =
                          @ \o Promise!LineToken(FileName(t), line[t] + 1)]
      /\ line' = [line EXCEPT ![t] = @ + 1]
      /\ pc' = [pc EXCEPT ![t] = "grep"]
  BY <1>4 DEF WriteLine, claimVars, slots
<1>6. /\ pc \in [Searcher -> {"unborn", "lock", "increment", "claim", "test", "grep",
                              "store", "write", "exit"}]
      /\ line \in [Searcher -> Nat] /\ DOMAIN resultStrs = 0..NumArgs - 1
  BY DEF SearchIndInv, IndInv, TypeOK
<1>7. /\ \A s \in Searcher \ {t} : /\ pc'[s] = pc[s] /\ fileIdx'[s] = fileIdx[s]
                                    /\ line'[s] = line[s] /\ loaded'[s] = loaded[s]
      /\ pc'[t] = "grep" /\ line'[t] = line[t] + 1 /\ fileIdx'[t] = j /\ searched'[j] = 1
  BY <1>1, <1>4, <1>5, <1>6
<1>8. \A i \in 1..NumArgs - 1 : i # j => /\ searched'[i] = searched[i]
                                        /\ total_count'[i - 1] = total_count[i - 1]
                                        /\ resultStrs'[i - 1] = resultStrs[i - 1]
  BY <1>4, <1>5, <1>6, OwnSlots
<1>9. InsideHolds(t)'
  <2>1. j - 1 \in 0..NumArgs - 1
    BY <1>4, OwnSlots
  <2>2. resultStrs'[j - 1] =
          (Lines(FileName(t), line[t]) \o Promise!NameToken(FileName(t)))
            \o Promise!LineToken(FileName(t), line[t] + 1)
    BY <1>4, <1>5, <1>6, <2>1
  <2>3. resultStrs'[j - 1] = Lines(FileName(t), line[t] + 1)
    <3>1. line[t] \in Nat
      BY <1>6
    <3>2. QED
      BY <2>2, <3>1, LinesGrow, LineAssociates, Zenon
  <2>4. line[t] + 1 <= Promise!MatchingLines(FileName(t))
    BY <1>1, <1>4, <1>6, MatchingType DEF Unreported, SearchIndInv, IndInv, FileName
  <2>5. QED
    BY <1>1, <1>4, <1>5, <1>7, <2>3, <2>4, InsideAfter
<1>10. Inside(t)'
  BY <1>7 DEF Inside
<1>11. QED
  BY <1>1, <1>3, <1>4, <1>5, <1>7, <1>8, <1>9, <1>10, SlotOwner

-----------------------------------------------------------------------------
(* What is printed.                                                        *)

LEMMA PrintReport ==
  ASSUME SearchIndInv, Promised, SlotInv, PrintResult
  PROVE  output' = Promise!Report
<1>1. \A t \in Searcher : pc[t] = "exit"
  BY SearcherType DEF PrintResult, SearchIndInv, ExitInv, IndInv, ThreadPool
<1>2. /\ NumArgs = Promise!NumArgs /\ Promise!FirstFile = 1 /\ NumArgs \in Nat
      /\ \A i : Arg(i) = Promise!Arg(i)
  BY OwnSlots DEF NumArgs, firstInputFile, Arg
<1>3. \A i \in 1..NumArgs - 1 : PrintedSlot(i) = Promise!FileReport(Arg(i))
  <2> SUFFICES ASSUME NEW i \in 1..NumArgs - 1
               PROVE  PrintedSlot(i) = Promise!FileReport(Arg(i))
    OBVIOUS
  <2>1. SlotHolds(i, Promise!MatchingLines(Arg(i)))
    BY <1>1, AllSearched DEF SlotInv, IdleInv, IdleHolds, Inside
  <2>2. QED
    BY <2>1, Zenon DEF SlotHolds, PrintedSlot, Promise!FileReport, Lines, Tokens
<1>4. [i \in 1..NumArgs - 1 |-> PrintedSlot(i)]
        = [k \in 1..(Promise!NumArgs - Promise!FirstFile) |->
             Promise!FileReport(Promise!Arg(Promise!FirstFile + k - 1))]
  <2>1. \A k \in 1..NumArgs - 1 : 1 + k - 1 = k
    OBVIOUS
  <2>2. QED
    BY <1>2, <1>3, <2>1
<1>5. QED
  BY <1>4, Zenon DEF PrintResult, Promise!Report

LEMMA InitOutput == Init => OutputIndInv
<1> SUFFICES ASSUME Init PROVE OutputIndInv
  OBVIOUS
<1>1. SearchIndInv
  BY InitIndInv, InitSearch DEF SearchIndInv
<1>2. \A t \in Searcher : ~Inside(t)
  BY DEF Init, Inside
<1>3. InsideInv
  BY <1>2 DEF InsideInv
<1>4. ASSUME NEW i \in 1..NumArgs - 1 PROVE IdleHolds(i)
  <2>1. i - 1 \in Slots /\ i \in 0..NumArgs - 1
    BY NumArgsType, <1>1 DEF Slots, SearchIndInv, IndInv
  <2>2. total_count[i - 1] = 0 /\ resultStrs[i - 1] = << >> /\ searched[i] = 0
    BY <2>1 DEF Init
  <2>3. Lines(Arg(i), 0) = << >>
    BY LinesGrow
  <2>4. QED
    BY <2>2, <2>3 DEF IdleHolds, SlotHolds
<1>5. SlotInv /\ PrintedAsPromised
  BY <1>3, <1>4 DEF Init, SlotInv, IdleInv, PrintedAsPromised
<1>6. QED
  BY <1>1, <1>5 DEF OutputIndInv

\* Every step keeps the command and the files, and the slots right.
LEMMA NextSlots ==
  ASSUME SearchIndInv, Promised, SlotInv, [Next]_vars
  PROVE  UNCHANGED inputs /\ SlotInv'
<1>0. UNCHANGED inputs
  BY DEF Next, Main, DoGrep, CreateThread, CreateThreadFails, Terminate, JoinThread, PrintResult,
     Lock, Increment, Claim, Leave, Skip, MapFails, Map, LoadCount, StoreCount, WriteName,
     WriteLine, Unmap, vars
<1>t. pc \in [Searcher -> {"unborn", "lock", "increment", "claim", "test", "grep",
                           "store", "write", "exit"}] /\ fileIdx \in [Searcher -> Nat]
  BY DEF SearchIndInv, IndInv, TypeOK
<1>1. CASE CreateThread
  <2>1. created + 1 \in ThreadPool /\ created + 1 \in Searcher
    BY <1>1, SearcherType DEF CreateThread, SearchIndInv, IndInv, TypeOK, ThreadPool, PoolSize
  <2>2. pc[created + 1] = "unborn"
    BY <2>1 DEF SearchIndInv, IndInv, TypeOK, BornInv
  <2>3. \A s \in Searcher : \/ pc'[s] = pc[s] /\ fileIdx'[s] = fileIdx[s]
                            \/ ~Inside(s) /\ pc'[s] \notin {"grep", "store", "write"}
    BY <1>1, <1>t, <2>1, <2>2 DEF CreateThread, Inside, claimVars
  <2>4. QED
    BY <1>1, <2>3, SlotQuiet DEF CreateThread
<1>2. CASE CreateThreadFails \/ JoinThread \/ PrintResult \/ UNCHANGED vars
  <2>1. UNCHANGED <<inputs, line, loaded, slots, searched, pc, fileIdx>>
    BY <1>2 DEF CreateThreadFails, Terminate, JoinThread, PrintResult, claimVars, vars
  <2>2. QED
    BY <2>1, SlotQuiet
<1>3. ASSUME NEW t \in Searcher, Lock(t) \/ Increment(t) \/ Claim(t) \/ Leave(t) \/ MapFails(t)
      PROVE  SlotInv'
  <2>1. UNCHANGED <<inputs, line, loaded, slots, searched>>
    BY <1>3 DEF Lock, Increment, Claim, Leave, MapFails, Terminate
  <2>2. \A s \in Searcher : \/ pc'[s] = pc[s] /\ fileIdx'[s] = fileIdx[s]
                            \/ ~Inside(s) /\ pc'[s] \notin {"grep", "store", "write"}
    BY <1>3, <1>t DEF Lock, Increment, Claim, Leave, MapFails, Terminate, Inside, claimVars
  <2>3. QED
    BY <2>1, <2>2, SlotQuiet
<1>4. ASSUME NEW t \in Searcher, Skip(t) \/ Map(t) \/ LoadCount(t) \/ StoreCount(t)
                                    \/ WriteName(t) \/ WriteLine(t) \/ Unmap(t)
      PROVE  SlotInv'
  BY <1>4, SlotSkip, SlotMap, SlotLoad, SlotStore, SlotName, SlotLine, SlotUnmap
<1>5. QED
  BY <1>0, <1>1, <1>2, <1>3, <1>4 DEF Next, Main, DoGrep

\* Only the last step prints; any other that shows ends the process.
LEMMA NextPromise ==
  ASSUME SearchIndInv, Promised, SlotInv, [Next]_vars
  PROVE  Promise!SpecNext \/ UNCHANGED <<output, status>>
<1>1. CASE PrintResult /\ status = "running"
  <2>1. output' = Promise!Report
    BY <1>1, PrintReport
  <2>2. QED
    BY <1>1, <2>1 DEF PrintResult, inputs, Promise!SpecNext, Promise!Finish
<1>2. ASSUME status = "running", Terminate PROVE Promise!SpecNext
  BY <1>2 DEF Terminate, inputs, mainVars, Promise!SpecNext, Promise!Abort
<1>3. CASE UNCHANGED vars
  BY <1>3 DEF vars, mainVars
<1>4. CASE CreateThread \/ JoinThread
  BY <1>4 DEF CreateThread, JoinThread
<1>5. ASSUME NEW t \in Searcher, DoGrep(t), ~MapFails(t) PROVE UNCHANGED <<output, status>>
  BY <1>5 DEF DoGrep, Lock, Increment, Claim, Leave, Skip, Map, LoadCount, StoreCount, WriteName,
     WriteLine, Unmap, mainVars
<1>6. QED
  BY <1>1, <1>2, <1>3, <1>4, <1>5 DEF Next, Main, CreateThreadFails, MapFails

LEMMA NextOutput == OutputIndInv /\ [Next]_vars => OutputIndInv'
<1> SUFFICES ASSUME OutputIndInv, [Next]_vars PROVE OutputIndInv'
  OBVIOUS
<1>1. SearchIndInv /\ SearchIndInv'
  BY NextIndInv, NextSearch, NextExit DEF OutputIndInv, SearchIndInv
<1>2. UNCHANGED inputs
  BY DEF Next, Main, DoGrep, CreateThread, CreateThreadFails, Terminate, JoinThread, PrintResult,
     Lock, Increment, Claim, Leave, Skip, MapFails, Map, LoadCount, StoreCount, WriteName,
     WriteLine, Unmap, vars
<1>3. Promise!Report' = Promise!Report /\ (Promised' <=> Promised)
  BY <1>2, PromisedFrame
<1>4. ASSUME Promised PROVE SlotInv' /\ PrintedAsPromised'
  <2>1. SlotInv /\ PrintedAsPromised
    BY <1>4 DEF OutputIndInv
  <2>2. SlotInv'
    BY <1>1, <1>4, <2>1, NextSlots
  <2>3. CASE UNCHANGED <<output, status>>
    BY <1>3, <2>1, <2>2, <2>3 DEF PrintedAsPromised
  <2>4. CASE Promise!SpecNext
    BY <1>3, <2>2, <2>4 DEF PrintedAsPromised, Promise!SpecNext, Promise!Finish, Promise!Abort
  <2>5. QED
    BY <1>1, <1>4, <2>1, <2>2, <2>3, <2>4, NextPromise
<1>5. QED
  BY <1>1, <1>3, <1>4 DEF OutputIndInv

LEMMA SpecOutputIndInv == Spec => []OutputIndInv
  BY InitOutput, NextOutput, PTL DEF Spec, Safe

\* Whatever the threads do, each file's own lines or count are printed, complete
\* and in command-line order, if the pattern is the first argument and no file
\* is named twice.
THEOREM SpecPrintedAsPromised == Spec => [](Promised => PrintedAsPromised)
<1>1. OutputIndInv => (Promised => PrintedAsPromised)
  BY DEF OutputIndInv
<1>2. QED
  BY <1>1, SpecOutputIndInv, PTL

\* For the same commands, the steps of the driver are steps of what the command
\* promises: it prints once and at the end, or is aborted and prints nothing.
THEOREM SpecKeepsPromise ==
  Spec => Promise!SpecInit /\ [][Promised => Promise!SpecNext]_(Promise!specVars)
<1>1. Init => Promise!SpecInit
  BY DEF Init, Promise!SpecInit
<1>2. OutputIndInv /\ [Next]_vars => [Promised => Promise!SpecNext]_(Promise!specVars)
  <2> SUFFICES ASSUME OutputIndInv, Promised, [Next]_vars
               PROVE  Promise!SpecNext \/ UNCHANGED Promise!specVars
    BY Zenon
  <2>1. SearchIndInv /\ SlotInv
    BY DEF OutputIndInv
  <2>2. UNCHANGED <<command, disk>>
    BY <2>1, NextSlots DEF inputs
  <2>3. Promise!SpecNext \/ UNCHANGED <<output, status>>
    BY <2>1, NextPromise
  <2>4. QED
    BY <2>2, <2>3 DEF Promise!specVars
<1>3. QED
  BY <1>1, <1>2, SpecOutputIndInv, PTL DEF Spec, Safe
=============================================================================
