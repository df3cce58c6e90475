----------------------- MODULE ThreadPrograms_proofs -----------------------
(***************************************************************************)
(* For any number of threads, batch and MAX_SIZE: what rwlock.c,           *)
(* threads_deadlock.c, threads_basic.c, producer_bug.c and                 *)
(* producer_bug_busywait.c keep, whichever order their threads come in.    *)
(***************************************************************************)
EXTENDS RwCounter, LockOrder, ForkJoin, BusyWaitProducerConsumer,
        RacyProducerConsumer, TLAPS
-----------------------------------------------------------------------------
(* rwlock.c: the readers see whole batches and leave nothing unread behind. *)

RwTypeOK ==
  /\ rwReading \in SUBSET RwReaders /\ rwWriting \in BOOLEAN
  /\ rwCounter \in Nat /\ rwLeft \in 0 .. RwBatch /\ rwReg \in Nat \cup {-1}
  /\ rwPc \in [RwReaders -> {"lock", "read", "unlock"}]
  /\ rwIndex \in [RwReaders -> Nat]

\* The lock is what its name says.
RwExclusion ==
  /\ rwWriting => rwReading = {}
  /\ \A r \in RwReaders : rwPc[r] # "lock" => r \in rwReading

\* The writer counts only while it has the lock, from what it loaded.
RwBatches ==
  /\ ~rwWriting => rwLeft = 0
  /\ rwLeft = 0 => rwReg = -1
  /\ rwReg # -1 => rwReg = rwCounter
  /\ (rwCounter + rwLeft) % RwBatch = 0

RwPrinted ==
  \A r \in RwReaders : /\ rwIndex[r] <= rwCounter
                       /\ rwPc[r] = "unlock" => rwIndex[r] = rwCounter

RwIInv == RwTypeOK /\ RwExclusion /\ RwBatches /\ RwPrinted

-----------------------------------------------------------------------------
\* A multiple leaves no remainder.
LEMMA Multiple == \A b \in Nat \ {0}, k \in Int : (b * k) % b = 0
  BY SMT

\* One more batch keeps a count of whole batches.
LEMMA OneMore ==
  ASSUME NEW b \in Nat \ {0}, NEW n \in Nat, n % b = 0 PROVE (n + b) % b = 0
<1>1. n = b * (n \div b) + (n % b) /\ n \div b \in Int
  BY SMT
<1>2. PICK k \in Int : n = b * k
  BY <1>1
<1>3. n + b = b * (k + 1) /\ k + 1 \in Int
  BY <1>2, SMT
<1> QED BY <1>3, Multiple

\* The invariant holds initially.
LEMMA RwInitIInv == RwInit => RwIInv
<1> SUFFICES ASSUME RwInit PROVE RwIInv
  OBVIOUS
<1>1. RwTypeOK /\ RwExclusion /\ RwPrinted
  <2>1. rwCounter \in Nat /\ rwLeft \in 0 .. RwBatch /\ rwReg \in Nat \cup {-1}
    BY RwAssumption DEF RwInit
  <2>2. rwReading \in SUBSET RwReaders /\ rwWriting \in BOOLEAN
    BY DEF RwInit
  <2>3. rwPc \in [RwReaders -> {"lock", "read", "unlock"}] /\ rwIndex \in [RwReaders -> Nat]
    BY DEF RwInit
  <2>4. RwExclusion /\ RwPrinted
    BY DEF RwInit, RwExclusion, RwPrinted
  <2> QED BY <2>1, <2>2, <2>3, <2>4 DEF RwTypeOK
<1>2. (0 + 0) % RwBatch = 0
  BY RwAssumption, Multiple, RwBatch * 0 = 0
<1> QED BY <1>1, <1>2 DEF RwInit, RwBatches, RwIInv

\* The writer's steps keep it: it moves the counter when nobody reads.
LEMMA RwWriterIInv == RwIInv /\ RwWriter => RwIInv'
<1> SUFFICES ASSUME RwIInv, RwWriter PROVE RwIInv'
  OBVIOUS
<1> USE RwAssumption DEF RwIInv
<1>1. CASE RwWrLock
  <2>1. (rwCounter + RwBatch) % RwBatch = 0
    <3>1. rwLeft = 0 /\ rwCounter + 0 = rwCounter /\ rwCounter \in Nat
      BY <1>1 DEF RwWrLock, RwBatches, RwTypeOK
    <3> QED BY <3>1, OneMore DEF RwBatches
  <2>2. rwReg = -1
    BY <1>1 DEF RwWrLock, RwBatches
  <2> QED BY <1>1, <2>1, <2>2 DEF RwWrLock, RwTypeOK, RwExclusion, RwBatches, RwPrinted
<1>2. CASE RwLoad
  BY <1>2 DEF RwLoad, RwTypeOK, RwExclusion, RwBatches, RwPrinted
<1>3. CASE RwStore
  <2>1. /\ rwCounter' = rwCounter + 1 /\ rwReg' = -1 /\ rwLeft' = rwLeft - 1
        /\ rwLeft > 0 /\ rwWriting /\ UNCHANGED <<rwReading, rwWriting, rwPc, rwIndex>>
    BY <1>3 DEF RwStore, RwBatches, RwTypeOK
  <2>2. rwCounter' + rwLeft' = rwCounter + rwLeft
    BY <2>1 DEF RwTypeOK
  <2>3. RwTypeOK' /\ RwExclusion'
    BY <2>1 DEF RwTypeOK, RwExclusion
  <2>4. RwBatches'
    BY <2>1, <2>2 DEF RwBatches
  <2>5. \A r \in RwReaders : rwPc[r] = "lock"
    BY <2>1 DEF RwExclusion
  <2>6. RwPrinted'
    BY <2>1, <2>5 DEF RwPrinted, RwTypeOK
  <2> QED BY <2>3, <2>4, <2>6
<1>4. CASE RwWrUnlock
  BY <1>4 DEF RwWrUnlock, RwTypeOK, RwExclusion, RwBatches, RwPrinted
<1> QED BY <1>1, <1>2, <1>3, <1>4 DEF RwWriter

\* The readers' steps keep it.
LEMMA RwReaderIInv == ASSUME NEW r \in RwReaders, RwIInv, RwReader(r) PROVE RwIInv'
<1> USE RwAssumption DEF RwIInv, RwGoto
<1>1. RwBatches'
  BY DEF RwReader, RwRdLock, RwRead, RwRdUnlock, RwBatches
<1>2. CASE RwRdLock(r)
  BY <1>1, <1>2 DEF RwRdLock, RwTypeOK, RwExclusion, RwPrinted
<1>3. CASE RwRead(r)
  <2>1. r \in rwReading
    BY <1>3 DEF RwRead, RwExclusion
  <2> QED BY <1>1, <1>3, <2>1 DEF RwRead, RwTypeOK, RwExclusion, RwPrinted
<1>4. CASE RwRdUnlock(r)
  BY <1>1, <1>4 DEF RwRdUnlock, RwTypeOK, RwExclusion, RwPrinted
<1> QED BY <1>2, <1>3, <1>4 DEF RwReader

\* Every step keeps the invariant.
LEMMA RwNextIInv == RwIInv /\ [RwNext]_rwVars => RwIInv'
<1>1. RwIInv /\ UNCHANGED rwVars => RwIInv'
  BY DEF RwIInv, RwTypeOK, RwExclusion, RwBatches, RwPrinted, rwVars
<1> QED BY <1>1, RwWriterIInv, RwReaderIInv DEF RwNext

\* The inductive invariant, from which the theorem below is read off.
LEMMA RwInvariance == RwSpec => []RwIInv
  BY RwInitIInv, RwNextIInv, PTL DEF RwSpec

\* A reader of rwlock.c that has the lock finds whole batches, and gives the
\* lock back with every number printed that there is.
THEOREM WholeBatches == RwSpec => []RwWholeBatches
<1>1. RwIInv => RwWholeBatches
  <2> SUFFICES ASSUME RwIInv PROVE RwWholeBatches
    OBVIOUS
  <2>1. ASSUME NEW r \in RwReaders, rwPc[r] # "lock" PROVE rwCounter % RwBatch = 0
    <3>1. rwLeft = 0 /\ rwCounter + rwLeft = rwCounter
      BY <2>1 DEF RwIInv, RwExclusion, RwBatches, RwTypeOK
    <3> QED BY <3>1 DEF RwIInv, RwBatches
  <2> QED BY <2>1 DEF RwIInv, RwPrinted, RwWholeBatches
<1> QED BY <1>1, RwInvariance, PTL

-----------------------------------------------------------------------------
(* threads_deadlock.c cannot end. *)

DlTypeOK ==
  /\ dlOwner \in [{1, 2} -> DlThreads \cup {"nobody"}]
  /\ dlPc \in [DlThreads -> 0 .. 3]
  /\ dlJoined \in 0 .. 2

\* A thread that has taken its n-th mutex has it from then on.
DlHolds ==
  \A t \in DlThreads, n \in {1, 2} : dlPc[t] >= n => dlOwner[DlTakes(t, n)] = t

DlFirstJoined == dlJoined >= 1 => dlPc["dead"] = 3

DlIInv == DlTypeOK /\ DlHolds /\ DlFirstJoined /\ dlJoined < 2

\* The invariant holds initially.
LEMMA DlInitIInv == DlInit => DlIInv
  BY DEF DlInit, DlIInv, DlTypeOK, DlHolds, DlFirstJoined, DlThreads

\* Both threads cannot have come to their second mutex.
LEMMA OneIsStuck == DlTypeOK /\ DlHolds => ~(dlPc["dead"] >= 2 /\ dlPc["lock"] >= 2)
<1> SUFFICES ASSUME DlHolds, dlPc["dead"] >= 2, dlPc["lock"] >= 2, DlTypeOK PROVE FALSE
  OBVIOUS
<1>1. dlOwner[DlTakes("dead", 1)] = "dead"
  BY DEF DlHolds, DlThreads, DlTypeOK
<1>2. dlOwner[DlTakes("lock", 2)] = "lock"
  BY DEF DlHolds, DlThreads, DlTypeOK
<1> QED BY <1>1, <1>2 DEF DlTakes

\* Every step keeps it: the second join needs what OneIsStuck excludes.
LEMMA DlNextIInv == DlIInv /\ [DlNext]_dlVars => DlIInv'
<1> SUFFICES ASSUME DlIInv, [DlNext]_dlVars PROVE DlIInv'
  OBVIOUS
<1>1. ASSUME NEW t \in DlThreads, DlLock(t) PROVE DlIInv'
  <2>1. DlTypeOK'
    BY <1>1 DEF DlIInv, DlTypeOK, DlLock, DlThreads, DlTakes
  <2>2. DlHolds'
    BY <1>1 DEF DlIInv, DlTypeOK, DlHolds, DlLock, DlThreads, DlTakes
  <2> QED BY <1>1, <2>1, <2>2 DEF DlIInv, DlTypeOK, DlFirstJoined, DlLock, DlThreads
<1>2. ASSUME NEW t \in DlThreads, DlReturn(t) PROVE DlIInv'
  BY <1>2 DEF DlIInv, DlTypeOK, DlHolds, DlFirstJoined, DlReturn, DlThreads
<1>3. CASE DlJoin
  <2>1. dlJoined = 0
    BY <1>3, OneIsStuck DEF DlIInv, DlTypeOK, DlFirstJoined, DlJoin, DlThreads
  <2> QED BY <1>3, <2>1 DEF DlIInv, DlTypeOK, DlHolds, DlFirstJoined, DlJoin
<1>4. CASE UNCHANGED dlVars
  BY <1>4 DEF DlIInv, DlTypeOK, DlHolds, DlFirstJoined, dlVars
<1> QED BY <1>1, <1>2, <1>3, <1>4 DEF DlNext

\* main of threads_deadlock.c never joins both threads: neither gives a mutex
\* back, and each needs both.
THEOREM NeverReturns == DlSpec => []DlMainNeverReturns
<1>1. DlIInv => DlMainNeverReturns
  BY DEF DlIInv, DlMainNeverReturns
<1> QED BY <1>1, DlInitIInv, DlNextIInv, PTL DEF DlSpec

-----------------------------------------------------------------------------
(* threads_basic.c prints the double of every argument. *)

FjTypeOK ==
  /\ fjNum \in 0 .. FjMaxThreads /\ fjI \in 0 .. fjNum
  /\ fjMain \in {"create", "join", "free", "returned", "aborted"}
  /\ fjArgs \in [FjIds -> Int]
  /\ fjPc \in [FjIds -> {"none", "print", "double", "done"}]
  /\ fjPrinted \in Seq(Int)

\* A thread has its own number in input_args until it has doubled it.
FjArguments ==
  \A i \in FjIds : /\ fjPc[i] \in {"print", "double"} => fjArgs[i] = i
                   /\ fjPc[i] = "done" => fjArgs[i] = 2 * i
                   /\ fjMain = "create" /\ i >= fjI => fjPc[i] = "none"

\* What main has joined has ended and is printed.
FjJoined ==
  /\ fjMain \in {"create", "aborted"} => fjPrinted = <<>>
  /\ fjMain = "join" => Len(fjPrinted) = fjI /\ \A i \in FjIds : i < fjI => fjPc[i] = "done"
  /\ fjMain \in {"free", "returned"} => \A i \in FjIds : i < fjNum => fjPc[i] = "done"
  /\ \A k \in DOMAIN fjPrinted : fjPrinted[k] = 2 * (k - 1)

FjIInv == FjTypeOK /\ FjArguments /\ FjJoined

\* The invariant holds initially.
LEMMA FjInitIInv == FjInit => FjIInv
<1> SUFFICES ASSUME FjInit PROVE FjIInv
  OBVIOUS
<1>1. FjTypeOK
  BY FjAssumption DEF FjInit, FjTypeOK
<1>2. FjArguments /\ FjJoined
  BY DEF FjInit, FjArguments, FjJoined
<1> QED BY <1>1, <1>2 DEF FjIInv

\* main's steps keep it.
LEMMA FjMainIInv == FjIInv /\ FjMainStep => FjIInv'
<1> SUFFICES ASSUME FjIInv, FjMainStep PROVE FjIInv'
  OBVIOUS
<1> USE FjAssumption DEF FjIInv, FjIds
<1>1. CASE FjCreate
  <2> USE <1>1 DEF FjCreate
  <2>1. fjI \in FjIds /\ fjI + 1 \in 0 .. fjNum /\ fjI \in Int
    BY DEF FjTypeOK
  <2>2. fjArgs' \in [FjIds -> Int]
    BY <2>1 DEF FjTypeOK
  <2>3. fjPc' \in [FjIds -> {"none", "print", "double", "done"}]
    BY <2>1 DEF FjTypeOK
  <2>4. fjNum' = fjNum /\ fjI' \in 0 .. fjNum /\ fjPrinted' = fjPrinted
        /\ fjMain' \in {"create", "aborted"}
    BY <2>1 DEF FjTypeOK
  <2>5. FjTypeOK'
    BY <2>2, <2>3, <2>4 DEF FjTypeOK
  <2>6. FjArguments'
    BY DEF FjTypeOK, FjArguments
  <2>7. FjJoined'
    BY DEF FjTypeOK, FjJoined
  <2> QED BY <2>5, <2>6, <2>7
<1>2. CASE FjLoopEnds
  BY <1>2 DEF FjLoopEnds, FjTypeOK, FjArguments, FjJoined
<1>3. CASE FjJoin
  <2> USE <1>3 DEF FjJoin
  <2>1. fjI \in FjIds /\ fjArgs[fjI] = 2 * fjI
    BY DEF FjTypeOK, FjArguments
  <2>2. FjTypeOK' /\ FjArguments'
    BY <2>1 DEF FjTypeOK, FjArguments
  <2>3. FjJoined'
    BY <2>1 DEF FjTypeOK, FjJoined
  <2> QED BY <2>2, <2>3
<1>4. CASE FjFree
  BY <1>4 DEF FjFree, FjTypeOK, FjArguments, FjJoined
<1> QED BY <1>1, <1>2, <1>3, <1>4 DEF FjMainStep

\* The threads' steps keep it.
LEMMA FjThreadIInv == ASSUME NEW i \in FjIds, FjIInv, FjThread(i) PROVE FjIInv'
<1> USE DEF FjIInv, FjIds
<1>1. CASE FjPrint(i)
  BY <1>1 DEF FjPrint, FjTypeOK, FjArguments, FjJoined
<1>2. CASE FjDouble(i)
  <2>1. FjTypeOK'
    BY <1>2 DEF FjDouble, FjTypeOK
  <2>2. FjArguments' /\ FjJoined'
    BY <1>2 DEF FjDouble, FjTypeOK, FjArguments, FjJoined
  <2> QED BY <2>1, <2>2
<1> QED BY <1>1, <1>2 DEF FjThread

\* Every step keeps the invariant.
LEMMA FjNextIInv == FjIInv /\ [FjNext]_fjVars => FjIInv'
<1>1. FjIInv /\ UNCHANGED fjVars => FjIInv'
  BY DEF FjIInv, FjTypeOK, FjArguments, FjJoined, fjVars
<1> QED BY <1>1, FjMainIInv, FjThreadIInv DEF FjNext

\* main of threads_basic.c prints the double of each argument and frees the
\* arguments when every thread has ended.
THEOREM Results == FjSpec => []FjResults
<1>1. FjIInv => FjResults
  BY DEF FjIInv, FjJoined, FjResults
<1> QED BY <1>1, FjInitIInv, FjNextIInv, PTL DEF FjSpec
-----------------------------------------------------------------------------
(* producer_bug.c: updates are lost, but a store keeps range and direction. *)

\* Since its test or its load each thread has seen the other move g_counter
\* one way only: the consumer down, the producer up.
ProducerKnows ==
  /\ rPc[Producer] = "load" => rCounter <= MaxSize
  /\ rPc[Producer] = "store" => rCounter <= rReg[Producer] /\ rReg[Producer] <= MaxSize

ConsumerKnows ==
  /\ rPc[Consumer] = "load" => rCounter >= 0
  /\ rPc[Consumer] = "store" => rCounter >= rReg[Consumer] /\ rReg[Consumer] >= 0

RIInv ==
  /\ RTypeOK
  /\ rCounter \in -1 .. MaxSize + 1
  /\ ProducerKnows
  /\ ConsumerKnows

\* The invariant holds initially.
LEMMA RInitIInv == RInit => RIInv
  BY SizeAssumption
     DEF RInit, RIInv, RTypeOK, ProducerKnows, ConsumerKnows, Threads

\* Every step keeps it, whichever thread comes in between.
LEMMA RNextIInv == RIInv /\ [RNext]_rVars => RIInv'
<1> SUFFICES ASSUME RIInv, [RNext]_rVars PROVE RIInv'
  OBVIOUS
<1> USE SizeAssumption, ThreadAssumption DEF Threads, RGoto
<1>1. RTypeOK'
  BY DEF RIInv, RTypeOK, ProducerKnows, ConsumerKnows,
         RNext, RPTest, RCTest, RLoad, RPStore, RCStore, rVars
<1>2. CASE RPTest
  BY <1>1, <1>2 DEF RIInv, RTypeOK, ProducerKnows, ConsumerKnows, RPTest
<1>3. CASE RCTest
  BY <1>1, <1>3 DEF RIInv, RTypeOK, ProducerKnows, ConsumerKnows, RCTest
<1>4. ASSUME NEW t \in Threads, RLoad(t) PROVE RIInv'
  BY <1>1, <1>4 DEF RIInv, RTypeOK, ProducerKnows, ConsumerKnows, RLoad
<1>5. CASE RPStore
  BY <1>1, <1>5 DEF RIInv, RTypeOK, ProducerKnows, ConsumerKnows, RPStore
<1>6. CASE RCStore
  BY <1>1, <1>6 DEF RIInv, RTypeOK, ProducerKnows, ConsumerKnows, RCStore
<1>7. CASE UNCHANGED rVars
  BY <1>1, <1>7 DEF RIInv, ProducerKnows, ConsumerKnows, rVars
<1> QED BY <1>2, <1>3, <1>4, <1>5, <1>6, <1>7 DEF RNext

\* The inductive invariant, from which the theorems below are read off.
LEMMA RInvariance == RSpec => []RIInv
  BY RInitIInv, RNextIInv, PTL DEF RSpec

\* Every register holds a value g_counter may have.
THEOREM RTypeCorrect == RSpec => []RTypeOK
  BY RInvariance, PTL DEF RIInv

\* The tests that are stale when the access comes still bound g_counter and
\* what producer_bug.c prints.
THEOREM RangeIsKept == RSpec => []RangeDespiteRaces
<1>1. RIInv => RangeDespiteRaces
  BY DEF RIInv, ProducerKnows, ConsumerKnows, RangeDespiteRaces
<1> QED BY <1>1, RInvariance, PTL

\* A stale store of producer_bug.c still goes up in the producer and down in
\* the consumer.
THEOREM DirectionIsKept == RSpec => StoresKeepDirection
<1> DEFINE Direction == (RPStore => rCounter' > rCounter) /\ (RCStore => rCounter' < rCounter)
<1>1. RIInv /\ [RNext]_rVars => [Direction]_rVars
  <2> SUFFICES ASSUME RIInv PROVE Direction
    OBVIOUS
  <2> QED BY ThreadAssumption, SizeAssumption
             DEF RIInv, RTypeOK, ProducerKnows, ConsumerKnows, RPStore, RCStore, Threads
<1> QED BY <1>1, RInvariance, PTL DEF RSpec, StoresKeepDirection

-----------------------------------------------------------------------------
(* producer_bug_busywait.c: the atomic counter. *)

\* What a thread tested and loaded still holds when it stores.
RegIsCurrent ==
  /\ pc[Producer] = "store" => reg[Producer] = counter /\ counter <= MaxSize
  /\ pc[Consumer] = "store" => reg[Consumer] = counter /\ counter # 0

IInv == TypeOK /\ LockHeld /\ RegIsCurrent

\* The invariant holds initially.
LEMMA InitIInv == Init => IInv
  BY DEF Init, MutexInit, IInv, TypeOK, LockHeld, RegIsCurrent, Threads

\* Every step keeps it: the other thread, without the lock, is at no label
\* that it speaks of.
LEMMA NextIInv == IInv /\ [Next]_vars => IInv'
<1> SUFFICES ASSUME IInv, [Next]_vars PROVE IInv'
  OBVIOUS
<1> USE ThreadAssumption, NobodyAssumption, SizeAssumption
    DEF IInv, TypeOK, LockHeld, RegIsCurrent, Threads, Goto
<1>1. ASSUME NEW t \in Threads, Acquire(t) PROVE IInv'
  BY <1>1 DEF Acquire, MutexLock
<1>2. CASE PTest
  BY <1>2 DEF PTest, Load
<1>3. CASE PStore
  BY <1>3 DEF PStore
<1>4. CASE CTest
  BY <1>4 DEF CTest, Load
<1>5. CASE CStore
  BY <1>5 DEF CStore
<1>6. ASSUME NEW t \in Threads, Release(t) PROVE IInv'
  BY <1>6 DEF Release, MutexUnlock
<1>7. CASE UNCHANGED vars
  BY <1>7 DEF vars
<1> QED BY <1>1, <1>2, <1>3, <1>4, <1>5, <1>6, <1>7 DEF Next, Step

\* The inductive invariant, from which the theorems below are read off.
LEMMA Invariance == Spec => []IInv
  BY InitIInv, NextIInv, PTL DEF Spec

\* Types; the shared count is never negative.
THEOREM TypeCorrect == Spec => []TypeOK
  BY Invariance, PTL DEF IInv

\* Both threads of producer_bug_busywait.c access g_counter under g_lock only.
THEOREM LockIsHeld == Spec => []LockHeld
  BY Invariance, PTL DEF IInv

\* A store is an atomic production or consumption, any other step none.
LEMMA StepCounter == IInv /\ [Next]_vars => [Counter!Next]_counter
<1> SUFFICES ASSUME IInv, [Next]_vars
             PROVE  Counter!Next \/ UNCHANGED counter
  OBVIOUS
<1>1. CASE PStore
  BY <1>1, SizeAssumption
     DEF IInv, TypeOK, RegIsCurrent, PStore, Counter!Produce, Counter!Next
<1>2. CASE CStore
  BY <1>2 DEF IInv, TypeOK, RegIsCurrent, CStore, Counter!Consume, Counter!Next
<1>3. CASE ~PStore /\ ~CStore
  BY <1>3 DEF Next, Step, Acquire, PTest, CTest, Release, vars
<1> QED BY <1>1, <1>2, <1>3

\* The increments and decrements of producer_bug_busywait.c are atomic and
\* stay between 0 and MAX_SIZE + 1.
THEOREM Refinement == Spec => CounterIsAtomic
<1>1. Init => Counter!Init
  BY DEF Init, Counter!Init
<1> QED BY <1>1, StepCounter, Invariance, PTL DEF Spec, CounterIsAtomic, Counter!Spec
=============================================================================
