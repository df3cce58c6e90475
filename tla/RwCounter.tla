----------------------------- MODULE RwCounter -----------------------------
(***************************************************************************)
(* src/threads/reader_writer/rwlock.c: a writer counts g_counter up under  *)
(* the write lock, a batch at a time, and each reader prints, under the    *)
(* read lock, the numbers it has not printed yet.  The pthread_rwlock_t is *)
(* the set of its readers and whether the writer has it; POSIX leaves open *)
(* who comes first.                                                        *)
(***************************************************************************)
EXTENDS Integers

CONSTANTS
  RwReaders,
  RwBatch,        \* how far the writer counts while it has the lock
  RwMaxCounter    \* bound: the writer starts no batch from here on

ASSUME RwAssumption == RwBatch \in Nat \ {0} /\ RwMaxCounter \in Nat

VARIABLES
  rwReading,      \* the readers that have the lock
  rwWriting,      \* whether the writer has it
  rwCounter,      \* g_counter
  rwLeft,         \* what is left of the writer's batch
  rwReg,          \* the register it loads g_counter into
  rwPc,           \* what each reader does next
  rwIndex         \* i of each reader, the number it printed last

rwVars == <<rwReading, rwWriting, rwCounter, rwLeft, rwReg, rwPc, rwIndex>>

RwInit ==
  /\ rwReading = {} /\ rwWriting = FALSE
  /\ rwCounter = 0 /\ rwLeft = 0 /\ rwReg = -1
  /\ rwPc = [r \in RwReaders |-> "lock"]
  /\ rwIndex = [r \in RwReaders |-> 0]

RwGoto(r, label) == rwPc' = [rwPc EXCEPT ![r] = label]

\* As RwWrLock, with a read lock.
RwWrLockShared ==
  /\ ~rwWriting /\ rwCounter < RwMaxCounter
  /\ rwWriting' = TRUE /\ rwLeft' = RwBatch
  /\ UNCHANGED <<rwReading, rwCounter, rwReg, rwPc, rwIndex>>

RwWrLock ==
  /\ ~rwWriting /\ rwReading = {} /\ rwCounter < RwMaxCounter
  /\ rwWriting' = TRUE /\ rwLeft' = RwBatch
  /\ UNCHANGED <<rwReading, rwCounter, rwReg, rwPc, rwIndex>>

\* g_counter++ is a load and a store; rwReg is -1 in between two of them.
RwLoad ==
  /\ rwLeft > 0 /\ rwReg = -1
  /\ rwReg' = rwCounter
  /\ UNCHANGED <<rwReading, rwWriting, rwCounter, rwLeft, rwPc, rwIndex>>

RwStore ==
  /\ rwReg # -1
  /\ rwCounter' = rwReg + 1 /\ rwReg' = -1 /\ rwLeft' = rwLeft - 1
  /\ UNCHANGED <<rwReading, rwWriting, rwPc, rwIndex>>

RwWrUnlock ==
  /\ rwWriting /\ rwLeft = 0
  /\ rwWriting' = FALSE
  /\ UNCHANGED <<rwReading, rwCounter, rwLeft, rwReg, rwPc, rwIndex>>

RwWriter == RwWrLock \/ RwLoad \/ RwStore \/ RwWrUnlock

RwRdLock(r) ==
  /\ rwPc[r] = "lock" /\ ~rwWriting
  /\ rwReading' = rwReading \cup {r}
  /\ RwGoto(r, "read")
  /\ UNCHANGED <<rwWriting, rwCounter, rwLeft, rwReg, rwIndex>>

\* As RwRead, stopping one short.
RwReadShort(r) ==
  /\ rwPc[r] = "read"
  /\ IF rwIndex[r] + 1 < rwCounter
       THEN rwIndex' = [rwIndex EXCEPT ![r] = @ + 1] /\ UNCHANGED rwPc
       ELSE RwGoto(r, "unlock") /\ UNCHANGED rwIndex
  /\ UNCHANGED <<rwReading, rwWriting, rwCounter, rwLeft, rwReg>>

RwRead(r) ==
  /\ rwPc[r] = "read"
  /\ IF rwIndex[r] < rwCounter
       THEN rwIndex' = [rwIndex EXCEPT ![r] = @ + 1] /\ UNCHANGED rwPc
       ELSE RwGoto(r, "unlock") /\ UNCHANGED rwIndex
  /\ UNCHANGED <<rwReading, rwWriting, rwCounter, rwLeft, rwReg>>

RwRdUnlock(r) ==
  /\ rwPc[r] = "unlock"
  /\ rwReading' = rwReading \ {r}
  /\ RwGoto(r, "lock")
  /\ UNCHANGED <<rwWriting, rwCounter, rwLeft, rwReg, rwIndex>>

RwReader(r) == RwRdLock(r) \/ RwRead(r) \/ RwRdUnlock(r)

RwNext == RwWriter \/ \E r \in RwReaders : RwReader(r)

RwSpec == RwInit /\ [][RwNext]_rwVars

\* The scheduler runs every thread that can run.
RwFairness == WF_rwVars(RwWriter) /\ \A r \in RwReaders : WF_rwVars(RwReader(r))

\* The lock, if it is to be had again and again, is not kept from a thread for
\* ever, which no pthread_rwlock_t promises.
RwLockFairness == SF_rwVars(RwWrLock) /\ \A r \in RwReaders : SF_rwVars(RwRdLock(r))
-----------------------------------------------------------------------------
\* However many readers hold the lock together, while one does g_counter is
\* not in the middle of a batch, and the reader leaves the lock with every
\* number up to it printed and none beyond it.
RwWholeBatches ==
  /\ \A r \in RwReaders : rwIndex[r] <= rwCounter
  /\ \A r \in RwReaders : rwPc[r] # "lock" => rwCounter % RwBatch = 0
  /\ \A r \in RwReaders : rwPc[r] = "unlock" => rwIndex[r] = rwCounter

\* If the lock is not kept from a thread for ever, every reader gets to the
\* end of what the writer counts, unless from some time on there is always a
\* reader that has the lock.
RwEverythingIsRead ==
  RwLockFairness =>
    \/ \A r \in RwReaders : <>(rwIndex[r] >= RwMaxCounter)
    \/ <>[](rwReading # {})
=============================================================================
