------------------------ MODULE CondProducerConsumer ------------------------
(***************************************************************************)
(* src/threads/producer_consumer/producer_withbroadcast.c, and with        *)
(* WakeAll = FALSE, Batch = 1 and one consumer producer_withsignal.c: one  *)
(* producer and some consumers share g_counter under g_lock, and consumers *)
(* that find it empty sleep on g_cv_not_empty.  A step is one call or one  *)
(* access: g_counter += Batch and g_counter-- load into a register of the  *)
(* thread (reg) and store from it, so the lock is what makes them atomic.  *)
(***************************************************************************)
EXTENDS Integers, CondVar

CONSTANTS
  Producer,   \* the thread that runs producer()
  Consumers,  \* the threads that run consumer()
  MaxSize,    \* MAX_SIZE
  Batch,      \* what one production adds to g_counter
  WakeAll     \* broadcast (TRUE) or signal (FALSE) after a production

Threads == Consumers \cup {Producer}

ASSUME ThreadAssumption ==
  /\ Producer \notin Consumers
  /\ Nobody \notin Threads

ASSUME SizeAssumption ==
  /\ MaxSize \in Nat \ {0}
  /\ Batch \in Nat \ {0}

\* producer_withsignal.c starts one consumer; with more of them a signal
\* may leave one of them asleep.
ASSUME WakeAssumption ==
  /\ WakeAll \in BOOLEAN
  /\ WakeAll \/ \A c, d \in Consumers : c = d

VARIABLES
  counter,    \* g_counter
  pc,         \* what each thread does next
  reg         \* the register each thread loads g_counter into

vars == <<owner, waiting, counter, pc, reg>>

Labels == {"lock", "test", "add", "return", "take", "store", "unlock", "wake"}

\* The labels of the code between taking g_lock and giving it up.
Critical == {"test", "add", "take", "store", "unlock"}

Goto(t, label) == pc' = [pc EXCEPT ![t] = label]

Load(t) == reg' = [reg EXCEPT ![t] = counter]

Init ==
  /\ MutexInit
  /\ CondInit
  /\ counter = 0
  /\ pc = [t \in Threads |-> "lock"]
  /\ reg = [t \in Threads |-> 0]
-----------------------------------------------------------------------------
(* void *producer() *)

Acquire(t) ==
  /\ pc[t] = "lock"
  /\ MutexLock(t)
  /\ Goto(t, "test")
  /\ UNCHANGED <<waiting, counter, reg>>

\* As PTest, with the test producer_bug_busywait.c makes: one too many.
PTestUpTo ==
  /\ pc[Producer] = "test"
  /\ \/ counter <= MaxSize /\ Load(Producer) /\ Goto(Producer, "add")
     \/ counter > MaxSize /\ Goto(Producer, "unlock") /\ UNCHANGED reg
  /\ UNCHANGED <<owner, waiting, counter>>

PTest ==
  /\ pc[Producer] = "test"
  /\ \/ counter < MaxSize /\ Load(Producer) /\ Goto(Producer, "add")
     \/ counter >= MaxSize /\ Goto(Producer, "unlock") /\ UNCHANGED reg
  /\ UNCHANGED <<owner, waiting, counter>>

PAdd ==
  /\ pc[Producer] = "add"
  /\ counter' = reg[Producer] + Batch
  /\ Goto(Producer, "unlock")
  /\ UNCHANGED <<owner, waiting, reg>>

\* As PUnlock, with the wakeup forgotten.
PUnlockNoWake ==
  /\ pc[Producer] = "unlock"
  /\ MutexUnlock
  /\ Goto(Producer, "lock")
  /\ UNCHANGED <<waiting, counter, reg>>

PUnlock ==
  /\ pc[Producer] = "unlock"
  /\ MutexUnlock
  /\ Goto(Producer, "wake")
  /\ UNCHANGED <<waiting, counter, reg>>

\* As PWake, with a signal where several consumers may sleep.
PWakeOne ==
  /\ pc[Producer] = "wake"
  /\ CondSignal
  /\ Goto(Producer, "lock")
  /\ UNCHANGED <<owner, counter, reg>>

\* The wakeup follows the unlock, whether or not anything was produced.
\* sleep(0.1) is sleep(0): its argument is an unsigned int.
PWake ==
  /\ pc[Producer] = "wake"
  /\ IF WakeAll THEN CondBroadcast ELSE CondSignal
  /\ Goto(Producer, "lock")
  /\ UNCHANGED <<owner, counter, reg>>

ProducerStep == Acquire(Producer) \/ PTest \/ PAdd \/ PUnlock \/ PWake
-----------------------------------------------------------------------------
(* void *consumer(void *id) *)

CTest(c) ==
  /\ pc[c] = "test"
  /\ \/ counter = 0 /\ CondWait(c) /\ Goto(c, "return")
     \/ counter # 0 /\ Goto(c, "take") /\ UNCHANGED <<owner, waiting>>
  /\ UNCHANGED <<counter, reg>>

\* As CReturn, for a wait that does not take the mutex again.
CReturnUnlocked(c) ==
  /\ pc[c] = "return"
  /\ c \notin waiting
  /\ Goto(c, "take")
  /\ UNCHANGED <<owner, waiting, counter, reg>>

\* pthread_cond_wait returns.  The wait stands under an if, not a while.
CReturn(c) ==
  /\ pc[c] = "return"
  /\ CondReturn(c)
  /\ Goto(c, "take")
  /\ UNCHANGED <<waiting, counter, reg>>

\* As CTake, trusting that a consumer woken finds an item.
CTakeUnchecked(c) ==
  /\ pc[c] = "take"
  /\ Load(c)
  /\ Goto(c, "store")
  /\ UNCHANGED <<owner, waiting, counter>>

CTake(c) ==
  /\ pc[c] = "take"
  /\ \/ counter # 0 /\ Load(c) /\ Goto(c, "store")
     \/ counter = 0 /\ Goto(c, "unlock") /\ UNCHANGED reg
  /\ UNCHANGED <<owner, waiting, counter>>

CStore(c) ==
  /\ pc[c] = "store"
  /\ counter' = reg[c] - 1
  /\ Goto(c, "unlock")
  /\ UNCHANGED <<owner, waiting, reg>>

CUnlock(c) ==
  /\ pc[c] = "unlock"
  /\ MutexUnlock
  /\ Goto(c, "lock")
  /\ UNCHANGED <<waiting, counter, reg>>

ConsumerStep(c) ==
  Acquire(c) \/ CTest(c) \/ CReturn(c) \/ CTake(c) \/ CStore(c) \/ CUnlock(c)

SpuriousWakeup(c) == Wakeup(c) /\ UNCHANGED <<owner, counter, pc, reg>>

Next ==
  \/ ProducerStep
  \/ \E c \in Consumers : ConsumerStep(c) \/ SpuriousWakeup(c)

Spec == Init /\ [][Next]_vars
-----------------------------------------------------------------------------
(***************************************************************************)
(* Fairness.  Fairness says that the scheduler runs every thread that can  *)
(* go on; it is silent about a thread that finds the mutex taken each time *)
(* it looks.  LockFairness adds that a mutex given up again and again is   *)
(* not kept from one of the threads that want it for ever.                 *)
(***************************************************************************)
Fairness ==
  /\ WF_vars(ProducerStep)
  /\ \A c \in Consumers : WF_vars(ConsumerStep(c))

LockFairness ==
  /\ \A t \in Threads : SF_vars(Acquire(t))
  /\ \A c \in Consumers : SF_vars(CReturn(c))

FairSpec == Spec /\ Fairness
-----------------------------------------------------------------------------
(***************************************************************************)
(* Properties.                                                             *)
(***************************************************************************)
\* The variables keep their types; in particular g_counter is never
\* negative, although it is a signed int.
TypeOK ==
  /\ owner \in Threads \cup {Nobody}
  /\ waiting \in SUBSET Consumers
  /\ counter \in Nat
  /\ pc \in [Threads -> Labels]
  /\ reg \in [Threads -> Nat]

\* A thread anywhere between its lock and its unlock holds g_lock, the way
\* out of pthread_cond_wait included ("At this point, g_lock is locked by
\* pthread_cond_wait", producer_withbroadcast.c:66).
LockHeld == \A t \in Threads : pc[t] \in Critical => owner = t

\* No consumer sleeps beside an item it does not know of: while one is
\* blocked and g_counter is not 0, the producer has still to wake it.
\* (The wakeup is sent after the unlock, so the two facts are apart.)
NoLostWakeup ==
  waiting # {} /\ counter > 0 => pc[Producer] \in {"unlock", "wake"}

\* MAX_SIZE is tested before a whole batch is added and consumers take one
\* at a time, so g_counter may pass MAX_SIZE, by less than one batch.
CounterBound == counter <= MaxSize - 1 + Batch

\* g_counter changes as if productions and consumptions were atomic:
\* nothing is lost, taken twice, taken from an empty counter or produced
\* at the limit, whatever threads do between a load and its store.
Counter == INSTANCE SharedCounter
CounterIsAtomic == Counter!Spec

\* A consumer asleep is woken, unless spurious wakeups never end; plain
\* scheduling fairness is enough.
WaitersAreWoken ==
  \/ []<><<\E c \in Consumers : SpuriousWakeup(c)>>_vars
  \/ \A c \in Consumers : c \in waiting ~> c \notin waiting

\* Items are consumed for ever if no thread is kept from the mutex for ever.
ConsumptionNeverStops ==
  LockFairness => []<><<\E c \in Consumers : CStore(c)>>_vars
=============================================================================
