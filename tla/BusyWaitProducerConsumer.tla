---------------------- MODULE BusyWaitProducerConsumer ----------------------
(***************************************************************************)
(* src/threads/producer_consumer/producer_bug_busywait.c: g_counter is     *)
(* accessed under g_lock only, and a consumer that finds it empty looks    *)
(* again at once.  A step is one call or one access; usleep(100) lasts as  *)
(* long as the producer stays at "lock".                                   *)
(***************************************************************************)
EXTENDS ProducerAndConsumer, Mutex

ASSUME NobodyAssumption == Nobody \notin Threads

VARIABLES
  counter,    \* g_counter
  pc,
  reg         \* the register each thread loads g_counter into

vars == <<owner, counter, pc, reg>>

Goto(t, label) == pc' = [pc EXCEPT ![t] = label]

Load(t) == reg' = [reg EXCEPT ![t] = counter]

Init ==
  /\ MutexInit
  /\ counter = 0
  /\ pc = [t \in Threads |-> "lock"]
  /\ reg = [t \in Threads |-> 0]

\* As Acquire, for a thread that does not take the mutex.
AcquireNothing(t) ==
  /\ pc[t] = "lock"
  /\ Goto(t, "test")
  /\ UNCHANGED <<owner, counter, reg>>

Acquire(t) ==
  /\ pc[t] = "lock"
  /\ MutexLock(t)
  /\ Goto(t, "test")
  /\ UNCHANGED <<counter, reg>>

PTest ==
  /\ pc[Producer] = "test"
  /\ \/ counter <= MaxSize /\ Load(Producer) /\ Goto(Producer, "store")
     \/ counter > MaxSize /\ Goto(Producer, "unlock") /\ UNCHANGED reg
  /\ UNCHANGED <<owner, counter>>

PStore ==
  /\ pc[Producer] = "store"
  /\ counter' = reg[Producer] + 1
  /\ Goto(Producer, "unlock")
  /\ UNCHANGED <<owner, reg>>

\* As CTest, returning to the head of the loop with the mutex held.
CTestContinue ==
  /\ pc[Consumer] = "test"
  /\ \/ counter # 0 /\ Load(Consumer) /\ Goto(Consumer, "store")
     \/ counter = 0 /\ Goto(Consumer, "lock") /\ UNCHANGED reg
  /\ UNCHANGED <<owner, counter>>

CTest ==
  /\ pc[Consumer] = "test"
  /\ \/ counter # 0 /\ Load(Consumer) /\ Goto(Consumer, "store")
     \/ counter = 0 /\ Goto(Consumer, "unlock") /\ UNCHANGED reg
  /\ UNCHANGED <<owner, counter>>

CStore ==
  /\ pc[Consumer] = "store"
  /\ counter' = reg[Consumer] - 1
  /\ Goto(Consumer, "unlock")
  /\ UNCHANGED <<owner, reg>>

Release(t) ==
  /\ pc[t] = "unlock"
  /\ MutexUnlock
  /\ Goto(t, "lock")
  /\ UNCHANGED <<counter, reg>>

Step(t) ==
  \/ Acquire(t)
  \/ t = Producer /\ (PTest \/ PStore)
  \/ t = Consumer /\ (CTest \/ CStore)
  \/ Release(t)

Next == \E t \in Threads : Step(t)

Spec == Init /\ [][Next]_vars

\* The scheduler runs every thread that can go on.
Fairness == \A t \in Threads : WF_vars(Step(t))

\* A mutex given up again and again is not kept from one of the threads for
\* ever, which neither POSIX nor Linux promises of g_lock.
LockFairness == \A t \in Threads : SF_vars(Acquire(t))
-----------------------------------------------------------------------------
\* Properties

\* Locals have their types, and the shared count is never taken below zero.
TypeOK ==
  /\ owner \in Threads \cup {Nobody}
  /\ counter \in Nat
  /\ pc \in [Threads -> {"lock", "test", "store", "unlock"}]
  /\ reg \in [Threads -> Nat]

\* A thread between its lock and its unlock holds g_lock ("Lock before
\* reading and writing to g_counter", producer_bug_busywait.c:32).
LockHeld == \A t \in Threads : pc[t] # "lock" => owner = t

\* g_counter changes as if ++ and -- were atomic.  The test is <= MAX_SIZE
\* where the condition variable programs have <, so the limit kept is one
\* more than MAX_SIZE.
Counter == INSTANCE SharedCounter WITH MaxSize <- MaxSize + 1, Batch <- 1
CounterIsAtomic == Counter!Spec

\* If the mutex is not kept from a thread for ever, both work for ever: a
\* consumer that finds nothing and a producer at its limit make room for
\* each other.
BothKeepWorking == LockFairness => []<><<PStore>>_vars /\ []<><<CStore>>_vars
=============================================================================
