-------------------- MODULE CondProducerConsumer_proofs --------------------
(***************************************************************************)
(* Theorems of CondProducerConsumer for any number of consumers, any limit *)
(* and any batch.  The inductive invariant IInv adds to the properties     *)
(* what ties registers and sleepers to the labels: between its load and    *)
(* its store the holder of g_lock has the current value of g_counter in    *)
(* its register, and only threads inside pthread_cond_wait sleep.          *)
(***************************************************************************)
EXTENDS CondProducerConsumer, TLAPS

RegisterIsCurrent ==
  /\ pc[Producer] = "add" => reg[Producer] = counter /\ counter < MaxSize
  /\ \A c \in Consumers : pc[c] = "store" => reg[c] = counter /\ counter > 0

SleepersWait == \A c \in waiting : pc[c] = "return"

IInv ==
  /\ TypeOK
  /\ LockHeld
  /\ RegisterIsCurrent
  /\ SleepersWait
  /\ NoLostWakeup
  /\ CounterBound

USE ThreadAssumption, SizeAssumption, WakeAssumption DEF Threads
USE DEF Labels, Critical, Goto, Load, MutexInit, MutexLock, MutexUnlock,
  CondInit, CondWait, CondReturn, CondSignal, CondBroadcast, Wakeup

\* The invariant holds initially.
LEMMA InitIInv == Init => IInv
  BY DEF Init, IInv, TypeOK, LockHeld, RegisterIsCurrent, SleepersWait,
         NoLostWakeup, CounterBound

\* A thread that enters its critical section finds nobody else in it.
LEMMA AcquireIInv ==
  ASSUME IInv, NEW t \in Threads, Acquire(t)
  PROVE  IInv'
<1> USE DEF Acquire, IInv
<1>1. TypeOK'
  BY DEF TypeOK
<1>2. LockHeld'
  BY DEF LockHeld, TypeOK
<1>3. RegisterIsCurrent'
  BY DEF RegisterIsCurrent, TypeOK
<1>4. SleepersWait'
  BY DEF SleepersWait, TypeOK
<1>5. NoLostWakeup'
  BY DEF NoLostWakeup, TypeOK
<1>6. CounterBound'
  BY DEF CounterBound
<1>7. QED
  BY <1>1, <1>2, <1>3, <1>4, <1>5, <1>6

\* The producer's steps.  PAdd makes items appear beside sleepers, which
\* NoLostWakeup allows until PWake; PWake leaves nobody asleep, with a
\* signal because there is one consumer.
LEMMA ProducerIInv ==
  ASSUME IInv, ProducerStep
  PROVE  IInv'
<1> USE DEF IInv
<1>1. CASE Acquire(Producer)
  BY <1>1, AcquireIInv
<1>2. CASE PTest
  <2> USE <1>2 DEF PTest
  <2>1. TypeOK'
    BY DEF TypeOK
  <2>2. LockHeld'
    BY DEF LockHeld, TypeOK
  <2>3. RegisterIsCurrent' /\ SleepersWait'
    BY DEF RegisterIsCurrent, SleepersWait, TypeOK
  <2>4. NoLostWakeup' /\ CounterBound'
    BY DEF NoLostWakeup, CounterBound, TypeOK
  <2>5. QED
    BY <2>1, <2>2, <2>3, <2>4
<1>3. CASE PAdd
  <2> USE <1>3 DEF PAdd
  <2>1. TypeOK'
    BY DEF TypeOK
  <2>2. LockHeld'
    BY DEF LockHeld, TypeOK
  <2>3. RegisterIsCurrent' /\ SleepersWait'
    BY DEF RegisterIsCurrent, SleepersWait, LockHeld, TypeOK
  <2>4. NoLostWakeup' /\ CounterBound'
    BY DEF NoLostWakeup, CounterBound, RegisterIsCurrent, TypeOK
  <2>5. QED
    BY <2>1, <2>2, <2>3, <2>4
<1>4. CASE PUnlock
  <2> USE <1>4 DEF PUnlock
  <2>1. TypeOK'
    BY DEF TypeOK
  <2>2. LockHeld'
    BY DEF LockHeld, TypeOK
  <2>3. RegisterIsCurrent' /\ SleepersWait'
    BY DEF RegisterIsCurrent, SleepersWait, TypeOK
  <2>4. NoLostWakeup' /\ CounterBound'
    BY DEF NoLostWakeup, CounterBound, TypeOK
  <2>5. QED
    BY <2>1, <2>2, <2>3, <2>4
<1>5. CASE PWake
  <2> USE <1>5 DEF PWake
  <2>1. TypeOK'
    BY DEF TypeOK
  <2>2. LockHeld'
    BY DEF LockHeld, TypeOK
  <2>3. RegisterIsCurrent' /\ SleepersWait'
    BY DEF RegisterIsCurrent, SleepersWait, TypeOK
  <2>4. waiting' = {}
    BY DEF TypeOK
  <2>5. NoLostWakeup' /\ CounterBound'
    BY <2>4 DEF NoLostWakeup, CounterBound, TypeOK
  <2>6. QED
    BY <2>1, <2>2, <2>3, <2>5
<1>6. QED
  BY <1>1, <1>2, <1>3, <1>4, <1>5 DEF ProducerStep

\* The consumers' steps.  CTest sends a consumer to sleep only when
\* g_counter is 0, CStore lowers a g_counter that is not.
LEMMA ConsumerIInv ==
  ASSUME IInv, NEW c \in Consumers, ConsumerStep(c)
  PROVE  IInv'
<1> USE DEF IInv
<1>1. CASE Acquire(c)
  BY <1>1, AcquireIInv
<1>2. CASE CTest(c)
  <2> USE <1>2 DEF CTest
  <2>1. TypeOK'
    BY DEF TypeOK
  <2>2. LockHeld'
    BY DEF LockHeld, TypeOK
  <2>3. RegisterIsCurrent' /\ SleepersWait'
    BY DEF RegisterIsCurrent, SleepersWait, TypeOK
  <2>4. NoLostWakeup' /\ CounterBound'
    BY DEF NoLostWakeup, CounterBound, TypeOK
  <2>5. QED
    BY <2>1, <2>2, <2>3, <2>4
<1>3. CASE CReturn(c)
  <2> USE <1>3 DEF CReturn
  <2>1. TypeOK'
    BY DEF TypeOK
  <2>2. LockHeld'
    BY DEF LockHeld, TypeOK
  <2>3. RegisterIsCurrent' /\ SleepersWait'
    BY DEF RegisterIsCurrent, SleepersWait, TypeOK
  <2>4. NoLostWakeup' /\ CounterBound'
    BY DEF NoLostWakeup, CounterBound, TypeOK
  <2>5. QED
    BY <2>1, <2>2, <2>3, <2>4
<1>4. CASE CTake(c)
  <2> USE <1>4 DEF CTake
  <2>1. TypeOK'
    BY DEF TypeOK
  <2>2. LockHeld'
    BY DEF LockHeld, TypeOK
  <2>3. RegisterIsCurrent' /\ SleepersWait'
    BY DEF RegisterIsCurrent, SleepersWait, TypeOK
  <2>4. NoLostWakeup' /\ CounterBound'
    BY DEF NoLostWakeup, CounterBound, TypeOK
  <2>5. QED
    BY <2>1, <2>2, <2>3, <2>4
<1>5. CASE CStore(c)
  <2> USE <1>5 DEF CStore
  <2>1. TypeOK'
    BY DEF TypeOK, RegisterIsCurrent
  <2>2. LockHeld'
    BY DEF LockHeld, TypeOK
  <2>3. RegisterIsCurrent' /\ SleepersWait'
    BY DEF RegisterIsCurrent, SleepersWait, LockHeld, TypeOK
  <2>4. NoLostWakeup' /\ CounterBound'
    BY DEF NoLostWakeup, CounterBound, RegisterIsCurrent, TypeOK
  <2>5. QED
    BY <2>1, <2>2, <2>3, <2>4
<1>6. CASE CUnlock(c)
  <2> USE <1>6 DEF CUnlock
  <2>1. TypeOK'
    BY DEF TypeOK
  <2>2. LockHeld'
    BY DEF LockHeld, TypeOK
  <2>3. RegisterIsCurrent' /\ SleepersWait'
    BY DEF RegisterIsCurrent, SleepersWait, TypeOK
  <2>4. NoLostWakeup' /\ CounterBound'
    BY DEF NoLostWakeup, CounterBound, TypeOK
  <2>5. QED
    BY <2>1, <2>2, <2>3, <2>4
<1>7. QED
  BY <1>1, <1>2, <1>3, <1>4, <1>5, <1>6 DEF ConsumerStep

\* Every step of the programs keeps the invariant.
LEMMA NextIInv == IInv /\ [Next]_vars => IInv'
<1> SUFFICES ASSUME IInv, [Next]_vars
             PROVE  IInv'
  OBVIOUS
<1>1. CASE ProducerStep
  BY <1>1, ProducerIInv
<1>2. CASE \E c \in Consumers : ConsumerStep(c)
  BY <1>2, ConsumerIInv
<1>3. CASE \E c \in Consumers : SpuriousWakeup(c)
  BY <1>3 DEF SpuriousWakeup, IInv, TypeOK, LockHeld, RegisterIsCurrent,
              SleepersWait, NoLostWakeup, CounterBound
<1>4. CASE UNCHANGED vars
  BY <1>4 DEF vars, IInv, TypeOK, LockHeld, RegisterIsCurrent,
              SleepersWait, NoLostWakeup, CounterBound
<1>5. QED
  BY <1>1, <1>2, <1>3, <1>4 DEF Next

\* The inductive invariant, from which the theorems below are read off.
LEMMA Invariance == Spec => []IInv
  BY InitIInv, NextIInv, PTL DEF Spec
-----------------------------------------------------------------------------
\* Type correctness: in particular g_counter is never negative.
THEOREM TypeCorrect == Spec => []TypeOK
<1>1. IInv => TypeOK
  BY DEF IInv
<1>2. QED
  BY <1>1, Invariance, PTL

\* Whoever is between lock and unlock holds g_lock; pthread_cond_wait
\* returns with it.
THEOREM LockIsHeld == Spec => []LockHeld
<1>1. IInv => LockHeld
  BY DEF IInv
<1>2. QED
  BY <1>1, Invariance, PTL

\* No consumer sleeps beside items without a wakeup on its way.
THEOREM NoWakeupIsLost == Spec => []NoLostWakeup
<1>1. IInv => NoLostWakeup
  BY DEF IInv
<1>2. QED
  BY <1>1, Invariance, PTL

\* g_counter passes MAX_SIZE by less than a batch.
THEOREM CounterIsBounded == Spec => []CounterBound
<1>1. IInv => CounterBound
  BY DEF IInv
<1>2. QED
  BY <1>1, Invariance, PTL

\* The programs implement the atomic counter.
THEOREM Refinement == Spec => CounterIsAtomic
<1>1. Init => Counter!Init
  BY DEF Init, Counter!Init
<1>2. IInv /\ [Next]_vars => [Counter!Next]_counter
  <2> SUFFICES ASSUME IInv, [Next]_vars
               PROVE  [Counter!Next]_counter
    OBVIOUS
  <2>1. CASE PAdd
    BY <2>1 DEF PAdd, IInv, RegisterIsCurrent, Counter!Next, Counter!Produce
  <2>2. ASSUME NEW c \in Consumers, CStore(c)
        PROVE  [Counter!Next]_counter
    BY <2>2 DEF CStore, IInv, RegisterIsCurrent, Counter!Next, Counter!Consume
  <2>3. CASE Acquire(Producer) \/ PTest \/ PUnlock \/ PWake
    BY <2>3 DEF Acquire, PTest, PUnlock, PWake
  <2>4. ASSUME NEW c \in Consumers,
               Acquire(c) \/ CTest(c) \/ CReturn(c) \/ CTake(c) \/ CUnlock(c)
        PROVE  UNCHANGED counter
    BY <2>4 DEF Acquire, CTest, CReturn, CTake, CUnlock
  <2>5. ASSUME NEW c \in Consumers, SpuriousWakeup(c)
        PROVE  UNCHANGED counter
    BY <2>5 DEF SpuriousWakeup
  <2>6. CASE UNCHANGED vars
    BY <2>6 DEF vars
  <2>7. QED
    BY <2>1, <2>2, <2>3, <2>4, <2>5, <2>6 DEF Next, ProducerStep, ConsumerStep
<1>3. QED
  BY <1>1, <1>2, Invariance, PTL DEF Spec, CounterIsAtomic, Counter!Spec
=============================================================================
