-------------------- MODULE TimedProducerConsumer_proofs --------------------
(***************************************************************************)
(* Theorems of TimedProducerConsumer for any number of consumers, any      *)
(* limit, batch and patience.  The inductive invariant TIInv ties the      *)
(* consumer between its test and its wait to the lock and to an empty      *)
(* counter: that is what makes a deadline computed in between harmless.    *)
(***************************************************************************)
EXTENDS TimedProducerConsumer, TLAPS

TimedLockHeld == \A t \in Threads : pc[t] \in Critical \cup {"wait"} => owner = t

TakesWhatIsThere ==
  \A c \in Consumers : pc[c] = "store" => reg[c] = counter /\ counter > 0

EmptyAtWait == \A c \in Consumers : pc[c] = "wait" => counter = 0

TIInv ==
  /\ TimedTypeOK
  /\ TimedLockHeld
  /\ TakesWhatIsThere
  /\ EmptyAtWait

USE ThreadAssumption, SizeAssumption, TimeAssumption DEF Threads
USE DEF Labels, Critical, Goto, Load, MutexInit, MutexLock, MutexUnlock,
  CondInit, CondWait, CondReturn, CondSignal, CondBroadcast, Wakeup

\* The invariant holds initially.
LEMMA InitTIInv == TInit => TIInv
<1> SUFFICES ASSUME TInit
             PROVE  TIInv
  OBVIOUS
<1>1. TimedTypeOK
  BY DEF TInit, Init, TimedTypeOK
<1>2. TimedLockHeld /\ TakesWhatIsThere /\ EmptyAtWait
  BY DEF TInit, Init, TimedLockHeld, TakesWhatIsThere, EmptyAtWait
<1>3. QED
  BY <1>1, <1>2 DEF TIInv

\* A thread that takes the mutex finds nobody between a lock and an unlock.
LEMMA AcquireTIInv ==
  ASSUME TIInv, NEW t \in Threads, Acquire(t), UNCHANGED timeVars
  PROVE  TIInv'
  BY DEF Acquire, TIInv, TimedTypeOK, TimedLockHeld, TakesWhatIsThere,
         EmptyAtWait, timeVars

\* The producer's steps.  PAdd needs the lock: no consumer is before its
\* store or before its wait.
LEMMA ProducerTIInv ==
  ASSUME TIInv, TProducerStep
  PROVE  TIInv'
<1> USE DEF TIInv
<1>1. CASE PAwake
  BY <1>1, AcquireTIInv DEF PAwake
<1>2. CASE PTest /\ UNCHANGED timeVars
  BY <1>2 DEF PTest, TimedTypeOK, TimedLockHeld, TakesWhatIsThere,
              EmptyAtWait, timeVars
<1>3. CASE PAdd /\ UNCHANGED timeVars
  <2> USE <1>3 DEF PAdd, timeVars
  <2>1. TimedTypeOK'
    BY DEF TimedTypeOK
  <2>2. TimedLockHeld'
    BY DEF TimedLockHeld, TimedTypeOK
  <2>3. TakesWhatIsThere' /\ EmptyAtWait'
    BY DEF TakesWhatIsThere, EmptyAtWait, TimedLockHeld, TimedTypeOK
  <2>4. QED
    BY <2>1, <2>2, <2>3
<1>4. CASE PUnlock /\ UNCHANGED timeVars
  BY <1>4 DEF PUnlock, TimedTypeOK, TimedLockHeld, TakesWhatIsThere,
              EmptyAtWait, timeVars
<1>5. CASE PWakeAndSleep
  BY <1>5 DEF PWakeAndSleep, PWake, TimedTypeOK, TimedLockHeld,
              TakesWhatIsThere, EmptyAtWait
<1>6. QED
  BY <1>1, <1>2, <1>3, <1>4, <1>5 DEF TProducerStep

\* The consumers' steps, the timeout among them.
LEMMA ConsumerTIInv ==
  ASSUME TIInv, NEW c \in Consumers, TConsumerStep(c)
  PROVE  TIInv'
<1> USE DEF TIInv
<1>1. CASE TTest(c)
  <2> USE <1>1 DEF TTest
  <2>1. TimedTypeOK'
    BY DEF TimedTypeOK
  <2>2. TimedLockHeld'
    BY DEF TimedLockHeld, TimedTypeOK
  <2>3. TakesWhatIsThere' /\ EmptyAtWait'
    BY DEF TakesWhatIsThere, EmptyAtWait, TimedTypeOK
  <2>4. QED
    BY <2>1, <2>2, <2>3
<1>2. CASE TWait(c)
  BY <1>2 DEF TWait, TimedTypeOK, TimedLockHeld, TakesWhatIsThere,
              EmptyAtWait, timeVars
<1>3. CASE TTimeout(c)
  BY <1>3 DEF TTimeout, TimedTypeOK, TimedLockHeld, TakesWhatIsThere,
              EmptyAtWait
<1>4. CASE TExit(c)
  BY <1>4 DEF TExit, vars, TimedTypeOK, TimedLockHeld, TakesWhatIsThere,
              EmptyAtWait
<1>5. CASE Acquire(c) /\ UNCHANGED timeVars
  BY <1>5, AcquireTIInv
<1>6. CASE CReturn(c) /\ UNCHANGED timeVars
  BY <1>6 DEF CReturn, TimedTypeOK, TimedLockHeld, TakesWhatIsThere,
              EmptyAtWait, timeVars
<1>7. CASE CTake(c) /\ UNCHANGED timeVars
  BY <1>7 DEF CTake, TimedTypeOK, TimedLockHeld, TakesWhatIsThere,
              EmptyAtWait, timeVars
<1>8. CASE CStore(c) /\ UNCHANGED timeVars
  <2> USE <1>8 DEF CStore, timeVars
  <2>1. TimedTypeOK'
    BY DEF TimedTypeOK, TakesWhatIsThere
  <2>2. TimedLockHeld'
    BY DEF TimedLockHeld, TimedTypeOK
  <2>3. TakesWhatIsThere' /\ EmptyAtWait'
    BY DEF TakesWhatIsThere, EmptyAtWait, TimedLockHeld, TimedTypeOK
  <2>4. QED
    BY <2>1, <2>2, <2>3
<1>9. CASE CUnlock(c) /\ UNCHANGED timeVars
  BY <1>9 DEF CUnlock, TimedTypeOK, TimedLockHeld, TakesWhatIsThere,
              EmptyAtWait, timeVars
<1>10. QED
  BY <1>1, <1>2, <1>3, <1>4, <1>5, <1>6, <1>7, <1>8, <1>9 DEF TConsumerStep

\* Every step keeps the invariant.
LEMMA NextTIInv == TIInv /\ [TNext]_timedVars => TIInv'
<1> SUFFICES ASSUME TIInv, [TNext]_timedVars
             PROVE  TIInv'
  OBVIOUS
<1> USE DEF TIInv
<1>1. CASE TProducerStep
  BY <1>1, ProducerTIInv
<1>2. CASE \E c \in Consumers : TConsumerStep(c)
  BY <1>2, ConsumerTIInv
<1>3. CASE \E c \in Consumers : TSpuriousWakeup(c)
  BY <1>3 DEF TSpuriousWakeup, SpuriousWakeup, TimedTypeOK, TimedLockHeld,
              TakesWhatIsThere, EmptyAtWait, timeVars
<1>4. CASE Tick
  BY <1>4 DEF Tick, vars, TimedTypeOK, TimedLockHeld, TakesWhatIsThere,
              EmptyAtWait
<1>5. CASE UNCHANGED timedVars
  BY <1>5 DEF timedVars, vars, timeVars, TimedTypeOK, TimedLockHeld,
              TakesWhatIsThere, EmptyAtWait
<1>6. QED
  BY <1>1, <1>2, <1>3, <1>4, <1>5 DEF TNext

\* The inductive invariant, from which the theorems below are read off.
LEMMA Invariance == TSpec => []TIInv
  BY InitTIInv, NextTIInv, PTL DEF TSpec
-----------------------------------------------------------------------------
\* Type correctness: g_counter is never negative, whoever timed out, also
\* when a deadline passes between a broadcast and the return from the wait.
THEOREM TypeCorrect == TSpec => []TimedTypeOK
<1>1. TIInv => TimedTypeOK
  BY DEF TIInv
<1>2. QED
  BY <1>1, Invariance, PTL
-----------------------------------------------------------------------------
USE DEF Untimed!Labels, Untimed!Goto, Untimed!Load, Untimed!MutexInit,
  Untimed!MutexLock, Untimed!MutexUnlock, Untimed!CondInit,
  Untimed!CondWait, Untimed!CondReturn, Untimed!CondSignal,
  Untimed!CondBroadcast, Untimed!Wakeup, Untimed!Threads

\* The program with deadlines implements the program without.
THEOREM Refinement == TSpec => ImplementsUntimed
<1>1. TInit => Untimed!Init
  BY DEF TInit, Init, Untimed!Init
<1>2. TIInv /\ [TNext]_timedVars => [Untimed!Next]_(Untimed!vars)
  <2> SUFFICES ASSUME TIInv, [TNext]_timedVars
               PROVE  [Untimed!Next]_(Untimed!vars)
    OBVIOUS
  <2> USE DEF TIInv, TimedTypeOK
  <2>1. ASSUME NEW t \in Threads, Acquire(t)
        PROVE  Untimed!Acquire(t)
    BY <2>1 DEF Acquire, Untimed!Acquire
  <2>2. ASSUME TProducerStep
        PROVE  Untimed!ProducerStep
    <3>1. CASE PAwake
      BY <3>1, <2>1 DEF PAwake, Untimed!ProducerStep
    <3>2. CASE PTest
      BY <3>2 DEF PTest, Untimed!PTest, Untimed!ProducerStep
    <3>3. CASE PAdd
      BY <3>3 DEF PAdd, Untimed!PAdd, Untimed!ProducerStep
    <3>4. CASE PUnlock
      BY <3>4 DEF PUnlock, Untimed!PUnlock, Untimed!ProducerStep
    <3>5. CASE PWakeAndSleep
      BY <3>5 DEF PWakeAndSleep, PWake, Untimed!PWake, Untimed!ProducerStep
    <3>6. QED
      BY <2>2, <3>1, <3>2, <3>3, <3>4, <3>5 DEF TProducerStep
  <2>3. ASSUME NEW c \in Consumers, TConsumerStep(c)
        PROVE  \/ Untimed!ConsumerStep(c) \/ Untimed!SpuriousWakeup(c)
               \/ UNCHANGED Untimed!vars
    <3>1. CASE TTest(c)
      <4>1. CASE counter = 0
        BY <3>1, <4>1 DEF TTest, Untimed!vars
      <4>2. CASE counter # 0
        BY <3>1, <4>2 DEF TTest, Untimed!CTest, Untimed!ConsumerStep
      <4>3. QED
        BY <4>1, <4>2
    <3>2. CASE TWait(c)
      <4>1. counter = 0
        BY <3>2 DEF TWait, EmptyAtWait
      <4>2. QED
        BY <3>2, <4>1 DEF TWait, Untimed!CTest, Untimed!ConsumerStep
    <3>3. CASE TTimeout(c)
      BY <3>3 DEF TTimeout, Untimed!SpuriousWakeup
    <3>4. CASE TExit(c)
      BY <3>4 DEF TExit, vars, Untimed!vars
    <3>5. CASE Acquire(c)
      BY <3>5, <2>1 DEF Untimed!ConsumerStep
    <3>6. CASE CReturn(c)
      BY <3>6 DEF CReturn, Untimed!CReturn, Untimed!ConsumerStep
    <3>7. CASE CTake(c)
      BY <3>7 DEF CTake, Untimed!CTake, Untimed!ConsumerStep
    <3>8. CASE CStore(c)
      BY <3>8 DEF CStore, Untimed!CStore, Untimed!ConsumerStep
    <3>9. CASE CUnlock(c)
      BY <3>9 DEF CUnlock, Untimed!CUnlock, Untimed!ConsumerStep
    <3>10. QED
      BY <2>3, <3>1, <3>2, <3>3, <3>4, <3>5, <3>6, <3>7, <3>8, <3>9
         DEF TConsumerStep
  <2>4. ASSUME NEW c \in Consumers, TSpuriousWakeup(c)
        PROVE  Untimed!SpuriousWakeup(c)
    BY <2>4 DEF TSpuriousWakeup, SpuriousWakeup, Untimed!SpuriousWakeup
  <2>5. CASE Tick \/ UNCHANGED timedVars
    BY <2>5 DEF Tick, timedVars, vars, Untimed!vars
  <2>6. QED
    BY <2>2, <2>3, <2>4, <2>5 DEF TNext, Untimed!Next
<1>3. QED
  BY <1>1, <1>2, Invariance, PTL DEF TSpec, ImplementsUntimed, Untimed!Spec
-----------------------------------------------------------------------------
(* Threads that run at once.                                               *)

\* A broadcast leaves nobody asleep beside an item.
TimedNoLostWakeup ==
  waiting # {} /\ counter > 0 => pc[Producer] \in {"unlock", "wake"}

\* The producer has not slept, or sleeps until after the first deadline.
SleepsOnce ==
  \/ alarm = 0 /\ now = 0
  \/ alarm = TimeToWait + 1 /\ pc[Producer] = "lock"

\* Whoever waits, or is about to, does so since the start of the process.
WaitsFromStart ==
  \A c \in Consumers :
    /\ pc[c] = "wait" => deadline[c] = TimeToWait
    /\ c \in waiting => pc[c] = "return" /\ deadline[c] = TimeToWait

\* Once time has passed there is nothing left to consume, and a consumer is
\* asleep or on its way out.
NothingLeft ==
  now > 0 =>
    /\ counter = 0
    /\ \A c \in Consumers :
         \/ pc[c] = "return" /\ c \in waiting \cup late
         \/ pc[c] = "take" /\ c \in late

OneBatch ==
  /\ now <= TimeToWait
  /\ TimedNoLostWakeup
  /\ SleepsOnce
  /\ WaitsFromStart
  /\ NothingLeft
  /\ late # {} => now = TimeToWait
  /\ exited => now = TimeToWait

\* The parts of OneBatch.
USE DEF OneBatch, TimedNoLostWakeup, SleepsOnce, WaitsFromStart, NothingLeft

\* It holds initially.
LEMMA InitOneBatch == TInit => OneBatch
BY DEF TInit, Init

\* The producer, alone at its start, wakes all and then sleeps past the end.
LEMMA ProducerOneBatch ==
  ASSUME TIInv, OneBatch, TProducerStep
  PROVE  OneBatch'
<1> USE DEF TIInv, TimedTypeOK
<1>1. CASE PAwake
  BY <1>1 DEF PAwake, Acquire, timeVars
<1>2. CASE PTest /\ UNCHANGED timeVars
  BY <1>2 DEF PTest, timeVars
<1>3. CASE PAdd /\ UNCHANGED timeVars
  BY <1>3 DEF PAdd, timeVars
<1>4. CASE PUnlock /\ UNCHANGED timeVars
  BY <1>4 DEF PUnlock, timeVars
<1>5. CASE PWakeAndSleep
  BY <1>5 DEF PWakeAndSleep, PWake
<1> QED BY <1>1, <1>2, <1>3, <1>4, <1>5 DEF TProducerStep

\* The consumers take the batch and wait for no more than the patience.
LEMMA ConsumerOneBatch ==
  ASSUME TIInv, OneBatch, NEW c \in Consumers, TConsumerStep(c)
  PROVE  OneBatch'
<1> USE DEF TIInv, TimedTypeOK
<1>1. CASE TTest(c)
  BY <1>1 DEF TTest
<1>2. CASE TWait(c)
  BY <1>2 DEF TWait, timeVars, EmptyAtWait
<1>3. CASE TTimeout(c)
  BY <1>3 DEF TTimeout
<1>4. CASE TExit(c)
  BY <1>4 DEF TExit, vars
<1>5. CASE Acquire(c) /\ UNCHANGED timeVars
  BY <1>5 DEF Acquire, timeVars
<1>6. CASE CReturn(c) /\ UNCHANGED timeVars
  BY <1>6 DEF CReturn, timeVars
<1>7. CASE c \notin late /\ CTake(c) /\ UNCHANGED timeVars
  BY <1>7 DEF CTake, timeVars
<1>8. CASE CStore(c) /\ UNCHANGED timeVars
  BY <1>8 DEF CStore, timeVars, TakesWhatIsThere
<1>9. CASE CUnlock(c) /\ UNCHANGED timeVars
  BY <1>9 DEF CUnlock, timeVars
<1> QED BY <1>1, <1>2, <1>3, <1>4, <1>5, <1>6, <1>7, <1>8, <1>9 DEF TConsumerStep

\* Time passes only when all are asleep: not at the end of the patience.
LEMMA TickOneBatch ==
  ASSUME TIInv, OneBatch, prompt, Tick
  PROVE  OneBatch'
<1> USE DEF TIInv, TimedTypeOK
<1>1. /\ Asleep /\ now' = now + 1 /\ exited = FALSE
      /\ UNCHANGED <<vars, alarm, deadline, late, exited>>
  BY DEF Tick
<1>2. PICK c \in Consumers : c \in waiting /\ deadline[c] > now
  BY <1>1, ConsumersAssumption DEF Asleep
<1>3. now < TimeToWait /\ late = {} /\ counter = 0
  BY <1>1, <1>2 DEF Asleep
<1> QED BY <1>1, <1>3 DEF Asleep, vars

\* Threads that run at once end the process after one batch.
AtOnce == prompt => OneBatch

\* The invariant is kept; spurious wakeups are not prompt's.
LEMMA NextAtOnce == TIInv /\ AtOnce /\ [TNext]_timedVars => AtOnce'
<1> SUFFICES ASSUME TIInv, AtOnce, [TNext]_timedVars, prompt'
             PROVE  OneBatch'
  BY DEF AtOnce
<1>1. prompt
  <2>1. UNCHANGED prompt
    BY DEF TNext, TProducerStep, TConsumerStep, TSpuriousWakeup, Tick, PAwake,
           PWakeAndSleep, TTest, TWait, TTimeout, TExit, timeVars, timedVars
  <2> QED BY <2>1, Zenon
<1>2. OneBatch
  BY <1>1, Zenon DEF AtOnce
<1>3. CASE TProducerStep
  BY <1>2, <1>3, ProducerOneBatch
<1>4. CASE \E c \in Consumers : TConsumerStep(c)
  BY <1>2, <1>4, ConsumerOneBatch
<1>5. CASE \E c \in Consumers : TSpuriousWakeup(c)
  BY <1>1, <1>5 DEF TSpuriousWakeup
<1>6. CASE Tick
  BY <1>1, <1>2, <1>6, TickOneBatch
<1>7. CASE UNCHANGED timedVars
  BY <1>2, <1>7 DEF timedVars, vars, timeVars
<1> QED BY <1>3, <1>4, <1>5, <1>6, <1>7 DEF TNext

\* With threads that run at once the process ends TIME_TO_WAIT seconds after
\* its start, the only batch consumed to the last item, however many
\* consumers there are and however long their patience.
THEOREM OneBatchOnly == TSpec => []OneBatchThenExit
<1>1. TInit => AtOnce
  BY InitOneBatch, Zenon DEF AtOnce
<1>2. TIInv /\ AtOnce => OneBatchThenExit
  <2> SUFFICES ASSUME TIInv, OneBatch
               PROVE  OneBatchThenExit
    BY Zenon DEF AtOnce, OneBatchThenExit
  <2> QED BY DEF OneBatchThenExit, TIInv, TimedTypeOK
<1> QED BY <1>1, <1>2, NextAtOnce, Invariance, PTL DEF TSpec
=============================================================================
