----------------------- MODULE TimedProducerConsumer -----------------------
(***************************************************************************)
(* src/threads/producer_consumer/producer_withbroadcast_andtimeout.c: the  *)
(* broadcast program with a producer that sleeps between two batches and   *)
(* consumers that wait with a deadline and end the whole process when it   *)
(* passes.  Time is a clock in seconds.  Nothing bounds how long a thread  *)
(* that can go on is kept off the processor, unless prompt says so.        *)
(***************************************************************************)
EXTENDS CondProducerConsumer

CONSTANTS
  TimeToWait,  \* TIME_TO_WAIT
  MaxTime      \* bound: where the models stop the clock

ASSUME TimeAssumption ==
  /\ TimeToWait \in Nat \ {0}
  /\ MaxTime \in Nat
  /\ WakeAll

ASSUME ConsumersAssumption == Consumers # {}

VARIABLES
  now,
  alarm,       \* when the producer's sleep ends
  deadline,    \* the consumers' timeout
  late,        \* consumers whose pthread_cond_timedwait gave ETIMEDOUT
  exited,      \* exit(-1) was called
  prompt       \* in this behaviour threads run at once and wakeups are
               \* never spurious

timeVars == <<now, alarm, deadline, late, exited, prompt>>
timedVars == <<vars, timeVars>>

TInit ==
  /\ Init
  /\ now = 0
  /\ alarm = 0
  /\ deadline = [c \in Consumers |-> 0]
  /\ late = {}
  /\ exited = FALSE
  /\ prompt \in BOOLEAN
-----------------------------------------------------------------------------
PAwake ==
  /\ alarm <= now
  /\ Acquire(Producer)
  /\ UNCHANGED timeVars

\* As PWakeAndSleep, with a sleep shorter than the consumers' patience.
PWakeAndNap ==
  /\ PWake
  /\ alarm' = now + TimeToWait - 1
  /\ UNCHANGED <<now, deadline, late, exited, prompt>>

PWakeAndSleep ==
  /\ PWake
  /\ alarm' = now + TimeToWait + 1
  /\ UNCHANGED <<now, deadline, late, exited, prompt>>

TProducerStep ==
  /\ ~exited
  /\ \/ PAwake
     \/ (PTest \/ PAdd \/ PUnlock) /\ UNCHANGED timeVars
     \/ PWakeAndSleep
-----------------------------------------------------------------------------
\* The deadline is computed before the wait begins.
TTest(c) ==
  /\ pc[c] = "test"
  /\ \/ /\ counter = 0
        /\ deadline' = [deadline EXCEPT ![c] = now + TimeToWait]
        /\ Goto(c, "wait")
     \/ counter # 0 /\ Goto(c, "take") /\ UNCHANGED deadline
  /\ UNCHANGED <<owner, waiting, counter, reg, now, alarm, late, exited, prompt>>

TWait(c) ==
  /\ pc[c] = "wait"
  /\ CondWait(c)
  /\ Goto(c, "return")
  /\ UNCHANGED <<counter, reg, timeVars>>

\* As TTimeout, for a wait that does not take the mutex again.
TTimeoutUnlocked(c) ==
  /\ c \in waiting
  /\ deadline[c] <= now
  /\ waiting' = waiting \ {c}
  /\ late' = late \cup {c}
  /\ Goto(c, "take")
  /\ UNCHANGED <<owner, counter, reg, now, alarm, deadline, exited, prompt>>

TTimeout(c) ==
  /\ c \in waiting
  /\ deadline[c] <= now
  /\ waiting' = waiting \ {c}
  /\ late' = late \cup {c}
  /\ UNCHANGED <<owner, counter, pc, reg, now, alarm, deadline, exited, prompt>>

\* A consumer that timed out exits with the mutex, whatever g_counter is.
TExit(c) ==
  /\ pc[c] = "take"
  /\ c \in late
  /\ exited' = TRUE
  /\ UNCHANGED <<vars, now, alarm, deadline, late, prompt>>

TConsumerStep(c) ==
  /\ ~exited
  /\ \/ TTest(c) \/ TWait(c) \/ TTimeout(c) \/ TExit(c)
     \/ (Acquire(c) \/ CReturn(c) \/ CStore(c) \/ CUnlock(c)) /\ UNCHANGED timeVars
     \/ c \notin late /\ CTake(c) /\ UNCHANGED timeVars

TSpuriousWakeup(c) ==
  /\ ~exited
  /\ ~prompt
  /\ SpuriousWakeup(c)
  /\ UNCHANGED timeVars

\* No thread can go on before the clock does.
Asleep ==
  /\ pc[Producer] = "lock" /\ alarm > now
  /\ \A c \in Consumers : c \in waiting /\ deadline[c] > now

Tick ==
  /\ ~exited
  /\ now < MaxTime
  /\ prompt => Asleep
  /\ now' = now + 1
  /\ UNCHANGED <<vars, alarm, deadline, late, exited, prompt>>

TNext ==
  \/ TProducerStep
  \/ \E c \in Consumers : TConsumerStep(c) \/ TSpuriousWakeup(c)
  \/ Tick

TSpec == TInit /\ [][TNext]_timedVars

TFairSpec ==
  /\ TSpec
  /\ WF_timedVars(TProducerStep)
  /\ \A c \in Consumers : WF_timedVars(TConsumerStep(c))
  /\ WF_timedVars(Tick)
-----------------------------------------------------------------------------
(* Properties.  Those of CondProducerConsumer come with the refinement.    *)

\* Types; g_counter is never negative, whoever timed out.
TimedTypeOK ==
  /\ owner \in Threads \cup {Nobody}
  /\ waiting \in SUBSET Consumers
  /\ counter \in Nat
  /\ pc \in [Threads -> Labels \cup {"wait"}]
  /\ reg \in [Threads -> Nat]
  /\ now \in Nat
  /\ alarm \in Nat
  /\ deadline \in [Consumers -> Nat]
  /\ late \in SUBSET Consumers
  /\ exited \in BOOLEAN
  /\ prompt \in BOOLEAN

\* Timeouts are spurious wakeups to the program without deadlines, and a
\* deadline is computed inside its test: seen so, this program does nothing
\* the other could not do, until it exits.
Untimed == INSTANCE CondProducerConsumer
  WITH pc <- [t \in Threads |-> IF pc[t] = "wait" THEN "test" ELSE pc[t]]
ImplementsUntimed == Untimed!Spec

\* With threads that run at once the producer's sleep outlasts the
\* consumers' patience: the process ends TIME_TO_WAIT seconds after its
\* start, with the only batch ever produced consumed to the last item.
OneBatchThenExit ==
  prompt => /\ now <= TimeToWait
            /\ alarm <= TimeToWait + 1
            /\ exited => now = TimeToWait /\ counter = 0

\* ... and it does end.
ProcessExits == prompt => <>exited
=============================================================================
