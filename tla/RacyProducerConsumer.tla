------------------------ MODULE RacyProducerConsumer ------------------------
(***************************************************************************)
(* src/threads/producer_consumer/producer_bug.c: producer and consumer     *)
(* share g_counter with no lock.  Each access is a step: the test, the     *)
(* load of ++ or --, its store.  The accesses race.  All of them are to    *)
(* one aligned int, so what the compiled program (no optimisation, see     *)
(* src/threads/Makefile) can do is what their interleavings can do.        *)
(***************************************************************************)
EXTENDS ProducerAndConsumer

VARIABLES
  rCounter,    \* g_counter
  rPc,
  rReg         \* the register each thread loads g_counter into

rVars == <<rCounter, rPc, rReg>>

RGoto(t, label) == rPc' = [rPc EXCEPT ![t] = label]

RInit ==
  /\ rCounter = 0
  /\ rPc = [t \in Threads |-> "test"]
  /\ rReg = [t \in Threads |-> 0]

\* When the test fails the loop comes round to the same test.
RPTest ==
  /\ rPc[Producer] = "test"
  /\ rCounter <= MaxSize
  /\ RGoto(Producer, "load")
  /\ UNCHANGED <<rCounter, rReg>>

\* As RCTest, with the test forgotten.
RCTestNothing ==
  /\ rPc[Consumer] = "test"
  /\ RGoto(Consumer, "load")
  /\ UNCHANGED <<rCounter, rReg>>

RCTest ==
  /\ rPc[Consumer] = "test"
  /\ rCounter # -1
  /\ RGoto(Consumer, "load")
  /\ UNCHANGED <<rCounter, rReg>>

RLoad(t) ==
  /\ rPc[t] = "load"
  /\ rReg' = [rReg EXCEPT ![t] = rCounter]
  /\ RGoto(t, "store")
  /\ UNCHANGED rCounter

RPStore ==
  /\ rPc[Producer] = "store"
  /\ rCounter' = rReg[Producer] + 1
  /\ RGoto(Producer, "test")
  /\ UNCHANGED rReg

\* As RCStore, for g_counter = g_counter--.
RCStoreOld ==
  /\ rPc[Consumer] = "store"
  /\ rCounter' = rReg[Consumer]
  /\ RGoto(Consumer, "test")
  /\ UNCHANGED rReg

RCStore ==
  /\ rPc[Consumer] = "store"
  /\ rCounter' = rReg[Consumer] - 1
  /\ RGoto(Consumer, "test")
  /\ UNCHANGED rReg

RNext == RPTest \/ RCTest \/ (\E t \in Threads : RLoad(t)) \/ RPStore \/ RCStore

RSpec == RInit /\ [][RNext]_rVars
-----------------------------------------------------------------------------
(***************************************************************************)
(* Properties.  Updates are lost (SharedCounter!Spec does not hold), yet   *)
(* the races leave the following intact.                                   *)
(***************************************************************************)

\* No thread ever loads a value from outside the range of g_counter.
RTypeOK ==
  /\ rCounter \in Int
  /\ rPc \in [Threads -> {"test", "load", "store"}]
  /\ rReg \in [Threads -> -1 .. MaxSize + 1]

\* The stale tests and the stale stores never drive g_counter out of the
\* range the two tests are meant to keep, nor make a thread print a value
\* outside of it: the consumer prints nothing below 0, the producer nothing
\* above MAX_SIZE (each prints the value its ++ or -- loaded).
RangeDespiteRaces ==
  /\ rCounter \in -1 .. MaxSize + 1
  /\ rPc[Producer] = "store" => rReg[Producer] <= MaxSize
  /\ rPc[Consumer] = "store" => rReg[Consumer] >= 0

\* A store can undo what the other thread did since the load, but always
\* in its own direction: ++ never leaves g_counter where it was or lower
\* than it found it, -- never where it was or higher.
StoresKeepDirection ==
  [][/\ RPStore => rCounter' > rCounter
     /\ RCStore => rCounter' < rCounter]_rVars
=============================================================================
