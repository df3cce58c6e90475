--------------------------- MODULE PollingPrograms ---------------------------
(***************************************************************************)
(* producer_bug.c and producer_bug_busywait.c for TLC: a behaviour is one  *)
(* of one of them, chosen at the start.                                    *)
(***************************************************************************)
EXTENDS BusyWaitProducerConsumer, RacyProducerConsumer

VARIABLE program

PollInit == program \in {"bug", "busywait"} /\ Init /\ RInit

PollNext ==
  /\ UNCHANGED program
  /\ \/ program = "bug" /\ RNext /\ UNCHANGED vars
     \/ program = "busywait" /\ Next /\ UNCHANGED rVars

PollFairSpec ==
  /\ PollInit /\ [][PollNext]_<<program, vars, rVars>>
  /\ program = "busywait" => Fairness

-----------------------------------------------------------------------------
\* producer_bug_busywait.c: only a mutex that is kept from one thread for ever
\* stops the two; neither does the polling of an empty counter, nor the look
\* at a full one.
BothThreadsWork == program = "busywait" => BothKeepWorking
=============================================================================
