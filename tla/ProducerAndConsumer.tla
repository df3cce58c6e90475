------------------------ MODULE ProducerAndConsumer ------------------------
(***************************************************************************)
(* What producer_bug.c and producer_bug_busywait.c of                      *)
(* src/threads/producer_consumer share: one producer, one consumer and a   *)
(* limit.                                                                  *)
(***************************************************************************)
EXTENDS Integers

CONSTANTS
  Producer,
  Consumer,
  MaxSize     \* MAX_SIZE

ASSUME ThreadAssumption == Producer # Consumer

ASSUME SizeAssumption == MaxSize \in Nat

Threads == {Producer, Consumer}
=============================================================================
