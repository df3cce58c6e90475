--------------------------- MODULE SharedCounter ---------------------------
(***************************************************************************)
(* What every producer/consumer program with a lock promises about         *)
(* g_counter: it changes by whole operations only, a production of Batch   *)
(* below the limit or the consumption of one item that is there.  Threads, *)
(* locks and registers do not appear: a lost update, a consumption from an *)
(* empty counter or a production over the limit is not a step of Spec.     *)
(***************************************************************************)
EXTENDS Integers

CONSTANTS MaxSize, Batch

VARIABLE counter

Init == counter = 0

Produce ==
  /\ counter < MaxSize
  /\ counter' = counter + Batch

Consume ==
  /\ counter > 0
  /\ counter' = counter - 1

Next == Produce \/ Consume

Spec == Init /\ [][Next]_counter
=============================================================================
