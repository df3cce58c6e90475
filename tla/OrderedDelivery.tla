-------------------------- MODULE OrderedDelivery --------------------------
(***************************************************************************)
(* What a writer that numbers its messages promises its readers, however   *)
(* many they are: each number is delivered once, in order, and at most     *)
(* MaxMsgs are under way.  A new run starts from nothing.                  *)
(***************************************************************************)
EXTENDS Integers

CONSTANTS MaxMsgs, UIntMax

VARIABLES sent, delivered, underWay

\* ++ on an unsigned int.
Inc(n) == IF n = UIntMax THEN 0 ELSE n + 1

Init == sent = 0 /\ delivered = 0 /\ underWay = 0

Send ==
  /\ underWay < MaxMsgs
  /\ sent' = Inc(sent)
  /\ underWay' = underWay + 1
  /\ UNCHANGED delivered

Deliver ==
  /\ underWay > 0
  /\ delivered' = Inc(delivered)
  /\ underWay' = underWay - 1
  /\ UNCHANGED sent

Restart == sent' = 0 /\ delivered' = 0 /\ underWay' = 0

Next == Send \/ Deliver \/ Restart

Spec == Init /\ [][Next]_<<sent, delivered, underWay>>
=============================================================================
