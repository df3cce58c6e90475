----------------------------- MODULE PlainQueue -----------------------------
(***************************************************************************)
(* src/threads/reader_writer/mq.c: one writer, one reader and blocking     *)
(* calls.  main opens the queue with O_CREAT and does not unlink it, so    *)
(* what was in the queue when a run was killed is there when the next one  *)
(* starts.                                                                 *)
(***************************************************************************)
EXTENDS MessageQueue, FiniteSets

CONSTANT
  IntMax      \* bound, a number: the writer stops here, where the C int
              \* would overflow

\* A message is the index it carries; ours tells whether this run sent it.
VARIABLES
  wpc, windex,    \* the writer
  rmsg            \* the reader's index, and whether this run sent it

vars == <<queue, wpc, windex, rmsg>>

NoMessage == [ours |-> TRUE, index |-> 0]

Init == queue = <<>> /\ wpc = "count" /\ windex = 0 /\ rmsg = NoMessage

WCount ==
  /\ wpc = "count"
  /\ windex < IntMax
  /\ windex' = windex + 1
  /\ wpc' = "send"
  /\ UNCHANGED <<queue, rmsg>>

\* As WSend, counting what was sent only afterwards and again.
WSendAndCount ==
  /\ wpc = "send"
  /\ MqSend([ours |-> TRUE, index |-> windex])
  /\ windex < IntMax /\ windex' = windex + 1
  /\ wpc' = "count"
  /\ UNCHANGED rmsg

WSend ==
  /\ wpc = "send"
  /\ MqSend([ours |-> TRUE, index |-> windex])
  /\ wpc' = "count"
  /\ UNCHANGED <<windex, rmsg>>

RReceive ==
  /\ MqReceive(Head(queue))
  /\ rmsg' = Head(queue)
  /\ UNCHANGED <<wpc, windex>>

\* The process is killed, anywhere, and the program run again: mq_open finds
\* the queue of the run before.
Restart ==
  /\ queue' = [i \in DOMAIN queue |-> [queue[i] EXCEPT !.ours = FALSE]]
  /\ wpc' = "count"
  /\ windex' = 0
  /\ rmsg' = NoMessage

Next == WCount \/ WSend \/ RReceive \/ Restart

Spec == Init /\ [][Next]_vars

-----------------------------------------------------------------------------
\* Properties

Promise == INSTANCE OrderedDelivery
  WITH UIntMax <- IntMax,
       sent <- IF wpc = "send" THEN windex - 1 ELSE windex,
       delivered <- IF rmsg.ours THEN rmsg.index ELSE 0,
       underWay <- Cardinality({i \in DOMAIN queue : queue[i].ours})

\* Apart from what earlier runs left in the queue, what this run sends arrives
\* whole and in order.
OursInOrder == Promise!Spec
=============================================================================
