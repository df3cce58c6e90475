--------------------------- MODULE OverflowQueue ---------------------------
(***************************************************************************)
(* src/threads/reader_writer/mq_withoverflow.c: a writer numbers messages  *)
(* and sends them to a queue that several readers empty.  The writer looks *)
(* at the number of messages before it sends, so as not to block; readers  *)
(* come in between.  The program is ended by killing it and may be run     *)
(* again.                                                                  *)
(***************************************************************************)
EXTENDS MessageQueue

CONSTANTS
  Writer,
  Readers,
  UIntMax     \* the largest unsigned int

Threads == Readers \cup {Writer}

ASSUME ThreadAssumption == Writer \notin Readers

ASSUME UIntAssumption == UIntMax \in Nat \ {0}

VARIABLES
  pc,
  counter,    \* the writer's msg_data.counter
  curmsgs,    \* mq_curmsgs in the writer's mqAttr; a reader's is only printed
  last        \* msg_data.counter of the reader that received last

vars == <<queue, pc, counter, curmsgs, last>>

Goto(t, label) == pc' = [pc EXCEPT ![t] = label]

\* ++ on an unsigned int.
Inc(n) == IF n = UIntMax THEN 0 ELSE n + 1

\* Where the threads start.
StartPC == [t \in Threads |-> IF t = Writer THEN "check" ELSE "receive"]

\* main removes what an earlier run left in the queue before it starts.
Init ==
  /\ queue = <<>>
  /\ pc = StartPC
  /\ counter = 0
  /\ curmsgs = 0
  /\ last = 0

WGetAttr ==
  /\ pc[Writer] = "check"
  /\ curmsgs' = Len(queue)
  /\ Goto(Writer, "test")
  /\ UNCHANGED <<queue, counter, last>>

\* As WTest, without the test.
WTestNothing ==
  /\ pc[Writer] = "test"
  /\ counter' = Inc(counter)
  /\ Goto(Writer, "send")
  /\ UNCHANGED <<queue, curmsgs, last>>

\* As WTest, but a full queue is not looked at again.
WTestForGood ==
  /\ pc[Writer] = "test"
  /\ \/ curmsgs = MaxMsgs /\ UNCHANGED <<pc, counter>>
     \/ /\ curmsgs # MaxMsgs
        /\ counter' = Inc(counter)
        /\ Goto(Writer, "send")
  /\ UNCHANGED <<queue, curmsgs, last>>

WTest ==
  /\ pc[Writer] = "test"
  /\ \/ curmsgs = MaxMsgs /\ Goto(Writer, "check") /\ UNCHANGED counter
     \/ /\ curmsgs # MaxMsgs
        /\ counter' = Inc(counter)
        /\ Goto(Writer, "send")
  /\ UNCHANGED <<queue, curmsgs, last>>

WSend ==
  /\ pc[Writer] = "send"
  /\ MqSend(counter)
  /\ Goto(Writer, "check")
  /\ UNCHANGED <<counter, curmsgs, last>>

WriterStep == WGetAttr \/ WTest \/ WSend

RReceive(r) ==
  /\ pc[r] = "receive"
  /\ MqReceive(Head(queue))
  /\ last' = Head(queue)
  /\ Goto(r, "print")
  /\ UNCHANGED <<counter, curmsgs>>

\* mq_getattr and printf.
RPrint(r) ==
  /\ pc[r] = "print"
  /\ Goto(r, "receive")
  /\ UNCHANGED <<queue, counter, curmsgs, last>>

ReaderStep(r) == RReceive(r) \/ RPrint(r)

\* The process is killed, anywhere, and the program run again.
Rerun ==
  /\ pc' = StartPC
  /\ counter' = 0
  /\ curmsgs' = 0
  /\ last' = 0

\* As Restart, without mq_unlink.
RestartOnOldQueue == UNCHANGED queue /\ Rerun

Restart == queue' = <<>> /\ Rerun

Next == WriterStep \/ (\E r \in Readers : ReaderStep(r)) \/ Restart

Spec == Init /\ [][Next]_vars

\* The scheduler runs every thread that can run.
Fairness ==
  /\ WF_vars(WriterStep)
  /\ \A r \in Readers : WF_vars(ReaderStep(r))

FairSpec == Spec /\ Fairness

-----------------------------------------------------------------------------
\* Properties

UInt == 0 .. UIntMax

\* Every variable has its C type, and the queue holds mq_maxmsg messages at
\* most.
TypeOK ==
  /\ queue \in Seq(UInt) /\ Len(queue) <= MaxMsgs
  /\ pc \in [Threads -> {"check", "test", "send", "receive", "print"}]
  /\ counter \in UInt
  /\ curmsgs \in 0 .. MaxMsgs
  /\ last \in UInt

\* The number the writer tests is old when it sends, because readers come in
\* between, but it is old on the safe side: when the writer calls mq_send
\* there is room, so the blocking send never blocks.
WriterNeverBlocks == pc[Writer] = "send" => ~MqIsFull

\* The number sent last: ++ runs ahead of mq_send.
SentLast ==
  IF pc[Writer] # "send" THEN counter
  ELSE IF counter = 0 THEN UIntMax ELSE counter - 1

Promise == INSTANCE OrderedDelivery
  WITH sent <- SentLast, delivered <- last, underWay <- Len(queue)

\* Whatever the readers' interleaving, and also after the program was killed
\* with messages in the queue, the numbers leave the queue one after the other
\* with none lost, repeated or left over from an earlier run.
DeliversInOrder == Promise!Spec

\* As long as the program is not killed again and again, messages keep
\* arriving: the writer that spins on a full queue does not stop the readers,
\* and readers that wait on an empty one do not stop the writer.
MessagesKeepArriving ==
  []<><<\E r \in Readers : RReceive(r)>>_vars \/ []<><<Restart>>_vars
=============================================================================
