---------------------------- MODULE MessageQueue ----------------------------
(***************************************************************************)
(* A POSIX message queue as the programs of src/threads/reader_writer and  *)
(* src/ipc use it: all messages have priority 0, so it is a FIFO of at     *)
(* most MaxMsgs messages.  A call that would block is a step that is not   *)
(* enabled.  Queues live in the kernel: one outlasts the processes that    *)
(* used it until it is unlinked.                                           *)
(***************************************************************************)
EXTENDS Integers, Sequences

CONSTANT MaxMsgs    \* attr.mq_maxmsg

ASSUME MaxMsgsAssumption == MaxMsgs \in Nat \ {0}

VARIABLE queue

MqIsFull == Len(queue) >= MaxMsgs

MqSend(m) ==
  /\ ~MqIsFull
  /\ queue' = Append(queue, m)

MqReceive(m) ==
  /\ queue # <<>>
  /\ m = Head(queue)
  /\ queue' = Tail(queue)
=============================================================================
