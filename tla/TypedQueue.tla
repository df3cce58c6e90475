----------------------------- MODULE TypedQueue -----------------------------
(***************************************************************************)
(* src/ipc/execv/mq_ipc_vfork_writer.c and mq_ipc_vfork_reader.c: the      *)
(* writer counts in halves and sends a whole number as an unsigned int and *)
(* any other as a float; a reader goes by the type the message says it is. *)
(* A float is the number of its halves.  The loops are those of            *)
(* OverflowQueue, in processes that open the queue themselves.             *)
(***************************************************************************)
EXTENDS OverflowQueue

CONSTANT TqFloatMax    \* the halves from which on adding 0.5 to a float
                       \* gives the same float: 2^24

ASSUME TqAssumption == TqFloatMax \in Nat

VARIABLES
  tqQueue, tqPc, tqCounter,
  tqCurmsgs,  \* mq_curmsgs in the writer's mqAttr; a reader's is only printed
  tqLast      \* ucounter or fcounter, as a float, of the latest reader

tqVars == <<tqQueue, tqPc, tqCounter, tqCurmsgs, tqLast>>

Mq == INSTANCE MessageQueue WITH queue <- tqQueue

TqInit ==
  /\ tqQueue = <<>> /\ tqPc = StartPC /\ tqCounter = 0 /\ tqCurmsgs = 0
  /\ tqLast = 0

TqGoto(t, label) == tqPc' = [tqPc EXCEPT ![t] = label]

\* counter += 0.5, rounded to the nearest float.
FloatInc(h) == IF h >= TqFloatMax THEN h ELSE h + 1

\* As TqEncode, for a writer that has one type only.
TqEncodeWhole(h) == [type |-> "UINT", data |-> h \div 2]

TqEncode(h) == IF h % 2 = 0 THEN [type |-> "UINT", data |-> h \div 2]
                            ELSE [type |-> "FLOAT", data |-> h]

TqDecode(m) == IF m.type = "UINT" THEN 2 * m.data ELSE m.data

TqWGetAttr ==
  /\ tqPc[Writer] = "check"
  /\ tqCurmsgs' = Len(tqQueue)
  /\ TqGoto(Writer, "test")
  /\ UNCHANGED <<tqQueue, tqCounter, tqLast>>

TqTest ==
  /\ tqPc[Writer] = "test"
  /\ \/ tqCurmsgs = MaxMsgs /\ TqGoto(Writer, "check") /\ UNCHANGED tqCounter
     \/ /\ tqCurmsgs # MaxMsgs
        /\ tqCounter' = FloatInc(tqCounter)
        /\ TqGoto(Writer, "send")
  /\ UNCHANGED <<tqQueue, tqCurmsgs, tqLast>>

TqSend ==
  /\ tqPc[Writer] = "send"
  /\ Mq!MqSend(TqEncode(tqCounter))
  /\ TqGoto(Writer, "check")
  /\ UNCHANGED <<tqCounter, tqCurmsgs, tqLast>>

TqWriter == TqWGetAttr \/ TqTest \/ TqSend

TqReceive(r) ==
  /\ tqPc[r] = "receive"
  /\ Mq!MqReceive(Head(tqQueue))
  /\ tqLast' = TqDecode(Head(tqQueue))
  /\ TqGoto(r, "print")
  /\ UNCHANGED <<tqCounter, tqCurmsgs>>

\* mq_getattr and printf.
TqPrint(r) ==
  /\ tqPc[r] = "print"
  /\ TqGoto(r, "receive")
  /\ UNCHANGED <<tqQueue, tqCounter, tqCurmsgs, tqLast>>

TqReader(r) == TqReceive(r) \/ TqPrint(r)
-----------------------------------------------------------------------------
\* The number a reader makes of a message comes one half after the one made
\* of the message before, by whichever reader, until floats end: no number
\* is lost, and none is taken for the other type.
TqChain == [][\A r \in Readers : TqReceive(r) => tqLast' = FloatInc(tqLast)]_tqVars
=============================================================================
