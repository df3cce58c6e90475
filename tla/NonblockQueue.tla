--------------------------- MODULE NonblockQueue ---------------------------
(***************************************************************************)
(* src/threads/reader_writer/mq_withoverflow_nonblock.c: OverflowQueue     *)
(* with a writer that opens the queue O_NONBLOCK, counts, and lets mq_send *)
(* refuse the message when the queue is full.  The readers and the start   *)
(* of a run are those of OverflowQueue.                                    *)
(***************************************************************************)
EXTENDS OverflowQueue

VARIABLES
  ret,        \* what the last mq_send returned: 0 or -1
  errno,      \* the writer's own, no call that succeeds clears it
  wrapped     \* history: whether the counter overflowed in this run

nvars == <<vars, ret, errno, wrapped>>

NInit == Init /\ ret = 0 /\ errno = "0" /\ wrapped = FALSE

NCount ==
  /\ pc[Writer] = "check"
  /\ counter' = Inc(counter)
  /\ wrapped' = (wrapped \/ counter' = 0)
  /\ Goto(Writer, "send")
  /\ UNCHANGED <<queue, curmsgs, last, ret, errno>>

NSend ==
  /\ pc[Writer] = "send"
  /\ \/ MqSend(counter) /\ ret' = 0 /\ UNCHANGED errno
     \/ MqIsFull /\ ret' = -1 /\ errno' = "EAGAIN" /\ UNCHANGED queue
  /\ Goto(Writer, "test")
  /\ UNCHANGED <<counter, curmsgs, last, wrapped>>

\* What is printed hangs on errno, and ret is only printed.
NReport ==
  /\ pc[Writer] = "test"
  /\ \/ errno = "EAGAIN" /\ curmsgs' = Len(queue)
     \/ errno # "EAGAIN" /\ UNCHANGED curmsgs
  /\ Goto(Writer, "check")
  /\ UNCHANGED <<queue, counter, last, ret, errno, wrapped>>

NWriterStep == NCount \/ NSend \/ NReport

NReaderStep(r) == ReaderStep(r) /\ UNCHANGED <<ret, errno, wrapped>>

NRestart == Restart /\ ret' = 0 /\ errno' = "0" /\ wrapped' = FALSE

NNext == NWriterStep \/ (\E r \in Readers : NReaderStep(r)) \/ NRestart

NSpec == NInit /\ [][NNext]_nvars

\* As in OverflowQueue.
NFairness ==
  /\ WF_nvars(NWriterStep)
  /\ \A r \in Readers : WF_nvars(NReaderStep(r))

NFairSpec == NSpec /\ NFairness

-----------------------------------------------------------------------------
\* Properties

\* A refused number is skipped, but what the queue delivers still ascends:
\* as long as the unsigned counter has not overflowed, no number is repeated,
\* overtaken or left over from an earlier run.
DeliversAscending ==
  ~wrapped =>
    LET sequence == <<last>> \o queue
    IN  /\ \A i \in 1 .. Len(queue) : sequence[i] < sequence[i + 1]
        /\ sequence[Len(sequence)] <= counter

\* Refusals never stop the flow: as long as the program is not killed again
\* and again, messages keep arriving.
RefusedAndStillArriving ==
  []<><<\E r \in Readers : RReceive(r)>>_nvars \/ []<><<NRestart>>_nvars

\* "reached max number of messages" is printed for a message the queue refused.
FullIsReportedWhenFull ==
  pc[Writer] = "test" /\ errno = "EAGAIN" => ret = -1
=============================================================================
