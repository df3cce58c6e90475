------------------------------ MODULE TlvPipe ------------------------------
(***************************************************************************)
(* src/processes/piperw.cpp and piperwp.cpp: a child writes type/length/   *)
(* value messages to a pipe and its parent reads them.  piperw.cpp writes  *)
(* a message at once, reads its two integers at once and has its parent    *)
(* close the write end; piperwp.cpp writes header and value apart, reads   *)
(* type, length and value apart, and keeps the write end open.  A pipe is  *)
(* a stream of units, an integer or a byte each, that knows nothing of     *)
(* messages; a write this small is atomic and the pipe never full.         *)
(***************************************************************************)
EXTENDS Integers, Sequences

CONSTANT TlvLength    \* the length of "hello" and "world"

ASSUME TlvAssumption == TlvLength \in Nat

TEXT == 0
END == 1

\* The messages of the child; the bytes of its texts are numbered.
TlvText(k) == [type |-> TEXT, value |-> [b \in 1 .. TlvLength |-> 10 * k + b]]
TlvMessages == <<TlvText(1), TlvText(2), [type |-> END, value |-> <<>>]>>

VARIABLES
  tlvSplit,     \* whether this is piperwp.cpp
  tlvPipe,      \* the units in the pipe
  tlvChild,     \* "none", "header", "value", "exited" or "killed"
  tlvSent,      \* how many messages the child has written
  tlvParent,    \* "fork", "header", "length", "value", "switch" or "exited"
  tlvMsg,       \* *tlv, the message the parent is reading
  tlvGot,       \* history: how many messages the parent has handled
  tlvEof        \* history: the last header was the end of file

tlvVars == <<tlvSplit, tlvPipe, tlvChild, tlvSent, tlvParent, tlvMsg, tlvGot, tlvEof>>

NewTlv == [type |-> 0, length |-> 0, value |-> <<>>]

TlvInit ==
  /\ tlvSplit \in BOOLEAN
  /\ tlvPipe = <<>> /\ tlvChild = "none" /\ tlvSent = 0
  /\ tlvParent = "fork" /\ tlvMsg = NewTlv /\ tlvGot = 0 /\ tlvEof = FALSE

\* A fork that fails ends the program.
TlvFork ==
  /\ tlvParent = "fork"
  /\ \/ tlvParent' = "header" /\ tlvChild' = "header"
     \/ tlvParent' = "exited" /\ UNCHANGED tlvChild
  /\ UNCHANGED <<tlvSplit, tlvPipe, tlvSent, tlvMsg, tlvGot, tlvEof>>
-----------------------------------------------------------------------------
(* The child: writeTlvToPipe for each message. *)

TlvToSend == TlvMessages[tlvSent + 1]
TlvHeader(m) == <<m.type, Len(m.value)>>

TlvWrites(units, next, sent) ==
  /\ tlvPipe' = tlvPipe \o units
  /\ tlvChild' = IF sent = Len(TlvMessages) THEN "exited" ELSE next
  /\ tlvSent' = sent
  /\ UNCHANGED <<tlvSplit, tlvParent, tlvMsg, tlvGot, tlvEof>>

TlvWriteAtOnce ==
  /\ ~tlvSplit /\ tlvChild = "header"
  /\ TlvWrites(TlvHeader(TlvToSend) \o TlvToSend.value, "header", tlvSent + 1)

TlvWriteHeader ==
  /\ tlvSplit /\ tlvChild = "header"
  /\ TlvWrites(TlvHeader(TlvToSend), "value", tlvSent)

\* As TlvWriteValue, with the end of the string.
TlvWriteString ==
  /\ tlvChild = "value"
  /\ TlvWrites(Append(TlvToSend.value, 0), "header", tlvSent + 1)

TlvWriteValue ==
  /\ tlvChild = "value"
  /\ TlvWrites(TlvToSend.value, "header", tlvSent + 1)

\* The child may be killed anywhere.
TlvKill ==
  /\ tlvChild \in {"header", "value"}
  /\ tlvChild' = "killed"
  /\ UNCHANGED <<tlvSplit, tlvPipe, tlvSent, tlvParent, tlvMsg, tlvGot, tlvEof>>

TlvChildStep == TlvWriteAtOnce \/ TlvWriteHeader \/ TlvWriteValue
-----------------------------------------------------------------------------
(* The parent: readTlvFromPipe and the switch. *)

\* read() waits for a first unit or for the last write end to be closed.
TlvReadable ==
  \/ tlvPipe # <<>>
  \/ ~tlvSplit /\ tlvChild \in {"exited", "killed"}

\* What a read of n units returns.
TlvData(n) == SubSeq(tlvPipe, 1, IF n <= Len(tlvPipe) THEN n ELSE Len(tlvPipe))
TlvTake(n) == tlvPipe' = SubSeq(tlvPipe, Len(TlvData(n)) + 1, Len(tlvPipe))

\* The integer a read has left in a field that was 0.
TlvField(data, i) == IF i \in DOMAIN data THEN data[i] ELSE 0

TlvReadHeader ==
  /\ tlvParent = "header" /\ TlvReadable
  /\ LET n == IF tlvSplit THEN 1 ELSE 2
         d == TlvData(n)
     IN  /\ TlvTake(n)
         /\ tlvMsg' = [type |-> TlvField(d, 1), length |-> TlvField(d, 2), value |-> <<>>]
         /\ tlvEof' = (d = <<>>)
  /\ tlvParent' = IF tlvSplit THEN "length" ELSE "value"
  /\ UNCHANGED <<tlvSplit, tlvChild, tlvSent, tlvGot>>

TlvReadLength ==
  /\ tlvParent = "length" /\ TlvReadable
  /\ TlvTake(1)
  /\ tlvMsg' = [tlvMsg EXCEPT !.length = TlvField(TlvData(1), 1)]
  /\ tlvParent' = "value"
  /\ UNCHANGED <<tlvSplit, tlvChild, tlvSent, tlvGot, tlvEof>>

\* A read of nothing returns at once.
TlvReadValue ==
  /\ tlvParent = "value" /\ (tlvMsg.length = 0 \/ TlvReadable)
  /\ TlvTake(tlvMsg.length)
  /\ tlvMsg' = [tlvMsg EXCEPT !.value = TlvData(tlvMsg.length)]
  /\ tlvParent' = "switch"
  /\ UNCHANGED <<tlvSplit, tlvChild, tlvSent, tlvGot, tlvEof>>

\* As TlvSwitch, where END leaves the switch but not the loop.
TlvSwitchBreak ==
  /\ tlvParent = "switch"
  /\ tlvParent' = "header"
  /\ tlvGot' = IF tlvEof THEN tlvGot ELSE tlvGot + 1
  /\ UNCHANGED <<tlvSplit, tlvPipe, tlvChild, tlvSent, tlvMsg, tlvEof>>

TlvSwitch ==
  /\ tlvParent = "switch"
  /\ tlvParent' = IF tlvMsg.type = END THEN "exited" ELSE "header"
  /\ tlvGot' = IF tlvEof THEN tlvGot ELSE tlvGot + 1
  /\ UNCHANGED <<tlvSplit, tlvPipe, tlvChild, tlvSent, tlvMsg, tlvEof>>

TlvParentStep == TlvReadHeader \/ TlvReadLength \/ TlvReadValue \/ TlvSwitch

TlvNext == TlvFork \/ TlvChildStep \/ TlvKill \/ TlvParentStep

TlvSpec == TlvInit /\ [][TlvNext]_tlvVars

\* The scheduler runs both processes.
TlvFairness == WF_tlvVars(TlvFork) /\ WF_tlvVars(TlvChildStep) /\ WF_tlvVars(TlvParentStep)
-----------------------------------------------------------------------------
\* Whatever interleaving cuts the stream into reads and wherever the child is
\* killed, what the parent has read when it comes to its switch is the next
\* message, whole; the empty TEXT messages it makes of an end of file come
\* only in piperw.cpp, after every message the child wrote and only if END is
\* not among them.  (It says nothing of what printf makes of the value: in
\* piperwp.cpp no zero byte ends it.)
TlvIntact ==
  tlvParent = "switch" =>
    IF tlvEof
    THEN /\ ~tlvSplit /\ tlvChild = "killed"
         /\ tlvGot = tlvSent /\ tlvSent < Len(TlvMessages)
    ELSE /\ tlvGot < Len(TlvMessages)
         /\ tlvMsg.type = TlvMessages[tlvGot + 1].type
         /\ tlvMsg.value = TlvMessages[tlvGot + 1].value

\* The parent ends if END was written, though the child may be killed by
\* then; and without an END it goes on for ever, reading ends of file in
\* piperw.cpp and waiting in piperwp.cpp, with every whole message handled.
TlvEnds ==
  <>[](\/ tlvParent = "exited"
       \/ tlvChild = "killed" /\ tlvSent < Len(TlvMessages) /\ tlvGot = tlvSent)
=============================================================================
