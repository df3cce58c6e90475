---------------------------- MODULE PipeCapture ----------------------------
(***************************************************************************)
(* src/processes/pipe.cpp: execute() runs Command in a child whose output  *)
(* and errors go to pipes, waits for the child, and only then reads the    *)
(* pipes, CapChunk bytes at a time, into a buffer that was never           *)
(* initialised and is copied up to its first zero byte.  Bytes are         *)
(* numbers: those of the output count up from 1, those of the errors down  *)
(* from -2, what lay in the buffer is -1.                                  *)
(***************************************************************************)
EXTENDS Integers, Sequences, FiniteSets

CONSTANTS
  CapChunk,      \* readSize
  CapCapacity,   \* what a pipe holds before a write blocks
  CapMaxTotal,   \* bounds: how much the command writes to either pipe (StdOut
                 \* and StdErr have room for all that is captured),
  CapMaxGarbage  \* and how far the garbage in the buffer reaches

ASSUME CapAssumption ==
  /\ CapChunk \in Nat \ {0} /\ CapCapacity \in Nat \ {0}
  /\ CapMaxTotal \in Nat /\ CapMaxGarbage \in Nat

VARIABLES
  capTotal,     \* how many bytes the command has to write to each stream
  capWritten,   \* how many it has written
  capChild,     \* "none", "exec", "running", or how it ended
  capParent,    \* what the parent does next
  capFds,       \* the pipe ends the parent has open
  capRead,      \* how many bytes of each stream it has read
  capBuffer,    \* buffer
  capText,      \* StdOut and StdErr
  capStatus     \* ExitStatus

capVars == <<capTotal, capWritten, capChild, capParent, capFds, capRead,
             capBuffer, capText, capStatus>>

CapStreams == {"out", "err"}
CapEnded == {"exit_0", "exit_2", "killed"}

\* Byte i of a stream, and bytes i to j.
CapByte(s, i) == IF s = "out" THEN i ELSE -1 - i
CapBytes(s, i, j) == [k \in 1 .. j - i + 1 |-> CapByte(s, i + k - 1)]

CapInit ==
  /\ capTotal \in [CapStreams -> 0 .. CapMaxTotal]
  /\ capWritten = [s \in CapStreams |-> 0]
  /\ capRead = [s \in CapStreams |-> 0]
  /\ capText = [s \in CapStreams |-> <<>>]
  /\ \E g \in 0 .. CapMaxGarbage :
       capBuffer = [i \in 1 .. CapMaxGarbage + CapChunk + 1 |-> IF i <= g THEN -1 ELSE 0]
  /\ capChild = "none" /\ capParent = "pipe_in" /\ capFds = {} /\ capStatus = 0

CapPipe(here, p, next) ==
  /\ capParent = here
  /\ \/ capFds' = capFds \cup {p} \X {"read", "write"} /\ capParent' = next
     \/ capFds' = {} /\ capParent' = "returned"
  /\ UNCHANGED <<capTotal, capWritten, capChild, capRead, capBuffer, capText, capStatus>>

\* When fork fails the parent cleans up and goes on.
CapFork ==
  /\ capParent = "fork" /\ capParent' = "wait"
  /\ \/ capFds' = {<<"out", "read">>, <<"err", "read">>} /\ capChild' = "exec"
     \/ capFds' = {} /\ UNCHANGED capChild
  /\ UNCHANGED <<capTotal, capWritten, capRead, capBuffer, capText, capStatus>>

CapWaitGoesOn ==
  /\ capParent' = "out"
  /\ UNCHANGED <<capTotal, capWritten, capChild, capFds, capRead, capBuffer, capText, capStatus>>

\* As CapWait, without the wait.
CapWaitNot == capParent = "wait" /\ CapWaitGoesOn

\* As CapWait, counting on a child.
CapWaitForChild == capParent = "wait" /\ capChild \in CapEnded /\ CapWaitGoesOn

\* A waitpid without a child returns at once.
CapWait == capParent = "wait" /\ capChild \in CapEnded \cup {"none"} /\ CapWaitGoesOn

\* How many bytes the next read returns, and the buffer after it.
CapCount(s) ==
  LET left == capWritten[s] - capRead[s] IN IF left < CapChunk THEN left ELSE CapChunk

CapFilled(s) ==
  LET new == CapBytes(s, capRead[s] + 1, capRead[s] + CapCount(s))
  IN  [i \in DOMAIN capBuffer |-> IF i <= CapCount(s) THEN new[i] ELSE capBuffer[i]]

CapStrlen(buffer) ==
  CHOOSE k \in 0 .. Len(buffer) - 1 : buffer[k + 1] = 0 /\ \A i \in 1 .. k : buffer[i] # 0

\* One round of a read loop.  Without a child the pipe is closed, read fails
\* and leaves the buffer alone, and what is in it is copied all the same.
CapReadLoop(s, next) ==
  LET n == CapCount(s)
      string == SubSeq(CapFilled(s), 1, CapStrlen(CapFilled(s)))
      copied == [capText EXCEPT ![s] = @ \o string]
  IN  /\ capParent = s
      /\ \/ capChild = "none" /\ capText' = copied /\ capParent' = next
         \/ capChild # "none" /\ n = 0 /\ capParent' = next /\ UNCHANGED capText
         \/ n > 0 /\ capText' = copied /\ UNCHANGED capParent
      /\ capRead' = [capRead EXCEPT ![s] = @ + n]
      /\ capBuffer' = CapFilled(s)
      /\ UNCHANGED <<capTotal, capWritten, capChild, capFds, capStatus>>

\* The last cleanup closes what is open and some that is not.
CapFinish ==
  /\ capParent = "finish" /\ capParent' = "returned"
  /\ capStatus' = IF capChild = "exit_2" THEN 2 ELSE 0
  /\ capFds' = {}
  /\ UNCHANGED <<capTotal, capWritten, capChild, capRead, capBuffer, capText>>

CapParentStep ==
  \/ CapPipe("pipe_in", "in", "pipe_out")
  \/ CapPipe("pipe_out", "out", "pipe_err") \/ CapPipe("pipe_err", "err", "fork")
  \/ CapFork \/ CapWait \/ CapFinish
  \/ CapReadLoop("out", "err") \/ CapReadLoop("err", "finish")

CapChildGoes(to) ==
  /\ capChild' = to
  /\ UNCHANGED <<capTotal, capWritten, capParent, capFds, capRead, capBuffer, capText, capStatus>>

\* An execl that fails is followed by exit(EXIT_SUCCESS).
CapExec == capChild = "exec" /\ (CapChildGoes("running") \/ CapChildGoes("exit_0"))

CapWrite(s) ==
  /\ capChild = "running"
  /\ capWritten[s] < capTotal[s] /\ capWritten[s] - capRead[s] < CapCapacity
  /\ capWritten' = [capWritten EXCEPT ![s] = @ + 1]
  /\ UNCHANGED <<capTotal, capChild, capParent, capFds, capRead, capBuffer, capText, capStatus>>

CapExit ==
  /\ capChild = "running" /\ capWritten = capTotal
  /\ CapChildGoes("exit_0") \/ CapChildGoes("exit_2")

CapKill == capChild = "running" /\ CapChildGoes("killed")

CapChildStep == CapExec \/ CapExit \/ \E s \in CapStreams : CapWrite(s)

CapNext == CapParentStep \/ CapChildStep \/ CapKill

CapSpec == CapInit /\ [][CapNext]_capVars

\* The scheduler runs both processes.
CapFairness == WF_capVars(CapParentStep) /\ WF_capVars(CapChildStep)
-----------------------------------------------------------------------------
\* What a short last read leaves of the chunk before it, copied once more.
CapEcho(s, n) ==
  LET short == n % CapChunk
      whole == n - short
  IN  IF whole = 0 \/ short = 0 THEN <<>> ELSE CapBytes(s, whole - CapChunk + short + 1, whole)

\* The bytes of a stream, and their places in a text.
CapOwn(s) == IF s = "out" THEN {b \in Int : b > 0} ELSE {b \in Int : b < -1}
CapPlaces(s, text) == {i \in DOMAIN text : text[i] \in CapOwn(s)}

\* What belongs to a stream in a text is these bytes, in this order.
CapIs(s, text, bytes) ==
  LET places == CapPlaces(s, text)
  IN  /\ Cardinality(places) = Len(bytes)
      /\ \A i \in places : text[i] = bytes[Cardinality({j \in places : j <= i})]

\* Nothing the command wrote is lost or out of order: apart from the garbage
\* of the buffer and, in StdErr, the rest of the output, what is captured is
\* what was written, followed by the echo.
CapCaptured ==
  \A s \in CapStreams :
    CapIs(s, capText[s], CapBytes(s, 1, capWritten[s]) \o CapEcho(s, capWritten[s]))

\* When execute() returns, whichever call failed, all that was written has
\* been captured, no pipe is left open, and a failure reported is the
\* command's own (a success may be that of execl failing).
CapResult ==
  capParent = "returned" =>
    /\ capFds = {}
    /\ capStatus # 0 => capChild = "exit_2"
    /\ capChild \in CapEnded \cup {"none"} /\ CapCaptured

\* It returns unless the command waits for ever for room in a pipe.
CapReturns ==
  <>[](\/ capParent = "returned"
       \/ /\ capChild = "running"
          /\ \E s \in CapStreams : capWritten[s] = CapCapacity /\ capTotal[s] > CapCapacity)
=============================================================================
