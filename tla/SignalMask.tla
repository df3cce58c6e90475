----------------------------- MODULE SignalMask -----------------------------
(***************************************************************************)
(* src/processes/signals.cpp: a process installs one handler for four      *)
(* signals, one after the other, blocks SIGINT, unblocks all four and runs *)
(* for ever.  A signal is pending at most once, is not delivered while it  *)
(* is blocked or its own handler runs, and otherwise interrupts at once    *)
(* main and the handlers of other signals.                                 *)
(***************************************************************************)
EXTENDS Integers, Sequences

CONSTANT SgMaxSends    \* bound: how many signals are sent

ASSUME SgAssumption == SgMaxSends \in Nat

\* In the order of the calls of signal().
SgSignals == <<"INT", "SEGV", "TERM", "USR1">>
SgSet == {"INT", "SEGV", "TERM", "USR1"}

VARIABLES
  sgPc,        \* how many handlers are installed; then 5: SIGINT is blocked,
               \* 6: all are unblocked, the loop
  sgMask,      \* the blocked signals
  sgPending,   \* the pending signals
  sgStack,     \* the handlers that run, the innermost first
  sgEnd,       \* "no", or how the process ended
  sgSends      \* how many signals were sent

sgVars == <<sgPc, sgMask, sgPending, sgStack, sgEnd, sgSends>>

SgInit ==
  /\ sgPc = 0 /\ sgMask = {} /\ sgPending = {} /\ sgStack = <<>>
  /\ sgEnd = "no" /\ sgSends = 0

SgRunning == {sgStack[i] : i \in DOMAIN sgStack}
SgDeliverable == sgPending \ (sgMask \cup SgRunning)

\* As SgHandled, for the last handler only.
SgHandledLast(s) == sgPc \in 1 .. 4 /\ SgSignals[sgPc] = s

SgHandled(s) == \E i \in 1 .. 4 : i <= sgPc /\ SgSignals[i] = s

SgSend(s) ==
  /\ sgEnd = "no" /\ sgSends < SgMaxSends
  /\ sgPending' = sgPending \cup {s}
  /\ sgSends' = sgSends + 1
  /\ UNCHANGED <<sgPc, sgMask, sgStack, sgEnd>>

\* A signal kills the process or interrupts it.
SgDeliver(s) ==
  /\ sgEnd = "no" /\ s \in SgDeliverable
  /\ sgPending' = sgPending \ {s}
  /\ IF SgHandled(s) THEN sgStack' = <<s>> \o sgStack /\ UNCHANGED sgEnd
                     ELSE sgEnd' = "killed" /\ UNCHANGED sgStack
  /\ UNCHANGED <<sgPc, sgMask, sgSends>>

\* signaHandler prints, and exits for SIGSEGV.
SgHandle ==
  /\ sgEnd = "no" /\ sgStack # <<>> /\ SgDeliverable = {}
  /\ IF Head(sgStack) = "SEGV" THEN sgEnd' = "exited" /\ UNCHANGED sgStack
                               ELSE sgStack' = Tail(sgStack) /\ UNCHANGED sgEnd
  /\ UNCHANGED <<sgPc, sgMask, sgPending, sgSends>>

\* A call of main, which may fail and make it return.
SgCall(mask) ==
  /\ sgEnd = "no" /\ sgStack = <<>> /\ SgDeliverable = {}
  /\ \/ sgPc' = sgPc + 1 /\ sgMask' = mask /\ UNCHANGED sgEnd
     \/ sgEnd' = "returned" /\ UNCHANGED <<sgPc, sgMask>>
  /\ UNCHANGED <<sgPending, sgStack, sgSends>>

SgInstall == sgPc < 4 /\ SgCall(sgMask)

SgBlock == sgPc = 4 /\ SgCall(sgMask \cup {"INT"})

\* As SgUnblock, with a set that SIGINT was not added to.
SgUnblockOthers == sgPc = 5 /\ SgCall(sgMask \ {"SEGV", "TERM", "USR1"})

SgUnblock == sgPc = 5 /\ SgCall(sgMask \ SgSet)

SgProcess == SgInstall \/ SgBlock \/ SgUnblock \/ SgHandle \/ \E s \in SgSet : SgDeliver(s)

SgNext == SgProcess \/ \E s \in SgSet : SgSend(s)

SgSpec == SgInit /\ [][SgNext]_sgVars

\* The process runs when it can.
SgFairness == WF_sgVars(SgProcess)
-----------------------------------------------------------------------------
\* Wherever the four signals come, nested in each other's handlers or not:
\* they kill the process only before its handlers are all there, SIGSEGV's
\* handler alone ends it from the loop, and "Received SIGINT signal" is not
\* printed between "SIGINT signal blocked" and the unblocking.
SgProtected ==
  /\ sgEnd = "killed" => sgPc < 4
  /\ sgPc = 6 /\ sgEnd # "no" => sgEnd = "exited"
  /\ sgPc = 5 => "INT" \notin SgRunning

\* The process ends or comes to rest in its loop with every signal handled,
\* the SIGINT that came while it was blocked included.
SgAllHandled ==
  <>[](\/ sgEnd # "no"
       \/ sgPc = 6 /\ sgPending = {} /\ sgStack = <<>>)
=============================================================================
