----------------------------- MODULE WaitStates -----------------------------
(***************************************************************************)
(* src/processes/waitpid.cpp: a child that installs a handler for SIGTERM, *)
(* pauses and exits, its parent, which waits for every change of its       *)
(* state, and somebody who sends it signals with kill.  The kernel keeps   *)
(* the latest change only.                                                 *)
(***************************************************************************)
EXTENDS Integers

VARIABLES
  wpChild,      \* "none", "start", "handling", "paused", "resumed", or how
                \* it ended: "exited", "killed"
  wpStopped,    \* whether it is stopped
  wpTerm,       \* whether a SIGTERM is pending
  wpReport,     \* the change that waitpid has not returned yet, or "none"
  wpParent,     \* "fork", "wait", "print", "ended"
  wpStatus      \* status, after a waitpid

wpVars == <<wpChild, wpStopped, wpTerm, wpReport, wpParent, wpStatus>>

WpEnds == {"exited", "killed"}
WpAlive == wpChild \notin WpEnds \cup {"none"}

WpInit ==
  /\ wpChild = "none" /\ wpStopped = FALSE /\ wpTerm = FALSE
  /\ wpReport = "none" /\ wpParent = "fork" /\ wpStatus = "none"

WpFork ==
  /\ wpParent = "fork"
  /\ \/ wpParent' = "wait" /\ wpChild' = "start"
     \/ wpParent' = "ended" /\ UNCHANGED wpChild
  /\ UNCHANGED <<wpStopped, wpTerm, wpReport, wpStatus>>
-----------------------------------------------------------------------------
(* The sender. *)

WpSendStop ==
  /\ WpAlive /\ ~wpStopped
  /\ wpStopped' = TRUE /\ wpReport' = "stopped"
  /\ UNCHANGED <<wpChild, wpTerm, wpParent, wpStatus>>

WpSendCont ==
  /\ WpAlive /\ wpStopped
  /\ wpStopped' = FALSE /\ wpReport' = "continued"
  /\ UNCHANGED <<wpChild, wpTerm, wpParent, wpStatus>>

WpSendTerm ==
  /\ WpAlive
  /\ wpTerm' = TRUE
  /\ UNCHANGED <<wpChild, wpStopped, wpReport, wpParent, wpStatus>>

WpSend == WpSendStop \/ WpSendCont \/ WpSendTerm
-----------------------------------------------------------------------------
(* The child. *)

\* The child goes on to a state, and its end is reported.
WpGoes(to) ==
  /\ ~wpStopped
  /\ wpChild' = to
  /\ wpReport' = IF to \in WpEnds THEN to ELSE wpReport
  /\ UNCHANGED <<wpStopped, wpParent, wpStatus>>

WpSignal == wpChild = "start" /\ WpGoes("handling") /\ UNCHANGED wpTerm

WpPause == wpChild = "handling" /\ WpGoes("paused") /\ UNCHANGED wpTerm

\* As WpExit, for a pause in a loop.
WpPauseAgain == wpChild = "resumed" /\ WpGoes("paused") /\ UNCHANGED wpTerm

WpExit == wpChild = "resumed" /\ WpGoes("exited") /\ UNCHANGED wpTerm

\* SIGTERM kills before there is a handler; after that the handler prints,
\* and only a pause that it interrupts returns.
WpDeliver ==
  /\ wpTerm /\ wpTerm' = FALSE
  /\ \/ wpChild = "start" /\ WpGoes("killed")
     \/ wpChild \in {"handling", "resumed"} /\ WpGoes(wpChild)
     \/ wpChild = "paused" /\ WpGoes("resumed")

WpChildStep == WpSignal \/ WpPause \/ WpExit \/ WpDeliver
-----------------------------------------------------------------------------
(* The parent. *)

WpWait ==
  /\ wpParent = "wait" /\ wpReport # "none"
  /\ wpStatus' = wpReport /\ wpReport' = "none"
  /\ wpParent' = "print"
  /\ UNCHANGED <<wpChild, wpStopped, wpTerm>>

\* As WpPrint, where one SIGSTOP ends the loop.
WpPrintOnce ==
  /\ wpParent = "print"
  /\ wpParent' = IF wpStatus \in WpEnds \cup {"stopped"} THEN "ended" ELSE "wait"
  /\ UNCHANGED <<wpChild, wpStopped, wpTerm, wpReport, wpStatus>>

WpPrint ==
  /\ wpParent = "print"
  /\ wpParent' = IF wpStatus \in WpEnds THEN "ended" ELSE "wait"
  /\ UNCHANGED <<wpChild, wpStopped, wpTerm, wpReport, wpStatus>>

WpParentStep == WpFork \/ WpWait \/ WpPrint

WpNext == WpSend \/ WpChildStep \/ WpParentStep

WpSpec == WpInit /\ [][WpNext]_wpVars

\* The scheduler runs both processes, and the sender, who does not have to
\* send at all, leaves the child time to go on between two signals.
WpFairness ==
  /\ WF_wpVars(WpParentStep)
  /\ WF_wpVars(WpSignal \/ WpPause \/ WpExit) /\ WF_wpVars(WpDeliver)
-----------------------------------------------------------------------------
\* However many changes are overwritten before they are read, what the parent
\* prints last is how the child ended, and no zombie is left behind.
WpLastWord ==
  /\ wpParent = "ended" => wpStatus = wpChild /\ wpReport = "none"
  /\ wpStatus = "continued" /\ wpParent = "print" /\ wpReport = "none" => ~wpStopped

\* The parent outlives the child by a moment; and the child, unless stopped
\* for good, ends with the first SIGTERM that finds it paused.
WpBothEnd ==
  /\ wpChild \in WpEnds ~> wpParent = "ended"
  /\ wpChild = "paused" /\ wpTerm ~> wpParent = "ended" \/ wpStopped

\* "$ kill -TERM pid", "killed by signal 15" (waitpid.cpp:5-6).
WpTermKills == wpParent = "print" /\ wpStatus \in WpEnds => wpStatus = "killed"
=============================================================================
