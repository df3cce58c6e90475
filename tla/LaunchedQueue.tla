---------------------------- MODULE LaunchedQueue ----------------------------
(***************************************************************************)
(* src/ipc/mq_ipc.c: OverflowQueue with processes that main forks; and     *)
(* src/ipc/execv/mq_ipc_vfork_parent.c: TypedQueue with processes that     *)
(* main vforks and that execute programs of their own.  main waits for     *)
(* nobody and looks at no error: a child whose execv fails goes on as if   *)
(* it were main, which vfork suspends.                                     *)
(***************************************************************************)
EXTENDS TypedQueue

VARIABLES
  lnProgram,    \* "mq_ipc" or "mq_ipc_vfork"
  lnChild,      \* what became of each child
  lnPaused      \* the process that runs main's code came to its pause()

lnVars == <<lnProgram, lnChild, lnPaused>>

LnNothing == [t \in Threads |-> "none"]

\* main removes the queue of an earlier run and creates its own.
LnInit ==
  /\ Init /\ TqInit
  /\ lnProgram \in {"mq_ipc", "mq_ipc_vfork"}
  /\ lnChild = LnNothing /\ lnPaused = FALSE

LnBecomes(t, state) ==
  /\ lnChild' = [lnChild EXCEPT ![t] = state]
  /\ UNCHANGED <<lnProgram, lnPaused, vars, tqVars>>

\* As LnComesNext, for a main that waits for each child it has launched.
LnComesAlone(t) ==
  /\ \A u \in Threads : lnChild[u] \notin {"exec", "runs"}
  /\ lnChild[t] = "none"
  /\ t = Writer \/ lnChild[Writer] # "none"

\* The writer comes first.
LnComesNext(t) ==
  /\ \A u \in Threads : lnChild[u] # "exec"
  /\ lnChild[t] = "none"
  /\ t = Writer \/ lnChild[Writer] # "none"

LnFork(t) ==
  /\ lnProgram = "mq_ipc" /\ LnComesNext(t)
  /\ LnBecomes(t, "runs") \/ LnBecomes(t, "refused")

LnVfork(t) ==
  /\ lnProgram = "mq_ipc_vfork" /\ LnComesNext(t)
  /\ LnBecomes(t, "exec") \/ LnBecomes(t, "refused")

LnExec(t) ==
  /\ lnChild[t] = "exec"
  /\ LnBecomes(t, "runs") \/ LnBecomes(t, "fell_through")

LnPause ==
  /\ ~lnPaused
  /\ \A t \in Threads : lnChild[t] \notin {"none", "exec"}
  /\ lnPaused' = TRUE
  /\ UNCHANGED <<lnProgram, lnChild, vars, tqVars>>

LnLaunch == LnPause \/ \E t \in Threads : LnFork(t) \/ LnVfork(t) \/ LnExec(t)

LnRuns(t, program) == lnProgram = program /\ lnChild[t] = "runs"

LnWriter ==
  \/ LnRuns(Writer, "mq_ipc") /\ WriterStep /\ UNCHANGED <<lnVars, tqVars>>
  \/ LnRuns(Writer, "mq_ipc_vfork") /\ TqWriter /\ UNCHANGED <<lnVars, vars>>

LnReader(r) ==
  \/ LnRuns(r, "mq_ipc") /\ ReaderStep(r) /\ UNCHANGED <<lnVars, tqVars>>
  \/ LnRuns(r, "mq_ipc_vfork") /\ TqReader(r) /\ UNCHANGED <<lnVars, vars>>

\* mq_ipc.c is run again: what is left of an earlier run is on a queue that
\* has lost its name.
LnRestart ==
  /\ lnProgram = "mq_ipc" /\ Restart
  /\ lnChild' = LnNothing /\ lnPaused' = FALSE
  /\ UNCHANGED <<lnProgram, tqVars>>

LnNext == LnLaunch \/ LnWriter \/ (\E r \in Readers : LnReader(r)) \/ LnRestart

lnAllVars == <<lnVars, vars, tqVars>>

LnSpec == LnInit /\ [][LnNext]_lnAllVars

\* The scheduler runs every process that can run.
LnFairness ==
  /\ WF_lnAllVars(LnLaunch) /\ WF_lnAllVars(LnWriter)
  /\ \A r \in Readers : WF_lnAllVars(LnReader(r))
-----------------------------------------------------------------------------
LnFailed(t) == lnChild[t] \in {"refused", "fell_through"}

LnReceive == \E r \in Readers : LnReader(r) /\ (RReceive(r) \/ TqReceive(r))

\* Messages arrive for ever, whichever process main's code runs in by then,
\* unless the writer or all readers could not be launched or the program is
\* killed again and again.
LnFlow ==
  \/ []<><<LnReceive>>_lnAllVars
  \/ []<><<LnRestart>>_lnAllVars
  \/ <>[](LnFailed(Writer) \/ \A r \in Readers : LnFailed(r))

\* "Do nothing, only parent process should get here"
\* (mq_ipc_vfork_parent.c:41).
OnlyParentPauses == lnPaused => \A t \in Threads : lnChild[t] # "fell_through"
=============================================================================
