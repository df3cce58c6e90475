---------------------------- MODULE QueuePrograms ----------------------------
(***************************************************************************)
(* The programs with a message queue for TLC: mq_withoverflow.c,           *)
(* mq_withoverflow_nonblock.c, mq.c, mq_ipc.c and mq_ipc_vfork_*.c.  A     *)
(* behaviour is one of one of them, chosen at the start.                   *)
(***************************************************************************)
EXTENDS LaunchedQueue

CONSTANT PlainMax    \* IntMax of PlainQueue

ASSUME PlainAssumption == PlainMax \in Nat

VARIABLES
  program,
  nbQueue, nbPc, nbCounter, nbCurmsgs, nbLast, nbRet, nbErrno, nbWrapped,
  pqQueue, pqWpc, pqWindex, pqRmsg

nbVars == <<nbQueue, nbPc, nbCounter, nbCurmsgs, nbLast, nbRet, nbErrno, nbWrapped>>
pqVars == <<pqQueue, pqWpc, pqWindex, pqRmsg>>

Nonblock == INSTANCE NonblockQueue
  WITH queue <- nbQueue, pc <- nbPc, counter <- nbCounter, curmsgs <- nbCurmsgs,
       last <- nbLast, ret <- nbRet, errno <- nbErrno,
       wrapped <- nbWrapped

Plain == INSTANCE PlainQueue
  WITH queue <- pqQueue, wpc <- pqWpc, windex <- pqWindex, rmsg <- pqRmsg,
       IntMax <- PlainMax

QInit ==
  /\ program \in {"mq_withoverflow", "mq_withoverflow_nonblock", "mq", "ipc"}
  /\ LnInit /\ Nonblock!NInit /\ Plain!Init
  /\ program # "ipc" => lnProgram = "mq_ipc"

QNext ==
  /\ UNCHANGED program
  /\ \/ program = "mq_withoverflow" /\ Next /\ UNCHANGED <<lnVars, tqVars, nbVars, pqVars>>
     \/ program = "mq_withoverflow_nonblock" /\ Nonblock!NNext
        /\ UNCHANGED <<lnAllVars, pqVars>>
     \/ program = "mq" /\ Plain!Next /\ UNCHANGED <<lnAllVars, nbVars>>
     \/ program = "ipc" /\ LnNext /\ UNCHANGED <<nbVars, pqVars>>

qVars == <<program, lnAllVars, nbVars, pqVars>>

QFairSpec ==
  /\ QInit /\ [][QNext]_qVars
  /\ program = "mq_withoverflow" => Fairness
  /\ program = "mq_withoverflow_nonblock" => Nonblock!NFairness
  /\ program = "ipc" => LnFairness

-----------------------------------------------------------------------------
\* mq_withoverflow.c and mq_withoverflow_nonblock.c: neither a writer that
\* spins on a full queue, nor readers that wait on an empty one, nor refusals
\* stop the flow.
ThreadsKeepReceiving ==
  /\ program = "mq_withoverflow" => MessagesKeepArriving
  /\ program = "mq_withoverflow_nonblock" => Nonblock!RefusedAndStillArriving

\* mq_withoverflow_nonblock.c: what the queue delivers ascends, whatever was
\* refused.
NonblockAscends == Nonblock!DeliversAscending

\* mq.c: what a run sends arrives in order, behind what was left over.
PlainInOrder == Plain!OursInOrder

\* mq_ipc.c and mq_ipc_vfork_*.c: messages arrive, or a launch failed.
ProcessesKeepReceiving == program = "ipc" => LnFlow
=============================================================================
