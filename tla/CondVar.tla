------------------------------ MODULE CondVar ------------------------------
(***************************************************************************)
(* A pthread_cond_t together with the mutex its waiters pass to            *)
(* pthread_cond_wait.  waiting is the set of threads blocked on the        *)
(* variable.  A thread inside pthread_cond_wait has given up the mutex in  *)
(* the same step in which it joined waiting, and returns by taking the     *)
(* mutex again once something has removed it: a signal, a broadcast, or    *)
(* nothing at all (POSIX allows spurious wakeups).                         *)
(***************************************************************************)
EXTENDS Mutex

VARIABLE waiting

CondInit == waiting = {}

CondWait(t) ==
  /\ MutexUnlock
  /\ waiting' = waiting \cup {t}

CondReturn(t) ==
  /\ t \notin waiting
  /\ MutexLock(t)

CondSignal ==
  \/ waiting = {} /\ UNCHANGED waiting
  \/ \E t \in waiting : waiting' = waiting \ {t}

CondBroadcast == waiting' = {}

Wakeup(t) ==
  /\ t \in waiting
  /\ waiting' = waiting \ {t}
=============================================================================
