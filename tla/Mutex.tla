------------------------------- MODULE Mutex -------------------------------
(***************************************************************************)
(* A default pthread_mutex_t, as the programs under src/threads use it:    *)
(* one word of state, the thread that holds the lock.  The calls are       *)
(* operators that a program conjoins to its own steps; a thread whose      *)
(* pthread_mutex_lock would block is one whose step is not enabled.        *)
(* Nothing here checks that the caller of unlock is the holder: POSIX does *)
(* not either, and the programs have to get it right.                      *)
(***************************************************************************)
CONSTANT Nobody    \* the value of owner while the mutex is free

VARIABLE owner

MutexInit == owner = Nobody

MutexLock(t) ==
  /\ owner = Nobody
  /\ owner' = t

MutexUnlock == owner' = Nobody
=============================================================================
