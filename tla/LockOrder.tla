----------------------------- MODULE LockOrder -----------------------------
(***************************************************************************)
(* src/threads/deadlock/threads_deadlock.c: the threads dead and lock take *)
(* two mutexes in opposite order, and give neither back.  A sleep is the   *)
(* time a thread stays where it is.                                        *)
(***************************************************************************)
EXTENDS Integers

VARIABLES
  dlOwner,    \* who has g_lock1 and g_lock2
  dlPc,       \* how many mutexes each thread has taken, and "returned"
  dlJoined    \* the threads main has joined, in its order

dlVars == <<dlOwner, dlPc, dlJoined>>

DlThreads == {"dead", "lock"}

\* The mutex a thread takes as its n-th.
DlTakes(t, n) == IF t = "dead" THEN n ELSE 3 - n

DlInit ==
  /\ dlOwner = [m \in {1, 2} |-> "nobody"]
  /\ dlPc = [t \in DlThreads |-> 0]
  /\ dlJoined = 0

DlLock(t) ==
  /\ dlPc[t] \in {0, 1}
  /\ dlOwner[DlTakes(t, dlPc[t] + 1)] = "nobody"
  /\ dlOwner' = [dlOwner EXCEPT ![DlTakes(t, dlPc[t] + 1)] = t]
  /\ dlPc' = [dlPc EXCEPT ![t] = @ + 1]
  /\ UNCHANGED dlJoined

\* As DlReturn, for a thread that gives its mutexes back.
DlReturnUnlocked(t) ==
  /\ dlPc[t] = 2
  /\ dlPc' = [dlPc EXCEPT ![t] = 3]
  /\ dlOwner' = [m \in {1, 2} |-> "nobody"]
  /\ UNCHANGED dlJoined

\* A mutex outlives the thread that holds it.
DlReturn(t) ==
  /\ dlPc[t] = 2
  /\ dlPc' = [dlPc EXCEPT ![t] = 3]
  /\ UNCHANGED <<dlOwner, dlJoined>>

DlJoin ==
  /\ dlJoined < 2
  /\ dlPc[IF dlJoined = 0 THEN "dead" ELSE "lock"] = 3
  /\ dlJoined' = dlJoined + 1
  /\ UNCHANGED <<dlOwner, dlPc>>

DlNext == DlJoin \/ \E t \in DlThreads : DlLock(t) \/ DlReturn(t)

DlSpec == DlInit /\ [][DlNext]_dlVars

\* The scheduler runs every thread that can run.
DlFairness ==
  /\ \A t \in DlThreads : WF_dlVars(DlLock(t) \/ DlReturn(t))
  /\ WF_dlVars(DlJoin)
-----------------------------------------------------------------------------
\* main never returns, in no interleaving: where the threads miss the
\* circular wait, the one that comes second finds both mutexes gone for good.
DlMainNeverReturns == dlJoined < 2

\* One of the two happens: each thread has its first mutex and waits for the
\* other's, or one has both and has returned while the other has none.
DlEndsStuck ==
  <>[](\/ \A t \in DlThreads : dlPc[t] = 1 /\ dlOwner[DlTakes(t, 1)] = t
       \/ \E t, u \in DlThreads : /\ dlPc[t] = 3 /\ dlPc[u] = 0
                                  /\ \A m \in {1, 2} : dlOwner[m] = t)
=============================================================================
