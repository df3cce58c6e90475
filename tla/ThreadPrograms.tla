--------------------------- MODULE ThreadPrograms ---------------------------
(***************************************************************************)
(* rwlock.c, threads_deadlock.c and threads_basic.c for TLC: a behaviour   *)
(* is one of one of them, chosen at the start.                             *)
(***************************************************************************)
EXTENDS RwCounter, LockOrder, ForkJoin

VARIABLE program

Init ==
  /\ program \in {"rwlock", "threads_deadlock", "threads_basic"}
  /\ RwInit /\ DlInit /\ FjInit

Next ==
  /\ UNCHANGED program
  /\ \/ program = "rwlock" /\ RwNext /\ UNCHANGED <<dlVars, fjVars>>
     \/ program = "threads_deadlock" /\ DlNext /\ UNCHANGED <<rwVars, fjVars>>
     \/ program = "threads_basic" /\ FjNext /\ UNCHANGED <<rwVars, dlVars>>

vars == <<program, rwVars, dlVars, fjVars>>

FairSpec ==
  /\ Init /\ [][Next]_vars
  /\ program = "rwlock" => RwFairness
  /\ program = "threads_deadlock" => DlFairness
  /\ program = "threads_basic" => FjFairness

\* rwlock.c: under a lock that is kept from no thread for ever, everything
\* counted is read, or the readers, by taking turns, leave it never free.
EverythingIsRead == program = "rwlock" => RwEverythingIsRead

\* threads_deadlock.c: it ends in one of its two ways to be stuck.
EndsStuck == program = "threads_deadlock" => DlEndsStuck

\* threads_basic.c: it ends.
ThreadsAreJoined == program = "threads_basic" => FjEnds
=============================================================================
