------------------------------ MODULE ForkJoin ------------------------------
(***************************************************************************)
(* src/threads/threads_basic.c: main creates as many threads as it is told *)
(* to, each with an element of input_args as its argument and its result,  *)
(* joins them in order, prints their results and frees the arrays.         *)
(***************************************************************************)
EXTENDS Integers, Sequences

CONSTANT FjMaxThreads    \* bound of the number on the command line

ASSUME FjAssumption == FjMaxThreads \in Nat

FjIds == 0 .. FjMaxThreads - 1

VARIABLES
  fjNum,       \* num_of_threads
  fjMain,      \* "create", "join", "free", "returned" or "aborted"
  fjI,         \* main's loop variable
  fjArgs,      \* input_args, with what malloc left in it as -1
  fjPc,        \* of each thread
  fjPrinted    \* the results main printed

fjVars == <<fjNum, fjMain, fjI, fjArgs, fjPc, fjPrinted>>

FjInit ==
  /\ fjNum \in 0 .. FjMaxThreads
  /\ fjMain = "create" /\ fjI = 0 /\ fjPrinted = <<>>
  /\ fjArgs = [i \in FjIds |-> -1]
  /\ fjPc = [i \in FjIds |-> "none"]

\* As FjCreate, without the assertion.
FjCreateUnchecked ==
  /\ fjMain = "create" /\ fjI < fjNum
  /\ fjArgs' = [fjArgs EXCEPT ![fjI] = fjI]
  /\ fjPc' = [fjPc EXCEPT ![fjI] = "print"] \/ UNCHANGED fjPc
  /\ fjI' = fjI + 1
  /\ UNCHANGED <<fjNum, fjMain, fjPrinted>>

\* pthread_create may refuse, and the assertion then ends the process.
FjCreate ==
  /\ fjMain = "create" /\ fjI < fjNum
  /\ fjArgs' = [fjArgs EXCEPT ![fjI] = fjI]
  /\ \/ /\ fjPc' = [fjPc EXCEPT ![fjI] = "print"]
        /\ fjI' = fjI + 1 /\ UNCHANGED fjMain
     \/ fjMain' = "aborted" /\ UNCHANGED <<fjPc, fjI>>
  /\ UNCHANGED <<fjNum, fjPrinted>>

FjLoopEnds ==
  /\ fjMain \in {"create", "join"} /\ fjI = fjNum
  /\ fjMain' = IF fjMain = "create" THEN "join" ELSE "free"
  /\ fjI' = 0
  /\ UNCHANGED <<fjNum, fjArgs, fjPc, fjPrinted>>

\* As FjJoin, without the wait.
FjJoinNothing ==
  /\ fjMain = "join" /\ fjI < fjNum
  /\ fjPrinted' = Append(fjPrinted, fjArgs[fjI])
  /\ fjI' = fjI + 1
  /\ UNCHANGED <<fjNum, fjMain, fjArgs, fjPc>>

\* The thread's result is the address of its argument.
FjJoin ==
  /\ fjMain = "join" /\ fjI < fjNum /\ fjPc[fjI] = "done"
  /\ fjPrinted' = Append(fjPrinted, fjArgs[fjI])
  /\ fjI' = fjI + 1
  /\ UNCHANGED <<fjNum, fjMain, fjArgs, fjPc>>

FjFree ==
  /\ fjMain = "free"
  /\ fjMain' = "returned"
  /\ UNCHANGED <<fjNum, fjI, fjArgs, fjPc, fjPrinted>>

FjMainStep == FjCreate \/ FjLoopEnds \/ FjJoin \/ FjFree

\* thread() prints its argument and then doubles it.
FjPrint(i) ==
  /\ fjMain \notin {"aborted", "returned"} /\ fjPc[i] = "print"
  /\ fjPc' = [fjPc EXCEPT ![i] = "double"]
  /\ UNCHANGED <<fjNum, fjMain, fjI, fjArgs, fjPrinted>>

FjDouble(i) ==
  /\ fjMain \notin {"aborted", "returned"} /\ fjPc[i] = "double"
  /\ fjArgs' = [fjArgs EXCEPT ![i] = 2 * @]
  /\ fjPc' = [fjPc EXCEPT ![i] = "done"]
  /\ UNCHANGED <<fjNum, fjMain, fjI, fjPrinted>>

FjThread(i) == FjPrint(i) \/ FjDouble(i)

FjNext == FjMainStep \/ \E i \in FjIds : FjThread(i)

FjSpec == FjInit /\ [][FjNext]_fjVars

\* The scheduler runs every thread that can run.
FjFairness == WF_fjVars(FjMainStep) /\ \A i \in FjIds : WF_fjVars(FjThread(i))
-----------------------------------------------------------------------------
\* main prints the double of each argument, whichever way the threads and
\* the joins come together ("Input buffer is used also as output",
\* threads_basic.c:46), and does not free input_args under a thread that
\* will still touch it.
FjResults ==
  /\ \A k \in DOMAIN fjPrinted : fjPrinted[k] = 2 * (k - 1)
  /\ fjMain \in {"free", "returned"} => \A i \in FjIds : i < fjNum => fjPc[i] = "done"

\* The program ends, with all results printed if no creation failed.
FjEnds ==
  <>(\/ fjMain = "aborted"
     \/ fjMain = "returned" /\ Len(fjPrinted) = fjNum)
=============================================================================
