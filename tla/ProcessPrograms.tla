-------------------------- MODULE ProcessPrograms --------------------------
(***************************************************************************)
(* The programs of src/processes and src/docker for TLC: a behaviour is    *)
(* one of one of them, chosen at the start.                                *)
(***************************************************************************)
EXTENDS TlvPipe, PipeCapture, WaitStates, SignalMask, ZipArchive

VARIABLE program

\* What the other programs have to choose does not matter.
Init ==
  /\ program \in {"tlv", "pipe", "waitpid", "signals", "zip"}
  /\ TlvInit /\ CapInit /\ WpInit /\ SgInit /\ ZpInit
  /\ program # "tlv" => ~tlvSplit
  /\ program # "pipe" => capTotal["out"] + capTotal["err"] = 0 /\ capBuffer[1] = 0
  /\ program # "zip" => zpNames = {}

Next ==
  /\ UNCHANGED program
  /\ \/ program = "tlv" /\ TlvNext /\ UNCHANGED <<capVars, wpVars, sgVars, zpVars>>
     \/ program = "pipe" /\ CapNext /\ UNCHANGED <<tlvVars, wpVars, sgVars, zpVars>>
     \/ program = "waitpid" /\ WpNext /\ UNCHANGED <<tlvVars, capVars, sgVars, zpVars>>
     \/ program = "signals" /\ SgNext /\ UNCHANGED <<tlvVars, capVars, wpVars, zpVars>>
     \/ program = "zip" /\ ZpNext /\ UNCHANGED <<tlvVars, capVars, wpVars, sgVars>>

vars == <<program, tlvVars, capVars, wpVars, sgVars, zpVars>>

Spec == Init /\ [][Next]_vars

FairSpec ==
  /\ Spec
  /\ program = "tlv" => TlvFairness
  /\ program = "pipe" => CapFairness
  /\ program = "waitpid" => WpFairness
  /\ program = "signals" => SgFairness

\* The liveness of each program, for the behaviours that are its own.
MessagesEnd == program = "tlv" => TlvEnds
CaptureReturns == program = "pipe" => CapReturns
BothEnd == program = "waitpid" => WpBothEnd
AllHandled == program = "signals" => SgAllHandled
=============================================================================
