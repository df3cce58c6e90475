---------------------- MODULE ProcessPrograms_proofs ----------------------
(***************************************************************************)
(* What waitpid.cpp, signals.cpp, UTIL_ZIP_create, piperw.cpp and          *)
(* piperwp.cpp keep, wherever a signal comes, a child is killed, a call    *)
(* fails or a read cuts the stream, for texts of any length and any names. *)
(***************************************************************************)
EXTENDS TlvPipe, WaitStates, SignalMask, ZipArchive, SequenceTheorems,
        WellFoundedInduction, TLAPS
-----------------------------------------------------------------------------
(* waitpid.cpp: the last change is reported. *)

WpTypeOK ==
  /\ wpChild \in {"none", "start", "handling", "paused", "resumed", "exited", "killed"}
  /\ wpStopped \in BOOLEAN
  /\ wpReport \in {"none", "stopped", "continued", "exited", "killed"}
  /\ wpParent \in {"fork", "wait", "print", "ended"}
  /\ wpStatus \in {"none", "stopped", "continued", "exited", "killed"}

\* The report is of the child's latest change, and its end is reported or read.
WpReported ==
  /\ wpParent = "fork" => wpChild = "none"
  /\ wpReport \in WpEnds => wpChild = wpReport
  /\ wpReport = "stopped" => wpStopped
  /\ wpReport = "continued" => ~wpStopped
  /\ wpChild = "none" =>
       wpReport = "none" /\ wpStatus = "none" /\ wpParent \in {"fork", "ended"}
  /\ wpChild \in WpEnds => wpReport = wpChild \/ wpStatus = wpChild

\* An end that is read is the child's, and nothing is reported after it.
WpRead ==
  /\ wpStatus \in WpEnds => wpStatus = wpChild /\ wpReport = "none" /\ wpParent # "wait"
  /\ wpParent = "ended" => wpStatus = wpChild /\ wpReport = "none"
  /\ wpStatus = "continued" /\ wpParent = "print" /\ wpReport = "none" => ~wpStopped

WpIInv == WpTypeOK /\ WpReported /\ WpRead

\* The invariant holds initially.
LEMMA WpInitIInv == WpInit => WpIInv
  BY DEF WpInit, WpIInv, WpTypeOK, WpReported, WpRead, WpEnds

\* Every step keeps the invariant.
LEMMA WpNextIInv == WpIInv /\ [WpNext]_wpVars => WpIInv'
<1> SUFFICES ASSUME WpIInv, [WpNext]_wpVars PROVE WpIInv'
  OBVIOUS
<1> USE DEF WpIInv, WpTypeOK, WpReported, WpRead, WpEnds, WpAlive
<1>1. CASE WpSend
  <2>1. CASE WpSendStop
    BY <2>1 DEF WpSendStop
  <2>2. CASE WpSendCont
    BY <2>2 DEF WpSendCont
  <2>3. CASE WpSendTerm
    BY <2>3 DEF WpSendTerm
  <2> QED BY <1>1, <2>1, <2>2, <2>3 DEF WpSend
<1>2. CASE WpSignal \/ WpPause \/ WpExit
  BY <1>2 DEF WpSignal, WpPause, WpExit, WpGoes
<1>3. CASE WpDeliver
  BY <1>3 DEF WpDeliver, WpGoes
<1>4. CASE WpFork
  BY <1>4 DEF WpFork
<1>5. CASE WpWait
  BY <1>5 DEF WpWait
<1>6. CASE WpPrint
  BY <1>6 DEF WpPrint
<1>7. CASE UNCHANGED wpVars
  BY <1>7 DEF wpVars
<1> QED BY <1>1, <1>2, <1>3, <1>4, <1>5, <1>6, <1>7 DEF WpNext, WpChildStep, WpParentStep

\* Whatever changes of its child waitpid.cpp does not get to see, it ends with how
\* the child ended, and nothing is left to wait for.
THEOREM LastWord == WpSpec => []WpLastWord
<1>1. WpIInv => WpLastWord
  BY DEF WpIInv, WpRead, WpLastWord
<1> QED BY <1>1, WpInitIInv, WpNextIInv, PTL DEF WpSpec

-----------------------------------------------------------------------------
(* signals.cpp: SIGINT waits while it is blocked. *)

SgTypeOK ==
  /\ sgPc \in 0 .. 6 /\ sgMask \in SUBSET SgSet /\ sgPending \in SUBSET SgSet
  /\ sgStack \in Seq(SgSet)

\* SIGINT is blocked, and its handler does not run, between the two calls of
\* sigprocmask; what ended the process tells how far main had come.
SgBlocked ==
  /\ sgPc = 5 => "INT" \in sgMask /\ "INT" \notin SgRunning
  /\ sgEnd \in {"no", "killed", "exited", "returned"}
  /\ sgEnd = "killed" => sgPc < 4
  /\ sgEnd = "returned" => sgPc < 6

SgIInv == SgTypeOK /\ SgBlocked

\* The invariant holds initially.
LEMMA SgInitIInv == SgInit => SgIInv
  BY DEF SgInit, SgIInv, SgTypeOK, SgBlocked

\* A handler that starts is added to those that run, one that returns taken away.
LEMMA SgNested ==
  ASSUME sgStack \in Seq(SgSet)
  PROVE  /\ \A s \in SgSet : sgStack' = <<s>> \o sgStack =>
              sgStack' \in Seq(SgSet) /\ SgRunning' \subseteq SgRunning \cup {s}
         /\ sgStack # <<>> /\ sgStack' = Tail(sgStack) =>
              sgStack' \in Seq(SgSet) /\ SgRunning' \subseteq SgRunning
<1>1. ASSUME NEW s \in SgSet, sgStack' = <<s>> \o sgStack
      PROVE  sgStack' \in Seq(SgSet) /\ SgRunning' \subseteq SgRunning \cup {s}
  <2>1. /\ sgStack' \in Seq(SgSet) /\ Len(sgStack') = Len(sgStack) + 1
        /\ \A i \in 1 .. Len(sgStack') : sgStack'[i] = IF i = 1 THEN s ELSE sgStack[i - 1]
    BY <1>1
  <2>2. \A i \in DOMAIN sgStack' : sgStack'[i] \in SgRunning \cup {s}
    BY <2>1 DEF SgRunning
  <2> QED BY <2>1, <2>2 DEF SgRunning
<1>2. ASSUME sgStack # <<>>, sgStack' = Tail(sgStack)
      PROVE  sgStack' \in Seq(SgSet) /\ SgRunning' \subseteq SgRunning
  <2>1. /\ sgStack' \in Seq(SgSet) /\ Len(sgStack') = Len(sgStack) - 1
        /\ \A i \in 1 .. Len(sgStack') : sgStack'[i] = sgStack[i + 1]
    BY <1>2
  <2>2. \A i \in DOMAIN sgStack' : sgStack'[i] \in SgRunning
    BY <2>1 DEF SgRunning
  <2> QED BY <2>1, <2>2 DEF SgRunning
<1> QED BY <1>1, <1>2

\* Once all handlers are installed every signal has one.
LEMMA SgEveryHandled == ASSUME NEW s \in SgSet, sgPc \in 4 .. 6 PROVE SgHandled(s)
  BY DEF SgHandled, SgSignals, SgSet

\* Every step keeps the invariant.
LEMMA SgNextIInv == SgIInv /\ [SgNext]_sgVars => SgIInv'
<1> SUFFICES ASSUME SgIInv, [SgNext]_sgVars PROVE SgIInv'
  OBVIOUS
<1> USE DEF SgIInv, SgTypeOK, SgBlocked
<1>1. CASE SgInstall
  BY <1>1 DEF SgInstall, SgCall, SgRunning
<1>2. CASE SgBlock
  <2>1. SgRunning' = {} /\ sgStack' = sgStack /\ sgPending' = sgPending
    BY <1>2 DEF SgBlock, SgCall, SgRunning
  <2>2. sgMask \cup {"INT"} \in SUBSET SgSet
    BY DEF SgSet
  <2> QED BY <1>2, <2>1, <2>2 DEF SgBlock, SgCall
<1>3. CASE SgUnblock
  BY <1>3 DEF SgUnblock, SgCall, SgRunning
<1>4. CASE SgHandle
  <2>1. sgStack # <<>> /\ sgStack' \in {sgStack, Tail(sgStack)} /\ sgEnd' \in {sgEnd, "exited"}
        /\ UNCHANGED <<sgPc, sgMask, sgPending>>
    BY <1>4 DEF SgHandle
  <2>2. sgStack' \in Seq(SgSet) /\ SgRunning' \subseteq SgRunning
    BY <2>1, SgNested DEF SgRunning
  <2> QED BY <2>1, <2>2
<1>5. ASSUME NEW s \in SgSet, SgDeliver(s) PROVE SgIInv'
  <2>1. s \in SgDeliverable /\ UNCHANGED <<sgPc, sgMask>> /\ sgPending' = sgPending \ {s}
    BY <1>5 DEF SgDeliver
  <2>2. CASE SgHandled(s)
    <3>1. sgStack' = <<s>> \o sgStack /\ UNCHANGED sgEnd
      BY <1>5, <2>2 DEF SgDeliver
    <3>2. sgStack' \in Seq(SgSet) /\ SgRunning' \subseteq SgRunning \cup {s}
      BY <3>1, SgNested
    <3> QED BY <2>1, <3>1, <3>2 DEF SgDeliverable
  <2>3. CASE ~SgHandled(s)
    <3>1. sgEnd' = "killed" /\ UNCHANGED sgStack
      BY <1>5, <2>3 DEF SgDeliver
    <3>2. sgPc < 4
      BY <2>3, SgEveryHandled
    <3> QED BY <2>1, <3>1, <3>2 DEF SgRunning
  <2> QED BY <2>2, <2>3
<1>6. ASSUME NEW s \in SgSet, SgSend(s) PROVE SgIInv'
  BY <1>6 DEF SgSend, SgRunning
<1>7. CASE UNCHANGED sgVars
  BY <1>7 DEF sgVars, SgRunning
<1> QED BY <1>1, <1>2, <1>3, <1>4, <1>5, <1>6, <1>7 DEF SgNext, SgProcess

\* The handler of SIGINT does not run while signals.cpp has SIGINT blocked; no
\* signal kills the process once every handler is there, and from its loop it
\* ends with exit() only.
THEOREM Protected == SgSpec => []SgProtected
<1>1. SgIInv => SgProtected
  BY DEF SgIInv, SgTypeOK, SgBlocked, SgProtected
<1> QED BY <1>1, SgInitIInv, SgNextIInv, PTL DEF SgSpec

-----------------------------------------------------------------------------
(* The archive of a run is in the order of the names. *)

ZpTypeOK ==
  /\ zpNames \subseteq Nat /\ zpDisk \subseteq Nat
  /\ zpPc \in {"main", "file", "add", "close", "returned"}

ZpInRun == {"file", "add", "close", "returned"}

\* The run has added the names in front and has the others to do.
ZpFront ==
  zpPc \in ZpInRun =>
    /\ zpAdded \cup zpTodo = zpNames /\ zpAdded \cap zpTodo = {}
    /\ \A a \in zpAdded, t \in zpTodo : a < t
    /\ zpRet => zpTodo = {}

\* A source belongs to a name still to do until the archive takes it; nothing
\* added is on disk before the run ends.
ZpSources ==
  /\ zpPc \in {"file", "add", "close"} =>
       zpFreed = {} /\ zpSource \subseteq zpTodo /\ zpDisk \cap zpAdded = {}
  /\ zpPc = "file" => zpSource = {}
  /\ zpPc = "add" => zpTodo # {}
  /\ zpFreed \cap zpAdded = {}

ZpIInv == ZpTypeOK /\ ZpFront /\ ZpSources

\* The name that comes next is the least of those to do.
LEMMA ZpLeast ==
  ASSUME zpTodo # {}, zpTodo \subseteq Nat
  PROVE  ZpFirst \in zpTodo /\ \A k \in zpTodo : ZpFirst <= k
<1>1. PICK x \in zpTodo : \A y \in zpTodo : <<y, x>> \notin OpToRel(<, Nat)
  BY WFMin, NatLessThanWellFounded, Zenon
<1>2. \A y \in zpTodo : x <= y
  <2>1. ASSUME NEW y \in zpTodo PROVE x <= y
    <3>1. ~(y < x)
      BY <1>1, Zenon DEF OpToRel
    <3> QED BY <3>1
  <2> QED BY <2>1
<1> QED BY <1>2 DEF ZpFirst

\* The invariant holds initially.
LEMMA ZpInitIInv == ZpInit => ZpIInv
  BY ZpAssumption DEF ZpInit, ZpIInv, ZpTypeOK, ZpInRun, ZpFront, ZpSources

\* The next name goes from the end of what is to do to the end of what is added.
LEMMA ZpAddIInv == ZpIInv /\ ZpAdd => ZpIInv'
<1> SUFFICES ASSUME ZpIInv, ZpAdd PROVE ZpIInv'
  OBVIOUS
<1> USE DEF ZpIInv, ZpTypeOK, ZpInRun, ZpFront, ZpSources
<1>1. CASE zpPc' = "close"
  BY <1>1 DEF ZpAdd
<1>2. CASE zpPc' # "close"
  <2> DEFINE n == ZpFirst
  <2>1. n \in zpTodo /\ \A k \in zpTodo : n <= k
    BY ZpLeast DEF ZpAdd
  <2>2. /\ n \notin zpDisk /\ zpAdded' = zpAdded \cup {n} /\ zpTodo' = zpTodo \ {n}
        /\ zpSource' = {} /\ zpPc = "add" /\ zpPc' = "file"
        /\ UNCHANGED <<zpNames, zpDisk, zpFreed, zpRet>>
    BY <1>2 DEF ZpAdd
  <2> HIDE DEF n
  <2>3. zpTodo \subseteq Nat
    BY <2>2
  <2>4. \A t \in zpTodo' : n < t
    BY <2>1, <2>2, <2>3
  <2>5. \A a \in zpAdded', t \in zpTodo' : a < t
    BY <2>2, <2>4
  <2> QED BY <2>1, <2>2, <2>5
<1> QED BY <1>1, <1>2

\* Every step keeps the invariant.
LEMMA ZpNextIInv == ZpIInv /\ [ZpNext]_zpVars => ZpIInv'
<1> SUFFICES ASSUME ZpIInv, [ZpNext]_zpVars PROVE ZpIInv'
  OBVIOUS
<1> USE DEF ZpIInv, ZpTypeOK, ZpInRun, ZpFront, ZpSources
<1>1. CASE ZpFilesChange
  BY <1>1, ZpAssumption DEF ZpFilesChange
<1>2. CASE ZpOpen
  BY <1>2 DEF ZpOpen
<1>3. CASE ZpFile
  <2>1. ZpFirst \in zpTodo
    BY <1>3, ZpLeast DEF ZpFile
  <2> QED BY <1>3, <2>1 DEF ZpFile
<1>4. CASE ZpAdd
  BY <1>4, ZpAddIInv
<1>5. CASE ZpLoopEnds
  BY <1>5 DEF ZpLoopEnds
<1>6. CASE ZpClose
  BY <1>6 DEF ZpClose
<1>7. CASE ZpRerun
  BY <1>7 DEF ZpRerun
<1>8. CASE UNCHANGED zpVars
  BY <1>8 DEF zpVars
<1> QED BY <1>1, <1>2, <1>3, <1>4, <1>5, <1>6, <1>7, <1>8 DEF ZpNext

\* UTIL_ZIP_create adds the names in their order, all of them if it returns
\* true, frees no source the archive took, and adds nothing behind a name of the
\* directory that an earlier run has put in the archive, whatever came into the
\* directory or went since.
THEOREM RunOK == ZpSpec => []ZpRunOK
<1>1. ZpIInv => ZpRunOK
  <2> SUFFICES ASSUME ZpIInv PROVE ZpRunOK
    OBVIOUS
  <2> USE DEF ZpIInv, ZpTypeOK, ZpInRun, ZpFront, ZpSources
  <2>1. zpPc # "main" => \A a \in zpAdded, n \in zpNames \ zpAdded : a < n
    OBVIOUS
  <2>2. zpPc = "returned" /\ zpRet => zpAdded = zpNames
    OBVIOUS
  <2>3. zpFreed \cap ZpTaken = {}
    BY DEF ZpTaken
  <2>4. zpPc \in {"file", "add", "close"} =>
          \A a \in zpAdded, d \in zpDisk \cap zpNames : a < d
    OBVIOUS
  <2> QED BY <2>1, <2>2, <2>3, <2>4 DEF ZpRunOK
<1> QED BY <1>1, ZpInitIInv, ZpNextIInv, PTL DEF ZpSpec

-----------------------------------------------------------------------------
(* piperw.cpp and piperwp.cpp: messages come through a stream whole. *)

\* Where message k + 1 begins in what the child writes, and the unit at place i.
TlvStart(k) ==
  IF k = 0 THEN 0 ELSE IF k = 1 THEN TlvLength + 2
  ELSE IF k = 2 THEN 2 * TlvLength + 4 ELSE 2 * TlvLength + 6

TlvUnit(i) ==
  IF i = 1 \/ i = TlvLength + 3 THEN TEXT
  ELSE IF i = 2 \/ i = TlvLength + 4 THEN TlvLength
  ELSE IF i <= TlvLength + 2 THEN 10 + (i - 2)
  ELSE IF i <= 2 * TlvLength + 4 THEN 20 + (i - (TlvLength + 4))
  ELSE IF i = 2 * TlvLength + 5 THEN END ELSE 0

\* The pipe holds what is between the unit read last and the unit written last.
TlvHolds(r, w) ==
  /\ Len(tlvPipe) = w - r
  /\ \A i \in 1 .. Len(tlvPipe) : tlvPipe[i] = TlvUnit(r + i)

TlvComing == TlvMessages[tlvGot + 1]

\* r units are read: whole messages, or part of the one that comes.
TlvHasRead(r) ==
  \/ tlvParent \in {"fork", "header"} /\ tlvGot < 3 /\ r = TlvStart(tlvGot)
  \/ tlvParent = "exited" /\ r = TlvStart(tlvGot)
  \/ /\ tlvParent = "length" /\ tlvSplit /\ ~tlvEof /\ tlvGot < 3 /\ r = TlvStart(tlvGot) + 1
     /\ tlvMsg.type = TlvComing.type
  \/ /\ tlvParent = "value" /\ ~tlvEof /\ tlvGot < 3 /\ r = TlvStart(tlvGot) + 2
     /\ tlvMsg.type = TlvComing.type /\ tlvMsg.length = Len(TlvComing.value)
  \/ /\ tlvParent = "switch" /\ ~tlvEof /\ tlvGot < 3 /\ r = TlvStart(tlvGot + 1)
     /\ tlvMsg.type = TlvComing.type /\ tlvMsg.value = TlvComing.value
  \/ /\ tlvParent \in {"value", "switch"} /\ tlvEof /\ ~tlvSplit /\ r = TlvStart(tlvGot)
     /\ tlvChild = "killed" /\ tlvGot = tlvSent /\ tlvSent < 3
     /\ tlvMsg.type = TEXT /\ tlvMsg.length = 0

\* w units are written: whole messages, or the header of one too.
TlvHasWritten(w) ==
  \/ tlvChild \in {"none", "header"} /\ tlvSent < 3 /\ w = TlvStart(tlvSent)
  \/ tlvChild = "value" /\ tlvSplit /\ tlvSent < 3 /\ w = TlvStart(tlvSent) + 2
  \/ tlvChild = "exited" /\ tlvSent = 3 /\ w = TlvStart(3)
  \/ /\ tlvChild = "killed" /\ tlvSent < 3
     /\ (w = TlvStart(tlvSent) \/ (tlvSplit /\ w = TlvStart(tlvSent) + 2))

TlvTypeOK ==
  /\ tlvPipe \in Seq(Int)
  /\ tlvGot \in 0 .. 3 /\ tlvSent \in 0 .. 3
  /\ tlvMsg \in [type : Int, length : Int, value : Seq(Int)]
  /\ tlvParent = "fork" => tlvChild = "none"

TlvIInv ==
  TlvTypeOK /\ \E r, w \in Nat : TlvHasRead(r) /\ TlvHasWritten(w) /\ TlvHolds(r, w)

\* The three messages.
LEMMA TlvMessagesAre ==
  /\ Len(TlvMessages) = 3
  /\ TlvMessages[1] = TlvText(1) /\ TlvMessages[2] = TlvText(2)
  /\ TlvMessages[3] = [type |-> END, value |-> <<>>]
BY DEF TlvMessages

\* What is in a text message.
LEMMA TlvTexts ==
  ASSUME NEW k \in 1 .. 2
  PROVE  /\ TlvText(k).type = TEXT /\ TlvText(k).value \in Seq(Int)
         /\ Len(TlvText(k).value) = TlvLength
         /\ \A b \in 1 .. TlvLength : TlvText(k).value[b] = 10 * k + b
BY TlvAssumption DEF TlvText

\* Message k + 1 lies in the stream between TlvStart(k) and TlvStart(k + 1).
LEMMA TlvStream ==
  ASSUME NEW k \in 0 .. 2, NEW m, m = TlvMessages[k + 1]
  PROVE  /\ m.type \in {TEXT, END} /\ m.value \in Seq(Int) /\ Len(m.value) \in Nat
         /\ (m.type = END <=> k = 2)
         /\ TlvStart(k) \in Nat /\ TlvStart(k + 1) = TlvStart(k) + 2 + Len(m.value)
         /\ TlvUnit(TlvStart(k) + 1) = m.type /\ TlvUnit(TlvStart(k) + 2) = Len(m.value)
         /\ \A b \in 1 .. Len(m.value) : TlvUnit(TlvStart(k) + 2 + b) = m.value[b]
<1>1. CASE k = 0
  <2>1. m = TlvText(1)
    BY <1>1, TlvMessagesAre
  <2>2. /\ m.type = TEXT /\ m.value \in Seq(Int) /\ Len(m.value) = TlvLength
        /\ \A b \in 1 .. TlvLength : m.value[b] = 10 + b
    BY <2>1, TlvTexts
  <2>3. TlvStart(k) = 0 /\ TlvStart(k + 1) = TlvStart(k) + 2 + TlvLength /\ TlvStart(k) \in Nat
    BY <1>1, TlvAssumption DEF TlvStart
  <2>4. TlvUnit(TlvStart(k) + 1) = TEXT /\ TlvUnit(TlvStart(k) + 2) = TlvLength
    BY <2>3, TlvAssumption DEF TlvUnit
  <2>5. \A b \in 1 .. TlvLength : TlvUnit(TlvStart(k) + 2 + b) = 10 + b
    BY <2>3, TlvAssumption DEF TlvUnit
  <2>6. m.type \in {TEXT, END} /\ (m.type = END <=> k = 2)
    BY <1>1, <2>2 DEF TEXT, END
  <2> QED BY <2>2, <2>3, <2>4, <2>5, <2>6, TlvAssumption
<1>2. CASE k = 1
  <2>1. m = TlvText(2)
    BY <1>2, TlvMessagesAre
  <2>2. /\ m.type = TEXT /\ m.value \in Seq(Int) /\ Len(m.value) = TlvLength
        /\ \A b \in 1 .. TlvLength : m.value[b] = 20 + b
    BY <2>1, TlvTexts
  <2>3. /\ TlvStart(k) = TlvLength + 2 /\ TlvStart(k) \in Nat
        /\ TlvStart(k + 1) = TlvStart(k) + 2 + TlvLength
    BY <1>2, TlvAssumption DEF TlvStart
  <2>4. TlvUnit(TlvStart(k) + 1) = TEXT /\ TlvUnit(TlvStart(k) + 2) = TlvLength
    BY <2>3, TlvAssumption DEF TlvUnit
  <2>5. \A b \in 1 .. TlvLength : TlvUnit(TlvStart(k) + 2 + b) = 20 + b
    BY <2>3, TlvAssumption DEF TlvUnit
  <2>6. m.type \in {TEXT, END} /\ (m.type = END <=> k = 2)
    BY <1>2, <2>2 DEF TEXT, END
  <2> QED BY <2>2, <2>3, <2>4, <2>5, <2>6, TlvAssumption
<1>3. CASE k = 2
  <2>1. m.type = END /\ m.value = <<>> /\ m.value \in Seq(Int) /\ Len(m.value) = 0
    <3>1. m = [type |-> END, value |-> <<>>]
      BY <1>3, TlvMessagesAre
    <3>2. m.type = END /\ m.value = <<>>
      BY <3>1
    <3> QED BY <3>2, EmptySeq
  <2>2. /\ TlvStart(k) = 2 * TlvLength + 4 /\ TlvStart(k) \in Nat
        /\ TlvStart(k + 1) = TlvStart(k) + 2
    BY <1>3, TlvAssumption DEF TlvStart
  <2>3. TlvUnit(TlvStart(k) + 1) = END /\ TlvUnit(TlvStart(k) + 2) = 0
    BY <2>2, TlvAssumption DEF TlvUnit
  <2>4. TlvStart(k + 1) = TlvStart(k) + 2 + Len(m.value) /\ 1 .. Len(m.value) = {}
    BY <2>1, <2>2
  <2>5. m.type \in {TEXT, END} /\ (m.type = END <=> k = 2)
    BY <1>3, <2>1
  <2> QED BY <2>1, <2>2, <2>3, <2>4, <2>5
<1> QED BY <1>1, <1>2, <1>3

\* A message begins after all earlier ones.
LEMMA TlvOrder ==
  ASSUME NEW j \in 0 .. 3, NEW k \in 0 .. 3, j < k
  PROVE  /\ TlvStart(j) \in Nat /\ TlvStart(k) \in Nat /\ TlvStart(j + 1) \in Nat
         /\ TlvStart(j) + 2 <= TlvStart(k) /\ TlvStart(j + 1) <= TlvStart(k)
BY TlvAssumption DEF TlvStart

\* The first n elements of a sequence, and the others.
LEMMA FrontAndBack ==
  ASSUME NEW s \in Seq(Int), NEW n \in 0 .. Len(s)
  PROVE  /\ SubSeq(s, 1, n) \in Seq(Int) /\ Len(SubSeq(s, 1, n)) = n
         /\ \A i \in 1 .. n : SubSeq(s, 1, n)[i] = s[i]
         /\ SubSeq(s, n + 1, Len(s)) \in Seq(Int)
         /\ Len(SubSeq(s, n + 1, Len(s))) = Len(s) - n
         /\ \A i \in 1 .. Len(s) - n : SubSeq(s, n + 1, Len(s))[i] = s[n + i]
<1>1. PICK l \in Nat, k \in Int : l = Len(s) /\ k = n + 1
  OBVIOUS
<1>2. n \in Nat /\ n <= l /\ \A i \in 1 .. l : s[i] \in Int
  BY <1>1, ElementOfSeq
<1>3. (\A i \in 1 .. n : s[i] \in Int) /\ (\A i \in k .. l : s[i] \in Int)
  BY <1>1, <1>2
<1>4. /\ SubSeq(s, 1, n) \in Seq(Int)
      /\ Len(SubSeq(s, 1, n)) = IF 1 <= n THEN n - 1 + 1 ELSE 0
      /\ \A i \in 1 .. n - 1 + 1 : SubSeq(s, 1, n)[i] = s[1 + i - 1]
  BY <1>2, <1>3, SubSeqProperties
<1>5. /\ SubSeq(s, k, l) \in Seq(Int)
      /\ Len(SubSeq(s, k, l)) = IF k <= l THEN l - k + 1 ELSE 0
      /\ \A i \in 1 .. l - k + 1 : SubSeq(s, k, l)[i] = s[k + i - 1]
  BY <1>3, SubSeqProperties
<1>6. /\ Len(SubSeq(s, 1, n)) = n
      /\ \A i \in 1 .. n : SubSeq(s, 1, n)[i] = s[i]
  BY <1>2, <1>4
<1>7. Len(SubSeq(s, k, l)) = l - n
  BY <1>1, <1>2, <1>5
<1>8. ASSUME NEW i \in 1 .. l - n PROVE SubSeq(s, k, l)[i] = s[n + i]
  <2>1. i \in 1 .. l - k + 1 /\ k + i - 1 = n + i
    BY <1>1, <1>2
  <2> QED BY <1>5, <2>1
<1> QED BY <1>1, <1>4, <1>5, <1>6, <1>7, <1>8

\* What a read of n units takes from the front of the pipe.
LEMMA TlvTaking ==
  ASSUME tlvPipe \in Seq(Int), NEW n \in 0 .. Len(tlvPipe), TlvTake(n),
         NEW r \in Nat, NEW w \in Nat, TlvHolds(r, w)
  PROVE  /\ TlvData(n) \in Seq(Int) /\ Len(TlvData(n)) = n
         /\ \A i \in 1 .. n : TlvData(n)[i] = TlvUnit(r + i)
         /\ tlvPipe' \in Seq(Int) /\ Len(tlvPipe') = w - (r + n)
         /\ \A i \in 1 .. Len(tlvPipe') : tlvPipe'[i] = TlvUnit((r + n) + i)
<1>1. Len(tlvPipe) \in Nat /\ n \in Nat /\ n <= Len(tlvPipe)
  OBVIOUS
<1>2. TlvData(n) = SubSeq(tlvPipe, 1, n)
  BY <1>1 DEF TlvData
<1>3. /\ TlvData(n) \in Seq(Int) /\ Len(TlvData(n)) = n
      /\ \A i \in 1 .. n : TlvData(n)[i] = tlvPipe[i]
  BY <1>2, FrontAndBack, Zenon
<1>4. tlvPipe' = SubSeq(tlvPipe, n + 1, Len(tlvPipe))
  BY <1>3, Zenon DEF TlvTake
<1>5. /\ tlvPipe' \in Seq(Int) /\ Len(tlvPipe') = Len(tlvPipe) - n
      /\ \A i \in 1 .. Len(tlvPipe') : tlvPipe'[i] = tlvPipe[n + i]
  BY <1>4, FrontAndBack, Zenon
<1>6. Len(tlvPipe) = w - r /\ \A i \in 1 .. Len(tlvPipe) : tlvPipe[i] = TlvUnit(r + i)
  BY DEF TlvHolds
<1>7. \A i \in 1 .. Len(tlvPipe') : tlvPipe'[i] = TlvUnit((r + n) + i)
  <2> SUFFICES ASSUME NEW i \in 1 .. Len(tlvPipe')
               PROVE  tlvPipe'[i] = TlvUnit((r + n) + i)
    OBVIOUS
  <2>1. n + i \in 1 .. Len(tlvPipe) /\ r + (n + i) = (r + n) + i
    BY <1>1, <1>5
  <2>2. tlvPipe'[i] = tlvPipe[n + i] /\ tlvPipe[n + i] = TlvUnit(r + (n + i))
    BY <1>5, <1>6, <2>1
  <2> QED BY <2>1, <2>2
<1>8. ASSUME NEW i \in 1 .. n
      PROVE  TlvData(n)[i] = TlvUnit(r + i)
  <2>1. i \in 1 .. Len(tlvPipe)
    BY <1>1
  <2> QED BY <1>3, <1>6, <2>1
<1>9. Len(tlvPipe') = w - (r + n)
  BY <1>1, <1>5, <1>6
<1> QED BY <1>3, <1>5, <1>7, <1>8, <1>9

\* A write continues the stream.
LEMMA TlvWriting ==
  ASSUME tlvPipe \in Seq(Int), NEW u \in Seq(Int), tlvPipe' = tlvPipe \o u,
         NEW r \in Nat, NEW w \in Nat, TlvHolds(r, w),
         \A i \in 1 .. Len(u) : u[i] = TlvUnit(w + i)
  PROVE  tlvPipe' \in Seq(Int) /\ TlvHolds(r, w + Len(u))'
<1>1. Len(tlvPipe) \in Nat /\ Len(u) \in Nat
  OBVIOUS
<1>2. /\ tlvPipe' \in Seq(Int) /\ Len(tlvPipe') = Len(tlvPipe) + Len(u)
      /\ \A i \in 1 .. Len(tlvPipe) + Len(u) :
           tlvPipe'[i] = IF i <= Len(tlvPipe) THEN tlvPipe[i] ELSE u[i - Len(tlvPipe)]
  BY ConcatProperties
<1>3. Len(tlvPipe) = w - r /\ \A i \in 1 .. Len(tlvPipe) : tlvPipe[i] = TlvUnit(r + i)
  BY DEF TlvHolds
<1>4. Len(tlvPipe') = (w + Len(u)) - r
  BY <1>1, <1>2, <1>3
<1>5. \A i \in 1 .. Len(tlvPipe') : tlvPipe'[i] = TlvUnit(r + i)
  <2> SUFFICES ASSUME NEW i \in 1 .. Len(tlvPipe') PROVE tlvPipe'[i] = TlvUnit(r + i)
    OBVIOUS
  <2>1. CASE i <= Len(tlvPipe)
    BY <1>1, <1>2, <1>3, <2>1
  <2>2. CASE i > Len(tlvPipe)
    <3>1. i - Len(tlvPipe) \in 1 .. Len(u) /\ w + (i - Len(tlvPipe)) = r + i
      BY <1>1, <1>2, <1>3, <2>2
    <3>2. tlvPipe'[i] = u[i - Len(tlvPipe)]
      BY <1>1, <1>2, <2>2
    <3> QED BY <3>1, <3>2
  <2> QED BY <1>1, <1>2, <2>1, <2>2
<1> QED BY <1>2, <1>4, <1>5 DEF TlvHolds


\* Whole messages are written, or, by piperwp.cpp, a header more.
LEMMA TlvWrittenUpTo ==
  ASSUME NEW w, TlvHasWritten(w)
  PROVE  w = TlvStart(tlvSent) \/ (tlvSplit /\ w = TlvStart(tlvSent) + 2)
BY DEF TlvHasWritten

\* More than the header of the message that comes is written only with the
\* whole of it.
LEMMA TlvWhole ==
  ASSUME TlvTypeOK, NEW w, TlvHasWritten(w), tlvGot < 3,
         \/ w > TlvStart(tlvGot) + 2
         \/ ~tlvSplit /\ w > TlvStart(tlvGot)
  PROVE  tlvGot < tlvSent /\ TlvStart(tlvGot + 1) <= w
<1>1. tlvGot \in 0 .. 3 /\ tlvSent \in 0 .. 3
  BY DEF TlvTypeOK
<1>2. w = TlvStart(tlvSent) \/ (tlvSplit /\ w = TlvStart(tlvSent) + 2)
  BY TlvWrittenUpTo
<1>3. TlvStart(tlvGot) \in Nat /\ TlvStart(tlvSent) \in Nat
  BY <1>1, TlvAssumption DEF TlvStart
<1>4. ~(tlvSent < tlvGot)
  <2>1. tlvSent < tlvGot => TlvStart(tlvSent) + 2 <= TlvStart(tlvGot)
    BY <1>1, TlvOrder
  <2> QED BY <1>2, <1>3, <2>1
<1>5. tlvSent # tlvGot
  BY <1>2, <1>3
<1>6. tlvGot < tlvSent
  BY <1>1, <1>4, <1>5
<1>7. TlvStart(tlvGot + 1) <= TlvStart(tlvSent) /\ TlvStart(tlvGot + 1) \in Nat
  BY <1>1, <1>6, TlvOrder
<1> QED BY <1>2, <1>3, <1>6, <1>7

\* The two units of a header.
LEMMA TlvHeaderUnits ==
  ASSUME NEW m, m.type \in {TEXT, END}, m.value \in Seq(Int)
  PROVE  /\ TlvHeader(m) \in Seq(Int) /\ Len(TlvHeader(m)) = 2
         /\ TlvHeader(m)[1] = m.type /\ TlvHeader(m)[2] = Len(m.value)
BY DEF TlvHeader, TEXT, END

\* A header and a value that continue the stream, together.
LEMMA TlvHeaderAndValue ==
  ASSUME NEW h \in Seq(Int), NEW b \in Seq(Int), NEW w \in Nat,
         Len(h) = 2, h[1] = TlvUnit(w + 1), h[2] = TlvUnit(w + 2),
         \A i \in 1 .. Len(b) : b[i] = TlvUnit(w + 2 + i)
  PROVE  /\ h \o b \in Seq(Int) /\ Len(h \o b) = 2 + Len(b)
         /\ \A i \in 1 .. Len(h \o b) : (h \o b)[i] = TlvUnit(w + i)
<1>0. PICK u : u = h \o b
  OBVIOUS
<1>1. /\ h \o b \in Seq(Int) /\ Len(h \o b) = Len(h) + Len(b)
      /\ \A i \in 1 .. Len(h) + Len(b) :
           (h \o b)[i] = IF i <= Len(h) THEN h[i] ELSE b[i - Len(h)]
  BY ConcatProperties
<1>2. /\ u \in Seq(Int) /\ Len(u) = 2 + Len(b) /\ Len(b) \in Nat
      /\ \A i \in 1 .. Len(u) : u[i] = IF i <= 2 THEN h[i] ELSE b[i - 2]
  BY <1>0, <1>1
<1>3. ASSUME NEW i \in 1 .. Len(u)
      PROVE  u[i] = TlvUnit(w + i)
  <2>1. CASE i = 1 \/ i = 2
    BY <1>2, <2>1
  <2>2. CASE i > 2
    <3>1. i - 2 \in 1 .. Len(b) /\ w + 2 + (i - 2) = w + i
      BY <1>2, <2>2
    <3>2. u[i] = b[i - 2] /\ b[i - 2] = TlvUnit(w + 2 + (i - 2))
      BY <1>2, <2>2, <3>1
    <3> QED BY <3>1, <3>2
  <2> QED BY <1>2, <2>1, <2>2
<1> QED BY <1>0, <1>2, <1>3

\* A write keeps the invariant if it continues the stream.
LEMMA TlvWrote ==
  ASSUME TlvIInv, NEW r \in Nat, NEW w \in Nat, TlvHasRead(r), TlvHolds(r, w),
         tlvChild \in {"header", "value"},
         UNCHANGED <<tlvSplit, tlvParent, tlvMsg, tlvGot, tlvEof>>,
         NEW u \in Seq(Int), tlvPipe' = tlvPipe \o u,
         \A i \in 1 .. Len(u) : u[i] = TlvUnit(w + i),
         NEW v \in Nat, v = w + Len(u), TlvHasWritten(v)', tlvSent' \in 0 .. 3
  PROVE  TlvIInv'
<1>1. tlvPipe' \in Seq(Int) /\ TlvHolds(r, w + Len(u))'
  BY TlvWriting DEF TlvIInv, TlvTypeOK
<1>2. TlvHolds(r, v)'
  BY <1>1 DEF TlvHolds
<1>3. tlvParent # "fork"
  BY DEF TlvIInv, TlvTypeOK
<1>4. TlvTypeOK'
  BY <1>1, <1>3 DEF TlvIInv, TlvTypeOK
<1>5. TlvHasRead(r)'
  BY DEF TlvHasRead, TlvComing
<1> QED BY <1>2, <1>4, <1>5 DEF TlvIInv

\* The child's writes.
LEMMA ChildTlvIInv == TlvIInv /\ TlvChildStep => TlvIInv'
<1> SUFFICES ASSUME TlvIInv, TlvChildStep PROVE TlvIInv'
  OBVIOUS
<1>1. PICK r \in Nat, w \in Nat : TlvHasRead(r) /\ TlvHasWritten(w) /\ TlvHolds(r, w)
  BY DEF TlvIInv
<1>2. tlvSent \in 0 .. 2 /\ tlvChild \in {"header", "value"}
  BY <1>1
     DEF TlvChildStep, TlvWriteAtOnce, TlvWriteHeader, TlvWriteValue, TlvHasWritten,
         TlvIInv, TlvTypeOK
<1>3. PICK m : m = TlvMessages[tlvSent + 1]
  OBVIOUS
<1>4. /\ m.type \in {TEXT, END} /\ m.value \in Seq(Int) /\ Len(m.value) \in Nat
      /\ TlvStart(tlvSent) \in Nat
      /\ TlvStart(tlvSent + 1) = TlvStart(tlvSent) + 2 + Len(m.value)
      /\ TlvUnit(TlvStart(tlvSent) + 1) = m.type
      /\ TlvUnit(TlvStart(tlvSent) + 2) = Len(m.value)
      /\ \A b \in 1 .. Len(m.value) : TlvUnit(TlvStart(tlvSent) + 2 + b) = m.value[b]
  BY <1>2, <1>3, TlvStream
<1>5. TlvToSend = m
  BY <1>3 DEF TlvToSend
<1>6. /\ TlvHeader(m) \in Seq(Int) /\ Len(TlvHeader(m)) = 2
      /\ TlvHeader(m)[1] = m.type /\ TlvHeader(m)[2] = Len(m.value)
  BY <1>4, TlvHeaderUnits
<1>7. UNCHANGED <<tlvSplit, tlvParent, tlvMsg, tlvGot, tlvEof>>
  BY DEF TlvChildStep, TlvWriteAtOnce, TlvWriteHeader, TlvWriteValue, TlvWrites
<1>8. PICK k : k = tlvSent + 1
  OBVIOUS
<1>9. PICK after \in Nat : after = TlvStart(k)
  BY <1>4, <1>8
<1>10. CASE TlvWriteAtOnce
  <2>1. PICK u : u = TlvHeader(m) \o m.value
    OBVIOUS
  <2>2. /\ tlvChild = "header" /\ tlvPipe' = tlvPipe \o u /\ tlvSent' = k
        /\ tlvChild' = IF k = 3 THEN "exited" ELSE "header"
    BY <1>5, <1>8, <1>10, <2>1, TlvMessagesAre DEF TlvWriteAtOnce, TlvWrites
  <2>3. w = TlvStart(tlvSent)
    BY <1>1, <2>2 DEF TlvHasWritten
  <2>4. /\ u \in Seq(Int) /\ Len(u) = 2 + Len(m.value)
        /\ \A i \in 1 .. Len(u) : u[i] = TlvUnit(w + i)
    <3>1. PICK h \in Seq(Int), b \in Seq(Int) : h = TlvHeader(m) /\ b = m.value
      BY <1>4, <1>6
    <3>2. /\ Len(h) = 2 /\ h[1] = TlvUnit(w + 1) /\ h[2] = TlvUnit(w + 2)
          /\ \A i \in 1 .. Len(b) : b[i] = TlvUnit(w + 2 + i)
      BY <1>4, <1>6, <2>3, <3>1
    <3>3. u = h \o b
      BY <2>1, <3>1
    <3>4. h \o b \in Seq(Int) /\ Len(h \o b) = 2 + Len(b)
      BY <3>2, <3>3, TlvHeaderAndValue
    <3>5. \A i \in 1 .. Len(h \o b) : (h \o b)[i] = TlvUnit(w + i)
      BY <3>2, <3>3, TlvHeaderAndValue
    <3> QED BY <3>1, <3>3, <3>4, <3>5
  <2>5. after = w + Len(u)
    <3>1. after = TlvStart(tlvSent) + 2 + Len(m.value) /\ Len(u) = 2 + Len(m.value)
      BY <1>4, <1>8, <1>9, <2>4
    <3>2. TlvStart(tlvSent) \in Nat /\ Len(m.value) \in Nat
      BY <1>4
    <3> QED BY <2>3, <3>1, <3>2
  <2>6. TlvHasWritten(after)' /\ tlvSent' \in 0 .. 3
    BY <1>2, <1>8, <1>9, <2>2 DEF TlvHasWritten
  <2> QED BY <1>1, <1>2, <1>7, <2>2, <2>4, <2>5, <2>6, TlvWrote
<1>11. CASE TlvWriteHeader
  <2>1. PICK u : u = TlvHeader(m)
    OBVIOUS
  <2>2. /\ tlvSplit /\ tlvChild = "header" /\ tlvPipe' = tlvPipe \o u
        /\ tlvSent' = tlvSent /\ tlvChild' = "value"
    BY <1>2, <1>5, <1>11, <2>1, TlvMessagesAre DEF TlvWriteHeader, TlvWrites
  <2>3. w = TlvStart(tlvSent)
    BY <1>1, <2>2 DEF TlvHasWritten
  <2>4. u \in Seq(Int) /\ Len(u) = 2 /\ \A i \in 1 .. Len(u) : u[i] = TlvUnit(w + i)
    <3>1. u \in Seq(Int) /\ Len(u) = 2 /\ u[1] = TlvUnit(w + 1) /\ u[2] = TlvUnit(w + 2)
      BY <1>4, <1>6, <2>1, <2>3
    <3>2. ASSUME NEW i \in 1 .. Len(u)
          PROVE  u[i] = TlvUnit(w + i)
      <4>1. i = 1 \/ i = 2
        BY <3>1
      <4> QED BY <3>1, <4>1
    <3> QED BY <3>1, <3>2
  <2>5. PICK v \in Nat : v = w + Len(u)
    BY <2>4
  <2>6. TlvHasWritten(v)' /\ tlvSent' \in 0 .. 3
    BY <1>2, <1>7, <2>2, <2>3, <2>4, <2>5 DEF TlvHasWritten
  <2> QED BY <1>1, <1>2, <1>7, <2>2, <2>4, <2>5, <2>6, TlvWrote
<1>12. CASE TlvWriteValue
  <2>1. PICK u : u = m.value
    OBVIOUS
  <2>2. /\ tlvChild = "value" /\ tlvPipe' = tlvPipe \o u /\ tlvSent' = k
        /\ tlvChild' = IF k = 3 THEN "exited" ELSE "header"
    BY <1>5, <1>8, <1>12, <2>1, TlvMessagesAre DEF TlvWriteValue, TlvWrites
  <2>3. w = TlvStart(tlvSent) + 2
    BY <1>1, <2>2 DEF TlvHasWritten
  <2>4. u \in Seq(Int) /\ \A i \in 1 .. Len(u) : u[i] = TlvUnit(w + i)
    BY <1>4, <2>1, <2>3
  <2>5. after = w + Len(u)
    BY <1>4, <1>8, <1>9, <2>1, <2>3
  <2>6. TlvHasWritten(after)' /\ tlvSent' \in 0 .. 3
    BY <1>2, <1>8, <1>9, <2>2 DEF TlvHasWritten
  <2> QED BY <1>1, <1>2, <1>7, <2>2, <2>4, <2>5, <2>6, TlvWrote
<1> QED BY <1>10, <1>11, <1>12 DEF TlvChildStep

\* A read keeps the invariant if it leaves the parent where the stream is.
LEMMA TlvReading ==
  ASSUME TlvIInv, NEW n \in 0 .. Len(tlvPipe), TlvTake(n),
         NEW r \in Nat, NEW w \in Nat, TlvHasWritten(w), TlvHolds(r, w),
         UNCHANGED <<tlvSplit, tlvChild, tlvSent, tlvGot>>,
         tlvParent' # "fork",
         tlvMsg' \in [type : Int, length : Int, value : Seq(Int)],
         NEW q \in Nat, q = r + n, TlvHasRead(q)'
  PROVE  TlvIInv'
<1>1. /\ tlvPipe' \in Seq(Int) /\ Len(tlvPipe') = w - (r + n)
      /\ \A i \in 1 .. Len(tlvPipe') : tlvPipe'[i] = TlvUnit((r + n) + i)
  BY TlvTaking DEF TlvIInv, TlvTypeOK
<1>2. TlvHolds(q, w)' /\ TlvHasWritten(w)'
  BY <1>1 DEF TlvHolds, TlvHasWritten
<1>3. TlvTypeOK'
  BY <1>1 DEF TlvIInv, TlvTypeOK
<1> QED BY <1>2, <1>3 DEF TlvIInv

\* The parent reads a header, or its first half, or the end of the file.
LEMMA HeaderTlvIInv == TlvIInv /\ TlvReadHeader => TlvIInv'
<1> SUFFICES ASSUME TlvIInv, TlvReadHeader PROVE TlvIInv'
  OBVIOUS
<1>1. PICK r \in Nat, w \in Nat : TlvHasRead(r) /\ TlvHasWritten(w) /\ TlvHolds(r, w)
  BY DEF TlvIInv
<1>2. /\ tlvSent \in 0 .. 3 /\ tlvGot \in 0 .. 2 /\ tlvPipe \in Seq(Int) /\ r = TlvStart(tlvGot)
      /\ Len(tlvPipe) = w - r /\ Len(tlvPipe) \in Nat
  BY <1>1 DEF TlvReadHeader, TlvHasRead, TlvHolds, TlvIInv, TlvTypeOK
<1>3. PICK m : m = TlvComing
  OBVIOUS
<1>4. /\ m.type \in {TEXT, END} /\ Len(m.value) \in Nat /\ TlvStart(tlvGot) \in Nat
      /\ TlvUnit(r + 1) = m.type /\ TlvUnit(r + 2) = Len(m.value)
      /\ TlvStart(tlvGot + 1) = TlvStart(tlvGot) + 2 + Len(m.value)
  BY <1>2, <1>3, TlvStream DEF TlvComing
<1>5. UNCHANGED <<tlvSplit, tlvChild, tlvSent, tlvGot>> /\ TlvComing' = m
  BY <1>3 DEF TlvReadHeader, TlvComing
<1>6. \A l \in Int :
        [type |-> m.type, length |-> l, value |-> <<>>]
          \in [type : Int, length : Int, value : Seq(Int)]
  BY <1>4, EmptySeq DEF TEXT, END
<1>7. CASE tlvSplit
  <2>1. PICK d : d = TlvData(1)
    OBVIOUS
  <2>2. /\ TlvTake(1) /\ tlvParent' = "length" /\ (tlvEof' <=> d = <<>>)
        /\ tlvMsg' = [type |-> TlvField(d, 1), length |-> TlvField(d, 2), value |-> <<>>]
        /\ tlvPipe # <<>>
    BY <1>7, <2>1 DEF TlvReadHeader, TlvReadable
  <2>3. 1 \in 0 .. Len(tlvPipe)
    BY <1>2, <2>2
  <2>4. d \in Seq(Int) /\ Len(d) = 1 /\ d[1] = m.type
    <3>1. /\ TlvData(1) \in Seq(Int) /\ Len(TlvData(1)) = 1
          /\ \A i \in 1 .. 1 : TlvData(1)[i] = TlvUnit(r + i)
      BY <1>1, <1>2, <2>2, <2>3, TlvTaking, Zenon
    <3> QED BY <1>4, <2>1, <3>1
  <2>5. TlvField(d, 1) = m.type /\ TlvField(d, 2) = 0 /\ d # <<>>
    <3>1. DOMAIN d = 1 .. 1
      BY <2>4
    <3>2. d # <<>>
      <4>1. Len(<<>>) = 0
        BY EmptySeq
      <4> QED BY <2>4, <4>1
    <3> QED BY <2>4, <3>1, <3>2 DEF TlvField
  <2>6. PICK q \in Nat : q = r + 1
    OBVIOUS
  <2>7. tlvMsg'.type = m.type /\ tlvMsg' \in [type : Int, length : Int, value : Seq(Int)]
    <3>1. tlvMsg' = [type |-> m.type, length |-> 0, value |-> <<>>]
      BY <2>2, <2>5
    <3> QED BY <1>4, <1>6, <3>1
  <2>8. TlvHasRead(q)'
    BY <1>2, <1>5, <1>7, <2>2, <2>5, <2>6, <2>7 DEF TlvHasRead
  <2> QED BY <1>1, <1>5, <2>2, <2>3, <2>6, <2>7, <2>8, TlvReading
<1>8. CASE ~tlvSplit /\ tlvPipe # <<>>
  <2>1. PICK d : d = TlvData(2)
    OBVIOUS
  <2>2. /\ TlvTake(2) /\ tlvParent' = "value" /\ (tlvEof' <=> d = <<>>)
        /\ tlvMsg' = [type |-> TlvField(d, 1), length |-> TlvField(d, 2), value |-> <<>>]
    BY <1>8, <2>1 DEF TlvReadHeader
  <2>3. 2 \in 0 .. Len(tlvPipe)
    <3>1. w > TlvStart(tlvGot)
      BY <1>1, <1>2, <1>8
    <3>2. TlvStart(tlvGot + 1) <= w
      BY <1>1, <1>2, <1>8, <3>1, TlvWhole DEF TlvIInv
    <3>3. Len(tlvPipe) = w - r /\ Len(tlvPipe) \in Nat
      BY <1>2
    <3>4. PICK e \in Nat : TlvStart(tlvGot + 1) = r + 2 + e
      BY <1>2, <1>4
    <3>5. r + 2 + e <= w
      BY <3>2, <3>4
    <3> QED BY <3>3, <3>5
  <2>4. d \in Seq(Int) /\ Len(d) = 2 /\ d[1] = m.type /\ d[2] = Len(m.value)
    <3>1. /\ TlvData(2) \in Seq(Int) /\ Len(TlvData(2)) = 2
          /\ \A i \in 1 .. 2 : TlvData(2)[i] = TlvUnit(r + i)
      BY <1>1, <1>2, <2>2, <2>3, TlvTaking, Zenon
    <3> QED BY <1>4, <2>1, <3>1
  <2>5. TlvField(d, 1) = m.type /\ TlvField(d, 2) = Len(m.value) /\ d # <<>>
    <3>1. DOMAIN d = 1 .. 2
      BY <2>4
    <3>2. d # <<>>
      <4>1. Len(<<>>) = 0
        BY EmptySeq
      <4> QED BY <2>4, <4>1
    <3> QED BY <2>4, <3>1, <3>2 DEF TlvField
  <2>6. PICK q \in Nat : q = r + 2
    OBVIOUS
  <2>7. /\ tlvMsg'.type = m.type /\ tlvMsg'.length = Len(m.value)
        /\ tlvMsg' \in [type : Int, length : Int, value : Seq(Int)]
    <3>1. /\ tlvMsg' = [type |-> m.type, length |-> Len(m.value), value |-> <<>>]
          /\ Len(m.value) \in Int
      BY <1>4, <2>2, <2>5
    <3> QED BY <1>4, <1>6, <3>1
  <2>8. TlvHasRead(q)'
    BY <1>2, <1>5, <1>8, <2>2, <2>5, <2>6, <2>7 DEF TlvHasRead
  <2> QED BY <1>1, <1>5, <2>2, <2>3, <2>6, <2>7, <2>8, TlvReading
<1>9. CASE ~tlvSplit /\ tlvPipe = <<>>
  <2>1. Len(tlvPipe) = 0 /\ 0 \in 0 .. Len(tlvPipe)
    BY <1>9, EmptySeq
  <2>2. TlvData(2) = TlvData(0) /\ (TlvTake(2) => TlvTake(0))
    BY <2>1 DEF TlvData, TlvTake
  <2>3. PICK d : d = TlvData(2)
    OBVIOUS
  <2>4. /\ TlvTake(0) /\ tlvParent' = "value" /\ (tlvEof' <=> d = <<>>)
        /\ tlvMsg' = [type |-> TlvField(d, 1), length |-> TlvField(d, 2), value |-> <<>>]
        /\ tlvChild \in {"exited", "killed"}
    BY <1>9, <2>2, <2>3 DEF TlvReadHeader, TlvReadable
  <2>5. d \in Seq(Int) /\ Len(d) = 0
    BY <1>1, <1>2, <2>1, <2>2, <2>3, <2>4, TlvTaking
  <2>6. TlvField(d, 1) = TEXT /\ TlvField(d, 2) = 0 /\ d = <<>>
    <3>1. d = <<>>
      BY <2>5, EmptySeq
    <3>2. DOMAIN d = 1 .. 0
      BY <2>5, LenProperties
    <3> QED BY <3>1, <3>2 DEF TlvField, TEXT
  <2>7. tlvMsg' = [type |-> TEXT, length |-> 0, value |-> <<>>]
    BY <2>4, <2>6
  <2>8. /\ tlvMsg'.type = TEXT /\ tlvMsg'.length = 0
        /\ tlvMsg' \in [type : Int, length : Int, value : Seq(Int)]
    BY <2>7, EmptySeq DEF TEXT
  <2>9. w = TlvStart(tlvGot)
    <3>1. 0 = w - r /\ r = TlvStart(tlvGot)
      BY <1>2, <2>1
    <3> QED BY <3>1
  <2>10. tlvChild = "killed" /\ tlvSent < 3 /\ w = TlvStart(tlvSent)
    <3>1. ~(tlvChild = "exited")
      <4>1. TlvStart(tlvGot) + 2 <= TlvStart(3)
        <5>1. tlvGot \in 0 .. 3 /\ 3 \in 0 .. 3 /\ tlvGot < 3
          BY <1>2
        <5> QED BY <5>1, TlvOrder, Zenon
      <4> QED BY <1>1, <1>4, <2>9, <4>1 DEF TlvHasWritten
    <3> QED BY <1>1, <1>9, <2>4, <3>1 DEF TlvHasWritten
  <2>11. tlvGot = tlvSent
    <3>0. tlvGot \in 0 .. 3 /\ tlvSent \in 0 .. 3
      BY <1>2
    <3>1. tlvGot < tlvSent => TlvStart(tlvGot) + 2 <= TlvStart(tlvSent)
      BY <3>0, TlvOrder
    <3>2. tlvSent < tlvGot => TlvStart(tlvSent) + 2 <= TlvStart(tlvGot)
      BY <3>0, TlvOrder
    <3> QED BY <1>2, <1>4, <2>9, <2>10, <3>1, <3>2
  <2>12. PICK q \in Nat : q = r + 0 /\ q = r
    OBVIOUS
  <2>13. TlvHasRead(q)'
    BY <1>2, <1>5, <1>9, <2>4, <2>6, <2>8, <2>10, <2>11, <2>12 DEF TlvHasRead
  <2> QED BY <1>1, <1>5, <2>1, <2>4, <2>8, <2>12, <2>13, TlvReading
<1> QED BY <1>7, <1>8, <1>9

\* piperwp.cpp: the second half of a header.
LEMMA LengthTlvIInv == TlvIInv /\ TlvReadLength => TlvIInv'
<1> SUFFICES ASSUME TlvIInv, TlvReadLength PROVE TlvIInv'
  OBVIOUS
<1>1. PICK r \in Nat, w \in Nat : TlvHasRead(r) /\ TlvHasWritten(w) /\ TlvHolds(r, w)
  BY DEF TlvIInv
<1>2. /\ tlvGot \in 0 .. 2 /\ tlvPipe \in Seq(Int) /\ tlvSplit /\ ~tlvEof
      /\ r = TlvStart(tlvGot) + 1 /\ tlvMsg.type = TlvComing.type
      /\ tlvMsg \in [type : Int, length : Int, value : Seq(Int)]
  BY <1>1 DEF TlvReadLength, TlvHasRead, TlvIInv, TlvTypeOK
<1>3. PICK m : m = TlvComing
  OBVIOUS
<1>4. /\ Len(m.value) \in Nat /\ TlvStart(tlvGot) \in Nat
      /\ TlvUnit(TlvStart(tlvGot) + 2) = Len(m.value)
  BY <1>2, <1>3, TlvStream DEF TlvComing
<1>5. PICK d : d = TlvData(1)
  OBVIOUS
<1>6. /\ TlvTake(1) /\ tlvParent' = "value" /\ tlvPipe # <<>>
      /\ tlvMsg' = [tlvMsg EXCEPT !.length = TlvField(d, 1)]
      /\ UNCHANGED <<tlvSplit, tlvChild, tlvSent, tlvGot, tlvEof>> /\ TlvComing' = m
  BY <1>2, <1>3, <1>5 DEF TlvReadLength, TlvReadable, TlvComing
<1>7. 1 \in 0 .. Len(tlvPipe)
  BY <1>2, <1>6
<1>8. d \in Seq(Int) /\ Len(d) = 1 /\ d[1] = Len(m.value)
  <2>1. /\ TlvData(1) \in Seq(Int) /\ Len(TlvData(1)) = 1
        /\ \A i \in 1 .. 1 : TlvData(1)[i] = TlvUnit(r + i)
    BY <1>1, <1>2, <1>6, <1>7, TlvTaking, Zenon
  <2>2. r + 1 = TlvStart(tlvGot) + 2
    BY <1>2, <1>4
  <2> QED BY <1>4, <1>5, <2>1, <2>2
<1>9. TlvField(d, 1) = Len(m.value)
  BY <1>8 DEF TlvField
<1>10. /\ tlvMsg'.type = m.type /\ tlvMsg'.length = Len(m.value)
       /\ tlvMsg' \in [type : Int, length : Int, value : Seq(Int)]
  <2>1. PICK msg, l : msg = tlvMsg /\ l = Len(m.value)
    OBVIOUS
  <2>2. msg \in [type : Int, length : Int, value : Seq(Int)] /\ l \in Int
    BY <1>2, <1>4, <2>1
  <2>3. msg.type = m.type
    BY <1>2, <1>3, <2>1, Zenon
  <2>4. tlvMsg' = [msg EXCEPT !.length = l]
    BY <1>6, <1>9, <2>1, Zenon
  <2>5. /\ [msg EXCEPT !.length = l].type = msg.type /\ [msg EXCEPT !.length = l].length = l
        /\ [msg EXCEPT !.length = l] \in [type : Int, length : Int, value : Seq(Int)]
    BY <2>2
  <2> QED BY <2>1, <2>2, <2>3, <2>4, <2>5
<1>11. PICK q \in Nat : q = r + 1
  OBVIOUS
<1>12. q = TlvStart(tlvGot) + 2
  BY <1>2, <1>4, <1>11
<1>13. TlvHasRead(q)'
  <2>1. tlvParent' = "value" /\ ~tlvEof' /\ tlvGot' < 3 /\ q = TlvStart(tlvGot') + 2
    BY <1>2, <1>6, <1>12
  <2>2. tlvMsg'.type = (TlvComing').type /\ tlvMsg'.length = Len((TlvComing').value)
    BY <1>6, <1>10, Zenon
  <2> QED BY <2>1, <2>2 DEF TlvHasRead
<1> QED BY <1>1, <1>6, <1>7, <1>10, <1>11, <1>13, TlvReading

\* The parent reads a value, whole; after an end of file, nothing.
LEMMA ValueTlvIInv == TlvIInv /\ TlvReadValue => TlvIInv'
<1> SUFFICES ASSUME TlvIInv, TlvReadValue PROVE TlvIInv'
  OBVIOUS
<1>1. PICK r \in Nat, w \in Nat : TlvHasRead(r) /\ TlvHasWritten(w) /\ TlvHolds(r, w)
  BY DEF TlvIInv
<1>2. PICK msg, n : msg = tlvMsg /\ n = tlvMsg.length
  OBVIOUS
<1>3. /\ msg \in [type : Int, length : Int, value : Seq(Int)] /\ n \in Int
      /\ tlvPipe \in Seq(Int) /\ Len(tlvPipe) \in Nat /\ Len(tlvPipe) = w - r
      /\ tlvSent \in 0 .. 3 /\ tlvGot \in 0 .. 3
  <2>1. /\ tlvMsg \in [type : Int, length : Int, value : Seq(Int)]
        /\ tlvPipe \in Seq(Int) /\ tlvSent \in 0 .. 3 /\ tlvGot \in 0 .. 3
    BY DEF TlvIInv, TlvTypeOK
  <2>2. Len(tlvPipe) = w - r
    BY <1>1 DEF TlvHolds
  <2>3. Len(tlvPipe) \in Nat
    BY <2>1
  <2> QED BY <1>2, <2>1, <2>2, <2>3
<1>4. PICK d : d = TlvData(n)
  OBVIOUS
<1>5. /\ tlvParent = "value" /\ (n = 0 \/ TlvReadable) /\ TlvTake(n)
      /\ tlvParent' = "switch"
      /\ UNCHANGED <<tlvSplit, tlvChild, tlvSent, tlvGot, tlvEof>>
  BY <1>2 DEF TlvReadValue
<1>6. tlvMsg' = [msg EXCEPT !.value = d]
  BY <1>2, <1>4, Zenon DEF TlvReadValue
<1>7. ASSUME d \in Seq(Int)
      PROVE  /\ tlvMsg'.type = msg.type /\ tlvMsg'.length = msg.length /\ tlvMsg'.value = d
             /\ tlvMsg' \in [type : Int, length : Int, value : Seq(Int)]
  BY <1>3, <1>6, <1>7
<1>8. CASE tlvEof
  <2>1. /\ ~tlvSplit /\ r = TlvStart(tlvGot) /\ tlvChild = "killed" /\ tlvGot = tlvSent
        /\ tlvSent < 3 /\ msg.type = TEXT /\ msg.length = 0
    BY <1>1, <1>2, <1>5, <1>8 DEF TlvHasRead
  <2>2. n = 0 /\ n \in 0 .. Len(tlvPipe)
    BY <1>2, <1>3, <2>1
  <2>3. d \in Seq(Int)
    BY <1>1, <1>3, <1>4, <1>5, <2>2, TlvTaking
  <2>4. tlvMsg'.type = TEXT /\ tlvMsg'.length = 0
    BY <1>7, <2>1, <2>3
  <2>5. TlvHasRead(r)'
    BY <1>5, <1>8, <2>1, <2>4 DEF TlvHasRead
  <2>6. r = r + n
    BY <2>2
  <2> QED BY <1>1, <1>5, <1>7, <2>2, <2>3, <2>5, <2>6, TlvReading
<1>9. CASE ~tlvEof
  <2>1. PICK m : m = TlvComing
    OBVIOUS
  <2>2. /\ tlvGot \in 0 .. 2 /\ r = TlvStart(tlvGot) + 2
        /\ msg.type = m.type /\ n = Len(m.value)
    BY <1>1, <1>2, <1>3, <1>5, <1>9, <2>1 DEF TlvHasRead
  <2>3. /\ m.value \in Seq(Int) /\ Len(m.value) \in Nat /\ TlvStart(tlvGot) \in Nat
        /\ TlvStart(tlvGot + 1) = TlvStart(tlvGot) + 2 + Len(m.value)
        /\ \A b \in 1 .. Len(m.value) : TlvUnit(TlvStart(tlvGot) + 2 + b) = m.value[b]
    BY <2>1, <2>2, TlvStream DEF TlvComing
  <2>4. n \in 0 .. Len(tlvPipe)
    <3>1. CASE n = 0
      BY <1>3, <3>1
    <3>2. TlvTypeOK /\ tlvGot < 3
      BY <2>2 DEF TlvIInv
    <3>3. TlvStart(tlvGot + 1) <= w => n \in 0 .. Len(tlvPipe)
      <4>1. Len(tlvPipe) = w - r /\ Len(tlvPipe) \in Nat
        BY <1>3
      <4>2. TlvStart(tlvGot + 1) = r + n /\ n \in Nat
        BY <2>2, <2>3
      <4> QED BY <4>1, <4>2
    <3>4. CASE n # 0 /\ tlvSplit
      <4>1. tlvPipe # <<>>
        BY <1>5, <3>4 DEF TlvReadable
      <4>2. w > TlvStart(tlvGot) + 2
        BY <1>3, <2>2, <2>3, <4>1
      <4>3. TlvStart(tlvGot + 1) <= w
        BY <1>1, <3>2, <4>2, TlvWhole
      <4> QED BY <3>3, <4>3
    <3>5. CASE ~tlvSplit
      <4>1. w > TlvStart(tlvGot)
        BY <1>3, <2>2, <2>3
      <4>2. TlvStart(tlvGot + 1) <= w
        BY <1>1, <3>2, <3>5, <4>1, TlvWhole
      <4> QED BY <3>3, <4>2
    <3> QED BY <3>1, <3>4, <3>5
  <2>5. d \in Seq(Int) /\ Len(d) = n /\ \A i \in 1 .. n : d[i] = TlvUnit(r + i)
    BY <1>1, <1>3, <1>4, <1>5, <2>4, TlvTaking, Zenon
  <2>6. d = m.value
    <3>1. \A i \in 1 .. Len(d) : d[i] = m.value[i]
      BY <2>2, <2>3, <2>5
    <3> QED BY <2>2, <2>3, <2>5, <3>1, SeqEqual
  <2>7. PICK q \in Nat : q = r + n
    BY <2>4
  <2>8. q = TlvStart(tlvGot + 1)
    BY <2>2, <2>3, <2>7
  <2>9. tlvMsg'.type = m.type /\ tlvMsg'.value = m.value
    BY <1>7, <2>2, <2>5, <2>6
  <2>10. TlvComing' = m
    BY <1>5, <2>1 DEF TlvComing
  <2>11. TlvHasRead(q)'
    BY <1>5, <1>9, <2>2, <2>8, <2>9, <2>10 DEF TlvHasRead
  <2> QED BY <1>1, <1>5, <1>7, <2>4, <2>5, <2>7, <2>11, TlvReading
<1> QED BY <1>8, <1>9

\* The parent handles a message; the pipe is as before.
LEMMA SwitchTlvIInv == TlvIInv /\ TlvSwitch => TlvIInv'
<1> SUFFICES ASSUME TlvIInv, TlvSwitch PROVE TlvIInv'
  OBVIOUS
<1>1. PICK r \in Nat, w \in Nat : TlvHasRead(r) /\ TlvHasWritten(w) /\ TlvHolds(r, w)
  BY DEF TlvIInv
<1>2. TlvHolds(r, w)' /\ TlvHasWritten(w)'
  BY <1>1 DEF TlvSwitch, TlvHolds, TlvHasWritten
<1>3. tlvGot \in 0 .. 2 /\ tlvParent = "switch"
  BY <1>1 DEF TlvSwitch, TlvHasRead, TlvIInv, TlvTypeOK
<1>4. TlvTypeOK' /\ TlvHasRead(r)'
  <2>1. CASE tlvEof
    <3>1. tlvMsg.type # END /\ r = TlvStart(tlvGot)
      BY <1>1, <1>3, <2>1 DEF TlvHasRead, TEXT, END
    <3>2. tlvParent' = "header" /\ tlvGot' = tlvGot
      BY <2>1, <3>1 DEF TlvSwitch
    <3> QED BY <1>3, <3>1, <3>2 DEF TlvSwitch, TlvHasRead, TlvIInv, TlvTypeOK
  <2>2. CASE ~tlvEof
    <3>1. tlvMsg.type = TlvComing.type /\ r = TlvStart(tlvGot + 1)
      BY <1>1, <1>3, <2>2 DEF TlvHasRead
    <3>2. tlvMsg.type = END <=> tlvGot = 2
      BY <1>3, <3>1, TlvStream DEF TlvComing
    <3>3. PICK g \in 1 .. 3 : g = tlvGot + 1
      BY <1>3
    <3>4. tlvGot' = g /\ r = TlvStart(g)
      BY <2>2, <3>1, <3>3 DEF TlvSwitch
    <3>5. (tlvParent' = "exited" /\ g = 3) \/ (tlvParent' = "header" /\ g < 3)
      BY <1>3, <3>2, <3>3 DEF TlvSwitch
    <3>6. TlvTypeOK'
      BY <1>3, <3>4, <3>5 DEF TlvSwitch, TlvIInv, TlvTypeOK
    <3> QED BY <3>4, <3>5, <3>6 DEF TlvHasRead
  <2> QED BY <2>1, <2>2
<1> QED BY <1>2, <1>4 DEF TlvIInv

\* The fork, and the end of the child wherever it comes.
LEMMA ForkTlvIInv == TlvIInv /\ (TlvFork \/ TlvKill) => TlvIInv'
<1> SUFFICES ASSUME TlvIInv, TlvFork \/ TlvKill PROVE TlvIInv'
  OBVIOUS
<1>1. PICK r \in Nat, w \in Nat : TlvHasRead(r) /\ TlvHasWritten(w) /\ TlvHolds(r, w)
  BY DEF TlvIInv
<1>2. UNCHANGED <<tlvSplit, tlvPipe, tlvSent, tlvMsg, tlvGot, tlvEof>>
  BY DEF TlvFork, TlvKill
<1>3. TlvHolds(r, w)' /\ TlvComing' = TlvComing
  BY <1>1, <1>2 DEF TlvHolds, TlvComing
<1>4. TlvHasRead(r)' /\ TlvHasWritten(w)' /\ TlvTypeOK'
  <2>1. CASE TlvFork
    <3>1. tlvParent = "fork" /\ tlvChild = "none"
      BY <2>1 DEF TlvFork, TlvIInv, TlvTypeOK
    <3>2. TlvHasRead(r)'
      BY <1>1, <1>2, <2>1, <3>1 DEF TlvFork, TlvHasRead
    <3>3. TlvHasWritten(w)'
      BY <1>1, <1>2, <2>1, <3>1 DEF TlvFork, TlvHasWritten
    <3> QED BY <1>2, <2>1, <3>2, <3>3 DEF TlvFork, TlvIInv, TlvTypeOK
  <2>2. CASE TlvKill
    <3>1. tlvChild \in {"header", "value"} /\ tlvChild' = "killed" /\ UNCHANGED tlvParent
      BY <2>2 DEF TlvKill
    <3>2. TlvHasRead(r)'
      BY <1>1, <1>2, <1>3, <3>1 DEF TlvHasRead
    <3>3. TlvHasWritten(w)'
      BY <1>1, <1>2, <3>1 DEF TlvHasWritten
    <3> QED BY <1>2, <3>1, <3>2, <3>3 DEF TlvIInv, TlvTypeOK
  <2> QED BY <2>1, <2>2
<1> QED BY <1>3, <1>4 DEF TlvIInv

\* Nothing is read or written at the start.
LEMMA InitTlvIInv == TlvInit => TlvIInv
<1> SUFFICES ASSUME TlvInit PROVE TlvIInv
  OBVIOUS
<1>1. TlvStart(0) = 0
  BY DEF TlvStart
<1>2. tlvPipe \in Seq(Int) /\ Len(tlvPipe) = 0
  BY EmptySeq DEF TlvInit
<1>3. TlvHasRead(0) /\ TlvHasWritten(0)
  BY <1>1 DEF TlvInit, TlvHasRead, TlvHasWritten
<1>4. TlvHolds(0, 0)
  BY <1>2 DEF TlvHolds
<1>5. TlvTypeOK
  BY <1>2, EmptySeq DEF TlvInit, TlvTypeOK, NewTlv
<1> QED BY <1>3, <1>4, <1>5 DEF TlvIInv

\* Every step keeps the invariant.
LEMMA NextTlvIInv == TlvIInv /\ [TlvNext]_tlvVars => TlvIInv'
<1> SUFFICES ASSUME TlvIInv, [TlvNext]_tlvVars PROVE TlvIInv'
  OBVIOUS
<1>1. CASE UNCHANGED tlvVars
  <2>1. PICK r \in Nat, w \in Nat : TlvHasRead(r) /\ TlvHasWritten(w) /\ TlvHolds(r, w)
    BY DEF TlvIInv
  <2>2. TlvHasRead(r)' /\ TlvHasWritten(w)'
    BY <1>1, <2>1 DEF tlvVars, TlvHasRead, TlvHasWritten, TlvComing
  <2>3. TlvHolds(r, w)'
    BY <1>1, <2>1 DEF tlvVars, TlvHolds
  <2>4. TlvTypeOK'
    BY <1>1 DEF tlvVars, TlvIInv, TlvTypeOK
  <2> QED BY <2>2, <2>3, <2>4 DEF TlvIInv
<1> QED
  BY <1>1, ForkTlvIInv, ChildTlvIInv, HeaderTlvIInv, LengthTlvIInv, ValueTlvIInv,
     SwitchTlvIInv
     DEF TlvNext, TlvParentStep

\* However piperw.cpp and piperwp.cpp cut the stream into reads, what the parent
\* handles is the next message, whole, for texts of any length.
THEOREM Intact == TlvSpec => []TlvIntact
<1>1. TlvIInv => TlvIntact
  <2> SUFFICES ASSUME TlvIInv, tlvParent = "switch" PROVE TlvIntact
    BY DEF TlvIntact
  <2>1. PICK r \in Nat : TlvHasRead(r)
    BY DEF TlvIInv
  <2>2. Len(TlvMessages) = 3
    BY TlvMessagesAre
  <2> QED BY <2>1, <2>2 DEF TlvHasRead, TlvIntact, TlvComing
<1> QED BY <1>1, InitTlvIInv, NextTlvIInv, PTL DEF TlvSpec
=============================================================================
