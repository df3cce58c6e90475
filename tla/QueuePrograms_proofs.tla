----------------------- MODULE QueuePrograms_proofs -----------------------
(***************************************************************************)
(* For any readers, queue length, integer width and bound: in which order  *)
(* messages come out of the queues of mq_withoverflow_nonblock.c, of the   *)
(* mq_ipc_vfork programs, of mq.c and of mq_ipc.c, which does what         *)
(* OverflowQueue_proofs shows of mq_withoverflow.c.                        *)
(***************************************************************************)
EXTENDS QueuePrograms, OverflowQueue_proofs, FiniteSetTheorems, TLAPS
-----------------------------------------------------------------------------
(* mq_withoverflow_nonblock.c: the numbers ascend. *)

NbTypeOK ==
  /\ nbQueue \in Seq(Nat) /\ nbCounter \in UInt /\ nbLast \in Nat
  /\ nbPc \in [Threads -> {"check", "test", "send", "receive", "print"}]

\* What is received next is greater than what was received last, what is sent
\* next greater than all that is in the queue.
Ascending ==
  ~nbWrapped =>
    /\ nbLast <= nbCounter
    /\ \A i \in 1 .. Len(nbQueue) : nbLast < nbQueue[i] /\ nbQueue[i] <= nbCounter
    /\ \A i, j \in 1 .. Len(nbQueue) : i < j => nbQueue[i] < nbQueue[j]
    /\ nbPc[Writer] = "send" =>
         nbLast < nbCounter /\ \A i \in 1 .. Len(nbQueue) : nbQueue[i] < nbCounter

NbIInv == NbTypeOK /\ Ascending

\* The invariant holds initially.
LEMMA InitNbIInv == Nonblock!NInit => NbIInv
<1> SUFFICES ASSUME Nonblock!NInit PROVE NbIInv
  OBVIOUS
<1>1. nbQueue = <<>> /\ nbCounter = 0 /\ nbLast = 0 /\ nbWrapped = FALSE
  BY DEF Nonblock!NInit, Nonblock!Init
<1>2. nbPc \in [Threads -> {"check", "test", "send", "receive", "print"}]
      /\ nbPc[Writer] = "check"
  BY DEF Nonblock!NInit, Nonblock!Init, Nonblock!StartPC, Threads, Nonblock!Threads
<1>3. NbTypeOK
  <2>1. nbQueue \in Seq(Nat)
    BY <1>1
  <2>2. nbCounter \in UInt /\ nbLast \in Nat
    BY <1>1, UIntAssumption DEF UInt
  <2> QED BY <1>2, <2>1, <2>2 DEF NbTypeOK
<1>4. Ascending
  BY <1>1, <1>2 DEF Ascending
<1> QED BY <1>3, <1>4 DEF NbIInv

\* Every step keeps it: a number goes to the end of the queue above all in it.
LEMMA NextNbIInv == NbIInv /\ [Nonblock!NNext]_nbVars => NbIInv'
<1> SUFFICES ASSUME NbIInv, [Nonblock!NNext]_nbVars PROVE NbIInv'
  OBVIOUS
<1> USE ThreadAssumption, UIntAssumption
        DEF NbIInv, Threads, UInt, Nonblock!Goto
<1>1. CASE Nonblock!NCount
  <2>1. /\ nbPc[Writer] = "check" /\ nbPc' = [nbPc EXCEPT ![Writer] = "send"]
        /\ nbCounter' = IF nbCounter = UIntMax THEN 0 ELSE nbCounter + 1
        /\ nbWrapped' = (nbWrapped \/ nbCounter' = 0)
        /\ UNCHANGED <<nbQueue, nbLast>>
    BY <1>1 DEF Nonblock!NCount, Nonblock!Inc
  <2>2. NbTypeOK'
    <3>1. nbCounter' \in UInt
      BY <2>1 DEF NbTypeOK
    <3> QED BY <2>1, <3>1 DEF NbTypeOK
  <2>3. ASSUME ~nbWrapped' PROVE ~nbWrapped /\ nbCounter' = nbCounter + 1
    BY <2>1, <2>3
  <2>4. Ascending'
    BY <2>1, <2>3 DEF NbTypeOK, Ascending
  <2> QED BY <2>2, <2>4
<1>2. CASE Nonblock!NSend
  <2>1. nbPc[Writer] = "send" /\ nbPc' = [nbPc EXCEPT ![Writer] = "test"]
        /\ UNCHANGED <<nbCounter, nbLast, nbWrapped>>
    BY <1>2 DEF Nonblock!NSend
  <2>2. CASE UNCHANGED nbQueue
    BY <2>1, <2>2 DEF NbTypeOK, Ascending
  <2>3. CASE nbQueue' = Append(nbQueue, nbCounter)
    <3>0. nbCounter \in Nat /\ nbQueue \in Seq(Nat)
      BY DEF NbTypeOK
    <3>1. /\ nbQueue' \in Seq(Nat) /\ Len(nbQueue') = Len(nbQueue) + 1
          /\ \A i \in 1 .. Len(nbQueue) : nbQueue'[i] = nbQueue[i]
          /\ nbQueue'[Len(nbQueue) + 1] = nbCounter
      BY <2>3, <3>0
    <3>2. NbTypeOK'
      BY <2>1, <3>1 DEF NbTypeOK
    <3>3. nbPc'[Writer] = "test"
      BY <2>1 DEF NbTypeOK
    <3>4. ASSUME ~nbWrapped' PROVE
            /\ \A i \in 1 .. Len(nbQueue') : nbLast < nbQueue'[i] /\ nbQueue'[i] <= nbCounter
            /\ \A i, j \in 1 .. Len(nbQueue') : i < j => nbQueue'[i] < nbQueue'[j]
      <4>1. /\ \A i \in 1 .. Len(nbQueue) : nbLast < nbQueue[i] /\ nbQueue[i] < nbCounter
            /\ \A i, j \in 1 .. Len(nbQueue) : i < j => nbQueue[i] < nbQueue[j]
            /\ nbLast < nbCounter
        BY <2>1, <3>4 DEF Ascending
      <4>2. \A i \in 1 .. Len(nbQueue') : i \in 1 .. Len(nbQueue) \/ i = Len(nbQueue) + 1
        BY <3>1
      <4>3. ASSUME NEW i \in 1 .. Len(nbQueue')
            PROVE  nbLast < nbQueue'[i] /\ nbQueue'[i] <= nbCounter
        <5>1. CASE i = Len(nbQueue) + 1
          BY <3>0, <3>1, <4>1, <5>1
        <5>2. CASE i \in 1 .. Len(nbQueue)
          <6>1. nbQueue'[i] = nbQueue[i] /\ nbQueue[i] \in Nat
            BY <3>0, <3>1, <5>2
          <6> QED BY <3>0, <4>1, <5>2, <6>1
        <5> QED BY <4>2, <5>1, <5>2
      <4>4. ASSUME NEW i \in 1 .. Len(nbQueue'), NEW j \in 1 .. Len(nbQueue'), i < j
            PROVE  nbQueue'[i] < nbQueue'[j]
        <5>1. i \in 1 .. Len(nbQueue) /\ nbQueue'[i] = nbQueue[i]
          <6>1. i \in 1 .. Len(nbQueue)
            BY <3>0, <3>1, <4>4
          <6> QED BY <3>0, <3>1, <6>1
        <5> QED BY <3>1, <4>1, <4>2, <4>4, <5>1
      <4> QED BY <4>3, <4>4
    <3>5. Ascending'
      BY <2>1, <3>3, <3>4 DEF Ascending
    <3> QED BY <3>2, <3>5
  <2> QED BY <1>2, <2>2, <2>3 DEF Nonblock!NSend, Nonblock!MqSend
<1>3. CASE Nonblock!NReport
  BY <1>3 DEF Nonblock!NReport, NbTypeOK, Ascending
<1>4. ASSUME NEW r \in Readers, Nonblock!RReceive(r), UNCHANGED nbWrapped PROVE NbIInv'
  <2>1. /\ nbQueue # <<>> /\ nbQueue' = Tail(nbQueue) /\ nbLast' = Head(nbQueue)
        /\ nbPc' = [nbPc EXCEPT ![r] = "print"] /\ UNCHANGED <<nbCounter, nbWrapped>>
    BY <1>4 DEF Nonblock!RReceive, Nonblock!MqReceive
  <2>2. /\ nbQueue' \in Seq(Nat) /\ Len(nbQueue') = Len(nbQueue) - 1 /\ nbLast' = nbQueue[1]
        /\ Len(nbQueue) >= 1 /\ nbLast' \in Nat
        /\ \A i \in 1 .. Len(nbQueue') : nbQueue'[i] = nbQueue[i + 1]
    BY <2>1 DEF NbTypeOK
  <2>3. NbTypeOK'
    BY <2>1, <2>2 DEF NbTypeOK
  <2>4. nbPc'[Writer] = nbPc[Writer]
    BY <2>1 DEF NbTypeOK
  <2>5. Ascending'
    BY <2>1, <2>2, <2>4 DEF Ascending, NbTypeOK
  <2> QED BY <2>3, <2>5
<1>5. ASSUME NEW r \in Readers, Nonblock!RPrint(r), UNCHANGED nbWrapped PROVE NbIInv'
  BY <1>5 DEF Nonblock!RPrint, NbTypeOK, Ascending
<1>6. CASE Nonblock!NRestart
  <2>1. Nonblock!NInit'
    BY <1>6
       DEF Nonblock!NRestart, Nonblock!Restart, Nonblock!Rerun, Nonblock!NInit,
           Nonblock!Init
  <2>2. nbQueue' = <<>> /\ nbCounter' = 0 /\ nbLast' = 0 /\ nbWrapped' = FALSE
    BY <1>6 DEF Nonblock!NRestart, Nonblock!Restart, Nonblock!Rerun
  <2>3. nbPc' \in [Threads -> {"check", "test", "send", "receive", "print"}]
        /\ nbPc'[Writer] = "check"
    BY <1>6
       DEF Nonblock!NRestart, Nonblock!Restart, Nonblock!Rerun, Nonblock!StartPC,
           Nonblock!Threads
  <2>4. nbQueue' \in Seq(Nat)
    BY <2>2
  <2>5. NbTypeOK'
    BY <2>2, <2>3, <2>4 DEF NbTypeOK
  <2>6. Ascending'
    BY <2>2, <2>3 DEF Ascending
  <2> QED BY <2>5, <2>6
<1>7. CASE UNCHANGED nbVars
  BY <1>7 DEF nbVars, NbTypeOK, Ascending
<1> QED BY <1>1, <1>2, <1>3, <1>4, <1>5, <1>6, <1>7
        DEF Nonblock!NNext, Nonblock!NWriterStep, Nonblock!NReaderStep, Nonblock!ReaderStep

\* What the queue of mq_withoverflow_nonblock.c delivers ascends, however many
\* numbers a full queue has refused.
THEOREM Ascends == QFairSpec => []NonblockAscends
<1>1. QInit => NbIInv
  BY InitNbIInv DEF QInit
<1>2. NbIInv /\ [QNext]_qVars => NbIInv'
  BY NextNbIInv DEF QNext, qVars
<1>3. NbIInv => NonblockAscends
  <2> SUFFICES ASSUME NbIInv, ~nbWrapped PROVE NonblockAscends
    BY DEF NonblockAscends, Nonblock!DeliversAscending
  <2> DEFINE sequence == <<nbLast>> \o nbQueue
  <2>1. /\ Len(sequence) = Len(nbQueue) + 1 /\ sequence[1] = nbLast
        /\ \A i \in 1 .. Len(nbQueue) : sequence[i + 1] = nbQueue[i]
    BY DEF NbIInv, NbTypeOK
  <2> HIDE DEF sequence
  <2>2. \A i \in 1 .. Len(nbQueue) : sequence[i] < sequence[i + 1]
    <3> SUFFICES ASSUME NEW i \in 1 .. Len(nbQueue) PROVE sequence[i] < sequence[i + 1]
      OBVIOUS
    <3>1. CASE i = 1
      BY <2>1, <3>1 DEF NbIInv, Ascending
    <3>2. CASE i # 1
      <4>1. i - 1 \in 1 .. Len(nbQueue) /\ (i - 1) + 1 = i /\ i - 1 < i
        BY <3>2
      <4>2. sequence[i] = nbQueue[i - 1] /\ sequence[i + 1] = nbQueue[i]
        BY <2>1, <4>1
      <4> QED BY <4>1, <4>2 DEF NbIInv, Ascending
    <3> QED BY <3>1, <3>2
  <2>3. sequence[Len(sequence)] <= nbCounter
    BY <2>1 DEF NbIInv, NbTypeOK, Ascending
  <2> QED BY <2>2, <2>3 DEF sequence, NonblockAscends, Nonblock!DeliversAscending
<1> QED BY <1>1, <1>2, <1>3, PTL DEF QFairSpec

-----------------------------------------------------------------------------
(* mq_ipc_vfork_*.c: a reader prints the number after the last one. *)

TqMessages == [type : {"UINT", "FLOAT"}, data : Nat]

TqTypeOK ==
  /\ tqQueue \in Seq(TqMessages) /\ tqCounter \in Nat /\ tqLast \in Nat
  /\ tqPc \in [Threads -> {"check", "test", "send", "receive", "print"}]

\* The number a reader will make of the last message, or has made of the latest.
TqFinal == IF Len(tqQueue) = 0 THEN tqLast ELSE TqDecode(tqQueue[Len(tqQueue)])

\* Each message is one half after the one before, and the writer's number one
\* half after the last, once it has counted.
TqLinked ==
  /\ Len(tqQueue) > 0 => TqDecode(tqQueue[1]) = FloatInc(tqLast)
  /\ \A i \in 1 .. Len(tqQueue) - 1 :
       TqDecode(tqQueue[i + 1]) = FloatInc(TqDecode(tqQueue[i]))
  /\ tqCounter = IF tqPc[Writer] = "send" THEN FloatInc(TqFinal) ELSE TqFinal

TqIInv == TqTypeOK /\ TqLinked

TqStep == TqWriter \/ \E r \in Readers : TqReader(r)

\* A number is encoded as a message from which the number can be made.
LEMMA Encoding == \A h \in Nat : TqEncode(h) \in TqMessages /\ TqDecode(TqEncode(h)) = h
<1> SUFFICES ASSUME NEW h \in Nat
             PROVE  TqEncode(h) \in TqMessages /\ TqDecode(TqEncode(h)) = h
  OBVIOUS
<1>1. CASE h % 2 = 0
  <2>1. h \div 2 \in Nat /\ 2 * (h \div 2) = h
    BY <1>1
  <2> QED BY <1>1, <2>1 DEF TqEncode, TqDecode, TqMessages
<1>2. CASE h % 2 # 0
  BY <1>2 DEF TqEncode, TqDecode, TqMessages
<1> QED BY <1>1, <1>2

\* What a message stands for, and the next number, are numbers.
LEMMA Numbers ==
  /\ \A m \in TqMessages : TqDecode(m) \in Nat
  /\ \A h \in Nat : FloatInc(h) \in Nat
  BY DEF TqMessages, TqDecode, FloatInc

\* The invariant holds initially.
LEMMA InitTqIInv == TqInit => TqIInv
<1> SUFFICES ASSUME TqInit PROVE TqIInv
  OBVIOUS
<1>1. tqQueue = <<>> /\ tqCounter = 0 /\ tqLast = 0
  BY DEF TqInit
<1>2. tqPc \in [Threads -> {"check", "test", "send", "receive", "print"}]
      /\ tqPc[Writer] = "check"
  BY DEF TqInit, StartPC, Threads
<1>3. TqTypeOK
  BY <1>1, <1>2 DEF TqTypeOK
<1> QED BY <1>1, <1>2, <1>3 DEF TqIInv, TqLinked, TqFinal

\* A message sent is linked to the last one.
LEMMA SendTqIInv == TqIInv /\ TqSend => TqIInv'
<1> SUFFICES ASSUME TqIInv, TqSend PROVE TqIInv'
  OBVIOUS
<1> DEFINE m == TqEncode(tqCounter)
<1>1. /\ tqPc[Writer] = "send" /\ tqPc' = [tqPc EXCEPT ![Writer] = "check"]
      /\ tqQueue' = Append(tqQueue, m) /\ UNCHANGED <<tqCounter, tqLast>>
  BY DEF TqSend, TqGoto, Mq!MqSend
<1>2. m \in TqMessages /\ TqDecode(m) = tqCounter
  BY Encoding DEF TqIInv, TqTypeOK
<1> HIDE DEF m
<1>3. /\ tqQueue' \in Seq(TqMessages) /\ Len(tqQueue') = Len(tqQueue) + 1
      /\ \A i \in 1 .. Len(tqQueue) : tqQueue'[i] = tqQueue[i]
      /\ tqQueue'[Len(tqQueue) + 1] = m /\ Len(tqQueue) \in Nat
  BY <1>1, <1>2 DEF TqIInv, TqTypeOK
<1>4. TqTypeOK' /\ tqPc'[Writer] = "check"
  BY <1>1, <1>3, ThreadAssumption DEF TqIInv, TqTypeOK, Threads
<1>5. tqCounter = FloatInc(TqFinal)
  BY <1>1 DEF TqIInv, TqLinked
<1>6. TqDecode(tqQueue'[1]) = FloatInc(tqLast)
  <2>1. CASE Len(tqQueue) = 0
    BY <1>2, <1>3, <1>5, <2>1 DEF TqFinal
  <2>2. CASE Len(tqQueue) > 0
    BY <1>3, <2>2 DEF TqIInv, TqTypeOK, TqLinked
  <2> QED BY <1>3, <2>1, <2>2
<1>7. ASSUME NEW i \in 1 .. Len(tqQueue') - 1
      PROVE  TqDecode(tqQueue'[i + 1]) = FloatInc(TqDecode(tqQueue'[i]))
  <2>1. Len(tqQueue) \in Nat
    BY DEF TqIInv, TqTypeOK
  <2>2. CASE i = Len(tqQueue)
    <3>1. Len(tqQueue) > 0 /\ tqQueue'[i] = tqQueue[i]
      BY <1>3, <2>1, <2>2
    <3> QED BY <1>2, <1>3, <1>5, <2>2, <3>1 DEF TqFinal
  <2>3. CASE i # Len(tqQueue)
    <3>1. i \in 1 .. Len(tqQueue) - 1 /\ i \in 1 .. Len(tqQueue) /\ i + 1 \in 1 .. Len(tqQueue)
      BY <1>3, <2>1, <2>3
    <3> QED BY <1>3, <3>1 DEF TqIInv, TqLinked
  <2> QED BY <2>2, <2>3
<1>8. TqFinal' = tqCounter'
  BY <1>1, <1>2, <1>3 DEF TqFinal
<1> QED BY <1>1, <1>4, <1>6, <1>7, <1>8 DEF TqIInv, TqLinked

\* A message received is one half after the one received before.
LEMMA ReceiveTqIInv ==
  ASSUME NEW r \in Readers, TqIInv, TqReceive(r)
  PROVE  TqIInv' /\ tqLast' = FloatInc(tqLast)
<1>1. /\ tqQueue # <<>> /\ tqQueue' = Tail(tqQueue) /\ tqLast' = TqDecode(Head(tqQueue))
      /\ tqPc' = [tqPc EXCEPT ![r] = "print"] /\ UNCHANGED tqCounter
  BY DEF TqReceive, TqGoto, Mq!MqReceive
<1>2. /\ tqQueue' \in Seq(TqMessages) /\ Len(tqQueue') = Len(tqQueue) - 1
      /\ Len(tqQueue) \in Nat \ {0} /\ tqQueue[1] \in TqMessages
      /\ \A i \in 1 .. Len(tqQueue') : tqQueue'[i] = tqQueue[i + 1]
      /\ tqLast' = TqDecode(tqQueue[1])
  <2>1. tqQueue \in Seq(TqMessages) /\ tqQueue # <<>>
    BY <1>1 DEF TqIInv, TqTypeOK
  <2>2. /\ Tail(tqQueue) \in Seq(TqMessages) /\ Len(Tail(tqQueue)) = Len(tqQueue) - 1
        /\ Len(tqQueue) \in Nat \ {0} /\ Head(tqQueue) = tqQueue[1]
        /\ tqQueue[1] \in TqMessages
    BY <2>1
  <2>3. \A i \in 1 .. Len(Tail(tqQueue)) : Tail(tqQueue)[i] = tqQueue[i + 1]
    BY <2>1
  <2> QED BY <1>1, <2>2, <2>3
<1>3. tqLast' = FloatInc(tqLast)
  BY <1>1, <1>2 DEF TqIInv, TqLinked
<1>4. TqTypeOK'
  BY <1>1, <1>2, Numbers DEF TqIInv, TqTypeOK
<1>5. tqPc'[Writer] = tqPc[Writer]
  BY <1>1, ThreadAssumption DEF TqIInv, TqTypeOK, Threads
<1>6. TqFinal' = TqFinal
  <2>1. CASE Len(tqQueue) = 1
    BY <1>1, <1>2, <2>1 DEF TqFinal
  <2>2. CASE Len(tqQueue) # 1
    <3>1. Len(tqQueue') # 0 /\ tqQueue'[Len(tqQueue')] = tqQueue[Len(tqQueue)]
      BY <1>2, <2>2
    <3> QED BY <1>1, <1>2, <3>1 DEF TqFinal
  <2> QED BY <2>1, <2>2
<1>7. Len(tqQueue') > 0 => TqDecode(tqQueue'[1]) = FloatInc(tqLast')
  <2> HAVE Len(tqQueue') > 0
  <2>1. 1 \in 1 .. Len(tqQueue) - 1 /\ tqQueue'[1] = tqQueue[1 + 1]
    BY <1>2
  <2> QED BY <1>2, <2>1 DEF TqIInv, TqLinked
<1>8. ASSUME NEW i \in 1 .. Len(tqQueue') - 1
      PROVE  TqDecode(tqQueue'[i + 1]) = FloatInc(TqDecode(tqQueue'[i]))
  <2>1. /\ i + 1 \in 1 .. Len(tqQueue) - 1
        /\ tqQueue'[i] = tqQueue[i + 1] /\ tqQueue'[i + 1] = tqQueue[(i + 1) + 1]
    BY <1>2
  <2> QED BY <2>1 DEF TqIInv, TqLinked
<1> QED BY <1>1, <1>3, <1>4, <1>5, <1>6, <1>7, <1>8 DEF TqIInv, TqLinked

\* Every step keeps the invariant.
LEMMA NextTqIInv == TqIInv /\ [TqStep]_tqVars => TqIInv'
<1> SUFFICES ASSUME TqIInv, [TqStep]_tqVars PROVE TqIInv'
  OBVIOUS
<1> USE ThreadAssumption DEF TqIInv, Threads, TqGoto
<1>1. CASE TqWGetAttr
  BY <1>1 DEF TqWGetAttr, TqTypeOK, TqLinked, TqFinal
<1>2. CASE TqTest
  <2>1. tqPc[Writer] = "test" /\ UNCHANGED <<tqQueue, tqLast>> /\ UNCHANGED TqFinal
    BY <1>2 DEF TqTest, TqFinal
  <2>2. CASE tqPc' = [tqPc EXCEPT ![Writer] = "check"] /\ UNCHANGED tqCounter
    BY <2>1, <2>2 DEF TqTypeOK, TqLinked
  <2>3. CASE tqPc' = [tqPc EXCEPT ![Writer] = "send"] /\ tqCounter' = FloatInc(tqCounter)
    BY <2>1, <2>3, Numbers DEF TqTypeOK, TqLinked
  <2> QED BY <1>2, <2>2, <2>3 DEF TqTest
<1>3. CASE TqSend
  BY <1>3, SendTqIInv
<1>4. ASSUME NEW r \in Readers, TqReceive(r) PROVE TqIInv'
  BY <1>4, ReceiveTqIInv
<1>5. ASSUME NEW r \in Readers, TqPrint(r) PROVE TqIInv'
  BY <1>5 DEF TqPrint, TqTypeOK, TqLinked, TqFinal
<1>6. CASE UNCHANGED tqVars
  BY <1>6 DEF tqVars, TqTypeOK, TqLinked, TqFinal
<1> QED BY <1>1, <1>2, <1>3, <1>4, <1>5, <1>6 DEF TqStep, TqWriter, TqReader

\* No number is lost or taken for the other type between the readers of
\* mq_ipc_vfork_*.c: what one makes of a message comes one half after what was made
\* of the message before, by whichever reader.
THEOREM Chained == QFairSpec => TqChain
<1>1. QInit => TqIInv
  BY InitTqIInv DEF QInit, LnInit
<1>2. [QNext]_qVars => [TqStep]_tqVars
  BY DEF QNext, qVars, lnAllVars, LnNext, LnLaunch, LnPause, LnFork, LnVfork, LnExec,
         LnBecomes, LnWriter, LnReader, LnRestart, TqStep
<1>3. TqIInv /\ [QNext]_qVars => TqIInv'
  BY <1>2, NextTqIInv
<1>4. TqIInv /\ [QNext]_qVars =>
        [\A r \in Readers : TqReceive(r) => tqLast' = FloatInc(tqLast)]_tqVars
  BY ReceiveTqIInv
<1> QED BY <1>1, <1>3, <1>4, PTL DEF QFairSpec, TqChain

-----------------------------------------------------------------------------
(* mq.c: an ordered delivery of what a run sends. *)

PqMessages == [ours : BOOLEAN, index : Nat]

PqSent == IF pqWpc = "send" THEN pqWindex - 1 ELSE pqWindex
PqDelivered == IF pqRmsg.ours THEN pqRmsg.index ELSE 0
PqUnderWay == Cardinality({i \in DOMAIN pqQueue : pqQueue[i].ours})

PqTypeOK ==
  /\ pqQueue \in Seq(PqMessages) /\ Len(pqQueue) <= MaxMsgs
  /\ pqWpc \in {"count", "send"} /\ pqWindex \in 0 .. PlainMax
  /\ PqSent \in Nat /\ PqDelivered \in Nat

\* The first k messages of the queue are of earlier runs; the others of this
\* run, numbered up to the one sent last.  Nothing of this run is received
\* before the last of the earlier runs.
PqSplit(k) ==
  /\ \A i \in 1 .. k : ~pqQueue[i].ours
  /\ \A i \in k + 1 .. Len(pqQueue) :
       pqQueue[i].ours /\ pqQueue[i].index = PqSent - (Len(pqQueue) - i)
  /\ PqDelivered = PqSent - (Len(pqQueue) - k)
  /\ k > 0 => PqDelivered = 0

PqIInv == PqTypeOK /\ \E k \in 0 .. Len(pqQueue) : PqSplit(k)

\* What is under way has been sent and not delivered.
PqCount == PqUnderWay \in 0 .. Len(pqQueue) /\ PqSent = PqDelivered + PqUnderWay

\* The messages of this run in the queue are the ones after the split.
LEMMA Counted == PqIInv => PqCount
<1> SUFFICES ASSUME PqIInv PROVE PqCount
  OBVIOUS
<1>1. PICK k \in 0 .. Len(pqQueue) : PqSplit(k)
  BY DEF PqIInv
<1>2. Len(pqQueue) \in Nat /\ DOMAIN pqQueue = 1 .. Len(pqQueue)
  BY DEF PqIInv, PqTypeOK
<1>3. {i \in DOMAIN pqQueue : pqQueue[i].ours} = k + 1 .. Len(pqQueue)
  <2>1. ASSUME NEW i \in 1 .. Len(pqQueue)
        PROVE  pqQueue[i].ours <=> i \in k + 1 .. Len(pqQueue)
    <3>1. CASE i \in 1 .. k
      BY <1>1, <1>2, <3>1 DEF PqSplit
    <3>2. CASE i \in k + 1 .. Len(pqQueue)
      BY <1>1, <3>2 DEF PqSplit
    <3> QED BY <1>2, <3>1, <3>2
  <2> QED BY <1>2, <2>1
<1>4. Cardinality(k + 1 .. Len(pqQueue)) = Len(pqQueue) - k
  <2>1. k + 1 \in Int /\ Len(pqQueue) \in Int
    BY <1>2
  <2>2. Cardinality(k + 1 .. Len(pqQueue)) =
          IF k + 1 > Len(pqQueue) THEN 0 ELSE Len(pqQueue) - (k + 1) + 1
    BY <2>1, FS_Interval
  <2> QED BY <1>2, <2>2
<1>5. PqUnderWay = Len(pqQueue) - k
  BY <1>3, <1>4 DEF PqUnderWay
<1>6. PqDelivered = PqSent - (Len(pqQueue) - k) /\ PqSent \in Nat /\ PqDelivered \in Nat
  BY <1>1 DEF PqSplit, PqIInv, PqTypeOK
<1> QED BY <1>2, <1>5, <1>6 DEF PqCount

\* The invariant holds initially.
LEMMA InitPqIInv == Plain!Init => PqIInv
<1> SUFFICES ASSUME Plain!Init PROVE PqIInv
  OBVIOUS
<1>1. pqQueue = <<>> /\ pqWpc = "count" /\ pqWindex = 0 /\ PqSent = 0 /\ PqDelivered = 0
  BY DEF Plain!Init, Plain!NoMessage, PqSent, PqDelivered
<1>2. PqTypeOK
  BY <1>1, PlainAssumption, MaxMsgsAssumption DEF PqTypeOK
<1>3. PICK k \in 0 .. Len(pqQueue) : k = 0
  BY <1>1
<1>4. PqSplit(k)
  <2>1. /\ \A i \in 1 .. k : ~pqQueue[i].ours
        /\ \A i \in k + 1 .. Len(pqQueue) :
             pqQueue[i].ours /\ pqQueue[i].index = PqSent - (Len(pqQueue) - i)
    <3>1. 1 .. k = {} /\ k + 1 .. Len(pqQueue) = {}
      BY <1>1, <1>3
    <3> QED BY <3>1
  <2>2. PqDelivered = PqSent - (Len(pqQueue) - k) /\ ~(k > 0)
    <3>1. Len(pqQueue) = 0 /\ PqSent = 0 /\ PqDelivered = 0 /\ k = 0
      BY <1>1, <1>3
    <3> QED BY <3>1
  <2> QED BY <2>1, <2>2 DEF PqSplit
<1> QED BY <1>2, <1>4 DEF PqIInv

LEMMA SendPqIInv ==
  PqIInv /\ Plain!WSend => PqIInv' /\ PqSent' = PqSent + 1 /\ PqSent < PlainMax
<1> SUFFICES ASSUME PqIInv, Plain!WSend
             PROVE  PqIInv' /\ PqSent' = PqSent + 1 /\ PqSent < PlainMax
  OBVIOUS
<1> DEFINE m == [ours |-> TRUE, index |-> pqWindex]
<1>1. /\ pqWpc = "send" /\ pqWpc' = "count" /\ pqQueue' = Append(pqQueue, m)
      /\ ~(Len(pqQueue) >= MaxMsgs) /\ UNCHANGED <<pqWindex, pqRmsg>>
  BY DEF Plain!WSend, Plain!MqSend, Plain!MqIsFull
<1>2. /\ pqWindex \in Nat /\ PqSent = pqWindex - 1
      /\ PqSent' = pqWindex /\ PqDelivered' = PqDelivered
      /\ pqWindex <= PlainMax /\ PlainMax \in Nat
  BY <1>1, PlainAssumption DEF PqIInv, PqTypeOK, PqSent, PqDelivered
<1>3. m \in PqMessages /\ m.ours /\ m.index = pqWindex
  BY <1>2 DEF PqMessages
<1> HIDE DEF m
<1>4. /\ pqQueue' \in Seq(PqMessages) /\ Len(pqQueue') = Len(pqQueue) + 1
      /\ Len(pqQueue) \in Nat
      /\ \A i \in 1 .. Len(pqQueue) : pqQueue'[i] = pqQueue[i]
      /\ pqQueue'[Len(pqQueue) + 1] = m
  BY <1>1, <1>3 DEF PqIInv, PqTypeOK
<1>5. PqTypeOK'
  BY <1>1, <1>2, <1>4, MaxMsgsAssumption DEF PqIInv, PqTypeOK
<1>6. PICK k \in 0 .. Len(pqQueue) : PqSplit(k)
  BY DEF PqIInv
<1>7. PqSplit(k)'
  <2>1. \A i \in 1 .. k : ~pqQueue'[i].ours
    BY <1>4, <1>6 DEF PqSplit
  <2>2. ASSUME NEW i \in k + 1 .. Len(pqQueue')
        PROVE  pqQueue'[i].ours /\ pqQueue'[i].index = PqSent' - (Len(pqQueue') - i)
    <3>1. CASE i = Len(pqQueue) + 1
      BY <1>2, <1>3, <1>4, <3>1
    <3>2. CASE i # Len(pqQueue) + 1
      <4>1. i \in 1 .. Len(pqQueue) /\ i \in k + 1 .. Len(pqQueue)
        BY <1>4, <3>2
      <4>2. pqQueue'[i] = pqQueue[i]
        BY <1>4, <4>1
      <4>3. pqQueue[i].ours /\ pqQueue[i].index = PqSent - (Len(pqQueue) - i)
        BY <1>6, <4>1 DEF PqSplit
      <4> QED BY <1>2, <1>4, <4>2, <4>3
    <3> QED BY <3>1, <3>2
  <2>3. PqDelivered' = PqSent' - (Len(pqQueue') - k) /\ (k > 0 => PqDelivered' = 0)
    BY <1>2, <1>4, <1>6 DEF PqSplit
  <2> QED BY <2>1, <2>2, <2>3 DEF PqSplit
<1>8. k \in 0 .. Len(pqQueue')
  BY <1>4
<1> QED BY <1>2, <1>5, <1>7, <1>8 DEF PqIInv

\* A message received is one of an earlier run, or the next of this run.
LEMMA ReceivePqIInv ==
  PqIInv /\ Plain!RReceive =>
    PqIInv' /\ PqSent' = PqSent /\ PqDelivered' \in {PqDelivered, PqDelivered + 1}
<1> SUFFICES ASSUME PqIInv, Plain!RReceive
             PROVE  /\ PqIInv' /\ PqSent' = PqSent
                    /\ PqDelivered' \in {PqDelivered, PqDelivered + 1}
  OBVIOUS
<1>1. /\ pqQueue # <<>> /\ pqQueue' = Tail(pqQueue) /\ pqRmsg' = Head(pqQueue)
      /\ UNCHANGED <<pqWpc, pqWindex>>
  BY DEF Plain!RReceive, Plain!MqReceive
<1>2. /\ pqQueue' \in Seq(PqMessages) /\ Len(pqQueue') = Len(pqQueue) - 1
      /\ Len(pqQueue) \in Nat \ {0} /\ pqRmsg' = pqQueue[1] /\ pqQueue[1] \in PqMessages
      /\ \A i \in 1 .. Len(pqQueue') : pqQueue'[i] = pqQueue[i + 1]
  BY <1>1 DEF PqIInv, PqTypeOK
<1>3. PqSent' = PqSent /\ PqSent \in Nat /\ PqTypeOK'
  <2>1. PqSent' = PqSent /\ PqSent \in Nat
    BY <1>1 DEF PqIInv, PqTypeOK, PqSent
  <2>2. PqDelivered' \in Nat
    BY <1>2 DEF PqDelivered, PqMessages
  <2> QED BY <1>1, <1>2, <2>1, <2>2, MaxMsgsAssumption DEF PqIInv, PqTypeOK
<1>4. PICK k \in 0 .. Len(pqQueue) : PqSplit(k)
  BY DEF PqIInv
<1>5. ASSUME NEW j \in 0 .. Len(pqQueue'), j + 1 = k \/ (j = 0 /\ k = 0)
      PROVE  /\ \A i \in 1 .. j : ~pqQueue'[i].ours
             /\ \A i \in j + 1 .. Len(pqQueue') :
                  pqQueue'[i].ours /\ pqQueue'[i].index = PqSent' - (Len(pqQueue') - i)
  <2>1. \A i \in 1 .. j : i + 1 \in 1 .. k /\ pqQueue'[i] = pqQueue[i + 1]
    BY <1>2, <1>5
  <2>2. ASSUME NEW i \in j + 1 .. Len(pqQueue')
        PROVE  pqQueue'[i].ours /\ pqQueue'[i].index = PqSent' - (Len(pqQueue') - i)
    <3>1. i + 1 \in k + 1 .. Len(pqQueue) /\ pqQueue'[i] = pqQueue[i + 1]
      BY <1>2, <1>5
    <3>2. pqQueue[i + 1].ours /\ pqQueue[i + 1].index = PqSent - (Len(pqQueue) - (i + 1))
      BY <1>4, <3>1 DEF PqSplit
    <3> QED BY <1>2, <1>3, <3>1, <3>2
  <2> QED BY <1>4, <2>1, <2>2 DEF PqSplit
<1>6. CASE k = 0
  <2>1. pqQueue[1].ours /\ pqQueue[1].index = PqSent - (Len(pqQueue) - 1)
    BY <1>2, <1>4, <1>6 DEF PqSplit
  <2>2. PqDelivered' = PqSent - (Len(pqQueue) - 1) /\ PqDelivered = PqSent - (Len(pqQueue) - 0)
    BY <1>2, <1>4, <1>6, <2>1 DEF PqDelivered, PqSplit
  <2>3. k \in 0 .. Len(pqQueue')
    BY <1>2, <1>6
  <2>4. PqDelivered' = PqSent' - (Len(pqQueue') - k) /\ (k > 0 => PqDelivered' = 0)
    BY <1>2, <1>3, <1>6, <2>2
  <2>5. PqSplit(k)'
    BY <1>5, <1>6, <2>3, <2>4 DEF PqSplit
  <2> QED BY <1>2, <1>3, <2>2, <2>3, <2>5 DEF PqIInv
<1>7. CASE k > 0
  <2>1. ~pqQueue[1].ours /\ PqDelivered = 0 /\ PqDelivered = PqSent - (Len(pqQueue) - k)
    BY <1>4, <1>7 DEF PqSplit
  <2>2. PqDelivered' = 0
    BY <1>2, <2>1 DEF PqDelivered
  <2>3. PICK j \in 0 .. Len(pqQueue') : j + 1 = k
    BY <1>2, <1>7
  <2>4. PqDelivered' = PqSent' - (Len(pqQueue') - j) /\ (j > 0 => PqDelivered' = 0)
    BY <1>2, <1>3, <2>1, <2>2, <2>3
  <2>5. /\ \A i \in 1 .. j : ~pqQueue'[i].ours
        /\ \A i \in j + 1 .. Len(pqQueue') :
             pqQueue'[i].ours /\ pqQueue'[i].index = PqSent' - (Len(pqQueue') - i)
    BY <1>5, <2>3
  <2>6. PqSplit(j)'
    BY <2>4, <2>5 DEF PqSplit
  <2> QED BY <1>3, <2>1, <2>2, <2>3, <2>6 DEF PqIInv
<1> QED BY <1>6, <1>7

\* A new run finds what is in the queue as messages of earlier runs.
LEMMA RestartPqIInv == PqIInv /\ Plain!Restart => PqIInv' /\ PqSent' = 0 /\ PqDelivered' = 0
<1> SUFFICES ASSUME PqIInv, Plain!Restart
             PROVE  PqIInv' /\ PqSent' = 0 /\ PqDelivered' = 0
  OBVIOUS
<1>1. /\ pqQueue' = [i \in DOMAIN pqQueue |-> [pqQueue[i] EXCEPT !.ours = FALSE]]
      /\ pqWpc' = "count" /\ pqWindex' = 0
  BY DEF Plain!Restart
<1>2. PqSent' = 0 /\ PqDelivered' = 0
  BY DEF Plain!Restart, Plain!NoMessage, PqSent, PqDelivered
<1>3. pqQueue \in Seq(PqMessages) /\ DOMAIN pqQueue = 1 .. Len(pqQueue) /\ Len(pqQueue) \in Nat
  BY DEF PqIInv, PqTypeOK
<1>4. \A i \in 1 .. Len(pqQueue) :
        ~pqQueue'[i].ours /\ pqQueue'[i] \in PqMessages
  <2> SUFFICES ASSUME NEW i \in 1 .. Len(pqQueue)
               PROVE  ~pqQueue'[i].ours /\ pqQueue'[i] \in PqMessages
    OBVIOUS
  <2>1. pqQueue'[i] = [pqQueue[i] EXCEPT !.ours = FALSE] /\ pqQueue[i] \in PqMessages
    BY <1>1, <1>3
  <2> QED BY <2>1 DEF PqMessages
<1>5. pqQueue' \in Seq(PqMessages) /\ Len(pqQueue') = Len(pqQueue)
  BY <1>1, <1>3, <1>4
<1>6. PqTypeOK'
  BY <1>1, <1>2, <1>5, PlainAssumption DEF PqIInv, PqTypeOK
<1>7. PICK k \in 0 .. Len(pqQueue') : k = Len(pqQueue)
  <2>1. Len(pqQueue) \in 0 .. Len(pqQueue')
    BY <1>3, <1>5
  <2> QED BY <2>1
<1>8. PqSplit(k)'
  <2>1. (\A i \in k + 1 .. Len(pqQueue') : FALSE) /\ PqDelivered' = PqSent' - (Len(pqQueue') - k)
    BY <1>2, <1>3, <1>5, <1>7
  <2> QED BY <1>2, <1>4, <1>7, <2>1 DEF PqSplit
<1> QED BY <1>2, <1>6, <1>7, <1>8 DEF PqIInv

\* Every step keeps the invariant.
LEMMA NextPqIInv == PqIInv /\ [Plain!Next]_pqVars => PqIInv'
<1> SUFFICES ASSUME PqIInv, [Plain!Next]_pqVars PROVE PqIInv'
  OBVIOUS
<1>1. CASE Plain!WCount
  <2>1. PqSent' = PqSent /\ PqDelivered' = PqDelivered /\ pqQueue' = pqQueue
    BY <1>1 DEF Plain!WCount, PqSent, PqDelivered, PqIInv, PqTypeOK
  <2>2. PqTypeOK'
    BY <1>1, <2>1, PlainAssumption DEF Plain!WCount, PqIInv, PqTypeOK
  <2> QED BY <2>1, <2>2 DEF PqIInv, PqSplit
<1>2. CASE UNCHANGED pqVars
  BY <1>2 DEF pqVars, PqIInv, PqTypeOK, PqSplit, PqSent, PqDelivered
<1> QED BY <1>1, <1>2, SendPqIInv, ReceivePqIInv, RestartPqIInv DEF Plain!Next

\* The count that PlainQueue gives its promise is the one of this module.
LEMMA Same == Plain!Cardinality({i \in DOMAIN pqQueue : pqQueue[i].ours}) = PqUnderWay
BY DEF PqUnderWay, Plain!Cardinality, Cardinality

\* And so it is after a step.
LEMMA SameNext == Plain!Cardinality({i \in DOMAIN pqQueue : pqQueue[i].ours})' = PqUnderWay'
BY DEF PqUnderWay, Plain!Cardinality, Cardinality

\* The promise over the names of this module.
Kept == INSTANCE OrderedDelivery
  WITH UIntMax <- PlainMax, sent <- PqSent, delivered <- PqDelivered, underWay <- PqUnderWay

keptVars == <<PqSent, PqDelivered, PqUnderWay>>

\* What is counted after a step.
LEMMA CountedNext == PqIInv' => PqCount'
BY Counted, PTL

\* A send, a delivery and a restart are those of the promise; the other steps
\* are not seen in it.
LEMMA StepPromised ==
  ASSUME PqIInv, PqIInv', [Plain!Next]_pqVars
  PROVE  [Kept!Next]_keptVars
<1>1. /\ PqUnderWay \in Nat /\ PqUnderWay <= Len(pqQueue) /\ Len(pqQueue) \in Nat
      /\ PqSent = PqDelivered + PqUnderWay
  BY Counted DEF PqCount, PqIInv, PqTypeOK
<1>2. /\ PqSent \in Nat /\ PqDelivered \in Nat /\ PqSent <= PlainMax /\ PlainMax \in Nat
  BY PlainAssumption DEF PqIInv, PqTypeOK, PqSent
<1>3. /\ PqSent' \in Nat /\ PqDelivered' \in Nat /\ PqUnderWay' \in Nat
      /\ PqSent' = PqDelivered' + PqUnderWay'
  BY CountedNext DEF PqCount, PqIInv, PqTypeOK
<1>4. PICK s \in Nat, d \in Nat, u \in Nat :
        s = PqSent' /\ d = PqDelivered' /\ u = PqUnderWay' /\ s = d + u
  BY <1>3, Zenon
<1>5. s \in Nat /\ d \in Nat /\ u \in Nat /\ s = d + u
  BY <1>4, Zenon
<1>6. CASE Plain!WSend
  <2>1. /\ PqSent' = PqSent + 1 /\ PqSent < PlainMax /\ PqDelivered' = PqDelivered
        /\ Len(pqQueue) < MaxMsgs
    BY <1>1, <1>6, SendPqIInv, MaxMsgsAssumption
       DEF Plain!WSend, Plain!MqSend, Plain!MqIsFull, PqDelivered
  <2>2. s = PqSent + 1 /\ d = PqDelivered
    BY <1>4, <2>1, Zenon
  <2>3. u = PqUnderWay + 1 /\ PqUnderWay < MaxMsgs /\ s = Kept!Inc(PqSent)
    BY <1>1, <1>2, <1>5, <2>1, <2>2, MaxMsgsAssumption DEF Kept!Inc
  <2> QED BY <1>4, <2>1, <2>3, Zenon DEF Kept!Next, Kept!Send
<1>7. CASE Plain!RReceive
  <2>1. s = PqSent /\ d \in {PqDelivered, PqDelivered + 1}
    BY <1>4, <1>7, ReceivePqIInv, Zenon
  <2>2. CASE d = PqDelivered
    <3>1. u = PqUnderWay
      BY <1>1, <1>2, <1>5, <2>1, <2>2
    <3> QED BY <1>4, <2>1, <2>2, <3>1, Zenon DEF keptVars
  <2>3. CASE d = PqDelivered + 1
    <3>1. u = PqUnderWay - 1 /\ PqUnderWay > 0 /\ d = Kept!Inc(PqDelivered)
      BY <1>1, <1>2, <1>5, <2>1, <2>3 DEF Kept!Inc
    <3> QED BY <1>4, <2>1, <3>1, Zenon DEF Kept!Next, Kept!Deliver
  <2> QED BY <2>1, <2>2, <2>3
<1>8. CASE Plain!Restart
  <2>1. s = 0 /\ d = 0
    BY <1>4, <1>8, RestartPqIInv, Zenon
  <2>2. u = 0
    BY <1>5, <2>1
  <2> QED BY <1>4, <2>1, <2>2, Zenon DEF Kept!Next, Kept!Restart
<1>9. CASE Plain!WCount
  <2>1. s = PqSent /\ d = PqDelivered
    BY <1>4, <1>9 DEF Plain!WCount, PqSent, PqDelivered, PqIInv, PqTypeOK
  <2>2. u = PqUnderWay
    BY <1>1, <1>2, <1>5, <2>1
  <2> QED BY <1>4, <2>1, <2>2, Zenon DEF keptVars
<1>10. CASE UNCHANGED pqVars
  BY <1>10 DEF pqVars, PqSent, PqDelivered, PqUnderWay, keptVars
<1> QED BY <1>6, <1>7, <1>8, <1>9, <1>10 DEF Plain!Next

\* A step of the promise over these names is one of it over those of PlainQueue.
LEMMA SameInstance ==
  ASSUME PqIInv, PqIInv', [Plain!Next]_pqVars
  PROVE  [Plain!Promise!Next]_<<IF pqWpc = "send" THEN pqWindex - 1 ELSE pqWindex,
              IF pqRmsg.ours THEN pqRmsg.index ELSE 0,
              Plain!Cardinality({i \in DOMAIN pqQueue : pqQueue[i].ours})>>
<1>1. CASE Kept!Send
  BY <1>1, Same, SameNext, Zenon
     DEF PqSent, PqDelivered, keptVars, Kept!Send, Kept!Inc, Plain!Promise!Next,
         Plain!Promise!Send, Plain!Promise!Inc
<1>2. CASE Kept!Deliver
  BY <1>2, Same, SameNext, Zenon
     DEF PqSent, PqDelivered, keptVars, Kept!Deliver, Kept!Inc, Plain!Promise!Next,
         Plain!Promise!Deliver, Plain!Promise!Inc
<1>3. CASE Kept!Restart
  BY <1>3, Same, SameNext, Zenon
     DEF PqSent, PqDelivered, Kept!Restart, Plain!Promise!Next, Plain!Promise!Restart
<1>4. CASE UNCHANGED keptVars
  BY <1>4, Same, SameNext, Zenon DEF PqSent, PqDelivered, keptVars
<1> QED BY <1>1, <1>2, <1>3, <1>4, StepPromised DEF Kept!Next

\* mq.c implements an ordered delivery: what a run sends arrives whole and in
\* order, behind what earlier runs have left in the queue.
THEOREM InOrder == QFairSpec => PlainInOrder
<1>1. QInit => PqIInv
  BY InitPqIInv DEF QInit
<1>2. PqIInv /\ [QNext]_qVars => PqIInv'
  BY NextPqIInv DEF QNext, qVars, pqVars
<1>3. QInit => Plain!Promise!Init
  <2>1. ASSUME Plain!Init PROVE PqSent = 0 /\ PqDelivered = 0 /\ PqUnderWay = 0
    <3>1. PqSent = 0 /\ PqDelivered = 0 /\ Len(pqQueue) = 0
      BY <2>1 DEF Plain!Init, Plain!NoMessage, PqSent, PqDelivered
    <3>2. PqUnderWay \in 0 .. Len(pqQueue)
      BY <2>1, InitPqIInv, Counted DEF PqCount
    <3> QED BY <3>1, <3>2
  <2> QED BY <2>1, Same DEF QInit, Plain!Promise!Init, PqSent, PqDelivered
<1>4. PqIInv /\ PqIInv' /\ [QNext]_qVars =>
        [Plain!Promise!Next]_<<IF pqWpc = "send" THEN pqWindex - 1 ELSE pqWindex,
              IF pqRmsg.ours THEN pqRmsg.index ELSE 0,
              Plain!Cardinality({i \in DOMAIN pqQueue : pqQueue[i].ours})>>
  <2>1. [QNext]_qVars => [Plain!Next]_pqVars
    BY DEF QNext, qVars, pqVars
  <2> QED BY <2>1, SameInstance
<1> QED BY <1>1, <1>2, <1>3, <1>4, PTL
           DEF QFairSpec, PlainInOrder, Plain!OursInOrder, Plain!Promise!Spec

-----------------------------------------------------------------------------
(* mq_ipc.c: what the threads of mq_withoverflow.c do. *)

\* The processes of mq_ipc.c, whichever could be forked and however often all
\* are killed and run again, do to the queue what the threads of
\* mq_withoverflow.c do.
THEOREM Launched == QFairSpec => Spec
<1>1. QInit => Init
  BY DEF QInit, LnInit
<1>2. [QNext]_qVars => [Next]_vars
  <2>1. LnLaunch => UNCHANGED vars
    BY DEF LnLaunch, LnPause, LnFork, LnVfork, LnExec, LnBecomes
  <2>2. LnWriter \/ (\E r \in Readers : LnReader(r)) \/ LnRestart => [Next]_vars
    BY DEF LnWriter, LnReader, LnRestart, Next
  <2>3. LnNext => [Next]_vars
    BY <2>1, <2>2 DEF LnNext
  <2>4. UNCHANGED lnAllVars => UNCHANGED vars
    BY DEF lnAllVars
  <2> QED BY <2>3, <2>4 DEF QNext, qVars
<1> QED BY <1>1, <1>2, PTL DEF QFairSpec, Spec

\* So in mq_ipc.c as in mq_withoverflow.c the writer never blocks, although it
\* and the readers are processes that come one by one, or not at all.
THEOREM LaunchedIsFree == QFairSpec => []WriterNeverBlocks
  BY Launched, WriterIsFree, PTL

\* And every number is delivered once and in order, by whichever process.
THEOREM LaunchedInOrder == QFairSpec => DeliversInOrder
  BY Launched, Refinement, PTL
=============================================================================
