------------------------ MODULE OverflowQueue_proofs ------------------------
(***************************************************************************)
(* For any number of readers, any queue length and any width of unsigned   *)
(* int: the writer of mq_withoverflow.c never blocks, and the program      *)
(* implements OrderedDelivery.                                             *)
(***************************************************************************)
EXTENDS OverflowQueue, TLAPS

\* What the writer knows of the queue: it only became emptier.
Room ==
  /\ pc[Writer] = "test" => Len(queue) <= curmsgs
  /\ pc[Writer] = "send" => Len(queue) < MaxMsgs

\* The queue holds the numbers after first, up to and including final.
Linked(q, first, final) ==
  /\ q = <<>> => final = first
  /\ q # <<>> => Head(q) = Inc(first) /\ q[Len(q)] = final
  /\ \A i \in 1 .. Len(q) - 1 : q[i + 1] = Inc(q[i])

IInv == TypeOK /\ Room /\ Linked(queue, last, SentLast)

-----------------------------------------------------------------------------
\* ++ stays in range.
LEMMA IncType == \A n \in UInt : Inc(n) \in UInt
  BY UIntAssumption, SMT DEF Inc, UInt

\* The number sent last is an unsigned int.
LEMMA SentLastType == TypeOK => SentLast \in UInt
  BY UIntAssumption, SMT DEF TypeOK, SentLast, UInt

\* At mq_send, counter is one ahead of the number sent last.
LEMMA SentLastAtSend == TypeOK /\ pc[Writer] = "send" => counter = Inc(SentLast)
  BY UIntAssumption, SMT DEF TypeOK, SentLast, Inc, UInt

\* A message sent extends the chain at its end.
LEMMA SendLinks ==
  ASSUME NEW q \in Seq(UInt), NEW first \in UInt, NEW final \in UInt,
         Linked(q, first, final)
  PROVE  Linked(Append(q, Inc(final)), first, Inc(final))
<1> DEFINE a == Append(q, Inc(final))
<1>1. Inc(final) \in UInt
  BY IncType
<1>2. a # <<>> /\ Len(a) = Len(q) + 1 /\ a[Len(a)] = Inc(final)
      /\ (\A i \in 1 .. Len(q) : a[i] = q[i])
  BY <1>1
<1>3. Head(a) = Inc(first)
  <2>1. CASE q = <<>>
    BY <2>1, <1>2 DEF Linked
  <2>2. CASE q # <<>>
    BY <2>2, <1>2 DEF Linked
  <2> QED BY <2>1, <2>2
<1>4. ASSUME NEW i \in 1 .. Len(a) - 1 PROVE a[i + 1] = Inc(a[i])
  <2>1. CASE i = Len(q)
    <3>1. q # <<>> /\ q[Len(q)] = final
      BY <2>1, <1>2 DEF Linked
    <3> QED BY <3>1, <2>1, <1>2
  <2>2. CASE i # Len(q)
    <3>1. i \in 1 .. Len(q) - 1 /\ i + 1 \in 1 .. Len(q) /\ i \in 1 .. Len(q)
      BY <2>2, <1>2
    <3> QED BY <3>1, <1>2 DEF Linked
  <2> QED BY <2>1, <2>2
<1> QED BY <1>2, <1>3, <1>4 DEF Linked

\* A message received shortens the chain at its head.
LEMMA ReceiveLinks ==
  ASSUME NEW q \in Seq(UInt), NEW first \in UInt, NEW final \in UInt,
         Linked(q, first, final), q # <<>>
  PROVE  Linked(Tail(q), Head(q), final)
<1> DEFINE t == Tail(q)
<1>1. t \in Seq(UInt) /\ Len(t) = Len(q) - 1 /\ (\A i \in 1 .. Len(t) : t[i] = q[i + 1])
      /\ Head(q) = q[1] /\ Len(q) >= 1
  OBVIOUS
<1>2. t = <<>> => final = Head(q)
  BY <1>1 DEF Linked
<1>3. t # <<>> => Head(t) = Inc(Head(q)) /\ t[Len(t)] = final
  <2> HAVE t # <<>>
  <2>1. Len(t) >= 1 /\ Head(t) = t[1]
    BY <1>1
  <2>2. t[1] = q[2] /\ q[2] = Inc(q[1])
    BY <2>1, <1>1 DEF Linked
  <2>3. t[Len(t)] = q[Len(q)]
    BY <2>1, <1>1
  <2> QED BY <2>1, <2>2, <2>3, <1>1 DEF Linked
<1>4. ASSUME NEW i \in 1 .. Len(t) - 1 PROVE t[i + 1] = Inc(t[i])
  BY <1>1, <1>4 DEF Linked
<1> QED BY <1>2, <1>3, <1>4 DEF Linked
-----------------------------------------------------------------------------
\* The inductive invariant.

\* The invariant holds initially.
LEMMA InitIInv == Init => IInv
<1> SUFFICES ASSUME Init PROVE IInv
  OBVIOUS
<1>1. Writer \in Threads /\ pc[Writer] = "check"
  BY DEF Init, StartPC, Threads
<1>2. TypeOK
  BY MaxMsgsAssumption, UIntAssumption
     DEF Init, StartPC, TypeOK, UInt
<1> QED BY <1>1, <1>2 DEF Init, IInv, Room, Linked, SentLast

\* The writer's steps keep it.
LEMMA WriterIInv == IInv /\ WriterStep => IInv'
<1> SUFFICES ASSUME IInv, WriterStep PROVE IInv'
  OBVIOUS
<1> USE MaxMsgsAssumption, UIntAssumption
<1>1. TypeOK /\ Room /\ Linked(queue, last, SentLast) /\ Writer \in Threads
  BY DEF IInv, Threads
<1>2. SentLast \in UInt
  BY <1>1, SentLastType
<1>3. CASE WGetAttr
  <2>1. UNCHANGED <<queue, counter, last>> /\ pc[Writer] = "check"
        /\ pc'[Writer] = "test" /\ curmsgs' = Len(queue)
    BY <1>1, <1>3 DEF WGetAttr, Goto, TypeOK
  <2>2. TypeOK'
    BY <1>1, <1>3 DEF WGetAttr, Goto, TypeOK
  <2>3. SentLast' = SentLast
    BY <2>1 DEF SentLast
  <2> QED BY <1>1, <2>1, <2>2, <2>3 DEF IInv, Room, Linked, TypeOK
<1>4. CASE WTest
  <2>1. TypeOK'
    BY <1>1, <1>4, IncType DEF WTest, Goto, TypeOK
  <2>2. Room' /\ SentLast' = SentLast
    BY <1>1, <1>4 DEF WTest, Goto, TypeOK, Room, SentLast, Inc, UInt
  <2>3. UNCHANGED <<queue, last>>
    BY <1>4 DEF WTest
  <2> QED BY <1>1, <2>1, <2>2, <2>3 DEF IInv, Linked
<1>5. CASE WSend
  <2>1. /\ counter = Inc(SentLast)
        /\ queue' = Append(queue, Inc(SentLast)) /\ UNCHANGED <<counter, last>>
        /\ pc'[Writer] = "check"
    BY <1>1, <1>5, SentLastAtSend DEF WSend, MqSend, Goto, TypeOK
  <2>2. Room' /\ SentLast' = Inc(SentLast)
    BY <2>1 DEF Room, SentLast
  <2>3. TypeOK'
    BY <1>1, <1>5 DEF WSend, MqSend, MqIsFull, Goto, TypeOK
  <2>4. Linked(queue', last, Inc(SentLast))
    BY <1>1, <1>2, <2>1, SendLinks DEF TypeOK
  <2> QED BY <2>1, <2>2, <2>3, <2>4 DEF IInv, Linked
<1> QED BY <1>3, <1>4, <1>5 DEF WriterStep

\* The readers' steps keep it: they only make room.
LEMMA ReaderIInv == ASSUME NEW r \in Readers, IInv, ReaderStep(r) PROVE IInv'
<1>1. TypeOK /\ Room /\ Linked(queue, last, SentLast) /\ SentLast \in UInt
  BY SentLastType DEF IInv
<1>2. r \in Threads /\ Writer \in Threads /\ r # Writer
  BY ThreadAssumption DEF Threads
<1>3. CASE RReceive(r)
  <2>1. /\ queue # <<>> /\ queue' = Tail(queue) /\ last' = Head(queue)
        /\ UNCHANGED <<counter, curmsgs>> /\ pc'[Writer] = pc[Writer]
    BY <1>1, <1>2, <1>3 DEF RReceive, MqReceive, Goto, TypeOK
  <2>2. Head(queue) \in UInt /\ Tail(queue) \in Seq(UInt)
        /\ Len(Tail(queue)) = Len(queue) - 1 /\ Len(queue) \in Nat
    BY <1>1, <2>1 DEF TypeOK
  <2>3. TypeOK'
    BY <1>1, <1>2, <1>3, <2>1, <2>2, MaxMsgsAssumption DEF RReceive, Goto, TypeOK
  <2>4. Room' /\ SentLast' = SentLast
    BY <1>1, <1>2, <2>1, <2>2, MaxMsgsAssumption DEF Room, SentLast, TypeOK
  <2>5. Linked(Tail(queue), Head(queue), SentLast)
    BY <1>1, <2>1, ReceiveLinks DEF TypeOK
  <2> QED BY <2>1, <2>3, <2>4, <2>5 DEF IInv, Linked
<1>4. CASE RPrint(r)
  <2>1. /\ UNCHANGED <<queue, counter, last>> /\ pc'[Writer] = pc[Writer]
        /\ curmsgs' = curmsgs
    BY <1>1, <1>2, <1>4 DEF RPrint, Goto, TypeOK
  <2>2. TypeOK'
    BY <1>1, <1>2, <1>4 DEF RPrint, Goto, TypeOK
  <2>3. Room' /\ SentLast' = SentLast
    BY <1>1, <2>1 DEF Room, SentLast
  <2> QED BY <1>1, <2>1, <2>2, <2>3 DEF IInv, Linked
<1> QED BY <1>3, <1>4 DEF ReaderStep

\* A new run starts from an empty chain.
LEMMA RestartIInv == Restart => IInv'
<1> SUFFICES ASSUME Restart PROVE IInv'
  OBVIOUS
<1>1. pc'[Writer] = "check"
  BY DEF Restart, Rerun, StartPC, Threads
<1>2. TypeOK'
  BY MaxMsgsAssumption, UIntAssumption
     DEF Restart, Rerun, StartPC, TypeOK, UInt
<1> QED BY <1>1, <1>2 DEF Restart, Rerun, IInv, Room, Linked, SentLast

\* Every step keeps the invariant.
LEMMA NextIInv == IInv /\ [Next]_vars => IInv'
<1>1. IInv /\ UNCHANGED vars => IInv'
  BY DEF vars, IInv, TypeOK, Room, Linked, SentLast
<1> QED BY <1>1, WriterIInv, ReaderIInv, RestartIInv DEF Next

\* The inductive invariant, from which the theorems below are read off.
LEMMA Invariance == Spec => []IInv
  BY InitIInv, NextIInv, PTL DEF Spec

-----------------------------------------------------------------------------
\* The results.

\* In every run every variable has its C type and the queue its bound.
THEOREM TypeCorrect == Spec => []TypeOK
  BY Invariance, PTL DEF IInv

\* The writer of mq_withoverflow.c looks before it sends and never blocks.
THEOREM WriterIsFree == Spec => []WriterNeverBlocks
<1>1. IInv => WriterNeverBlocks
  BY MaxMsgsAssumption DEF IInv, TypeOK, Room, WriterNeverBlocks, MqIsFull
<1> QED BY <1>1, Invariance, PTL

\* Initial states map to initial states.
LEMMA InitPromise == Init => Promise!Init
  BY DEF Init, StartPC, Threads, SentLast, Promise!Init

\* Every step maps to a step of OrderedDelivery or a stutter.
LEMMA StepPromise ==
  IInv /\ [Next]_vars => [Promise!Next]_<<SentLast, last, Len(queue)>>
<1> SUFFICES ASSUME IInv, [Next]_vars
             PROVE  Promise!Next \/ UNCHANGED <<SentLast, last, Len(queue)>>
  OBVIOUS
<1>1. TypeOK /\ Linked(queue, last, SentLast) /\ SentLast \in UInt
      /\ Writer \in Threads
  BY SentLastType DEF IInv, Threads
<1>2. \A n : Promise!Inc(n) = Inc(n)
  BY DEF Promise!Inc, Inc
<1>3. CASE UNCHANGED vars
  BY <1>3 DEF vars, SentLast
<1>4. CASE WGetAttr
  BY <1>1, <1>4 DEF WGetAttr, Goto, TypeOK, SentLast
<1>5. CASE WTest
  <2>1. UNCHANGED <<queue, last>>
    BY <1>5 DEF WTest
  <2>2. CASE counter' = Inc(counter) /\ pc'[Writer] = "send"
    <3>1. SentLast = counter
      BY <1>5 DEF WTest, SentLast
    <3>2. counter \in UInt /\ SentLast' = IF counter' = 0 THEN UIntMax ELSE counter' - 1
      BY <1>1, <2>2 DEF SentLast, TypeOK
    <3>3. SentLast' = counter
      BY <3>2, <2>2, UIntAssumption DEF Inc, UInt
    <3> QED BY <2>1, <3>1, <3>3
  <2>3. CASE UNCHANGED counter /\ pc'[Writer] = "check"
    BY <1>5, <2>1, <2>3 DEF WTest, SentLast
  <2> QED BY <1>1, <1>5, <2>2, <2>3 DEF WTest, Goto, TypeOK
<1>6. CASE WSend
  <2>1. counter = Inc(SentLast) /\ SentLast' = counter
    BY <1>1, <1>6, SentLastAtSend DEF WSend, Goto, TypeOK, SentLast
  <2>2. Len(queue) < MaxMsgs /\ Len(queue)' = Len(queue) + 1 /\ UNCHANGED last
    BY <1>1, <1>6, MaxMsgsAssumption DEF WSend, MqSend, MqIsFull, TypeOK
  <2> QED BY <2>1, <2>2, <1>2 DEF Promise!Send, Promise!Next
<1>7. ASSUME NEW r \in Readers, RReceive(r) PROVE Promise!Next
  <2>1. r \in Threads /\ r # Writer
    BY ThreadAssumption DEF Threads
  <2>2. queue # <<>> /\ last' = Inc(last) /\ SentLast' = SentLast
    BY <1>1, <1>7, <2>1
       DEF RReceive, MqReceive, Goto, TypeOK, SentLast, Linked
  <2>3. Len(queue) > 0 /\ Len(queue)' = Len(queue) - 1
    BY <1>1, <1>7 DEF RReceive, MqReceive, TypeOK
  <2> QED BY <2>2, <2>3, <1>2 DEF Promise!Deliver, Promise!Next
<1>8. ASSUME NEW r \in Readers, RPrint(r)
      PROVE  UNCHANGED <<SentLast, last, Len(queue)>>
  <2>1. r \in Threads /\ r # Writer
    BY ThreadAssumption DEF Threads
  <2> QED BY <1>1, <1>8, <2>1
             DEF RPrint, Goto, TypeOK, SentLast
<1>9. CASE Restart
  BY <1>9 DEF Restart, Rerun, StartPC, Threads, SentLast, Promise!Restart, Promise!Next
<1> QED BY <1>3, <1>4, <1>5, <1>6, <1>7, <1>8, <1>9
           DEF Next, WriterStep, ReaderStep

\* Every number the writer sends is delivered once and in order, whatever the
\* readers' interleaving and however often the program is killed and rerun.
THEOREM Refinement == Spec => DeliversInOrder
  BY InitPromise, StepPromise, Invariance, PTL DEF Spec, DeliversInOrder, Promise!Spec
=============================================================================
