--------------------------- MODULE ChannelProofs ---------------------------
(***************************************************************************)
(* Theorems about Channel for every set of callers, message set, capacity  *)
(* and bound: types, FIFO delivery, the capacity bound, silence after the  *)
(* close, and that Channel implements PipeLog.                             *)
(***************************************************************************)
EXTENDS Channel, SequenceTheorems, TLAPS

LEMMA AppendOnRight ==
  ASSUME NEW s \in Seq(Values), NEW t \in Seq(Values), NEW v \in Values
  PROVE  Append(s \o t, v) = s \o Append(t, v)
<1>1. s \o t \in Seq(Values) /\ <<v>> \in Seq(Values)
  BY ConcatProperties
<1>2. Append(s \o t, v) = (s \o t) \o <<v>>
  BY <1>1, AppendIsConcat
<1>3. Append(t, v) = t \o <<v>>
  BY AppendIsConcat
<1> QED
  BY <1>1, <1>2, <1>3, ConcatAssociative

LEMMA HeadThenTail ==
  ASSUME NEW S, NEW t \in Seq(S), t # <<>>
  PROVE  <<Head(t)>> \o Tail(t) = t
<1> DEFINE u == <<Head(t)>> \o Tail(t)
<1>1. /\ Head(t) \in S /\ Tail(t) \in Seq(S)
      /\ Len(Tail(t)) = Len(t) - 1
      /\ \A i \in 1 .. Len(Tail(t)) : Tail(t)[i] = t[i+1]
  BY HeadTailProperties
<1>2. /\ u \in Seq(S) /\ Len(u) = 1 + Len(Tail(t))
      /\ \A i \in 1 .. 1 + Len(Tail(t)) :
            u[i] = IF i <= 1 THEN <<Head(t)>>[i] ELSE Tail(t)[i - 1]
  <2>1. <<Head(t)>> \in Seq(S) /\ Len(<<Head(t)>>) = 1
    BY <1>1
  <2> QED
    BY <1>1, <2>1, ConcatProperties
<1>3. Len(t) \in Nat \ {0} /\ Head(t) = t[1]
  BY EmptySeq, LenProperties
<1>4. Len(u) = Len(t) /\ \A i \in 1 .. Len(t) : u[i] = t[i]
  BY <1>1, <1>2, <1>3
<1> QED
  BY <1>2, <1>4, SeqEqual

LEMMA HeadToLeft ==
  ASSUME NEW S, NEW s \in Seq(S), NEW t \in Seq(S), t # <<>>
  PROVE  Append(s, Head(t)) \o Tail(t) = s \o t
<1>1. Head(t) \in S /\ Tail(t) \in Seq(S) /\ <<Head(t)>> \in Seq(S)
  BY HeadTailProperties
<1>2. Append(s, Head(t)) = s \o <<Head(t)>>
  BY <1>1, AppendIsConcat
<1> QED
  BY <1>1, <1>2, ConcatAssociative, HeadThenTail

-----------------------------------------------------------------------------
(***************************************************************************)
(* The inductive invariant is the types, FIFO order, the capacity bound    *)
(* and that an end a reader saw stays the end.                             *)
(***************************************************************************)
\* A reader that saw the end left an empty, closed pipe behind.
EndSeen(c) == reply[c] = "chan_recv: channel closed"
Drained == \A c \in Callers : EndSeen(c) => closed /\ q = <<>>

IInv == TypeOK /\ Fifo /\ CapacityRespected /\ Drained

LEMMA InitIInv == Init => IInv
<1> SUFFICES ASSUME Init PROVE IInv
  OBVIOUS
<1>1. TypeOK
  BY EmptySeq DEF Init, TypeOK, Calls, Replies
<1>2. <<>> \o <<>> = <<>>
  BY EmptySeq, ConcatEmptySeq
<1>3. Fifo /\ CapacityRespected
  BY <1>2, EmptySeq, ChannelAssumption DEF Init, Fifo, CapacityRespected
<1>4. Drained
  BY DEF Init, Drained, EndSeen
<1> QED
  BY <1>1, <1>3, <1>4 DEF IInv

\* Every accepted message goes to the end of q while there is room for it.
LEMMA PushPreserves ==
  ASSUME IInv, NEW v \in Values, ~closed, HasRoom, Push(v)
  PROVE  /\ q' \in Seq(Values) /\ sent' \in Seq(Values) /\ received' \in Seq(Values)
         /\ closed' \in BOOLEAN /\ Fifo' /\ CapacityRespected'
<1>1. q' \in Seq(Values) /\ sent' \in Seq(Values) /\ Len(q') = Len(q) + 1
  BY AppendProperties DEF IInv, TypeOK, Push
<1>2. Append(received \o q, v) = received \o Append(q, v)
  <2>1. received \in Seq(Values) /\ q \in Seq(Values)
    BY DEF IInv, TypeOK
  <2> QED
    BY <2>1, AppendOnRight
<1>3. Fifo'
  BY <1>2 DEF IInv, Fifo, Push
<1>4. CapacityRespected'
  BY <1>1, ChannelAssumption, LenProperties
     DEF IInv, TypeOK, CapacityRespected, HasRoom
<1> QED
  BY <1>1, <1>4, <1>3 DEF IInv, TypeOK, Push

\* Every message handed out is the oldest one in q.
LEMMA PopPreserves ==
  ASSUME IInv, q # <<>>, Pop
  PROVE  /\ q' \in Seq(Values) /\ sent' \in Seq(Values) /\ received' \in Seq(Values)
         /\ closed' \in BOOLEAN /\ Fifo' /\ CapacityRespected'
<1>1. /\ Head(q) \in Values /\ q' \in Seq(Values) /\ Len(q') = Len(q) - 1
  BY HeadTailProperties DEF IInv, TypeOK, Pop
<1>2. received' \in Seq(Values)
  BY <1>1, AppendProperties DEF IInv, TypeOK, Pop
<1>3. Fifo'
  BY HeadToLeft DEF IInv, TypeOK, Fifo, Pop
<1>4. CapacityRespected'
  BY <1>1, ChannelAssumption, LenProperties DEF IInv, TypeOK, CapacityRespected
<1> QED
  BY <1>1, <1>2, <1>3, <1>4 DEF IInv, TypeOK, Pop

\* What a step may do to the pipe and the two histories, callers aside.
Accept == ~closed /\ HasRoom /\ \E v \in Values : Push(v)
HandOut == q # <<>> /\ Pop
JustClose == closed' = TRUE /\ UNCHANGED <<q, sent, received>>
Quiet == UNCHANGED <<pipe, sent, received>>
\* What a step may do to the callers.
CallersOK == /\ call' \in [Callers -> Calls]
             /\ reply' \in [Callers -> Replies]
             /\ cancelled' \subseteq Callers
             /\ \A c \in Callers : EndSeen(c)' => EndSeen(c) \/ (closed /\ q = <<>> /\ Quiet)

LEMMA SendCarriesMessage ==
  ASSUME NEW x \in Calls, x.op = "send"
  PROVE  x.msg \in Values
<1>1. CASE x = Idle
  BY <1>1 DEF Idle
<1>2. CASE x \in [op : {"recv"}]
  BY <1>2
<1>3. CASE x \in [op : {"send"}, msg : Values]
  BY <1>3
<1> QED
  BY <1>1, <1>2, <1>3 DEF Calls

LEMMA StepShape ==
  ASSUME TypeOK, [Next]_vars
  PROVE  CallersOK /\ (Accept \/ HandOut \/ JustClose \/ Quiet)
<1> USE DEF TypeOK, CallersOK, EndSeen, Quiet, Leave, Once, Enter, Calls, Idle, Replies, pipe
<1>1. ASSUME NEW c \in Callers, SendDone(c)
      PROVE  CallersOK /\ Accept
  <2>1. call[c].msg \in Values
    BY <1>1, SendCarriesMessage DEF SendDone
  <2> QED
    BY <1>1, <2>1 DEF SendDone, Accept, Push
<1>2. ASSUME NEW c \in Callers, RecvDone(c)
      PROVE  CallersOK /\ HandOut
  BY <1>2 DEF RecvDone, HandOut, Pop
<1>3. ASSUME NEW c \in Callers, SendClosed(c) \/ CallCancelled(c)
      PROVE  CallersOK /\ Quiet
  BY <1>3 DEF SendClosed, CallCancelled
<1>11. ASSUME NEW c \in Callers, RecvClosed(c)
       PROVE  CallersOK /\ Quiet
  BY <1>11 DEF RecvClosed
<1>4. ASSUME NEW c \in Callers, NEW v \in Values, SendEnter(c, v)
      PROVE  CallersOK /\ Quiet
  BY <1>4 DEF SendEnter, Quiet
<1>5. ASSUME NEW c \in Callers, NEW v \in Values, TrySend(c, v)
      PROVE  CallersOK /\ (Accept \/ Quiet)
  BY <1>5 DEF TrySend, Accept, Quiet
<1>6. ASSUME NEW c \in Callers, RecvEnter(c)
      PROVE  CallersOK /\ Quiet
  BY <1>6 DEF RecvEnter, Quiet
<1>7. ASSUME NEW c \in Callers, TryRecv(c)
      PROVE  CallersOK /\ (HandOut \/ Quiet)
  BY <1>7 DEF TryRecv, HandOut, Quiet
<1>8. ASSUME NEW c \in Callers, Close(c)
      PROVE  CallersOK /\ JustClose
  BY <1>8 DEF Close, JustClose
<1>9. ASSUME NEW c \in Callers, Cancel(c)
      PROVE  CallersOK /\ Quiet
  BY <1>9 DEF Cancel, Quiet
<1>10. ASSUME UNCHANGED vars
       PROVE  CallersOK /\ Quiet
  BY <1>10 DEF vars, Quiet
<1> QED
  BY <1>1, <1>2, <1>3, <1>11, <1>4, <1>5, <1>6, <1>7, <1>8, <1>9, <1>10
     DEF Next, Progress, Script

LEMMA NextIInv == IInv /\ [Next]_vars => IInv'
<1> SUFFICES ASSUME IInv, [Next]_vars PROVE IInv'
  OBVIOUS
<1>1. CallersOK /\ (Accept \/ HandOut \/ JustClose \/ Quiet)
  BY StepShape DEF IInv
<1>2. Drained'
  <2> SUFFICES ASSUME NEW c \in Callers, EndSeen(c)'
               PROVE  closed' /\ q' = <<>>
    BY DEF Drained
  <2>1. EndSeen(c) \/ (closed /\ q = <<>> /\ Quiet)
    BY <1>1 DEF CallersOK
  <2>2. closed /\ q = <<>>
    BY <2>1 DEF IInv, Drained
  <2>3. JustClose \/ Quiet
    BY <1>1, <2>2 DEF Accept, HandOut
  <2> QED
    BY <2>2, <2>3 DEF JustClose, Quiet, pipe
<1>3. CASE Accept
  BY <1>1, <1>2, <1>3, PushPreserves DEF Accept, IInv, TypeOK, CallersOK
<1>4. CASE HandOut
  BY <1>1, <1>2, <1>4, PopPreserves DEF HandOut, IInv, TypeOK, CallersOK
<1>5. CASE JustClose \/ Quiet
  BY <1>1, <1>5, <1>2 DEF JustClose, Quiet, pipe, IInv, TypeOK, CallersOK, Fifo, CapacityRespected
<1> QED
  BY <1>1, <1>3, <1>4, <1>5

LEMMA Invariance == Spec => []IInv
BY InitIInv, NextIInv, PTL DEF Spec

-----------------------------------------------------------------------------
\* Type correctness of the pipe and its callers (chan_new .. chan_len).
THEOREM TypeCorrect == Spec => []TypeOK
BY Invariance, PTL DEF IInv

\* FIFO delivery without loss or duplication (chan_send, chan_recv and the
\* try_ forms), for any number of callers and any capacity.
THEOREM FifoDelivery == Spec => []Fifo
BY Invariance, PTL DEF IInv

\* A bounded pipe holds at most Capacity messages (the room test in
\* chan_send and chan_try_send).
THEOREM CapacityBound == Spec => []CapacityRespected
BY Invariance, PTL DEF IInv

\* "channel closed" reaches a reader only when every accepted message has
\* been handed out (the queue test after chan_recv's loop).
THEOREM EndIsDrained == Spec => []EndOfStream
<1>1. IInv => EndOfStream
  <2> SUFFICES ASSUME IInv, q = <<>>, closed PROVE received = sent
    BY DEF IInv, Drained, EndSeen, EndOfStream
  <2>1. received \in Seq(Values)
    BY DEF IInv, TypeOK
  <2>2. received \o <<>> = received
    BY <2>1, ConcatEmptySeq
  <2> QED
    BY <2>2 DEF IInv, Fifo
<1> QED
  BY <1>1, Invariance, PTL

\* After chan_close nothing is accepted (the closed tests in chan_send and
\* chan_try_send), even from a sender that was already waiting.
THEOREM SilentAfterClose == Spec => ClosedAcceptsNothing
<1>1. TypeOK /\ [Next]_vars => [closed => sent' = sent]_vars
  BY StepShape DEF Accept, HandOut, JustClose, Quiet, Pop, Push
<1> QED
  BY <1>1, TypeCorrect, PTL DEF Spec, ClosedAcceptsNothing

\* The pipe implements the log with a cursor that callers rely on.
THEOREM Refinement == Spec => ImplementsLog
<1>1. Init => Log!Init
  BY DEF Init, Log!Init
<1>2. IInv /\ [Next]_vars => [Log!Next]_<<sent, received, ~closed>>
  <2> SUFFICES ASSUME IInv, [Next]_vars
               PROVE  [Log!Next]_<<sent, received, ~closed>>
    OBVIOUS
  <2>0. Len(q) \in Nat /\ Len(received) \in Nat /\ Len(sent) = Len(received) + Len(q)
    BY LenProperties, ConcatProperties DEF IInv, TypeOK, Fifo
  <2>1. CASE Accept
    <3>1. PICK v \in Values : Push(v)
      BY <2>1 DEF Accept
    <3>2. Capacity > 0 => Len(sent) - Len(received) < Capacity
      BY <2>0, <2>1 DEF Accept, HasRoom
    <3>3. Log!Write(v)
      BY <2>1, <3>1, <3>2 DEF Accept, Push, Log!Write
    <3> QED
      BY <3>3 DEF Log!Next
  <2>2. CASE HandOut
    <3>1. Len(q) > 0 /\ Head(q) = q[1]
      BY <2>0, <2>2, EmptySeq DEF HandOut, IInv, TypeOK
    <3>2. Len(received) < Len(sent) /\ Head(q) = sent[Len(received) + 1]
      BY <2>0, <3>1, ConcatProperties DEF IInv, TypeOK, Fifo
    <3>3. Log!Read
      BY <2>2, <3>2 DEF HandOut, Pop, Log!Read
    <3> QED
      BY <3>3 DEF Log!Next
  <2>3. CASE JustClose
    BY <2>3 DEF JustClose, Log!Next, Log!Shut
  <2>4. CASE Quiet
    BY <2>4 DEF Quiet, pipe
  <2> QED
    BY <2>1, <2>2, <2>3, <2>4, StepShape DEF IInv
<1> QED
  BY <1>1, <1>2, Invariance, PTL DEF Spec, ImplementsLog, Log!Spec
=============================================================================
