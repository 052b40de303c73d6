------------------------------- MODULE Channel -------------------------------
(***************************************************************************)
(* One pipe: ChannelState and the chan_* builtins that pipe.send,          *)
(* pipe.receive, pipe.close and their try_ forms are dispatched to.        *)
(*                                                                         *)
(* A caller is a thread of control that runs script code.  A blocking call *)
(* keeps ch->mu except inside cv.wait_for, which returns at the latest     *)
(* after 25 ms, so a blocked caller polls: an iteration that finds nothing *)
(* to do changes no state, and the iteration that leaves the loop is one   *)
(* critical section, hence one action.                                     *)
(*                                                                         *)
(* A definition whose comment names a mistake (PopKeeping, ...) is   *)
(* the next definition with that mistake; the properties must reject it.   *)
(***************************************************************************)
EXTENDS Naturals, Sequences, FiniteSets

CONSTANTS Callers,      \* threads of control that hold the pipe's handle
          Values,       \* message texts
          Capacity,     \* ChannelState.capacity, 0 when unbounded
          MaxSent       \* bound of the model: messages ever accepted

ASSUME ChannelAssumption ==
  /\ Capacity \in Nat
  /\ MaxSent \in Nat

VARIABLES
  q,          \* ChannelState.q
  closed,     \* ChannelState.closed
  call,       \* the blocking call each caller is in
  cancelled,  \* callers whose tls_current_future is cancelled
  reply,      \* how each caller's last call ended
  sent,       \* history: every message accepted, in order
  received    \* history: every message handed out, in order

pipe == <<q, closed>>
vars == <<q, closed, call, cancelled, reply, sent, received>>

Idle == [op |-> "idle"]
Calls == {Idle} \cup [op : {"recv"}] \cup [op : {"send"}, msg : Values]

\* The exceptions and results the builtins return, apart from a message.
Replies == {"none", "ok", "got", "false", "empty", "future cancelled",
            "chan_send: channel closed", "chan_recv: channel closed"}

-----------------------------------------------------------------------------
HasRoom == Capacity = 0 \/ Len(q) < Capacity

Push(v) == /\ q' = Append(q, v)
           /\ sent' = Append(sent, v)
           /\ UNCHANGED <<closed, received>>

\* Reads the front and forgets pop_front.
PopKeeping == /\ received' = Append(received, Head(q))
              /\ UNCHANGED <<q, closed, sent>>

Pop == /\ q' = Tail(q)
       /\ received' = Append(received, Head(q))
       /\ UNCHANGED <<closed, sent>>

Enter(c, request) == /\ call[c] = Idle
                     /\ call' = [call EXCEPT ![c] = request]
                     /\ UNCHANGED <<pipe, reply, sent, received, cancelled>>

Leave(c, r) == /\ call' = [call EXCEPT ![c] = Idle]
               /\ reply' = [reply EXCEPT ![c] = r]
               /\ UNCHANGED cancelled

\* A try_ form takes the lock once and never waits.
Once(c, r) == /\ call[c] = Idle
              /\ reply' = [reply EXCEPT ![c] = r]
              /\ UNCHANGED <<call, cancelled>>

-----------------------------------------------------------------------------
\* chan_send
SendEnter(c, v) == Enter(c, [op |-> "send", msg |-> v])

SendDone(c) ==
  /\ call[c].op = "send" /\ c \notin cancelled
  /\ ~closed /\ HasRoom
  /\ Push(call[c].msg) /\ Leave(c, "ok")

SendClosed(c) ==
  /\ call[c].op = "send" /\ c \notin cancelled
  /\ closed
  /\ Leave(c, "chan_send: channel closed") /\ UNCHANGED <<pipe, sent, received>>

\* chan_recv: what is still queued is handed out after the close.
RecvEnter(c) == Enter(c, [op |-> "recv"])

RecvDone(c) ==
  /\ call[c].op = "recv" /\ c \notin cancelled
  /\ q # <<>>
  /\ Pop /\ Leave(c, "got")

\* The loop waits for a message only, whatever closed says.
RecvClosedIgnored(c) ==
  /\ call[c].op = "recv" /\ c \notin cancelled
  /\ closed /\ q # <<>>
  /\ Leave(c, "chan_recv: channel closed") /\ UNCHANGED <<pipe, sent, received>>

\* Tests closed instead of the queue after the loop.
RecvClosedEarly(c) ==
  /\ call[c].op = "recv" /\ c \notin cancelled
  /\ closed
  /\ Leave(c, "chan_recv: channel closed") /\ UNCHANGED <<pipe, sent, received>>

RecvClosed(c) ==
  /\ call[c].op = "recv" /\ c \notin cancelled
  /\ closed /\ q = <<>>
  /\ Leave(c, "chan_recv: channel closed") /\ UNCHANGED <<pipe, sent, received>>

\* Both loops look at tls_current_future first.
CallCancelled(c) ==
  /\ call[c] # Idle /\ c \in cancelled
  /\ Leave(c, "future cancelled") /\ UNCHANGED <<pipe, sent, received>>

TrySend(c, v) ==
  IF ~closed /\ HasRoom
  THEN Push(v) /\ Once(c, "ok")
  ELSE Once(c, "false") /\ UNCHANGED <<pipe, sent, received>>

TryRecv(c) ==
  IF q # <<>>
  THEN Pop /\ Once(c, "got")
  ELSE Once(c, "empty") /\ UNCHANGED <<pipe, sent, received>>

Close(c) ==
  /\ call[c] = Idle
  /\ closed' = TRUE
  /\ UNCHANGED <<q, call, cancelled, reply, sent, received>>

\* Another thread cancels the future this caller is running.
Cancel(c) ==
  /\ cancelled' = cancelled \cup {c}
  /\ UNCHANGED <<pipe, call, reply, sent, received>>

-----------------------------------------------------------------------------
Init ==
  /\ q = <<>> /\ closed = FALSE
  /\ call = [c \in Callers |-> Idle]
  /\ cancelled = {}
  /\ reply = [c \in Callers |-> "none"]
  /\ sent = <<>> /\ received = <<>>

\* A call under way runs until it returns or blocks.
Progress(c) == \/ SendDone(c) \/ SendClosed(c)
               \/ RecvDone(c) \/ RecvClosed(c)
               \/ CallCancelled(c)

\* MaxSent bounds the messages accepted or about to be.
Budget == Len(sent) + Cardinality({c \in Callers : call[c].op = "send"}) < MaxSent

Script(c) == \/ Budget /\ \E v \in Values : SendEnter(c, v) \/ TrySend(c, v)
             \/ RecvEnter(c)
             \/ TryRecv(c)
             \/ Close(c)
             \/ Cancel(c)

Next == \E c \in Callers : Progress(c) \/ Script(c)

Spec == Init /\ [][Next]_vars

\* The operating system runs every thread that can run.
FairSpec == Spec /\ \A c \in Callers : WF_vars(Progress(c))

-----------------------------------------------------------------------------
TypeOK ==
  /\ q \in Seq(Values) /\ sent \in Seq(Values) /\ received \in Seq(Values)
  /\ closed \in BOOLEAN
  /\ call \in [Callers -> Calls]
  /\ reply \in [Callers -> Replies]
  /\ cancelled \subseteq Callers

\* No message is lost, duplicated, invented or overtaken, whichever mix of
\* blocking and try_ calls, closes and cancellations the callers make.
Fifo == sent = received \o q

\* A bounded pipe never holds more than its capacity, try_send included.
CapacityRespected == Capacity > 0 => Len(q) <= Capacity

\* A reader that is told "channel closed" has missed nothing: every message
\* ever accepted has been handed out, and none will be accepted later.
EndOfStream ==
  \A c \in Callers : reply[c] = "chan_recv: channel closed" => closed /\ received = sent

\* Once chan_close has returned no send is accepted, not even one that was
\* already blocked in chan_send when the close came.
ClosedAcceptsNothing == [][closed => sent' = sent]_vars

\* Close and cancellation release whoever is blocked in the pipe: the caller of
\* a closed pipe and the cancelled caller get out of chan_send and chan_recv.
Released ==
  \A c \in Callers : (call[c] # Idle /\ (closed \/ c \in cancelled)) ~> (call[c] = Idle)

\* A pipe is a log read through a cursor: PipeLog says what callers rely on.
Log == INSTANCE PipeLog WITH log <- sent, out <- received, open <- ~closed
ImplementsLog == Log!Spec
=============================================================================
