------------------------------ MODULE AsyncPipe ------------------------------
(***************************************************************************)
(* Async tasks that share one pipe.  AsyncPool and Channel run side by     *)
(* side; what joins them is tls_current_future: chan_send and chan_recv    *)
(* learn of a cancellation only through the future their thread carries.   *)
(***************************************************************************)
EXTENDS AsyncPool

CONSTANTS Capacity, MaxSent

VARIABLES q, closed, call, reply, sent, received

All == {Root} \cup Tasks
pipeVars == <<q, closed, call, reply, sent, received>>

\* The tasks for which tls_current_future && tls_current_future->cancelled.
SeesCancel == {t \in All : \E th \in Threads :
                 stack[th] # <<>> /\ t = Top(th) /\ tls[th] \in cancelled}

Pipe == INSTANCE Channel WITH Callers <- All, Values <- {"m"}, cancelled <- SeesCancel

InScript(t) == call[t] = Pipe!Idle
Executes(th, t) == At(th, t, "run")

\* A task inside a pipe call does nothing else.
PoolStep ==
  /\ \/ \E th \in Threads, t \in All : InScript(t) /\ (Script(th, t) \/ Return(th, t))
     \/ \E th \in Threads, t \in All : Wait(th, t)
     \/ \E w \in Workers : Loop(w)
     \/ InScript(Root) /\ (RootReturn \/ RootThrow)
     \/ Shutdown \/ Terminated
  /\ UNCHANGED pipeVars

EnterPipe(t) == \/ Pipe!Budget /\ Pipe!SendEnter(t, "m")
                \/ Pipe!RecvEnter(t)
                \/ Pipe!Close(t)

PipeStep(th, t) == /\ Executes(th, t)
                   /\ UNCHANGED vars
                   /\ EnterPipe(t) \/ Pipe!Progress(t)

PipeInit == Init /\ Pipe!Init

PipeNext == PoolStep \/ \E th \in Threads, t \in All : PipeStep(th, t)

allVars == <<vars, pipeVars>>
PipeSpec == PipeInit /\ [][PipeNext]_allVars

\* Threads that can run do run; scripts end only if they choose to.
FairPipeSpec ==
  /\ PipeSpec
  /\ \A th \in Threads, t \in All :
        /\ WF_allVars(Wait(th, t) /\ UNCHANGED pipeVars)
        /\ WF_allVars(Executes(th, t) /\ UNCHANGED vars /\ Pipe!Progress(t))
  /\ \A w \in Workers : WF_allVars(Loop(w) /\ UNCHANGED pipeVars)

-----------------------------------------------------------------------------
\* No task is ever thrown out of a pipe on account of another task's future:
\* tls_current_future, when it names a task, names the one that runs.
NoForeignCancel ==
  \A th \in Threads : tls[th] # 0 => stack[th] # <<>> /\ tls[th] = Top(th)

\* "fut.cancel() while a task is blocked in p.receive() / p.send() unblocks
\* that wait" (docs/language.md), unless the process ends first.
CancelUnblocks ==
  \A t \in Tasks : (t \in cancelled /\ ~InScript(t)) ~> (InScript(t) \/ ~Alive)
=============================================================================
