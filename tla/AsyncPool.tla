------------------------------ MODULE AsyncPool ------------------------------
(***************************************************************************)
(* The worker pool behind async actions, the futures they return and the   *)
(* end of Runtime::run.                                                    *)
(*                                                                         *)
(* Main runs the entry action as task 0, Root.  A call of an async action  *)
(* from an async action submits a task; tasks are numbered in the order of *)
(* their push_back.  A thread that awaits runs queued tasks on top of its  *)
(* own stack, so every thread has a stack of tasks, of which the last one  *)
(* runs and the others wait for it to return.                              *)
(*                                                                         *)
(* Runtime::run lets go of the program before it drains the pool.  A task  *)
(* that starts after that runs its body on a null reference: whether that  *)
(* ends the process (Crash) depends on what the body does.                 *)
(*                                                                         *)
(* Left out: busyWorkers and poolSize, which are written and never read;   *)
(* the value a future carries.  Bound of the model: MaxTasks.              *)
(*                                                                         *)
(* A definition whose comment names a mistake is the next definition with  *)
(* that mistake; the properties must reject it.                            *)
(***************************************************************************)
EXTENDS Naturals, Sequences, FiniteSets

CONSTANTS Workers,     \* the pool's threads, at least two
          Main,        \* the thread that called Runtime::run
          MaxTasks,    \* bound of the model: calls that return a future
          Structured,  \* TRUE: a task names only futures it created
          Uses         \* what scripts do besides await: call "result" or "cancel"

ASSUME PoolAssumption ==
  /\ MaxTasks \in Nat
  /\ Workers # {} /\ Main \notin Workers
  /\ Structured \in BOOLEAN /\ Uses \subseteq {"result", "cancel"}

VARIABLES
  submitted,  \* number of tasks submitted so far
  queue,      \* AsyncPoolState.tasks
  stack,      \* the tasks on each thread's call stack
  phase,      \* where each task is
  target,     \* the future a waiting task waits for
  parent,     \* the task that created each future
  done,       \* futures whose done is set
  cancelled,  \* futures whose cancelled is set
  error,      \* FutureState.failed and error
  tls,        \* tls_current_future of each thread, 0 when empty
  pool,       \* AsyncPoolState.started and stopping
  gone,       \* workers that returned
  program,    \* FALSE once currentProgram_ is null again
  blind,      \* tasks whose body was given *currentProgram_ when it was null
  seen        \* history: outcomes reported for each future

futures == <<done, cancelled, error>>
vars == <<submitted, queue, stack, phase, target, parent, futures, tls, pool,
          gone, program, blind, seen>>

Threads == Workers \cup {Main}
Root == 0
Tasks == 1 .. MaxTasks
Waiting == {"help", "pop", "result"}
Over == {"exited", "thrown", "crashed"}

\* A crash takes every thread with it.
Alive == phase[Root] # "crashed"

Top(th) == stack[th][Len(stack[th])]
Pop(s) == SubSeq(s, 1, Len(s) - 1)

\* Task t is on top of thread th's stack and is at p; "run" is script code.
At(th, t, p) == Alive /\ stack[th] # <<>> /\ t = Top(th) /\ phase[t] = p

Resolved(f) == f \in done \/ f \in cancelled

\* What await and result report of a resolved future.
Outcome(f) == IF f \in cancelled /\ f \notin done THEN "cancelled"
              ELSE IF error[f] # "none" THEN error[f] ELSE "value"

\* The futures a task can name: its own, or any, through globals and arguments
\* or because a handle is the text of a number.
Knows(t, f) == f <= submitted /\ (Structured => parent[f] = t)

-----------------------------------------------------------------------------
Submit(n) == queue' = Append(queue, n)

\* A call that is an expression finds the action through currentProgram_, one that
\* is a statement through the reference that the body was given, and drops the
\* handle.  A dropped handle is Root's, who by then has returned.
Creator(t) == IF program THEN t ELSE Root

\* invoke_async_action with returnFuture: the first submission starts the pool.
Spawn(th, t) ==
  /\ At(th, t, "run") /\ t \notin blind /\ submitted < MaxTasks
  /\ submitted' = submitted + 1
  /\ Submit(submitted + 1)
  /\ parent' = [parent EXCEPT ![submitted + 1] = Creator(t)]
  /\ phase' = [phase EXCEPT ![submitted + 1] = "queued"]
  /\ pool' = IF pool = "off" THEN "on" ELSE pool
  /\ UNCHANGED <<stack, target, futures, tls, gone, program, blind, seen>>

\* Leaves tls_current_future set.
ClearNothing(th) == tls' = tls

ClearTls(th) == tls' = [tls EXCEPT ![th] = 0]

\* Forgets a task whose future was cancelled while it was queued.
SkipForgets(n) == UNCHANGED <<done, error>>

Skip(n) == done' = done \cup {n} /\ error' = [error EXCEPT ![n] = "cancelled"]

\* A task taken from the queue starts on thread th.  The test of cancelled
\* belongs to the step: a cancellation before it is one before the pop.  So does
\* the read of currentProgram_: what a task does that was popped in time and read it
\* too late, one may do that read it in time, because Crash is open to both.
Start(th, n, ph) ==
  IF n \in cancelled
  THEN /\ Skip(n)
       /\ phase' = [ph EXCEPT ![n] = "done"]
       /\ ClearTls(th)
       /\ UNCHANGED <<stack, blind>>
  ELSE /\ stack' = [stack EXCEPT ![th] = Append(@, n)]
       /\ phase' = [ph EXCEPT ![n] = "run"]
       /\ tls' = [tls EXCEPT ![th] = n]
       /\ blind' = IF program THEN blind ELSE blind \cup {n}
       /\ UNCHANGED <<done, error>>

\* Copies the front task and leaves it in the queue.
CopyFront == queue' = queue

PopFront == queue' = Tail(queue)

\* async_pool_try_pop
TakeTask(th, ph) ==
  /\ queue # <<>> /\ PopFront
  /\ Start(th, Head(queue), ph)
  /\ UNCHANGED <<submitted, target, parent, cancelled, pool, gone, program, seen>>

\* The worker loop.
WorkerTake(w) == Alive /\ w \notin gone /\ pool # "off" /\ stack[w] = <<>> /\ TakeTask(w, phase)

\* Leaves as soon as the pool stops, whatever is still queued.
MayLeaveEarly == pool = "stopping"

MayLeave == pool = "stopping" /\ queue = <<>>

WorkerExit(w) ==
  /\ Alive /\ w \notin gone /\ stack[w] = <<>> /\ MayLeave
  /\ gone' = gone \cup {w}
  /\ UNCHANGED <<submitted, queue, stack, phase, target, parent, futures, tls, pool, program, blind, seen>>

-----------------------------------------------------------------------------
Move(t, p) == /\ phase' = [phase EXCEPT ![t] = p]
              /\ UNCHANGED <<submitted, queue, stack, parent, futures, tls, pool, gone, program, blind>>

\* Blocks on the future's condition variable without helping.
AwaitWithoutHelp(th, t, f) ==
  /\ At(th, t, "run") /\ Knows(t, f)
  /\ target' = [target EXCEPT ![t] = f]
  /\ Move(t, "result") /\ UNCHANGED seen

\* await_future_value, up to the loop of async_pool_help_while_waiting.
AwaitBegin(th, t, f) ==
  /\ At(th, t, "run") /\ Knows(t, f)
  /\ target' = [target EXCEPT ![t] = f]
  /\ Move(t, "help") /\ UNCHANGED seen

\* The loop looks at the future, lets go of its lock, then tries the queue.
HelpCheck(th, t) ==
  /\ At(th, t, "help") /\ ~Resolved(target[t])
  /\ Move(t, "pop") /\ UNCHANGED <<target, seen>>

\* The popped task runs here; the loop starts over when it returns.
HelpTake(th, t) == At(th, t, "pop") /\ TakeTask(th, [phase EXCEPT ![t] = "help"])

\* Nothing to run: wait a millisecond on the future and look again.
HelpNothing(th, t) ==
  /\ At(th, t, "pop") /\ queue = <<>>
  /\ Move(t, "help") /\ UNCHANGED <<target, seen>>

\* future.result blocks on the future alone.
ResultBegin(th, t, f) ==
  /\ "result" \in Uses /\ At(th, t, "run") /\ Knows(t, f)
  /\ target' = [target EXCEPT ![t] = f]
  /\ Move(t, "result") /\ UNCHANGED seen

\* Takes the millisecond's timeout for the answer.
ObserveTimeout(th, t) ==
  /\ At(th, t, "help") \/ At(th, t, "result")
  /\ seen' = [seen EXCEPT ![target[t]] = @ \cup {Outcome(target[t])}]
  /\ Move(t, "run") /\ UNCHANGED target

\* Once resolved a future stays so: the second look, which reads the outcome,
\* belongs to the step that leaves the wait.
Observe(th, t) ==
  /\ At(th, t, "help") \/ At(th, t, "result")
  /\ Resolved(target[t])
  /\ seen' = [seen EXCEPT ![target[t]] = @ \cup {Outcome(target[t])}]
  /\ Move(t, "run") /\ UNCHANGED target

Cancellable(f) == f \notin done

\* future.cancel; on a future that is done it changes nothing.
Cancel(th, t, f) ==
  /\ "cancel" \in Uses
  /\ At(th, t, "run") /\ Knows(t, f) /\ Cancellable(f)
  /\ cancelled' = cancelled \cup {f}
  /\ error' = [error EXCEPT ![f] = "cancelled"]
  /\ UNCHANGED <<submitted, queue, stack, phase, target, parent, done, tls, pool, gone, program, blind, seen>>

Report(t, how) == IF t \in cancelled THEN "cancelled" ELSE how

\* The task's body returned (how = "none") or threw.
End(th, t, how) ==
  /\ t # Root /\ At(th, t, "run")
  /\ done' = done \cup {t}
  /\ error' = [error EXCEPT ![t] = Report(t, how)]
  /\ phase' = [phase EXCEPT ![t] = "done"]
  /\ stack' = [stack EXCEPT ![th] = Pop(@)]
  /\ ClearTls(th)
  /\ UNCHANGED <<submitted, queue, target, parent, cancelled, pool, gone, program, blind, seen>>

-----------------------------------------------------------------------------
\* The end of Runtime::run, after the entry action and the exit hooks.
RootReturn ==
  /\ At(Main, Root, "run")
  /\ phase' = [phase EXCEPT ![Root] = "returned"]
  /\ program' = FALSE
  /\ UNCHANGED <<submitted, queue, stack, target, parent, futures, tls, pool, gone, blind, seen>>

\* An exception leaves Runtime::run before both of its last statements.
RootThrow ==
  /\ At(Main, Root, "run")
  /\ Move(Root, "thrown") /\ UNCHANGED <<target, seen>>

\* Joins without having told the workers.
StopSilently == pool

Stop == IF pool = "off" THEN "off" ELSE "stopping"

\* async_pool_shutdown; a pool that never started has nothing to stop.
StopPool ==
  /\ At(Main, Root, "returned")
  /\ pool' = Stop
  /\ phase' = [phase EXCEPT ![Root] = IF pool = "off" THEN "exited" ELSE "joining"]
  /\ UNCHANGED <<submitted, queue, stack, target, parent, futures, tls, gone, program, blind, seen>>

JoinWorkers ==
  /\ At(Main, Root, "joining") /\ gone = Workers
  /\ pool' = "off" /\ gone' = {} /\ queue' = <<>>
  /\ phase' = [phase EXCEPT ![Root] = "exited"]
  /\ UNCHANGED <<submitted, stack, target, parent, futures, tls, program, blind, seen>>

\* A task reads the program when there is none: a blind one in any statement that
\* looks something up, any other in map, filter, reduce or the method of an enum,
\* which pass *currentProgram_ on, or between their test of it and their use.
Crash(th, t) ==
  /\ At(th, t, "run") /\ ~program
  /\ Move(Root, "crashed") /\ UNCHANGED <<target, seen>>

Terminated == phase[Root] \in Over /\ UNCHANGED vars

-----------------------------------------------------------------------------
Init ==
  /\ submitted = 0 /\ queue = <<>>
  /\ stack = [th \in Threads |-> IF th = Main THEN <<Root>> ELSE <<>>]
  /\ phase = [t \in {Root} \cup Tasks |-> IF t = Root THEN "run" ELSE "none"]
  /\ target = [t \in {Root} \cup Tasks |-> 0]
  /\ parent = [f \in Tasks |-> 0]
  /\ done = {} /\ cancelled = {} /\ error = [f \in Tasks |-> "none"]
  /\ tls = [th \in Threads |-> 0]
  /\ pool = "off" /\ gone = {} /\ program = TRUE /\ blind = {}
  /\ seen = [f \in Tasks |-> {}]

\* What script code chooses to do.
Script(th, t) ==
  \/ Spawn(th, t) \/ Crash(th, t)
  \/ \E f \in Tasks : AwaitBegin(th, t, f) \/ ResultBegin(th, t, f) \/ Cancel(th, t, f)

Return(th, t) == \E how \in {"none", "thrown"} : End(th, t, how)

\* What the runtime does by itself.
Wait(th, t) == HelpCheck(th, t) \/ HelpTake(th, t) \/ HelpNothing(th, t) \/ Observe(th, t)
Loop(w) == WorkerTake(w) \/ WorkerExit(w)
Shutdown == StopPool \/ JoinWorkers

Next ==
  \/ \E th \in Threads, t \in {Root} \cup Tasks : Script(th, t) \/ Return(th, t) \/ Wait(th, t)
  \/ \E w \in Workers : Loop(w)
  \/ RootReturn \/ RootThrow \/ Shutdown
  \/ Terminated

Spec == Init /\ [][Next]_vars

\* Threads that can run do run (weak fairness), and no action goes on forever
\* awaiting what is already resolved (strong fairness of its return).
FairSpec ==
  /\ Spec
  /\ \A th \in Threads, t \in {Root} \cup Tasks :
        WF_vars(Wait(th, t)) /\ SF_vars(Return(th, t))
  /\ \A w \in Workers : WF_vars(Loop(w))
  /\ SF_vars(RootReturn \/ RootThrow) /\ WF_vars(Shutdown)

-----------------------------------------------------------------------------
Phases == {"none", "queued", "run", "help", "pop", "result", "done",
           "returned", "joining", "exited", "thrown", "crashed"}

TypeOK ==
  /\ submitted \in 0 .. MaxTasks
  /\ queue \in Seq(Tasks)
  /\ stack \in [Threads -> Seq({Root} \cup Tasks)]
  /\ phase \in [{Root} \cup Tasks -> Phases]
  /\ target \in [{Root} \cup Tasks -> {Root} \cup Tasks]
  /\ parent \in [Tasks -> {Root} \cup Tasks]
  /\ done \subseteq Tasks /\ cancelled \subseteq Tasks
  /\ error \in [Tasks -> {"none", "cancelled", "thrown"}]
  /\ tls \in [Threads -> {Root} \cup Tasks]
  /\ pool \in {"off", "on", "stopping"}
  /\ gone \subseteq Workers
  /\ program \in BOOLEAN /\ blind \subseteq Tasks
  /\ seen \in [Tasks -> SUBSET {"value", "thrown", "cancelled"}]

InQueue(n) == {i \in DOMAIN queue : queue[i] = n}
OnStacks(n) == {p \in Threads \X (1 .. MaxTasks + 1) :
                  p[2] \in DOMAIN stack[p[1]] /\ stack[p[1]][p[2]] = n}

\* Every task is run once, by one thread: workers and helpers that race for
\* the queue never take the same task, and none drops out of it.
RunOnce ==
  \A n \in Tasks :
    /\ Cardinality(InQueue(n)) = IF phase[n] = "queued" THEN 1 ELSE 0
    /\ Cardinality(OnStacks(n)) = IF phase[n] \in {"run"} \cup Waiting THEN 1 ELSE 0

\* A thread that helps only ever nests younger tasks on top of older ones,
\* because the queue is first in, first out.
HelpersNest ==
  \A th \in Threads : \A i, j \in DOMAIN stack[th] : i < j => stack[th][i] < stack[th][j]

\* All observers of a future are told the same, however its cancellation
\* races with its end and with their waits.
OneOutcome == \A f \in Tasks : Cardinality(seen[f]) <= 1

\* A cancellation that found the future not done is final: no observer ever
\* sees a value or another error, however far the task had come.
CancelIsFinal == \A f \in cancelled : seen[f] \subseteq {"cancelled"}

\* Its creator ended without having been told of its end, or it was cancelled.
LeftBehind(f) == parent[f] \in done \cup {Root} /\ (seen[f] = {} \/ f \in cancelled)

AllDone == done = 1 .. submitted /\ queue = <<>>

\* How run() ends: normally only with every submitted task done, the ones included
\* that ran without a program and that running tasks still submitted; by a task that
\* misses the program only when something was left behind.  Scripts that await all
\* that they create, and cancel nothing, are safe from its going away.
ExitDrained ==
  /\ phase[Root] = "exited" => AllDone
  /\ ~Alive => \E f \in 1 .. submitted : LeftBehind(f)

CanStep(th) ==
  \/ /\ th \in Workers \ gone /\ stack[th] = <<>> /\ pool # "off"
     /\ queue # <<>> \/ pool = "stopping"
  \/ \E t \in {Root} \cup Tasks :
       \/ At(th, t, "run")
       \/ /\ At(th, t, "help") \/ At(th, t, "pop")
          /\ Resolved(target[t]) \/ queue # <<>>
       \/ At(th, t, "result") /\ Resolved(target[t])
       \/ At(th, t, "returned")
       \/ At(th, t, "joining") /\ gone = Workers

Stuck == phase[Root] \notin Over /\ \A th \in Threads : ~CanStep(th)

\* The scripts themselves wait in a cycle, whatever the pool does.
AwaitCycle ==
  \E D \in SUBSET ({Root} \cup Tasks) : D # {} /\
    \A t \in D : phase[t] \in Waiting /\ target[t] \in D /\ ~Resolved(target[t])

\* "The worker helps run other queued tasks so the pool does not deadlock":
\* when everything stands still it is the scripts' own doing.
HelpingNeverDeadlocks == Stuck => AwaitCycle

\* Every submitted task comes to an end, its own or that of the process.
EveryTaskSettles == \A f \in Tasks : (phase[f] = "queued") ~> (f \in done \/ ~Alive)

\* async_pool_shutdown returns, unless a task that it drains ends the process.
RunReturns == (phase[Root] = "returned") ~> (phase[Root] = "exited" \/ ~Alive)

\* The futures of the pool are the futures of Futures.
FutureState(f) == IF f > submitted THEN "free"
                  ELSE IF f \in cancelled THEN "cancelled"
                  ELSE IF f \notin done THEN "pending"
                  ELSE IF error[f] = "none" THEN "value" ELSE error[f]
Promise == INSTANCE Futures WITH Ids <- Tasks,
                                 state <- [f \in Tasks |-> FutureState(f)]
ImplementsFutures == Promise!Spec
=============================================================================
