-------------------------- MODULE AsyncPoolProofs --------------------------
(***************************************************************************)
(* Theorems about AsyncPool for every set of workers and number of tasks:  *)
(* types, the nesting of helpers, the finality of outcomes, that the       *)
(* futures of the pool implement Futures, that tasks run once, that        *)
(* helping never deadlocks, and how run() ends: with all tasks done, or by *)
(* a task that somebody left behind and that misses the program.  The last *)
(* theorems are about the pool composed with a pipe (AsyncPipe).           *)
(***************************************************************************)
EXTENDS AsyncPipe, SequenceTheorems, FiniteSetTheorems, WellFoundedInduction, TLAPS

Everyone == {Root} \cup Tasks

\* The next-state relation, one disjunct per action.
LEMMA NextCases ==
  ASSUME Next
  PROVE  \/ \E th \in Threads, t \in Everyone : Spawn(th, t) \/ Crash(th, t)
         \/ \E th \in Threads, t \in Everyone, f \in Tasks :
               AwaitBegin(th, t, f) \/ ResultBegin(th, t, f) \/ Cancel(th, t, f)
         \/ \E th \in Threads, t \in Everyone, how \in {"none", "thrown"} : End(th, t, how)
         \/ \E th \in Threads, t \in Everyone :
               HelpCheck(th, t) \/ HelpTake(th, t) \/ HelpNothing(th, t) \/ Observe(th, t)
         \/ \E w \in Workers : WorkerTake(w) \/ WorkerExit(w)
         \/ RootReturn \/ RootThrow \/ StopPool \/ JoinWorkers \/ Terminated
BY DEF Next, Script, Return, Wait, Loop, Shutdown, Everyone

\* A crash is a step of the process, which is Root's, and leaves all else as it is.
LEMMA CrashFrame ==
  ASSUME phase \in [Everyone -> Phases], NEW th, NEW t, Crash(th, t)
  PROVE  /\ phase' \in [Everyone -> Phases] /\ phase' = [phase EXCEPT ![Root] = "crashed"]
         /\ phase'[Root] = "crashed" /\ \A f \in Tasks : phase'[f] = phase[f]
         /\ UNCHANGED <<submitted, queue, stack, target, parent, done, cancelled, error, tls,
                        pool, gone, program, blind, seen>>
BY DEF Crash, Move, Phases, Everyone, Tasks, Root, futures

\* What a thread that is somewhere runs.
LEMMA TopTyped ==
  ASSUME TypeOK, NEW th \in Threads, stack[th] # <<>>
  PROVE  Top(th) \in Everyone /\ Len(stack[th]) \in DOMAIN stack[th]
<1>1. stack[th] \in Seq(Everyone)
  BY DEF TypeOK, Everyone
<1>2. Len(stack[th]) \in Nat \ {0} /\ DOMAIN stack[th] = 1 .. Len(stack[th])
  BY <1>1, EmptySeq, LenProperties
<1> QED
  BY <1>1, <1>2, ElementOfSeq DEF Top

LEMMA PopTyped ==
  ASSUME NEW s \in Seq(Everyone), s # <<>>
  PROVE  /\ Pop(s) \in Seq(Everyone)
         /\ Len(Pop(s)) = Len(s) - 1
         /\ \A i \in 1 .. Len(s) - 1 : Pop(s)[i] = s[i]
<1> DEFINE n == Len(s) - 1
<1>1. Len(s) \in Nat \ {0} /\ n \in Int /\ 1 \in Int
  BY EmptySeq
<1>2. ASSUME NEW i \in 1 .. n PROVE s[i] \in Everyone
  <2>1. i \in 1 .. Len(s)
    BY <1>1
  <2> QED BY <2>1, ElementOfSeq
<1>3. \A i \in 1 .. n : s[i] \in Everyone
  BY <1>2
<1> HIDE DEF n
<1>4. SubSeq(s, 1, n) \in Seq(Everyone)
  BY <1>1, <1>3, SubSeqProperties, Zenon
<1>5. Len(SubSeq(s, 1, n)) = IF 1 <= n THEN n-1+1 ELSE 0
  BY <1>1, <1>3, SubSeqProperties
<1>6. \A i \in 1 .. n-1+1 : SubSeq(s,1,n)[i] = s[1+i-1]
  BY <1>1, <1>3, SubSeqProperties
<1>7. Len(SubSeq(s, 1, n)) = n /\ \A i \in 1 .. n : SubSeq(s, 1, n)[i] = s[i]
  <2>1. n - 1 + 1 = n /\ (1 <= n \/ n = 0)
    <3>1. n \in Nat
      BY <1>1 DEF n
    <3> QED BY <3>1
  <2>2. \A i \in 1 .. n : 1 + i - 1 = i
    BY <1>1
  <2> QED
    BY <1>1, <1>5, <1>6, <2>1, <2>2
<1> QED BY <1>4, <1>7 DEF Pop, n

-----------------------------------------------------------------------------
LEMMA InitTypes == Init => TypeOK
<1> SUFFICES ASSUME Init PROVE TypeOK
  OBVIOUS
<1>1. <<>> \in Seq(Tasks) /\ <<>> \in Seq(Everyone) /\ <<Root>> \in Seq(Everyone)
  BY EmptySeq DEF Everyone
<1>2. stack \in [Threads -> Seq({Root} \cup Tasks)]
  BY <1>1 DEF Init, Everyone
<1>3. phase \in [{Root} \cup Tasks -> Phases] /\ target \in [{Root} \cup Tasks -> {Root} \cup Tasks]
  BY DEF Init, Phases, Root
<1>4. submitted \in 0 .. MaxTasks
  BY PoolAssumption DEF Init
<1> QED
  BY <1>1, <1>2, <1>3, <1>4 DEF Init, TypeOK, Root

\* A task taken from the queue.
LEMMA TakeTypes ==
  ASSUME TypeOK, NEW th \in Threads, NEW ph \in [Everyone -> Phases], TakeTask(th, ph)
  PROVE  TypeOK'
<1> DEFINE n == Head(queue)
<1>1. n \in Tasks /\ queue' \in Seq(Tasks)
  BY HeadTailProperties DEF TypeOK, TakeTask, PopFront
<1>2. Append(stack[th], n) \in Seq(Everyone)
  BY <1>1, AppendProperties DEF TypeOK, Everyone
<1>3. stack' \in [Threads -> Seq(Everyone)]
  BY <1>2 DEF TypeOK, TakeTask, Start, Everyone
<1>4. phase' \in [Everyone -> Phases]
  BY <1>1 DEF TakeTask, Start, Everyone, Phases
<1>6. tls' \in [Threads -> Everyone]
  <2>1. tls \in [Threads -> Everyone] /\ 0 \in Everyone /\ n \in Everyone
    BY <1>1 DEF TypeOK, Everyone, Root
  <2> QED
    BY <2>1 DEF TakeTask, Start, ClearTls
<1>5. done' \subseteq Tasks /\ error' \in [Tasks -> {"none", "cancelled", "thrown"}]
  BY <1>1 DEF TypeOK, TakeTask, Start, Skip
<1>7. blind' \subseteq Tasks
  BY <1>1 DEF TypeOK, TakeTask, Start
<1> QED
  BY <1>1, <1>3, <1>4, <1>5, <1>6, <1>7 DEF TypeOK, TakeTask, Everyone

LEMMA NextTypes == TypeOK /\ [Next]_vars => TypeOK'
<1> SUFFICES ASSUME TypeOK, [Next]_vars PROVE TypeOK'
  OBVIOUS
<1> USE DEF Everyone
<1>1. ASSUME NEW th \in Threads, NEW t \in Everyone, Spawn(th, t) PROVE TypeOK'
  <2>1. submitted + 1 \in Tasks /\ submitted' \in 0 .. MaxTasks
    BY <1>1, PoolAssumption DEF Spawn, TypeOK, Tasks
  <2>2. queue' \in Seq(Tasks)
    BY <1>1, <2>1, AppendProperties DEF Spawn, Submit, TypeOK
  <2>3. phase' \in [Everyone -> Phases] /\ parent' \in [Tasks -> Everyone]
    BY <1>1, <2>1 DEF Spawn, Creator, TypeOK, Phases
  <2> QED
    BY <1>1, <2>1, <2>2, <2>3 DEF Spawn, TypeOK, futures
<1>2. ASSUME NEW th \in Threads, NEW t \in Everyone, NEW f \in Tasks,
             AwaitBegin(th, t, f) \/ ResultBegin(th, t, f)
      PROVE  TypeOK'
  BY <1>2 DEF AwaitBegin, ResultBegin, Move, TypeOK, Phases, futures
<1>3. ASSUME NEW th \in Threads, NEW t \in Everyone, NEW f \in Tasks, Cancel(th, t, f)
      PROVE  TypeOK'
  BY <1>3 DEF Cancel, TypeOK
<1>4. ASSUME NEW th \in Threads, NEW t \in Everyone, NEW how \in {"none", "thrown"},
             End(th, t, how)
      PROVE  TypeOK'
  <2>1. t \in Tasks /\ stack[th] # <<>>
    BY <1>4 DEF End, At
  <2>2. Pop(stack[th]) \in Seq(Everyone)
    BY <2>1, PopTyped DEF TypeOK
  <2>3. stack' \in [Threads -> Seq(Everyone)]
    BY <1>4, <2>2 DEF End, TypeOK
  <2>4. tls' \in [Threads -> Everyone]
    BY <1>4 DEF End, ClearTls, TypeOK, Root
  <2> QED
    BY <1>4, <2>1, <2>3, <2>4 DEF End, Report, TypeOK, Phases
<1>5. ASSUME NEW th \in Threads, NEW t \in Everyone, HelpCheck(th, t) \/ HelpNothing(th, t)
      PROVE  TypeOK'
  BY <1>5 DEF HelpCheck, HelpNothing, Move, TypeOK, Phases, futures
<1>6. ASSUME NEW th \in Threads, NEW t \in Everyone, HelpTake(th, t) PROVE TypeOK'
  <2>1. [phase EXCEPT ![t] = "help"] \in [Everyone -> Phases]
    BY DEF TypeOK, Phases
  <2> QED
    BY <1>6, <2>1, TakeTypes DEF HelpTake
<1>7. ASSUME NEW th \in Threads, NEW t \in Everyone, Observe(th, t) PROVE TypeOK'
  <2>1. target[t] \in Tasks
    BY <1>7 DEF Observe, Resolved, TypeOK
  <2>2. Outcome(target[t]) \in {"value", "thrown", "cancelled"}
    BY <2>1 DEF Outcome, TypeOK
  <2>3. seen' \in [Tasks -> SUBSET {"value", "thrown", "cancelled"}]
    BY <1>7, <2>1, <2>2 DEF Observe, TypeOK
  <2>4. phase' \in [Everyone -> Phases]
    BY <1>7 DEF Observe, Move, TypeOK, Phases
  <2> QED
    BY <1>7, <2>3, <2>4 DEF Observe, Move, TypeOK, futures
<1>8. ASSUME NEW w \in Workers, WorkerTake(w) PROVE TypeOK'
  BY <1>8, TakeTypes DEF WorkerTake, TypeOK, Threads
<1>9. ASSUME NEW w \in Workers, WorkerExit(w) PROVE TypeOK'
  BY <1>9 DEF WorkerExit, TypeOK, futures
<1>10. CASE RootReturn \/ RootThrow
  BY <1>10 DEF RootReturn, RootThrow, Move, TypeOK, Phases, futures
<1>11. CASE StopPool \/ JoinWorkers
  <2>1. queue' \in Seq(Tasks)
    <3>1. <<>> \in Seq(Tasks)
      BY EmptySeq
    <3> QED
      BY <1>11, <3>1 DEF StopPool, JoinWorkers, TypeOK
  <2>2. phase' \in [Everyone -> Phases]
    <3>1. PICK p \in {"exited", "joining"} : phase' = [phase EXCEPT ![Root] = p]
      BY <1>11 DEF StopPool, JoinWorkers
    <3> QED
      BY <3>1 DEF TypeOK, Phases
  <2>3. pool' \in {"off", "on", "stopping"} /\ gone' \subseteq Workers
    BY <1>11 DEF StopPool, JoinWorkers, Stop, TypeOK
  <2> QED
    BY <1>11, <2>1, <2>2, <2>3 DEF StopPool, JoinWorkers, TypeOK, futures
<1>12. CASE Terminated \/ UNCHANGED vars
  BY <1>12 DEF Terminated, vars, TypeOK, futures
<1>13. ASSUME NEW th \in Threads, NEW t \in Everyone, Crash(th, t) PROVE TypeOK'
  BY <1>13, CrashFrame DEF TypeOK
<1> QED
  BY <1>1, <1>2, <1>3, <1>4, <1>5, <1>6, <1>7, <1>8, <1>9, <1>10, <1>11, <1>12, <1>13, NextCases

\* Every reachable state of the pool is well typed.
THEOREM TypeCorrect == Spec => []TypeOK
BY InitTypes, NextTypes, PTL DEF Spec

-----------------------------------------------------------------------------
(***************************************************************************)
(* Helpers nest because the queue is first in, first out: it rises, and    *)
(* every task in it was submitted after every task on a stack.             *)
(***************************************************************************)
Rising(s) == \A i, j \in 1 .. Len(s) : i < j => s[i] < s[j]
Below(s, n) == \A i \in 1 .. Len(s) : s[i] < n
Above(s, r) == \A i \in 1 .. Len(s) : Below(r, s[i])

Ordered ==
  /\ Rising(queue) /\ Below(queue, submitted + 1)
  /\ \A th \in Threads : /\ Rising(stack[th]) /\ Below(stack[th], submitted + 1)
                         /\ Above(queue, stack[th])

LEMMA NatTasks == Everyone \subseteq Nat /\ Tasks \subseteq Everyone
BY PoolAssumption DEF Everyone, Tasks, Root

LEMMA RisingAppend ==
  ASSUME NEW s \in Seq(Everyone), NEW n \in Everyone, Rising(s), Below(s, n)
  PROVE  Rising(Append(s, n)) /\ Below(Append(s, n), n + 1)
<1>1. /\ Len(s) \in Nat /\ Len(Append(s, n)) = Len(s) + 1
      /\ \A i \in 1 .. Len(s) : Append(s, n)[i] = s[i]
      /\ Append(s, n)[Len(s) + 1] = n
  BY AppendProperties, LenProperties
<1>2. n \in Nat /\ \A i \in 1 .. Len(s) : s[i] \in Nat
  BY NatTasks, ElementOfSeq
<1> QED
  BY <1>1, <1>2 DEF Rising, Below

LEMMA RisingTail ==
  ASSUME NEW s \in Seq(Tasks), s # <<>>, Rising(s)
  PROVE  Rising(Tail(s)) /\ Above(Tail(s), <<Head(s)>>)
<1>1. /\ Len(s) \in Nat \ {0} /\ Len(Tail(s)) = Len(s) - 1 /\ Head(s) = s[1]
      /\ \A i \in 1 .. Len(Tail(s)) : Tail(s)[i] = s[i + 1]
  BY HeadTailProperties, EmptySeq
<1>2. \A i \in 1 .. Len(s) : s[i] \in Nat
  BY NatTasks, ElementOfSeq
<1> QED
  BY <1>1, <1>2 DEF Rising, Above, Below

\* A task leaves the front of the queue, for nowhere or for the top of a stack.
LEMMA TakeOrdered ==
  ASSUME TypeOK, Ordered, NEW th \in Threads, NEW ph, TakeTask(th, ph)
  PROVE  Ordered'
<1> DEFINE n == Head(queue)
<1>1. /\ queue # <<>> /\ queue' = Tail(queue) /\ submitted' = submitted
      /\ stack' = stack \/ stack' = [stack EXCEPT ![th] = Append(@, n)]
  BY DEF TakeTask, PopFront, Start
<1>2. /\ queue \in Seq(Tasks) /\ stack \in [Threads -> Seq(Everyone)]
      /\ submitted \in Nat /\ n \in Everyone /\ n \in Nat
  BY <1>1, HeadTailProperties, NatTasks, PoolAssumption DEF TypeOK, Everyone
<1>3. /\ Len(queue) \in Nat \ {0} /\ Len(Tail(queue)) = Len(queue) - 1 /\ n = queue[1]
      /\ \A i \in 1 .. Len(queue) - 1 : Tail(queue)[i] = queue[i + 1]
  BY <1>1, <1>2, HeadTailProperties, EmptySeq
<1>4. Rising(Tail(queue)) /\ Above(Tail(queue), <<n>>)
  BY <1>1, <1>2, RisingTail DEF Ordered
<1>5. Below(Tail(queue), submitted + 1) /\ n < submitted + 1
  BY <1>3 DEF Ordered, Below
<1>6. ASSUME NEW u \in Threads
      PROVE  Above(Tail(queue), stack[u]) /\ Below(stack[u], n)
  BY <1>3 DEF Ordered, Above
<1>7. ASSUME NEW u \in Threads
      PROVE  /\ Rising(Append(stack[u], n)) /\ Below(Append(stack[u], n), submitted + 1)
             /\ Above(Tail(queue), Append(stack[u], n))
  <2>1. Rising(Append(stack[u], n)) /\ Below(Append(stack[u], n), n + 1)
    BY <1>2, <1>6, RisingAppend DEF Ordered
  <2>2. /\ Len(stack[u]) \in Nat /\ Len(Append(stack[u], n)) = Len(stack[u]) + 1
        /\ \A i \in 1 .. Len(stack[u]) : Append(stack[u], n)[i] = stack[u][i]
        /\ Append(stack[u], n)[Len(stack[u]) + 1] = n
    BY <1>2, AppendProperties, LenProperties
  <2>3. Below(Append(stack[u], n), submitted + 1)
    BY <1>5, <2>2 DEF Ordered, Below
  <2>4. ASSUME NEW i \in 1 .. Len(Tail(queue)) PROVE Below(Append(stack[u], n), Tail(queue)[i])
    <3>1. Below(stack[u], Tail(queue)[i]) /\ n < Tail(queue)[i]
      BY <1>3, <1>4, <1>6 DEF Above, Below
    <3> QED
      BY <2>2, <3>1 DEF Below
  <2> QED
    BY <2>1, <2>3, <2>4 DEF Above
<1>8. ASSUME NEW u \in Threads
      PROVE  /\ Rising(stack'[u]) /\ Below(stack'[u], submitted + 1)
             /\ Above(Tail(queue), stack'[u])
  <2>1. CASE stack'[u] = stack[u]
    BY <2>1, <1>6 DEF Ordered
  <2>2. CASE stack'[u] = Append(stack[u], n)
    BY <2>2, <1>7
  <2> QED
    BY <1>1, <1>2, <2>1, <2>2
<1> QED
  BY <1>1, <1>4, <1>5, <1>8 DEF Ordered

LEMMA PopOrdered ==
  ASSUME NEW s \in Seq(Everyone), s # <<>>, NEW qs \in Seq(Tasks), NEW m \in Nat,
         Rising(s), Below(s, m), Above(qs, s)
  PROVE  Rising(Pop(s)) /\ Below(Pop(s), m) /\ Above(qs, Pop(s))
<1>1. Len(s) \in Nat /\ Len(Pop(s)) = Len(s) - 1 /\ \A i \in 1 .. Len(s) - 1 : Pop(s)[i] = s[i]
  BY PopTyped, LenProperties
<1>2. \A n : Below(s, n) => Below(Pop(s), n)
  BY <1>1 DEF Below
<1>3. Rising(Pop(s))
  BY <1>1 DEF Rising
<1> QED
  BY <1>2, <1>3 DEF Above

LEMMA InitOrdered == Init => Ordered
<1> SUFFICES ASSUME Init PROVE Ordered
  OBVIOUS
<1>1. Len(queue) = 0 /\ submitted = 0
  BY EmptySeq DEF Init
<1>2. ASSUME NEW th \in Threads PROVE Rising(stack[th]) /\ Below(stack[th], 1)
  <2>1. CASE stack[th] = <<>>
    BY <2>1, EmptySeq DEF Rising, Below
  <2>2. CASE stack[th] = <<Root>>
    <3>1. Len(<<Root>>) = 1 /\ <<Root>>[1] = 0
      BY DEF Root
    <3> QED
      BY <2>2, <3>1 DEF Rising, Below
  <2> QED
    BY <2>1, <2>2 DEF Init
<1> QED
  BY <1>1, <1>2 DEF Ordered, Rising, Below, Above

LEMMA NextOrdered == TypeOK /\ Ordered /\ [Next]_vars => Ordered'
<1> SUFFICES ASSUME TypeOK, Ordered, [Next]_vars PROVE Ordered'
  OBVIOUS
<1>0. ASSUME UNCHANGED <<submitted, queue, stack>> PROVE Ordered'
  BY <1>0 DEF Ordered
<1>1. ASSUME NEW th \in Threads, NEW t \in Everyone, Spawn(th, t) PROVE Ordered'
  <2> DEFINE n == submitted + 1
  <2>1. /\ queue \in Seq(Tasks) /\ submitted \in Nat /\ n \in Tasks
        /\ submitted' = n /\ queue' = Append(queue, n) /\ stack' = stack
    BY <1>1, PoolAssumption DEF Spawn, Submit, TypeOK, Tasks
  <2>2. queue \in Seq(Everyone) /\ n \in Everyone
    BY <2>1 DEF Everyone
  <2>3. Rising(queue') /\ Below(queue', n + 1)
    BY <2>1, <2>2, RisingAppend DEF Ordered
  <2>4. /\ Len(queue) \in Nat /\ Len(queue') = Len(queue) + 1
        /\ \A i \in 1 .. Len(queue) : queue'[i] = queue[i]
        /\ queue'[Len(queue) + 1] = n
    BY <2>1, AppendProperties, LenProperties
  <2>5. ASSUME NEW u \in Threads PROVE Below(stack[u], n + 1) /\ Above(queue', stack[u])
    <3>1. \A i \in 1 .. Len(stack[u]) : stack[u][i] \in Nat
      BY NatTasks, ElementOfSeq DEF TypeOK, Everyone
    <3>2. Below(stack[u], n) /\ Above(queue, stack[u])
      BY DEF Ordered
    <3>3. Below(stack[u], n + 1)
      BY <2>1, <3>1, <3>2 DEF Below
    <3> QED
      BY <2>4, <3>2, <3>3 DEF Above
  <2> QED
    BY <2>1, <2>3, <2>5 DEF Ordered
<1>2. ASSUME NEW th \in Threads, NEW t \in Everyone, NEW how, End(th, t, how) PROVE Ordered'
  <2>1. /\ stack[th] \in Seq(Everyone) /\ stack[th] # <<>> /\ queue \in Seq(Tasks)
        /\ submitted + 1 \in Nat
        /\ stack' = [stack EXCEPT ![th] = Pop(@)] /\ UNCHANGED <<submitted, queue>>
    BY <1>2, PoolAssumption DEF End, At, TypeOK, Everyone
  <2>2. ASSUME NEW u \in Threads
        PROVE  Rising(stack'[u]) /\ Below(stack'[u], submitted + 1) /\ Above(queue, stack'[u])
    <3>1. CASE stack'[u] = stack[u]
      BY <3>1 DEF Ordered
    <3>2. CASE u = th /\ stack'[u] = Pop(stack[u])
      BY <2>1, <3>2, PopOrdered DEF Ordered
    <3> QED
      BY <2>1, <3>1, <3>2 DEF TypeOK
  <2> QED
    BY <2>1, <2>2 DEF Ordered
<1>3. ASSUME NEW th \in Threads, NEW t \in Everyone, HelpTake(th, t) PROVE Ordered'
  BY <1>3, TakeOrdered DEF HelpTake
<1>4. ASSUME NEW w \in Workers, WorkerTake(w) PROVE Ordered'
  BY <1>4, TakeOrdered DEF WorkerTake, Threads
<1>5. CASE JoinWorkers
  <2>1. queue' = <<>> /\ Len(queue') = 0 /\ UNCHANGED <<submitted, stack>>
    BY <1>5, EmptySeq DEF JoinWorkers
  <2> QED
    BY <2>1 DEF Ordered, Rising, Below, Above
<1>6. ASSUME NEW th \in Threads, NEW t \in Everyone, NEW f \in Tasks,
             AwaitBegin(th, t, f) \/ ResultBegin(th, t, f) \/ Cancel(th, t, f)
      PROVE  Ordered'
  BY <1>0, <1>6 DEF AwaitBegin, ResultBegin, Cancel, Move
<1>7. ASSUME NEW th \in Threads, NEW t \in Everyone,
             HelpCheck(th, t) \/ HelpNothing(th, t) \/ Observe(th, t)
      PROVE  Ordered'
  BY <1>0, <1>7 DEF HelpCheck, HelpNothing, Observe, Move
<1>8. ASSUME NEW w \in Workers, WorkerExit(w) PROVE Ordered'
  BY <1>0, <1>8 DEF WorkerExit
<1>9. CASE RootReturn \/ RootThrow \/ StopPool \/ Terminated \/ UNCHANGED vars
  BY <1>0, <1>9 DEF RootReturn, RootThrow, Move, StopPool, Terminated, vars
<1>10. ASSUME NEW th \in Threads, NEW t \in Everyone, Crash(th, t) PROVE Ordered'
  BY <1>0, <1>10 DEF Crash, Move
<1> QED
  BY <1>1, <1>2, <1>3, <1>4, <1>5, <1>6, <1>7, <1>8, <1>9, <1>10, NextCases

\* Whatever the scripts await and however the workers are scheduled, a thread
\* that helps only nests younger tasks on top of older ones.
THEOREM Nesting == Spec => []HelpersNest
<1>1. TypeOK /\ Ordered => HelpersNest
  <2> SUFFICES ASSUME TypeOK, Ordered, NEW th \in Threads PROVE
               \A i, j \in DOMAIN stack[th] : i < j => stack[th][i] < stack[th][j]
    BY DEF HelpersNest
  <2>1. DOMAIN stack[th] = 1 .. Len(stack[th])
    BY LenProperties DEF TypeOK
  <2> QED
    BY <2>1 DEF Ordered, Rising
<1>2. Init => TypeOK /\ Ordered
  BY InitTypes, InitOrdered
<1>3. TypeOK /\ Ordered /\ [Next]_vars => (TypeOK /\ Ordered)'
  BY NextTypes, NextOrdered
<1> QED
  BY <1>1, <1>2, <1>3, PTL DEF Spec

-----------------------------------------------------------------------------
(***************************************************************************)
(* Outcomes.  A future moves one way: numbered, queued, running, done; a   *)
(* cancellation may strike until it is done and leaves its error behind.   *)
(***************************************************************************)
Placed ==
  /\ \A f \in Tasks : f > submitted => f \notin done /\ f \notin cancelled
  /\ \A i \in 1 .. Len(queue) : phase[queue[i]] = "queued"
  /\ \A f \in done : phase[f] = "done"
  /\ \A f \in cancelled : error[f] = "cancelled"

Reported == \A f \in Tasks : \A o \in seen[f] : Resolved(f) /\ o = Outcome(f)

\* A task that is taken is at the front of the queue, and nowhere behind it.
LEMMA TakePlaced ==
  ASSUME TypeOK, Ordered, Placed, NEW th \in Threads,
         NEW ph \in [Everyone -> Phases], TakeTask(th, ph),
         \A f \in Tasks : phase[f] \in {"queued", "done"} => ph[f] = phase[f]
  PROVE  Placed'
<1> DEFINE n == Head(queue)
<1>1. /\ queue \in Seq(Tasks) /\ queue # <<>> /\ queue' = Tail(queue) /\ n \in Tasks
      /\ submitted' = submitted /\ cancelled' = cancelled
  BY HeadTailProperties DEF TakeTask, PopFront, TypeOK
<1>2. /\ Len(queue) \in Nat \ {0} /\ Len(queue') = Len(queue) - 1 /\ n = queue[1]
      /\ \A i \in 1 .. Len(queue) - 1 : queue'[i] = queue[i + 1]
  BY <1>1, HeadTailProperties, EmptySeq
<1>3. n <= submitted /\ \A i \in 1 .. Len(queue') : queue'[i] \in Tasks /\ queue'[i] # n
  <2>1. n < submitted + 1 /\ n \in Nat /\ submitted \in Nat
    <3>1. n \in Nat
      BY <1>1, NatTasks
    <3>2. submitted \in Nat
      BY PoolAssumption DEF TypeOK
    <3>3. 1 \in 1 .. Len(queue)
      BY <1>2
    <3> QED
      BY <1>2, <3>1, <3>2, <3>3 DEF Ordered, Below
  <2>2. ASSUME NEW i \in 1 .. Len(queue') PROVE queue'[i] \in Tasks /\ queue'[i] # n
    <3>1. /\ 1 \in 1 .. Len(queue) /\ i + 1 \in 1 .. Len(queue) /\ 1 < i + 1
          /\ queue'[i] = queue[i + 1]
      BY <1>2
    <3>2. queue[i + 1] \in Tasks /\ n < queue[i + 1]
      BY <1>1, <1>2, <3>1, ElementOfSeq DEF Ordered, Rising
    <3> QED
      BY <2>1, <3>1, <3>2, NatTasks
  <2> QED
    BY <2>1, <2>2
<1>4. /\ phase' = [ph EXCEPT ![n] = "done"] \/ phase' = [ph EXCEPT ![n] = "run"]
      /\ n \in cancelled => phase' = [ph EXCEPT ![n] = "done"]
  BY DEF TakeTask, Start
<1>5. \A f \in Tasks : f # n /\ phase[f] \in {"queued", "done"} => phase'[f] = phase[f]
  BY <1>1, <1>4 DEF Everyone
<1>6. \A i \in 1 .. Len(queue') : phase'[queue'[i]] = "queued"
  <2> SUFFICES ASSUME NEW i \in 1 .. Len(queue') PROVE phase'[queue'[i]] = "queued"
    OBVIOUS
  <2>1. i + 1 \in 1 .. Len(queue) /\ queue'[i] = queue[i + 1]
    BY <1>2
  <2> QED
    BY <1>3, <1>5, <2>1 DEF Placed
<1>7. phase[n] = "queued" /\ n \notin done
  <2>1. phase[n] = "queued"
    BY <1>2 DEF Placed
  <2> QED
    BY <2>1 DEF Placed
<1>8. \/ /\ n \in cancelled /\ done' = done \cup {n} /\ error' = [error EXCEPT ![n] = "cancelled"]
      \/ n \notin cancelled /\ UNCHANGED <<done, error>>
  BY DEF TakeTask, Start, Skip
<1>9. \A f \in done' : phase'[f] = "done"
  <2>1. CASE n \in cancelled
    <3>1. phase'[n] = "done" /\ done' = done \cup {n}
      BY <1>1, <1>4, <1>8, <2>1 DEF Everyone
    <3>2. \A f \in done : phase'[f] = "done"
      BY <1>5, <1>7 DEF Placed, TypeOK
    <3> QED
      BY <3>1, <3>2
  <2>2. CASE n \notin cancelled
    BY <1>5, <1>7, <1>8, <2>2 DEF Placed, TypeOK
  <2> QED
    BY <2>1, <2>2
<1>10. \A f \in cancelled' : error'[f] = "cancelled"
  BY <1>1, <1>8 DEF Placed, TypeOK
<1>11. \A f \in Tasks : f > submitted => f \notin done'
  BY <1>1, <1>3, <1>8, NatTasks, PoolAssumption DEF Placed, TypeOK
<1> QED
  BY <1>1, <1>6, <1>9, <1>10, <1>11 DEF Placed

LEMMA NextPlaced == TypeOK /\ Ordered /\ Placed /\ [Next]_vars => Placed'
<1> SUFFICES ASSUME TypeOK, Ordered, Placed, [Next]_vars PROVE Placed'
  OBVIOUS
<1>0. \A i \in 1 .. Len(queue) : queue[i] \in Tasks
  BY ElementOfSeq DEF TypeOK
<1>1. ASSUME NEW t \in Everyone, phase[t] \notin {"queued", "done"}, NEW p,
             phase' = [phase EXCEPT ![t] = p],
             UNCHANGED <<submitted, queue, done, cancelled, error>>
      PROVE  Placed'
  BY <1>0, <1>1 DEF Placed, TypeOK, Everyone
<1>2. ASSUME NEW th \in Threads, NEW t \in Everyone, Spawn(th, t) PROVE Placed'
  <2> DEFINE n == submitted + 1
  <2>1. /\ submitted \in Nat /\ n \in Tasks /\ submitted' = n
        /\ queue' = Append(queue, n) /\ phase' = [phase EXCEPT ![n] = "queued"]
        /\ UNCHANGED <<done, cancelled, error>>
    BY <1>2, PoolAssumption DEF Spawn, Submit, TypeOK, Tasks, futures
  <2>2. n \notin done
    BY <2>1, PoolAssumption DEF Placed, Tasks
  <2>3. /\ Len(queue) \in Nat /\ Len(queue') = Len(queue) + 1
        /\ \A i \in 1 .. Len(queue) : queue'[i] = queue[i]
        /\ queue'[Len(queue) + 1] = n
    BY <2>1, AppendProperties, LenProperties DEF TypeOK
  <2>4. \A f \in Tasks : f # n => phase'[f] = phase[f]
    BY <2>1 DEF TypeOK
  <2>5. phase'[n] = "queued"
    BY <2>1 DEF TypeOK
  <2>6. \A i \in 1 .. Len(queue') : phase'[queue'[i]] = "queued"
    BY <1>0, <2>3, <2>4, <2>5 DEF Placed
  <2>7. \A f \in done : phase'[f] = "done"
    BY <2>2, <2>4 DEF Placed, TypeOK
  <2>8. \A f \in Tasks : f > n => f \notin done /\ f \notin cancelled
    BY <2>1, NatTasks DEF Placed
  <2> QED
    BY <2>1, <2>6, <2>7, <2>8 DEF Placed
<1>3. ASSUME NEW th \in Threads, NEW t \in Everyone, NEW f \in Tasks, Cancel(th, t, f)
      PROVE  Placed'
  <2>1. f <= submitted
    BY <1>3 DEF Cancel, Knows
  <2>2. f \notin done /\ cancelled' = cancelled \cup {f} /\ error' = [error EXCEPT ![f] = "cancelled"]
        /\ UNCHANGED <<submitted, queue, phase, done>>
    BY <1>3 DEF Cancel, Cancellable
  <2>3. \A g \in Tasks : g > submitted => g # f
    BY <2>1, NatTasks, PoolAssumption DEF TypeOK
  <2>4. \A g \in cancelled' : error'[g] = "cancelled"
    BY <2>2 DEF Placed, TypeOK
  <2> QED
    BY <2>2, <2>3, <2>4 DEF Placed
<1>4. ASSUME NEW th \in Threads, NEW t \in Everyone, NEW how \in {"none", "thrown"},
             End(th, t, how)
      PROVE  Placed'
  <2>1. /\ t \in Tasks /\ stack[th] # <<>> /\ t = Top(th) /\ phase[t] = "run"
        /\ done' = done \cup {t} /\ error' = [error EXCEPT ![t] = Report(t, how)]
        /\ phase' = [phase EXCEPT ![t] = "done"] /\ UNCHANGED <<submitted, queue, cancelled>>
    BY <1>4 DEF End, At, Everyone
  <2>2. t <= submitted
    <3>1. Len(stack[th]) \in 1 .. Len(stack[th])
      BY <2>1, TopTyped, LenProperties DEF TypeOK
    <3>2. t < submitted + 1 /\ t \in Nat /\ submitted \in Nat
      BY <2>1, <3>1, NatTasks, PoolAssumption DEF Ordered, Below, Top, TypeOK
    <3> QED
      BY <3>2
  <2>3. \A f \in cancelled : error'[f] = "cancelled"
    BY <2>1 DEF Placed, TypeOK, Report
  <2>4. \A f \in Tasks : f > submitted => f # t
    BY <2>2, NatTasks, PoolAssumption DEF TypeOK
  <2>5. (\A i \in 1 .. Len(queue) : phase'[queue[i]] = "queued") /\ \A f \in done' : phase'[f] = "done"
    BY <1>0, <2>1 DEF Placed, TypeOK
  <2> QED
    BY <2>1, <2>3, <2>4, <2>5 DEF Placed
<1>5. ASSUME NEW th \in Threads, NEW t \in Everyone, HelpTake(th, t) PROVE Placed'
  <2>1. /\ phase[t] = "pop" /\ [phase EXCEPT ![t] = "help"] \in [Everyone -> Phases]
        /\ TakeTask(th, [phase EXCEPT ![t] = "help"])
    BY <1>5 DEF HelpTake, At, TypeOK, Phases, Everyone
  <2> QED
    BY <2>1, TakePlaced DEF TypeOK
<1>6. ASSUME NEW w \in Workers, WorkerTake(w) PROVE Placed'
  BY <1>6, TakePlaced DEF WorkerTake, Threads, TypeOK, Everyone
<1>7. ASSUME NEW th \in Threads, NEW t \in Everyone, NEW f \in Tasks,
             AwaitBegin(th, t, f) \/ ResultBegin(th, t, f)
      PROVE  Placed'
  BY <1>1, <1>7 DEF AwaitBegin, ResultBegin, At, Move, futures
<1>8. ASSUME NEW th \in Threads, NEW t \in Everyone,
             HelpCheck(th, t) \/ HelpNothing(th, t) \/ Observe(th, t)
      PROVE  Placed'
  BY <1>1, <1>8 DEF HelpCheck, HelpNothing, Observe, At, Move, futures
<1>9. CASE RootReturn \/ RootThrow \/ StopPool
  <2>1. Root \in Everyone
    BY DEF Everyone
  <2> QED
    BY <1>1, <1>9, <2>1 DEF RootReturn, RootThrow, StopPool, At, Move, futures
<1>10. CASE JoinWorkers
  <2>1. queue' = <<>> /\ Len(queue') = 0 /\ UNCHANGED <<submitted, done, cancelled, error>>
    BY <1>10, EmptySeq DEF JoinWorkers, futures
  <2>2. \A f \in Tasks : phase'[f] = phase[f]
    BY <1>10 DEF JoinWorkers, TypeOK, Tasks, Root
  <2> QED
    BY <2>1, <2>2 DEF Placed, TypeOK
<1>11. CASE (\E w \in Workers : WorkerExit(w)) \/ Terminated \/ UNCHANGED vars
  BY <1>11 DEF WorkerExit, Terminated, vars, futures, Placed
<1>12. ASSUME NEW th \in Threads, NEW t \in Everyone, Crash(th, t) PROVE Placed'
  BY <1>0, <1>12, CrashFrame DEF Placed, TypeOK, Everyone
<1> QED
  BY <1>2, <1>3, <1>4, <1>5, <1>6, <1>7, <1>8, <1>9, <1>10, <1>11, <1>12, NextCases

-----------------------------------------------------------------------------
\* What an observer was told of a future is still what it would be told now.
LEMMA OutcomeStays ==
  ASSUME TypeOK, Reported,
         \A f \in Tasks : seen'[f] = seen[f] /\
            (Resolved(f) => Resolved(f)' /\ Outcome(f)' = Outcome(f))
  PROVE  Reported'
BY DEF Reported

LEMMA SameFutures ==
  ASSUME TypeOK, Reported, UNCHANGED <<done, cancelled, error, seen>>
  PROVE  Reported'
BY DEF Reported, Resolved, Outcome

LEMMA TakeReported ==
  ASSUME TypeOK, Ordered, Placed, Reported, NEW th \in Threads, NEW ph, TakeTask(th, ph)
  PROVE  Reported'
<1> DEFINE n == Head(queue)
<1>1. n \in Tasks /\ UNCHANGED <<cancelled, seen>>
  BY HeadTailProperties DEF TakeTask, PopFront, TypeOK
<1>2. \/ /\ n \in cancelled /\ done' = done \cup {n} /\ error' = [error EXCEPT ![n] = "cancelled"]
      \/ UNCHANGED <<done, error>>
  BY DEF TakeTask, Start, Skip
<1>3. CASE UNCHANGED <<done, error>>
  BY <1>1, <1>3, SameFutures
<1>4. CASE n \in cancelled /\ done' = done \cup {n} /\ error' = [error EXCEPT ![n] = "cancelled"]
  <2>1. error[n] = "cancelled"
    BY <1>4 DEF Placed
  <2>2. error' = error
    BY <1>1, <1>4, <2>1 DEF TypeOK
  <2>3. \A f \in Tasks : Resolved(f) => Resolved(f)' /\ Outcome(f)' = Outcome(f)
    BY <1>1, <1>4, <2>1, <2>2 DEF Resolved, Outcome
  <2> QED
    BY <1>1, <2>3, OutcomeStays
<1> QED
  BY <1>2, <1>3, <1>4

LEMMA NextReported == TypeOK /\ Ordered /\ Placed /\ Reported /\ [Next]_vars => Reported'
<1> SUFFICES ASSUME TypeOK, Ordered, Placed, Reported, [Next]_vars PROVE Reported'
  OBVIOUS
<1>1. ASSUME NEW th \in Threads, NEW t \in Everyone, NEW f \in Tasks, Cancel(th, t, f)
      PROVE  Reported'
  <2>1. /\ f \notin done /\ cancelled' = cancelled \cup {f}
        /\ error' = [error EXCEPT ![f] = "cancelled"] /\ UNCHANGED <<done, seen>>
    BY <1>1 DEF Cancel, Cancellable
  <2>2. ASSUME NEW g \in Tasks, Resolved(g) PROVE Resolved(g)' /\ Outcome(g)' = Outcome(g)
    <3>1. CASE g = f
      BY <2>1, <2>2, <3>1 DEF Resolved, Outcome
    <3>2. CASE g # f
      <4>1. error'[g] = error[g]
        BY <2>1, <3>2 DEF TypeOK
      <4> QED
        BY <2>1, <2>2, <3>2, <4>1 DEF Resolved, Outcome
    <3> QED
      BY <3>1, <3>2
  <2> QED
    BY <2>1, <2>2, OutcomeStays
<1>2. ASSUME NEW th \in Threads, NEW t \in Everyone, NEW how \in {"none", "thrown"},
             End(th, t, how)
      PROVE  Reported'
  <2>1. /\ t \in Tasks /\ phase[t] = "run" /\ done' = done \cup {t}
        /\ error' = [error EXCEPT ![t] = Report(t, how)] /\ UNCHANGED <<cancelled, seen>>
    BY <1>2 DEF End, At, Everyone
  <2>2. t \notin done
    BY <2>1 DEF Placed
  <2>3. ASSUME NEW g \in Tasks, Resolved(g) PROVE Resolved(g)' /\ Outcome(g)' = Outcome(g)
    <3>1. CASE g = t
      <4>1. t \in cancelled /\ error'[t] = "cancelled"
        BY <2>1, <2>2, <2>3, <3>1 DEF Resolved, Report, TypeOK
      <4> QED
        BY <2>1, <2>2, <3>1, <4>1 DEF Resolved, Outcome
    <3>2. CASE g # t
      <4>1. error'[g] = error[g]
        BY <2>1, <3>2 DEF TypeOK
      <4> QED
        BY <2>1, <2>3, <3>2, <4>1 DEF Resolved, Outcome
    <3> QED
      BY <3>1, <3>2
  <2> QED
    BY <2>1, <2>3, OutcomeStays
<1>3. ASSUME NEW th \in Threads, NEW t \in Everyone, Observe(th, t) PROVE Reported'
  <2> DEFINE g == target[t]
  <2>1. /\ Resolved(g) /\ g \in Tasks /\ UNCHANGED <<done, cancelled, error>>
        /\ seen' = [seen EXCEPT ![g] = @ \cup {Outcome(g)}]
    BY <1>3 DEF Observe, Move, Resolved, TypeOK, futures
  <2>2. ASSUME NEW f \in Tasks, NEW o \in seen'[f] PROVE Resolved(f) /\ o = Outcome(f)
    <3>1. CASE f = g
      BY <2>1, <2>2, <3>1 DEF Reported, TypeOK
    <3>2. CASE f # g
      BY <2>1, <2>2, <3>2 DEF Reported, TypeOK
    <3> QED
      BY <3>1, <3>2
  <2>3. \A f \in Tasks : (Resolved(f))' = Resolved(f) /\ (Outcome(f))' = Outcome(f)
    BY <2>1 DEF Resolved, Outcome
  <2> QED
    BY <2>2, <2>3 DEF Reported
<1>4. ASSUME NEW th \in Threads, NEW t \in Everyone, HelpTake(th, t) PROVE Reported'
  BY <1>4, TakeReported DEF HelpTake
<1>5. ASSUME NEW w \in Workers, WorkerTake(w) PROVE Reported'
  BY <1>5, TakeReported DEF WorkerTake, Threads
<1>6. ASSUME NEW th \in Threads, NEW t \in Everyone, NEW f \in Tasks,
             AwaitBegin(th, t, f) \/ ResultBegin(th, t, f)
      PROVE  Reported'
  BY <1>6, SameFutures DEF AwaitBegin, ResultBegin, Move, futures
<1>7. ASSUME NEW th \in Threads, NEW t \in Everyone, Spawn(th, t) PROVE Reported'
  BY <1>7, SameFutures DEF Spawn, futures
<1>8. ASSUME NEW th \in Threads, NEW t \in Everyone, HelpCheck(th, t) \/ HelpNothing(th, t)
      PROVE  Reported'
  BY <1>8, SameFutures DEF HelpCheck, HelpNothing, Move, futures
<1>9. CASE RootReturn \/ RootThrow \/ StopPool \/ JoinWorkers
  BY <1>9, SameFutures DEF RootReturn, RootThrow, StopPool, JoinWorkers, Move, futures
<1>10. CASE (\E w \in Workers : WorkerExit(w)) \/ Terminated \/ UNCHANGED vars
  BY <1>10, SameFutures DEF WorkerExit, Terminated, vars, futures
<1>11. ASSUME NEW th \in Threads, NEW t \in Everyone, Crash(th, t) PROVE Reported'
  BY <1>11, SameFutures DEF Crash, Move, futures
<1> QED
  BY <1>1, <1>2, <1>3, <1>4, <1>5, <1>6, <1>7, <1>8, <1>9, <1>10, <1>11, NextCases

\* The inductive invariant of the pool.
IInv == TypeOK /\ Ordered /\ Placed /\ Reported

LEMMA Invariance == Spec => []IInv
<1>1. Init => IInv
  <2>1. Init => Placed /\ Reported
    BY EmptySeq DEF Init, Placed, Reported
  <2> QED
    BY <2>1, InitTypes, InitOrdered DEF IInv
<1>2. IInv /\ [Next]_vars => IInv'
  BY NextTypes, NextOrdered, NextPlaced, NextReported DEF IInv
<1> QED
  BY <1>1, <1>2, PTL DEF Spec

\* Everyone who awaits a future or asks for its result is told the same
\* (await_future_value, future.result), however its end, its cancellation
\* and the waits are interleaved.
THEOREM SameForAll == Spec => []OneOutcome
<1>1. IInv => OneOutcome
  <2> SUFFICES ASSUME IInv, NEW f \in Tasks PROVE Cardinality(seen[f]) <= 1
    BY DEF OneOutcome
  <2>1. seen[f] \subseteq {Outcome(f)}
    BY DEF IInv, Reported
  <2>2. IsFiniteSet({Outcome(f)}) /\ Cardinality({Outcome(f)}) = 1
    BY FS_Singleton
  <2>3. Cardinality(seen[f]) <= Cardinality({Outcome(f)})
    BY <2>1, <2>2, FS_Subset
  <2> QED
    BY <2>2, <2>3
<1> QED
  BY <1>1, Invariance, PTL

\* future.cancel that found the future not done is what every observer is
\* told, even if the task's body went on to return a value.
THEOREM CancellationStands == Spec => []CancelIsFinal
<1>1. IInv => CancelIsFinal
  BY DEF IInv, CancelIsFinal, Reported, Placed, Outcome, TypeOK
<1> QED
  BY <1>1, Invariance, PTL

-----------------------------------------------------------------------------
\* Each step of the pool is a step of Futures, or leaves the futures alone.
image == [f \in Tasks |-> FutureState(f)]

LEMMA SameImage ==
  ASSUME UNCHANGED <<submitted, done, cancelled, error, seen>>
  PROVE  UNCHANGED <<image, seen>>
BY DEF image, FutureState

LEMMA TakeImage ==
  ASSUME TypeOK, Placed, NEW th \in Threads, NEW ph, TakeTask(th, ph)
  PROVE  UNCHANGED <<image, seen>>
<1> DEFINE n == Head(queue)
<1>1. n \in Tasks /\ UNCHANGED <<submitted, cancelled, seen>>
  BY HeadTailProperties DEF TakeTask, PopFront, TypeOK
<1>2. CASE UNCHANGED <<done, error>>
  BY <1>1, <1>2, SameImage
<1>3. CASE n \in cancelled /\ done' = done \cup {n} /\ error' = [error EXCEPT ![n] = "cancelled"]
  <2>1. \A f \in Tasks : f # n => error'[f] = error[f] /\ (f \in done' <=> f \in done)
    BY <1>3 DEF TypeOK
  <2>2. \A f \in Tasks : FutureState(f)' = FutureState(f)
    BY <1>1, <1>3, <2>1 DEF FutureState
  <2> QED
    BY <1>1, <2>2 DEF image
<1> QED
  BY <1>2, <1>3 DEF TakeTask, Start, Skip

LEMMA StepImage == IInv /\ [Next]_vars => [Promise!Next]_<<image, seen>>
<1> SUFFICES ASSUME IInv, [Next]_vars PROVE [Promise!Next]_<<image, seen>>
  OBVIOUS
<1> USE DEF IInv
<1>0. submitted \in Nat /\ Tasks \subseteq Nat /\ DOMAIN image = Tasks
  BY NatTasks, PoolAssumption DEF TypeOK, image
<1>1. ASSUME NEW th \in Threads, NEW t \in Everyone, Spawn(th, t)
      PROVE  [Promise!Next]_<<image, seen>>
  <2>1. PICK n \in Tasks :
          n = submitted + 1 /\ submitted' = n /\ UNCHANGED <<done, cancelled, error, seen>>
    BY <1>1, PoolAssumption DEF Spawn, Tasks, TypeOK, futures
  <2>2. n \notin done /\ n \notin cancelled
    BY <1>0, <2>1 DEF Placed
  <2>3. image[n] = "free" /\ FutureState(n)' = "pending"
    <3>1. n > submitted /\ ~(n > submitted')
      BY <1>0, <2>1
    <3>2. FutureState(n) = "free" /\ FutureState(n)' = "pending"
      BY <2>1, <2>2, <3>1 DEF FutureState
    <3> QED
      BY <2>1, <3>2 DEF image
  <2>4. \A f \in Tasks : f # n => FutureState(f)' = FutureState(f)
    <3>1. \A f \in Tasks : f # n => (f > submitted' <=> f > submitted)
      BY <1>0, <2>1
    <3> QED
      BY <2>1, <3>1 DEF FutureState
  <2>5. image' = [image EXCEPT ![n] = "pending"]
    BY <2>1, <2>3, <2>4 DEF image
  <2>6. Promise!Create(n)
    BY <2>1, <2>3, <2>5 DEF Promise!Create, image
  <2> QED
    BY <2>1, <2>6 DEF Promise!Next
<1>2. ASSUME NEW th \in Threads, NEW t \in Everyone, NEW f \in Tasks, Cancel(th, t, f)
      PROVE  [Promise!Next]_<<image, seen>>
  <2>1. /\ f <= submitted /\ f \notin done /\ cancelled' = cancelled \cup {f}
        /\ error' = [error EXCEPT ![f] = "cancelled"] /\ UNCHANGED <<submitted, done, seen>>
    BY <1>2 DEF Cancel, Cancellable, Knows
  <2>2. \A g \in Tasks : g # f => error'[g] = error[g] /\ (g \in cancelled' <=> g \in cancelled)
    BY <2>1 DEF TypeOK
  <2>3. \A g \in Tasks : g # f => FutureState(g)' = FutureState(g)
    BY <2>1, <2>2 DEF FutureState
  <2>4. FutureState(f)' = "cancelled"
    BY <1>0, <2>1 DEF FutureState
  <2>5. image' = [image EXCEPT ![f] = "cancelled"]
    BY <2>3, <2>4 DEF image
  <2>6. CASE f \in cancelled
    <3>1. image[f] = "cancelled"
      BY <1>0, <2>1, <2>6 DEF image, FutureState
    <3>2. image' = image
      BY <2>5, <3>1 DEF image
    <3> QED
      BY <2>1, <3>2
  <2>7. CASE f \notin cancelled
    <3>1. image[f] = "pending"
      BY <1>0, <2>1, <2>7 DEF image, FutureState
    <3>2. Promise!Settle(f, "cancelled")
      BY <2>1, <2>5, <3>1 DEF Promise!Settle, image
    <3> QED
      BY <3>2 DEF Promise!Next, Promise!Settled
  <2> QED
    BY <2>6, <2>7
<1>3. ASSUME NEW th \in Threads, NEW t \in Everyone, NEW how \in {"none", "thrown"},
             End(th, t, how)
      PROVE  [Promise!Next]_<<image, seen>>
  <2> DEFINE how2 == IF how = "none" THEN "value" ELSE "thrown"
  <2>1. /\ t \in Tasks /\ stack[th] # <<>> /\ t = Top(th) /\ phase[t] = "run"
        /\ done' = done \cup {t} /\ error' = [error EXCEPT ![t] = Report(t, how)]
        /\ UNCHANGED <<submitted, cancelled, seen>>
    BY <1>3 DEF End, At, Everyone
  <2>2. t \notin done
    BY <2>1 DEF Placed
  <2>3. t <= submitted
    <3>1. Len(stack[th]) \in 1 .. Len(stack[th])
      BY <2>1, TopTyped, LenProperties DEF TypeOK
    <3>2. t < submitted + 1
      BY <2>1, <3>1 DEF Ordered, Below, Top
    <3> QED
      BY <1>0, <2>1, <3>2
  <2>4. \A g \in Tasks : g # t => error'[g] = error[g] /\ (g \in done' <=> g \in done)
    BY <2>1 DEF TypeOK
  <2>5. \A g \in Tasks : g # t => FutureState(g)' = FutureState(g)
    BY <2>1, <2>4 DEF FutureState
  <2>6. CASE t \in cancelled
    <3>1. FutureState(t)' = FutureState(t)
      BY <1>0, <2>1, <2>3, <2>6 DEF FutureState
    <3>2. image' = image
      BY <2>5, <3>1 DEF image
    <3> QED
      BY <2>1, <3>2
  <2>7. CASE t \notin cancelled
    <3>0. ~(t > submitted) /\ ~(t > submitted')
      <4>1. submitted' = submitted /\ t \in Nat /\ submitted \in Nat
        BY <1>0, <2>1
      <4> QED
        BY <2>3, <4>1
    <3>1. image[t] = "pending"
      BY <2>1, <2>2, <2>7, <3>0 DEF image, FutureState
    <3>2. error'[t] = how
      BY <2>1, <2>7 DEF Report, TypeOK
    <3>3. FutureState(t)' = how2
      BY <2>1, <2>7, <3>0, <3>2 DEF FutureState
    <3>4. image' = [image EXCEPT ![t] = how2]
      BY <2>5, <3>3 DEF image
    <3>5. Promise!Settle(t, how2)
      BY <2>1, <3>1, <3>4 DEF Promise!Settle, image
    <3> QED
      BY <2>1, <3>5 DEF Promise!Next, Promise!Settled
  <2> QED
    BY <2>6, <2>7
<1>4. ASSUME NEW th \in Threads, NEW t \in Everyone, Observe(th, t)
      PROVE  [Promise!Next]_<<image, seen>>
  <2> DEFINE g == target[t]
  <2>1. /\ Resolved(g) /\ g \in Tasks /\ UNCHANGED <<submitted, done, cancelled, error>>
        /\ seen' = [seen EXCEPT ![g] = @ \cup {Outcome(g)}]
    BY <1>4 DEF Observe, Move, Resolved, TypeOK, futures
  <2>2. g <= submitted
    BY <1>0, <2>1 DEF Resolved, Placed
  <2>3. image[g] = Outcome(g) /\ image[g] \in Promise!Settled
    BY <1>0, <2>1, <2>2
       DEF image, FutureState, Outcome, Resolved, Placed, TypeOK, Promise!Settled
  <2>4. image' = image
    BY <2>1 DEF image, FutureState
  <2>5. Promise!Observe(g)
    BY <2>1, <2>3, <2>4 DEF Promise!Observe, image
  <2> QED
    BY <2>1, <2>5 DEF Promise!Next
<1>5. ASSUME NEW th \in Threads, NEW t \in Everyone, HelpTake(th, t)
      PROVE  [Promise!Next]_<<image, seen>>
  BY <1>5, TakeImage DEF HelpTake
<1>6. ASSUME NEW w \in Workers, WorkerTake(w) PROVE [Promise!Next]_<<image, seen>>
  BY <1>6, TakeImage DEF WorkerTake, Threads
<1>7. ASSUME NEW th \in Threads, NEW t \in Everyone, NEW f \in Tasks,
             AwaitBegin(th, t, f) \/ ResultBegin(th, t, f)
      PROVE  [Promise!Next]_<<image, seen>>
  BY <1>7, SameImage DEF AwaitBegin, ResultBegin, Move, futures
<1>8. ASSUME NEW th \in Threads, NEW t \in Everyone, HelpCheck(th, t) \/ HelpNothing(th, t)
      PROVE  [Promise!Next]_<<image, seen>>
  BY <1>8, SameImage DEF HelpCheck, HelpNothing, Move, futures
<1>9. CASE RootReturn \/ RootThrow \/ StopPool \/ JoinWorkers
  BY <1>9, SameImage DEF RootReturn, RootThrow, StopPool, JoinWorkers, Move, futures
<1>10. CASE (\E w \in Workers : WorkerExit(w)) \/ Terminated \/ UNCHANGED vars
  BY <1>10, SameImage DEF WorkerExit, Terminated, vars, futures
<1>11. ASSUME NEW th \in Threads, NEW t \in Everyone, Crash(th, t)
       PROVE  [Promise!Next]_<<image, seen>>
  BY <1>11, SameImage DEF Crash, Move, futures
<1> QED
  BY <1>1, <1>2, <1>3, <1>4, <1>5, <1>6, <1>7, <1>8, <1>9, <1>10, <1>11, NextCases

\* The futures of the pool implement Futures: settled once, never unsettled,
\* and observed as settled (invoke_async_action, cancel, await, result).
THEOREM Refinement == Spec => ImplementsFutures
<1>1. Init => Promise!Init
  <2> SUFFICES ASSUME Init PROVE Promise!Init
    OBVIOUS
  <2>1. \A f \in Tasks : FutureState(f) = "free"
    BY PoolAssumption DEF Init, FutureState, Tasks
  <2> QED
    BY <2>1 DEF Init, Promise!Init
<1>2. IInv /\ [Next]_vars => [Promise!Next]_<<[f \in Tasks |-> FutureState(f)], seen>>
  BY StepImage DEF image
<1> QED
  BY <1>1, <1>2, Invariance, PTL DEF Spec, ImplementsFutures, Promise!Spec

-----------------------------------------------------------------------------
(***************************************************************************)
(* Where tasks are.  A task that was submitted is in the queue, on one     *)
(* stack or done; the queue and the stacks are taken as sets here, since   *)
(* Ordered says that nothing is in them twice.                             *)
(***************************************************************************)
Items(s) == {s[i] : i \in 1 .. Len(s)}
Working == {"run"} \cup Waiting

Located ==
  /\ \A n \in Tasks : /\ phase[n] \in {"none", "queued", "done"} \cup Working
                      /\ n > submitted <=> phase[n] = "none"
                      /\ phase[n] = "queued" <=> n \in Items(queue)
                      /\ phase[n] \in Working <=> \E th \in Threads : n \in Items(stack[th])
                      /\ phase[n] = "done" => n \in done
  /\ \A th, u \in Threads : th # u => Items(stack[th]) \cap Items(stack[u]) = {}
  /\ Root \in Items(stack[Main])

\* A stack is no deeper than its tasks are many.
Shallow == \A th \in Threads : \A i \in 1 .. Len(stack[th]) : i <= stack[th][i] + 1

LEMMA ItemsAppend ==
  ASSUME NEW S, NEW s \in Seq(S), NEW n \in S
  PROVE  Items(Append(s, n)) = Items(s) \cup {n}
<1>1. /\ Len(s) \in Nat /\ Len(Append(s, n)) = Len(s) + 1
      /\ \A i \in 1 .. Len(s) : Append(s, n)[i] = s[i]
      /\ Append(s, n)[Len(s) + 1] = n
  BY AppendProperties, LenProperties
<1> QED
  BY <1>1 DEF Items

LEMMA ItemsEmpty ==
  ASSUME NEW S, NEW s \in Seq(S)
  PROVE  Items(s) = {} <=> s = <<>>
<1>1. Len(s) \in Nat /\ (Len(s) = 0 <=> s = <<>>)
  BY EmptySeq, LenProperties
<1>2. s # <<>> => s[1] \in Items(s)
  BY <1>1 DEF Items
<1>3. Len(s) = 0 => Items(s) = {}
  BY 1 .. 0 = {} DEF Items
<1> QED
  BY <1>1, <1>2, <1>3

LEMMA ItemsPop ==
  ASSUME NEW s \in Seq(Everyone), s # <<>>, Rising(s)
  PROVE  /\ s[Len(s)] \in Items(s)
         /\ Items(Pop(s)) = Items(s) \ {s[Len(s)]}
         /\ \A m \in Items(s) : m \in Nat /\ m <= s[Len(s)]
<1>1. /\ Len(s) \in Nat \ {0} /\ Len(Pop(s)) = Len(s) - 1
      /\ \A i \in 1 .. Len(s) - 1 : Pop(s)[i] = s[i]
  BY PopTyped, EmptySeq, LenProperties
<1>2. \A i \in 1 .. Len(s) : s[i] \in Nat
  BY NatTasks, ElementOfSeq
<1>3. \A i \in 1 .. Len(s) - 1 : s[i] < s[Len(s)]
  BY <1>1 DEF Rising
<1>4. s[Len(s)] \in Items(s)
  BY <1>1 DEF Items
<1>5. Items(Pop(s)) = {s[i] : i \in 1 .. Len(s) - 1}
  BY <1>1 DEF Items
<1>6. Items(s) = {s[i] : i \in 1 .. Len(s) - 1} \cup {s[Len(s)]}
  BY <1>1 DEF Items
<1>7. s[Len(s)] \notin {s[i] : i \in 1 .. Len(s) - 1}
  BY <1>1, <1>2, <1>3
<1>8. \A m \in Items(s) : m \in Nat /\ m <= s[Len(s)]
  BY <1>1, <1>2, <1>3, <1>6
<1> QED
  BY <1>4, <1>5, <1>6, <1>7, <1>8

LEMMA ItemsTail ==
  ASSUME NEW s \in Seq(Tasks), s # <<>>, Rising(s)
  PROVE  /\ Head(s) \in Items(s)
         /\ Items(Tail(s)) = Items(s) \ {Head(s)}
<1>1. /\ Len(s) \in Nat \ {0} /\ Len(Tail(s)) = Len(s) - 1 /\ Head(s) = s[1]
      /\ \A i \in 1 .. Len(s) - 1 : Tail(s)[i] = s[i + 1]
  BY HeadTailProperties, EmptySeq
<1>2. \A i \in 1 .. Len(s) : s[i] \in Nat
  BY NatTasks, ElementOfSeq
<1>3. \A i \in 2 .. Len(s) : s[1] < s[i]
  BY <1>1 DEF Rising
<1>4. Items(Tail(s)) = {s[i] : i \in 2 .. Len(s)}
  <2>1. \A i \in 1 .. Len(s) - 1 : i + 1 \in 2 .. Len(s)
    BY <1>1
  <2>2. \A i \in 2 .. Len(s) : i - 1 \in 1 .. Len(s) - 1 /\ (i - 1) + 1 = i
    BY <1>1
  <2>3. ASSUME NEW x \in Items(Tail(s)) PROVE x \in {s[i] : i \in 2 .. Len(s)}
    <3>1. PICK i \in 1 .. Len(s) - 1 : x = Tail(s)[i]
      BY <1>1, <2>3 DEF Items
    <3> QED
      BY <1>1, <2>1, <3>1
  <2>4. ASSUME NEW i \in 2 .. Len(s) PROVE s[i] \in Items(Tail(s))
    <3>1. s[i] = Tail(s)[i - 1]
      BY <1>1, <2>2
    <3> QED
      BY <1>1, <2>2, <3>1 DEF Items
  <2> QED
    BY <2>3, <2>4
<1>5. Items(s) = {s[1]} \cup {s[i] : i \in 2 .. Len(s)}
  BY <1>1 DEF Items
<1>6. s[1] \notin {s[i] : i \in 2 .. Len(s)}
  BY <1>1, <1>2, <1>3
<1> QED
  BY <1>1, <1>4, <1>5, <1>6

\* The task on top of a stack is the youngest of it.
LEMMA TopItem ==
  ASSUME TypeOK, Ordered, NEW th \in Threads, stack[th] # <<>>
  PROVE  /\ Top(th) \in Items(stack[th]) /\ Top(th) \in Everyone
         /\ \A m \in Items(stack[th]) : m <= Top(th)
         /\ Items(Pop(stack[th])) = Items(stack[th]) \ {Top(th)}
<1>1. stack[th] \in Seq(Everyone) /\ Rising(stack[th])
  BY DEF TypeOK, Ordered, Everyone
<1> QED
  BY <1>1, ItemsPop, TopTyped DEF Top

-----------------------------------------------------------------------------
\* The end of Runtime::run: what its phases say of the pool and its workers.
Ends == {"returned", "joining", "exited", "thrown"}

Ending ==
  /\ phase[Root] \in Working \cup Ends
  /\ phase[Root] \in Ends => Items(stack[Main]) = {Root}
  /\ pool = "off" => submitted = 0 \/ phase[Root] = "exited"
  /\ pool = "stopping" <=> phase[Root] = "joining"
  /\ gone # {} => pool = "stopping"
  /\ \A w \in gone : stack[w] = <<>>
  /\ gone = Workers => queue = <<>>
  /\ phase[Root] = "exited" => /\ pool = "off" /\ queue = <<>>
                               /\ \A w \in Workers : stack[w] = <<>>

\* Root is only ever on Main's stack, and alone there once it has ended.
LEMMA RootOnMain ==
  ASSUME TypeOK, Ordered, Located, NEW th \in Threads, stack[th] # <<>>, Top(th) = Root
  PROVE  th = Main /\ Items(stack[Main]) = {Root}
<1>1. Root \in Items(stack[th]) /\ Main \in Threads
  BY TopItem DEF Threads
<1>2. th = Main
  BY <1>1 DEF Located
<1>3. \A m \in Items(stack[th]) : m \in Nat /\ m <= 0
  <2>1. stack[th] \in Seq(Everyone) /\ Rising(stack[th])
    BY DEF TypeOK, Ordered, Everyone
  <2> QED
    BY <2>1, TopItem, ItemsPop DEF Root
<1> QED
  BY <1>1, <1>2, <1>3 DEF Root

\* While some task runs or waits, run() has not ended and a worker remains.
LEMMA Busy ==
  ASSUME TypeOK, Ordered, Located, Ending, NEW th \in Threads, NEW t \in Everyone,
         NEW p \in Working, At(th, t, p)
  PROVE  /\ th \notin gone /\ gone # Workers /\ phase[Root] # "exited"
         /\ th = Main => phase[Root] \notin Ends
<1>1. stack[th] # <<>> /\ t = Top(th) /\ phase[t] = p
  BY DEF At
<1>2. th \notin gone
  BY <1>1 DEF Ending
<1>3. ASSUME th = Main PROVE phase[Root] \notin Ends
  <2>1. ASSUME phase[Root] \in Ends PROVE FALSE
    <3>1. t = Root
      BY <1>1, <1>3, <2>1, TopItem DEF Ending
    <3> QED
      BY <1>1, <2>1, <3>1 DEF Ends, Working, Waiting
  <2> QED
    BY <2>1
<1>4. phase[Root] # "exited"
  BY <1>1, <1>3 DEF Ending, Ends, Threads
<1>5. gone # Workers
  <2> SUFFICES ASSUME gone = Workers PROVE FALSE
    OBVIOUS
  <2>1. phase[Root] = "joining"
    BY PoolAssumption DEF Ending
  <2> QED
    BY <1>2, <1>3, <2>1 DEF Threads, Ends
<1> QED
  BY <1>2, <1>3, <1>4, <1>5

-----------------------------------------------------------------------------
\* A task that moves within its script leaves everything where it was.
LEMMA MoveLocated ==
  ASSUME TypeOK, Located, NEW t \in Everyone, NEW p,
         t \in Tasks => phase[t] \in Working /\ p \in Working,
         phase' = [phase EXCEPT ![t] = p], UNCHANGED <<submitted, queue, stack>>, done \subseteq done'
  PROVE  Located'
<1>1. \A n \in Tasks : \/ phase'[n] = phase[n]
                       \/ phase[n] \in Working /\ phase'[n] \in Working
  BY DEF TypeOK, Everyone
<1>2. Working \cap {"none", "queued", "done"} = {}
  BY DEF Working, Waiting
<1> QED
  BY <1>1, <1>2 DEF Located

LEMMA TakeLocated ==
  ASSUME TypeOK, Ordered, Located, NEW th \in Threads, NEW ph \in [Everyone -> Phases],
         \A f \in Tasks : ph[f] = phase[f] \/ (phase[f] \in Working /\ ph[f] \in Working),
         TakeTask(th, ph)
  PROVE  Located'
<1> DEFINE n == Head(queue)
<1>1. /\ queue \in Seq(Tasks) /\ queue # <<>> /\ Rising(queue)
      /\ queue' = Tail(queue) /\ submitted' = submitted
  BY DEF TakeTask, PopFront, TypeOK, Ordered
<1>2. n \in Items(queue) /\ Items(queue') = Items(queue) \ {n} /\ n \in Tasks
  BY <1>1, ItemsTail, HeadTailProperties
<1>3. phase[n] = "queued" /\ phase[n] \notin Working
  BY <1>2 DEF Located, Working, Waiting
<1>4. \A u \in Threads : n \notin Items(stack[u])
  BY <1>2, <1>3 DEF Located
<1>5. Working \cap {"none", "queued", "done"} = {} /\ "run" \in Working
  BY DEF Working, Waiting
<1>6. CASE n \in cancelled
  <2>1. stack' = stack /\ done' = done \cup {n} /\ phase' = [ph EXCEPT ![n] = "done"]
    BY <1>6 DEF TakeTask, Start, Skip
  <2>2. phase'[n] = "done" /\ \A f \in Tasks : f # n => phase'[f] = ph[f]
    BY <1>2, <2>1 DEF Everyone
  <2>3. n \in done' /\ done \subseteq done'
    BY <2>1
  <2>4. \A f \in Tasks : f # n => (f \in Items(queue') <=> f \in Items(queue))
    BY <1>2
  <2>5. ~(n > submitted)
    BY <1>2, <1>3 DEF Located
  <2>6. \A f \in Tasks : /\ phase'[f] \in {"none", "queued", "done"} \cup Working
                         /\ f > submitted' <=> phase'[f] = "none"
                         /\ phase'[f] = "queued" <=> f \in Items(queue')
                         /\ phase'[f] \in Working <=> \E u \in Threads : f \in Items(stack'[u])
                         /\ phase'[f] = "done" => f \in done'
    <3> SUFFICES ASSUME NEW f \in Tasks
                 PROVE  /\ phase'[f] \in {"none", "queued", "done"} \cup Working
                        /\ f > submitted' <=> phase'[f] = "none"
                        /\ phase'[f] = "queued" <=> f \in Items(queue')
                        /\ phase'[f] \in Working <=> \E u \in Threads : f \in Items(stack'[u])
                        /\ phase'[f] = "done" => f \in done'
      OBVIOUS
    <3>1. CASE f = n
      BY <1>1, <1>2, <1>4, <1>5, <2>1, <2>2, <2>3, <2>5, <3>1
    <3>2. CASE f # n
      BY <1>1, <1>5, <2>1, <2>2, <2>3, <2>4, <3>2 DEF Located
    <3> QED
      BY <3>1, <3>2
  <2> QED
    BY <2>1, <2>6 DEF Located
<1>7. CASE n \notin cancelled
  <2>1. /\ stack' = [stack EXCEPT ![th] = Append(@, n)] /\ done' = done
        /\ phase' = [ph EXCEPT ![n] = "run"]
    BY <1>7 DEF TakeTask, Start
  <2>2. phase'[n] = "run" /\ \A f \in Tasks : f # n => phase'[f] = ph[f]
    BY <1>2, <2>1 DEF Everyone
  <2>3. /\ Items(stack'[th]) = Items(stack[th]) \cup {n}
        /\ \A u \in Threads : u # th => Items(stack'[u]) = Items(stack[u])
    <3>1. stack[th] \in Seq(Everyone) /\ n \in Everyone
      BY <1>2 DEF TypeOK, Everyone
    <3>2. stack'[th] = Append(stack[th], n) /\ \A u \in Threads : u # th => stack'[u] = stack[u]
      BY <2>1 DEF TypeOK
    <3> QED
      BY <3>1, <3>2, ItemsAppend
  <2>4. \A f \in Tasks : f # n => (f \in Items(queue') <=> f \in Items(queue))
    BY <1>2
  <2>5. \A f \in Everyone, u \in Threads : f # n => (f \in Items(stack'[u]) <=> f \in Items(stack[u]))
    BY <2>3
  <2>6. ~(n > submitted)
    BY <1>2, <1>3 DEF Located
  <2>7. \A f \in Tasks : /\ phase'[f] \in {"none", "queued", "done"} \cup Working
                         /\ f > submitted' <=> phase'[f] = "none"
                         /\ phase'[f] = "queued" <=> f \in Items(queue')
                         /\ phase'[f] \in Working <=> \E u \in Threads : f \in Items(stack'[u])
                         /\ phase'[f] = "done" => f \in done'
    <3> SUFFICES ASSUME NEW f \in Tasks
                 PROVE  /\ phase'[f] \in {"none", "queued", "done"} \cup Working
                        /\ f > submitted' <=> phase'[f] = "none"
                        /\ phase'[f] = "queued" <=> f \in Items(queue')
                        /\ phase'[f] \in Working <=> \E u \in Threads : f \in Items(stack'[u])
                        /\ phase'[f] = "done" => f \in done'
      OBVIOUS
    <3>1. CASE f = n
      BY <1>1, <1>2, <1>5, <2>1, <2>2, <2>3, <2>6, <3>1
    <3>2. CASE f # n
      <4>1. f \in Everyone
        BY DEF Everyone
      <4> QED
        BY <1>1, <1>5, <2>1, <2>2, <2>4, <2>5, <3>2, <4>1 DEF Located
    <3> QED
      BY <3>1, <3>2
  <2>8. \A u, v \in Threads : u # v => Items(stack'[u]) \cap Items(stack'[v]) = {}
    BY <1>4, <2>3 DEF Located
  <2>9. Root \in Items(stack'[Main])
    BY <2>3 DEF Located, Threads
  <2> QED
    BY <2>7, <2>8, <2>9 DEF Located
<1> QED
  BY <1>6, <1>7

LEMMA NextLocated ==
  TypeOK /\ Ordered /\ Placed /\ Located /\ (Alive => Ending) /\ [Next]_vars => Located'
<1> SUFFICES ASSUME TypeOK, Ordered, Placed, Located, Alive => Ending, [Next]_vars PROVE Located'
  OBVIOUS
<1>0. Working \cap {"none", "queued", "done"} = {} /\ {"run", "help", "pop", "result"} = Working
  BY DEF Working, Waiting
<1>1. ASSUME NEW th \in Threads, NEW t \in Everyone, Spawn(th, t) PROVE Located'
  <2> DEFINE n == submitted + 1
  <2>1. /\ submitted \in Nat /\ n \in Tasks /\ submitted' = n /\ queue' = Append(queue, n)
        /\ phase' = [phase EXCEPT ![n] = "queued"] /\ UNCHANGED <<stack, done>>
    BY <1>1, PoolAssumption DEF Spawn, Submit, TypeOK, Tasks, futures
  <2>2. Items(queue') = Items(queue) \cup {n}
    BY <2>1, ItemsAppend DEF TypeOK
  <2>3. phase[n] = "none"
    BY <2>1 DEF Located
  <2>4. phase'[n] = "queued" /\ \A f \in Tasks : f # n => phase'[f] = phase[f]
    BY <2>1 DEF TypeOK
  <2>5. \A f \in Tasks : f # n => (f > n <=> f > submitted)
    BY <2>1, NatTasks
  <2>6. ~ \E u \in Threads : n \in Items(stack[u])
    BY <1>0, <2>1, <2>3 DEF Located
  <2>7. \A f \in Tasks : /\ phase'[f] \in {"none", "queued", "done"} \cup Working
                         /\ f > submitted' <=> phase'[f] = "none"
                         /\ phase'[f] = "queued" <=> f \in Items(queue')
                         /\ phase'[f] \in Working <=> \E u \in Threads : f \in Items(stack'[u])
                         /\ phase'[f] = "done" => f \in done'
    <3> SUFFICES ASSUME NEW f \in Tasks
                 PROVE  /\ phase'[f] \in {"none", "queued", "done"} \cup Working
                        /\ f > submitted' <=> phase'[f] = "none"
                        /\ phase'[f] = "queued" <=> f \in Items(queue')
                        /\ phase'[f] \in Working <=> \E u \in Threads : f \in Items(stack'[u])
                        /\ phase'[f] = "done" => f \in done'
      OBVIOUS
    <3>1. CASE f = n
      BY <1>0, <2>1, <2>2, <2>4, <2>6, <3>1
    <3>2. CASE f # n
      BY <2>1, <2>2, <2>4, <2>5, <3>2 DEF Located
    <3> QED
      BY <3>1, <3>2
  <2> QED
    BY <2>1, <2>7 DEF Located
<1>2. ASSUME NEW th \in Threads, NEW t \in Everyone, NEW how \in {"none", "thrown"},
             End(th, t, how)
      PROVE  Located'
  <2>1. /\ t \in Tasks /\ stack[th] # <<>> /\ t = Top(th) /\ phase[t] = "run"
        /\ done' = done \cup {t} /\ phase' = [phase EXCEPT ![t] = "done"]
        /\ stack' = [stack EXCEPT ![th] = Pop(@)] /\ UNCHANGED <<submitted, queue>>
    BY <1>2 DEF End, At, Everyone
  <2>2. t \in Items(stack[th]) /\ Items(Pop(stack[th])) = Items(stack[th]) \ {t}
    BY <2>1, TopItem
  <2>3. /\ Items(stack'[th]) = Items(stack[th]) \ {t}
        /\ \A u \in Threads : u # th => Items(stack'[u]) = Items(stack[u])
    BY <2>1, <2>2 DEF TypeOK
  <2>4. \A u \in Threads : t \notin Items(stack'[u])
    <3>1. \A u \in Threads : u # th => t \notin Items(stack[u])
      BY <2>2 DEF Located
    <3> QED
      BY <2>3, <3>1
  <2>5. phase'[t] = "done" /\ \A f \in Everyone : f # t => phase'[f] = phase[f]
    BY <2>1 DEF TypeOK, Everyone
  <2>6. \A f \in Everyone, u \in Threads : f # t => (f \in Items(stack'[u]) <=> f \in Items(stack[u]))
    BY <2>3
  <2>7. t \notin Items(queue) /\ ~(t > submitted)
    BY <2>1 DEF Located
  <2>8. \A f \in Tasks : /\ phase'[f] \in {"none", "queued", "done"} \cup Working
                         /\ f > submitted' <=> phase'[f] = "none"
                         /\ phase'[f] = "queued" <=> f \in Items(queue')
                         /\ phase'[f] \in Working <=> \E u \in Threads : f \in Items(stack'[u])
                         /\ phase'[f] = "done" => f \in done'
    <3> SUFFICES ASSUME NEW f \in Tasks
                 PROVE  /\ phase'[f] \in {"none", "queued", "done"} \cup Working
                        /\ f > submitted' <=> phase'[f] = "none"
                        /\ phase'[f] = "queued" <=> f \in Items(queue')
                        /\ phase'[f] \in Working <=> \E u \in Threads : f \in Items(stack'[u])
                        /\ phase'[f] = "done" => f \in done'
      OBVIOUS
    <3>1. CASE f = t
      BY <1>0, <2>1, <2>4, <2>5, <2>7, <3>1
    <3>2. CASE f # t
      <4>1. f \in Everyone
        BY DEF Everyone
      <4> QED
        BY <2>1, <2>5, <2>6, <3>2, <4>1 DEF Located
    <3> QED
      BY <3>1, <3>2
  <2>9. \A u, v \in Threads : u # v => Items(stack'[u]) \cap Items(stack'[v]) = {}
    BY <2>3 DEF Located
  <2>10. Root \in Items(stack'[Main])
    <3>1. Root # t /\ Main \in Threads
      BY <2>1, NatTasks DEF Root, Tasks, Threads
    <3> QED
      BY <2>3, <3>1 DEF Located
  <2> QED
    BY <2>8, <2>9, <2>10 DEF Located
<1>3. ASSUME NEW th \in Threads, NEW t \in Everyone, HelpTake(th, t) PROVE Located'
  <2> DEFINE ph == [phase EXCEPT ![t] = "help"]
  <2>1. phase[t] = "pop" /\ ph \in [Everyone -> Phases] /\ TakeTask(th, ph)
    BY <1>3 DEF HelpTake, At, TypeOK, Phases, Everyone
  <2>2. \A f \in Tasks : ph[f] = phase[f] \/ (phase[f] \in Working /\ ph[f] \in Working)
    BY <1>0, <2>1 DEF TypeOK, Everyone
  <2> QED
    BY <2>1, <2>2, TakeLocated
<1>4. ASSUME NEW w \in Workers, WorkerTake(w) PROVE Located'
  BY <1>4, TakeLocated DEF WorkerTake, Threads, TypeOK, Everyone
<1>5. ASSUME NEW th \in Threads, NEW t \in Everyone, NEW f \in Tasks,
             AwaitBegin(th, t, f) \/ ResultBegin(th, t, f)
      PROVE  Located'
  BY <1>0, <1>5, MoveLocated DEF AwaitBegin, ResultBegin, At, Move, futures
<1>6. ASSUME NEW th \in Threads, NEW t \in Everyone,
             HelpCheck(th, t) \/ HelpNothing(th, t) \/ Observe(th, t)
      PROVE  Located'
  BY <1>0, <1>6, MoveLocated DEF HelpCheck, HelpNothing, Observe, At, Move, futures
<1>7. CASE RootReturn \/ RootThrow \/ StopPool
  <2>1. Root \in Everyone /\ Root \notin Tasks
    BY NatTasks DEF Everyone, Tasks, Root
  <2> QED
    BY <1>7, <2>1, MoveLocated DEF RootReturn, RootThrow, StopPool, Move, futures
<1>8. CASE JoinWorkers
  <2>1. /\ queue = <<>> /\ queue' = <<>> /\ UNCHANGED <<submitted, stack, done>>
        /\ phase' = [phase EXCEPT ![Root] = "exited"]
    BY <1>8 DEF JoinWorkers, At, Ending, futures
  <2>2. Root \in Everyone /\ Root \notin Tasks
    BY NatTasks DEF Everyone, Tasks, Root
  <2> QED
    BY <2>1, <2>2, MoveLocated
<1>9. ASSUME NEW th \in Threads, NEW t \in Everyone, NEW f \in Tasks, Cancel(th, t, f)
      PROVE  Located'
  BY <1>9 DEF Cancel, Located
<1>10. CASE (\E w \in Workers : WorkerExit(w)) \/ Terminated \/ UNCHANGED vars
  <2>1. UNCHANGED <<submitted, queue, stack, phase, done>>
    BY <1>10 DEF WorkerExit, Terminated, vars, futures
  <2> QED
    BY <2>1 DEF Located
<1>11. ASSUME NEW th \in Threads, NEW t \in Everyone, Crash(th, t) PROVE Located'
  <2>1. Root \in Everyone /\ Root \notin Tasks
    BY NatTasks DEF Everyone, Tasks, Root
  <2> QED
    BY <1>11, <2>1, MoveLocated DEF Crash, Move, futures
<1> QED
  BY <1>1, <1>2, <1>3, <1>4, <1>5, <1>6, <1>7, <1>8, <1>9, <1>10, <1>11, NextCases

-----------------------------------------------------------------------------
\* Steps that leave run(), the pool and the stacks alone.
LEMMA SameEnding ==
  ASSUME Ending, UNCHANGED <<submitted, queue, stack, pool, gone>>, phase'[Root] = phase[Root]
  PROVE  Ending'
BY DEF Ending

\* A task's own step, while it is under way: the thread it runs on stays.
LEMMA MoveEnding ==
  ASSUME TypeOK, Ordered, Located, Ending, NEW th \in Threads, NEW t \in Everyone,
         NEW p \in Working, At(th, t, p), NEW r \in Working,
         phase' = [phase EXCEPT ![t] = r], UNCHANGED <<submitted, queue, stack, pool, gone>>
  PROVE  Ending'
<1>1. CASE t # Root
  BY <1>1, SameEnding DEF TypeOK
<1>2. CASE t = Root
  <2>1. phase'[Root] = r /\ phase[Root] = p /\ Ends \cap Working = {}
    BY <1>2 DEF TypeOK, At, Ends, Working, Waiting
  <2> QED
    BY <2>1 DEF Ending, Ends
<1> QED
  BY <1>1, <1>2

LEMMA TakeEnding ==
  ASSUME TypeOK, Ordered, Located, Ending, NEW th \in Threads, NEW ph \in [Everyone -> Phases],
         TakeTask(th, ph), th \notin gone, pool # "off",
         ph[Root] = phase[Root] \/ (phase[Root] \in Working /\ ph[Root] \in Working),
         th = Main => phase[Root] \notin Ends
  PROVE  Ending'
<1> DEFINE n == Head(queue)
<1>1. /\ queue # <<>> /\ n \in Tasks /\ n # Root
      /\ UNCHANGED <<submitted, pool, gone>>
      /\ stack' = stack \/ stack' = [stack EXCEPT ![th] = Append(@, n)]
      /\ phase' = [ph EXCEPT ![n] = "done"] \/ phase' = [ph EXCEPT ![n] = "run"]
  <2>1. queue # <<>> /\ queue \in Seq(Tasks)
    BY DEF TakeTask, TypeOK
  <2>2. n \in Tasks
    BY <2>1, HeadTailProperties
  <2>3. Root \notin Tasks
    BY NatTasks DEF Tasks, Root
  <2> QED
    BY <2>1, <2>2, <2>3 DEF TakeTask, Start
<1>2. phase'[Root] = ph[Root] /\ Ends \cap Working = {}
  BY <1>1 DEF Everyone, Ends, Working, Waiting
<1>3. phase[Root] # "exited" /\ gone # Workers
  BY <1>1 DEF Ending
<1>4. \A u \in Threads : u # th => stack'[u] = stack[u]
  BY <1>1 DEF TypeOK
<1>5. phase[Root] \in Ends => stack'[Main] = stack[Main]
  BY <1>4 DEF Threads
<1>6. \A w \in gone : stack'[w] = <<>>
  <2>1. gone \subseteq Threads
    BY DEF TypeOK, Threads
  <2> QED
    BY <1>4, <2>1 DEF Ending
<1>7. phase'[Root] = phase[Root] \/ (phase[Root] \in Working /\ phase'[Root] \in Working)
  BY <1>2
<1>8. phase'[Root] \in Ends => phase'[Root] = phase[Root]
  BY <1>2, <1>7
<1>9. /\ phase'[Root] # "exited"
      /\ phase'[Root] = "joining" <=> phase[Root] = "joining"
      /\ phase'[Root] \in Working \cup Ends
  BY <1>2, <1>3, <1>7 DEF Ending, Ends
<1> QED
  BY <1>1, <1>3, <1>5, <1>6, <1>8, <1>9 DEF Ending

\* After a crash nothing moves.
LEMMA CrashFinal == ~Alive /\ [Next]_vars => UNCHANGED vars
<1> SUFFICES ASSUME ~Alive, Next PROVE UNCHANGED vars
  OBVIOUS
<1> USE DEF At
<1>1. ASSUME NEW th \in Threads, NEW t \in Everyone, Script(th, t) \/ Return(th, t) \/ Wait(th, t)
      PROVE  FALSE
  BY <1>1 DEF Script, Return, Wait, Spawn, Crash, AwaitBegin, ResultBegin, Cancel, End,
              HelpCheck, HelpTake, HelpNothing, Observe
<1>2. ASSUME NEW w \in Workers, Loop(w) PROVE FALSE
  BY <1>2 DEF Loop, WorkerTake, WorkerExit
<1>3. ~ (RootReturn \/ RootThrow \/ Shutdown)
  BY DEF RootReturn, RootThrow, Shutdown, StopPool, JoinWorkers
<1> QED
  BY <1>1, <1>2, <1>3 DEF Next, Terminated, Everyone

LEMMA NextEnding ==
  TypeOK /\ Ordered /\ Located /\ Ending /\ [Next]_vars /\ Alive' => Ending'
<1> SUFFICES ASSUME TypeOK, Ordered, Located, Ending, [Next]_vars, Alive' PROVE Ending'
  OBVIOUS
<1>0. /\ Ends \cap Working = {} /\ {"run", "help", "pop", "result"} = Working
      /\ Main \in Threads /\ Root \in Everyone /\ Root \notin Tasks
  BY NatTasks DEF Ends, Working, Waiting, Threads, Everyone, Tasks, Root
<1>1. ASSUME NEW th \in Threads, NEW t \in Everyone, Spawn(th, t) PROVE Ending'
  <2>1. gone # Workers /\ phase[Root] # "exited"
    BY <1>0, <1>1, Busy DEF Spawn
  <2>2. /\ UNCHANGED <<stack, gone>> /\ pool' = IF pool = "off" THEN "on" ELSE pool
        /\ phase' = [phase EXCEPT ![submitted + 1] = "queued"]
        /\ submitted + 1 \in Tasks
    BY <1>1, PoolAssumption DEF Spawn, TypeOK, Tasks
  <2>3. phase'[Root] = phase[Root]
    BY <1>0, <2>2 DEF TypeOK
  <2> QED
    BY <2>1, <2>2, <2>3 DEF Ending
<1>2. ASSUME NEW th \in Threads, NEW t \in Everyone, NEW how, End(th, t, how) PROVE Ending'
  <2>1. /\ t \in Tasks /\ t # Root /\ At(th, t, "run")
        /\ phase' = [phase EXCEPT ![t] = "done"]
        /\ stack' = [stack EXCEPT ![th] = Pop(@)]
        /\ UNCHANGED <<submitted, queue, pool, gone>>
    BY <1>2 DEF End, Everyone
  <2>2. /\ th \notin gone /\ phase[Root] # "exited"
        /\ th = Main => phase[Root] \notin Ends
    BY <1>0, <2>1, Busy
  <2>3. phase'[Root] = phase[Root] /\ \A u \in Threads : u # th => stack'[u] = stack[u]
    BY <2>1 DEF TypeOK
  <2>4. \A w \in gone : stack'[w] = <<>>
    <3>1. gone \subseteq Threads
      BY DEF TypeOK, Threads
    <3> QED
      BY <2>2, <2>3, <3>1 DEF Ending
  <2>5. phase[Root] \in Ends => stack'[Main] = stack[Main]
    BY <1>0, <2>2, <2>3
  <2> QED
    BY <2>1, <2>2, <2>3, <2>4, <2>5 DEF Ending
<1>3. ASSUME NEW th \in Threads, NEW t \in Everyone, HelpTake(th, t) PROVE Ending'
  <2> DEFINE ph == [phase EXCEPT ![t] = "help"]
  <2>1. At(th, t, "pop") /\ ph \in [Everyone -> Phases] /\ TakeTask(th, ph)
    BY <1>3 DEF HelpTake, TypeOK, Phases, Everyone
  <2>2. /\ th \notin gone
        /\ th = Main => phase[Root] \notin Ends
    BY <1>0, <2>1, Busy
  <2>3. ph[Root] = phase[Root] \/ (phase[Root] \in Working /\ ph[Root] \in Working)
    BY <1>0, <2>1 DEF TypeOK, At
  <2>4. pool # "off"
    <3>1. ASSUME pool = "off" PROVE FALSE
      <4>1. submitted = 0 /\ queue \in Seq(Tasks) /\ queue # <<>>
        BY <1>0, <2>1, <3>1, Busy DEF Ending, TakeTask, TypeOK
      <4>2. Len(queue) \in Nat \ {0} /\ queue[1] \in Tasks
        BY <4>1, EmptySeq, ElementOfSeq
      <4> QED
        BY <4>1, <4>2 DEF Ordered, Below, Tasks
    <3> QED
      BY <3>1
  <2> QED
    BY <2>1, <2>2, <2>3, <2>4, TakeEnding
<1>4. ASSUME NEW w \in Workers, WorkerTake(w) PROVE Ending'
  <2>1. w \in Threads /\ w # Main /\ w \notin gone /\ pool # "off" /\ TakeTask(w, phase)
    BY <1>4, PoolAssumption DEF WorkerTake, Threads
  <2> QED
    BY <2>1, TakeEnding DEF TypeOK, Everyone
<1>5. ASSUME NEW th \in Threads, NEW t \in Everyone, NEW f \in Tasks,
             AwaitBegin(th, t, f) \/ ResultBegin(th, t, f)
      PROVE  Ending'
  BY <1>0, <1>5, MoveEnding DEF AwaitBegin, ResultBegin, Move
<1>6. ASSUME NEW th \in Threads, NEW t \in Everyone,
             HelpCheck(th, t) \/ HelpNothing(th, t) \/ Observe(th, t)
      PROVE  Ending'
  <2>1. PICK p \in Working, r \in Working :
          /\ At(th, t, p) /\ phase' = [phase EXCEPT ![t] = r]
          /\ UNCHANGED <<submitted, queue, stack, pool, gone>>
    BY <1>0, <1>6 DEF HelpCheck, HelpNothing, Observe, Move
  <2> QED
    BY <2>1, MoveEnding
<1>7. ASSUME NEW w \in Workers, WorkerExit(w) PROVE Ending'
  BY <1>7 DEF WorkerExit, MayLeave, Ending
<1>8. CASE RootReturn \/ RootThrow
  <2>1. PICK p \in {"returned", "thrown"} :
          /\ At(Main, Root, "run") /\ phase' = [phase EXCEPT ![Root] = p]
          /\ UNCHANGED <<submitted, queue, stack, pool, gone>>
    BY <1>8 DEF RootReturn, RootThrow, Move
  <2>2. Items(stack[Main]) = {Root}
    BY <1>0, <2>1, RootOnMain DEF At
  <2>3. phase'[Root] = p /\ phase[Root] = "run"
    BY <1>0, <2>1 DEF TypeOK, At, Everyone
  <2> QED
    BY <2>1, <2>2, <2>3 DEF Ending, Ends
<1>9. CASE StopPool
  <2>1. /\ At(Main, Root, "returned") /\ pool' = Stop
        /\ phase' = [phase EXCEPT ![Root] = IF pool = "off" THEN "exited" ELSE "joining"]
        /\ UNCHANGED <<submitted, queue, stack, gone>>
    BY <1>9 DEF StopPool
  <2>2. Items(stack[Main]) = {Root} /\ phase[Root] = "returned" /\ gone = {} /\ pool # "stopping"
    BY <1>0, <2>1, RootOnMain DEF At, Ending
  <2>3. CASE pool # "off"
    <3>1. phase'[Root] = "joining" /\ pool' = "stopping"
      BY <1>0, <2>1, <2>3 DEF TypeOK, Everyone, Stop
    <3> QED
      BY <2>1, <2>2, <3>1, PoolAssumption DEF Ending, Ends
  <2>4. CASE pool = "off"
    <3>1. phase'[Root] = "exited" /\ pool' = "off" /\ submitted = 0
      BY <1>0, <2>1, <2>2, <2>4 DEF TypeOK, Everyone, Stop, Ending
    <3>2. \A n \in Tasks : phase[n] = "none"
      BY <3>1, NatTasks DEF Located, Tasks
    <3>3. Items(queue) = {} /\ \A w \in Workers : Items(stack[w]) = {}
      <4>1. Items(queue) \subseteq Tasks
        BY ElementOfSeq DEF TypeOK, Items
      <4>2. ASSUME NEW w \in Workers PROVE Items(stack[w]) \subseteq Everyone /\ Root \notin Items(stack[w])
        <5>1. w \in Threads /\ w # Main
          BY PoolAssumption DEF Threads
        <5>2. stack[w] \in Seq(Everyone)
          BY <5>1 DEF TypeOK, Everyone
        <5>3. Items(stack[w]) \subseteq Everyone
          BY <5>2, ElementOfSeq DEF Items
        <5>4. Root \notin Items(stack[w])
          BY <1>0, <5>1 DEF Located
        <5> QED
          BY <5>3, <5>4
      <4>3. ASSUME NEW n \in Tasks PROVE n \notin Items(queue) /\ \A w \in Workers : n \notin Items(stack[w])
        BY <3>2 DEF Located, Working, Waiting, Threads
      <4> QED
        BY <4>1, <4>2, <4>3 DEF Everyone
    <3>4. queue = <<>> /\ \A w \in Workers : stack[w] = <<>>
      <4>1. \A w \in Workers : stack[w] \in Seq(Everyone)
        BY DEF TypeOK, Threads, Everyone
      <4>2. queue \in Seq(Tasks)
        BY DEF TypeOK
      <4> QED
        BY <3>3, <4>1, <4>2, ItemsEmpty
    <3> QED
      BY <2>1, <2>2, <3>1, <3>4 DEF Ending, Ends
  <2> QED
    BY <2>3, <2>4
<1>10. CASE JoinWorkers
  <2>1. /\ At(Main, Root, "joining") /\ gone = Workers /\ pool' = "off" /\ gone' = {} /\ queue' = <<>>
        /\ phase' = [phase EXCEPT ![Root] = "exited"] /\ UNCHANGED <<submitted, stack>>
    BY <1>10 DEF JoinWorkers
  <2>2. phase'[Root] = "exited" /\ phase[Root] \in Ends
    BY <1>0, <2>1 DEF TypeOK, Everyone, At, Ends
  <2> QED
    BY <2>1, <2>2 DEF Ending, Ends
<1>11. ASSUME NEW th \in Threads, NEW t \in Everyone, NEW f \in Tasks, Cancel(th, t, f)
      PROVE  Ending'
  BY <1>11, SameEnding DEF Cancel
<1>12. CASE Terminated \/ UNCHANGED vars
  BY <1>12, SameEnding DEF Terminated, vars
<1>13. ASSUME NEW th \in Threads, NEW t \in Everyone, Crash(th, t) PROVE FALSE
  <2>1. phase'[Root] = "crashed"
    BY <1>13, CrashFrame DEF TypeOK, Everyone
  <2> QED
    BY <2>1 DEF Alive
<1> QED
  BY <1>1, <1>2, <1>3, <1>4, <1>5, <1>6, <1>7, <1>8, <1>9, <1>10, <1>11, <1>12, <1>13, NextCases

-----------------------------------------------------------------------------
LEMMA NextShallow == TypeOK /\ Ordered /\ Shallow /\ [Next]_vars => Shallow'
<1> SUFFICES ASSUME TypeOK, Ordered, Shallow, [Next]_vars PROVE Shallow'
  OBVIOUS
<1>0. ASSUME UNCHANGED stack PROVE Shallow'
  BY <1>0 DEF Shallow
<1>1. ASSUME NEW th \in Threads, NEW ph, TakeTask(th, ph) PROVE Shallow'
  <2> DEFINE n == Head(queue)
  <2>1. queue # <<>> /\ queue \in Seq(Tasks) /\ n = queue[1] /\ n \in Nat \ {0} /\ n \in Everyone
    <3>1. queue # <<>> /\ queue \in Seq(Tasks)
      BY <1>1 DEF TakeTask, TypeOK
    <3>2. n = queue[1] /\ n \in Tasks
      BY <3>1, HeadTailProperties
    <3> QED
      BY <3>1, <3>2, NatTasks DEF Tasks
  <2>2. CASE UNCHANGED stack
    BY <1>0, <2>2
  <2>3. CASE stack' = [stack EXCEPT ![th] = Append(@, n)]
    <3>1. stack[th] \in Seq(Everyone)
      BY DEF TypeOK, Everyone
    <3>2. /\ Len(stack[th]) \in Nat /\ Len(Append(stack[th], n)) = Len(stack[th]) + 1
          /\ \A i \in 1 .. Len(stack[th]) : Append(stack[th], n)[i] = stack[th][i]
          /\ Append(stack[th], n)[Len(stack[th]) + 1] = n
      BY <2>1, <3>1, AppendProperties, LenProperties
    <3>3. Len(stack[th]) <= n
      <4>1. CASE Len(stack[th]) = 0
        BY <2>1, <4>1
      <4>2. CASE Len(stack[th]) # 0
        <5>1. Len(stack[th]) \in 1 .. Len(stack[th]) /\ 1 \in 1 .. Len(queue)
          BY <2>1, <3>2, <4>2, EmptySeq, LenProperties
        <5>2. stack[th][Len(stack[th])] \in Nat
          BY <3>1, <5>1, NatTasks, ElementOfSeq
        <5>3. stack[th][Len(stack[th])] < n
          BY <2>1, <5>1 DEF Ordered, Above, Below
        <5>4. Len(stack[th]) <= stack[th][Len(stack[th])] + 1
          BY <5>1 DEF Shallow
        <5> QED
          BY <2>1, <3>2, <5>2, <5>3, <5>4
      <4> QED
        BY <4>1, <4>2
    <3>4. \A i \in 1 .. Len(Append(stack[th], n)) : i <= Append(stack[th], n)[i] + 1
      BY <2>1, <3>2, <3>3 DEF Shallow
    <3>5. stack'[th] = Append(stack[th], n) /\ \A u \in Threads : u # th => stack'[u] = stack[u]
      BY <2>3 DEF TypeOK
    <3> QED
      BY <3>4, <3>5 DEF Shallow
  <2> QED
    BY <1>1, <2>2, <2>3 DEF TakeTask, Start
<1>2. ASSUME NEW th \in Threads, NEW t \in Everyone, NEW how, End(th, t, how) PROVE Shallow'
  <2>1. stack[th] \in Seq(Everyone) /\ stack[th] # <<>> /\ stack' = [stack EXCEPT ![th] = Pop(@)]
    BY <1>2 DEF End, At, TypeOK, Everyone
  <2>2. /\ Len(stack[th]) \in Nat /\ Len(Pop(stack[th])) = Len(stack[th]) - 1
        /\ \A i \in 1 .. Len(stack[th]) - 1 : Pop(stack[th])[i] = stack[th][i]
    BY <2>1, PopTyped, LenProperties
  <2>3. \A i \in 1 .. Len(Pop(stack[th])) : i <= Pop(stack[th])[i] + 1
    BY <2>2 DEF Shallow
  <2>4. stack'[th] = Pop(stack[th]) /\ \A u \in Threads : u # th => stack'[u] = stack[u]
    BY <2>1 DEF TypeOK
  <2> QED
    BY <2>3, <2>4 DEF Shallow
<1>3. ASSUME NEW th \in Threads, NEW t \in Everyone, HelpTake(th, t) PROVE Shallow'
  BY <1>1, <1>3 DEF HelpTake
<1>4. ASSUME NEW w \in Workers, WorkerTake(w) PROVE Shallow'
  BY <1>1, <1>4 DEF WorkerTake, Threads
<1>5. ASSUME NEW th \in Threads, NEW t \in Everyone, NEW f \in Tasks,
             AwaitBegin(th, t, f) \/ ResultBegin(th, t, f) \/ Cancel(th, t, f)
      PROVE  Shallow'
  BY <1>0, <1>5 DEF AwaitBegin, ResultBegin, Cancel, Move
<1>6. ASSUME NEW th \in Threads, NEW t \in Everyone,
             Spawn(th, t) \/ Crash(th, t) \/ HelpCheck(th, t) \/ HelpNothing(th, t) \/ Observe(th, t)
      PROVE  Shallow'
  BY <1>0, <1>6 DEF Spawn, Crash, HelpCheck, HelpNothing, Observe, Move
<1>7. CASE (\E w \in Workers : WorkerExit(w)) \/ RootReturn \/ RootThrow \/ StopPool \/ JoinWorkers
  BY <1>0, <1>7 DEF WorkerExit, RootReturn, RootThrow, Move, StopPool, JoinWorkers
<1>8. CASE Terminated \/ UNCHANGED vars
  BY <1>0, <1>8 DEF Terminated, vars
<1> QED
  BY <1>2, <1>3, <1>4, <1>5, <1>6, <1>7, <1>8, NextCases

\* Where every task is, and what the end of run() leaves behind.
Whereabouts == IInv /\ Located /\ Shallow /\ (Alive => Ending)

LEMMA InitWhereabouts == Init => Located /\ Shallow /\ Ending
<1> SUFFICES ASSUME Init PROVE Located /\ Shallow /\ Ending
  OBVIOUS
<1>1. /\ stack[Main] = <<Root>> /\ \A w \in Workers : stack[w] = <<>>
      /\ phase[Root] = "run" /\ \A n \in Tasks : phase[n] = "none"
  <2>1. \A n \in Tasks : n # Root /\ n \in {Root} \cup Tasks
    BY NatTasks DEF Tasks, Root
  <2>2. \A w \in Workers : w # Main /\ w \in Threads
    BY PoolAssumption DEF Threads
  <2> QED
    BY <2>1, <2>2 DEF Init, Threads
<1>2. Items(<<>>) = {} /\ Len(<<>>) = 0
  <2>1. Len(<<>>) = 0 /\ 1 .. 0 = {}
    BY EmptySeq
  <2> QED
    BY <2>1 DEF Items
<1>3. Items(<<Root>>) = {Root} /\ Len(<<Root>>) = 1 /\ <<Root>>[1] = 0
  BY DEF Items, Root
<1>4. \A n \in Tasks : n # Root /\ n > 0
  BY NatTasks DEF Tasks, Root
<1>5. Located
  <2>1. \A n \in Tasks, th \in Threads : n \notin Items(stack[th])
    BY <1>1, <1>2, <1>3, <1>4 DEF Threads
  <2>2. \A th, u \in Threads : th # u => Items(stack[th]) \cap Items(stack[u]) = {}
    BY <1>1, <1>2, <1>3 DEF Threads
  <2> QED
    BY <1>1, <1>2, <1>3, <1>4, <2>1, <2>2 DEF Located, Init, Working, Waiting
<1>6. Shallow
  <2> SUFFICES ASSUME NEW th \in Threads, NEW i \in 1 .. Len(stack[th])
               PROVE  i <= stack[th][i] + 1
    BY DEF Shallow
  <2>1. th = Main /\ i = 1
    <3>1. CASE th \in Workers
      BY <1>1, <1>2, <3>1
    <3>2. CASE th = Main
      <4>1. Len(stack[th]) = 1
        BY <1>1, <1>3, <3>2
      <4> QED
        BY <3>2, <4>1
    <3> QED
      BY <3>1, <3>2 DEF Threads
  <2> QED
    BY <1>1, <1>3, <2>1
<1>7. Ending
  BY <1>1, PoolAssumption DEF Init, Ending, Working, Ends
<1> QED
  BY <1>5, <1>6, <1>7

LEMMA AlwaysWhereabouts == Spec => []Whereabouts
<1>1. Init => Located /\ Shallow /\ Ending
  BY InitWhereabouts
<1>2. Whereabouts /\ [Next]_vars => (Located /\ Shallow /\ (Alive => Ending))'
  <2> SUFFICES ASSUME Whereabouts, [Next]_vars PROVE (Located /\ Shallow /\ (Alive => Ending))'
    OBVIOUS
  <2> USE DEF Whereabouts, IInv
  <2>1. Located' /\ Shallow'
    BY NextLocated, NextShallow
  <2>2. CASE Alive
    BY <2>1, <2>2, NextEnding
  <2>3. CASE ~Alive
    <3>1. phase' = phase
      BY <2>3, CrashFinal DEF vars
    <3> QED
      BY <2>1, <2>3, <3>1 DEF Alive
  <2> QED
    BY <2>2, <2>3
<1> QED
  BY <1>1, <1>2, Invariance, PTL DEF Spec, Whereabouts

\* A worker and a helper that race for the queue never run the same task, and
\* no task drops out between the queue and a stack (async_pool_try_pop).
THEOREM TasksRunOnce == Spec => []RunOnce
<1>1. Whereabouts => RunOnce
  <2> SUFFICES ASSUME Whereabouts, NEW n \in Tasks
               PROVE  /\ Cardinality(InQueue(n)) = IF phase[n] = "queued" THEN 1 ELSE 0
                      /\ Cardinality(OnStacks(n)) = IF phase[n] \in {"run"} \cup Waiting THEN 1 ELSE 0
    BY DEF RunOnce
  <2> USE DEF Whereabouts, IInv
  <2>0. Cardinality({}) = 0 /\ \A x : Cardinality({x}) = 1
    BY FS_EmptySet, FS_Singleton
  <2>1. /\ queue \in Seq(Tasks) /\ Len(queue) \in Nat /\ DOMAIN queue = 1 .. Len(queue)
        /\ \A i \in 1 .. Len(queue) : queue[i] \in Nat
    <3>1. queue \in Seq(Tasks)
      BY DEF TypeOK
    <3> QED
      BY <3>1, LenProperties, ElementOfSeq, NatTasks
  <2>2. ASSUME NEW th \in Threads
        PROVE  /\ stack[th] \in Seq(Everyone) /\ Len(stack[th]) \in Nat
               /\ DOMAIN stack[th] = 1 .. Len(stack[th])
               /\ \A i \in 1 .. Len(stack[th]) : stack[th][i] \in Everyone /\ stack[th][i] \in Nat
    <3>1. stack[th] \in Seq(Everyone)
      BY DEF TypeOK, Everyone
    <3> QED
      BY <3>1, LenProperties, ElementOfSeq, NatTasks
  <2>3. Cardinality(InQueue(n)) = IF phase[n] = "queued" THEN 1 ELSE 0
    <3>1. CASE phase[n] = "queued"
      <4>1. PICK i \in 1 .. Len(queue) : queue[i] = n
        BY <3>1 DEF Located, Items
      <4>2. \A j \in 1 .. Len(queue) : queue[j] = n => j = i
        BY <2>1, <4>1 DEF Ordered, Rising
      <4>3. InQueue(n) = {i}
        BY <2>1, <4>1, <4>2 DEF InQueue
      <4> QED
        BY <2>0, <3>1, <4>3
    <3>2. CASE phase[n] # "queued"
      <4>1. InQueue(n) = {}
        BY <2>1, <3>2 DEF InQueue, Located, Items
      <4> QED
        BY <2>0, <3>2, <4>1
    <3> QED
      BY <3>1, <3>2
  <2>4. Cardinality(OnStacks(n)) = IF phase[n] \in Working THEN 1 ELSE 0
    <3>1. CASE phase[n] \in Working
      <4>1. PICK th \in Threads : n \in Items(stack[th])
        BY <3>1 DEF Located
      <4>2. PICK i \in 1 .. Len(stack[th]) : stack[th][i] = n
        BY <4>1 DEF Items
      <4>3. ASSUME NEW u \in Threads, NEW j \in 1 .. Len(stack[u]), stack[u][j] = n
            PROVE  u = th /\ j = i
        <5>1. n \in Items(stack[u])
          BY <4>3 DEF Items
        <5>2. u = th
          BY <4>1, <5>1 DEF Located
        <5> QED
          BY <2>2, <4>2, <4>3, <5>2 DEF Ordered, Rising
      <4>4. i \in 1 .. MaxTasks + 1
        <5>1. i <= n + 1 /\ n \in 1 .. MaxTasks
          BY <4>2 DEF Shallow, Tasks
        <5> QED
          BY <2>2, <5>1, PoolAssumption
      <4>5. OnStacks(n) = {<<th, i>>}
        BY <2>2, <4>2, <4>3, <4>4 DEF OnStacks
      <4> QED
        BY <2>0, <3>1, <4>5
    <3>2. CASE phase[n] \notin Working
      <4>1. \A th \in Threads : n \notin Items(stack[th])
        BY <3>2 DEF Located
      <4>2. OnStacks(n) = {}
        BY <2>2, <4>1 DEF OnStacks, Items
      <4> QED
        BY <2>0, <3>2, <4>2
    <3> QED
      BY <3>1, <3>2
  <2> QED
    BY <2>3, <2>4 DEF Working
<1> QED
  BY <1>1, AlwaysWhereabouts, PTL

-----------------------------------------------------------------------------
(***************************************************************************)
(* No deadlock.  A task awaits a younger one, its own; the youngest task   *)
(* that is under way awaits one that is still queued, if it waits at all.  *)
(***************************************************************************)
Asking ==
  /\ \A t \in Everyone : /\ phase[t] \in Waiting => target[t] \in 1 .. submitted
                         /\ phase[t] \in Waiting /\ Structured => parent[target[t]] = t
                         /\ phase[t] = "result" => "result" \in Uses
  /\ \A f \in 1 .. submitted : parent[f] < f

\* Steps that create nothing, and by which no task begins to wait.
LEMMA SameAsking ==
  ASSUME Asking, UNCHANGED <<submitted, target, parent>>,
         \A t \in Everyone : /\ phase'[t] \in Waiting => phase[t] \in Waiting
                             /\ phase'[t] = "result" => phase[t] = "result"
  PROVE  Asking'
BY DEF Asking

LEMMA NextAsking == TypeOK /\ Ordered /\ Asking /\ [Next]_vars => Asking'
<1> SUFFICES ASSUME TypeOK, Ordered, Asking, [Next]_vars PROVE Asking'
  OBVIOUS
<1>1. ASSUME NEW th \in Threads, NEW t \in Everyone, Spawn(th, t) PROVE Asking'
  <2> DEFINE n == submitted + 1
  <2>1. /\ submitted \in Nat /\ n \in Tasks /\ n \in Everyone /\ submitted' = n
        /\ 1 .. submitted \subseteq Tasks /\ n \notin 1 .. submitted /\ 1 .. n = (1 .. submitted) \cup {n}
    <3>1. submitted \in Nat /\ submitted < MaxTasks /\ submitted' = n
      BY <1>1, PoolAssumption DEF Spawn, TypeOK
    <3> QED
      BY <3>1, PoolAssumption DEF Tasks, Everyone
  <2> DEFINE c == Creator(t)
  <2>2. /\ phase' = [phase EXCEPT ![n] = "queued"] /\ parent' = [parent EXCEPT ![n] = c]
        /\ target' = target
    BY <1>1 DEF Spawn
  <2>3. c < n
    <3>1. stack[th] # <<>> /\ t = Top(th)
      BY <1>1 DEF Spawn, At
    <3>2. Len(stack[th]) \in 1 .. Len(stack[th])
      BY <3>1, TopTyped, LenProperties DEF TypeOK
    <3>3. t < n
      BY <3>1, <3>2 DEF Ordered, Below, Top
    <3> QED
      BY <2>1, <3>3 DEF Creator, Root
  <2> HIDE DEF c
  <2>4. \A u \in Everyone : /\ phase'[u] \in Waiting => phase[u] \in Waiting
                            /\ phase'[u] = "result" => phase[u] = "result"
    BY <2>1, <2>2 DEF TypeOK, Everyone, Waiting
  <2>5. \A f \in 1 .. submitted : parent'[f] = parent[f]
    BY <2>1, <2>2 DEF TypeOK
  <2>6. parent'[n] = c
    BY <2>1, <2>2 DEF TypeOK
  <2> QED
    BY <2>1, <2>2, <2>3, <2>4, <2>5, <2>6 DEF Asking
<1>2. ASSUME NEW th \in Threads, NEW t \in Everyone, NEW f \in Tasks,
             AwaitBegin(th, t, f) \/ ResultBegin(th, t, f)
      PROVE  Asking'
  <2>1. /\ f \in 1 .. submitted /\ (Structured => parent[f] = t)
        /\ target' = [target EXCEPT ![t] = f] /\ UNCHANGED <<submitted, parent>>
    <3>1. /\ f <= submitted /\ (Structured => parent[f] = t) /\ f \in Nat \ {0} /\ submitted \in Nat
          /\ target' = [target EXCEPT ![t] = f] /\ UNCHANGED <<submitted, parent>>
      BY <1>2, PoolAssumption DEF AwaitBegin, ResultBegin, Knows, Move, Tasks, TypeOK
    <3> QED
      BY <3>1
  <2>2. PICK p \in {"help", "result"} : /\ phase' = [phase EXCEPT ![t] = p]
                                        /\ p = "result" => "result" \in Uses
    BY <1>2 DEF AwaitBegin, ResultBegin, Move
  <2>3. phase'[t] = p /\ target'[t] = f
    BY <2>1, <2>2 DEF TypeOK, Everyone
  <2>4. \A u \in Everyone : u # t => phase'[u] = phase[u] /\ target'[u] = target[u]
    BY <2>1, <2>2 DEF TypeOK, Everyone
  <2> QED
    BY <2>1, <2>2, <2>3, <2>4 DEF Asking
<1>3. ASSUME NEW th \in Threads, NEW ph \in [Everyone -> Phases], TakeTask(th, ph),
             \A u \in Everyone : /\ ph[u] \in Waiting => phase[u] \in Waiting
                                 /\ ph[u] = "result" => phase[u] = "result"
      PROVE  Asking'
  <2> DEFINE n == Head(queue)
  <2>1. \E p \in {"done", "run"} : phase' = [ph EXCEPT ![n] = p]
    BY <1>3 DEF TakeTask, Start
  <2>2. \A u \in Everyone : phase'[u] = ph[u] \/ phase'[u] \in {"done", "run"}
    BY <2>1
  <2>3. \A u \in Everyone : /\ phase'[u] \in Waiting => phase[u] \in Waiting
                            /\ phase'[u] = "result" => phase[u] = "result"
    BY <1>3, <2>2 DEF Waiting
  <2>4. UNCHANGED <<submitted, target, parent>>
    BY <1>3 DEF TakeTask
  <2> QED
    BY <2>3, <2>4, SameAsking
<1>4. ASSUME NEW th \in Threads, NEW t \in Everyone, HelpTake(th, t) PROVE Asking'
  <2> DEFINE ph == [phase EXCEPT ![t] = "help"]
  <2>1. /\ phase[t] = "pop" /\ ph \in [Everyone -> Phases] /\ TakeTask(th, ph)
    BY <1>4 DEF HelpTake, At, TypeOK, Phases, Everyone
  <2>2. \A u \in Everyone : /\ ph[u] \in Waiting => phase[u] \in Waiting
                            /\ ph[u] = "result" => phase[u] = "result"
    BY <2>1 DEF TypeOK, Everyone, Waiting
  <2> QED
    BY <1>3, <2>1, <2>2
<1>5. ASSUME NEW w \in Workers, WorkerTake(w) PROVE Asking'
  BY <1>3, <1>5 DEF WorkerTake, Threads, TypeOK, Everyone
<1>6. ASSUME NEW t \in Everyone, NEW p \in Phases, phase' = [phase EXCEPT ![t] = p],
             p # "result", p \in Waiting => phase[t] \in Waiting,
             UNCHANGED <<submitted, target, parent>>
      PROVE  Asking'
  BY <1>6, SameAsking DEF TypeOK, Everyone
<1>7. ASSUME NEW th \in Threads, NEW t \in Everyone, NEW how, End(th, t, how) PROVE Asking'
  BY <1>6, <1>7 DEF End, Phases, Waiting
<1>8. ASSUME NEW th \in Threads, NEW t \in Everyone,
             HelpCheck(th, t) \/ HelpNothing(th, t) \/ Observe(th, t)
      PROVE  Asking'
  BY <1>6, <1>8 DEF HelpCheck, HelpNothing, Observe, At, Move, Phases, Waiting
<1>9. CASE RootReturn \/ RootThrow \/ StopPool \/ JoinWorkers \/ \E th, t : Crash(th, t)
  <2>1. Root \in Everyone /\ UNCHANGED <<submitted, target, parent>>
    BY <1>9 DEF RootReturn, RootThrow, StopPool, JoinWorkers, Crash, Move, Everyone
  <2>2. \E p \in {"returned", "thrown", "exited", "joining", "crashed"} :
           phase' = [phase EXCEPT ![Root] = p]
    BY <1>9 DEF RootReturn, RootThrow, StopPool, JoinWorkers, Crash, Move
  <2> QED
    BY <1>6, <2>1, <2>2 DEF Phases, Waiting
<1>10. CASE UNCHANGED <<submitted, target, parent, phase>>
  BY <1>10, SameAsking
<1>11. ASSUME NEW th \in Threads, NEW t \in Everyone, NEW f \in Tasks, Cancel(th, t, f)
       PROVE  Asking'
  BY <1>10, <1>11 DEF Cancel
<1>12. CASE (\E w \in Workers : WorkerExit(w)) \/ Terminated \/ UNCHANGED vars
  BY <1>10, <1>12 DEF WorkerExit, Terminated, vars
<1> QED
  BY <1>1, <1>2, <1>4, <1>5, <1>7, <1>8, <1>9, <1>11, <1>12, NextCases

LEMMA AlwaysAsking == Spec => []Asking
<1>1. Init => Asking
  BY DEF Init, Asking, Waiting, Everyone, Tasks, Root
<1>2. Whereabouts /\ Asking /\ [Next]_vars => Asking'
  BY NextAsking DEF Whereabouts, IInv
<1> QED
  BY <1>1, <1>2, AlwaysWhereabouts, PTL DEF Spec

\* Every set of naturals that is not empty has a least element.
LEMMA LeastNat ==
  ASSUME NEW S \in SUBSET Nat, S # {}
  PROVE  \E x \in S : \A y \in S : x <= y
<1>1. IsWellFoundedOn(OpToRel(<, Nat), Nat)
  BY NatLessThanWellFounded
<1>2. PICK x \in S : \A y \in S : ~ (<<y, x>> \in OpToRel(<, Nat))
  BY <1>1, WFMin
<1>3. \A y \in S : ~ (y < x)
  BY <1>2 DEF OpToRel
<1> QED
  BY <1>3

\* There is a youngest one among tasks.
LEMMA Youngest ==
  ASSUME NEW S \in SUBSET Everyone, S # {}
  PROVE  \E x \in S : \A y \in S : y <= x
<1> DEFINE T == {MaxTasks - x : x \in S}
<1>1. \A x \in S : x \in Nat /\ x <= MaxTasks
  BY PoolAssumption DEF Everyone, Root, Tasks
<1>2. T \in SUBSET Nat /\ T # {}
  BY <1>1, PoolAssumption
<1>3. PICK m \in T : \A y \in T : m <= y
  BY <1>2, LeastNat
<1>4. PICK x \in S : m = MaxTasks - x
  OBVIOUS
<1>5. \A y \in S : MaxTasks - x <= MaxTasks - y
  BY <1>3, <1>4
<1> QED
  BY <1>1, <1>5, PoolAssumption

\* Tasks that await only what they created, and only with await, never stand
\* still: "The worker helps run other queued tasks so the pool does not
\* deadlock" (async_pool_help_while_waiting).
THEOREM HelpingHelps ==
  ASSUME Structured, "result" \notin Uses
  PROVE  Spec => []HelpingNeverDeadlocks
<1>1. Whereabouts /\ Asking => HelpingNeverDeadlocks
  <2> SUFFICES ASSUME Whereabouts, Asking, Stuck PROVE FALSE
    BY DEF HelpingNeverDeadlocks
  <2> USE DEF Whereabouts, IInv
  <2>0. /\ Main \in Threads /\ Root \in Everyone /\ {"run", "help", "pop", "result"} = Working
        /\ Ends \cap Working = {}
    BY DEF Threads, Everyone, Working, Waiting, Ends
  <2>1. Alive /\ Ending /\ \A th \in Threads : ~CanStep(th)
    BY DEF Stuck, Over, Alive
  <2> DEFINE Under == {t \in Everyone : phase[t] \in Working}
  <2>2. ASSUME NEW t \in Under PROVE \E th \in Threads : t \in Items(stack[th])
    <3>1. CASE t = Root
      BY <2>0, <3>1 DEF Located
    <3>2. CASE t \in Tasks
      BY <3>2 DEF Located
    <3> QED
      BY <3>1, <3>2 DEF Everyone
  <2>3. ASSUME NEW th \in Threads, stack[th] # <<>>, th = Main => phase[Root] \notin Ends
        PROVE  Top(th) \in Under
    <3>1. Top(th) \in Items(stack[th]) /\ Top(th) \in Everyone
      BY <2>3, TopItem
    <3>2. CASE Top(th) = Root
      BY <2>1, <2>3, <3>1, <3>2, RootOnMain DEF Ending
    <3>3. CASE Top(th) \in Tasks
      BY <3>1, <3>3 DEF Located
    <3> QED
      BY <3>1, <3>2, <3>3 DEF Everyone
  <2>4. Under # {}
    <3>1. CASE phase[Root] \in Working
      BY <2>0, <3>1
    <3>2. CASE phase[Root] \in Ends
      <4>1. Items(stack[Main]) = {Root} /\ stack[Main] # <<>> /\ Top(Main) = Root
        <5>1. Items(stack[Main]) = {Root} /\ stack[Main] \in Seq(Everyone)
          BY <2>0, <2>1, <3>2 DEF Ending, TypeOK, Everyone
        <5>2. stack[Main] # <<>>
          BY <5>1, ItemsEmpty
        <5> QED
          BY <2>0, <5>1, <5>2, TopItem
      <4>2. phase[Root] = "joining" /\ gone # Workers
        BY <2>0, <2>1, <3>2, <4>1 DEF CanStep, At, Stuck, Over, Ends, Everyone
      <4>3. PICK w \in Workers : w \notin gone
        BY <4>2 DEF TypeOK
      <4>4. w \in Threads /\ w # Main /\ pool = "stopping"
        BY <2>1, <4>2, PoolAssumption DEF Threads, Ending
      <4>5. stack[w] # <<>>
        BY <2>1, <4>3, <4>4 DEF CanStep
      <4> QED
        BY <2>3, <4>4, <4>5
    <3> QED
      BY <2>1, <3>1, <3>2 DEF Ending
  <2>5. PICK t \in Under : \A u \in Under : u <= t
    BY <2>4, Youngest
  <2>6. PICK th \in Threads : t \in Items(stack[th])
    BY <2>2
  <2>7. stack[th] # <<>> /\ Top(th) \in Everyone /\ t <= Top(th)
    <3>1. stack[th] \in Seq(Everyone)
      BY DEF TypeOK, Everyone
    <3>2. stack[th] # <<>>
      BY <2>6, <3>1, ItemsEmpty
    <3> QED
      BY <2>6, <3>2, TopItem
  <2>8. Top(th) = t
    <3>1. th = Main => phase[Root] \notin Ends
      BY <2>0, <2>1, <2>6 DEF Ending
    <3>2. Top(th) \in Under
      BY <2>3, <2>7, <3>1
    <3>3. t \in Nat /\ Top(th) \in Nat
      BY <2>7, NatTasks
    <3>4. Top(th) <= t
      BY <2>5, <3>2
    <3> QED
      BY <2>7, <3>3, <3>4
  <2>9. /\ phase[t] \in {"help", "pop"} /\ queue = <<>> /\ ~Resolved(target[t])
    <3>1. phase[t] # "result"
      BY DEF Asking
    <3>2. At(th, t, phase[t])
      BY <2>1, <2>7, <2>8 DEF At
    <3> QED
      BY <2>0, <2>1, <3>1, <3>2 DEF CanStep, Everyone
  <2>10. target[t] \in 1 .. submitted /\ parent[target[t]] = t
    BY <2>9 DEF Asking, Waiting
  <2> DEFINE f == target[t]
  <2>11. f \in Tasks /\ ~(f > submitted) /\ t < f /\ f \in Everyone
    <3>1. parent[f] < f /\ submitted \in Nat /\ submitted <= MaxTasks
      BY <2>10, PoolAssumption DEF Asking, TypeOK
    <3> QED
      BY <2>10, <3>1, PoolAssumption DEF Tasks, Everyone
  <2>12. phase[f] \in Working
    <3>1. Items(queue) = {}
      BY <2>9, ItemsEmpty DEF TypeOK
    <3>2. f \notin done
      BY <2>9 DEF Resolved
    <3> QED
      BY <2>11, <3>1, <3>2 DEF Located
  <2>13. f <= t
    BY <2>5, <2>11, <2>12
  <2>14. f \in Nat /\ t \in Nat
    BY <2>11, NatTasks
  <2> QED
    BY <2>11, <2>13, <2>14
<1> QED
  BY <1>1, AlwaysWhereabouts, AlwaysAsking, PTL

-----------------------------------------------------------------------------
(***************************************************************************)
(* How run() ends.  With the workers joined no task is anywhere but done.  *)
(* A task that misses the program is not Root, so somebody is left; and of *)
(* those that are left the oldest was created by Root or by one who ended. *)
(***************************************************************************)
LEMMA AllDoneAtExit ==
  ASSUME Whereabouts, phase[Root] = "exited"
  PROVE  AllDone
<1> USE DEF Whereabouts, IInv
<1>1. queue = <<>> /\ Items(stack[Main]) = {Root} /\ \A w \in Workers : stack[w] = <<>>
  BY DEF Ending, Ends, Alive
<1>2. Items(<<>>) = {}
  <2>1. Len(<<>>) = 0 /\ 1 .. 0 = {}
    BY EmptySeq
  <2> QED
    BY <2>1 DEF Items
<1>3. submitted \in Nat /\ 1 .. submitted \subseteq Tasks
  BY PoolAssumption DEF TypeOK, Tasks
<1>4. ASSUME NEW n \in 1 .. submitted PROVE n \in done
  <2>1. n \in Tasks /\ ~(n > submitted) /\ n # Root
    BY <1>3 DEF Root
  <2>2. phase[n] \notin {"none", "queued"}
    BY <1>1, <1>2, <2>1 DEF Located
  <2>3. phase[n] \notin Working
    BY <1>1, <1>2, <2>1 DEF Located, Threads
  <2> QED
    BY <2>1, <2>2, <2>3 DEF Located
<1>5. ASSUME NEW n \in done PROVE n \in 1 .. submitted
  <2>1. n \in Tasks /\ ~(n > submitted)
    BY DEF Placed, TypeOK
  <2> QED
    BY <1>3, <2>1 DEF Tasks
<1> QED
  BY <1>1, <1>4, <1>5 DEF AllDone

\* Root neither runs nor waits once it has let go of the program.
Missing ==
  /\ ~program => phase[Root] \notin Working
  /\ ~Alive => \E f \in 1 .. submitted : LeftBehind(f)

\* The oldest task that is not done has a creator that is, or Root.
LEMMA OldestLeftBehind ==
  ASSUME Whereabouts, Asking, NEW t \in 1 .. submitted, t \notin done
  PROVE  \E f \in 1 .. submitted : LeftBehind(f)
<1> USE DEF Whereabouts, IInv
<1> DEFINE Left == {g \in 1 .. submitted : g \notin done}
<1>1. submitted \in Nat /\ 1 .. submitted \subseteq Tasks /\ Left \in SUBSET Nat /\ Left # {}
  <2>1. submitted \in Nat /\ 1 .. submitted \subseteq Tasks
    BY PoolAssumption DEF TypeOK, Tasks
  <2>2. t \in Left /\ \A g \in Left : g \in Nat
    BY <2>1
  <2> QED
    BY <2>1, <2>2
<1>2. PICK g \in Left : \A h \in Left : g <= h
  BY <1>1, LeastNat
<1>3. g \in Tasks /\ g \in Nat /\ g <= submitted /\ parent[g] < g /\ parent[g] \in Everyone
  BY <1>1 DEF Asking, TypeOK, Everyone
<1>4. parent[g] \in done \cup {Root}
  <2> SUFFICES ASSUME parent[g] # Root PROVE parent[g] \in done
    OBVIOUS
  <2>1. parent[g] \in 1 .. submitted
    BY <1>1, <1>3, PoolAssumption DEF Everyone, Tasks
  <2> QED
    BY <1>2, <1>3, <2>1
<1>5. seen[g] = {} \/ g \in cancelled
  BY <1>2, <1>3 DEF Reported, Resolved
<1> QED
  BY <1>2, <1>4, <1>5 DEF LeftBehind

LEMMA NextMissing ==
  ASSUME Whereabouts, Asking, Missing, Alive, [Next]_vars
  PROVE  Missing'
<1> USE DEF Whereabouts, IInv
<1>0. /\ {"run", "help", "pop", "result"} = Working
      /\ Root \in Everyone /\ Root \notin Tasks /\ 1 .. submitted \subseteq Tasks
  BY PoolAssumption, NatTasks DEF Working, Waiting, Everyone, Tasks, Root, TypeOK
<1>1. ASSUME program' = program, phase'[Root] \in Working => phase[Root] \in Working,
             phase'[Root] # "crashed"
      PROVE  Missing'
  BY <1>1 DEF Missing, Alive
<1>2. ASSUME NEW th \in Threads, NEW t \in Everyone, Spawn(th, t) PROVE Missing'
  <2>1. submitted + 1 \in Tasks /\ phase' = [phase EXCEPT ![submitted + 1] = "queued"]
        /\ program' = program
    BY <1>2, PoolAssumption DEF Spawn, TypeOK, Tasks
  <2>2. phase'[Root] = phase[Root]
    BY <1>0, <2>1 DEF TypeOK
  <2> QED
    BY <1>1, <2>1, <2>2 DEF Alive
<1>3. ASSUME NEW th \in Threads, NEW ph \in [Everyone -> Phases], TakeTask(th, ph),
             ph[Root] \in Working => phase[Root] \in Working, ph[Root] # "crashed"
      PROVE  Missing'
  <2>1. Head(queue) \in Tasks /\ program' = program
    BY <1>3, HeadTailProperties DEF TakeTask, TypeOK
  <2>2. \E p \in {"done", "run"} : phase' = [ph EXCEPT ![Head(queue)] = p]
    BY <1>3 DEF TakeTask, Start
  <2>3. phase'[Root] = ph[Root]
    BY <1>0, <2>1, <2>2
  <2> QED
    BY <1>1, <1>3, <2>1, <2>3
<1>4. ASSUME NEW th \in Threads, NEW t \in Everyone, HelpTake(th, t) PROVE Missing'
  <2> DEFINE ph == [phase EXCEPT ![t] = "help"]
  <2>1. phase[t] = "pop" /\ ph \in [Everyone -> Phases] /\ TakeTask(th, ph)
    BY <1>4 DEF HelpTake, At, TypeOK, Phases, Everyone
  <2>2. (ph[Root] \in Working => phase[Root] \in Working) /\ ph[Root] # "crashed"
    BY <1>0, <2>1 DEF TypeOK, Alive, Everyone
  <2> QED
    BY <1>3, <2>1, <2>2
<1>5. ASSUME NEW w \in Workers, WorkerTake(w) PROVE Missing'
  BY <1>3, <1>5 DEF WorkerTake, Threads, TypeOK, Everyone, Alive
<1>6. ASSUME NEW t \in Everyone, phase[t] \in Working, NEW p \in Working \cup {"done"},
             phase' = [phase EXCEPT ![t] = p], program' = program
      PROVE  Missing'
  <2>1. (phase'[Root] \in Working => phase[Root] \in Working) /\ phase'[Root] # "crashed"
    BY <1>0, <1>6 DEF TypeOK, Alive, Everyone
  <2> QED
    BY <1>1, <1>6, <2>1
<1>7. ASSUME NEW th \in Threads, NEW t \in Everyone, NEW f \in Tasks,
             AwaitBegin(th, t, f) \/ ResultBegin(th, t, f)
      PROVE  Missing'
  BY <1>0, <1>6, <1>7 DEF AwaitBegin, ResultBegin, Move, At
<1>8. ASSUME NEW th \in Threads, NEW t \in Everyone,
             HelpCheck(th, t) \/ HelpNothing(th, t) \/ Observe(th, t)
      PROVE  Missing'
  BY <1>0, <1>6, <1>8 DEF HelpCheck, HelpNothing, Observe, Move, At
<1>9. ASSUME NEW th \in Threads, NEW t \in Everyone, NEW how, End(th, t, how) PROVE Missing'
  BY <1>0, <1>6, <1>9 DEF End, At
<1>10. CASE RootReturn \/ RootThrow \/ StopPool \/ JoinWorkers
  <2>1. \E p \in {"returned", "thrown", "exited", "joining"} : phase' = [phase EXCEPT ![Root] = p]
    BY <1>10 DEF RootReturn, RootThrow, StopPool, JoinWorkers, Move
  <2>2. phase'[Root] \in {"returned", "thrown", "exited", "joining"}
    BY <2>1 DEF TypeOK
  <2> QED
    BY <1>0, <2>2 DEF Missing, Alive
<1>11. ASSUME NEW th \in Threads, NEW t \in Everyone, Crash(th, t) PROVE Missing'
  <2>1. /\ ~program /\ phase[t] = "run"
        /\ phase'[Root] = "crashed" /\ UNCHANGED <<submitted, parent, done, cancelled, program, seen>>
    BY <1>11, CrashFrame DEF Crash, At, TypeOK, Everyone
  <2>2. t \in Tasks
    BY <1>0, <2>1 DEF Missing, Everyone
  <2>3. t \in 1 .. submitted /\ t \notin done
    <3>1. submitted \in Nat /\ ~(t > submitted) /\ t \notin done
      BY <2>1, <2>2, PoolAssumption DEF Located, Placed, TypeOK
    <3> QED
      BY <2>2, <3>1 DEF Tasks
  <2>4. PICK f \in 1 .. submitted : LeftBehind(f)
    BY <2>3, OldestLeftBehind
  <2>5. f \in 1 .. submitted' /\ LeftBehind(f)'
    BY <2>1, <2>4 DEF LeftBehind
  <2> QED
    BY <1>0, <2>1, <2>5 DEF Missing
<1>12. CASE UNCHANGED <<phase, program>>
  BY <1>1, <1>12 DEF Alive
<1>13. ASSUME NEW th \in Threads, NEW t \in Everyone, NEW f \in Tasks, Cancel(th, t, f)
       PROVE  Missing'
  BY <1>12, <1>13 DEF Cancel
<1>14. CASE (\E w \in Workers : WorkerExit(w)) \/ Terminated \/ UNCHANGED vars
  BY <1>12, <1>14 DEF WorkerExit, Terminated, vars
<1> QED
  BY <1>2, <1>4, <1>5, <1>7, <1>8, <1>9, <1>10, <1>11, <1>13, <1>14, NextCases

\* Runtime::run lets go of the program before async_pool_shutdown joins the workers.
\* When the shutdown returns, every task ever submitted has been run to its end or
\* skipped as cancelled; when a task that missed the program ended the process, some
\* task had been cancelled, or had been left by its creator without a wait.
THEOREM ShutdownDrains == Spec => []ExitDrained
<1>1. Init => Missing
  BY DEF Init, Missing, Alive, Root
<1>2. Whereabouts /\ Asking /\ Missing /\ [Next]_vars => Missing'
  <2> SUFFICES ASSUME Whereabouts, Asking, Missing, [Next]_vars PROVE Missing'
    OBVIOUS
  <2>1. CASE Alive
    BY <2>1, NextMissing
  <2>2. CASE ~Alive
    <3>1. UNCHANGED <<phase, program, submitted, parent, done, cancelled, seen>>
      BY <2>2, CrashFinal DEF vars, futures
    <3> QED
      BY <3>1 DEF Missing, Alive, LeftBehind
  <2> QED
    BY <2>1, <2>2
<1>3. Whereabouts /\ Missing => ExitDrained
  BY AllDoneAtExit DEF Missing, ExitDrained
<1> QED
  BY <1>1, <1>2, <1>3, AlwaysWhereabouts, AlwaysAsking, PTL DEF Spec

-----------------------------------------------------------------------------
(***************************************************************************)
(* A task in a pipe learns of the cancellation of its own future and of no *)
(* other, for every pool, number of tasks and pipe.  (That it learns of it *)
(* at all is what the code does not ensure.)                               *)
(***************************************************************************)

\* tls_current_future is empty or names the task on top of the stack.
LEMMA TakeNames ==
  ASSUME TypeOK, NoForeignCancel, NEW th \in Threads, NEW ph, TakeTask(th, ph)
  PROVE  NoForeignCancel'
<1> DEFINE n == Head(queue)
<1>1. n \in Everyone
  BY HeadTailProperties DEF TakeTask, PopFront, TypeOK, Everyone
<1>2. CASE UNCHANGED stack /\ tls' = [tls EXCEPT ![th] = 0]
  BY <1>2 DEF NoForeignCancel, Top, TypeOK
<1>3. CASE stack' = [stack EXCEPT ![th] = Append(@, n)] /\ tls' = [tls EXCEPT ![th] = n]
  <2>1. /\ stack'[th] = Append(stack[th], n) /\ tls'[th] = n
        /\ \A u \in Threads : u # th => stack'[u] = stack[u] /\ tls'[u] = tls[u]
    BY <1>3 DEF TypeOK
  <2>2. stack[th] \in Seq(Everyone)
    BY DEF TypeOK, Everyone
  <2>3. /\ Len(stack'[th]) = Len(stack[th]) + 1 /\ stack'[th][Len(stack[th]) + 1] = n
        /\ stack'[th] \in Seq(Everyone) /\ Len(stack[th]) \in Nat
    BY <1>1, <2>1, <2>2, AppendProperties, LenProperties
  <2>4. stack'[th] # <<>> /\ stack'[th][Len(stack'[th])] = n
    BY <2>3, EmptySeq
  <2> QED
    BY <2>1, <2>4 DEF NoForeignCancel, Top
<1> QED
  BY <1>2, <1>3 DEF TakeTask, Start, ClearTls

LEMMA NextNames == TypeOK /\ NoForeignCancel /\ [Next]_vars => NoForeignCancel'
<1> SUFFICES ASSUME TypeOK, NoForeignCancel, [Next]_vars PROVE NoForeignCancel'
  OBVIOUS
<1>0. ASSUME UNCHANGED <<stack, tls>> PROVE NoForeignCancel'
  BY <1>0 DEF NoForeignCancel, Top
<1>1. ASSUME NEW th \in Threads, NEW t \in Everyone, NEW how, End(th, t, how)
      PROVE  NoForeignCancel'
  <2>1. tls' = [tls EXCEPT ![th] = 0] /\ stack' = [stack EXCEPT ![th] = Pop(@)]
    BY <1>1 DEF End, ClearTls
  <2>2. ASSUME NEW u \in Threads, tls'[u] # 0 PROVE u # th
    BY <2>1, <2>2 DEF TypeOK
  <2>3. \A u \in Threads : u # th => stack'[u] = stack[u] /\ tls'[u] = tls[u]
    BY <2>1 DEF TypeOK
  <2> QED
    BY <2>2, <2>3 DEF NoForeignCancel, Top
<1>2. ASSUME NEW th \in Threads, NEW t \in Everyone, HelpTake(th, t) PROVE NoForeignCancel'
  BY <1>2, TakeNames DEF HelpTake
<1>3. ASSUME NEW w \in Workers, WorkerTake(w) PROVE NoForeignCancel'
  BY <1>3, TakeNames DEF WorkerTake, Threads
<1>4. ASSUME NEW th \in Threads, NEW t \in Everyone, NEW f \in Tasks,
             AwaitBegin(th, t, f) \/ ResultBegin(th, t, f) \/ Cancel(th, t, f)
      PROVE  NoForeignCancel'
  BY <1>0, <1>4 DEF AwaitBegin, ResultBegin, Cancel, Move
<1>5. ASSUME NEW th \in Threads, NEW t \in Everyone,
             Spawn(th, t) \/ Crash(th, t) \/ HelpCheck(th, t) \/ HelpNothing(th, t) \/ Observe(th, t)
      PROVE  NoForeignCancel'
  BY <1>0, <1>5 DEF Spawn, Crash, HelpCheck, HelpNothing, Observe, Move
<1>6. CASE (\E w \in Workers : WorkerExit(w)) \/ RootReturn \/ RootThrow
  BY <1>0, <1>6 DEF WorkerExit, RootReturn, RootThrow, Move
<1>7. CASE StopPool \/ JoinWorkers \/ Terminated \/ UNCHANGED vars
  BY <1>0, <1>7 DEF StopPool, JoinWorkers, Terminated, vars
<1> QED
  BY <1>1, <1>2, <1>3, <1>4, <1>5, <1>6, <1>7, NextCases

\* chan_send and chan_recv throw "future cancelled" only for the future of
\* the task that called them (tls_current_future in invoke_async_action).
THEOREM OwnCancelOnly == PipeSpec => []NoForeignCancel
<1>1. PipeInit => TypeOK /\ NoForeignCancel
  <2>1. Init => NoForeignCancel
    BY DEF Init, NoForeignCancel
  <2> QED
    BY <2>1, InitTypes DEF PipeInit
<1>2. [PipeNext]_allVars => [Next]_vars
  BY DEF PipeNext, PoolStep, PipeStep, Next, All, allVars, Everyone
<1>3. TypeOK /\ NoForeignCancel /\ [PipeNext]_allVars => (TypeOK /\ NoForeignCancel)'
  BY <1>2, NextTypes, NextNames
<1> QED
  BY <1>1, <1>3, PTL DEF PipeSpec

(***************************************************************************)
(* The pool and the pipe together: neither loses what it promises alone.   *)
(***************************************************************************)
\* Tasks that use a pipe are tasks of the pool: whatever holds of the pool (tasks
\* run once, the shutdown drains, observers agree) holds of a pool whose tasks
\* block in chan_send and chan_recv.
THEOREM PipesInPool == PipeSpec => Spec
<1>1. PipeInit => Init
  BY DEF PipeInit
<1>2. [PipeNext]_allVars => [Next]_vars
  BY DEF PipeNext, PoolStep, PipeStep, Next, All, allVars, Everyone
<1> QED
  BY <1>1, <1>2, PTL DEF PipeSpec, Spec

(* The pipe, whatever the pool makes its callers see of cancellations. *)
Texts == {"m"}
PipeKept ==
  /\ q \in Seq(Texts) /\ sent \in Seq(Texts) /\ received \in Seq(Texts) /\ call \in [All -> Pipe!Calls]
  /\ reply \in [All -> Pipe!Replies]
  /\ Pipe!Fifo
  /\ \A t \in All : reply[t] = "chan_recv: channel closed" => closed /\ q = <<>>

LEMMA AppendedRight ==
  ASSUME NEW s \in Seq(Texts), NEW t \in Seq(Texts), NEW v \in Texts
  PROVE  Append(s \o t, v) = s \o Append(t, v)
  OBVIOUS

LEMMA AppendedText == ASSUME NEW s \in Seq(Texts), NEW v \in Texts PROVE Append(s, v) \in Seq(Texts)
  OBVIOUS

LEMMA NothingRight == ASSUME NEW s \in Seq(Texts), NEW t, t = <<>> PROVE s \o t = s
  OBVIOUS

LEMMA MovedOver ==
  ASSUME NEW s \in Seq(Texts), NEW t \in Seq(Texts), t # <<>>
  PROVE  Append(s, Head(t)) \o Tail(t) = s \o t /\ Head(t) \in Texts /\ Tail(t) \in Seq(Texts)
<1>1. Head(t) \in Texts /\ Tail(t) \in Seq(Texts) /\ Len(Tail(t)) = Len(t) - 1 /\ Len(t) > 0
  OBVIOUS
<1>2. PICK h, u : h = Append(s, Head(t)) /\ u = Tail(t)
  OBVIOUS
<1>3. h \in Seq(Texts) /\ Len(h) = Len(s) + 1
  BY <1>1, <1>2
<1>4. h \o u = s \o t
  BY <1>1, <1>2, <1>3
<1> QED
  BY <1>1, <1>2, <1>4

LEMMA SendsText == ASSUME NEW x \in Pipe!Calls, x.op = "send" PROVE x.msg \in Texts
<1>1. CASE x = [op |-> "idle"]
  BY <1>1
<1>2. CASE x \in [op : {"recv"}]
  BY <1>2
<1>3. CASE x \in [op : {"send"}, msg : Texts]
  BY <1>3
<1> QED
  BY <1>1, <1>2, <1>3 DEF Pipe!Calls, Pipe!Idle, Texts

LEMMA PipeStarts == PipeInit => PipeKept
<1> SUFFICES ASSUME PipeInit PROVE PipeKept
  OBVIOUS
<1>1. <<>> \in Seq(Texts) /\ <<>> \o <<>> = <<>>
  OBVIOUS
<1>2. call \in [All -> Pipe!Calls]
  BY DEF PipeInit, Pipe!Init, Pipe!Calls
<1>3. reply \in [All -> Pipe!Replies] /\ \A t \in All : reply[t] # "chan_recv: channel closed"
  BY DEF PipeInit, Pipe!Init, Pipe!Replies
<1> QED
  BY <1>1, <1>2, <1>3 DEF PipeInit, Pipe!Init, PipeKept, Pipe!Fifo

LEMMA CallKept == ASSUME PipeKept, NEW th \in Threads, NEW t \in All, PipeStep(th, t) PROVE PipeKept'
<1>1. ASSUME NEW answer \in Pipe!Replies, answer # "chan_recv: channel closed", Pipe!Leave(t, answer)
      PROVE  /\ call' \in [All -> Pipe!Calls] /\ reply' \in [All -> Pipe!Replies]
             /\ \A u \in All : reply'[u] = "chan_recv: channel closed" => reply[u] = "chan_recv: channel closed"
  BY <1>1 DEF PipeKept, Pipe!Leave, Pipe!Calls
<1>2. ASSUME NEW request \in Pipe!Calls, Pipe!Enter(t, request) PROVE PipeKept'
  <2>1. call' \in [All -> Pipe!Calls]
    BY <1>2 DEF PipeKept, Pipe!Enter
  <2> QED
    BY <1>2, <2>1 DEF PipeKept, Pipe!Enter, Pipe!Fifo, Pipe!pipe
<1>3. CASE Pipe!SendEnter(t, "m")
  <2>1. [op |-> "send", msg |-> "m"] \in Pipe!Calls
    BY DEF Pipe!Calls
  <2> QED
    BY <1>2, <1>3, <2>1 DEF Pipe!SendEnter
<1>4. CASE Pipe!RecvEnter(t)
  <2>1. [op |-> "recv"] \in Pipe!Calls
    BY DEF Pipe!Calls
  <2> QED
    BY <1>2, <1>4, <2>1 DEF Pipe!RecvEnter
<1>5. CASE Pipe!Close(t)
  BY <1>5 DEF Pipe!Close, PipeKept, Pipe!Fifo
<1>6. CASE Pipe!SendDone(t)
  <2>1. PICK v \in Texts : v = call[t].msg
    BY <1>6, SendsText DEF Pipe!SendDone, PipeKept
  <2>2. q' = Append(q, v) /\ sent' = Append(sent, v) /\ received' = received /\ closed' = closed /\ ~closed
    BY <1>6, <2>1 DEF Pipe!SendDone, Pipe!Push
  <2>3. q' \in Seq(Texts) /\ sent' \in Seq(Texts)
    <3>1. q \in Seq(Texts) /\ sent \in Seq(Texts)
      BY DEF PipeKept
    <3>2. Append(q, v) \in Seq(Texts) /\ Append(sent, v) \in Seq(Texts)
      BY <3>1, AppendedText
    <3> QED
      BY <2>2, <3>2, Zenon
  <2>4. Pipe!Fifo'
    <3>1. Append(received \o q, v) = received \o Append(q, v)
      BY AppendedRight DEF PipeKept
    <3> QED
      BY <2>2, <3>1, Zenon DEF PipeKept, Pipe!Fifo
  <2>5. "ok" \in Pipe!Replies /\ Pipe!Leave(t, "ok")
    BY <1>6 DEF Pipe!SendDone, Pipe!Replies
  <2> QED
    BY <1>1, <2>2, <2>3, <2>4, <2>5 DEF PipeKept
<1>7. CASE Pipe!RecvDone(t)
  <2>1. q # <<>> /\ q' = Tail(q) /\ received' = Append(received, Head(q)) /\ sent' = sent /\ closed' = closed
    BY <1>7 DEF Pipe!RecvDone, Pipe!Pop
  <2>2. Append(received, Head(q)) \o Tail(q) = received \o q /\ Head(q) \in Texts /\ q' \in Seq(Texts)
    BY <2>1, MovedOver DEF PipeKept
  <2>3. received' \in Seq(Texts)
    <3>1. received \in Seq(Texts)
      BY DEF PipeKept
    <3>2. Append(received, Head(q)) \in Seq(Texts)
      BY <2>2, <3>1, AppendedText
    <3> QED
      BY <2>1, <3>2, Zenon
  <2>4. Pipe!Fifo'
    BY <2>1, <2>2, Zenon DEF PipeKept, Pipe!Fifo
  <2>5. "got" \in Pipe!Replies /\ Pipe!Leave(t, "got")
    BY <1>7 DEF Pipe!RecvDone, Pipe!Replies
  <2>6. \A u \in All : reply[u] # "chan_recv: channel closed"
    BY <2>1 DEF PipeKept
  <2> QED
    BY <1>1, <2>1, <2>2, <2>3, <2>4, <2>5, <2>6 DEF PipeKept
<1>8. CASE Pipe!SendClosed(t) \/ Pipe!CallCancelled(t)
  <2>1. PICK answer \in {"chan_send: channel closed", "future cancelled"} : Pipe!Leave(t, answer)
    BY <1>8 DEF Pipe!SendClosed, Pipe!CallCancelled
  <2>2. answer \in Pipe!Replies /\ answer # "chan_recv: channel closed"
    BY DEF Pipe!Replies
  <2>3. UNCHANGED <<q, closed, sent, received>>
    BY <1>8 DEF Pipe!SendClosed, Pipe!CallCancelled, Pipe!pipe
  <2> QED
    BY <1>1, <2>1, <2>2, <2>3 DEF PipeKept, Pipe!Fifo
<1>9. CASE Pipe!RecvClosed(t)
  <2>1. closed /\ q = <<>> /\ UNCHANGED <<q, closed, sent, received>>
    BY <1>9 DEF Pipe!RecvClosed, Pipe!pipe
  <2>2. call' \in [All -> Pipe!Calls] /\ reply' \in [All -> Pipe!Replies]
    BY <1>9 DEF Pipe!RecvClosed, Pipe!Leave, PipeKept, Pipe!Calls, Pipe!Replies
  <2> QED
    BY <2>1, <2>2 DEF PipeKept, Pipe!Fifo
<1> QED
  BY <1>3, <1>4, <1>5, <1>6, <1>7, <1>8, <1>9 DEF PipeStep, EnterPipe, Pipe!Progress

\* chan_send and chan_recv under the async pool: whichever tasks help, await and are
\* cancelled meanwhile, messages are handed out once and in order, and a receiver that
\* is told of the end has missed none.
THEOREM PoolPipesDeliver == PipeSpec => [](Pipe!Fifo /\ Pipe!EndOfStream)
<1>1. PipeKept /\ [PipeNext]_allVars => PipeKept'
  <2> SUFFICES ASSUME PipeKept, [PipeNext]_allVars PROVE PipeKept'
    OBVIOUS
  <2>1. CASE UNCHANGED pipeVars
    BY <2>1 DEF PipeKept, Pipe!Fifo, pipeVars
  <2>2. ASSUME NEW th \in Threads, NEW t \in All, PipeStep(th, t) PROVE PipeKept'
    BY <2>2, CallKept
  <2> QED
    BY <2>1, <2>2 DEF PipeNext, PoolStep, allVars
<1>2. PipeKept => Pipe!Fifo /\ Pipe!EndOfStream
  <2> SUFFICES ASSUME PipeKept PROVE Pipe!Fifo /\ Pipe!EndOfStream
    OBVIOUS
  <2>1. q = <<>> => received \o q = received
    <3>1. received \in Seq(Texts)
      BY DEF PipeKept
    <3> QED
      BY <3>1, NothingRight
  <2> QED
    BY <2>1 DEF PipeKept, Pipe!Fifo, Pipe!EndOfStream
<1> QED
  BY <1>1, <1>2, PipeStarts, PTL DEF PipeSpec
=============================================================================
