---------------------------- MODULE ThreadManager ----------------------------
(***************************************************************************)
(* threadmgr: the thread_* builtins, the workers they start and park_all,  *)
(* which Runtime::run calls on its way out.                                *)
(*                                                                         *)
(* A caller of a builtin is the main thread or a worker, which runs script *)
(* code too.  g_threadMutex guards the table but not the records: a worker *)
(* ends with a load and a store of its state under no lock, and the joins  *)
(* use a pointer to the record after they let go of the table.  Sections   *)
(* under the mutex are one action where no unguarded step can come between *)
(* (lock is held across the others).  ub collects what the code leaves      *)
(* undefined: std::terminate ends the process; an erased record that is    *)
(* used goes on as if its memory still held its last values, or the        *)
(* process ends there.                                                     *)
(*                                                                         *)
(* Bound of the model: MaxThreads.                                         *)
(***************************************************************************)
EXTENDS Naturals, FiniteSets

CONSTANTS MaxThreads,   \* bound of the model: threads ever created
          MaxWorkers,   \* kMaxWorkerThreads
          MainOps,      \* builtins the main thread calls
          WorkerOps     \* builtins the workers' actions call

Builtins == {"run", "detach", "join", "join_timeout", "done", "wait_all",
             "gc", "gc_all", "remove", "force"}

ASSUME ThreadAssumption ==
  /\ MaxThreads \in Nat /\ MaxWorkers \in Nat
  /\ MainOps \subseteq Builtins /\ WorkerOps \subseteq Builtins

VARIABLES
  created,   \* g_nextThread - 1
  table,     \* the ids in g_threads
  freed,     \* records that were erased
  state,     \* ThreadInfo.state
  detached,  \* ThreadInfo.detached
  handle,    \* where the std::thread of a record is
  exec,      \* how far each worker is
  prev,      \* what the worker's last load of its state returned
  call,      \* the builtin each caller is in
  held,      \* std::thread locals of each caller
  lock,      \* holder of g_threadMutex between two actions
  current,   \* currentProgram_ is set
  told,      \* history: threads reported to a script as finished
  ub         \* undefined behaviour met so far

records == <<state, detached, handle>>
workers == <<exec, prev>>
callers == <<call, held, lock>>
vars == <<created, table, freed, state, detached, handle, exec, prev, call, held,
          lock, current, told, ub>>

Ids == 1 .. MaxThreads
Main == 0
Callers == {Main} \cup Ids
Free == MaxThreads + 1    \* lock: nobody holds it

Script == [at |-> "script", id |-> 0]
States == {"Running", "DetachedRunning", "Done", "DetachedDone", "Joining", "Joined"}
Finished == {"Done", "DetachedDone", "Joined"}

\* Caller c, in script code, calls builtin b; the table's mutex is free.
Calls(c, b) == /\ call[c] = Script /\ lock = Free
               /\ IF c = Main THEN b \in MainOps ELSE exec[c] = "action" /\ b \in WorkerOps
In(c, where, i) == call[c] = [at |-> where, id |-> i]
Goto(c, where, i) == call' = [call EXCEPT ![c] = [at |-> where, id |-> i]]
Return(c) == call' = [call EXCEPT ![c] = Script]

\* Uses of records that may have been erased.
Touch(i) == ub' = ub \cup (IF i \in freed THEN {"use after free"} ELSE {})

\* Caller c moves the handle of record i into a local.
TakeHandle(c, i) ==
  IF handle[i] = "record"
  THEN /\ handle' = [handle EXCEPT ![i] = "local"]
       /\ held' = [held EXCEPT ![c] = @ \cup {i}]
  ELSE UNCHANGED <<handle, held>>

\* Erases records without a look at their handles.
EraseAll(ids) == /\ table' = table \ ids
                 /\ freed' = freed \cup ids
                 /\ UNCHANGED handle

\* retire_locked: erases records, but keeps their handles for park_all.
Retire(ids) ==
  /\ table' = table \ ids
  /\ freed' = freed \cup ids
  /\ handle' = [i \in Ids |-> IF i \in ids /\ handle[i] = "record" THEN "parked" ELSE handle[i]]

-----------------------------------------------------------------------------
HasRoom == Cardinality(table) < MaxWorkers

\* create, first half: the cap is looked at, the thread starts.
Create(c, d) ==
  /\ Calls(c, IF d THEN "detach" ELSE "run")
  /\ current /\ created < MaxThreads /\ HasRoom
  /\ created' = created + 1
  /\ state' = [state EXCEPT ![created + 1] = IF d THEN "DetachedRunning" ELSE "Running"]
  /\ detached' = IF d THEN detached \cup {created + 1} ELSE detached
  /\ handle' = [handle EXCEPT ![created + 1] = "record"]
  /\ exec' = [exec EXCEPT ![created + 1] = "start"]
  /\ Goto(c, "register", created + 1)
  /\ UNCHANGED <<table, freed, prev, held, lock, current, told, ub>>

\* Uses the counter that create has already moved on.
EnrollNext(i) == table' = table \cup {created + 1}

Enroll(i) == table' = table \cup {i}

\* create, second half: the record enters the table.
Register(c, i) ==
  /\ In(c, "register", i) /\ lock = Free
  /\ Enroll(i) /\ Return(c)
  /\ UNCHANGED <<created, freed, records, workers, held, lock, current, told, ub>>

-----------------------------------------------------------------------------
\* The worker: run_single_action, then the change of state, then the signal.
WorkerStart(i) ==
  /\ exec[i] = "start"
  /\ exec' = [exec EXCEPT ![i] = "action"]
  /\ current' = TRUE
  /\ Touch(i)
  /\ UNCHANGED <<created, table, freed, records, prev, callers, told>>

\* The action returned, or threw and left currentProgram_ as it was.
WorkerLoad(i) ==
  /\ exec[i] = "action" /\ call[i] = Script
  /\ exec' = [exec EXCEPT ![i] = "loaded"]
  /\ prev' = [prev EXCEPT ![i] = state[i]]
  /\ current' \in {FALSE, current}
  /\ Touch(i)
  /\ UNCHANGED <<created, table, freed, records, callers, told>>

\* Has no branch for Joining.
EndStateNoJoiner(s) == IF s = "Running" THEN "Done" ELSE s

\* What the worker makes of the state it loaded.
EndState(s) == CASE s \in {"Running", "Joining"} -> "Done"
                 [] s = "DetachedRunning" -> "DetachedDone"
                 [] OTHER -> s

WorkerStore(i) ==
  /\ exec[i] = "loaded"
  /\ exec' = [exec EXCEPT ![i] = "stored"]
  /\ state' = [state EXCEPT ![i] = IF EndState(prev[i]) = prev[i] THEN @ ELSE EndState(prev[i])]
  /\ Touch(i)
  /\ UNCHANGED <<created, table, freed, detached, handle, prev, callers, current, told>>

WorkerSignal(i) ==
  /\ exec[i] = "stored"
  /\ exec' = [exec EXCEPT ![i] = "ended"]
  /\ Touch(i)
  /\ UNCHANGED <<created, table, freed, records, prev, callers, current, told>>

-----------------------------------------------------------------------------
\* join and join_timeout end alike: the native join, then the final state.
JoinNative(c, i) ==
  /\ In(c, "join.native", i) \/ In(c, "timed.native", i)
  /\ i \in held[c] => exec[i] = "ended"
  /\ held' = [held EXCEPT ![c] = {}]
  /\ Goto(c, IF In(c, "join.native", i) THEN "join.final" ELSE "timed.final", i)
  /\ UNCHANGED <<created, table, freed, records, workers, lock, current, told, ub>>

\* join takes the mutex for its last store, join_timeout does not.
JoinFinal(c, i) ==
  /\ (In(c, "join.final", i) /\ lock = Free) \/ In(c, "timed.final", i)
  /\ state' = [state EXCEPT ![i] = "Joined"]
  /\ told' = told \cup {i}
  /\ Touch(i) /\ Return(c)
  /\ UNCHANGED <<created, table, freed, detached, handle, workers, held, lock, current>>

\* join: a running worker is marked, with the mutex held ...
JoinMark(c, i) ==
  /\ Calls(c, "join") /\ i \in table \ detached
  /\ state[i] \in {"Running", "Joining"}
  /\ state' = [state EXCEPT ![i] = "Joining"]
  /\ lock' = c
  /\ Goto(c, "join.look", i)
  /\ UNCHANGED <<created, table, freed, detached, handle, workers, held, current, told, ub>>

\* ... and waited for, unless it finished between the mark and this load.
JoinLook(c, i) ==
  /\ In(c, "join.look", i)
  /\ lock' = Free
  /\ IF state[i] = "Joining"
     THEN TakeHandle(c, i) /\ Goto(c, "join.wait", i) /\ UNCHANGED told
     ELSE Return(c) /\ told' = told \cup {i} /\ UNCHANGED <<handle, held>>
  /\ UNCHANGED <<created, table, freed, state, detached, workers, current, ub>>

JoinWait(c, i) ==
  /\ In(c, "join.wait", i) /\ state[i] \in Finished
  /\ Goto(c, "join.native", i)
  /\ Touch(i)
  /\ UNCHANGED <<created, table, freed, records, workers, held, lock, current, told>>

JoinFinished(c, i) ==
  /\ Calls(c, "join") /\ i \in table \ detached
  /\ state[i] \in {"Done", "Joined"}
  /\ TakeHandle(c, i) /\ Goto(c, "join.native", i)
  /\ UNCHANGED <<created, table, freed, state, detached, workers, lock, current, told, ub>>

-----------------------------------------------------------------------------
\* join_timeout: Joining is stored, not exchanged, over what was loaded.
TimedLook(c, i) ==
  /\ Calls(c, "join_timeout") /\ i \in table \ detached
  /\ \/ /\ state[i] = "Running"
        /\ lock' = c /\ Goto(c, "timed.mark", i)
        /\ UNCHANGED <<handle, held, told>>
     \/ /\ state[i] = "Joined"
        /\ told' = told \cup {i}
        /\ UNCHANGED <<handle, callers>>
     \/ /\ state[i] = "Done"
        /\ TakeHandle(c, i)
        /\ Goto(c, IF handle[i] = "record" THEN "timed.native" ELSE "timed.wait", i)
        /\ UNCHANGED <<lock, told>>
  /\ UNCHANGED <<created, table, freed, state, detached, workers, current, ub>>

TimedMark(c, i) ==
  /\ In(c, "timed.mark", i)
  /\ state' = [state EXCEPT ![i] = "Joining"]
  /\ lock' = Free /\ Goto(c, "timed.wait", i)
  /\ UNCHANGED <<created, table, freed, detached, handle, workers, held, current, told, ub>>

\* The handle is moved out with no lock held.
TimedWait(c, i) ==
  /\ In(c, "timed.wait", i) /\ state[i] \in {"Done", "DetachedDone"}
  /\ TakeHandle(c, i) /\ Goto(c, "timed.native", i)
  /\ Touch(i)
  /\ UNCHANGED <<created, table, freed, state, detached, workers, lock, current, told>>

\* The deadline has passed; the worker may still finish before this load.
TimedOut(c, i) ==
  /\ In(c, "timed.wait", i)
  /\ IF state[i] = "Joining" THEN Goto(c, "timed.revert", i) ELSE Return(c)
  /\ Touch(i)
  /\ UNCHANGED <<created, table, freed, records, workers, held, lock, current, told>>

TimedRevert(c, i) ==
  /\ In(c, "timed.revert", i)
  /\ state' = [state EXCEPT ![i] = "Running"]
  /\ Return(c) /\ Touch(i)
  /\ UNCHANGED <<created, table, freed, detached, handle, workers, held, lock, current, told>>

-----------------------------------------------------------------------------
\* thread_done
Done(c, i) ==
  /\ Calls(c, "done") /\ i \in table /\ state[i] \in Finished
  /\ told' = told \cup {i}
  /\ UNCHANGED <<created, table, freed, records, workers, callers, current, ub>>

\* thread_wait_all: all handles are moved out before the first join.
WaitAll(c) ==
  LET mine == {i \in table \ detached : handle[i] = "record"} IN
  /\ Calls(c, "wait_all")
  /\ handle' = [i \in Ids |-> IF i \in mine THEN "local" ELSE handle[i]]
  /\ held' = [held EXCEPT ![c] = mine]
  /\ state' = [i \in Ids |-> IF i \in mine /\ state[i] \in {"Running", "Done"}
                             THEN "Joined" ELSE state[i]]
  /\ Goto(c, "wait_all", 0)
  /\ UNCHANGED <<created, table, freed, detached, workers, lock, current, told, ub>>

\* A worker that waits for itself: the join throws, the vector's destructor
\* meets a joinable thread.
WaitAllSelf(c) ==
  /\ In(c, "wait_all", 0) /\ c \in held[c]
  /\ \A i \in held[c] \ {c} : exec[i] = "ended"
  /\ ub' = ub \cup {"terminate"}
  /\ UNCHANGED <<created, table, freed, records, workers, callers, current, told>>

\* Drops the joins.
JoinNone(c) == TRUE

JoinAll(c) == \A i \in held[c] : exec[i] = "ended"

WaitAllDone(c) ==
  /\ In(c, "wait_all", 0) /\ c \notin held[c]
  /\ JoinAll(c)
  /\ held' = [held EXCEPT ![c] = {}] /\ Return(c)
  /\ UNCHANGED <<created, table, freed, records, workers, lock, current, told, ub>>

\* thread_gc and thread_gc_all
Collect(c, b, ids) ==
  /\ Calls(c, b) /\ Retire(ids)
  /\ UNCHANGED <<created, state, detached, workers, callers, current, told, ub>>

Gc(c) == Collect(c, "gc", {i \in table \cap detached : state[i] = "DetachedDone"})
GcAll(c) == Collect(c, "gc_all", {i \in table : state[i] \in {"DetachedDone", "Joined"}})

\* Only asks whether the worker is finished.
RemovableFinished(i) == state[i] \in Finished

Removable(i) == /\ state[i] # "Joining"
                /\ IF i \in detached THEN state[i] = "DetachedDone" ELSE handle[i] # "record"

\* thread_remove; a detached record keeps its native handle, which nobody
\* may have joined: erasing it then terminates the process.
Remove(c, i) ==
  /\ Calls(c, "remove") /\ i \in table /\ Removable(i)
  /\ EraseAll({i})
  /\ ub' = ub \cup (IF handle[i] = "record" THEN {"terminate"} ELSE {})
  /\ UNCHANGED <<created, state, detached, workers, callers, current, told>>

RemoveForce(c, i) ==
  /\ Calls(c, "force") /\ i \in table /\ state[i] # "Joining"
  /\ Retire({i})
  /\ UNCHANGED <<created, state, detached, workers, callers, current, told, ub>>

-----------------------------------------------------------------------------
\* Runtime::run leaves its scope, normally or by an exception.
Leave ==
  /\ call[Main] = Script
  /\ Goto(Main, "park", 0)
  /\ current' \in {FALSE, current}
  /\ UNCHANGED <<created, table, freed, records, workers, held, lock, told, ub>>

\* Takes the handles and leaves the records in the table.
ClearNothing == UNCHANGED <<table, freed>>

ClearTable == table' = {} /\ freed' = freed \cup table

\* park_all: one round takes the whole table and what was parked.
ParkTake ==
  LET round == {i \in Ids : handle[i] = "parked" \/ (handle[i] = "record" /\ i \in table)} IN
  /\ In(Main, "park", 0) /\ lock = Free
  /\ ClearTable
  /\ handle' = [i \in Ids |-> IF i \in round THEN "local" ELSE handle[i]]
  /\ held' = [held EXCEPT ![Main] = round]
  /\ Goto(Main, IF round = {} THEN "park.check" ELSE "park.join", 0)
  /\ UNCHANGED <<created, state, detached, workers, lock, current, told, ub>>

\* One round is enough.
AfterOneRound == "exited"

AfterRound == "park"

ParkJoin ==
  /\ In(Main, "park.join", 0) /\ \A i \in held[Main] : exec[i] = "ended"
  /\ held' = [held EXCEPT ![Main] = {}]
  /\ Goto(Main, AfterRound, 0)
  /\ UNCHANGED <<created, table, freed, records, workers, lock, current, told, ub>>

ParkCheck ==
  /\ In(Main, "park.check", 0) /\ lock = Free
  /\ Goto(Main, IF table = {} THEN "exited" ELSE "park", 0)
  /\ UNCHANGED <<created, table, freed, records, workers, held, lock, current, told, ub>>

-----------------------------------------------------------------------------
Init ==
  /\ created = 0 /\ table = {} /\ freed = {} /\ detached = {}
  /\ state = [i \in Ids |-> "Running"]
  /\ handle = [i \in Ids |-> "none"]
  /\ exec = [i \in Ids |-> "none"]
  /\ prev = [i \in Ids |-> "Running"]
  /\ call = [c \in Callers |-> Script]
  /\ held = [c \in Callers |-> {}]
  /\ lock = Free /\ current = TRUE /\ told = {} /\ ub = {}

\* What script code chooses to call.
Choose(c) ==
  \/ \E d \in BOOLEAN : Create(c, d)
  \/ WaitAll(c) \/ Gc(c) \/ GcAll(c)
  \/ \E i \in Ids : \/ JoinMark(c, i) \/ JoinFinished(c, i) \/ TimedLook(c, i)
                    \/ Done(c, i) \/ Remove(c, i) \/ RemoveForce(c, i)

\* A builtin under way.
Proceed(c) ==
  \/ WaitAllSelf(c) \/ WaitAllDone(c)
  \/ \E i \in Ids : \/ Register(c, i)
                    \/ JoinLook(c, i) \/ JoinWait(c, i) \/ JoinNative(c, i) \/ JoinFinal(c, i)
                    \/ TimedMark(c, i) \/ TimedWait(c, i) \/ TimedRevert(c, i)

Work(i) == WorkerStart(i) \/ WorkerLoad(i) \/ WorkerStore(i) \/ WorkerSignal(i)
Park == ParkTake \/ ParkJoin \/ ParkCheck

Next ==
  \/ /\ "terminate" \notin ub
     /\ \/ \E c \in Callers : Choose(c) \/ Proceed(c) \/ \E i \in Ids : TimedOut(c, i)
        \/ \E i \in Ids : Work(i)
        \/ Leave \/ Park
  \/ (In(Main, "exited", 0) \/ ub # {}) /\ UNCHANGED vars

Spec == Init /\ [][Next]_vars

\* Threads that can run do run, and the actions of workers end.
FairSpec ==
  /\ Spec
  /\ \A c \in Callers : WF_vars("terminate" \notin ub /\ Proceed(c))
  /\ \A i \in Ids : WF_vars("terminate" \notin ub /\ Work(i))
  /\ WF_vars("terminate" \notin ub /\ Park)

-----------------------------------------------------------------------------
Places == {"script", "register", "join.look", "join.wait", "join.native", "join.final",
           "timed.mark", "timed.wait", "timed.revert", "timed.native", "timed.final", "wait_all",
           "park", "park.join", "park.check", "exited"}
Parking == {"park", "park.join", "park.check", "exited"}

TypeOK ==
  /\ created \in 0 .. MaxThreads
  /\ table \subseteq 1 .. created /\ freed \subseteq 1 .. created
  /\ detached \subseteq 1 .. created
  /\ state \in [Ids -> States]
  /\ handle \in [Ids -> {"none", "record", "parked", "local"}]
  /\ exec \in [Ids -> {"none", "start", "action", "loaded", "stored", "ended"}]
  /\ prev \in [Ids -> States]
  /\ call \in [Callers -> [at : Places, id : 0 .. MaxThreads]]
  /\ held \in [Callers -> SUBSET Ids]
  /\ lock \in Callers \cup {Free}
  /\ current \in BOOLEAN
  /\ told \subseteq Ids
  /\ ub \subseteq {"use after free", "terminate"}

\* Until run() leaves, no builtin and no worker reaches an erased record and
\* no joinable std::thread is destroyed.
SafeUntilExit == ub # {} => call[Main].at \in Parking

\* Erasing records never destroys a joinable std::thread: the comment on
\* retire_locked (threads.cpp:104).
NoTerminate == "terminate" \notin ub

\* Every thread that may still run has a native handle that somebody will
\* join: in its record, parked, or in a local of exactly one caller.
HandleOwned ==
  NoTerminate => \A i \in 1 .. created : exec[i] # "ended" =>
    CASE handle[i] = "record" -> i \notin freed
      [] handle[i] = "local" -> Cardinality({c \in Callers : i \in held[c]}) = 1
      [] OTHER -> handle[i] = "parked"

\* What thread_join, thread_join_timeout and thread_done call finished has
\* finished its action (docs/threads.md: "true" when finished).
ToldMeansFinished == \A i \in told : exec[i] \in {"stored", "ended"}

\* "No worker can outlive the Program/Runtime it captured" (threads.cpp:83).
NoWorkerOutlives ==
  call[Main].at = "exited" => \A i \in Ids : exec[i] \in {"none", "ended"}

\* thread_join of a worker whose action ends returns ("true" when finished:
\* docs/threads.md).
JoinReturns == \A c \in Callers : (call[c].at = "join.wait") ~> (call[c] = Script)

\* Runtime::run gets out of park_all.
ExitCompletes == (call[Main].at = "park") ~> (call[Main].at = "exited")
=============================================================================
