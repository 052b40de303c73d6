# Erelang: a verification development

Erelang is a scripting language whose runtime, written in C++, evaluates a parsed
program directly. Two things are hard in it. One is what runs beside the program: async
actions on a worker pool whose waiting threads help, pipes between tasks, futures that
are cancelled while they run, script threads that outlive the call that started them,
sockets with a reader each. The other is that much is written twice: builtins and
methods of one collection, the tree walker and two machines for bytecode, the optimizer and
the evaluator, writer and reader of a blob. This development models both in TLA+, checks
the models with TLC on small instances, and proves with TLAPS, for every value of the constants, the safety
properties of what runs concurrently (pipes, pool, threads, monitors, the life of a run, the debugger, the web server), of the ownership of memory,
of the package manager and of the collections.

Paths below are relative to the repository's root; `runtime/` stands for `src/runtime/`.

## 1. Inventory

### 1.1 Parts that run concurrently

| component | state | operations | interacts with |
|---|---|---|---|
| **Pipes** (`chan_*`, `runtime/builtins.cpp:1818-1920`) | `ChannelState`: queue, `closed`, `capacity`, one mutex, one condition variable | `chan_new`, `chan_send`, `chan_recv`, `chan_try_send`, `chan_try_recv`, `chan_close`, `chan_len` | every thread that runs script code; learns of a cancellation through `tls_current_future` |
| **Async pool and futures** (`runtime/helpers.cpp:84-209`, `runtime/eval.cpp:1416-1619`, `runtime/core.cpp:165-243`) | the task queue, `started`, `stopping`, the workers, the `FutureState`s, `tls_current_future`, `currentProgram_` | call of an async action, worker loop, `await`, `result`, `cancel`, end of a task, shutdown | the evaluator, which runs actions on pool threads; pipes; the end of `Runtime::run` |
| **Script threads** (`experimental/builtins/threads.cpp`) | the table of `ThreadInfo` records, the parked handles, the counter of ids | `thread_run`, `thread_run_detached`, `thread_join`, `thread_join_timeout`, `thread_done`, `thread_wait_all`, `thread_gc`, `thread_gc_all`, `thread_remove`, the worker, `park_all` | `Runtime::run_single_action` in each worker; `Runtime::run` parks the workers on every exit |
| **Async context, globals, run lifecycle** (`runtime/eval.cpp`, `runtime/core.cpp`) | `tls_asyncDepth`, `tls_in_async_action`, `globalVars_`, `currentProgram_`, the action index, the phase of a run | call, return, throw, `run`, `run_single_action`, hooks | pool and script threads share one `Runtime` |
| **Monitors** (`experimental/builtins/monitor.cpp`) | the table of records, each with a polling thread and the last sample | `monitor_add`, `monitor_remove`, the polling loop, the static destructor | script threads, the file system |
| **Web server** (`runtime/builtins/network.cpp`) | the server, connections with their reader threads, the queue of events for script actions | listen, upgrade, read, echo, broadcast, dispatch, close, shutdown, Ctrl+C | evaluator, clients |
| **Debugger** (`runtime/debug.cpp`, `erevos-language/src/debugAdapter.ts`) | breakpoints, `paused`, `stepMode`, `quit`; what the editor shows | attach, hook at each line, commands and events over two pipes | every evaluated statement |
| **Script mutexes** (`runtime/builtins.cpp:1930-1965`) | the handle table of mutexes | `mutex_new`, `mutex_lock`, `mutex_unlock`, `mutex_try_lock` | tasks that await while they hold one |

### 1.2 Sequential parts that keep state

| component | state | operations |
|---|---|---|
| **Raw memory and ownership** (`runtime/memory.cpp`, `runtime/actions.cpp`) | raw blocks, views, owned, shared and weak cells, buffers, statistics; what the variables of an action hold | alloc, free, realloc, copy, fill, retain, release, move, block ends |
| **Collections** (`runtime/builtins.cpp`, `runtime/eval.cpp`, `runtime/actions.cpp`) | lists, dictionaries, tables, sets, queues, string buffers, fixed arrays, behind numbers | builtins, methods, loops, `map`, `filter`, `reduce` |
| **Package manager** (`src/packages.cpp`) | manifests, registry, lock file, cache | lock, fetch, import |
| **Import merging** (`src/obs_main.cpp`, `src/main.cpp`, `runtime/cabi_exports.cpp`) | files visited, programs in order | preprocess, walk, merge |
| **Mini IR machine** (`runtime/mini_ir_vm.cpp`) | code, labels, stack, locals, heap | read a module, one instruction |
| **Lexer, parser** (`src/lexer.cpp`, `src/parser.cpp`) | position, line, errors met | one token; one construct; recovery |

### 1.3 Translations and pure functions

Evaluation of operators, constant folding (`src/optimizer.cpp`), the bytecode for simple loops
(`runtime/bytecode.cpp`), the control flow of statements (`runtime/actions.cpp`), the blob that carries a program
(`runtime/features/ast_serializer.cpp`) — all modelled; the type checker, IR and x64 code generation, value serialization, the wrappers of system, data, crypto, maths, regex and performance functions,
network clients, the C ABI facade, erodsl, the drivers, the self-hosted compiler and the editor extension — not modelled (section 5).

### 1.4 What is hard, and which property is about it

`PROJECT.json` lists every hazard at its line with the properties that would catch it. In short:

* **A pipe between many callers.** Blocked senders and receivers poll every 25 ms; a close and a
  cancellation can come between two polls: `EndOfStream`, `ImplementsLog`, `Released`.
* **Waiting threads that run other tasks.** The task below cannot go on until the one above has
  returned: `HelpingNeverDeadlocks`. Workers and helpers pop while tasks push, and the pool stops while running tasks still
  submit: `RunOnce`, `ExitDrained`, `RunReturns`. `run()` also lets go of the program before it drains the pool: `ExitDrained` says how
  it may end then. Cancel, end and observers meet: `ImplementsFutures`, `EveryTaskSettles`. One
  thread-local slot serves a stack of tasks: `NoForeignCancel` holds, `CancelUnblocks` does not.
* **Thread records shared without their lock**: `HandleOwned`, `SafeUntilExit`, `ToldMeansFinished`, `JoinReturns`; leaving `run()`
  while workers start workers: `NoWorkerOutlives`, `ExitCompletes`.
* **Records whose thread polls them**: `ThreadsAccounted`, `ChangesRecorded`. **Readers, the accept loop and broadcasts**:
  `EventsInOrder`, `CastsComplete`. **A debugger on two pipes**: `BreakpointsHonoured`, `StopsReachEditor`.
* **State that many calls share**: `OwnersCounted`, `StatsConserved`, `GlobalsStand`, `RunLeavesNothing`, `TablesAreGrids`,
  `CollectionsKeep`, `LockCloses`, `FetchedImports`.
* **Two pieces of code that must mean the same**: `FoldPreserves`, `CompiledLoopAgrees`, `ProgramsRoundTrip`,
  `JumpsMeanJumps`, `MachineMeans`, `ParsesBack`, `LinesAnswered`, `LexedApart`. **Five readers of files**: `ProgramsAssembled`.

## 2. Modules

| module | what it is | extends or instantiates |
|---|---|---|
| `PipeLog` | abstract: a log read through a cursor | |
| `Channel` | one pipe and its callers | `PipeLog` |
| `Futures` | abstract: what observers of a future are promised | |
| `AsyncPool` | workers, helpers, futures, the end of `Runtime::run` | `Futures` |
| `AsyncPipe` | pool tasks that share a pipe | `AsyncPool`, `Channel` |
| `ThreadManager` | script threads and `park_all` | |
| `Memory` | raw blocks, owners, moves, block ends, the next run | |
| `Monitor` | file monitors and the file under them | |
| `Lifecycle` | one `Runtime`: phases of a run, calls, throws, globals | |
| `Debugger` | interpreter, adapter and editor over two pipes | |
| `Expressions` | operators, the optimizer, the machine for loops | |
| `Serializer` | writer and reader of program blobs | |
| `Statements` | jumps, exceptions and `?` in the tree walker | |
| `Packages` | lock, fetch and import over a changing registry | |
| `WebServer` | WebSocket routes: accept loop, readers, broadcasts | |
| `Parser`, `Syntax` | the recursive-descent parser; how programs are written down | `Syntax` extends `Parser` |
| `Lexer` | one turn of the lexer's loop at a time | |
| `MiniIr` | module texts, their machine, and the part of the compiler that writes them | |
| `Imports` | conditional parts of files, walks over imports, merges | |
| `Collections` | lists, dictionaries, tables, sets, queues, buffers, loops over them | |
| `MCChannel`, `MCAsyncPool`, `MCAsyncPipe`, `MCThreadManager` | roots of runs | |
| `MCComponents` | the components that do not touch each other's state, side by side | the components from `Memory` on and `ThreadManager` |
| `ChannelProofs`, `AsyncPoolProofs`, `ThreadManagerProofs`, `MemoryProofs`, `PackagesProofs`, `CollectionsProofs` | theorems, each about the module it is named after; `AsyncPoolProofs` also about `AsyncPipe` | `TLAPS` |
| `RuntimeProofs` | theorems about what the runtime runs: `Lifecycle` and `WebServer` | `TLAPS` |
| `WatchProofs` | theorems about what watches for somebody else: `Monitor` and `Debugger` | `TLAPS` |

Each module that models code also holds, directly before some of its definitions, the same
definition with a plausible mistake (`UnlinkedNothing` before `Unlinked`). They are used nowhere; each
stands for a bug that one of the properties finds when it takes the place of its neighbour
(`PROJECT.json`, "mutants").

### 2.1 `Channel`: how it corresponds to the code

`q` and `closed` are the fields of `ChannelState`. `call[c]` says which blocking builtin
caller `c` is in. The code holds `ch->mu` from the start of a builtin to its end except
inside `cv.wait_for(lk, 25ms)`; a wait ends by signal or by timeout, so a blocked caller
looks at the queue again and again. An iteration that finds nothing to do changes no
state; the iteration that leaves the loop is one critical section and one action:

* `SendDone`, `SendClosed` and `CallCancelled` are the three ways out of `chan_send`: the
  cancellation test comes first in the loop, hence `c \notin cancelled` in the other two;
* `RecvDone`, `RecvClosed` and `CallCancelled` are those of `chan_recv`; what is queued is
  handed out even when the pipe is closed;
* `TrySend` and `TryRecv` take the lock once and never wait, nor do they look at the future;
* `Close` is `chan_close`, `Cancel` is `future_cancel` by whoever holds the caller's future.

`cancelled` stands for `tls_current_future && tls_current_future->cancelled` of the
caller's thread; `AsyncPipe` replaces it by what the pool makes of it. `sent`, `received`
and `reply` are history. Message texts are model values. `chan_len` only reads.

### 2.2 `AsyncPool`

Task 0, `Root`, is the entry action on the thread that called `Runtime::run`; tasks
`1..MaxTasks` are numbered by their `push_back`, and a future has its task's number. A
thread's `stack` is its call stack, reduced to the task wrappers on it: only the last task
runs, the others are inside `async_pool_help_while_waiting`. Steps:

* `Spawn` is `invoke_async_action` with a future; the first one starts the pool;
* `WorkerTake`, `WorkerExit` are the worker loop, which leaves only when the pool is
  stopping and the queue is empty;
* `AwaitBegin`, `HelpCheck`, `HelpTake`, `HelpNothing`, `Observe` are `await_future_value` and
  the helping loop. The look at the future and the pop of a task are two steps, because
  the code lets go of the future's lock in between. The second look, which reads the outcome,
  is part of the step that leaves the wait: a resolved future stays resolved, and its outcome
  does not change either (theorems `CancellationStands`, `SameForAll`);
* `ResultBegin`, `Observe`: `future.result` blocks without helping;
* `Cancel` sets `cancelled` and the error unless the future is done;
* `Start` is the head of the task wrapper: a task whose future is cancelled is settled and
  not run. `End` is its tail, for a body that returned and for one that threw;
* `RootReturn`, `RootThrow`, `StopPool`, `JoinWorkers` are the end of `Runtime::run`. An
  exception leaves `run` without the shutdown of the pool; nothing is said about what
  follows.
* `RootReturn` clears `program`, which is `currentProgram_` (`core.cpp:241`), before the shutdown drains the pool.
  A task that starts after that is `blind`: its body gets `*currentProgram_` of a null pointer (`eval.cpp:1561`). One that was started before
  keeps its reference, but its expressions look at the pointer. `Crash` is the undefined behaviour that follows: any task that runs
  script code without a program may end the process, because a statement of a blind task looks something up, or because a lambda under `map`, `filter`, `reduce`
  (`builtins.cpp:2080`) or the method of an enum (`eval.cpp:1166`) passes the null program on without a test, or because the pointer went away between a test and its use. It need not: a body that looks nothing up
  runs to its end. What can still be submitted follows the code as well: an expression finds the action only through the pointer (`eval.cpp:809`), so a blind task
  submits nothing, while a statement finds it through the reference of the body (`actions.cpp:1552`) and drops the handle of the future. `Creator` gives such a future to
  `Root`, which can no longer name it. `ExitDrained` says
  how `run()` ends: if it returns, every task is done; if a task ended the process for want of the program, some task was `LeftBehind`: it had been
  cancelled, or its creator, which has ended, never was told of its end. Scripts that await all that they create, and cancel nothing, are therefore
  safe. The liveness properties hold of every script, with the end of the process as the other outcome.

`Structured` says which scripts are considered. When it is TRUE a task awaits and cancels
only futures it created itself; when it is FALSE any future may travel through globals and
arguments. `Uses` switches `result` and `cancel` on. An action may always return, or throw, while tasks that it created are under way. Left out: `busyWorkers` and `poolSize`, which are written and
never read, the value that a future carries, and the numbers given to futures.

### 2.3 `AsyncPipe`

Extends `AsyncPool` and instantiates `Channel` with the tasks as callers. A step is a step
of the pool, taken by threads whose running task is not inside a pipe call, or a pipe
builtin by the task on top of a thread's stack. The link is `SeesCancel`: the pipe learns of
a cancellation only through `tls_current_future` of the thread that runs the task.

### 2.4 `ThreadManager`

`table` is the key set of `g_threads`; `freed` the records erased from it, which a worker or a
joiner may still use. `state`, `detached` and `handle` are the fields of a record; `handle` says
where its `std::thread` is: in the record, parked, or moved into a local of the callers whose
`held` names it. `exec` is how far a worker is. The two steps `WorkerLoad` and `WorkerStore`
are the load and the store at `threads.cpp:186-190`, which no lock protects; joins, timeouts
and gc may come between them. A builtin that holds `g_threadMutex` across several accesses to a
record (`JoinMark`/`JoinLook`, `TimedLook`/`TimedMark`) is several actions with `lock` held, because
the worker does not take that mutex. `ub` collects what the code leaves undefined: use of an
erased record, and destruction of a joinable `std::thread`, which ends the process. After a use
of an erased record the model goes on as if the memory still held its last values, or stops;
the properties are claimed only where `ub` is empty or say so.

`current` is `currentProgram_`: `run_single_action` of every worker sets and clears the one field
of the `Runtime`, so `Create` may find it null while a program runs. `MainOps` and `WorkerOps` choose the
builtins that are called, so that each run can ask its question under the usage it is about.

### 2.5 The components side by side

`MCComponents` gives each of the following parts its own behaviours: `part` names the one that moves, the others
rest in their initial states, so that one run checks them all without multiplying their states.

* **`Memory`**: `mem` holds the tables of `MemoryRegistry` (raw blocks with their views, owned, shared, weak cells, buffers, the
  counters), `memEnv` the variables of an action, `memLog` and `memMarks` its `insertLog` and the lengths of it at which
  blocks began. An assignment is one action with everything the code does for it: the release of what the name held,
  the retain of a shared copy, the move out of a heap owner, the entry in the log. `ExitBlock` releases
  what the block bound, in the order of the code (`Unwinding` is the loop, one turn per logged name); `NextRun` is the reset at the start of a run.
* **`Monitor`**: `AddStart`, `AddPublish` and the removal in its steps (unlink under the lock, `running = false`, join,
  destruction); the thread stores `running = true` when it begins, and takes time, size and hash of the file in three steps
  between which `EditFile` may write it.
* **`Lifecycle`**: `RunBegin`, `RunBody`, `RunReturn`, `RunThrow` are `Runtime::run` with its guards and hooks; a
  frame remembers the async flag it found, its own copy of each global, if it has one, and whether it puts them back. `LifSeeded` are the globals with an initialiser, which every run evaluates anew. `lifContested` remembers which globals were
  last assigned while another frame held a copy that it would put back. `Throw(t, n)` unwinds n frames without what their
  ends would have done. `WorkerEnter` and its ends are `run_single_action`.
* **`Debugger`**: `Boot`, `Hook`, `ReadCommand`, `Unwind` are the interpreter, which reads its input only before the program
  starts and while it is stopped; `HandleEvent`, `ConfigurationDone`, `SetBreakPoints`, `Resume`, `Disconnect` the adapter and the
  editor, `dbgIn` and `dbgErr` the pipes between them.
* **`Expressions`**: `Eval` is `apply_binary` and the unary operators on integers of `ExpBits` bits (wrap-around, the throw for a zero divisor,
  shifts out of range and exponents too large throw), `Fold` the optimizer, `Compile` and `Instruction` the bytecode and its machine for simple `for` loops. `Grow`
  builds every expression up to `ExpDepth` operators.
* **`Serializer`**: two tables of rows, one as `writeExpr`, `writeStmt`, ... write, one as the readers read; a tree is `Embed`ded and `Start`ed. Each kind of
  node is tried with every optional part present and absent.
* **`Statements`**: `ExecBlock` and the loops follow the tree walker with its three flags and two exceptions; `BlockMeans` says what structured control flow
  means. The initial states are all bodies with a compound in a compound around two simple statements; `RunBody` runs one.
* **`Packages`**: `StartLock` to `CloseLock` are `resolve` and the writing of `erelang.lock`, entry by entry; `MakeDest` to `Fetched` the copy into the
  cache, file by file, with `CopyFails` and `Killed` between any two steps; `Withdraw` and `Publish` are the others who use the registry.
* **`WebServer`**: the thread that listens (`Turn`, `Dispatch`, `Throw`, `LastDrain`), a reader per connection (echo, a snapshot for the broadcast, one
  `CastTo` per peer, the queueing of the event), closing by the script, shutdown, Ctrl+C and what clients send.
* **`Parser`, `Syntax`**: a parse function takes the state of the `Parser` object and returns what it made, whether it threw, and the state it left.
  `Syntax` writes trees down with parentheses only where C needs them; `Slip` takes tokens out of lines, `parse` runs the parser on what is left.
* **`Lexer`**: an action is one turn of the loop of `Lexer::lex`, named for the kind of token that it finds. A source is a piece (a token or a few, a directive), a gap (blanks, line ends, continuations, comments, nested ones too) and another piece.
* **`MiniIr`**: `write_ir_module` is what `compiler/codegen.elan` writes for a program, `parse_module` reads it, one action per group of instructions runs it.
  Numbers and handles share one word as in the code. `Run` is what the program means, with values that know their kind and without a machine.
* **`Collections`**: `UseDict`, `UseList`, `UseBag` are one call each, by builtin or by method; `LoopBegins` and `LoopTurn` the loops over lists, ranges
  and dictionaries, whose body changes what they run over. `colGrids` is what a table is meant to be, beside the
  dictionary with glued keys that it is; names are sequences of letters, of which the dot is one, since where the first dot stands decides what a key means.
* **`Imports`**: `PreprocessSource` cuts out the branches of `#if` that do not hold, with the stack of frames of the code. `LoadFile` is the depth-first walk
  that the code spells out once per reader; `ObcLoads`, `RunnerLoads`, `CompilerLoads`, `AbiLoads` and `CarriedLoads` are what the readers ask for, in their
  order and where they look, and `MergeLoadedPrograms`, `MergeCompiled`, `RunPrograms`, `RunWithImports` what each makes of the files. `Preprocess` and `Assemble` take one
  source or one set of files through all of this.
* **`ThreadManager`** once more, with every builtin on the main thread and `thread_wait_all` on the workers, for its type invariant and so that every action is taken.

## 3. Runs

All bounds are constants: `MaxSent` messages, `MaxTasks` async calls, `MaxThreads` script threads, and those that the modules name with the word "bound".
Every counter of the models is one of these, so no state constraint is used.

| run | instance | what it shows |
|---|---|---|
| `channel` | 2 callers, capacity 2, 4 messages of 2 texts | the pipe implements `PipeLog`, so that nothing is lost, doubled or overtaken; `EndOfStream`, `Released`, no deadlock |
| `pool_outcomes` | 2 workers, 2 tasks, any sharing, `result`, `cancel` | the pool implements `Futures` |
| `pool_structured` | 2 workers, 3 tasks, own futures only, `cancel` | `HelpingNeverDeadlocks`, `RunOnce`, `ExitDrained`, no deadlock |
| `pool_live` | 2 workers, 2 tasks, own futures only, `cancel` | `EveryTaskSettles`, `RunReturns` |
| `pool_shared` | 2 workers, 3 tasks, any sharing | finding: `HelpingNeverDeadlocks` is violated |
| `pipe_safety` | 2 workers, 2 tasks, capacity 1, 2 messages, `cancel` | `NoForeignCancel` |
| `pipe_cancel` | as above, no message | finding: `CancelUnblocks` is violated |
| `threads_main` | 3 threads, cap 2, workers start workers; the main thread joins, collects, removes | `HandleOwned`, `SafeUntilExit`, `ToldMeansFinished`, `NoWorkerOutlives`, `JoinReturns`, `ExitCompletes`, no deadlock |
| `threads_timeout` | 1 thread | finding: `JoinReturns` is violated |
| `components` | section 2.5, one instance per part | `TypesOK` and 23 properties, section 3.1 |
| `compiled_loop` | loops of 2 rounds that assign a text with braces | finding: `CompiledLoopAgrees` is violated |
| `program_blob` | programs that may hold `await` | finding: `RoundTrips` is violated |

Why these bounds are enough to be worth something:

* *Pipe.* Two callers let a send, a receive and a close or a cancellation be under way at
  once, and `try_` calls of one come between two polls of the other. Capacity 2 with 4 messages reaches the full pipe with a
  sender blocked behind it and the pipe with more than one message queued. Two texts tell
  an overtaken message from an equal one.
* *Pool.* The code never builds a pool of fewer than two workers (`max(2, cores)`), and with the
  main thread there are three threads that take tasks. Two tasks suffice for everything about
  the outcome of one future and its observers (the other task and `Root`). A deadlock by helping needs one
  task that awaits, one that is nested on top of it and one that is awaited by both, hence three.
  The program goes away under whoever is still queued, on a worker's stack, or nested on a helper: with three tasks all three at once.
* *Lifecycle.* One frame below another on a thread, and one on another thread, are the two places where a stale copy can be held. Two assignments let the second one make good, or undo,
  what the first one was; the global has an initial value, which the second run restores.
* *Pipe under the pool.* A task that awaits, a task that it helps, and `Root`, which cancels.
* *Threads.* One worker suffices for the races of its end with the joins, two for `wait_all` and joins of more than one,
  three for a cap of two that is reached while erased records are about, and for a worker that starts a worker while
  `park_all` is between its rounds.

### 3.1 The run `components`

| part | instance | properties |
|---|---|---|
| memory | 2 variables, 3 handles, cells 0 or 1, 2 nested blocks | `OwnersCounted`: no order of moves, shares and block ends releases twice or too late; `StatsConserved` |
| monitor | 1 monitor, 2 callers, 2 edits | `ThreadsAccounted`, `ChangesRecorded` |
| lifecycle | 1 global, main thread and 1 worker, 2 assignments, 2 frames, 2 runs | `GlobalsStand`, `RunLeavesNothing` |
| debugger | 2 lines, 2 changes of breakpoints | `BreakpointsHonoured`, `StopsReachEditor` |
| expressions | 4 bits, 2 nested operators, 3 rounds | `FoldPreserves`, `CompiledLoopAgrees` |
| threads | 2 threads, cap 1, every builtin | `TypesOK` |
| blobs | every kind of node, each part present and absent | `ProgramsRoundTrip` |
| bodies | conditions that hold 3 times, lists of 2, every pair of compounds around every pair of simple statements | `JumpsMeanJumps` |
| packages | 2 names, 2 versions, 1 edit, 2 calls | `LockCloses`, `FetchedImports` |
| web | 2 connections, 2 texts | `EventsInOrder`, `CastsComplete` |
| syntax | every kind of construct, up to 2 damaged lines | `ParsesBack`, `LinesAnswered` |
| machine | 9 programs with 2 numbers of 0..2 each | `MachineMeans` |
| lexer | every piece, gap and second piece | `LexedApart` |
| imports | every conditional of up to 3 branches with another in it; a main file with 2 imports, 2 libraries, which may lie on the search path, be unreadable or declare the same name; a plugin | `ProgramsAssembled` |
| collections | 5 calls on tables, 4 on lists and the others | `TablesAreGrids`, `CollectionsKeep` |

Four bits have both limits of the integers, a divisor that overflows the quotient, shifts past the width and powers beyond it; nothing in the code depends on the
number 64 except through these. Two handles of one cell are what an order of releases can tell apart, and a third is what is made while they live.
Two packages, of which the first requires the second in another version than the root does, are the smallest conflict. With two connections
one broadcasts while the other leaves. A row whose name begins like another's (`a` and `ab`), a row without a name, and columns with a dot in or in front of them are in the keys of the tables. The endless loop of `MiniIr` meets the
instruction limit `MirGuard`, which is 150 there and large in the code.

What the passing properties do not claim is in their wording: `GlobalsStand` leaves out globals that were last assigned while another frame than the assigning one held a copy (those are the ones that the code loses, section 3.5),
`ExitDrained` does not say that a script which leaves tasks behind or cancels them comes through, `RunReturns` and `EveryTaskSettles` are about processes that no task without a program has ended,
`FetchedImports` is about fetches during which the registry was at rest, `MachineMeans` about programs in which no number below zero came up,
`ParsesBack` about programs without ternary and without comparisons that read as type arguments, `LinesAnswered` about simple statements without braces and brackets,
`ProgramsAssembled` about names that at most one module declares, and about all but traits (the compiler drops those of modules) and, under `run_with_imports`, hooks;
`CollectionsKeep` about fixed arrays that no builtin has resized, `CompiledLoopAgrees` in this run about texts without braces.

### 3.2 Symmetry and deadlock

Symmetry is used where it is sound: over workers in the runs of the pool without liveness, over connections and over the
variables of a script in `components`. The root project of `packages` requires one fixed package, because the names are alike. Instances with liveness use no symmetry.

Deadlock is checked except where a script may legitimately stand still or end: where futures are shared
(`pool_outcomes`, `pool_shared`), where a task sits in a pipe that nobody fills (`pipe_*`), in `threads_timeout`, whose finding is
that a join stands still, and in `components`, `compiled_loop` and `program_blob`, where programs end.

### 3.3 Fairness

* Weak fairness of every step that a thread takes by itself (a blocked pipe call, the
  helping loop, the worker loop, a builtin under way, the rounds of `park_all`): the operating system
  runs each runnable thread, condition variables are waited for with a timeout or with a
  predicate, and no lock is held for ever.
* Strong fairness of the return of a task, in `AsyncPool` only. A script may await a future that is
  resolved over and over; the return is then enabled again and again but never continuously. Without the
  assumption liveness fails for scripts that never end, which says nothing about the
  runtime. In `AsyncPipe` no return is assumed: a task blocked in the pipe is the subject there.
* In `ThreadManager` the action of a worker ends (`WorkerLoad` is part of `Work`), unless the worker is
  itself inside a builtin. `TimedOut` has no fairness: a timeout may be arbitrarily long.
* `components` states no fairness and no liveness.

### 3.4 Findings

* **Helping can deadlock** (`pool_shared`, `runtime/helpers.cpp:179`). `docs/language.md:171` says that a
  waiting worker helps "so the pool does not deadlock". It runs *any* queued task on the stack of the
  waiting one. If that task awaits, directly or through another, the future of the task below it,
  neither can go on, although the scripts wait in no cycle. `AwaitCycle` in the model is precisely the
  case in which the scripts themselves are at fault, and the property excludes it. When tasks
  await only what they created (`pool_structured`) it cannot happen: a helper nests younger tasks
  on older ones, and a task only ever waits for a younger one.
* **A cancellation does not always unblock a pipe** (`pipe_cancel`, `runtime/eval.cpp:1580`).
  `docs/language.md:122` says that `fut.cancel()` unblocks a task that is blocked in `p.receive()`
  or `p.send()`. The task wrapper resets `tls_current_future` at its end instead of restoring it. A task
  that helped while it awaited has no future any more when it enters the pipe.
* **A join of a finished worker can hang** (`threads_timeout`, `experimental/builtins/threads.cpp:280`).
  `thread_join_timeout` tests `Joining` and then stores `Running`; the worker may store `Done`
  in between and is then listed as running for good. The next `thread_join` marks it as `Joining` and
  waits for a signal that was given long ago, where `docs/threads.md:12` promises `"true"`.
* **A compiled loop does not interpolate** (`compiled_loop`, `runtime/bytecode.cpp:106`). The compiler of simple `for`
  loops pushes the text of a string literal as a constant, where `runtime/eval.cpp:290` says that `{expr}` is put in in every string literal.
* **A program that awaits does not survive its blob** (`program_blob`, `runtime/features/ast_serializer.cpp:299`).
  `writeExpr` has no branch for `AwaitExpr` and writes nothing, so that the reader takes what follows for the expression;
  `include/erelang/features/ast_serializer.hpp:12` promises a program back.

### 3.5 What the models show beyond the runs

The code does the following too. Either nothing rules it out but a plain reading of a document, or it lies outside the properties; no run is spent on it.

*Threads.* `thread_wait_all` stores `Joined` before the joins, so another caller is told that a running worker has finished. With
two callers that create threads the cap can be passed by one, because it is tested under one lock and the record is inserted under
another (`threads.cpp:168`). `thread_remove` or `thread_gc_all` by a worker may erase the record that a join on the main thread still uses, and
`thread_gc` may erase a detached record between the worker's store and its signal (`threads.cpp:146`). A worker that calls
`thread_wait_all` or joins itself ends the process, as does `thread_remove` of a detached worker that is done. `park_all` erases the records
of workers that still run. A worker that ends clears `currentProgram_` under the main thread, whose next `thread_run` then fails (`core.cpp:427`). These are the
reasons for the restricted `MainOps` and `WorkerOps` of the passing runs, and for the clause "until the exit" in `SafeUntilExit`. `monitor_remove` that comes before the
polling thread's `running = true` is overwritten by it, and its join never returns (`monitor.cpp:100`).

*Pool and runtime.* `currentProgram_` becomes null before the pool is drained (`core.cpp:241`), so that a script that returns while tasks of its own are queued or under way may end the process (`Crash`), or see its calls fail. It takes less: a
script that waits for all it created may still be left by tasks that it cancelled, since a cancelled future answers at once. `ExitDrained` shows that nothing else leads there.
`run_single_action` copies every global into its environment and stores every one of them back at its end (`core.cpp:426`), under the comment "Persist mutated globals", where `docs/threads.md:47` says that threads "share global variables": a
worker that assigned nothing puts the old value back over what the main thread has assigned meanwhile. `GlobalsStand` shows that no other assignments are lost. An exception leaves `run` without the shutdown of the pool (`core.cpp:227`); `lastReturnFields_` (`eval.cpp:1539`),
`g_futures` (`eval.cpp:1574`) and `actionIndex_` (`actions.cpp:29`) are shared by all workers without a lock; a throw between the start and the join of `parallel` ends the process (`actions.cpp:132`);
`future.result` blocks a worker without helping, so that as many of them as there are workers stop the pool (`eval.cpp:1454`). A callee that throws leaves `tls_in_async_action` as the call set it (`eval.cpp:927`).

*Statements and expressions.* `&&` and `||` evaluate both sides (`eval.cpp:417-435`). A compiled loop also skips the moves, retains and releases of owners, and treats `x++` on text, null and floats
differently (`actions.cpp:885-896`). The case of a `match` that binds names runs in a copy that is written back (`actions.cpp:863`; `docs/syntax.md:948`), so a name it shadows is lost or kept by accident. `?` in the
initialisation of a `for` is not the return that `docs/language.md:153` promises (`actions.cpp:561`). Copies of `shared<T>` through expressions other than names are not
retained (`actions.cpp:380-383`), so their count runs below the number of holders.

*Blobs.* `LetStmt.sizeExpr` and `EnumDecl.methods` are not written; a truncated blob reads as zeros (`ast_serializer.cpp:93`).

*Collections.* `docs/collections.md:86-89` says of a fixed array that its length never changes and that `push` and `pop` throw; the builtins `list_push`, `list_clear` and `list_remove_at`
(`builtins.cpp:2158`, `2192`, `2199`) never look at `g_fixedLists`. `filter` and `map` that keep nothing create no entry for their result, and a `map` over that result answers a dictionary, where `docs/syntax.md:1065` promises a list;
a further one throws. A callback that changes the list it is called for invalidates the iteration. `list_new`, `map`, `set_union`, `set_intersect` and `set_diff` do not clear
the entry under their new number. The builtin lists the items of a dictionary as `k=v`, sorted, the method as `k:v`, unsorted. A column `b.c` of row `a` and a column `c` of row `a.b`
are one cell; `count_row` counts empty column names, `columns` and `row_keys` skip them. String buffers that were freed are ignored by builtins and revived by methods. The registries have no lock.

*Lexer.* A newline inside a string is dropped where the comment says it is kept; a backslash before a newline inside a string keeps it and does not count the line; a
backslash before CRLF is an unexpected character although CRLF is said to be normalised; `1..5` reads as `1.` `.` `5`, and `.5` is never a number; `5s*x` and `10px/width` are swallowed as numbers with a unit;
`/** */` comments are never reported, `///` are.

*Parser.* A ternary never parses, because `apply_postfix` takes its `?` for the try operator first (`parser.cpp:711`), although `docs/syntax.md:207` shows one and `dev/missing.md:28` calls it implemented end to end. `await (x?)` reads as
`(await x)?`; `*` and `**` share a level and `**` is left-associative; `int& v`, `for (auto& x : xs)` and fields with `public` (`docs/syntax.md:229-231`) are rejected; `a < b && c > (d)` is taken for type arguments; a match guard followed by
`: call();` is taken for a method call; `constexpr` and `static` are unreachable; a missing `;` before a `}` on the same line makes the recovery eat the brace, and a damaged list over several lines the next line; a lambda that
loses its `->` swallows the rest of its block. Backtracking restores the position but not `pendingGreater_` and `pendingErrors_`. The captures of a lambda overlook literals of lists, dictionaries and tuples, compound assignments and nested lambdas (`docs/syntax.md:1072`). Attributes
of the first declaration of a file are taken for directives of the file.

*Mini IR.* Numbers below zero are taken for handles: `print` of -1 after a string constant prints the string, and `string("abc")` prints the handle. Labels that nobody placed lead to the start of the code, a jump past the labels ends it as an error where the machine written in Elan returns. `string.replace`,
`lower` and `upper` are qualified by the compiler but unknown to the machine. `exit` does not stop it. Index 0 of an enum's payload is the value popped first, where the comment says last.

*Imports.* A script of a plugin that fails leaves the files it reached marked as visited; the runner then runs a program without those it shares with the plugin, and reports nothing more (`obs_main.cpp:390`). Plugins are in a program that is run
and not in one that is compiled. Two modules that declare the same struct pass the runner, which takes the first, and are refused by the compiler as duplicates; of two globals the runner takes the first, the compiler the last; the
runner initialises globals of the main file before those of its modules, the compiler after them. The compiler drops the traits of modules; obc, the C ABI and the executables that carry their files keep only actions, hooks and entities of them.
A hook of a module hides the main file's, although the comment at `obs_main.cpp:1225` lets the entry program win (the one at line 1245 does not). A library that has an action `debug_main` becomes the entry of a compiled program (`obs_main.cpp:2501`). A file of which the
preprocessor leaves nothing is read again without preprocessing by the compiler (`obs_main.cpp:2402`). `#else // note` is not taken for `#else`, and `#define X 1` defines the symbol `X 1`. obc takes `#include <builtin/...>` for a file and ends. Without an extension an
import is not tried as `.elan` by the runner, and the C ABI tries extensions in the current directory only. Paths are compared as they are spelled: where `absolute()` keeps `..`, a diamond over two directories loads a file twice.

*Packages.* The requirement met first wins, whatever the others ask; the hash in the lock is compared nowhere; files that a new version no longer has stay in the cache; a source tree that has vanished is fetched
"successfully" as nothing; the lock is written in place, so a kill leaves half of it.

*Web server.* `listen` after a shutdown or Ctrl+C spins on a closed socket (`network.cpp:1449`). The five seconds of the receive timeout stay on upgraded sockets, so silent clients are closed (`network.cpp:1324`). An action that throws leaves `running` set and drops the rest
of its batch. A lock guard is destroyed by hand and once more at the end of its scope (near `network.cpp:1520`). Reader and script may both close a socket whose number the system has given to another meanwhile. Several servers share one queue of events. `recv_timeout` on a
server's handle always answers "", so the example at `docs/syntax.md:575` spins. In the WebSocket client `release()` comes before the end of the lock guard on the same object, and `send_binary` returns without it.

*Builtin modules.* The tables that resolve names and that bind them disagree (`test` of regex, `join_timeout` of threads; data, perm and tcp are in one only).

## 4. Theorems

Each holds for every number of callers, workers, tasks, threads, variables, handles, monitors, connections and lines, every capacity and cap, and, unless
the table says otherwise, every choice of builtins. The only assumptions on constants are those the modules name: bounds are natural numbers; the main thread is not a
worker of the pool, which has at least one (`PoolAssumption`; the code never builds a pool of fewer than two); no worker of `Lifecycle` is the main thread and
a call may nest (`LifAssumption`); a program has finitely many lines, numbered from 1 (`DbgAssumption`), and an action finitely many variables (`MemAssumption`);
there is a package name, and a registry holds finitely many versions of three numbers each (`PkgAssumption`); the dot is a letter, names of rows have none, columns have a
name, and the text `none`, which the model answers for a missing cell and for a callback without a result, is no value (`ColAssumption`; what happens to rows with dots and columns without a name is in section 3.5). `WebServer` assumes nothing.

| module | theorem | states | also checked in |
|---|---|---|---|
| `ChannelProofs` | `TypeCorrect` | `Spec => []TypeOK` | |
| | `FifoDelivery` | `Spec => []Fifo` | |
| | `CapacityBound` | `Spec => []CapacityRespected` | |
| | `SilentAfterClose` | `Spec => ClosedAcceptsNothing` | |
| | `EndIsDrained` | `Spec => []EndOfStream` | `channel` |
| | `Refinement` | `Spec => ImplementsLog` | `channel` |
| `AsyncPoolProofs` | `TypeCorrect` | `Spec => []TypeOK` | |
| | `Nesting` | `Spec => []HelpersNest` | |
| | `SameForAll` | `Spec => []OneOutcome` | |
| | `CancellationStands` | `Spec => []CancelIsFinal` | |
| | `Refinement` | `Spec => ImplementsFutures` | `pool_outcomes` |
| | `TasksRunOnce` | `Spec => []RunOnce` | `pool_structured` |
| | `ShutdownDrains` | `Spec => []ExitDrained` | `pool_structured` |
| | `HelpingHelps` | `Spec => []HelpingNeverDeadlocks`, if tasks await only what they created, and never with `result` | `pool_structured` |
| | `OwnCancelOnly` | `PipeSpec => []NoForeignCancel` | `pipe_safety` |
| | `PipesInPool` | `PipeSpec => Spec` | |
| | `PoolPipesDeliver` | `PipeSpec => [](Pipe!Fifo /\ Pipe!EndOfStream)` | |
| `ThreadManagerProofs` | `TypeCorrect` | `Spec => []TypeOK` | `components` (in `TypesOK`) |
| | `NoHandleLost` | `Spec => []HandleOwned` | `threads_main` |
| | `NoneOutlives` | `Spec => []NoWorkerOutlives`, if workers join nothing themselves | `threads_main` |
| | `ToldTruly` | `Spec => []ToldMeansFinished`, if workers do not ask about threads, or nobody uses `thread_wait_all` and `thread_join_timeout` | `threads_main` |
| | `SafeInside` | `Spec => []SafeUntilExit`, if workers only start workers, and nothing is detached or removed by force | `threads_main` |
| `MemoryProofs` | `TypeCorrect` | `MemSpec => []MemTypeOK` | `components` (in `TypesOK`) |
| | `OwnersCount` | `MemSpec => []OwnersCounted` | `components` |
| | `StatsAddUp` | `MemSpec => []StatsConserved` | `components` |
| `WatchProofs` | `MonTypeCorrect` | `MonSpec => []MonTypeOK` | `components` (in `TypesOK`) |
| | `RecordsOutliveThreads` | `MonSpec => []ThreadsAccounted` | `components` |
| | `RestIsSeen` | `MonSpec => []ChangesRecorded` | `components` |
| `RuntimeProofs` | `LifTypeCorrect` | `LifSpec => []LifTypeOK` | `components` (in `TypesOK`) |
| | `AssignmentsStand` | `LifSpec => []GlobalsStand` | `components` |
| | `NothingLeft` | `LifSpec => []RunLeavesNothing` | `components` |
| `WatchProofs` | `DbgTypeCorrect` | `DbgSpec => []DbgTypeOK` | `components` (in `TypesOK`) |
| | `StopsAreShown` | `DbgSpec => []StopsReachEditor` | `components` |
| | `NoBreakpointPassed` | `DbgSpec => BreakpointsHonoured` | `components` |
| `RuntimeProofs` | `NoCastMissed` | `WebSpec => []CastsComplete` | `components` |
| | `ActionsSeeAll` | `WebSpec => []EventsInOrder` | `components` |
| `PackagesProofs` | `PkgTyped` | `PkgSpec => []PkgTypeOK` | `components` (in `TypesOK`) |
| | `LocksClose` | `PkgSpec => []LockCloses` | `components` |
| | `FetchesReachImports` | `PkgSpec => []FetchedImports` | `components` |
| `CollectionsProofs` | `ColTypeCorrect` | `ColSpec => []ColTypeOK` | `components` (in `TypesOK`) |
| | `TablesStayGrids` | `ColSpec => []TablesAreGrids` | `components` |
| | `CollectionsAlwaysKeep` | `ColSpec => []CollectionsKeep` | `components` |

The theorems without a run say less than a property that one checks: what readers get in which order, the capacity and the silence after the close follow from what `ImplementsLog` lets the log do, one outcome for all and the finality of a cancellation from
`ImplementsFutures`; the nesting of helpers is one half of why `HelpingNeverDeadlocks` holds. `PipesInPool` and `PoolPipesDeliver` carry what the pool and the pipe
promise alone over to tasks that block in a pipe: the safety theorems above that start from `Spec` hold of `PipeSpec` too. A component's specification (`MonSpec` and so on) is what it does
by itself; in `components` each part moves as its specification says while the others rest.

The hypotheses of four theorems are conditions on scripts. Without them the code does otherwise, and TLC shows how:

* `HelpingHelps`: the finding of `pool_shared` is what happens to futures that travel, and `future.result` blocks a worker without helping.
* `NoneOutlives`: a comment at `threads.cpp:83` says that `park_all` lets no worker outlive the program. A worker that joins itself has its own handle in a local, where
  no round of `park_all` finds it, so that `run()` leaves it behind (`NoWorkerOutlives` fails for `MainOps = {"run"}`, `WorkerOps = {"join"}`).
* `ToldTruly`: `thread_wait_all` stores `Joined` before it joins, and `thread_join_timeout` stores `Running` over what the worker has stored; a second caller is misled by either.
* `SafeInside`: detached threads and forced removals leave a record without the handle that would be joined first, and workers that erase records do so under the main thread's builtins (section 3.5).

The arguments:

* **Pipe.** `Fifo` is inductive given the types: a send appends the same message to `sent` and `q`, a
  receive moves the head of `q` to the end of `received`. The capacity is inductive by itself, because a
  push follows a test under the same lock. `EndOfStream` needs `Fifo` and the invariant `Drained`: once a
  receiver has been told of the end the pipe is closed and its queue empty, and stays so.
  The refinement maps the log to `sent`, its read part to `received`, and uses `Fifo` for the entry a
  read returns and for the number of unread entries.
* **Pool.** `HelpersNest` is not inductive: that the popped task is younger than all on the stack needs
  the queue to be sorted and everything on a stack to be older than what is queued (`Ordered`). The
  outcomes need two more parts. `Placed` ties the phases to the sets: a future not yet submitted is neither done
  nor cancelled, what is in the queue has the phase "queued", what is done has the phase "done" (so a task
  cannot be settled twice), and a cancelled future carries the error of its cancellation, which its end does not
  overwrite. `Reported` says that what observers were told of a future is what a look
  at it would return now, and that nothing was told of a future that is unresolved; it is the reason why a
  late cancellation must change nothing. `IInv` is their conjunction with `TypeOK`; the refinement of
  `Futures` maps each step to the creation, settlement or observation of one future, or to a stutter.
* **Tasks run once, and all of them.** `Located` says where a task is: queued tasks are in the queue, and those under way on one stack, of one thread; `Ordered`
  makes that one place, because neither queue nor stack holds a task twice. `Ending` follows the shutdown: once the main thread has ended its action, `Root` is alone on its stack;
  a worker that is gone has an empty stack, and when all are gone the queue is empty. A worker leaves only when it finds the
  queue empty; what a running task submits after that is left for that task's own thread, which comes back to the queue before it leaves too.
  Those that come after the program is gone change nothing in this: a process that crashes never counts as one whose `run()` returned, and a future whose handle was dropped is settled like any other.
* **Who misses the program.** `run()` lets go of the program when `Root`'s action returns, and from then on `Root` neither runs nor waits (`Missing`). So a task that ends the process is another one, and not done. Of the tasks that are
  not done take the oldest: whoever created it is older (`Asking`), hence done or `Root`. If that creator was told anything of it, its future was resolved (`Reported`), and since the task is not done it had been cancelled. Either way it was left behind
  (`OldestLeftBehind`), and a crash, after which nothing moves (`CrashFinal`), changes nothing in that.
* **No deadlock by helping.** If everything stands still, every thread's topmost task waits for a future that is not resolved, and the queue is empty. A task waits for
  one that it created, which is younger (`Asking`), and a helper nests younger tasks on older ones. Take the youngest task that is under way: it is the topmost one of
  its thread, and what it waits for is younger still, so that one is queued, which the empty queue rules out. (A main thread that only waits for its workers has one among them that is
  inside a task.) That the set of tasks under way has a youngest member is the well-foundedness of the numbers below the bound.
* **Pipe under the pool.** `tls_current_future` is 0 or the top of the thread's stack, by itself inductive: it
  is set where a task is pushed and reset where one is popped. The steps of the pipe leave the
  variables of the pool unchanged, which is also why `PipeSpec` implies `Spec`. That messages arrive once and in order does not
  need to know whom a cancellation reaches: `PipeKept` is the pipe's own invariant, with the future of the caller left open.
* **Threads.** `HandleOwned` needs to know where every handle is at every step: handles in locals belong
  to one caller only (`Disjoint`), a caller holds handles only between the move out of the record and the native
  join, and their place is "local" (`Locals`), ids not yet given out have no handle (`Fresh`), and every
  thread that may still run has an owner (`AllOwned`). `Known`, that a call under way is about a thread that was
  created, supports the types. `thread_remove` is the delicate step: it
  erases without parking, and is saved by its tests of the handle, or ends the process.
  The other three share `Doing` (which builtins the calls under way belong to) and `Registered` (a created thread is in the table, erased, or in the hands of the caller that is registering it).
  A round of `park_all` that finds nothing means that nobody is alive, because of the *oldest* thread alive: whoever could still be registering it is older,
  so it has been registered, and its handle is in the table or parked. What scripts are told follows from `Truthful`: a state of a finished thread is stored by the worker itself, or is a `Joined` that `thread_wait_all`
  has stored ahead, and then nobody is there to be misled. `Orderly` keeps erased records and moved handles to threads that have ended, since the main thread alone erases.
* **Memory.** `MemInv`: the tables agree with two tallies, how many variables hold each heap and each shared owner (`Well`), and the marks of the open blocks rise along the log (`Marked`). Each
  operation on the tables is a lemma about any two tallies (`Sound`), so that it can be used in the middle of a statement: a binding first makes the tables count the new holder, then releases what the name held (`Binds`).
  A count that reaches 0 leaves an entry that `Prune` must remove (`SoundBut`). The weak count is tied to the table of weak handles, and what lives is counted along, because the sum of the
  statistics rests on every release finding its entry. The end of a block is a loop over the log: its function exists, and each turn keeps tables and variables in agreement, both by the least turn that would not.
* **Monitors.** `Owned`: a started monitor is in the table, or in the hands of one caller that adds or removes it, or removed; a record is destroyed only after its thread
  was joined. `Sampling`: as long as the file is the one at which the sample began, each field that was read is the file's. A sample that mixes two versions is
  not excluded; it is of a file that has changed since, so `ChangesRecorded` makes no claim on it, and the next one at rest repairs it.
* **Globals.** A frame that will put its copies back holds, of each global that is not contested, what was last assigned to it, and so does the store (`Current`). An assignment brings the copy of its own frame
  up to date, and contests the global if any other frame holds one; a new copy is taken from the store; putting one back then changes nothing. A run resets what has an initialiser, and needs that nobody is inside who
  would put an older value back (`Outside`).
* **Lifecycle.** The flag `tls_in_async_action` and the depth `tls_asyncDepth` balance with the frames of each thread: the depth is the number of frames that raised it, the flag
  is what the frame on top set, and each frame holds what the one below it had (`Balanced`). Until something throws this is inductive, with what the bottom
  frame is on each thread (`Bottom`), and says that the flag and the depth are back where they were when no frame is left. The index and the workers need no such balance (`Outside`).
* **Debugger.** A stop is with the editor, or on its way to it, or the command that ends it is on its way back (`Reaching`). A line the editor shows with a breakpoint is known to the interpreter, or was written to
  it after the last `clear`, or waits in the adapter for the interpreter to be ready (`Kept`); an interpreter that has read every command therefore knows them all.
  That at most three events are ever waiting for the adapter, a bound that the type invariant states, is a matter of turns: one of editor, command, running program and report has the word (`OneTurn`).
* **Web server.** A client that may still be sent to has got, of each sender, every text up to the one in the sender's hand, or up to the one before when the hand has still to come to it (`Told`);
  targets are taken at the broadcast and contain only clients that were registered (`Reading`). For the actions, batch and queue are one queue, to which readers append and whose head the
  actions take: its entries rise per connection, are later than all that has been acted on (`Ordered`), and, unless an action threw, nothing that was handed over is missing from both (`Complete`).
* **Packages, the lock.** The queue of the resolver is at every step what the root and the entries so far require, in the order in which they were added (`Resolving`). That is a statement about a function defined by
  recursion over the entries: it is shown to exist, to grow only at its end, and to be the same for entries with the same names and versions, each by the least counterexample. What is behind `next` in the queue is `Answered`: each name has one entry, and that one
  meets the *first* of the queue that asks for it. When the queue is at its end this is `LockCloses`. "The newest that does" needs that a finite set of versions has a newest one: the one with the fewest newer ones.
* **Packages, the fetch.** While nobody edits the registry, what is locked was hashed from what the registry still holds (`Faithful`), the entries before the one being copied are in the cache with exactly the hashed files, and so are the files
  of that one which are no longer left to copy (`Mending`); entries have different names, so copying one does not spoil another. A fetch that ends leaves `LastFetch`, of which a failed copy or a kill makes no use, because they end no fetch.
* **Tables.** A dictionary and a grid belong together (`GridOf`) when the keys of the one are the cells of the other, glued. A row has no dot, so the first dot of a key is the one behind its row (`CellParts`); hence different cells have different keys (`CellsApart`), a key begins with
  a row and a dot only for its own row (`RowPrefix`), and what `table_rows` and the others cut out of keys is row and column again. Each call makes another such pair of a pair: a put, a removal, a cleared row, a merge. `count_row` is the size of a set of keys, carried over by a bijection.
  A key of several parts is a recursive function over the parts; that row and columns make the cell of the row and the key of the columns is by the least number of parts for which they would not.
* **Collections.** A loop has seen a prefix of what was at the start as long as that was kept (`LoopInv`); it ends at the length of the start then, so it has seen all of it. A method that changes a length refuses fixed arrays, a builtin puts the list among the resized ones. `filter` keeps nothing,
  and `reduce` finds nothing, exactly when no element up to `n` passes, for every `n` by steps (`Steps`); that the two recursive functions exist at all is `StepsExist`.

Only model-checked, and why:

* all liveness (`Released`, `EveryTaskSettles`, `RunReturns`, `JoinReturns`, `ExitCompletes`), which is beyond the proof system;
* `FoldPreserves`, `CompiledLoopAgrees` (`Expressions`), `ProgramsRoundTrip` (`Serializer`), `JumpsMeanJumps` (`Statements`), `ParsesBack`, `LinesAnswered` (`Parser`), `LexedApart` (`Lexer`),
  `MachineMeans` (`MiniIr`), `ProgramsAssembled` (`Imports`): each compares two definitions that are recursive over trees or texts, for which the proof system has no induction, and the modules use `RECURSIVE`
  operators and operators on bits, with which it loses its arithmetic. The recursion in `Packages` and `Collections` runs over numbers, where least counterexamples take the place of induction;
* `TypesOK` as a whole belongs to `MCComponents`; each of its parts is a theorem above.

## 5. Not modelled, and why

* Type checker, IR and x64 code generation: functions over large data types; a reference definition would be as long as the code.
* Script mutexes: small; see the plan. Plugins: discovery is file-system I/O; the phases that hooks take part in are in `Lifecycle`.
* Network clients, WebSocket client: one system call per builtin; reference counts by hand in the latter (section 3.5).
* System, data, crypto, maths, regex, binary and performance builtins, value serialization, the C ABI, the drivers: wrappers of a
  library or of the operating system without state of their own, and formats. Builtin module tables, erodsl profiles: constant tables.
* Self-hosted compiler and editor extension: other programs that use this one; what the compiler writes for the mini IR machine is in `MiniIr`, the debug adapter in `Debugger`.
* Data races on plain C++ objects (`g_futures`, `g_nextFutureId`, `globalVars_`, the collection registries, a moved `std::thread`):
  the models take the access in one step. Where the race has an effect that can be told apart
  (the load and store of a worker's state, the sample of a monitor) it is modelled.
* Values of futures and messages, texts of errors, times: a timeout is a step that may be taken at any time.
* Within modelled parts: floats and text under operators; the counters `double_frees`, `use_after_free` and `leaks`; aliases of weak handles and buffers; slots, which the code disables (`eval.cpp:208`);
  plain HTTP requests, static files and rate limits; the order of sorted answers; columns of tokens; a nested `mini_ir_run`. `PROJECT.json` says for each component what its module leaves out.

## 6. Plan

1. `ScriptMutex` over `AsyncPool`: a lock held across an await that helps. Two tasks, one mutex.
2. `Imports`: files in several directories that reach one another by `..`, the order of the search path, and `load_elan`, which loads and reloads modules while a program runs.
3. The WebSocket client's reference counts, and plain requests with their rate limit in `WebServer`.
