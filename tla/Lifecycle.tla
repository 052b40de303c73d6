----------------------------- MODULE Lifecycle ------------------------------
(* One Runtime: Runtime::run with its hooks and guards, actions that another
   thread enters through run_single_action, the environments their calls build,
   what becomes of program globals in them, and the thread-local flag that
   decides whether a call of an async action yields a future. *)
EXTENDS Naturals, Sequences, SequencesExt

CONSTANTS LifGlobals, \* names declared global in the program
          LifSeeded,  \* those whose declaration gives them a value
          LifWorkers, \* threads that enter run_single_action
          LifWrites,  \* bound: assignments to globals
          LifDepth,   \* bound: frames on a thread, and the async depth that throws leave behind
          LifRuns     \* bound: calls of Runtime::run

ASSUME LifAssumption ==
  /\ "main" \notin LifWorkers /\ LifSeeded \subseteq LifGlobals
  /\ LifWrites \in Nat /\ LifDepth \in Nat \ {0} /\ LifRuns \in Nat \ {0}

VARIABLES lifPhase,   \* how far run() is
          lifStack,   \* thread -> frames, the running one last
          lifFlag,    \* thread -> tls_in_async_action
          lifNest,    \* thread -> tls_asyncDepth
          lifGlobals, \* globalVars_
          lifProgram, \* currentProgram_ is set
          lifIndexed, \* the action index is filled
          lifRuns,    \* runs begun
          lifLast,    \* history: the value last assigned to each global
          lifWrites,  \* history: assignments so far, their values are numbered
          lifThrown,  \* history: a throw has gone through a frame
          lifContested \* history: globals last assigned while another frame held a copy to put back

lifVars == <<lifPhase, lifStack, lifFlag, lifNest, lifGlobals, lifProgram, lifIndexed,
             lifRuns, lifLast, lifWrites, lifThrown, lifContested>>
lifHistory == <<lifLast, lifWrites, lifContested>>

LifThreads == LifWorkers \cup {"main"}
NoCopy == LifWrites + 1
NoCopies == [g \in LifGlobals |-> NoCopy]
NotEntered(t) == lifStack[t] = <<>>
Top(t) == Last(lifStack[t])

(* async: the action of the frame is an async action.  back: the frame puts
   its copies of the globals back when it returns. *)
CallFrame(t, async, copy, back) == [async |-> async, copy |-> copy, back |-> back, prev |-> lifFlag[t]]
Push(t, frame) == lifStack' = [lifStack EXCEPT ![t] = Append(@, frame)]

-----------------------------------------------------------------------------
(* Globals: env_set writes the environment's own copy if there is one, and the
   shared store. *)

Stored(g, v) == [lifGlobals EXCEPT ![g] = v]

\* The frame's copy stays as it was.
RememberedNot(t, g, v) == lifStack
Remembered(t, g, v) ==
  IF Top(t).copy[g] = NoCopy THEN lifStack
  ELSE [lifStack EXCEPT ![t][Len(lifStack[t])].copy[g] = v]

HeldElsewhere(t, g) ==
  \E u \in LifThreads : \E k \in DOMAIN lifStack[u] :
    /\ u # t \/ k # Len(lifStack[t])
    /\ lifStack[u][k].back /\ lifStack[u][k].copy[g] # NoCopy

WriteGlobal(t, g) ==
  /\ ~NotEntered(t) /\ lifWrites < LifWrites
  /\ lifWrites' = lifWrites + 1
  /\ lifLast' = [lifLast EXCEPT ![g] = lifWrites + 1]
  /\ lifGlobals' = Stored(g, lifWrites + 1)
  /\ lifStack' = Remembered(t, g, lifWrites + 1)
  /\ lifContested' = IF HeldElsewhere(t, g) THEN lifContested \cup {g} ELSE lifContested \ {g}
  /\ UNCHANGED <<lifPhase, lifFlag, lifNest, lifProgram, lifIndexed, lifRuns, lifThrown>>

WriteBack(frame) ==
  IF frame.back THEN [g \in LifGlobals |-> IF frame.copy[g] = NoCopy THEN lifGlobals[g] ELSE frame.copy[g]]
  ELSE lifGlobals

-----------------------------------------------------------------------------
(* Calls.  A normal action clears the flag for its duration, an async one that
   is run in place sets it; both put the old value back when they return, and
   neither does when they throw. *)

Calls(t) == ~NotEntered(t) /\ Len(lifStack[t]) < LifDepth /\ lifProgram
CallFlag(t, async) == [lifFlag EXCEPT ![t] = async]

Call(t, async) ==
  /\ Calls(t)
  /\ async => ~lifFlag[t] /\ lifNest[t] < LifDepth   \* with the flag set the call goes to the pool
  /\ Push(t, CallFrame(t, async, NoCopies, FALSE))
  /\ lifFlag' = CallFlag(t, async)
  /\ lifNest' = [lifNest EXCEPT ![t] = IF async THEN @ + 1 ELSE @]
  /\ UNCHANGED <<lifPhase, lifGlobals, lifProgram, lifIndexed, lifRuns, lifThrown, lifHistory>>

(* call_action_by_name and the actions of plugin hooks: an environment that
   starts as a copy of all globals; the flag stays as it is. *)
CallByName(t) ==
  /\ Calls(t)
  /\ Push(t, CallFrame(t, lifFlag[t], lifGlobals, TRUE))
  /\ UNCHANGED <<lifPhase, lifFlag, lifNest, lifGlobals, lifProgram, lifIndexed, lifRuns, lifThrown,
                 lifHistory>>

Return(t) ==
  /\ Len(lifStack[t]) > 1
  /\ lifStack' = [lifStack EXCEPT ![t] = Front(@)]
  /\ lifFlag' = [lifFlag EXCEPT ![t] = IF Top(t).back THEN @ ELSE Top(t).prev]
  /\ lifNest' = [lifNest EXCEPT ![t] = IF Top(t).async /\ ~Top(t).back THEN @ - 1 ELSE @]
  /\ lifGlobals' = WriteBack(Top(t))
  /\ UNCHANGED <<lifPhase, lifProgram, lifIndexed, lifRuns, lifThrown, lifHistory>>

(* A throw that a try statement of the frame n catches. *)
Throw(t, n) ==
  /\ n \in 1..Len(lifStack[t]) - 1
  /\ lifStack' = [lifStack EXCEPT ![t] = SubSeq(@, 1, n)]
  /\ lifThrown' = TRUE
  /\ UNCHANGED <<lifPhase, lifFlag, lifNest, lifGlobals, lifProgram, lifIndexed, lifRuns, lifHistory>>

-----------------------------------------------------------------------------
(* Runtime::run. *)

AsyncRootLeaveCounting(nest, flag, active) ==
  [nest |-> IF active /\ nest > 0 THEN nest - 1 ELSE nest, flag |-> flag]
AsyncRootLeave(nest, flag, active) ==
  LET n == IF active /\ nest > 0 THEN nest - 1 ELSE nest IN
  [nest |-> n, flag |-> IF active /\ n = 0 THEN FALSE ELSE flag]

\* The initialisers of globals, in every run.
Seeded(values) == [g \in LifGlobals |-> IF g \in LifSeeded THEN 0 ELSE values[g]]

(* Globals, directives and aliases go into the root environment, then the
   load hooks of the plugins and onStart run in it. *)
RunBegin ==
  /\ lifPhase = "out" /\ lifRuns < LifRuns
  /\ lifPhase' = "start" /\ lifRuns' = lifRuns + 1
  /\ lifProgram' = TRUE /\ lifIndexed' = TRUE
  /\ lifGlobals' = Seeded(lifGlobals) /\ lifLast' = Seeded(lifLast)
  /\ lifContested' = lifContested \ LifSeeded
  /\ Push("main", CallFrame("main", FALSE, Seeded(lifGlobals), FALSE))
  /\ UNCHANGED <<lifFlag, lifNest, lifWrites, lifThrown>>

RunBody(async) ==
  /\ lifPhase = "start" /\ Len(lifStack["main"]) = 1
  /\ async => lifNest["main"] < LifDepth
  /\ lifPhase' = "body"
  /\ lifStack' = [lifStack EXCEPT !["main"][1].async = async]
  /\ lifFlag' = [lifFlag EXCEPT !["main"] = async \/ @]
  /\ lifNest' = [lifNest EXCEPT !["main"] = IF async THEN @ + 1 ELSE @]
  /\ UNCHANGED <<lifGlobals, lifProgram, lifIndexed, lifRuns, lifThrown, lifHistory>>

(* The guards of run() leave in the order AsyncRoot, DebugMain, Park, Index:
   every worker is joined before the index goes. *)
LeaveRun ==
  LET root == lifStack["main"][1]
      left == AsyncRootLeave(lifNest["main"], lifFlag["main"], lifPhase = "body" /\ root.async)
  IN  /\ \A w \in LifWorkers : NotEntered(w)
      /\ lifPhase' = "out" /\ lifIndexed' = FALSE
      /\ lifStack' = [lifStack EXCEPT !["main"] = <<>>]
      /\ lifFlag' = [lifFlag EXCEPT !["main"] = left.flag]
      /\ lifNest' = [lifNest EXCEPT !["main"] = left.nest]
      /\ UNCHANGED <<lifGlobals, lifRuns, lifHistory>>

(* The hooks of the end have run in the root environment. *)
RunReturn ==
  /\ lifPhase = "body" /\ Len(lifStack["main"]) = 1
  /\ LeaveRun /\ lifProgram' = FALSE /\ UNCHANGED lifThrown

RunThrow ==
  /\ lifPhase # "out"
  /\ LeaveRun /\ lifThrown' = TRUE /\ UNCHANGED lifProgram

-----------------------------------------------------------------------------
(* run_single_action on another thread: the same Runtime, an index of its own
   making, a copy of the globals, and at the end the copies, the program and
   the index of everybody. *)

WorkerEnter(w) ==
  /\ NotEntered(w) /\ ~NotEntered("main") /\ lifProgram
  /\ Push(w, CallFrame(w, FALSE, lifGlobals, TRUE))
  /\ lifIndexed' = TRUE
  /\ UNCHANGED <<lifPhase, lifFlag, lifNest, lifGlobals, lifProgram, lifRuns, lifThrown, lifHistory>>

WorkerReturn(w) ==
  /\ Len(lifStack[w]) = 1
  /\ lifStack' = [lifStack EXCEPT ![w] = <<>>]
  /\ lifGlobals' = WriteBack(Top(w))
  /\ lifProgram' = FALSE /\ lifIndexed' = FALSE
  /\ UNCHANGED <<lifPhase, lifFlag, lifNest, lifRuns, lifThrown, lifHistory>>

WorkerThrow(w) ==
  /\ ~NotEntered(w)
  /\ lifStack' = [lifStack EXCEPT ![w] = <<>>]
  /\ lifIndexed' = FALSE /\ lifThrown' = TRUE
  /\ UNCHANGED <<lifPhase, lifFlag, lifNest, lifGlobals, lifProgram, lifRuns, lifHistory>>

LifInit ==
  /\ lifPhase = "out" /\ lifRuns = 0 /\ lifProgram = FALSE /\ lifIndexed = FALSE
  /\ lifStack = [t \in LifThreads |-> <<>>]
  /\ lifFlag = [t \in LifThreads |-> FALSE] /\ lifNest = [t \in LifThreads |-> 0]
  /\ lifGlobals = [g \in LifGlobals |-> 0] /\ lifLast = lifGlobals
  /\ lifWrites = 0 /\ lifThrown = FALSE /\ lifContested = {}

LifNext ==
  \/ RunBegin \/ RunReturn \/ RunThrow
  \/ \E async \in BOOLEAN : RunBody(async)
  \/ \E t \in LifThreads :
       \/ CallByName(t) \/ Return(t)
       \/ \E async \in BOOLEAN : Call(t, async)
       \/ \E n \in 1..LifDepth : Throw(t, n)
       \/ \E g \in LifGlobals : WriteGlobal(t, g)
  \/ \E w \in LifWorkers : WorkerEnter(w) \/ WorkerReturn(w) \/ WorkerThrow(w)

LifSpec == LifInit /\ [][LifNext]_lifVars

-----------------------------------------------------------------------------
LifTypeOK ==
  /\ lifPhase \in {"out", "start", "body"}
  /\ \A t \in LifThreads : Len(lifStack[t]) <= LifDepth /\ lifFlag[t] \in BOOLEAN
  /\ \A g \in LifGlobals : lifGlobals[g] \in 0..LifWrites

(* Frames that put back their copies of all globals, whatever their order, their
   number and the thread they are on, undo no assignment but one that was made
   while another frame than the assigning one held its copy. *)
GlobalsStand == \A g \in LifGlobals \ lifContested : lifGlobals[g] = lifLast[g]

(* Whichever way run() is left, no thread is left inside and nothing keeps
   pointers to the program in the index; an orderly end forgets the program
   and leaves the thread as it found it, if no throw went through a frame. *)
RunLeavesNothing ==
  lifPhase = "out" =>
    /\ ~lifIndexed /\ \A t \in LifThreads : NotEntered(t)
    /\ lifThrown \/ (~lifProgram /\ \A t \in LifThreads : ~lifFlag[t] /\ lifNest[t] = 0)
=============================================================================
