------------------------ MODULE ThreadManagerProofs ------------------------
(***************************************************************************)
(* Theorems about ThreadManager for any number of threads and any cap:     *)
(* types and the owners of native handles for any choice of builtins; and  *)
(* for the choices each theorem names, that park_all leaves no worker      *)
(* alive, that scripts are told the truth, and that nothing undefined      *)
(* happens before run() leaves.                                            *)
(***************************************************************************)
EXTENDS ThreadManager, FiniteSetTheorems, WellFoundedInduction, TLAPS

\* The next-state relation, one disjunct per action.
LEMMA NextCases ==
  ASSUME Next
  PROVE  \/ \E c \in Callers, d \in BOOLEAN : Create(c, d)
         \/ \E c \in Callers : WaitAll(c) \/ Gc(c) \/ GcAll(c) \/ WaitAllSelf(c) \/ WaitAllDone(c)
         \/ \E c \in Callers, i \in Ids :
               \/ JoinMark(c, i) \/ JoinFinished(c, i) \/ TimedLook(c, i)
               \/ Done(c, i) \/ Remove(c, i) \/ RemoveForce(c, i)
         \/ \E c \in Callers, i \in Ids :
               \/ Register(c, i) \/ JoinLook(c, i) \/ JoinWait(c, i) \/ JoinNative(c, i)
               \/ JoinFinal(c, i) \/ TimedMark(c, i) \/ TimedWait(c, i) \/ TimedRevert(c, i)
               \/ TimedOut(c, i)
         \/ \E i \in Ids : WorkerStart(i) \/ WorkerLoad(i) \/ WorkerStore(i) \/ WorkerSignal(i)
         \/ Leave \/ ParkTake \/ ParkJoin \/ ParkCheck
         \/ UNCHANGED vars
BY DEF Next, Choose, Proceed, Work, Park

\* A call under way is about a thread that was created.
Known == \A c \in Callers : call[c].id <= created

LEMMA NatIds ==
  /\ MaxThreads \in Nat /\ Ids \subseteq Nat \ {0} /\ Main \in Callers
  /\ Ids \subseteq Callers /\ Callers \subseteq 0 .. MaxThreads
  /\ Script \in [at : Places, id : 0 .. MaxThreads]
BY ThreadAssumption DEF Ids, Callers, Main, Script, Places

-----------------------------------------------------------------------------
LEMMA InitTypes == Init => TypeOK /\ Known
<1> SUFFICES ASSUME Init PROVE TypeOK /\ Known
  OBVIOUS
<1>1. call \in [Callers -> [at : Places, id : 0 .. MaxThreads]] /\ Known
  BY NatIds DEF Init, Known, Script
<1>2. created \in 0 .. MaxThreads /\ 1 .. created = {} /\ held \in [Callers -> SUBSET Ids]
  BY NatIds DEF Init
<1> QED
  BY <1>1, <1>2 DEF Init, TypeOK, States

\* What types say about the numbers of threads.
LEMMA Numbers ==
  ASSUME TypeOK
  PROVE  /\ created \in Nat /\ created <= MaxThreads
         /\ 1 .. created \subseteq Ids /\ 0 .. created \subseteq 0 .. MaxThreads
         /\ table \subseteq Ids
<1>0. created \in 0 .. MaxThreads /\ table \subseteq 1 .. created
  BY DEF TypeOK
<1>1. created \in Nat /\ created <= MaxThreads /\ table \subseteq 1 .. created
  BY <1>0, ThreadAssumption
<1>2. \A i \in 0 .. created : i \in 0 .. MaxThreads
  BY <1>1, NatIds
<1>3. \A i \in 1 .. created : i \in Ids
  BY <1>1, NatIds DEF Ids
<1> QED
  BY <1>1, <1>2, <1>3

\* A caller moves on to another place in the code of builtins.
Calling == call' \in [Callers -> [at : Places, id : 0 .. MaxThreads]] /\ Known'

LEMMA MoveTypes ==
  ASSUME TypeOK, Known, UNCHANGED created, NEW c \in Callers,
         NEW r \in [at : Places, id : 0 .. MaxThreads], r.id <= created,
         call' = [call EXCEPT ![c] = r]
  PROVE  Calling
BY DEF TypeOK, Known, Calling

LEMMA GotoTypes ==
  ASSUME TypeOK, Known, UNCHANGED created, NEW c \in Callers, NEW p \in Places,
         NEW i \in 0 .. created, Goto(c, p, i)
  PROVE  Calling
<1>1. i \in 0 .. MaxThreads /\ i <= created
  BY Numbers
<1>2. [at |-> p, id |-> i] \in [at : Places, id : 0 .. MaxThreads]
  BY <1>1
<1> QED
  BY <1>1, <1>2, MoveTypes DEF Goto

LEMMA ReturnTypes ==
  ASSUME TypeOK, Known, UNCHANGED created, NEW c \in Callers, Return(c)
  PROVE  Calling
<1>1. Script.id <= created
  BY Numbers DEF Script
<1> QED
  BY <1>1, NatIds, MoveTypes DEF Return

LEMMA StayTypes ==
  ASSUME TypeOK, Known, UNCHANGED <<created, call>>
  PROVE  Calling
BY DEF TypeOK, Known, Calling

LEMMA InTypes ==
  ASSUME TypeOK, Known, NEW c \in Callers, NEW i \in Ids, NEW p, In(c, p, i)
  PROVE  i \in 1 .. created /\ i \in 0 .. created
<1>1. i <= created /\ i \in Nat /\ i # 0
  BY NatIds DEF In, Known
<1> QED
  BY <1>1, Numbers

LEMMA TableTypes == TypeOK => table \subseteq 0 .. created
<1> SUFFICES ASSUME TypeOK, NEW i \in table PROVE i \in 0 .. created
  OBVIOUS
<1>1. created \in Nat /\ i \in 1 .. created
  BY Numbers DEF TypeOK
<1> QED
  BY <1>1

\* What caller c's locals and the records' handles may hold.
Handles == {"none", "record", "parked", "local"}
Owning == held' \in [Callers -> SUBSET Ids] /\ handle' \in [Ids -> Handles]

LEMMA TakeHandleTypes ==
  ASSUME TypeOK, NEW c \in Callers, NEW i \in Ids, TakeHandle(c, i)
  PROVE  Owning
<1>1. CASE UNCHANGED <<handle, held>>
  BY <1>1 DEF TypeOK, Owning, Handles
<1>2. CASE handle' = [handle EXCEPT ![i] = "local"] /\ held' = [held EXCEPT ![c] = @ \cup {i}]
  BY <1>2 DEF TypeOK, Owning, Handles
<1> QED
  BY <1>1, <1>2 DEF TakeHandle

LEMMA DropTypes ==
  ASSUME TypeOK, NEW c \in Callers, NEW S \in SUBSET Ids,
         held' = [held EXCEPT ![c] = S]
  PROVE  held' \in [Callers -> SUBSET Ids]
BY DEF TypeOK

LEMMA StateTypes ==
  ASSUME TypeOK, NEW i \in Ids, NEW s \in States, state' = [state EXCEPT ![i] = s]
  PROVE  state' \in [Ids -> States]
BY DEF TypeOK

Undefined == ub' \subseteq {"use after free", "terminate"}

LEMMA TouchTypes == ASSUME TypeOK, NEW i, Touch(i) PROVE Undefined
BY DEF TypeOK, Touch, Undefined

LEMMA RetireTypes ==
  ASSUME TypeOK, NEW ids \in SUBSET table, Retire(ids)
  PROVE  table' \subseteq 1 .. created /\ freed' \subseteq 1 .. created /\ handle' \in [Ids -> Handles]
BY DEF TypeOK, Retire, Handles

LEMMA NextTypes == TypeOK /\ Known /\ [Next]_vars => (TypeOK /\ Known)'
<1> SUFFICES ASSUME TypeOK, Known, [Next]_vars PROVE (TypeOK /\ Known)'
  OBVIOUS
<1>0. /\ Script \in [at : Places, id : 0 .. MaxThreads] /\ 0 \in 0 .. created
      /\ {"Running", "DetachedRunning", "Done", "Joining", "Joined"} \subseteq States
      /\ {"register", "join.look", "join.wait", "join.native", "join.final", "timed.mark",
          "timed.wait", "timed.revert", "timed.native", "timed.final", "wait_all",
          "park", "park.join", "park.check", "exited"} \subseteq Places
  BY NatIds, Numbers DEF Places, States
<1>1. ASSUME NEW c \in Callers, NEW d \in BOOLEAN, Create(c, d) PROVE (TypeOK /\ Known)'
  <2> DEFINE n == created + 1
  <2>1. n \in Ids /\ n \in 0 .. MaxThreads /\ created' = n
    <3>1. created \in Nat /\ created < MaxThreads /\ created' = n
      BY <1>1, Numbers DEF Create
    <3> QED
      BY <3>1, NatIds DEF Ids
  <2>2. 1 .. created \subseteq 1 .. n /\ n \in 1 .. n /\ \A k \in 0 .. MaxThreads : k <= created => k <= n
    BY Numbers
  <2>3. /\ call' \in [Callers -> [at : Places, id : 0 .. MaxThreads]]
        /\ \A e \in Callers : call'[e].id <= created'
    <3>1. PICK r \in [at : Places, id : 0 .. MaxThreads] :
            r.id = n /\ call' = [call EXCEPT ![c] = r]
      BY <1>0, <1>1, <2>1 DEF Create, Goto
    <3>2. \A e \in Callers : call'[e] = r \/ call'[e] = call[e]
      BY <3>1 DEF TypeOK
    <3>3. n <= n
      BY Numbers
    <3>4. \A e \in Callers : call[e].id <= n
      BY <2>2 DEF Known, TypeOK
    <3> QED
      BY <2>1, <3>1, <3>2, <3>3, <3>4 DEF TypeOK
  <2>4. state' \in [Ids -> States] /\ handle' \in [Ids -> Handles]
    BY <1>0, <1>1, <2>1 DEF Create, TypeOK, Handles
  <2>5. detached' \subseteq 1 .. n /\ table' \subseteq 1 .. n /\ freed' \subseteq 1 .. n
    BY <1>1, <2>2 DEF Create, TypeOK
  <2>6. exec' \in [Ids -> {"none", "start", "action", "loaded", "stored", "ended"}]
    BY <1>1, <2>1 DEF Create, TypeOK
  <2> HIDE DEF n
  <2> QED
    BY <1>1, <2>1, <2>3, <2>4, <2>5, <2>6 DEF Create, TypeOK, Known, Handles
<1>2. ASSUME NEW c \in Callers, WaitAll(c) PROVE (TypeOK /\ Known)'
  <2> DEFINE mine == {i \in table \ detached : handle[i] = "record"}
  <2>1. Calling
    BY <1>0, <1>2, GotoTypes DEF WaitAll
  <2>2. mine \subseteq Ids
    BY Numbers
  <2>3. held' \in [Callers -> SUBSET Ids]
    BY <1>2, <2>2, DropTypes DEF WaitAll
  <2>4. handle' \in [Ids -> Handles] /\ state' \in [Ids -> States]
    BY <1>0, <1>2 DEF WaitAll, TypeOK, Handles
  <2> QED
    BY <1>2, <2>1, <2>3, <2>4 DEF WaitAll, TypeOK, Calling, Handles, workers
<1>3. ASSUME NEW c \in Callers, Gc(c) \/ GcAll(c) PROVE (TypeOK /\ Known)'
  <2>1. PICK b \in Builtins, ids \in SUBSET table : Collect(c, b, ids)
    <3>1. CASE Gc(c)
      <4>1. {i \in table \cap detached : state[i] = "DetachedDone"} \in SUBSET table
        OBVIOUS
      <4> QED
        BY <3>1, <4>1 DEF Gc, Builtins
    <3>2. CASE GcAll(c)
      <4>1. {i \in table : state[i] \in {"DetachedDone", "Joined"}} \in SUBSET table
        OBVIOUS
      <4> QED
        BY <3>2, <4>1 DEF GcAll, Builtins
    <3> QED
      BY <1>3, <3>1, <3>2
  <2>2. table' \subseteq 1 .. created /\ freed' \subseteq 1 .. created /\ handle' \in [Ids -> Handles]
    BY <2>1, RetireTypes DEF Collect
  <2> QED
    BY <2>1, <2>2 DEF Collect, TypeOK, Known, Handles, workers, callers
<1>4. ASSUME NEW c \in Callers, WaitAllSelf(c) PROVE (TypeOK /\ Known)'
  BY <1>4 DEF WaitAllSelf, TypeOK, Known, records, workers, callers
<1>5. ASSUME NEW c \in Callers, WaitAllDone(c) PROVE (TypeOK /\ Known)'
  <2>1. Calling
    BY <1>5, ReturnTypes DEF WaitAllDone
  <2>2. held' \in [Callers -> SUBSET Ids]
    BY <1>5, DropTypes DEF WaitAllDone
  <2> QED
    BY <1>5, <2>1, <2>2 DEF WaitAllDone, TypeOK, Calling, records, workers
<1>6. ASSUME NEW c \in Callers, NEW i \in Ids, JoinMark(c, i) PROVE (TypeOK /\ Known)'
  <2>1. Calling
    BY <1>0, <1>6, TableTypes, GotoTypes DEF JoinMark
  <2>2. state' \in [Ids -> States]
    BY <1>0, <1>6, StateTypes DEF JoinMark
  <2> QED
    BY <1>6, <2>1, <2>2 DEF JoinMark, TypeOK, Calling, workers
<1>7. ASSUME NEW c \in Callers, NEW i \in Ids, JoinFinished(c, i) PROVE (TypeOK /\ Known)'
  <2>1. Calling
    BY <1>0, <1>7, TableTypes, GotoTypes DEF JoinFinished
  <2>2. Owning
    BY <1>7, TakeHandleTypes DEF JoinFinished
  <2> QED
    BY <1>7, <2>1, <2>2 DEF JoinFinished, TypeOK, Calling, Owning, Handles, workers
<1>8. ASSUME NEW c \in Callers, NEW i \in Ids, TimedLook(c, i) PROVE (TypeOK /\ Known)'
  <2>1. i \in 0 .. created /\ UNCHANGED <<created, table, freed, state, detached, workers, current, ub>>
    BY <1>8, TableTypes DEF TimedLook
  <2>2. \/ Goto(c, "timed.mark", i) /\ lock' = c /\ UNCHANGED <<handle, held, told>>
        \/ told' = told \cup {i} /\ UNCHANGED <<handle, callers>>
        \/ /\ TakeHandle(c, i) /\ UNCHANGED <<lock, told>>
           /\ Goto(c, "timed.native", i) \/ Goto(c, "timed.wait", i)
    BY <1>8 DEF TimedLook
  <2>3. Calling
    BY <1>0, <2>1, <2>2, GotoTypes, StayTypes DEF callers
  <2>4. Owning
    BY <2>2, TakeHandleTypes DEF Owning, TypeOK, Handles, callers
  <2>5. lock' \in Callers \cup {Free} /\ told' \subseteq Ids
    BY <2>2 DEF TypeOK, callers
  <2> QED
    BY <2>1, <2>3, <2>4, <2>5 DEF TypeOK, Calling, Owning, Handles, workers
<1>9. ASSUME NEW c \in Callers, NEW i \in Ids, Done(c, i) PROVE (TypeOK /\ Known)'
  BY <1>9 DEF Done, TypeOK, Known, records, workers, callers
<1>10. ASSUME NEW c \in Callers, NEW i \in Ids, Remove(c, i) PROVE (TypeOK /\ Known)'
  BY <1>10 DEF Remove, EraseAll, TypeOK, Known, workers, callers
<1>11. ASSUME NEW c \in Callers, NEW i \in Ids, RemoveForce(c, i) PROVE (TypeOK /\ Known)'
  <2>1. table' \subseteq 1 .. created /\ freed' \subseteq 1 .. created /\ handle' \in [Ids -> Handles]
    BY <1>11, RetireTypes DEF RemoveForce
  <2> QED
    BY <1>11, <2>1 DEF RemoveForce, TypeOK, Known, Handles, workers, callers
<1>12. ASSUME NEW c \in Callers, NEW i \in Ids, Register(c, i) PROVE (TypeOK /\ Known)'
  <2>1. Calling
    BY <1>12, ReturnTypes DEF Register
  <2>2. i \in 1 .. created
    BY <1>12, InTypes DEF Register
  <2> QED
    BY <1>12, <2>1, <2>2 DEF Register, Enroll, TypeOK, Calling, records, workers
<1>13. ASSUME NEW c \in Callers, NEW i \in Ids, JoinLook(c, i) PROVE (TypeOK /\ Known)'
  <2>1. i \in 0 .. created
    BY <1>13, InTypes DEF JoinLook
  <2>2. \/ TakeHandle(c, i) /\ Goto(c, "join.wait", i) /\ UNCHANGED told
        \/ Return(c) /\ told' = told \cup {i} /\ UNCHANGED <<handle, held>>
    BY <1>13 DEF JoinLook
  <2>3. Calling
    BY <1>0, <1>13, <2>1, <2>2, GotoTypes, ReturnTypes DEF JoinLook
  <2>4. Owning /\ told' \subseteq Ids
    BY <2>2, TakeHandleTypes DEF Owning, TypeOK, Handles
  <2> QED
    BY <1>13, <2>3, <2>4 DEF JoinLook, TypeOK, Calling, Owning, Handles, workers
<1>14. ASSUME NEW c \in Callers, NEW i \in Ids, JoinWait(c, i) PROVE (TypeOK /\ Known)'
  <2>1. Calling /\ Undefined
    BY <1>0, <1>14, InTypes, GotoTypes, TouchTypes DEF JoinWait
  <2> QED
    BY <1>14, <2>1 DEF JoinWait, TypeOK, Calling, Undefined, records, workers
<1>15. ASSUME NEW c \in Callers, NEW i \in Ids, JoinNative(c, i) PROVE (TypeOK /\ Known)'
  <2>1. Goto(c, "join.final", i) \/ Goto(c, "timed.final", i)
    BY <1>15 DEF JoinNative
  <2>2. i \in 0 .. created
    BY <1>15, InTypes DEF JoinNative
  <2>3. Calling
    BY <1>0, <1>15, <2>1, <2>2, GotoTypes DEF JoinNative
  <2>4. held' \in [Callers -> SUBSET Ids]
    BY <1>15, DropTypes DEF JoinNative
  <2> QED
    BY <1>15, <2>3, <2>4 DEF JoinNative, TypeOK, Calling, records, workers
<1>16. ASSUME NEW c \in Callers, NEW i \in Ids, JoinFinal(c, i) PROVE (TypeOK /\ Known)'
  <2>1. Calling /\ Undefined
    BY <1>16, ReturnTypes, TouchTypes DEF JoinFinal
  <2>2. state' \in [Ids -> States] /\ told' \subseteq Ids
    BY <1>0, <1>16, StateTypes DEF JoinFinal, TypeOK
  <2> QED
    BY <1>16, <2>1, <2>2 DEF JoinFinal, TypeOK, Calling, Undefined, workers
<1>17. ASSUME NEW c \in Callers, NEW i \in Ids, TimedMark(c, i) PROVE (TypeOK /\ Known)'
  <2>1. Calling
    BY <1>0, <1>17, InTypes, GotoTypes DEF TimedMark
  <2>2. state' \in [Ids -> States]
    BY <1>0, <1>17, StateTypes DEF TimedMark
  <2> QED
    BY <1>17, <2>1, <2>2 DEF TimedMark, TypeOK, Calling, workers
<1>18. ASSUME NEW c \in Callers, NEW i \in Ids, TimedWait(c, i) PROVE (TypeOK /\ Known)'
  <2>1. Calling /\ Undefined /\ Owning
    BY <1>0, <1>18, InTypes, GotoTypes, TouchTypes, TakeHandleTypes DEF TimedWait
  <2> QED
    BY <1>18, <2>1 DEF TimedWait, TypeOK, Calling, Undefined, Owning, Handles, workers
<1>19. ASSUME NEW c \in Callers, NEW i \in Ids, TimedOut(c, i) PROVE (TypeOK /\ Known)'
  <2>1. Calling /\ Undefined
    BY <1>0, <1>19, InTypes, GotoTypes, ReturnTypes, TouchTypes DEF TimedOut
  <2> QED
    BY <1>19, <2>1 DEF TimedOut, TypeOK, Calling, Undefined, records, workers
<1>20. ASSUME NEW c \in Callers, NEW i \in Ids, TimedRevert(c, i) PROVE (TypeOK /\ Known)'
  <2>1. Calling /\ Undefined
    BY <1>20, ReturnTypes, TouchTypes DEF TimedRevert
  <2>2. state' \in [Ids -> States]
    BY <1>0, <1>20, StateTypes DEF TimedRevert
  <2> QED
    BY <1>20, <2>1, <2>2 DEF TimedRevert, TypeOK, Calling, Undefined, workers
<1>21. ASSUME NEW i \in Ids, WorkerStart(i) \/ WorkerLoad(i) \/ WorkerSignal(i)
       PROVE  (TypeOK /\ Known)'
  <2>1. Undefined
    BY <1>21, TouchTypes DEF WorkerStart, WorkerLoad, WorkerSignal
  <2>2. /\ prev' \in [Ids -> States] /\ current' \in BOOLEAN
        /\ exec' \in [Ids -> {"none", "start", "action", "loaded", "stored", "ended"}]
    BY <1>21 DEF WorkerStart, WorkerLoad, WorkerSignal, TypeOK
  <2> QED
    BY <1>21, <2>1, <2>2 DEF WorkerStart, WorkerLoad, WorkerSignal, TypeOK, Known, Undefined, records, callers
<1>22. ASSUME NEW i \in Ids, WorkerStore(i) PROVE (TypeOK /\ Known)'
  <2>1. PICK s \in States : state' = [state EXCEPT ![i] = s]
    <3>1. EndState(prev[i]) \in States /\ state[i] \in States
      BY <1>0 DEF TypeOK, EndState, States
    <3> QED
      BY <1>22, <3>1 DEF WorkerStore
  <2>2. state' \in [Ids -> States] /\ Undefined
    BY <1>22, <2>1, StateTypes, TouchTypes DEF WorkerStore
  <2>3. exec' \in [Ids -> {"none", "start", "action", "loaded", "stored", "ended"}]
    BY <1>22 DEF WorkerStore, TypeOK
  <2> QED
    BY <1>22, <2>2, <2>3 DEF WorkerStore, TypeOK, Known, Undefined, callers
<1>23. CASE Leave
  <2>1. Calling
    BY <1>0, <1>23, NatIds, GotoTypes DEF Leave
  <2> QED
    BY <1>23, <2>1 DEF Leave, TypeOK, Calling, records, workers
<1>24. CASE ParkTake
  <2> DEFINE round == {i \in Ids : handle[i] = "parked" \/ (handle[i] = "record" /\ i \in table)}
  <2>1. Goto(Main, "park.check", 0) \/ Goto(Main, "park.join", 0)
    BY <1>24 DEF ParkTake
  <2>2. Calling
    BY <1>0, <1>24, <2>1, NatIds, GotoTypes DEF ParkTake
  <2>3. held' \in [Callers -> SUBSET Ids]
    BY <1>24, NatIds, DropTypes DEF ParkTake
  <2>4. /\ handle' \in [Ids -> Handles]
        /\ table' \subseteq 1 .. created /\ freed' \subseteq 1 .. created
    BY <1>24 DEF ParkTake, ClearTable, TypeOK, Handles
  <2> QED
    BY <1>24, <2>2, <2>3, <2>4 DEF ParkTake, TypeOK, Calling, Handles, workers
<1>25. CASE ParkJoin
  <2>1. Calling /\ held' \in [Callers -> SUBSET Ids]
    BY <1>0, <1>25, NatIds, GotoTypes, DropTypes DEF ParkJoin, AfterRound
  <2> QED
    BY <1>25, <2>1 DEF ParkJoin, TypeOK, Calling, records, workers
<1>26. CASE ParkCheck
  <2>1. Goto(Main, "exited", 0) \/ Goto(Main, "park", 0)
    BY <1>26 DEF ParkCheck
  <2>2. Calling
    BY <1>0, <1>26, <2>1, NatIds, GotoTypes DEF ParkCheck
  <2> QED
    BY <1>26, <2>2 DEF ParkCheck, TypeOK, Calling, records, workers
<1>27. CASE UNCHANGED vars
  BY <1>27 DEF vars, TypeOK, Known
<1> QED
  BY <1>1, <1>2, <1>3, <1>4, <1>5, <1>6, <1>7, <1>8, <1>9, <1>10, <1>11, <1>12, <1>13, <1>14,
     <1>15, <1>16, <1>17, <1>18, <1>19, <1>20, <1>21, <1>22, <1>23, <1>24, <1>25, <1>26, <1>27,
     NextCases

\* Every reachable state of the thread table and its callers is well typed.
THEOREM TypeCorrect == Spec => []TypeOK
BY InitTypes, NextTypes, PTL DEF Spec

-----------------------------------------------------------------------------
(***************************************************************************)
(* Ownership.  Locals hold handles only between the move out of the record *)
(* and the native join, and nobody's locals share a handle.                *)
(***************************************************************************)
OneHandle == {"join.wait", "join.native", "timed.native"}

Locals ==
  \A c \in Callers :
    /\ \A i \in held[c] : handle[i] = "local"
    /\ call[c].at \notin OneHandle \cup {"wait_all", "park.join"} => held[c] = {}
    /\ call[c].at \in OneHandle => held[c] \subseteq {call[c].id}

Disjoint == \A c, d \in Callers : \A i \in held[c] \cap held[d] : c = d

Fresh == \A i \in Ids : i > created => handle[i] = "none"

Owned(i) == \/ handle[i] = "record" /\ i \notin freed
            \/ handle[i] = "local" /\ \E c \in Callers : i \in held[c]
            \/ handle[i] = "parked"

AllOwned == NoTerminate => \A i \in 1 .. created : exec[i] # "ended" => Owned(i)

Ownership == Locals /\ Disjoint /\ Fresh /\ AllOwned

\* A caller without handles moves on.
LEMMA MoveLocals ==
  ASSUME TypeOK, Locals, NEW c \in Callers, held[c] = {}, UNCHANGED <<handle, held>>,
         NEW r, call' = [call EXCEPT ![c] = r]
  PROVE  Locals'
<1>1. \A d \in Callers : d # c => call'[d] = call[d]
  BY DEF TypeOK
<1> QED
  BY <1>1 DEF Locals, TypeOK

\* Nothing that ownership speaks of changes, except that workers go on.
LEMMA FrameOwned ==
  ASSUME TypeOK, Disjoint, Fresh, AllOwned, UNCHANGED <<created, freed, handle, held>>, ub \subseteq ub',
         \A i \in Ids : exec[i] = "ended" => exec'[i] = "ended"
  PROVE  Disjoint' /\ Fresh' /\ AllOwned'
<1>1. Disjoint' /\ Fresh'
  BY DEF Disjoint, Fresh
<1>2. \A i \in Ids : Owned(i)' = Owned(i)
  BY DEF Owned
<1>3. 1 .. created \subseteq Ids
  BY Numbers
<1> QED
  BY <1>1, <1>2, <1>3 DEF AllOwned, NoTerminate

\* A caller without handles takes the one of record i, if it is still there.
LEMMA TakeOwned ==
  ASSUME TypeOK, Ownership, NEW c \in Callers, NEW i \in Ids, TakeHandle(c, i), held[c] = {},
         NEW p \in OneHandle \cup {"timed.wait"}, call' = [call EXCEPT ![c] = [at |-> p, id |-> i]],
         p = "timed.wait" => handle[i] # "record",
         UNCHANGED <<created, freed, exec>>, ub \subseteq ub'
  PROVE  Ownership'
<1>1. \A d \in Callers : d # c => call'[d] = call[d] /\ held'[d] = held[d]
  BY DEF TypeOK, TakeHandle
<1>2. call'[c].at = p /\ call'[c].id = i
  BY DEF TypeOK
<1>3. CASE handle[i] # "record"
  <2>1. UNCHANGED <<handle, held>>
    BY <1>3 DEF TakeHandle
  <2>2. Locals'
    BY <2>1, MoveLocals DEF Ownership
  <2> QED
    BY <2>1, <2>2, FrameOwned DEF Ownership
<1>4. CASE handle[i] = "record"
  <2>1. handle' = [handle EXCEPT ![i] = "local"] /\ held'[c] = {i} /\ p \in OneHandle
    <3>1. /\ handle' = [handle EXCEPT ![i] = "local"]
          /\ held' = [held EXCEPT ![c] = @ \cup {i}] /\ p \in OneHandle
      BY <1>4 DEF TakeHandle
    <3>2. held'[c] = held[c] \cup {i}
      BY <3>1 DEF TypeOK
    <3> QED
      BY <3>1, <3>2
  <2>2. \A d \in Callers : i \notin held[d]
    BY <1>4 DEF Ownership, Locals
  <2>3. \A j \in Ids : j # i => handle'[j] = handle[j]
    BY <2>1 DEF TypeOK
  <2>4. handle'[i] = "local"
    BY <2>1 DEF TypeOK
  <2>5. Locals'
    <3> SUFFICES ASSUME NEW d \in Callers
                 PROVE  /\ \A j \in held'[d] : handle'[j] = "local"
                        /\ call'[d].at \notin OneHandle \cup {"wait_all", "park.join"} => held'[d] = {}
                        /\ call'[d].at \in OneHandle => held'[d] \subseteq {call'[d].id}
      BY DEF Locals
    <3>1. CASE d = c
      BY <1>2, <2>1, <2>4, <3>1
    <3>2. CASE d # c
      <4>1. \A j \in held[d] : j \in Ids
        BY DEF TypeOK
      <4> QED
        BY <1>1, <2>2, <2>3, <3>2, <4>1 DEF Ownership, Locals
    <3> QED
      BY <3>1, <3>2
  <2>6. Disjoint'
    BY <1>1, <2>1, <2>2 DEF Ownership, Disjoint
  <2>7. Fresh'
    <3>1. ~(i > created)
      BY <1>4 DEF Ownership, Fresh
    <3> QED
      BY <2>3, <3>1 DEF Ownership, Fresh
  <2>8. AllOwned'
    <3>1. \A j \in 1 .. created : Owned(j) => Owned(j)'
      <4> SUFFICES ASSUME NEW j \in Ids, Owned(j) PROVE Owned(j)'
        BY Numbers
      <4>1. CASE j = i
        BY <2>1, <2>4, <4>1 DEF Owned
      <4>2. CASE j # i
        <5>1. \A d \in Callers : j \in held[d] => j \in held'[d]
          BY <1>1
        <5> QED
          BY <2>3, <4>2, <5>1 DEF Owned
      <4> QED
        BY <4>1, <4>2
    <3> QED
      BY <3>1 DEF Ownership, AllOwned, NoTerminate
  <2> QED
    BY <2>5, <2>6, <2>7, <2>8 DEF Ownership
<1> QED
  BY <1>3, <1>4

\* A caller has joined what it held and moves on.
LEMMA DropOwned ==
  ASSUME TypeOK, Ownership, NEW c \in Callers, held' = [held EXCEPT ![c] = {}],
         \A i \in held[c] : exec[i] = "ended",
         NEW r, call' = [call EXCEPT ![c] = r],
         UNCHANGED <<created, freed, handle, exec, ub>>
  PROVE  Ownership'
<1>1. held'[c] = {} /\ \A d \in Callers : d # c => call'[d] = call[d] /\ held'[d] = held[d]
  BY DEF TypeOK
<1>2. Locals'
  BY <1>1 DEF Ownership, Locals
<1>3. Disjoint' /\ Fresh'
  BY <1>1 DEF Ownership, Disjoint, Fresh
<1>4. AllOwned'
  <2>1. \A i \in Ids : Owned(i) /\ exec[i] # "ended" => Owned(i)'
    BY <1>1 DEF Owned
  <2> QED
    BY <2>1, Numbers DEF Ownership, AllOwned, NoTerminate
<1> QED
  BY <1>2, <1>3, <1>4 DEF Ownership

\* Records are erased but their handles are parked.
LEMMA RetireOwned ==
  ASSUME TypeOK, Ownership, NEW ids \in SUBSET table, Retire(ids),
         UNCHANGED <<created, exec, call, held, ub>>
  PROVE  Ownership'
<1>1. /\ freed' = freed \cup ids /\ ids \subseteq 1 .. created
      /\ \A i \in Ids : handle'[i] = IF i \in ids /\ handle[i] = "record" THEN "parked" ELSE handle[i]
  BY DEF Retire, TypeOK
<1>2. Locals'
  BY <1>1 DEF Ownership, Locals, TypeOK
<1>3. Disjoint'
  BY DEF Ownership, Disjoint
<1>4. Fresh'
  BY <1>1 DEF Ownership, Fresh
<1>5. AllOwned'
  <2>1. \A i \in Ids : Owned(i) => Owned(i)'
    BY <1>1 DEF Owned
  <2> QED
    BY <2>1, Numbers DEF Ownership, AllOwned, NoTerminate
<1> QED
  BY <1>2, <1>3, <1>4, <1>5 DEF Ownership

\* Callers that are in script code, or at a place without handles.
LEMMA NoHandles ==
  ASSUME TypeOK, Ownership, NEW c \in Callers
  PROVE  /\ call[c] = Script => held[c] = {}
         /\ \A p, i : In(c, p, i) /\ p \notin OneHandle \cup {"wait_all", "park.join"} => held[c] = {}
         /\ \A p, i : In(c, p, i) /\ p \in OneHandle => held[c] \subseteq {i}
BY DEF Ownership, Locals, Script, In, OneHandle

LEMMA NextOwnership == TypeOK /\ Known /\ Ownership /\ [Next]_vars => Ownership'
<1> SUFFICES ASSUME TypeOK, Known, Ownership, [Next]_vars PROVE Ownership'
  OBVIOUS
<1>0. Locals /\ Disjoint /\ Fresh /\ AllOwned
  BY DEF Ownership
\* Steps that leave handles alone: their caller returns or moves on.
<1>a. ASSUME NEW c \in Callers, held[c] = {}, NEW r,
             call' = [call EXCEPT ![c] = r] \/ UNCHANGED call,
             UNCHANGED <<created, freed, handle, held, exec>>, ub \subseteq ub'
      PROVE  Ownership'
  <2>1. Disjoint' /\ Fresh' /\ AllOwned'
    BY <1>0, <1>a, FrameOwned
  <2>2. CASE UNCHANGED call
    BY <1>0, <1>a, <2>1, <2>2 DEF Ownership, Locals
  <2>3. CASE call' = [call EXCEPT ![c] = r]
    BY <1>0, <1>a, <2>1, <2>3, MoveLocals DEF Ownership
  <2> QED
    BY <1>a, <2>2, <2>3
<1>1. ASSUME NEW c \in Callers, NEW d \in BOOLEAN, Create(c, d) PROVE Ownership'
  <2>1. PICK n \in Ids : n = created + 1 /\ created' = n /\ created \in Nat
    <3>1. created \in Nat /\ created < MaxThreads /\ created' = created + 1
      BY <1>1, Numbers DEF Create
    <3> QED
      BY <3>1, NatIds DEF Ids
  <2>2. /\ handle' = [handle EXCEPT ![n] = "record"] /\ exec' = [exec EXCEPT ![n] = "start"]
        /\ call' = [call EXCEPT ![c] = [at |-> "register", id |-> n]]
        /\ UNCHANGED <<freed, held, ub>> /\ held[c] = {}
    BY <1>1, <2>1, NoHandles DEF Create, Calls, Goto
  <2>3. handle[n] = "none" /\ handle'[n] = "record" /\ \A i \in Ids : i # n => handle'[i] = handle[i]
    <3>1. n > created
      BY <2>1
    <3>2. handle[n] = "none"
      BY <1>0, <3>1 DEF Fresh
    <3> QED
      BY <2>2, <3>2 DEF TypeOK
  <2>4. \A e \in Callers : n \notin held[e] /\ held[e] \subseteq Ids
    BY <1>0, <2>3 DEF Locals, TypeOK
  <2>5. Locals'
    <3>1. call'[c].at = "register" /\ \A e \in Callers : e # c => call'[e] = call[e]
      BY <2>2 DEF TypeOK
    <3> QED
      BY <1>0, <2>2, <2>3, <2>4, <3>1 DEF Locals, OneHandle
  <2>6. Disjoint'
    BY <1>0, <2>2 DEF Disjoint
  <2>7. Fresh'
    BY <1>0, <2>1, <2>3, NatIds DEF Fresh
  <2>8. AllOwned'
    <3> SUFFICES ASSUME NoTerminate, NEW i \in 1 .. n, exec'[i] # "ended" PROVE Owned(i)'
      BY <2>1, <2>2 DEF AllOwned, NoTerminate
    <3>1. CASE i = n
      <4>1. n \notin freed
        <5>1. freed \subseteq 1 .. created
          BY DEF TypeOK
        <5>2. n \notin 1 .. created
          BY <2>1
        <5> QED
          BY <5>1, <5>2
      <4> QED
        BY <2>2, <2>3, <3>1, <4>1 DEF Owned
    <3>2. CASE i # n
      <4>1. i \in 1 .. created
        BY <2>1, <3>2
      <4>2. i \in Ids
        BY <4>1, Numbers
      <4>3. exec[i] # "ended"
        BY <2>2, <3>2, <4>2 DEF TypeOK
      <4> QED
        BY <1>0, <2>2, <2>3, <3>2, <4>1, <4>2, <4>3 DEF AllOwned, Owned
    <3> QED
      BY <3>1, <3>2
  <2> QED
    BY <2>5, <2>6, <2>7, <2>8 DEF Ownership
<1>2. ASSUME NEW c \in Callers, WaitAll(c) PROVE Ownership'
  <2>1. PICK mine \in SUBSET Ids :
          /\ mine = {i \in table \ detached : handle[i] = "record"}
          /\ handle' = [i \in Ids |-> IF i \in mine THEN "local" ELSE handle[i]]
          /\ held' = [held EXCEPT ![c] = mine]
          /\ call' = [call EXCEPT ![c] = [at |-> "wait_all", id |-> 0]]
          /\ UNCHANGED <<created, freed, exec, ub>>
    <3>1. {i \in table \ detached : handle[i] = "record"} \in SUBSET Ids
      BY Numbers
    <3> QED
      BY <1>2, <3>1 DEF WaitAll, Goto, workers
  <2>2. /\ held[c] = {} /\ held'[c] = mine /\ call'[c].at = "wait_all"
        /\ \A d \in Callers : d # c => held'[d] = held[d] /\ call'[d] = call[d]
    BY <1>2, <2>1, NoHandles DEF WaitAll, Calls, TypeOK
  <2>3. \A d \in Callers, i \in mine : i \notin held[d]
    BY <1>0, <2>1 DEF Locals
  <2>4. \A d \in Callers : held[d] \subseteq Ids
    BY DEF TypeOK
  <2>5. Locals'
    BY <1>0, <2>1, <2>2, <2>3, <2>4 DEF Locals, OneHandle
  <2>6. Disjoint'
    BY <1>0, <2>2, <2>3 DEF Disjoint
  <2>7. Fresh'
    BY <1>0, <2>1 DEF Fresh
  <2>8. AllOwned'
    <3>1. \A i \in Ids : Owned(i) => Owned(i)'
      <4> SUFFICES ASSUME NEW i \in Ids, Owned(i) PROVE Owned(i)'
        OBVIOUS
      <4>1. CASE i \in mine
        BY <2>1, <2>2, <4>1 DEF Owned
      <4>2. CASE i \notin mine
        BY <2>1, <2>2, <4>2 DEF Owned
      <4> QED
        BY <4>1, <4>2
    <3> QED
      BY <1>0, <2>1, <3>1, Numbers DEF AllOwned, NoTerminate
  <2> QED
    BY <2>5, <2>6, <2>7, <2>8 DEF Ownership
<1>3. ASSUME NEW c \in Callers, Gc(c) \/ GcAll(c) PROVE Ownership'
  <2>1. PICK ids \in SUBSET table : Retire(ids) /\ UNCHANGED <<created, exec, call, held, ub>>
    <3>1. /\ {i \in table \cap detached : state[i] = "DetachedDone"} \in SUBSET table
          /\ {i \in table : state[i] \in {"DetachedDone", "Joined"}} \in SUBSET table
      OBVIOUS
    <3> QED
      BY <1>3, <3>1 DEF Gc, GcAll, Collect, workers, callers
  <2> QED
    BY <2>1, RetireOwned
<1>4. ASSUME NEW c \in Callers, WaitAllSelf(c) PROVE Ownership'
  <2>1. Disjoint' /\ Fresh' /\ AllOwned'
    BY <1>0, <1>4, FrameOwned DEF WaitAllSelf, records, workers, callers
  <2> QED
    BY <1>0, <1>4, <2>1 DEF Ownership, Locals, WaitAllSelf, records, callers
<1>5. ASSUME NEW c \in Callers, WaitAllDone(c) PROVE Ownership'
  BY <1>5, DropOwned DEF WaitAllDone, JoinAll, Return, records, workers
<1>6. ASSUME NEW c \in Callers, NEW i \in Ids, JoinMark(c, i) PROVE Ownership'
  BY <1>a, <1>6, NoHandles DEF JoinMark, Calls, Goto, workers
<1>7. ASSUME NEW c \in Callers, NEW i \in Ids, JoinFinished(c, i) PROVE Ownership'
  <2>1. held[c] = {} /\ UNCHANGED <<created, freed, exec, ub>>
    BY <1>7, NoHandles DEF JoinFinished, Calls, workers
  <2>2. /\ TakeHandle(c, i) /\ "join.native" \in OneHandle
        /\ call' = [call EXCEPT ![c] = [at |-> "join.native", id |-> i]]
    BY <1>7 DEF JoinFinished, Goto, OneHandle
  <2> QED
    BY <2>1, <2>2, TakeOwned
<1>8. ASSUME NEW c \in Callers, NEW i \in Ids, TimedLook(c, i) PROVE Ownership'
  <2>1. held[c] = {} /\ UNCHANGED <<created, freed, exec, ub>>
    BY <1>8, NoHandles DEF TimedLook, Calls, workers
  <2>2. CASE state[i] # "Done"
    BY <1>a, <1>8, <2>1, <2>2 DEF TimedLook, Goto, callers
  <2>3. CASE state[i] = "Done" /\ handle[i] = "record"
    BY <1>8, <2>1, <2>3, TakeOwned DEF TimedLook, Goto, OneHandle
  <2>4. CASE state[i] = "Done" /\ handle[i] # "record"
    BY <1>8, <2>1, <2>4, TakeOwned DEF TimedLook, Goto, OneHandle
  <2> QED
    BY <2>2, <2>3, <2>4
<1>9. ASSUME NEW c \in Callers, NEW i \in Ids, Done(c, i) PROVE Ownership'
  <2>1. held[c] = {} /\ UNCHANGED <<created, freed, handle, held, call, exec, ub>>
    BY <1>9, NoHandles DEF Done, Calls, records, workers, callers
  <2> QED
    <3>1. Disjoint' /\ Fresh' /\ AllOwned'
      BY <1>0, <2>1, FrameOwned
    <3>2. Locals'
      BY <1>0, <2>1 DEF Locals
    <3> QED
      BY <3>1, <3>2 DEF Ownership
<1>10. ASSUME NEW c \in Callers, NEW i \in Ids, Remove(c, i) PROVE Ownership'
  <2>1. /\ freed' = freed \cup {i} /\ UNCHANGED <<created, handle, held, call, exec>>
        /\ ub' = ub \cup (IF handle[i] = "record" THEN {"terminate"} ELSE {})
    BY <1>10 DEF Remove, EraseAll, workers, callers
  <2>2. Locals' /\ Disjoint' /\ Fresh'
    BY <1>0, <2>1 DEF Locals, Disjoint, Fresh
  <2>3. NoTerminate' => NoTerminate /\ handle[i] # "record"
    BY <2>1 DEF NoTerminate
  <2>4. handle[i] # "record" => \A j \in Ids : Owned(j) => Owned(j)'
    BY <2>1 DEF Owned
  <2>5. AllOwned'
    BY <1>0, <2>1, <2>3, <2>4, Numbers DEF AllOwned
  <2> QED
    BY <2>2, <2>5 DEF Ownership
<1>11. ASSUME NEW c \in Callers, NEW i \in Ids, RemoveForce(c, i) PROVE Ownership'
  BY <1>11, RetireOwned DEF RemoveForce, workers, callers
<1>12. ASSUME NEW c \in Callers, NEW i \in Ids, Register(c, i) \/ JoinFinal(c, i) PROVE Ownership'
  BY <1>a, <1>12, NoHandles DEF Register, JoinFinal, Return, OneHandle, Touch, records, workers
<1>13. ASSUME NEW c \in Callers, NEW i \in Ids, JoinLook(c, i) PROVE Ownership'
  <2>1. held[c] = {} /\ UNCHANGED <<created, freed, exec, ub>>
    BY <1>13, NoHandles DEF JoinLook, OneHandle, workers
  <2>2. CASE state[i] = "Joining"
    BY <1>13, <2>1, <2>2, TakeOwned DEF JoinLook, Goto, OneHandle
  <2>3. CASE state[i] # "Joining"
    BY <1>a, <1>13, <2>1, <2>3 DEF JoinLook, Return
  <2> QED
    BY <2>2, <2>3
<1>14. ASSUME NEW c \in Callers, NEW i \in Ids, JoinWait(c, i) PROVE Ownership'
  <2>1. /\ call[c].at = "join.wait" /\ call[c].id = i /\ UNCHANGED <<handle, held>>
        /\ call' = [call EXCEPT ![c] = [at |-> "join.native", id |-> i]]
    BY <1>14 DEF JoinWait, In, Goto, records
  <2>2. call'[c].at = "join.native" /\ call'[c].id = i /\ \A d \in Callers : d # c => call'[d] = call[d]
    BY <2>1 DEF TypeOK
  <2>3. Locals'
    BY <1>0, <2>1, <2>2 DEF Locals, OneHandle
  <2>4. Disjoint' /\ Fresh' /\ AllOwned'
    BY <1>0, <1>14, FrameOwned DEF JoinWait, Touch, records, workers
  <2> QED
    BY <2>3, <2>4 DEF Ownership
<1>15. ASSUME NEW c \in Callers, NEW i \in Ids, JoinNative(c, i) PROVE Ownership'
  <2>1. held[c] \subseteq {i}
    BY <1>15, NoHandles DEF JoinNative, OneHandle
  <2> QED
    BY <1>15, <2>1, DropOwned DEF JoinNative, Goto, records, workers
<1>16. ASSUME NEW c \in Callers, NEW i \in Ids, TimedMark(c, i) \/ TimedOut(c, i) \/ TimedRevert(c, i)
       PROVE  Ownership'
  <2>1. held[c] = {} /\ UNCHANGED <<created, freed, handle, held, exec>> /\ ub \subseteq ub'
    BY <1>16, NoHandles DEF TimedMark, TimedOut, TimedRevert, OneHandle, Touch, records, workers
  <2>2. \E r : call' = [call EXCEPT ![c] = r]
    BY <1>16 DEF TimedMark, TimedOut, TimedRevert, Goto, Return
  <2> QED
    BY <1>a, <2>1, <2>2
<1>17. ASSUME NEW c \in Callers, NEW i \in Ids, TimedWait(c, i) PROVE Ownership'
  <2>1. held[c] = {} /\ UNCHANGED <<created, freed, exec>> /\ ub \subseteq ub'
    BY <1>17, NoHandles DEF TimedWait, OneHandle, Touch, workers
  <2> QED
    <3>1. /\ TakeHandle(c, i) /\ "timed.native" \in OneHandle
          /\ call' = [call EXCEPT ![c] = [at |-> "timed.native", id |-> i]]
      BY <1>17 DEF TimedWait, Goto, OneHandle
    <3> QED
      BY <2>1, <3>1, TakeOwned
<1>18. ASSUME NEW i \in Ids, WorkerStart(i) \/ WorkerLoad(i) \/ WorkerStore(i) \/ WorkerSignal(i)
       PROVE  Ownership'
  <2>1. UNCHANGED <<created, freed, handle, held, call>> /\ ub \subseteq ub'
    BY <1>18 DEF WorkerStart, WorkerLoad, WorkerStore, WorkerSignal, Touch, records, callers
  <2>2. \A j \in Ids : exec[j] = "ended" => exec'[j] = "ended"
    BY <1>18 DEF WorkerStart, WorkerLoad, WorkerStore, WorkerSignal, TypeOK
  <2>3. Disjoint' /\ Fresh' /\ AllOwned'
    BY <1>0, <2>1, <2>2, FrameOwned
  <2> QED
    BY <1>0, <2>1, <2>3 DEF Ownership, Locals
<1>19. CASE Leave
  <2>1. /\ Main \in Callers /\ held[Main] = {}
        /\ UNCHANGED <<created, freed, handle, held, exec, ub>>
    BY <1>19, NatIds, NoHandles DEF Leave, records, workers
  <2>2. call' = [call EXCEPT ![Main] = [at |-> "park", id |-> 0]]
    BY <1>19 DEF Leave, Goto
  <2> QED
    BY <1>a, <2>1, <2>2
<1>20. CASE ParkTake
  <2>1. PICK round \in SUBSET Ids :
          /\ round = {i \in Ids : handle[i] = "parked" \/ (handle[i] = "record" /\ i \in table)}
          /\ handle' = [i \in Ids |-> IF i \in round THEN "local" ELSE handle[i]]
          /\ held' = [held EXCEPT ![Main] = round]
          /\ freed' = freed \cup table /\ UNCHANGED <<created, exec, ub>>
          /\ call' = [call EXCEPT ![Main] = [at |-> IF round = {} THEN "park.check" ELSE "park.join",
                                             id |-> 0]]
    BY <1>20 DEF ParkTake, ClearTable, Goto, workers
  <2>2. /\ held[Main] = {} /\ held'[Main] = round
        /\ call'[Main].at = IF round = {} THEN "park.check" ELSE "park.join"
        /\ \A d \in Callers : d # Main => held'[d] = held[d] /\ call'[d] = call[d]
    <3>1. Main \in Callers /\ held[Main] = {}
      BY <1>20, NatIds, NoHandles DEF ParkTake, OneHandle
    <3>2. call'[Main] = [at |-> IF round = {} THEN "park.check" ELSE "park.join", id |-> 0]
      BY <2>1, <3>1 DEF TypeOK
    <3> QED
      BY <2>1, <3>1, <3>2 DEF TypeOK
  <2>3. \A d \in Callers, i \in round : i \notin held[d]
    BY <1>0, <2>1 DEF Locals
  <2>4. \A d \in Callers : held[d] \subseteq Ids
    BY DEF TypeOK
  <2>5. Locals'
    BY <1>0, <2>1, <2>2, <2>3, <2>4 DEF Locals, OneHandle
  <2>6. Disjoint'
    BY <1>0, <2>2, <2>3 DEF Disjoint
  <2>7. Fresh'
    BY <1>0, <2>1, Numbers DEF Fresh
  <2>8. AllOwned'
    <3>1. \A i \in Ids : Owned(i) => Owned(i)'
      <4> SUFFICES ASSUME NEW i \in Ids, Owned(i) PROVE Owned(i)'
        OBVIOUS
      <4>1. CASE i \in round
        BY <2>1, <2>2, <4>1, NatIds DEF Owned
      <4>2. CASE i \notin round
        BY <2>1, <2>2, <4>2 DEF Owned
      <4> QED
        BY <4>1, <4>2
    <3> QED
      BY <1>0, <2>1, <3>1, Numbers DEF AllOwned, NoTerminate
  <2> QED
    BY <2>5, <2>6, <2>7, <2>8 DEF Ownership
<1>21. CASE ParkJoin
  BY <1>21, NatIds, DropOwned DEF ParkJoin, Goto, records, workers
<1>22. CASE ParkCheck
  BY <1>a, <1>22, NatIds, NoHandles DEF ParkCheck, Goto, OneHandle, records, workers
<1>23. CASE UNCHANGED vars
  BY <1>0, <1>23, FrameOwned DEF vars, records, workers, callers, Ownership, Locals
<1> QED
  BY <1>1, <1>2, <1>3, <1>4, <1>5, <1>6, <1>7, <1>8, <1>9, <1>10, <1>11, <1>12, <1>13, <1>14,
     <1>15, <1>16, <1>17, <1>18, <1>19, <1>20, <1>21, <1>22, <1>23, NextCases

LEMMA InitOwnership == Init => Ownership
<1> SUFFICES ASSUME Init PROVE Ownership
  OBVIOUS
<1>1. 1 .. created = {} /\ created = 0
  BY DEF Init
<1>2. \A c \in Callers : call[c].at = "script" /\ held[c] = {}
  BY DEF Init, Script
<1> QED
  BY <1>1, <1>2, NatIds DEF Init, Ownership, Locals, Disjoint, Fresh, AllOwned, OneHandle

LEMMA Invariance == Spec => [](TypeOK /\ Known /\ Ownership)
BY InitOwnership, InitTypes, NextTypes, NextOwnership, PTL DEF Spec

\* Whatever builtins the main thread and the workers call, in whatever order:
\* until an ended record's handle is destroyed by remove, a thread that may
\* still run has its std::thread in its record, parked by retire_locked, or in
\* a local of exactly one caller of join, join_timeout, wait_all or park_all.
THEOREM NoHandleLost == Spec => []HandleOwned
<1>1. TypeOK /\ Ownership => HandleOwned
  <2> SUFFICES ASSUME TypeOK, Ownership, NoTerminate, NEW i \in 1 .. created, exec[i] # "ended"
               PROVE  CASE handle[i] = "record" -> i \notin freed
                        [] handle[i] = "local" -> Cardinality({c \in Callers : i \in held[c]}) = 1
                        [] OTHER -> handle[i] = "parked"
    BY DEF HandleOwned
  <2>1. Owned(i)
    BY DEF Ownership, AllOwned
  <2>2. ASSUME handle[i] = "local" PROVE Cardinality({c \in Callers : i \in held[c]}) = 1
    <3>1. PICK c \in Callers : i \in held[c]
      BY <2>1, <2>2 DEF Owned
    <3>2. {d \in Callers : i \in held[d]} = {c}
      BY <3>1 DEF Ownership, Disjoint
    <3> QED
      BY <3>2, FS_Singleton
  <2> QED
    BY <2>1, <2>2 DEF Owned
<1> QED
  BY <1>1, Invariance, PTL

-----------------------------------------------------------------------------
(***************************************************************************)
(* Which builtin a caller is in, and which records are in the table.       *)
(***************************************************************************)
Ops(c) == IF c = Main THEN MainOps ELSE WorkerOps

JoinPlaces == {"join.look", "join.wait", "join.native", "join.final"}
TimedPlaces == {"timed.mark", "timed.wait", "timed.revert", "timed.native", "timed.final"}

\* Caller c has a reason to be at place p.
Allowed(c, p) == /\ p \in JoinPlaces => "join" \in Ops(c)
                 /\ p \in TimedPlaces => "join_timeout" \in Ops(c)
                 /\ p = "wait_all" => "wait_all" \in Ops(c)
                 /\ p \in Parking => c = Main

Doing ==
  /\ \A c \in Callers : Allowed(c, call[c].at)
  /\ \A i \in Ids : /\ call[i] # Script => exec[i] = "action"
                    /\ exec[i] # "none" => i <= created

\* A created thread is in the table or erased, or the builtin that created it
\* is on its way to the table; that builtin's caller is older than the thread.
Registered ==
  /\ \A i \in 1 .. created :
        i \in table \cup freed \/ \E c \in Callers : In(c, "register", i) /\ c < i
  /\ \A c, d \in Callers : call[c].at = "register" =>
        /\ call[c].id \notin table \cup freed /\ call[c].id # 0
        /\ call[d] = call[c] => d = c
  /\ table \cap freed = {}

\* Main is no worker, and the places of the code are told apart.
LEMMA MainApart == Main \notin Ids /\ Script.at = "script" /\ Script.id = 0
BY NatIds DEF Main, Script

\* What the guard of a builtin that is called, or under way, says.
LEMMA CallGuards ==
  ASSUME TypeOK, Doing, NEW c \in Callers
  PROVE  /\ \A b : Calls(c, b) => /\ b \in Ops(c) /\ call[c] = Script
                                  /\ c \in Ids => exec[c] = "action"
         /\ \A p, i : In(c, p, i) => /\ call[c].at = p /\ call[c].id = i
                                     /\ Allowed(c, p)
                                     /\ p # "script" => (c \in Ids => exec[c] = "action")
BY MainApart DEF Calls, Ops, In, Doing, Script

\* Where a caller is after it moves.
LEMMA Moves ==
  ASSUME TypeOK, NEW c \in Callers
  PROVE  /\ \A p, i : Goto(c, p, i) => call'[c].at = p /\ call'[c].id = i
         /\ Return(c) => call'[c].at = "script" /\ call'[c] = Script
         /\ \A p, i : Goto(c, p, i) \/ Return(c) => \A d \in Callers : d # c => call'[d] = call[d]
<1>1. ASSUME NEW r, call' = [call EXCEPT ![c] = r]
      PROVE  call'[c] = r /\ \A d \in Callers : d # c => call'[d] = call[d]
  BY <1>1 DEF TypeOK
<1> QED
  BY <1>1, MainApart DEF Goto, Return

\* The builtins that move one caller and touch neither the table nor a thread.
CallerStep(c, i) ==
  \/ JoinMark(c, i) \/ JoinFinished(c, i) \/ TimedLook(c, i) \/ Done(c, i)
  \/ JoinLook(c, i) \/ JoinWait(c, i) \/ JoinNative(c, i) \/ JoinFinal(c, i)
  \/ TimedMark(c, i) \/ TimedWait(c, i) \/ TimedRevert(c, i) \/ TimedOut(c, i)

LEMMA CallerSteps ==
  ASSUME TypeOK, Known, Doing, NEW c \in Callers, NEW i \in Ids, CallerStep(c, i)
  PROVE  /\ UNCHANGED <<created, table, freed, detached, exec, prev>>
         /\ \A d \in Callers : d # c => call'[d] = call[d] /\ held'[d] = held[d]
         /\ call[c].at \notin Parking \cup {"register", "wait_all"}
         /\ call'[c].at \notin Parking \cup {"register", "wait_all"}
         /\ Allowed(c, call'[c].at)
         /\ c \in Ids => exec[c] = "action"
<1>1. UNCHANGED <<created, table, freed, detached, exec, prev>>
  BY DEF CallerStep, JoinMark, JoinFinished, TimedLook, Done, JoinLook, JoinWait, JoinNative,
         JoinFinal, TimedMark, TimedWait, TimedRevert, TimedOut, records, workers
<1>2. ASSUME NEW d \in Callers, d # c PROVE call'[d] = call[d]
  BY <1>2 DEF CallerStep, JoinMark, JoinFinished, TimedLook, Done, JoinLook, JoinWait, JoinNative,
         JoinFinal, TimedMark, TimedWait, TimedRevert, TimedOut, Goto, Return, callers, TypeOK
<1>3. ASSUME NEW d \in Callers, d # c PROVE held'[d] = held[d]
  BY <1>3 DEF CallerStep, JoinMark, JoinFinished, TimedLook, Done, JoinLook, JoinWait, JoinNative,
         JoinFinal, TimedMark, TimedWait, TimedRevert, TimedOut, TakeHandle, callers, TypeOK
<1>4. CASE JoinMark(c, i) \/ JoinFinished(c, i)
  <2>1. Calls(c, "join") /\ call'[c].at \in {"join.look", "join.native"}
    BY <1>4, Moves DEF JoinMark, JoinFinished
  <2> QED
    BY <1>1, <1>2, <1>3, <2>1, CallGuards, MainApart DEF Allowed, Parking, JoinPlaces, TimedPlaces
<1>5. CASE TimedLook(c, i)
  <2>1. Calls(c, "join_timeout")
    BY <1>5 DEF TimedLook
  <2>2. call'[c].at \in {"script", "timed.mark", "timed.native", "timed.wait"}
    BY <1>5, <2>1, Moves, CallGuards, MainApart DEF TimedLook, callers
  <2> QED
    BY <1>1, <1>2, <1>3, <2>1, <2>2, CallGuards, MainApart DEF Allowed, Parking, JoinPlaces, TimedPlaces
<1>6. CASE Done(c, i)
  <2>1. Calls(c, "done") /\ UNCHANGED call
    BY <1>6 DEF Done, callers
  <2> QED
    BY <1>1, <1>2, <1>3, <2>1, CallGuards, MainApart DEF Allowed, Parking, JoinPlaces, TimedPlaces
<1>7. CASE JoinLook(c, i) \/ JoinWait(c, i) \/ (JoinNative(c, i) /\ In(c, "join.native", i))
           \/ (JoinFinal(c, i) /\ In(c, "join.final", i))
  <2>1. PICK p \in JoinPlaces : In(c, p, i)
    BY <1>7 DEF JoinLook, JoinWait, JoinNative, JoinFinal, JoinPlaces
  <2>2. call'[c].at \in {"script", "join.wait", "join.native", "join.final"}
    BY <1>7, Moves DEF JoinLook, JoinWait, JoinNative, JoinFinal
  <2> QED
    BY <1>1, <1>2, <1>3, <2>1, <2>2, CallGuards DEF Allowed, Parking, JoinPlaces, TimedPlaces
<1>8. CASE \/ TimedMark(c, i) \/ TimedWait(c, i) \/ TimedRevert(c, i) \/ TimedOut(c, i)
           \/ (JoinNative(c, i) /\ In(c, "timed.native", i))
           \/ (JoinFinal(c, i) /\ In(c, "timed.final", i))
  <2>1. PICK p \in TimedPlaces : In(c, p, i)
    BY <1>8 DEF TimedMark, TimedWait, TimedRevert, TimedOut, JoinNative, JoinFinal, TimedPlaces
  <2>2. call'[c].at \in {"script", "timed.wait", "timed.revert", "timed.native", "timed.final"}
    BY <1>8, Moves DEF TimedMark, TimedWait, TimedRevert, TimedOut, JoinNative, JoinFinal, In
  <2> QED
    BY <1>1, <1>2, <1>3, <2>1, <2>2, CallGuards DEF Allowed, Parking, JoinPlaces, TimedPlaces
<1> QED
  BY <1>4, <1>5, <1>6, <1>7, <1>8 DEF CallerStep, JoinNative, JoinFinal

\* One caller moves and no thread is started.
LEMMA MoveDoing ==
  ASSUME TypeOK, Doing, NEW c \in Callers, Allowed(c, call'[c].at), c \in Ids => exec[c] = "action",
         \A d \in Callers : d # c => call'[d] = call[d], UNCHANGED <<created, exec>>
  PROVE  Doing'
<1>1. \A d \in Callers : Allowed(d, call'[d].at)
  BY DEF Doing
<1>2. \A i \in Ids : call'[i] # Script => exec[i] = "action"
  BY NatIds DEF Doing
<1> QED
  BY <1>1, <1>2 DEF Doing, Allowed, Ops

LEMMA NextDoing == TypeOK /\ Known /\ Doing /\ [Next]_vars => Doing'
<1> SUFFICES ASSUME TypeOK, Known, Doing, [Next]_vars PROVE Doing'
  OBVIOUS
<1>0. \A c \in Callers : Allowed(c, "script") /\ Allowed(c, "register")
  BY DEF Allowed, JoinPlaces, TimedPlaces, Parking
<1>1. ASSUME NEW c \in Callers, NEW d \in BOOLEAN, Create(c, d) PROVE Doing'
  <2>1. PICK n \in Ids : n = created + 1 /\ created' = n /\ created \in Nat
    <3>1. created \in Nat /\ created < MaxThreads /\ created' = created + 1
      BY <1>1, Numbers DEF Create
    <3> QED
      BY <3>1, NatIds DEF Ids
  <2>2. /\ exec' = [exec EXCEPT ![n] = "start"] /\ Goto(c, "register", n)
        /\ c \in Ids => exec[c] = "action"
    BY <1>1, <2>1, CallGuards DEF Create
  <2>3. exec[n] = "none"
    <3>1. ~(n <= created)
      BY <2>1
    <3> QED
      BY <3>1 DEF Doing
  <2>4. \A i \in Ids : i # n => exec'[i] = exec[i]
    BY <2>2 DEF TypeOK
  <2>5. exec'[n] = "start"
    BY <2>2 DEF TypeOK
  <2>6. \A e \in Callers : Allowed(e, call'[e].at)
    BY <1>0, <2>2, Moves DEF Doing
  <2>7. ASSUME NEW i \in Ids, call'[i] # Script PROVE exec'[i] = "action"
    BY <2>2, <2>3, <2>4, <2>7, Moves, NatIds DEF Doing
  <2>8. ASSUME NEW i \in Ids, exec'[i] # "none" PROVE i <= n
    <3>1. i = n \/ i <= created
      BY <2>4, <2>8 DEF Doing
    <3> QED
      BY <2>1, <3>1, NatIds
  <2> QED
    BY <2>1, <2>6, <2>7, <2>8 DEF Doing, Allowed, Ops
<1>2. ASSUME NEW c \in Callers, WaitAll(c) PROVE Doing'
  <2>1. /\ Goto(c, "wait_all", 0) /\ UNCHANGED <<created, exec>>
        /\ "wait_all" \in Ops(c) /\ (c \in Ids => exec[c] = "action")
    BY <1>2, CallGuards DEF WaitAll, workers
  <2>2. Allowed(c, "wait_all")
    BY <2>1 DEF Allowed, JoinPlaces, TimedPlaces, Parking
  <2> QED
    BY <2>1, <2>2, Moves, MoveDoing
<1>3. ASSUME NEW c \in Callers, Gc(c) \/ GcAll(c) \/ WaitAllSelf(c) PROVE Doing'
  BY <1>3 DEF Gc, GcAll, Collect, WaitAllSelf, workers, callers, Doing, Allowed, Ops
<1>4. ASSUME NEW c \in Callers, WaitAllDone(c) PROVE Doing'
  <2>1. Return(c) /\ UNCHANGED <<created, exec>> /\ (c \in Ids => exec[c] = "action")
    BY <1>4, CallGuards DEF WaitAllDone, workers
  <2> QED
    BY <1>0, <2>1, Moves, MoveDoing
<1>5. ASSUME NEW c \in Callers, NEW i \in Ids, CallerStep(c, i) PROVE Doing'
  BY <1>5, CallerSteps, MoveDoing
<1>6. ASSUME NEW c \in Callers, NEW i \in Ids, Remove(c, i) \/ RemoveForce(c, i) PROVE Doing'
  BY <1>6 DEF Remove, RemoveForce, workers, callers, Doing, Allowed, Ops
<1>7. ASSUME NEW c \in Callers, NEW i \in Ids, Register(c, i) PROVE Doing'
  <2>1. Return(c) /\ UNCHANGED <<created, exec>> /\ (c \in Ids => exec[c] = "action")
    BY <1>7, CallGuards DEF Register, workers
  <2> QED
    BY <1>0, <2>1, Moves, MoveDoing
<1>8. ASSUME NEW i \in Ids, WorkerStart(i) \/ WorkerLoad(i) \/ WorkerStore(i) \/ WorkerSignal(i)
      PROVE  Doing'
  <2>1. /\ UNCHANGED <<created, call>> /\ exec[i] # "none" /\ (exec[i] = "action" => call[i] = Script)
        /\ \A j \in Ids : j # i => exec'[j] = exec[j]
    BY <1>8 DEF WorkerStart, WorkerLoad, WorkerStore, WorkerSignal, callers, TypeOK
  <2>2. call[i] = Script \/ exec'[i] = "action"
    BY <2>1 DEF Doing
  <2> QED
    BY <2>1, <2>2 DEF Doing, Allowed, Ops
<1>9. CASE Leave \/ ParkTake \/ ParkJoin \/ ParkCheck
  <2>1. PICK p \in Parking : Goto(Main, p, 0) /\ UNCHANGED <<created, exec>>
    BY <1>9 DEF Leave, ParkTake, ParkJoin, ParkCheck, AfterRound, Parking, workers
  <2>2. Allowed(Main, p)
    BY <2>1 DEF Allowed, JoinPlaces, TimedPlaces, Parking
  <2> QED
    BY <2>1, <2>2, Moves, MoveDoing, NatIds, MainApart
<1>10. CASE UNCHANGED vars
  BY <1>10 DEF vars, workers, callers, Doing, Allowed, Ops
<1> QED
  BY <1>1, <1>2, <1>3, <1>4, <1>5, <1>6, <1>7, <1>8, <1>9, <1>10, NextCases DEF CallerStep

\* Callers that are registering a thread stay where they are.
LEMMA FrameRegistered ==
  ASSUME TypeOK, Registered, UNCHANGED created, NEW ids \in SUBSET table,
         table' = table \ ids, freed' = freed \cup ids,
         \A c \in Callers : call'[c] = call[c] \/ (call[c].at # "register" /\ call'[c].at # "register")
  PROVE  Registered'
<1>1. \A c \in Callers, i \in Ids : In(c, "register", i) => In(c, "register", i)'
  BY DEF In
<1>2. table' \cup freed' = table \cup freed /\ table' \cap freed' = {}
  BY DEF Registered
<1>3. \A c \in Callers : call'[c].at = "register" => call'[c] = call[c]
  OBVIOUS
<1> QED
  BY <1>1, <1>2, <1>3, Numbers DEF Registered

LEMMA NextRegistered == TypeOK /\ Known /\ Doing /\ Registered /\ [Next]_vars => Registered'
<1> SUFFICES ASSUME TypeOK, Known, Doing, Registered, [Next]_vars PROVE Registered'
  OBVIOUS
<1>0. {} \in SUBSET table /\ table \ {} = table /\ freed \cup {} = freed
  OBVIOUS
<1>1. ASSUME NEW c \in Callers, NEW d \in BOOLEAN, Create(c, d) PROVE Registered'
  <2>1. PICK n \in Ids : n = created + 1 /\ created' = n /\ created \in Nat
    <3>1. created \in Nat /\ created < MaxThreads /\ created' = created + 1
      BY <1>1, Numbers DEF Create
    <3> QED
      BY <3>1, NatIds DEF Ids
  <2>2. /\ Goto(c, "register", n) /\ UNCHANGED <<table, freed>> /\ call[c] = Script
        /\ c \in Ids => exec[c] = "action"
    BY <1>1, <2>1, CallGuards DEF Create
  <2>3. c < n
    <3>1. c = Main \/ c <= created
      BY <2>2 DEF Doing, Callers
    <3> QED
      BY <2>1, <3>1, NatIds DEF Main
  <2>4. n \notin table \cup freed /\ \A e \in Callers : call[e].id # n
    <3>1. \A k \in 1 .. created : k # n
      BY <2>1
    <3>2. ~(n <= created)
      BY <2>1
    <3> QED
      BY <3>1, <3>2 DEF TypeOK, Known
  <2>5. In(c, "register", n)' /\ \A e \in Callers : e # c => call'[e] = call[e]
    BY <2>2, Moves DEF Goto, In, TypeOK
  <2>6. \A i \in 1 .. n : i \in table \cup freed \/ \E e \in Callers : In(e, "register", i)' /\ e < i
    <3> SUFFICES ASSUME NEW i \in 1 .. n, i \notin table \cup freed
                 PROVE  \E e \in Callers : In(e, "register", i)' /\ e < i
      OBVIOUS
    <3>1. CASE i = n
      BY <2>3, <2>5, <3>1
    <3>2. CASE i # n
      <4>1. i \in 1 .. created
        BY <2>1, <3>2
      <4>2. PICK e \in Callers : In(e, "register", i) /\ e < i
        BY <4>1 DEF Registered
      <4>3. e # c
        BY <2>2, <4>2, MainApart DEF In
      <4> QED
        BY <2>5, <4>2, <4>3 DEF In
    <3> QED
      BY <3>1, <3>2
  <2>7. call'[c].at = "register" /\ call'[c].id = n
    BY <2>2, Moves
  <2>8. n # 0
    BY <2>1
  <2>9. \A e, f \in Callers : call'[e].at = "register" =>
           /\ call'[e].id \notin table \cup freed /\ call'[e].id # 0
           /\ call'[f] = call'[e] => f = e
    BY <2>4, <2>5, <2>7, <2>8 DEF Registered
  <2> QED
    BY <2>1, <2>2, <2>6, <2>9 DEF Registered, In
<1>2. ASSUME NEW c \in Callers, WaitAll(c) \/ WaitAllDone(c) \/ WaitAllSelf(c) PROVE Registered'
  <2>1. /\ UNCHANGED <<created, table, freed>> /\ call[c].at # "register"
        /\ call'[c].at # "register" /\ \A d \in Callers : d # c => call'[d] = call[d]
    BY <1>2, Moves, CallGuards, MainApart DEF WaitAll, WaitAllDone, WaitAllSelf, callers
  <2> QED
    BY <1>0, <2>1, FrameRegistered
<1>3. ASSUME NEW c \in Callers, Gc(c) \/ GcAll(c) PROVE Registered'
  <2>1. PICK ids \in SUBSET table : Retire(ids) /\ UNCHANGED <<created, call>>
    <3>1. /\ {i \in table \cap detached : state[i] = "DetachedDone"} \in SUBSET table
          /\ {i \in table : state[i] \in {"DetachedDone", "Joined"}} \in SUBSET table
      OBVIOUS
    <3> QED
      BY <1>3, <3>1 DEF Gc, GcAll, Collect, callers
  <2> QED
    BY <2>1, FrameRegistered DEF Retire
<1>4. ASSUME NEW c \in Callers, NEW i \in Ids, Remove(c, i) \/ RemoveForce(c, i) PROVE Registered'
  <2>1. {i} \in SUBSET table
    BY <1>4 DEF Remove, RemoveForce
  <2>2. table' = table \ {i} /\ freed' = freed \cup {i} /\ UNCHANGED <<created, call>>
    BY <1>4 DEF Remove, RemoveForce, EraseAll, Retire, callers
  <2> QED
    BY <2>1, <2>2, FrameRegistered
<1>5. ASSUME NEW c \in Callers, NEW i \in Ids, CallerStep(c, i) PROVE Registered'
  <2>1. /\ UNCHANGED <<created, table, freed>> /\ call[c].at # "register"
        /\ call'[c].at # "register" /\ \A d \in Callers : d # c => call'[d] = call[d]
    BY <1>5, CallerSteps
  <2> QED
    BY <1>0, <2>1, FrameRegistered
<1>6. ASSUME NEW c \in Callers, NEW i \in Ids, Register(c, i) PROVE Registered'
  <2>1. /\ In(c, "register", i) /\ table' = table \cup {i} /\ UNCHANGED <<created, freed>>
        /\ call'[c].at = "script" /\ \A d \in Callers : d # c => call'[d] = call[d]
    BY <1>6, Moves DEF Register, Enroll
  <2>2. call[c].at = "register" /\ call[c].id = i
    BY <2>1 DEF In
  <2>3. i \notin freed
    BY <2>2 DEF Registered
  <2>4. ASSUME NEW j \in 1 .. created, j \notin table' \cup freed
        PROVE  \E e \in Callers : In(e, "register", j)' /\ e < j
    <3>1. PICK e \in Callers : In(e, "register", j) /\ e < j
      BY <2>1, <2>4 DEF Registered
    <3>2. e # c
      BY <2>1, <2>2, <2>4, <3>1 DEF In
    <3> QED
      BY <2>1, <3>1, <3>2 DEF In
  <2>5. ASSUME NEW e \in Callers, call'[e].at = "register"
        PROVE  call'[e] = call[e] /\ call[e].id # i /\ call[e].at = "register"
    <3>1. e # c /\ call'[e] = call[e]
      BY <2>1, <2>5
    <3>2. call[e] = [at |-> "register", id |-> call[e].id]
      BY <2>5, <3>1 DEF TypeOK
    <3>3. call[c] = [at |-> "register", id |-> i]
      BY <2>1 DEF In
    <3> QED
      BY <2>2, <2>5, <3>1, <3>2, <3>3 DEF Registered
  <2>6. \A e, f \in Callers : call'[e].at = "register" /\ call'[f] = call'[e] => f = e
    BY <2>5 DEF Registered
  <2> QED
    BY <2>1, <2>3, <2>4, <2>5, <2>6 DEF Registered
<1>7. ASSUME NEW i \in Ids, WorkerStart(i) \/ WorkerLoad(i) \/ WorkerStore(i) \/ WorkerSignal(i)
      PROVE  Registered'
  BY <1>0, <1>7, FrameRegistered DEF WorkerStart, WorkerLoad, WorkerStore, WorkerSignal, callers
<1>8. CASE Leave \/ ParkTake \/ ParkJoin \/ ParkCheck
  <2>1. PICK ids \in SUBSET table : table' = table \ ids /\ freed' = freed \cup ids
    <3>1. table \in SUBSET table /\ table \ table = {}
      OBVIOUS
    <3> QED
      BY <1>0, <1>8, <3>1 DEF Leave, ParkTake, ParkJoin, ParkCheck, ClearTable
  <2>2. PICK p \in Parking : Goto(Main, p, 0) /\ UNCHANGED created
    BY <1>8 DEF Leave, ParkTake, ParkJoin, ParkCheck, AfterRound, Parking
  <2>3. call[Main].at # "register"
    <3>1. call[Main] = Script \/ \E q \in {"park", "park.join", "park.check"} : In(Main, q, 0)
      BY <1>8 DEF Leave, ParkTake, ParkJoin, ParkCheck
    <3> QED
      BY <3>1, CallGuards, NatIds, MainApart
  <2>4. call'[Main].at # "register" /\ \A d \in Callers : d # Main => call'[d] = call[d]
    BY <2>2, Moves, NatIds DEF Parking
  <2> QED
    BY <2>1, <2>2, <2>3, <2>4, FrameRegistered
<1>9. CASE UNCHANGED vars
  BY <1>0, <1>9, FrameRegistered DEF vars, callers
<1> QED
  BY <1>1, <1>2, <1>3, <1>4, <1>5, <1>6, <1>7, <1>8, <1>9, NextCases DEF CallerStep

\* The whole invariant so far.
Sound == TypeOK /\ Known /\ Ownership /\ Doing /\ Registered

LEMMA InitSound == Init => Doing /\ Registered
<1> SUFFICES ASSUME Init PROVE Doing /\ Registered
  OBVIOUS
<1>1. \A c \in Callers : call[c] = Script /\ Allowed(c, "script")
  BY DEF Init, Allowed, JoinPlaces, TimedPlaces, Parking
<1>2. 1 .. created = {} /\ \A i \in Ids : exec[i] = "none"
  BY DEF Init
<1> QED
  BY <1>1, <1>2, MainApart, NatIds DEF Init, Doing, Registered

LEMMA Soundness == Spec => []Sound
<1>1. Init => Sound
  BY InitSound, InitTypes, InitOwnership DEF Sound
<1>2. Sound /\ [Next]_vars => Sound'
  BY NextTypes, NextOwnership, NextDoing, NextRegistered DEF Sound
<1> QED
  BY <1>1, <1>2, PTL DEF Spec

-----------------------------------------------------------------------------
(***************************************************************************)
(* park_all.  The oldest thread that is alive is in the table or parked    *)
(* when a round is taken: whoever could be registering it is older still,  *)
(* and only a join of the builtins could have its handle in a local.       *)
(***************************************************************************)
Joiners == {"join", "join_timeout", "wait_all"}

Gone == \A i \in Ids : exec[i] \in {"none", "ended"}
Left == call[Main].at \in {"park.check", "exited"} => Gone

\* Every nonempty set of numbers has a least one.
LEMMA LeastNat ==
  ASSUME NEW S \in SUBSET Nat, S # {}
  PROVE  \E x \in S : \A y \in S : x <= y
<1>1. IsWellFoundedOn(OpToRel(<, Nat), Nat)
  BY NatLessThanWellFounded
<1>2. PICK x \in S : \A y \in S : ~ (<<y, x>> \in OpToRel(<, Nat))
  BY <1>1, WFMin
<1>3. \A y \in S : ~ (y < x)
  BY <1>2 DEF OpToRel
<1> QED
  BY <1>3

\* A round that finds nothing leaves no thread behind.
LEMMA EmptyRound ==
  ASSUME Sound, NoTerminate, WorkerOps \cap Joiners = {}, In(Main, "park", 0),
         \A i \in Ids : ~ (handle[i] = "parked" \/ (handle[i] = "record" /\ i \in table))
  PROVE  Gone
<1> DEFINE alive == {i \in Ids : exec[i] \notin {"none", "ended"}}
<1> SUFFICES ASSUME alive # {} PROVE FALSE
  BY DEF Gone
<1>0. TypeOK /\ Known /\ Ownership /\ Doing /\ Registered
  BY DEF Sound
<1>1. PICK i \in alive : \A j \in alive : i <= j
  <2>1. alive \in SUBSET Nat
    BY NatIds
  <2> QED
    BY <2>1, LeastNat
<1>2. i \in 1 .. created /\ i \in Ids /\ exec[i] # "ended"
  <2>1. i <= created /\ i \in Ids
    BY <1>0 DEF Doing
  <2> QED
    BY <1>0, <2>1, NatIds, Numbers
<1>3. call[Main].at = "park" /\ Main \in Callers
  BY NatIds DEF In
<1>4. i \in table \cup freed
  <2> SUFFICES ASSUME NEW c \in Callers, In(c, "register", i), c < i PROVE FALSE
    BY <1>0, <1>2 DEF Registered
  <2>1. c \in Ids /\ call[c] # Script
    BY <1>3, MainApart DEF In, Callers
  <2>2. c \in alive
    BY <1>0, <2>1 DEF Doing
  <2> QED
    BY <1>1, <1>2, <2>1, <2>2, NatIds
<1>5. Owned(i)
  BY <1>0, <1>2 DEF Ownership, AllOwned
<1>6. ASSUME NEW c \in Callers, i \in held[c] PROVE FALSE
  <2>1. call[c].at \in OneHandle \cup {"wait_all", "park.join"}
    BY <1>0, <1>6 DEF Ownership, Locals
  <2>2. c # Main
    BY <1>3, <2>1 DEF OneHandle
  <2>3. Allowed(c, call[c].at) /\ Ops(c) \cap Joiners = {}
    BY <1>0, <2>2 DEF Doing, Ops
  <2> QED
    BY <2>1, <2>2, <2>3 DEF Allowed, OneHandle, JoinPlaces, TimedPlaces, Parking, Joiners
<1> QED
  BY <1>2, <1>4, <1>5, <1>6 DEF Owned

LEMMA Guarded == Next => NoTerminate \/ UNCHANGED vars
BY DEF Next, NoTerminate

LEMMA NextLeft ==
  ASSUME WorkerOps \cap Joiners = {}
  PROVE  Sound /\ Left /\ [Next]_vars => Left'
<1> SUFFICES ASSUME Sound, Left, [Next]_vars, call'[Main].at \in {"park.check", "exited"}
             PROVE  Gone'
  BY DEF Left
<1>0. TypeOK /\ Known /\ Ownership /\ Doing /\ Registered /\ Main \in Callers
  BY NatIds DEF Sound
<1>1. CASE UNCHANGED vars
  BY <1>1 DEF vars, callers, workers, Left, Gone
\* Steps of the others find nobody alive.
<1>2. ASSUME call[Main].at \in {"park.check", "exited"}, Next PROVE Gone'
  <2>0. Gone
    BY <1>2 DEF Left
  <2>1. ASSUME NEW c \in Callers, (\E b : Calls(c, b)) \/ (\E p, i : In(c, p, i) /\ p \notin Parking \cup {"script"})
        PROVE  FALSE
    <3>1. c # Main
      BY <1>0, <1>2, <2>1, CallGuards, MainApart DEF Parking
    <3>2. c \in Ids /\ exec[c] = "action"
      BY <1>0, <2>1, <3>1, CallGuards DEF Callers, Parking
    <3> QED
      BY <2>0, <3>2 DEF Gone
  <2>2. CASE \E c \in Callers, i \in Ids : CallerStep(c, i)
    <3>1. PICK c \in Callers, i \in Ids : CallerStep(c, i)
      BY <2>2
    <3>2. (\E b : Calls(c, b)) \/ (\E p : In(c, p, i) /\ p \notin Parking \cup {"script"})
      BY <3>1 DEF CallerStep, JoinMark, JoinFinished, TimedLook, Done, JoinLook, JoinWait, JoinNative,
                  JoinFinal, TimedMark, TimedWait, TimedRevert, TimedOut, Parking
    <3> QED
      BY <2>1, <3>2
  <2>3. CASE \E c \in Callers, d \in BOOLEAN : Create(c, d)
    BY <2>1, <2>3 DEF Create
  <2>4. CASE \E c \in Callers : WaitAll(c) \/ Gc(c) \/ GcAll(c) \/ WaitAllSelf(c) \/ WaitAllDone(c)
    BY <2>1, <2>4 DEF WaitAll, Gc, GcAll, Collect, WaitAllSelf, WaitAllDone, Parking
  <2>5. CASE \E c \in Callers, i \in Ids : Remove(c, i) \/ RemoveForce(c, i) \/ Register(c, i)
    BY <2>1, <2>5 DEF Remove, RemoveForce, Register, Parking
  <2>6. CASE \E i \in Ids : WorkerStart(i) \/ WorkerLoad(i) \/ WorkerStore(i) \/ WorkerSignal(i)
    BY <2>0, <2>6 DEF Gone, WorkerStart, WorkerLoad, WorkerStore, WorkerSignal
  <2>7. CASE Leave \/ ParkTake \/ ParkJoin \/ ParkCheck
    BY <2>0, <2>7 DEF Leave, ParkTake, ParkJoin, ParkCheck, workers, Gone
  <2> QED
    BY <1>1, <1>2, <2>2, <2>3, <2>4, <2>5, <2>6, <2>7, NextCases DEF CallerStep
\* The main thread gets there when a round found nothing.
<1>3. ASSUME call[Main].at \notin {"park.check", "exited"}, Next, NoTerminate PROVE Gone'
  <2>2. CASE \E c \in Callers, i \in Ids : CallerStep(c, i)
    BY <1>0, <1>3, <2>2, CallerSteps DEF Parking
  <2>3. CASE \E c \in Callers, d \in BOOLEAN : Create(c, d)
    BY <1>0, <1>3, <2>3, Moves DEF Create
  <2>4. CASE \E c \in Callers : WaitAll(c) \/ WaitAllDone(c)
    BY <1>0, <1>3, <2>4, Moves DEF WaitAll, WaitAllDone
  <2>5. CASE \E c \in Callers : Gc(c) \/ GcAll(c) \/ WaitAllSelf(c)
    BY <1>0, <1>3, <2>5 DEF Gc, GcAll, Collect, WaitAllSelf, callers
  <2>6. CASE \E c \in Callers, i \in Ids : Remove(c, i) \/ RemoveForce(c, i)
    BY <1>0, <1>3, <2>6 DEF Remove, RemoveForce, callers
  <2>7. CASE \E c \in Callers, i \in Ids : Register(c, i)
    BY <1>0, <1>3, <2>7, Moves DEF Register
  <2>8. CASE \E i \in Ids : WorkerStart(i) \/ WorkerLoad(i) \/ WorkerStore(i) \/ WorkerSignal(i)
    BY <1>3, <2>8 DEF WorkerStart, WorkerLoad, WorkerStore, WorkerSignal, callers
  <2>9. CASE Leave \/ ParkJoin \/ ParkCheck
    <3>1. CASE ParkCheck
      BY <1>3, <3>1 DEF ParkCheck, In
    <3>2. CASE Leave \/ ParkJoin
      <4>1. Goto(Main, "park", 0)
        BY <3>2 DEF Leave, ParkJoin, AfterRound
      <4> QED
        BY <1>0, <4>1, Moves
    <3> QED
      BY <2>9, <3>1, <3>2
  <2>10. CASE ParkTake
    <3>1. /\ In(Main, "park", 0) /\ UNCHANGED exec
          /\ \A i \in Ids : ~ (handle[i] = "parked" \/ (handle[i] = "record" /\ i \in table))
      BY <1>0, <2>10, Moves DEF ParkTake, workers
    <3> QED
      BY <1>3, <3>1, EmptyRound DEF Gone
  <2> QED
    BY <1>1, <1>3, <2>2, <2>3, <2>4, <2>5, <2>6, <2>7, <2>8, <2>9, <2>10, NextCases DEF CallerStep
<1> QED
  BY <1>1, <1>2, <1>3, Guarded

\* Runtime::run does not leave a worker behind, if workers join nothing
\* themselves.  Without that hypothesis it can: a worker that joins itself
\* has its own handle in a local, where no round of park_all finds it.
THEOREM NoneOutlives ==
  ASSUME WorkerOps \cap Joiners = {}
  PROVE  Spec => []NoWorkerOutlives
<1>1. Init => Left
  BY NatIds, MainApart DEF Init, Left
<1>2. Left => NoWorkerOutlives
  BY DEF Left, Gone, NoWorkerOutlives
<1>3. Sound /\ Left /\ [Next]_vars => Left'
  BY NextLeft
<1> QED
  BY <1>1, <1>2, <1>3, Soundness, PTL DEF Spec

-----------------------------------------------------------------------------
(***************************************************************************)
(* What scripts are told.  A record says Joined before its thread ends     *)
(* only while thread_wait_all holds the thread's handle; the builtins that *)
(* would report it then have no caller.                                    *)
(***************************************************************************)
Asks == Joiners \cup {"done"}

\* Only the main thread asks about threads, or nobody uses wait_all (which
\* stores Joined first and joins later) or join_timeout (which stores Running
\* over what the worker stored).
OneAsks == \/ WorkerOps \cap Asks = {}
           \/ (MainOps \cup WorkerOps) \cap {"join_timeout", "wait_all"} = {}

Fin(i) == exec[i] \in {"stored", "ended"}

\* What caller c, at its place in a join, knows of the thread.
Informed(c) ==
  /\ call[c].at \in {"join.native", "join.final", "timed.native", "timed.final"} => call[c].id \in Ids /\ Fin(call[c].id)
  /\ call[c].at = "join.look" => call[c].id \in Ids /\ state[call[c].id] \in {"Joining"} \cup Finished

Truthful ==
  /\ \A i \in Ids : state[i] \in {"Done", "DetachedDone"} => Fin(i)
  /\ \A i \in Ids : state[i] = "Joined" => Fin(i) \/ \E c \in Callers : call[c].at = "wait_all" /\ i \in held[c]
  /\ \A c \in Callers : Informed(c)
  /\ ToldMeansFinished

\* A caller that may report a thread's state finds no early Joined.
LEMMA FinishedIsFin ==
  ASSUME TypeOK, Doing, Truthful, OneAsks, NEW c \in Callers, Ops(c) \cap Asks # {}, call[c].at # "wait_all",
         NEW i \in Ids, state[i] \in Finished
  PROVE  Fin(i)
<1> SUFFICES ASSUME NEW d \in Callers, call[d].at = "wait_all" PROVE FALSE
  BY DEF Truthful, Finished
<1>1. "wait_all" \in Ops(d)
  BY DEF Doing, Allowed
<1>2. c # d
  OBVIOUS
<1> QED
  BY <1>1, <1>2 DEF OneAsks, Ops, Asks, Joiners

\* Threads that are stored or ended stay so.
LEMMA FinStays ==
  ASSUME TypeOK, Known, Doing, [Next]_vars, NEW i \in Ids, Fin(i)
  PROVE  Fin(i)'
<1>1. CASE UNCHANGED exec
  BY <1>1 DEF Fin
<1>2. CASE \E c \in Callers, d \in BOOLEAN : Create(c, d)
  <2>1. created + 1 # i
    BY Numbers, NatIds DEF Doing, Fin
  <2> QED
    BY <1>2, <2>1 DEF Create, Fin, TypeOK
<1>3. CASE \E j \in Ids : WorkerStart(j) \/ WorkerLoad(j) \/ WorkerStore(j) \/ WorkerSignal(j)
  BY <1>3 DEF WorkerStart, WorkerLoad, WorkerStore, WorkerSignal, Fin, TypeOK
<1>4. UNCHANGED exec \/ (\E c \in Callers, d \in BOOLEAN : Create(c, d))
      \/ (\E j \in Ids : WorkerStart(j) \/ WorkerLoad(j) \/ WorkerStore(j) \/ WorkerSignal(j))
  BY NextCases, CallerSteps DEF CallerStep, WaitAll, Gc, GcAll, Collect, WaitAllSelf, WaitAllDone, Remove, RemoveForce,
     Register, Leave, ParkTake, ParkJoin, ParkCheck, workers, vars
<1> QED
  BY <1>1, <1>2, <1>3, <1>4

\* A caller is still informed when nothing it relies on changed.
LEMMA StaysInformed ==
  ASSUME NEW c \in Callers, Informed(c), call'[c] = call[c],
         Fin(call[c].id) => Fin(call[c].id)',
         call[c].at = "join.look" =>
            state'[call[c].id] = state[call[c].id] \/ state'[call[c].id] \in {"Joining"} \cup Finished
  PROVE  Informed(c)'
BY DEF Informed, Fin

LEMMA NextTruthful ==
  ASSUME OneAsks
  PROVE  TypeOK /\ Known /\ Doing /\ Truthful /\ [Next]_vars => Truthful'
<1> SUFFICES ASSUME TypeOK, Known, Doing, Truthful, [Next]_vars PROVE Truthful'
  OBVIOUS
<1>0. \A i \in Ids : Fin(i) => Fin(i)'
  BY FinStays
\* One caller moves; others keep their place, and a record changes only for one i.
<1>a. ASSUME NEW c \in Callers, NEW i \in Ids,
             \A d \in Callers : d # c => call'[d] = call[d] /\ held'[d] = held[d],
             call[c].at # "wait_all", Informed(c)',
             \A j \in Ids : j # i => state'[j] = state[j],
             \/ state'[i] = state[i]
             \/ state'[i] = "Joined" /\ Fin(i)
             \/ state'[i] = "Joining"
             \/ state'[i] = "Running" /\ \A d \in Callers : d # c => call[d].at # "join.look",
             told' \subseteq told \cup {i}, i \in told' => i \in told \/ Fin(i)
      PROVE  Truthful'
  <2>1. \A j \in Ids : state'[j] \in {"Done", "DetachedDone"} => Fin(j)'
    BY <1>0, <1>a DEF Truthful
  <2>2. ASSUME NEW j \in Ids, state'[j] = "Joined"
        PROVE  Fin(j)' \/ \E d \in Callers : call'[d].at = "wait_all" /\ j \in held'[d]
    BY <1>0, <1>a, <2>2 DEF Truthful
  <2>3. ASSUME NEW d \in Callers, d # c PROVE Informed(d)'
    <3>1. call'[d] = call[d] /\ Informed(d)
      BY <1>a, <2>3 DEF Truthful
    <3>2. CASE call[d].id \in Ids
      <4>1. ASSUME call[d].at = "join.look", call[d].id = i
            PROVE  state'[i] = state[i] \/ state'[i] \in {"Joining"} \cup Finished
        BY <1>a, <2>3, <4>1 DEF Finished
      <4>2. call[d].id # i => state'[call[d].id] = state[call[d].id]
        BY <1>a, <3>2
      <4> QED
        BY <1>0, <3>1, <3>2, <4>1, <4>2, StaysInformed
    <3>3. CASE call[d].id \notin Ids
      BY <3>1, <3>3 DEF Informed
    <3> QED
      BY <3>2, <3>3
  <2>4. ToldMeansFinished'
    BY <1>0, <1>a DEF Truthful, ToldMeansFinished, Fin, TypeOK
  <2> QED
    BY <1>a, <2>1, <2>2, <2>3, <2>4 DEF Truthful
<1>1. ASSUME NEW c \in Callers, NEW i \in Ids, JoinMark(c, i) PROVE Truthful'
  <2>1. /\ Goto(c, "join.look", i) /\ state' = [state EXCEPT ![i] = "Joining"] /\ UNCHANGED told
        /\ call[c].at # "wait_all"
    BY <1>1, CallGuards, MainApart DEF JoinMark
  <2>2. state'[i] = "Joining" /\ \A j \in Ids : j # i => state'[j] = state[j]
    BY <2>1 DEF TypeOK
  <2>3. Informed(c)'
    BY <2>1, <2>2, Moves DEF Informed
  <2> QED
    BY <1>1, <1>a, <2>1, <2>2, <2>3, CallerSteps DEF CallerStep
<1>2. ASSUME NEW c \in Callers, NEW i \in Ids, JoinFinished(c, i) PROVE Truthful'
  <2>1. Goto(c, "join.native", i) /\ UNCHANGED <<state, told>> /\ call[c].at # "wait_all"
    BY <1>2, CallGuards, MainApart DEF JoinFinished
  <2>2. Fin(i)
    <3>1. "join" \in Ops(c) \cap Asks /\ state[i] \in Finished
      BY <1>2, CallGuards DEF JoinFinished, Asks, Joiners, Finished
    <3> QED
      BY <2>1, <3>1, FinishedIsFin
  <2>3. Informed(c)'
    BY <1>0, <2>1, <2>2, Moves DEF Informed, Fin
  <2> QED
    BY <1>2, <1>a, <2>1, <2>3, CallerSteps DEF CallerStep
<1>3. ASSUME NEW c \in Callers, NEW i \in Ids, TimedLook(c, i) PROVE Truthful'
  <2>1. UNCHANGED state /\ call[c].at # "wait_all" /\ call[c] = Script /\ "join_timeout" \in Ops(c) \cap Asks
    BY <1>3, CallGuards, MainApart DEF TimedLook, Asks, Joiners
  <2>2. \/ Goto(c, "timed.mark", i) /\ UNCHANGED told
        \/ UNCHANGED call /\ told' = told \cup {i} /\ state[i] = "Joined"
        \/ Goto(c, "timed.native", i) /\ state[i] = "Done" /\ UNCHANGED told
        \/ Goto(c, "timed.wait", i) /\ UNCHANGED told
    BY <1>3 DEF TimedLook, callers
  <2>3. state[i] \in {"Joined", "Done"} => Fin(i)
    BY <2>1, FinishedIsFin DEF Finished
  <2>4. Informed(c)'
    BY <1>0, <2>1, <2>2, <2>3, Moves, MainApart DEF Informed, Fin
  <2> QED
    BY <1>3, <1>a, <2>1, <2>2, <2>3, <2>4, CallerSteps DEF CallerStep
<1>4. ASSUME NEW c \in Callers, NEW i \in Ids, Done(c, i) PROVE Truthful'
  <2>1. /\ UNCHANGED <<state, call>> /\ call[c].at = "script" /\ told' = told \cup {i}
        /\ "done" \in Ops(c) \cap Asks /\ state[i] \in Finished
    BY <1>4, CallGuards, MainApart DEF Done, Asks, Joiners, records, callers
  <2>2. Fin(i) /\ Informed(c)'
    BY <2>1, FinishedIsFin DEF Informed
  <2> QED
    BY <1>4, <1>a, <2>1, <2>2, CallerSteps DEF CallerStep
<1>5. ASSUME NEW c \in Callers, NEW i \in Ids, JoinLook(c, i) PROVE Truthful'
  <2>1. UNCHANGED state /\ call[c].at = "join.look" /\ call[c].id = i /\ "join" \in Ops(c) \cap Asks
    BY <1>5, CallGuards DEF JoinLook, Asks, Joiners, Allowed, JoinPlaces
  <2>2. \/ Goto(c, "join.wait", i) /\ UNCHANGED told
        \/ Return(c) /\ told' = told \cup {i} /\ state[i] # "Joining"
    BY <1>5 DEF JoinLook
  <2>3. state[i] # "Joining" => Fin(i)
    <3>1. state[i] \in {"Joining"} \cup Finished
      BY <2>1 DEF Truthful, Informed
    <3> QED
      BY <2>1, <3>1, FinishedIsFin
  <2>4. Informed(c)'
    BY <2>2, Moves DEF Informed
  <2> QED
    BY <1>5, <1>a, <2>1, <2>2, <2>3, <2>4, CallerSteps DEF CallerStep
<1>6. ASSUME NEW c \in Callers, NEW i \in Ids, JoinWait(c, i) PROVE Truthful'
  <2>1. /\ UNCHANGED <<state, told>> /\ call[c].at = "join.wait" /\ Goto(c, "join.native", i)
        /\ "join" \in Ops(c) \cap Asks /\ state[i] \in Finished
    BY <1>6, CallGuards DEF JoinWait, Asks, Joiners, Allowed, JoinPlaces, records
  <2>2. Fin(i)
    BY <2>1, FinishedIsFin
  <2>3. Informed(c)'
    BY <1>0, <2>1, <2>2, Moves DEF Informed, Fin
  <2> QED
    BY <1>6, <1>a, <2>1, <2>3, CallerSteps DEF CallerStep
<1>7. ASSUME NEW c \in Callers, NEW i \in Ids, JoinNative(c, i) PROVE Truthful'
  <2>1. /\ UNCHANGED <<state, told>> /\ call[c].at \in {"join.native", "timed.native"} /\ call[c].id = i
        /\ Goto(c, "join.final", i) \/ Goto(c, "timed.final", i)
    BY <1>7, CallGuards DEF JoinNative, records
  <2>2. Fin(i)
    BY <2>1 DEF Truthful, Informed
  <2>3. Informed(c)'
    BY <1>0, <2>1, <2>2, Moves DEF Informed, Fin
  <2> QED
    BY <1>7, <1>a, <2>1, <2>3, CallerSteps DEF CallerStep
<1>8. ASSUME NEW c \in Callers, NEW i \in Ids, JoinFinal(c, i) PROVE Truthful'
  <2>1. /\ state' = [state EXCEPT ![i] = "Joined"] /\ told' = told \cup {i} /\ call[c].id = i
        /\ call[c].at \in {"join.final", "timed.final"} /\ Return(c)
    BY <1>8, CallGuards DEF JoinFinal
  <2>2. Fin(i) /\ state'[i] = "Joined" /\ \A j \in Ids : j # i => state'[j] = state[j]
    BY <2>1 DEF Truthful, Informed, TypeOK
  <2>3. Informed(c)'
    BY <2>1, Moves DEF Informed
  <2> QED
    BY <1>8, <1>a, <2>1, <2>2, <2>3, CallerSteps DEF CallerStep
<1>9. ASSUME NEW c \in Callers, NEW i \in Ids, TimedMark(c, i) \/ TimedOut(c, i) \/ TimedWait(c, i) PROVE Truthful'
  <2>1. /\ UNCHANGED told /\ call[c].at \in {"timed.mark", "timed.wait"}
        /\ UNCHANGED state \/ state' = [state EXCEPT ![i] = "Joining"]
    BY <1>9, CallGuards DEF TimedMark, TimedOut, TimedWait, records
  <2>2. /\ \A j \in Ids : j # i => state'[j] = state[j]
        /\ state'[i] = state[i] \/ state'[i] = "Joining"
    BY <2>1 DEF TypeOK
  <2>3. TimedWait(c, i) => Fin(i) /\ Goto(c, "timed.native", i)
    BY DEF TimedWait, Truthful
  <2>4. Informed(c)'
    <3>1. call'[c].at \in {"script", "timed.wait", "timed.revert"} \/ TimedWait(c, i)
      BY <1>9, Moves DEF TimedMark, TimedOut
    <3> QED
      BY <1>0, <2>3, <3>1, Moves DEF Informed, Fin
  <2> QED
    BY <1>9, <1>a, <2>1, <2>2, <2>4, CallerSteps DEF CallerStep
<1>10. ASSUME NEW c \in Callers, NEW i \in Ids, TimedRevert(c, i) PROVE Truthful'
  <2>1. /\ UNCHANGED told /\ call[c].at = "timed.revert" /\ Return(c)
        /\ state' = [state EXCEPT ![i] = "Running"] /\ "join_timeout" \in Ops(c)
    BY <1>10, CallGuards DEF TimedRevert, Allowed, TimedPlaces
  <2>2. state'[i] = "Running" /\ \A j \in Ids : j # i => state'[j] = state[j]
    BY <2>1 DEF TypeOK
  <2>3. ASSUME NEW d \in Callers, d # c, call[d].at = "join.look" PROVE FALSE
    <3>1. "join" \in Ops(d)
      BY <2>3 DEF Doing, Allowed, JoinPlaces
    <3> QED
      BY <2>1, <2>3, <3>1 DEF OneAsks, Ops, Asks, Joiners
  <2>4. Informed(c)'
    BY <2>1, Moves DEF Informed
  <2> QED
    BY <1>10, <1>a, <2>1, <2>2, <2>3, <2>4, CallerSteps DEF CallerStep
<1>11. ASSUME NEW c \in Callers, NEW d \in BOOLEAN, Create(c, d) PROVE Truthful'
  <2>1. PICK n \in Ids : n = created + 1 /\ created' = n /\ created \in Nat
    <3>1. created \in Nat /\ created < MaxThreads /\ created' = created + 1
      BY <1>11, Numbers DEF Create
    <3> QED
      BY <3>1, NatIds DEF Ids
  <2>2. /\ Goto(c, "register", n) /\ UNCHANGED <<held, told>> /\ call[c] = Script
        /\ state' = [state EXCEPT ![n] = IF d THEN "DetachedRunning" ELSE "Running"]
    BY <1>11, <2>1, CallGuards DEF Create
  <2>3. /\ \A j \in Ids : j # n => state'[j] = state[j]
        /\ state'[n] \in {"DetachedRunning", "Running"}
    BY <2>2 DEF TypeOK
  <2>4. \A e \in Callers : call[e].id # n
    <3>1. ~(n <= created)
      BY <2>1
    <3> QED
      BY <3>1 DEF Known
  <2>5. ASSUME NEW e \in Callers PROVE Informed(e)'
    <3>1. CASE e = c
      BY <2>2, <3>1, Moves DEF Informed
    <3>2. CASE e # c
      <4>1. call'[e] = call[e] /\ Informed(e)
        BY <2>2, <3>2, Moves DEF Truthful
      <4>2. call[e].id \in Ids => state'[call[e].id] = state[call[e].id]
        BY <2>3, <2>4
      <4> QED
        BY <1>0, <4>1, <4>2, StaysInformed DEF Informed
    <3> QED
      BY <3>1, <3>2
  <2>6. \A j \in Ids : state'[j] \in {"Done", "DetachedDone"} => Fin(j)'
    BY <1>0, <2>3 DEF Truthful
  <2>7. ASSUME NEW j \in Ids, state'[j] = "Joined"
        PROVE  Fin(j)' \/ \E e \in Callers : call'[e].at = "wait_all" /\ j \in held'[e]
    <3>1. state[j] = "Joined"
      BY <2>3, <2>7
    <3>2. \A e \in Callers : call[e].at = "wait_all" => call'[e] = call[e]
      BY <2>2, Moves, MainApart
    <3> QED
      BY <1>0, <2>2, <3>1, <3>2 DEF Truthful
  <2>8. ToldMeansFinished'
    BY <1>0, <2>2 DEF Truthful, ToldMeansFinished, Fin, TypeOK
  <2> QED
    BY <2>5, <2>6, <2>7, <2>8 DEF Truthful
<1>12. ASSUME NEW c \in Callers, WaitAll(c) PROVE Truthful'
  <2>1. PICK mine \in SUBSET Ids :
          /\ held' = [held EXCEPT ![c] = mine]
          /\ state' = [i \in Ids |-> IF i \in mine /\ state[i] \in {"Running", "Done"}
                                     THEN "Joined" ELSE state[i]]
          /\ Goto(c, "wait_all", 0) /\ UNCHANGED told /\ call[c] = Script
    <3>1. {i \in table \ detached : handle[i] = "record"} \in SUBSET Ids
      BY Numbers
    <3> QED
      BY <1>12, <3>1, CallGuards DEF WaitAll
  <2>2. held'[c] = mine /\ \A d \in Callers : d # c => held'[d] = held[d]
    BY <2>1 DEF TypeOK
  <2>3. ASSUME NEW e \in Callers PROVE Informed(e)'
    <3>1. CASE e = c
      BY <2>1, <3>1, Moves DEF Informed
    <3>2. CASE e # c
      <4>1. call'[e] = call[e] /\ Informed(e)
        BY <2>1, <3>2, Moves DEF Truthful
      <4>2. call[e].id \in Ids => state'[call[e].id] = state[call[e].id] \/ state'[call[e].id] = "Joined"
        BY <2>1
      <4> QED
        BY <1>0, <4>1, <4>2, StaysInformed DEF Informed, Finished
    <3> QED
      BY <3>1, <3>2
  <2>4. \A j \in Ids : state'[j] \in {"Done", "DetachedDone"} => Fin(j)'
    BY <1>0, <2>1 DEF Truthful
  <2>5. ASSUME NEW j \in Ids, state'[j] = "Joined"
        PROVE  Fin(j)' \/ \E e \in Callers : call'[e].at = "wait_all" /\ j \in held'[e]
    <3>1. CASE j \in mine
      BY <2>1, <2>2, <3>1, Moves
    <3>2. CASE j \notin mine
      <4>1. state[j] = "Joined"
        BY <2>1, <2>5, <3>2
      <4>2. \A e \in Callers : call[e].at = "wait_all" => call'[e] = call[e] /\ held'[e] = held[e]
        BY <2>1, <2>2, Moves, MainApart
      <4> QED
        BY <1>0, <4>1, <4>2 DEF Truthful
    <3> QED
      BY <3>1, <3>2
  <2>6. ToldMeansFinished'
    BY <1>0, <2>1 DEF Truthful, ToldMeansFinished, Fin, TypeOK
  <2> QED
    BY <2>3, <2>4, <2>5, <2>6 DEF Truthful
\* Records and what scripts were told stay, and callers move where they know nothing.
<1>c. ASSUME UNCHANGED <<state, told>>, \A c \in Callers : call'[c] = call[c] \/ Informed(c)',
             \A c \in Callers : call[c].at = "wait_all" =>
                \/ call'[c].at = "wait_all" /\ held'[c] = held[c]
                \/ \A i \in held[c] : Fin(i)
      PROVE  Truthful'
  <2>1. ASSUME NEW c \in Callers, call'[c] = call[c] PROVE Informed(c)'
    <3>1. Informed(c)
      BY DEF Truthful
    <3> QED
      BY <1>0, <1>c, <2>1, <3>1, StaysInformed DEF Informed
  <2>2. ASSUME NEW j \in Ids, state'[j] = "Joined"
        PROVE  Fin(j)' \/ \E e \in Callers : call'[e].at = "wait_all" /\ j \in held'[e]
    BY <1>0, <1>c, <2>2 DEF Truthful
  <2>3. ToldMeansFinished'
    BY <1>0, <1>c DEF Truthful, ToldMeansFinished, Fin, TypeOK
  <2> QED
    BY <1>0, <1>c, <2>1, <2>2, <2>3 DEF Truthful
<1>13. ASSUME NEW c \in Callers, Gc(c) \/ GcAll(c) \/ WaitAllSelf(c) PROVE Truthful'
  <2>1. UNCHANGED <<state, told, call, held>>
    BY <1>13 DEF Gc, GcAll, Collect, WaitAllSelf, records, callers
  <2> QED
    BY <1>c, <2>1
<1>14. ASSUME NEW c \in Callers, WaitAllDone(c) PROVE Truthful'
  <2>1. /\ UNCHANGED <<state, told>> /\ Return(c) /\ \A i \in held[c] : exec[i] = "ended"
        /\ held' = [held EXCEPT ![c] = {}]
    BY <1>14 DEF WaitAllDone, JoinAll, records
  <2>2. \A d \in Callers : d # c => call'[d] = call[d] /\ held'[d] = held[d]
    BY <2>1, Moves DEF TypeOK
  <2>3. Informed(c)' /\ \A i \in held[c] : Fin(i)
    BY <2>1, Moves DEF Informed, Fin
  <2> QED
    BY <1>c, <2>1, <2>2, <2>3
<1>15. ASSUME NEW c \in Callers, NEW i \in Ids, Remove(c, i) \/ RemoveForce(c, i) PROVE Truthful'
  <2>1. UNCHANGED <<state, told, call, held>>
    BY <1>15 DEF Remove, RemoveForce, callers
  <2> QED
    BY <1>c, <2>1
<1>16. ASSUME NEW c \in Callers, NEW i \in Ids, Register(c, i) PROVE Truthful'
  <2>1. UNCHANGED <<state, told, held>> /\ Return(c) /\ call[c].at # "wait_all"
    BY <1>16, CallGuards DEF Register, records
  <2>2. Informed(c)' /\ \A d \in Callers : d # c => call'[d] = call[d]
    BY <2>1, Moves DEF Informed
  <2> QED
    BY <1>c, <2>1, <2>2
<1>17. ASSUME NEW i \in Ids, WorkerStart(i) \/ WorkerLoad(i) \/ WorkerSignal(i) PROVE Truthful'
  <2>1. UNCHANGED <<state, told, call, held>>
    BY <1>17 DEF WorkerStart, WorkerLoad, WorkerSignal, records, callers
  <2> QED
    BY <1>c, <2>1
<1>18. ASSUME NEW i \in Ids, WorkerStore(i) PROVE Truthful'
  <2>1. /\ exec' = [exec EXCEPT ![i] = "stored"] /\ UNCHANGED <<call, held, told>>
        /\ \A j \in Ids : j # i => state'[j] = state[j]
        /\ state'[i] = state[i] \/ state'[i] \in {"Done", "DetachedDone"}
    <3>1. EndState(prev[i]) = prev[i] \/ EndState(prev[i]) \in {"Done", "DetachedDone"}
      BY DEF EndState
    <3> QED
      BY <1>18, <3>1 DEF WorkerStore, TypeOK, callers
  <2>2. Fin(i)'
    BY <2>1 DEF Fin, TypeOK
  <2>3. ASSUME NEW c \in Callers PROVE Informed(c)'
    <3>1. Informed(c) /\ call'[c] = call[c]
      BY <2>1 DEF Truthful
    <3>2. call[c].id \in Ids =>
            state'[call[c].id] = state[call[c].id] \/ state'[call[c].id] \in Finished
      BY <2>1 DEF Finished
    <3> QED
      BY <1>0, <3>1, <3>2, StaysInformed DEF Informed
  <2>4. ToldMeansFinished'
    BY <1>0, <2>1 DEF Truthful, ToldMeansFinished, Fin, TypeOK
  <2> QED
    BY <1>0, <2>1, <2>2, <2>3, <2>4 DEF Truthful
<1>19. CASE Leave \/ ParkTake \/ ParkJoin \/ ParkCheck
  <2>1. PICK p \in Parking : Goto(Main, p, 0) /\ UNCHANGED <<state, told>>
    BY <1>19 DEF Leave, ParkTake, ParkJoin, ParkCheck, AfterRound, Parking, records
  <2>2. call[Main] = Script \/ \E q \in {"park", "park.join", "park.check"} : In(Main, q, 0)
    BY <1>19 DEF Leave, ParkTake, ParkJoin, ParkCheck
  <2>3. /\ call[Main].at # "wait_all" /\ Informed(Main)'
        /\ \A d \in Callers : d # Main => call'[d] = call[d] /\ held'[d] = held[d]
    <3>1. call[Main].at # "wait_all"
      BY <2>2, CallGuards, NatIds, MainApart
    <3>2. call'[Main].at = p
      BY <2>1, Moves, NatIds
    <3>3. Informed(Main)'
      BY <3>2 DEF Informed, Parking
    <3>4. \A d \in Callers : d # Main => held'[d] = held[d]
      BY <1>19 DEF Leave, ParkTake, ParkJoin, ParkCheck, TypeOK
    <3> QED
      BY <2>1, <3>1, <3>3, <3>4, Moves, NatIds
  <2> QED
    BY <1>c, <2>1, <2>3
<1>20. CASE UNCHANGED vars
  BY <1>c, <1>20 DEF vars, records, callers
<1> QED
  BY <1>1, <1>2, <1>3, <1>4, <1>5, <1>6, <1>7, <1>8, <1>9, <1>10, <1>11, <1>12, <1>13, <1>14,
     <1>15, <1>16, <1>17, <1>18, <1>19, <1>20, NextCases

\* A thread that thread_join, thread_join_timeout or thread_done called
\* finished has run its action to the end, when only the main thread asks or
\* nobody uses wait_all and join_timeout.
THEOREM ToldTruly ==
  ASSUME OneAsks
  PROVE  Spec => []ToldMeansFinished
<1>1. Init => Truthful
  BY MainApart DEF Init, Truthful, Informed, ToldMeansFinished
<1>2. TypeOK /\ Known /\ Doing /\ Truthful /\ [Next]_vars => Truthful'
  BY NextTruthful
<1>3. Sound => TypeOK /\ Known /\ Doing
  BY DEF Sound
<1>4. Truthful => ToldMeansFinished
  BY DEF Truthful
<1> QED
  BY <1>1, <1>2, <1>3, <1>4, Soundness, PTL DEF Spec

-----------------------------------------------------------------------------
(***************************************************************************)
(* Until run() leaves, nothing undefined: the main thread alone erases     *)
(* records, between its own builtins, and only records whose handle it has *)
(* taken and joined, so their threads have ended.                          *)
(***************************************************************************)
\* Workers only start workers, and nothing is detached or removed by force.
Plain == WorkerOps \subseteq {"run"} /\ MainOps \cap {"detach", "force"} = {}

\* No thread is detached, and workers are in script code or registering.
Attached ==
  /\ detached = {}
  /\ \A i \in Ids : /\ call[i].at \in {"script", "register"}
                    /\ state[i] \notin {"DetachedRunning", "DetachedDone"}
                    /\ prev[i] \notin {"DetachedRunning", "DetachedDone"}

Inside == call[Main].at \notin Parking

\* A thread whose handle left its record has ended or is the main thread's to
\* join; a Joined record has lost its handle; the record that the main
\* thread's join is about is in the table.
Orderly ==
  /\ ub = {}
  /\ \A i \in freed : exec[i] = "ended"
  /\ \A i \in 1 .. created : handle[i] # "record" => exec[i] = "ended" \/ i \in held[Main]
  /\ \A i \in Ids : state[i] = "Joined" => handle[i] # "record"
  /\ call[Main].at \in JoinPlaces \cup TimedPlaces => call[Main].id \in table
  /\ call[Main].at \in {"join.wait", "join.native", "join.final", "timed.native", "timed.final"} =>
        handle[call[Main].id] # "record"

\* Only the main thread is in a builtin other than run.
LEMMA MainAlone ==
  ASSUME Plain, TypeOK, Doing, Attached, NEW c \in Callers
  PROVE  /\ \A b : Calls(c, b) => b \in Builtins \ {"detach", "force"} /\ call[c] = Script
         /\ \A b : Calls(c, b) /\ b # "run" => c = Main
         /\ \A p, i : In(c, p, i) /\ p \notin {"script", "register"} => c = Main
         /\ \A i \in Ids : CallerStep(c, i) => c = Main
<1>1. /\ \A b : Calls(c, b) => b \in Builtins \ {"detach", "force"} /\ call[c] = Script
      /\ \A b : Calls(c, b) /\ b # "run" => c = Main
      /\ \A p, i : In(c, p, i) /\ p \notin {"script", "register"} => c = Main
  BY CallGuards, ThreadAssumption DEF Plain, Ops, Attached, Callers
<1>2. ASSUME NEW i \in Ids, CallerStep(c, i)
      PROVE  \/ Calls(c, "join") \/ Calls(c, "join_timeout") \/ Calls(c, "done")
             \/ \E p \in JoinPlaces \cup TimedPlaces : In(c, p, i)
  BY <1>2 DEF CallerStep, JoinMark, JoinFinished, TimedLook, Done, JoinLook, JoinWait, JoinNative,
              JoinFinal, TimedMark, TimedWait, TimedRevert, TimedOut, JoinPlaces, TimedPlaces
<1> QED
  BY <1>1, <1>2 DEF JoinPlaces, TimedPlaces

LEMMA NextAttached ==
  ASSUME Plain
  PROVE  TypeOK /\ Known /\ Doing /\ Attached /\ [Next]_vars => Attached'
<1> SUFFICES ASSUME TypeOK, Known, Doing, Attached, [Next]_vars PROVE Attached'
  OBVIOUS
\* A step of the main thread, or of a worker that ends its builtin.
<1>a. ASSUME UNCHANGED <<detached, prev>>, NEW c \in Callers,
             c = Main \/ call'[c].at \in {"script", "register"},
             \A d \in Callers : d # c => call'[d] = call[d],
             \A i \in Ids : state'[i] = state[i] \/ state'[i] \notin {"DetachedRunning", "DetachedDone"}
      PROVE  Attached'
  BY <1>a, NatIds, MainApart DEF Attached
<1>1. ASSUME NEW c \in Callers, NEW d \in BOOLEAN, Create(c, d) PROVE Attached'
  <2>1. d = FALSE
    BY <1>1, MainAlone DEF Create
  <2>2. state' = [state EXCEPT ![created + 1] = "Running"] /\ UNCHANGED <<detached, prev>>
    BY <1>1, <2>1 DEF Create
  <2>3. \A i \in Ids : state'[i] = state[i] \/ state'[i] = "Running"
    BY <2>2 DEF TypeOK
  <2>4. call'[c].at = "register" /\ \A e \in Callers : e # c => call'[e] = call[e]
    BY <1>1, Moves DEF Create
  <2> QED
    BY <1>a, <2>2, <2>3, <2>4
<1>2. ASSUME NEW c \in Callers, NEW i \in Ids, CallerStep(c, i) PROVE Attached'
  <2>1. c = Main
    BY <1>2, MainAlone
  <2>2. UNCHANGED state \/ \E s \in {"Running", "Joining", "Joined"} : state' = [state EXCEPT ![i] = s]
    BY <1>2 DEF CallerStep, JoinMark, JoinFinished, TimedLook, Done, JoinLook, JoinWait, JoinNative,
                JoinFinal, TimedMark, TimedWait, TimedRevert, TimedOut, records
  <2>3. \A j \in Ids : state'[j] = state[j] \/ state'[j] \notin {"DetachedRunning", "DetachedDone"}
    BY <2>2 DEF TypeOK
  <2> QED
    BY <1>2, <1>a, <2>1, <2>3, CallerSteps
<1>3. ASSUME NEW c \in Callers, WaitAll(c) PROVE Attached'
  <2>1. /\ c = Main /\ UNCHANGED <<detached, prev>> /\ \A d \in Callers : d # c => call'[d] = call[d]
        /\ \A i \in Ids : state'[i] = state[i] \/ state'[i] = "Joined"
    BY <1>3, MainAlone, Moves DEF WaitAll, workers
  <2> QED
    BY <1>a, <2>1
<1>4. ASSUME NEW c \in Callers, WaitAllDone(c) PROVE Attached'
  <2>1. /\ c = Main /\ UNCHANGED <<detached, prev, state>> /\ \A d \in Callers : d # c => call'[d] = call[d]
    <3>1. In(c, "wait_all", 0) /\ Return(c) /\ UNCHANGED <<detached, prev, state>>
      BY <1>4 DEF WaitAllDone, records, workers
    <3>2. c = Main
      BY <3>1, MainAlone
    <3> QED
      BY <3>1, <3>2, Moves
  <2> QED
    BY <1>a, <2>1
<1>5. ASSUME NEW c \in Callers, NEW i \in Ids, Register(c, i) PROVE Attached'
  <2>1. /\ UNCHANGED <<detached, prev, state>> /\ \A d \in Callers : d # c => call'[d] = call[d]
        /\ call'[c].at = "script"
    BY <1>5, Moves DEF Register, records, workers
  <2> QED
    BY <1>a, <2>1
<1>6. ASSUME NEW i \in Ids, WorkerStart(i) \/ WorkerLoad(i) \/ WorkerStore(i) \/ WorkerSignal(i)
      PROVE  Attached'
  <2>1. UNCHANGED <<detached, call>>
    BY <1>6 DEF WorkerStart, WorkerLoad, WorkerStore, WorkerSignal, records, callers
  <2>2. ASSUME NEW j \in Ids PROVE state'[j] = state[j] \/ state'[j] = EndState(prev[j])
    BY <1>6 DEF WorkerStart, WorkerLoad, WorkerStore, WorkerSignal, records, TypeOK
  <2>3. ASSUME NEW j \in Ids PROVE prev'[j] = prev[j] \/ prev'[j] = state[j]
    BY <1>6 DEF WorkerStart, WorkerLoad, WorkerStore, WorkerSignal, TypeOK
  <2>4. \A j \in Ids : EndState(prev[j]) \notin {"DetachedRunning", "DetachedDone"}
    BY DEF Attached, EndState
  <2> QED
    BY <2>1, <2>2, <2>3, <2>4 DEF Attached
<1>7. CASE Leave \/ ParkTake \/ ParkJoin \/ ParkCheck
  <2>1. PICK p \in Parking : Goto(Main, p, 0) /\ UNCHANGED <<detached, state, prev>>
    BY <1>7 DEF Leave, ParkTake, ParkJoin, ParkCheck, AfterRound, Parking, records, workers
  <2>2. \A d \in Callers : d # Main => call'[d] = call[d]
    BY <2>1, Moves, NatIds
  <2> QED
    BY <1>a, <2>1, <2>2, NatIds
<1>8. ASSUME NEW c \in Callers, NEW i \in Ids,
             Remove(c, i) \/ RemoveForce(c, i)
      PROVE  Attached'
  BY <1>8 DEF Remove, RemoveForce, workers, callers, Attached
<1>9. ASSUME NEW c \in Callers, Gc(c) \/ GcAll(c) \/ WaitAllSelf(c) PROVE Attached'
  BY <1>9 DEF Gc, GcAll, Collect, WaitAllSelf, records, workers, callers, Attached
<1>10. CASE UNCHANGED vars
  BY <1>10 DEF vars, records, workers, callers, Attached
<1> QED
  BY <1>1, <1>2, <1>3, <1>4, <1>5, <1>6, <1>7, <1>8, <1>9, <1>10, NextCases DEF CallerStep

\* The main thread does not come back from park_all.
LEMMA NoReturn == TypeOK /\ Known /\ Doing /\ [Next]_vars /\ Inside' => Inside
<1> SUFFICES ASSUME TypeOK, Known, Doing, [Next]_vars, call[Main].at \in Parking
             PROVE  call'[Main].at \in Parking
  BY DEF Inside
<1>0. Main \in Callers /\ "script" \notin Parking
  BY NatIds DEF Parking
<1>1. ASSUME NEW c \in Callers, (\E b : Calls(c, b)) \/ (\E p, i : In(c, p, i) /\ p \notin Parking),
             \A d \in Callers : d # c => call'[d] = call[d]
      PROVE  call'[Main].at \in Parking
  BY <1>0, <1>1, CallGuards, MainApart
<1>2. CASE \E c \in Callers, i \in Ids : CallerStep(c, i)
  BY <1>0, <1>2, CallerSteps
<1>3. CASE \E c \in Callers, d \in BOOLEAN : Create(c, d)
  BY <1>1, <1>3, Moves DEF Create
<1>4. CASE \E c \in Callers : WaitAll(c) \/ WaitAllDone(c)
  BY <1>1, <1>4, Moves DEF WaitAll, WaitAllDone, Parking
<1>5. CASE \E c \in Callers : Gc(c) \/ GcAll(c) \/ WaitAllSelf(c)
  BY <1>5 DEF Gc, GcAll, Collect, WaitAllSelf, callers
<1>6. CASE \E c \in Callers, i \in Ids : Remove(c, i) \/ RemoveForce(c, i)
  BY <1>6 DEF Remove, RemoveForce, callers
<1>7. CASE \E c \in Callers, i \in Ids : Register(c, i)
  BY <1>1, <1>7, Moves DEF Register, Parking
<1>8. CASE \E i \in Ids : WorkerStart(i) \/ WorkerLoad(i) \/ WorkerStore(i) \/ WorkerSignal(i)
  BY <1>8 DEF WorkerStart, WorkerLoad, WorkerStore, WorkerSignal, callers
<1>9. CASE Leave \/ ParkTake \/ ParkJoin \/ ParkCheck
  <2>1. \E p \in Parking : Goto(Main, p, 0)
    BY <1>9 DEF Leave, ParkTake, ParkJoin, ParkCheck, AfterRound, Parking
  <2> QED
    BY <1>0, <2>1, Moves
<1>10. CASE UNCHANGED vars
  BY <1>10 DEF vars, callers
<1> QED
  BY <1>2, <1>3, <1>4, <1>5, <1>6, <1>7, <1>8, <1>9, <1>10, NextCases DEF CallerStep

LEMMA NextOrderly ==
  ASSUME Plain
  PROVE  Sound /\ Attached /\ (Inside => Orderly) /\ [Next]_vars => (Inside => Orderly)'
<1> SUFFICES ASSUME Sound, Attached, Inside => Orderly, [Next]_vars, Inside' PROVE Orderly'
  OBVIOUS
<1>0. TypeOK /\ Known /\ Ownership /\ Doing /\ Registered /\ Main \in Callers /\ Main \notin Ids
  BY NatIds, MainApart DEF Sound
<1>1. Inside /\ Orderly /\ ub = {}
  BY <1>0, NoReturn DEF Orderly
<1>2. 1 .. created \subseteq Ids /\ table \subseteq Ids /\ freed \subseteq Ids /\ table \cap freed = {}
  BY <1>0, Numbers DEF Registered, TypeOK
\* In script code the main thread holds no handle: what has lost its handle has ended.
<1>3. ASSUME call[Main] = Script, NEW i \in table, handle[i] # "record" PROVE exec[i] = "ended"
  <2>1. held[Main] = {}
    BY <1>0, <1>3, NoHandles
  <2>2. i \in 1 .. created
    BY <1>0 DEF TypeOK
  <2> QED
    BY <1>1, <1>3, <2>1, <2>2 DEF Orderly
<1>4. ASSUME NEW c \in Callers, NEW d \in BOOLEAN, Create(c, d) PROVE Orderly'
  <2>1. PICK n \in Ids : n = created + 1 /\ created' = n /\ created \in Nat
    <3>1. created \in Nat /\ created < MaxThreads /\ created' = created + 1
      BY <1>0, <1>4, Numbers DEF Create
    <3> QED
      BY <3>1, NatIds DEF Ids
  <2>2. /\ Goto(c, "register", n) /\ UNCHANGED <<held, ub, table, freed>>
        /\ state' = [state EXCEPT ![n] = IF d THEN "DetachedRunning" ELSE "Running"]
        /\ exec' = [exec EXCEPT ![n] = "start"] /\ handle' = [handle EXCEPT ![n] = "record"]
    BY <1>4, <2>1 DEF Create
  <2>3. /\ \A i \in Ids : i # n => state'[i] = state[i] /\ exec'[i] = exec[i] /\ handle'[i] = handle[i]
        /\ state'[n] # "Joined" /\ handle'[n] = "record"
    BY <1>0, <2>2 DEF TypeOK
  <2>4. n \notin 1 .. created /\ n \notin table /\ n \notin freed /\ \A i \in 1 .. n : i = n \/ i \in 1 .. created
    <3>1. n \notin 1 .. created /\ \A i \in 1 .. n : i = n \/ i \in 1 .. created
      BY <2>1
    <3> QED
      BY <1>0, <3>1 DEF TypeOK
  <2>5. call'[Main].at \in JoinPlaces \cup TimedPlaces => call'[Main] = call[Main]
    BY <1>0, <2>2, Moves DEF JoinPlaces, TimedPlaces
  <2>6. call'[Main].at \in JoinPlaces \cup TimedPlaces => call[Main].id \in table /\ call'[Main] = call[Main]
    BY <1>1, <2>5 DEF Orderly
  <2>7. call'[Main].at \in {"join.wait", "join.native", "join.final", "timed.native", "timed.final"} =>
           handle'[call'[Main].id] # "record"
    BY <1>1, <1>2, <2>3, <2>4, <2>6 DEF Orderly, JoinPlaces, TimedPlaces
  <2>8. \A i \in 1 .. n : handle'[i] # "record" => exec'[i] = "ended" \/ i \in held[Main]
    BY <1>1, <1>2, <2>3, <2>4 DEF Orderly
  <2>9. \A i \in Ids : state'[i] = "Joined" => handle'[i] # "record"
    BY <1>1, <2>3 DEF Orderly
  <2>10. \A i \in freed : exec'[i] = "ended"
    BY <1>1, <1>2, <2>3, <2>4 DEF Orderly
  <2> QED
    BY <1>1, <2>1, <2>2, <2>6, <2>7, <2>8, <2>9, <2>10 DEF Orderly
\* Builtins of the main thread that keep the table and the threads, ...
<1>5. ASSUME NEW c \in Callers, NEW i \in Ids, CallerStep(c, i) PROVE Orderly'
  <2>1. c = Main /\ UNCHANGED <<created, table, freed, exec>>
    BY <1>0, <1>5, MainAlone, CallerSteps
  <2>2. i \in table /\ i \notin freed
    <3>1. i \in table \/ \E p \in JoinPlaces \cup TimedPlaces : In(Main, p, i)
      BY <1>5, <2>1 DEF CallerStep, JoinMark, JoinFinished, TimedLook, Done, JoinLook, JoinWait, JoinNative,
                  JoinFinal, TimedMark, TimedWait, TimedRevert, TimedOut, JoinPlaces, TimedPlaces
    <3>2. i \in table
      BY <1>0, <1>1, <3>1, CallGuards DEF Orderly
    <3> QED
      BY <1>2, <3>2
  <2>3. ub' = {}
    BY <1>1, <1>5, <2>2 DEF CallerStep, JoinMark, JoinFinished, TimedLook, Done, JoinLook, JoinWait, JoinNative,
                JoinFinal, TimedMark, TimedWait, TimedRevert, TimedOut, Touch
  <2>4. \/ UNCHANGED <<handle, held>>
        \/ handle' = [handle EXCEPT ![i] = "local"] /\ held' = [held EXCEPT ![Main] = @ \cup {i}]
        \/ /\ UNCHANGED handle /\ held' = [held EXCEPT ![Main] = {}]
           /\ \A j \in held[Main] : exec[j] = "ended"
    <3>1. CASE JoinNative(Main, i)
      <4>1. held[Main] \subseteq {i}
        BY <1>0, <3>1, NoHandles DEF JoinNative, OneHandle
      <4> QED
        BY <3>1, <4>1 DEF JoinNative, records
    <3>2. CASE ~ JoinNative(Main, i)
      BY <1>5, <2>1, <3>2 DEF CallerStep, JoinMark, JoinFinished, TimedLook, Done, JoinLook, JoinWait,
                  JoinFinal, TimedMark, TimedWait, TimedRevert, TimedOut, TakeHandle, records, callers
    <3> QED
      BY <3>1, <3>2
  <2>5. /\ \A j \in Ids : handle[j] # "record" => handle'[j] # "record"
        /\ \A j \in 1 .. created : handle'[j] # "record" => exec[j] = "ended" \/ j \in held'[Main]
    <3>1. \A j \in 1 .. created : handle[j] # "record" => exec[j] = "ended" \/ j \in held[Main]
      BY <1>1 DEF Orderly
    <3>2. CASE UNCHANGED <<handle, held>>
      BY <3>1, <3>2
    <3>3. CASE handle' = [handle EXCEPT ![i] = "local"] /\ held' = [held EXCEPT ![Main] = @ \cup {i}]
      <4>1. /\ held'[Main] = held[Main] \cup {i} /\ handle'[i] = "local"
            /\ \A j \in Ids : j # i => handle'[j] = handle[j]
        BY <1>0, <3>3 DEF TypeOK
      <4> QED
        BY <1>2, <3>1, <4>1
    <3>4. CASE /\ UNCHANGED handle /\ held' = [held EXCEPT ![Main] = {}]
               /\ \A j \in held[Main] : exec[j] = "ended"
      BY <3>1, <3>4
    <3> QED
      BY <2>4, <3>2, <3>3, <3>4
  <2>6. call'[Main].at \in JoinPlaces \cup TimedPlaces => call'[Main].id = i
    <3>1. CASE Done(Main, i)
      BY <1>0, <3>1, CallGuards, MainApart DEF Done, callers, JoinPlaces, TimedPlaces
    <3>2. CASE TimedLook(Main, i)
      <4>1. \/ \E p \in TimedPlaces : Goto(Main, p, i)
            \/ UNCHANGED call /\ call[Main] = Script
        BY <1>0, <3>2, CallGuards DEF TimedLook, callers, TimedPlaces
      <4> QED
        BY <1>0, <4>1, Moves, MainApart DEF JoinPlaces, TimedPlaces
    <3>3. CASE ~ Done(Main, i) /\ ~ TimedLook(Main, i)
      <4>1. Return(Main) \/ \E p : Goto(Main, p, i)
        BY <1>5, <2>1, <3>3 DEF CallerStep, JoinMark, JoinFinished, JoinLook, JoinWait, JoinNative,
                  JoinFinal, TimedMark, TimedWait, TimedRevert, TimedOut
      <4> QED
        BY <1>0, <4>1, Moves DEF JoinPlaces, TimedPlaces
    <3> QED
      BY <3>1, <3>2, <3>3
  <2>7. call'[Main].at \in {"join.wait", "join.native", "join.final", "timed.native", "timed.final"} =>
           handle'[i] # "record"
    <3>1. TakeHandle(Main, i) => handle'[i] # "record"
      BY <1>0 DEF TakeHandle, TypeOK
    <3>2. CASE JoinFinished(Main, i) \/ TimedWait(Main, i)
      BY <3>1, <3>2 DEF JoinFinished, TimedWait
    <3>3. CASE JoinLook(Main, i)
      BY <1>0, <3>1, <3>3, Moves DEF JoinLook
    <3>4. CASE TimedLook(Main, i)
      <4>1. TakeHandle(Main, i) \/ Goto(Main, "timed.mark", i) \/ (UNCHANGED call /\ call[Main] = Script)
        BY <1>0, <3>4, CallGuards DEF TimedLook, callers
      <4> QED
        BY <1>0, <3>1, <4>1, Moves, MainApart
    <3>5. CASE JoinWait(Main, i) \/ JoinNative(Main, i)
      <4>1. \E p \in {"join.wait", "join.native", "timed.native"} : In(Main, p, i)
        BY <3>5 DEF JoinWait, JoinNative
      <4>2. handle[i] # "record"
        BY <1>0, <1>1, <4>1, CallGuards DEF Orderly
      <4> QED
        BY <2>5, <4>2
    <3>6. CASE JoinFinal(Main, i) \/ TimedRevert(Main, i) \/ Done(Main, i)
      <4>1. call'[Main].at = "script"
        BY <1>0, <3>6, CallGuards, Moves, MainApart DEF JoinFinal, TimedRevert, Done, callers
      <4> QED
        BY <4>1
    <3>7. CASE JoinMark(Main, i) \/ TimedMark(Main, i) \/ TimedOut(Main, i)
      <4>1. call'[Main].at \in {"join.look", "timed.wait", "timed.revert", "script"}
        BY <1>0, <3>7, Moves DEF JoinMark, TimedMark, TimedOut
      <4> QED
        BY <4>1
    <3> QED
      BY <1>5, <2>1, <3>2, <3>3, <3>4, <3>5, <3>6, <3>7 DEF CallerStep
  <2>8. ASSUME NEW j \in Ids, state'[j] = "Joined" PROVE handle'[j] # "record"
    <3>1. CASE state[j] = "Joined"
      BY <1>1, <2>5, <3>1 DEF Orderly
    <3>2. CASE state[j] # "Joined"
      <4>1. JoinFinal(Main, i) /\ j = i
        <5>1. \/ UNCHANGED state
              \/ \E s \in {"Running", "Joining"} : state' = [state EXCEPT ![i] = s]
              \/ JoinFinal(Main, i) /\ state' = [state EXCEPT ![i] = "Joined"]
          BY <1>5, <2>1 DEF CallerStep, JoinMark, JoinFinished, TimedLook, Done, JoinLook, JoinWait, JoinNative,
                  JoinFinal, TimedMark, TimedWait, TimedRevert, TimedOut, records
        <5> QED
          BY <1>0, <2>8, <3>2, <5>1 DEF TypeOK
      <4>2. In(Main, "join.final", i) \/ In(Main, "timed.final", i)
        BY <4>1 DEF JoinFinal
      <4>3. handle[i] # "record"
        BY <1>0, <1>1, <4>2, CallGuards DEF Orderly
      <4> QED
        BY <2>5, <4>1, <4>3
    <3> QED
      BY <3>1, <3>2
  <2>9. \A j \in freed : exec[j] = "ended"
    BY <1>1 DEF Orderly
  <2>10. call'[Main].at \in {"join.wait", "join.native", "join.final", "timed.native", "timed.final"} =>
           handle'[call'[Main].id] # "record"
    BY <2>6, <2>7 DEF JoinPlaces, TimedPlaces
  <2> QED
    BY <2>1, <2>2, <2>3, <2>5, <2>6, <2>8, <2>9, <2>10 DEF Orderly
\* ... that take every handle and join them all, ...
<1>6. ASSUME NEW c \in Callers, WaitAll(c) PROVE Orderly'
  <2>1. PICK mine \in SUBSET Ids :
          /\ mine = {i \in table \ detached : handle[i] = "record"}
          /\ handle' = [i \in Ids |-> IF i \in mine THEN "local" ELSE handle[i]]
          /\ held' = [held EXCEPT ![c] = mine]
          /\ state' = [i \in Ids |-> IF i \in mine /\ state[i] \in {"Running", "Done"}
                                     THEN "Joined" ELSE state[i]]
          /\ Goto(c, "wait_all", 0) /\ UNCHANGED <<created, table, freed, exec, ub>>
    <3>1. {i \in table \ detached : handle[i] = "record"} \in SUBSET Ids
      BY <1>2
    <3> QED
      BY <1>6, <3>1 DEF WaitAll, workers
  <2>2. c = Main /\ held[Main] = {} /\ held'[Main] = mine /\ call'[Main].at = "wait_all"
    <3>1. c = Main /\ call[Main] = Script
      BY <1>0, <1>6, MainAlone DEF WaitAll
    <3>2. held'[Main] = mine
      BY <1>0, <2>1, <3>1 DEF TypeOK
    <3> QED
      BY <1>0, <2>1, <3>1, <3>2, NoHandles, Moves
  <2>3. ASSUME NEW i \in 1 .. created, handle'[i] # "record" PROVE exec'[i] = "ended" \/ i \in held'[Main]
    BY <1>1, <1>2, <2>1, <2>2, <2>3 DEF Orderly
  <2>4. \A i \in Ids : state'[i] = "Joined" => handle'[i] # "record"
    BY <1>1, <2>1 DEF Orderly
  <2> QED
    BY <1>1, <2>1, <2>2, <2>3, <2>4 DEF Orderly, JoinPlaces, TimedPlaces
<1>7. ASSUME NEW c \in Callers, WaitAllDone(c) PROVE Orderly'
  <2>1. /\ c = Main /\ UNCHANGED <<created, table, freed, state, handle, exec, ub>>
        /\ Return(Main) /\ \A i \in held[Main] : exec[i] = "ended"
    <3>1. In(c, "wait_all", 0)
      BY <1>7 DEF WaitAllDone
    <3>2. c = Main
      BY <1>0, <3>1, MainAlone
    <3> QED
      BY <1>7, <3>2 DEF WaitAllDone, JoinAll, records, workers
  <2>2. call'[Main].at = "script"
    BY <1>0, <2>1, Moves
  <2> QED
    BY <1>1, <2>1, <2>2 DEF Orderly, JoinPlaces, TimedPlaces
<1>8. ASSUME NEW c \in Callers, WaitAllSelf(c) PROVE Orderly'
  <2>1. In(c, "wait_all", 0) /\ c \in held[c]
    BY <1>8 DEF WaitAllSelf
  <2>2. c = Main /\ held[c] \subseteq Ids
    BY <1>0, <2>1, MainAlone DEF TypeOK
  <2> QED
    BY <1>0, <2>1, <2>2
\* ... and that erase records.
<1>9. ASSUME NEW c \in Callers, Gc(c) \/ GcAll(c) PROVE Orderly'
  <2>1. c = Main /\ call[Main] = Script
    BY <1>0, <1>9, MainAlone DEF Gc, GcAll, Collect
  <2>2. PICK ids \in SUBSET table :
          /\ Retire(ids) /\ UNCHANGED <<created, state, call, held, exec, ub>>
          /\ \A i \in ids : state[i] = "Joined"
    <3>1. CASE Gc(c)
      <4>1. {i \in table \cap detached : state[i] = "DetachedDone"} = {} /\ {} \in SUBSET table
        BY DEF Attached
      <4> QED
        BY <3>1, <4>1 DEF Gc, Collect, workers, callers
    <3>2. CASE GcAll(c)
      <4> DEFINE joined == {i \in table : state[i] \in {"DetachedDone", "Joined"}}
      <4>1. joined \in SUBSET table /\ \A i \in joined : state[i] = "Joined"
        BY <1>2 DEF Attached
      <4>2. Retire(joined) /\ UNCHANGED <<created, state, call, held, exec, ub>>
        BY <3>2 DEF GcAll, Collect, workers, callers
      <4> HIDE DEF joined
      <4> QED
        BY <4>1, <4>2
    <3> QED
      BY <1>9, <3>1, <3>2
  <2>3. \A i \in ids : handle[i] # "record" /\ exec[i] = "ended"
    BY <1>1, <1>2, <1>3, <2>1, <2>2 DEF Orderly
  <2>4. \A i \in Ids : handle'[i] = handle[i]
    BY <2>2, <2>3 DEF Retire
  <2>5. freed' = freed \cup ids /\ table' = table \ ids
    BY <2>2 DEF Retire
  <2>6. call'[Main].at = "script"
    BY <2>1, <2>2, MainApart
  <2> QED
    BY <1>1, <1>2, <2>2, <2>3, <2>4, <2>5, <2>6 DEF Orderly, JoinPlaces, TimedPlaces
<1>10. ASSUME NEW c \in Callers, NEW i \in Ids, Remove(c, i) PROVE Orderly'
  <2>1. c = Main /\ call[Main] = Script
    BY <1>0, <1>10, MainAlone DEF Remove
  <2>2. i \in table /\ handle[i] # "record"
    BY <1>10 DEF Remove, Removable, Attached
  <2>3. /\ UNCHANGED <<created, state, handle, exec, call, held, ub>>
        /\ table' = table \ {i} /\ freed' = freed \cup {i}
    BY <1>10, <2>2 DEF Remove, EraseAll, workers, callers
  <2>4. exec[i] = "ended" /\ call'[Main].at = "script"
    BY <1>3, <2>1, <2>2, <2>3, MainApart
  <2> QED
    BY <1>1, <2>3, <2>4 DEF Orderly, JoinPlaces, TimedPlaces
<1>11. ASSUME NEW c \in Callers, NEW i \in Ids, RemoveForce(c, i) PROVE Orderly'
  BY <1>0, <1>11, MainAlone DEF RemoveForce
<1>12. ASSUME NEW c \in Callers, NEW i \in Ids, Register(c, i) PROVE Orderly'
  <2>1. /\ UNCHANGED <<created, freed, state, handle, exec, held, ub>> /\ table' = table \cup {i}
        /\ Return(c)
    BY <1>12 DEF Register, Enroll, records, workers
  <2>2. call'[Main] = call[Main] \/ call'[Main].at = "script"
    BY <1>0, <2>1, Moves
  <2> QED
    BY <1>1, <2>1, <2>2 DEF Orderly, JoinPlaces, TimedPlaces
<1>13. ASSUME NEW i \in Ids, WorkerStart(i) \/ WorkerLoad(i) \/ WorkerStore(i) \/ WorkerSignal(i)
       PROVE  Orderly'
  <2>1. /\ UNCHANGED <<created, table, freed, handle, call, held>> /\ Touch(i) /\ exec[i] # "ended"
    BY <1>13 DEF WorkerStart, WorkerLoad, WorkerStore, WorkerSignal, records, callers
  <2>2. \A j \in Ids : j # i => exec'[j] = exec[j]
    BY <1>0, <1>13 DEF WorkerStart, WorkerLoad, WorkerStore, WorkerSignal, TypeOK
  <2>3. i \notin freed /\ ub' = {}
    BY <1>1, <2>1 DEF Orderly, Touch
  <2>4. \A j \in Ids : state'[j] = "Joined" => state[j] = "Joined" \/ (EndState(prev[j]) # prev[j] /\ EndState(prev[j]) = "Joined")
    BY <1>0, <1>13 DEF WorkerStart, WorkerLoad, WorkerStore, WorkerSignal, records, TypeOK
  <2>5. \A j \in Ids : state'[j] = "Joined" => state[j] = "Joined"
    BY <2>4 DEF EndState
  <2> QED
    BY <1>1, <1>2, <2>1, <2>2, <2>3, <2>5 DEF Orderly
<1>14. CASE Leave \/ ParkTake \/ ParkJoin \/ ParkCheck
  <2>1. PICK p \in Parking : Goto(Main, p, 0)
    BY <1>14 DEF Leave, ParkTake, ParkJoin, ParkCheck, AfterRound, Parking
  <2> QED
    BY <1>0, <2>1, Moves DEF Inside
<1>15. CASE UNCHANGED vars
  BY <1>1, <1>15 DEF vars, records, workers, callers, Orderly
<1> QED
  BY <1>0, <1>4, <1>5, <1>6, <1>7, <1>8, <1>9, <1>10, <1>11, <1>12, <1>13, <1>14, <1>15, NextCases
  DEF CallerStep

\* Until run() leaves, no builtin and no worker reaches an erased record and
\* nothing joinable is destroyed, when workers only start workers and nothing
\* is detached or removed by force.
THEOREM SafeInside ==
  ASSUME Plain
  PROVE  Spec => []SafeUntilExit
<1>1. Init => Attached /\ Orderly
  <2> SUFFICES ASSUME Init PROVE Attached /\ Orderly
    OBVIOUS
  <2>1. 1 .. created = {} /\ \A c \in Callers : call[c] = Script
    BY DEF Init
  <2> QED
    BY <2>1, MainApart, NatIds DEF Init, Attached, Orderly, JoinPlaces, TimedPlaces
<1>2. Sound /\ Attached /\ [Next]_vars => Attached'
  BY NextAttached DEF Sound
<1>3. Sound /\ Attached /\ (Inside => Orderly) /\ [Next]_vars => (Inside => Orderly)'
  BY NextOrderly
<1>4. (Inside => Orderly) => SafeUntilExit
  BY DEF Inside, Orderly, SafeUntilExit
<1> QED
  BY <1>1, <1>2, <1>3, <1>4, Soundness, PTL DEF Spec
=============================================================================
