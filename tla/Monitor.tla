------------------------------ MODULE Monitor -------------------------------
(* File monitors: monitor_add starts a thread that polls a file, monitor_remove
   and the static destructor unlink a record, tell its thread to stop and join
   it.  All monitors of the model watch one file. *)
EXTENDS Naturals, FiniteSets

CONSTANTS MonIds,     \* bound: monitors ever added, in this order
          MonCallers, \* threads that use the builtins
          MonEdits    \* bound: times the file is written, removed or restored

ASSUME MonAssumption == MonIds \subseteq Nat \ {0} /\ MonEdits \in Nat

VARIABLES monTable,  \* g_monitors: published ids
          monRec,    \* id -> what the record holds
          monPc,     \* id -> where the thread of the record is
          monSample, \* id -> locals of the polling loop
          monCall,   \* caller -> what it is doing
          monFile    \* the watched file; edits counts its versions (ghost)

monVars == <<monTable, monRec, monPc, monSample, monCall, monFile>>

NoId == 0
Missing == [mtime |-> 0, size |-> 0, hash |-> 0]
(* A sample remembers the version it began at, for ChangesRecorded only. *)
EmptySample == [mtime |-> 0, size |-> 0, hash |-> 0, since |-> monFile.edits]
FileNow == IF monFile.exists
           THEN [mtime |-> monFile.edits + 1, size |-> 1 + (monFile.edits % 2), hash |-> monFile.edits + 1]
           ELSE Missing
Running(i) == monRec[i].running
Alive(i) == monPc[i] \notin {"none", "done"}
NotCalling == [at |-> "idle", id |-> NoId]

-----------------------------------------------------------------------------
(* The builtins.  The thread runs before the record is published. *)

AddStart(c, i) ==
  /\ monCall[c] = NotCalling
  /\ monPc[i] = "none" /\ \A j \in MonIds : j < i => monPc[j] # "none"
  /\ monPc' = [monPc EXCEPT ![i] = "start"]
  /\ monCall' = [monCall EXCEPT ![c] = [at |-> "publish", id |-> i]]
  /\ UNCHANGED <<monTable, monRec, monSample, monFile>>

AddPublish(c) ==
  /\ monCall[c].at = "publish"
  /\ monTable' = monTable \cup {monCall[c].id}
  /\ monCall' = [monCall EXCEPT ![c] = NotCalling]
  /\ UNCHANGED <<monRec, monPc, monSample, monFile>>

(* monitor_remove of a handle, and each round of stop_all_monitors. *)
UnlinkedNothing(i) == monTable
Unlinked(i) == monTable \ {i}
RemoveUnlink(c, i) ==
  /\ monCall[c] = NotCalling /\ i \in monTable
  /\ monTable' = Unlinked(i)
  /\ monCall' = [monCall EXCEPT ![c] = [at |-> "stop", id |-> i]]
  /\ UNCHANGED <<monRec, monPc, monSample, monFile>>

RemoveStop(c) ==
  /\ monCall[c].at = "stop"
  /\ monRec' = [monRec EXCEPT ![monCall[c].id].running = FALSE]
  /\ monCall' = [monCall EXCEPT ![c].at = "join"]
  /\ UNCHANGED <<monTable, monPc, monSample, monFile>>

Joined(i) == monPc[i] = "done"
RemoveJoin(c) ==
  /\ monCall[c].at = "join" /\ Joined(monCall[c].id)
  /\ monRec' = [monRec EXCEPT ![monCall[c].id].alive = FALSE]
  /\ monCall' = [monCall EXCEPT ![c] = NotCalling]
  /\ UNCHANGED <<monTable, monPc, monSample, monFile>>

-----------------------------------------------------------------------------
(* run_monitor_loop.  Every field of a sample is a system call of its own; one
   that fails leaves the rest of the sample at zero. *)

Goto(i, pc) == monPc' = [monPc EXCEPT ![i] = pc]
OnlyLoop == UNCHANGED <<monTable, monCall, monFile>>

Begin(i) ==
  /\ monPc[i] = "start" /\ Goto(i, "poll") /\ OnlyLoop
  /\ monRec' = [monRec EXCEPT ![i].running = TRUE]
  /\ UNCHANGED monSample

Poll(i) ==
  /\ monPc[i] = "poll" /\ OnlyLoop /\ UNCHANGED monRec
  /\ monSample' = [monSample EXCEPT ![i] = EmptySample]
  /\ Goto(i, IF ~Running(i) THEN "done" ELSE IF monFile.exists THEN "size" ELSE "compare")

Read(i, field, next) ==
  /\ monPc[i] = field /\ OnlyLoop /\ UNCHANGED monRec
  /\ Goto(i, IF monFile.exists THEN next ELSE "compare")
  /\ monSample' = [monSample EXCEPT ![i][field] = FileNow[field]]

DiffersInHash(i) == monSample[i].hash # 0 /\ monSample[i].hash # monRec[i].hash
Differs(i) ==
  LET s == monSample[i] r == monRec[i] IN
  s.mtime # r.mtime \/ s.size # r.size \/ (s.hash # 0 /\ s.hash # r.hash)

Compare(i) ==
  LET s == monSample[i] r == monRec[i] IN
  /\ monPc[i] = "compare" /\ Goto(i, "sleep") /\ OnlyLoop /\ UNCHANGED monSample
  /\ monRec' = IF ~Differs(i) THEN monRec
               ELSE [monRec EXCEPT ![i].mtime = s.mtime, ![i].size = s.size,
                                   ![i].hash = IF s.hash # 0 THEN s.hash ELSE @]

(* The sleep is cut into slices and looks at running before each. *)
Sleep(i) == monPc[i] = "sleep" /\ Goto(i, "poll") /\ OnlyLoop /\ UNCHANGED <<monRec, monSample>>

Thread(i) ==
  Begin(i) \/ Poll(i) \/ Read(i, "size", "mtime") \/ Read(i, "mtime", "hash")
    \/ Read(i, "hash", "compare") \/ Compare(i) \/ Sleep(i)

EditFile ==
  /\ monFile.edits < MonEdits
  /\ \E e \in BOOLEAN : monFile' = [exists |-> e, edits |-> monFile.edits + 1]
  /\ UNCHANGED <<monTable, monRec, monPc, monSample, monCall>>

MonInit ==
  /\ monTable = {} /\ monFile = [exists |-> TRUE, edits |-> 0]
  /\ monRec = [i \in MonIds |-> [running |-> FALSE, alive |-> TRUE, mtime |-> 0, size |-> 0, hash |-> 0]]
  /\ monPc = [i \in MonIds |-> "none"] /\ monSample = [i \in MonIds |-> EmptySample]
  /\ monCall = [c \in MonCallers |-> NotCalling]

Finish(c) == AddPublish(c) \/ RemoveStop(c) \/ RemoveJoin(c)
MonNext ==
  \/ \E c \in MonCallers : Finish(c) \/ \E i \in MonIds : AddStart(c, i) \/ RemoveUnlink(c, i)
  \/ \E i \in MonIds : Thread(i)
  \/ EditFile

MonSpec == MonInit /\ [][MonNext]_monVars

-----------------------------------------------------------------------------
MonTypeOK ==
  /\ monTable \subseteq MonIds
  /\ \A c \in MonCallers : monCall[c].id \in MonIds \cup {NoId}
  /\ monFile.edits \in 0..MonEdits

(* A record is destroyed once, and never under a thread that may still use it:
   a thread that lives has its record in the table, or with exactly one caller
   who is adding or removing it. *)
ThreadsAccounted ==
  \A i \in MonIds : Alive(i) =>
    /\ monRec[i].alive
    /\ Cardinality({c \in MonCallers : monCall[c].id = i}) = IF i \in monTable THEN 0 ELSE 1

(* A sample during which the file rested leaves the monitor with the size of the
   file and, where it can be read, its hash, whatever mixture of versions the
   samples before it stored. *)
Recorded(i) ==
  /\ monRec[i].size = FileNow.size
  /\ FileNow.hash # 0 => monRec[i].hash = FileNow.hash
ChangesRecorded ==
  \A i \in MonIds : monPc[i] = "sleep" /\ monSample[i].since = monFile.edits => Recorded(i)
=============================================================================
