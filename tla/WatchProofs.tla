---------------------------- MODULE WatchProofs -----------------------------
(***************************************************************************)
(* Theorems about the components that watch something for somebody else.  *)
(*                                                                         *)
(* Monitor, for any number of monitors, callers and edits: types, who owns *)
(* the record of a thread, and what a sample of a file at rest leaves.     *)
(*                                                                         *)
(* Debugger, for any program and any changes of its breakpoints: what is   *)
(* under way on the two pipes, the stops that the editor gets to see, and  *)
(* the breakpoints that the interpreter knows.                             *)
(***************************************************************************)
EXTENDS Monitor, Debugger, FiniteSetTheorems, SequenceTheorems, TLAPS

-----------------------------------------------------------------------------
(* Monitor. *)

Records == [running : BOOLEAN, alive : BOOLEAN, mtime : Nat, size : Nat, hash : Nat]
Samples == [mtime : Nat, size : Nat, hash : Nat, since : Nat]
Busy == [at : {"publish", "stop", "join"}, id : MonIds]
Calls == {NotCalling} \cup Busy
Pcs == {"none", "start", "poll", "size", "mtime", "hash", "compare", "sleep", "done"}

MonTyped ==
  /\ monTable \subseteq MonIds
  /\ monRec \in [MonIds -> Records]
  /\ monPc \in [MonIds -> Pcs]
  /\ monSample \in [MonIds -> Samples]
  /\ monCall \in [MonCallers -> Calls]
  /\ monFile \in [exists : BOOLEAN, edits : 0 .. MonEdits]

LEMMA FileTyped ==
  ASSUME MonTyped
  PROVE  /\ monFile.edits \in Nat /\ monFile.exists \in BOOLEAN
         /\ FileNow.size \in Nat /\ FileNow.mtime \in Nat /\ FileNow.hash \in Nat
         /\ EmptySample \in Samples
<1>1. monFile.edits \in Nat /\ monFile.exists \in BOOLEAN /\ monFile.edits % 2 \in Nat
  BY MonAssumption DEF MonTyped
<1> QED
  BY <1>1 DEF FileNow, Missing, Samples, EmptySample

LEMMA MonInitTyped == MonInit => MonTyped
<1> SUFFICES ASSUME MonInit PROVE MonTyped
  OBVIOUS
<1>1. monFile = [exists |-> TRUE, edits |-> 0] /\ 0 \in 0 .. MonEdits
  BY MonAssumption DEF MonInit
<1>2. EmptySample \in Samples
  BY <1>1 DEF EmptySample, Samples
<1>3. NotCalling \in Calls
  BY DEF NotCalling, Calls
<1>4. [running |-> FALSE, alive |-> TRUE, mtime |-> 0, size |-> 0, hash |-> 0] \in Records
  BY DEF Records
<1> HIDE DEF MonTyped
<1> QED
  BY <1>1, <1>2, <1>3, <1>4 DEF MonInit, MonTyped, Pcs

LEMMA MonNextTyped == MonTyped /\ [MonNext]_monVars => MonTyped'
<1> SUFFICES ASSUME MonTyped, [MonNext]_monVars PROVE MonTyped'
  OBVIOUS
<1>0. /\ \A i \in MonIds : monRec[i] \in Records /\ monPc[i] \in Pcs /\ monSample[i] \in Samples
      /\ \A c \in MonCallers : monCall[c] \in Calls
  BY DEF MonTyped
<1>c. \A c \in MonCallers : monCall[c].at \in {"publish", "stop", "join"} =>
        monCall[c] \in Busy /\ monCall[c].id \in MonIds
  BY <1>0 DEF Calls, Busy, NotCalling
<1>f. /\ FileNow.size \in Nat /\ FileNow.mtime \in Nat /\ FileNow.hash \in Nat /\ EmptySample \in Samples
  BY FileTyped
\* Only the state of one caller, and what it does to the table and a record.
<1>a. ASSUME NEW c \in MonCallers, NEW r \in Calls, monCall' = [monCall EXCEPT ![c] = r],
             monTable' \subseteq MonIds, monRec' \in [MonIds -> Records], monPc' \in [MonIds -> Pcs],
             UNCHANGED <<monSample, monFile>>
      PROVE  MonTyped'
  BY <1>a DEF MonTyped
\* Only the thread of one monitor.
<1>b. ASSUME NEW i \in MonIds, NEW pc \in Pcs, Goto(i, pc), OnlyLoop,
             monRec' \in [MonIds -> Records], monSample' \in [MonIds -> Samples]
      PROVE  MonTyped'
  BY <1>b DEF Goto, OnlyLoop, MonTyped
<1>1. ASSUME NEW c \in MonCallers, NEW i \in MonIds, AddStart(c, i) PROVE MonTyped'
  <2>1. [at |-> "publish", id |-> i] \in Calls
    BY DEF Calls, Busy
  <2> QED
    BY <1>1, <1>a, <2>1 DEF AddStart, MonTyped, Pcs
<1>2. ASSUME NEW c \in MonCallers, NEW i \in MonIds, RemoveUnlink(c, i) PROVE MonTyped'
  <2>1. [at |-> "stop", id |-> i] \in Calls
    BY DEF Calls, Busy
  <2> QED
    BY <1>2, <1>a, <2>1 DEF RemoveUnlink, Unlinked, MonTyped
<1>3. ASSUME NEW c \in MonCallers, AddPublish(c) PROVE MonTyped'
  BY <1>3, <1>a, <1>c DEF AddPublish, MonTyped, Calls
<1>4. ASSUME NEW c \in MonCallers, RemoveStop(c) PROVE MonTyped'
  <2>1. monCall[c].at = "stop" /\ monCall[c] \in Busy /\ monCall[c].id \in MonIds
    BY <1>4, <1>c DEF RemoveStop
  <2>2. [monCall[c] EXCEPT !.at = "join"] \in Calls
    BY <2>1 DEF Busy, Calls
  <2>3. monCall' = [monCall EXCEPT ![c] = [monCall[c] EXCEPT !.at = "join"]]
    BY <1>4 DEF RemoveStop
  <2>4. monRec' \in [MonIds -> Records]
    BY <1>0, <1>4, <2>1 DEF RemoveStop, MonTyped, Records
  <2> QED
    BY <1>4, <1>a, <2>2, <2>3, <2>4 DEF RemoveStop, MonTyped
<1>5. ASSUME NEW c \in MonCallers, RemoveJoin(c) PROVE MonTyped'
  <2>1. monCall[c].id \in MonIds
    BY <1>5, <1>c DEF RemoveJoin
  <2>2. monRec' \in [MonIds -> Records]
    BY <1>0, <1>5, <2>1 DEF RemoveJoin, MonTyped, Records
  <2> QED
    BY <1>5, <1>a, <2>2 DEF RemoveJoin, MonTyped, Calls
<1>6. ASSUME NEW i \in MonIds, Begin(i) PROVE MonTyped'
  <2>1. monRec' \in [MonIds -> Records]
    BY <1>0, <1>6 DEF Begin, MonTyped, Records
  <2> QED
    BY <1>6, <1>b, <2>1 DEF Begin, MonTyped, Pcs
<1>7. ASSUME NEW i \in MonIds, Poll(i) PROVE MonTyped'
  <2>1. monSample' \in [MonIds -> Samples]
    BY <1>7, <1>f DEF Poll, MonTyped
  <2> DEFINE pc == IF ~Running(i) THEN "done" ELSE IF monFile.exists THEN "size" ELSE "compare"
  <2>2. pc \in Pcs /\ Goto(i, pc)
    BY <1>7 DEF Poll, Pcs
  <2> QED
    BY <1>7, <1>b, <2>1, <2>2 DEF Poll, MonTyped
<1>8. ASSUME NEW i \in MonIds, NEW field \in {"size", "mtime", "hash"}, NEW next \in Pcs, Read(i, field, next)
      PROVE  MonTyped'
  <2>1. FileNow[field] \in Nat
    BY <1>f
  <2>2. monSample' \in [MonIds -> Samples]
    BY <1>0, <1>8, <2>1 DEF Read, MonTyped, Samples
  <2>3. (IF monFile.exists THEN next ELSE "compare") \in Pcs
    BY DEF Pcs
  <2> QED
    BY <1>8, <1>b, <2>2, <2>3 DEF Read, MonTyped
<1>9. ASSUME NEW i \in MonIds, Compare(i) PROVE MonTyped'
  <2> DEFINE s == monSample[i]
             r == [monRec[i] EXCEPT !.mtime = s.mtime, !.size = s.size,
                                    !.hash = IF s.hash # 0 THEN s.hash ELSE monRec[i].hash]
  <2>0. r \in Records
    BY <1>0 DEF Records, Samples
  <2>1. monRec' \in [MonIds -> Records]
    <3>1. monRec' = monRec \/ monRec' = [monRec EXCEPT ![i] = r]
      BY <1>9 DEF Compare
    <3> HIDE DEF r
    <3> QED
      BY <2>0, <3>1 DEF MonTyped
  <2> QED
    BY <1>9, <1>b, <2>1 DEF Compare, MonTyped, Pcs
<1>10. ASSUME NEW i \in MonIds, Sleep(i) PROVE MonTyped'
  BY <1>10, <1>b DEF Sleep, MonTyped, Pcs
<1>11. CASE EditFile
  <2>1. PICK e \in BOOLEAN : monFile' = [exists |-> e, edits |-> monFile.edits + 1]
    BY <1>11 DEF EditFile
  <2>2. monFile.edits + 1 \in 0 .. MonEdits
    BY <1>11, MonAssumption DEF EditFile, MonTyped
  <2> QED
    BY <1>11, <2>1, <2>2 DEF EditFile, MonTyped
<1>12. CASE UNCHANGED monVars
  BY <1>12 DEF monVars, MonTyped
<1>13. ASSUME NEW i \in MonIds, Thread(i) PROVE MonTyped'
  BY <1>6, <1>7, <1>8, <1>9, <1>10, <1>13 DEF Thread, Pcs
<1> QED
  BY <1>1, <1>2, <1>3, <1>4, <1>5, <1>11, <1>12, <1>13 DEF MonNext, Finish

LEMMA MonAlwaysTyped == MonSpec => []MonTyped
BY MonInitTyped, MonNextTyped, PTL DEF MonSpec

\* Every reachable state is well typed.
THEOREM MonTypeCorrect == MonSpec => []MonTypeOK
<1>1. MonTyped => MonTypeOK
  BY DEF MonTyped, MonTypeOK, Calls, Busy, NotCalling
<1> QED
  BY <1>1, MonAlwaysTyped, PTL

-----------------------------------------------------------------------------
(***************************************************************************)
(* Records.  A monitor that has been started is in the table, or the       *)
(* caller who adds or removes it has it, or it has been removed; no two    *)
(* callers have the same one.                                              *)
(***************************************************************************)
Has(c, i) == monCall[c].id = i
Owned ==
  /\ \A i \in MonIds :
       /\ monPc[i] = "none" => i \notin monTable /\ \A c \in MonCallers : ~Has(c, i)
       /\ i \in monTable => \A c \in MonCallers : ~Has(c, i)
       /\ Alive(i) => i \in monTable \/ \E c \in MonCallers : Has(c, i)
       /\ ~monRec[i].alive => monPc[i] = "done"
  /\ \A c, d \in MonCallers : \A i \in MonIds : Has(c, i) /\ Has(d, i) => c = d

LEMMA NextOwned == MonTyped /\ Owned /\ [MonNext]_monVars => Owned'
<1> SUFFICES ASSUME MonTyped, Owned, [MonNext]_monVars PROVE Owned'
  OBVIOUS
<1>0. /\ \A i \in MonIds : monRec[i] \in Records /\ monPc[i] \in Pcs
      /\ \A c \in MonCallers : monCall[c] \in Calls
      /\ NoId \notin MonIds /\ NotCalling.id = NoId
  BY MonAssumption DEF MonTyped, NoId, NotCalling
<1>c. \A c \in MonCallers : monCall[c].at \in {"publish", "stop", "join"} =>
        monCall[c] \in Busy /\ monCall[c].id \in MonIds
  BY <1>0 DEF Calls, Busy, NotCalling
<1>1. ASSUME NEW c \in MonCallers, NEW i \in MonIds, AddStart(c, i) PROVE Owned'
  <2> DEFINE r == [at |-> "publish", id |-> i]
  <2>0. r.id = i /\ monCall' = [monCall EXCEPT ![c] = r]
    BY <1>1 DEF AddStart
  <2> HIDE DEF r
  <2>m. \A d \in MonCallers : monCall'[d].id = IF d = c THEN i ELSE monCall[d].id
    BY <2>0 DEF MonTyped
  <2>1. monPc[i] = "none" /\ monPc' = [monPc EXCEPT ![i] = "start"] /\ UNCHANGED <<monTable, monRec>>
        /\ monCall[c].id = NoId
    BY <1>0, <1>1 DEF AddStart
  <2>2. \A j \in MonIds : monPc'[j] = IF j = i THEN "start" ELSE monPc[j]
    BY <2>1 DEF MonTyped
  <2>3. i \notin monTable /\ \A d \in MonCallers : monCall[d].id # i
    BY <2>1 DEF Owned, Has
  <2>4. ASSUME NEW j \in MonIds
        PROVE  /\ monPc'[j] = "none" => j \notin monTable' /\ \A d \in MonCallers : ~Has(d, j)'
               /\ j \in monTable' => \A d \in MonCallers : ~Has(d, j)'
               /\ ~monRec'[j].alive => monPc'[j] = "done"
               /\ Alive(j)' => j \in monTable' \/ \E d \in MonCallers : Has(d, j)'
    <3>1. CASE j = i
      BY <2>m, <2>1, <2>2, <2>3, <3>1 DEF Owned, Has, Alive
    <3>2. CASE j # i
      <4>1. \A d \in MonCallers : Has(d, j)' <=> Has(d, j)
        BY <1>0, <2>m, <2>1, <3>2 DEF Has
      <4> QED
        BY <2>1, <2>2, <3>2, <4>1 DEF Owned, Alive
    <3> QED
      BY <3>1, <3>2
  <2>5. \A d, e \in MonCallers : \A j \in MonIds : Has(d, j)' /\ Has(e, j)' => d = e
    BY <1>0, <2>m, <2>1, <2>3 DEF Owned, Has
  <2> QED
    BY <2>4, <2>5 DEF Owned
<1>2. ASSUME NEW c \in MonCallers, NEW i \in MonIds, RemoveUnlink(c, i) PROVE Owned'
  <2> DEFINE r == [at |-> "stop", id |-> i]
  <2>0. r.id = i /\ monCall' = [monCall EXCEPT ![c] = r]
    BY <1>2 DEF RemoveUnlink
  <2> HIDE DEF r
  <2>m. \A d \in MonCallers : monCall'[d].id = IF d = c THEN i ELSE monCall[d].id
    BY <2>0 DEF MonTyped
  <2>n. i \in monTable /\ monTable' = monTable \ {i} /\ UNCHANGED <<monPc, monRec>> /\ monCall[c].id = NoId
    BY <1>0, <1>2 DEF RemoveUnlink, Unlinked
  <2>1. /\ \A d \in MonCallers : monCall'[d].id = IF d = c THEN i ELSE monCall[d].id
        /\ i \in monTable /\ monTable' = monTable \ {i} /\ UNCHANGED <<monPc, monRec>>
        /\ monCall[c].id = NoId
    BY <2>m, <2>n
  <2> QED
    BY <1>0, <2>1 DEF Owned, Has, Alive
<1>3. ASSUME NEW c \in MonCallers, AddPublish(c) PROVE Owned'
  <2>0. monCall' = [monCall EXCEPT ![c] = NotCalling]
    BY <1>3 DEF AddPublish
  <2>m. \A d \in MonCallers : monCall'[d].id = IF d = c THEN NoId ELSE monCall[d].id
    BY <1>0, <2>0 DEF MonTyped
  <2>n. monCall[c].id \in MonIds /\ monTable' = monTable \cup {monCall[c].id} /\ UNCHANGED <<monPc, monRec>>
    BY <1>3, <1>c DEF AddPublish
  <2>1. /\ \A d \in MonCallers : monCall'[d].id = IF d = c THEN NoId ELSE monCall[d].id
        /\ monCall[c].id \in MonIds /\ monTable' = monTable \cup {monCall[c].id} /\ UNCHANGED <<monPc, monRec>>
    BY <2>m, <2>n
  <2> QED
    BY <1>0, <2>1 DEF Owned, Has, Alive
<1>4. ASSUME NEW c \in MonCallers, RemoveStop(c) PROVE Owned'
  <2>1. monCall[c] \in Busy /\ monCall[c].id \in MonIds
    BY <1>4, <1>c DEF RemoveStop
  <2>2. /\ monCall' = [monCall EXCEPT ![c] = [monCall[c] EXCEPT !.at = "join"]]
        /\ [monCall[c] EXCEPT !.at = "join"].id = monCall[c].id
    BY <1>4, <2>1 DEF RemoveStop, Busy
  <2>m. \A d \in MonCallers : monCall'[d].id = IF d = c THEN monCall[c].id ELSE monCall[d].id
    BY <2>2 DEF MonTyped
  <2>3. \A d \in MonCallers : monCall'[d].id = monCall[d].id
    BY <2>m
  <2>4. \A i \in MonIds : monRec'[i].alive = monRec[i].alive
    BY <1>0, <1>4, <2>1 DEF RemoveStop, MonTyped, Records
  <2> QED
    BY <1>4, <2>3, <2>4 DEF RemoveStop, Owned, Has, Alive
<1>5. ASSUME NEW c \in MonCallers, RemoveJoin(c) PROVE Owned'
  <2> DEFINE i == monCall[c].id
  <2>0. monCall' = [monCall EXCEPT ![c] = NotCalling]
    BY <1>5 DEF RemoveJoin
  <2>m. \A d \in MonCallers : monCall'[d].id = IF d = c THEN NoId ELSE monCall[d].id
    BY <1>0, <2>0 DEF MonTyped
  <2>n. i \in MonIds /\ monPc[i] = "done" /\ UNCHANGED <<monPc, monTable>>
    BY <1>5, <1>c DEF RemoveJoin, Joined
  <2>1. /\ \A d \in MonCallers : monCall'[d].id = IF d = c THEN NoId ELSE monCall[d].id
        /\ i \in MonIds /\ monPc[i] = "done" /\ UNCHANGED <<monPc, monTable>>
    BY <2>m, <2>n
  <2>2. \A j \in MonIds : j # i => monRec'[j].alive = monRec[j].alive
    BY <1>0, <1>5, <2>1 DEF RemoveJoin, MonTyped, Records
  <2> QED
    BY <1>0, <2>1, <2>2 DEF Owned, Has, Alive
\* The thread itself gives nothing away and starts nothing.
<1>6. ASSUME NEW i \in MonIds, Thread(i) PROVE Owned'
  <2>1. /\ UNCHANGED <<monTable, monCall>> /\ monPc[i] \notin {"none", "done"}
        /\ \E pc \in Pcs \ {"none"} : Goto(i, pc)
    BY <1>6 DEF Thread, Begin, Poll, Read, Compare, Sleep, OnlyLoop, Pcs
  <2>2. \A j \in MonIds : monPc'[j] # monPc[j] => j = i /\ monPc'[j] # "none"
    BY <2>1 DEF Goto, MonTyped
  <2>3. \A j \in MonIds : monRec'[j].alive = monRec[j].alive
    BY <1>0, <1>6 DEF Thread, Begin, Poll, Read, Compare, Sleep, MonTyped, Records
  <2> QED
    BY <2>1, <2>2, <2>3 DEF Owned, Has, Alive
<1>7. CASE EditFile \/ UNCHANGED monVars
  BY <1>7 DEF EditFile, monVars, Owned, Has, Alive
<1> QED
  BY <1>1, <1>2, <1>3, <1>4, <1>5, <1>6, <1>7 DEF MonNext, Finish

\* For any number of callers that add and remove monitors at the same time, a
\* polling thread that may still use its record finds it there, and exactly one
\* place leads to it: the table, or the one caller who adds or removes it.
THEOREM RecordsOutliveThreads == MonSpec => []ThreadsAccounted
<1>1. MonInit => Owned
  <2> SUFFICES ASSUME MonInit PROVE Owned
    OBVIOUS
  <2>1. NoId \notin MonIds /\ NotCalling.id = NoId
    BY MonAssumption DEF NoId, NotCalling
  <2> QED
    BY <2>1 DEF MonInit, Owned, Has, Alive
<1>2. MonTyped /\ Owned => ThreadsAccounted
  <2> SUFFICES ASSUME MonTyped, Owned, NEW i \in MonIds, Alive(i)
               PROVE  /\ monRec[i].alive
                      /\ Cardinality({c \in MonCallers : monCall[c].id = i}) = IF i \in monTable THEN 0 ELSE 1
    BY DEF ThreadsAccounted
  <2>1. monRec[i].alive
    BY DEF Owned, Alive
  <2> DEFINE having == {c \in MonCallers : monCall[c].id = i}
  <2>2. CASE i \in monTable
    <3>1. having = {}
      BY <2>2 DEF Owned, Has
    <3> QED
      BY <2>1, <2>2, <3>1, FS_EmptySet
  <2>3. CASE i \notin monTable
    <3>1. PICK c \in MonCallers : having = {c}
      <4>1. PICK c \in MonCallers : Has(c, i)
        BY <2>3 DEF Owned
      <4> QED
        BY <4>1 DEF Owned, Has
    <3> QED
      BY <2>1, <2>3, <3>1, FS_Singleton
  <2> QED
    BY <2>2, <2>3
<1> QED
  BY <1>1, <1>2, MonAlwaysTyped, NextOwned, PTL DEF MonSpec

-----------------------------------------------------------------------------
(***************************************************************************)
(* Samples.  While the file stays as it was when the sample began, what    *)
(* has been read of it is what it holds.                                   *)
(***************************************************************************)
Sampled(i) ==
  LET s == monSample[i] IN
  monSample[i].since = monFile.edits =>
    /\ monPc[i] \in {"size", "mtime", "hash"} => monFile.exists
    /\ monPc[i] \in {"mtime", "hash", "compare"} => s.size = FileNow.size
    /\ monPc[i] = "compare" => s.hash = FileNow.hash
    /\ monPc[i] = "sleep" => Recorded(i)
Sampling == \A i \in MonIds : monSample[i].since <= monFile.edits /\ Sampled(i)

LEMMA NextSampling == MonTyped /\ Sampling /\ [MonNext]_monVars => Sampling'
<1> SUFFICES ASSUME MonTyped, Sampling, [MonNext]_monVars PROVE Sampling'
  OBVIOUS
<1>0. \A i \in MonIds : monRec[i] \in Records /\ monPc[i] \in Pcs /\ monSample[i] \in Samples
  BY DEF MonTyped
<1>f. /\ monFile.edits \in Nat /\ monFile.exists \in BOOLEAN
      /\ FileNow.size \in Nat /\ FileNow.mtime \in Nat /\ FileNow.hash \in Nat /\ EmptySample \in Samples
  BY FileTyped
\* The other monitors stay as they are.
<1>a. ASSUME NEW i \in MonIds, NEW pc, Goto(i, pc), UNCHANGED monFile,
             \A j \in MonIds \ {i} : monRec'[j] = monRec[j] /\ monSample'[j] = monSample[j],
             monSample'[i].since <= monFile.edits, Sampled(i)'
      PROVE  Sampling'
  <2>1. ASSUME NEW j \in MonIds \ {i} PROVE monSample'[j].since <= monFile'.edits /\ Sampled(j)'
    <3>1. /\ monPc'[j] = monPc[j] /\ monRec'[j] = monRec[j] /\ monSample'[j] = monSample[j]
      BY <1>a, <2>1 DEF Goto, MonTyped
    <3>2. monSample[j].since <= monFile.edits /\ Sampled(j)
      BY <2>1 DEF Sampling
    <3> QED
      BY <1>a, <3>1, <3>2 DEF Sampled, Recorded, FileNow
  <2> QED
    BY <1>a, <2>1 DEF Sampling
<1>1. ASSUME NEW i \in MonIds, Begin(i) PROVE Sampling'
  <2>1. \A j \in MonIds \ {i} : monRec'[j] = monRec[j] /\ monSample'[j] = monSample[j]
    BY <1>1 DEF Begin, MonTyped
  <2>2. monSample'[i].since <= monFile.edits /\ Sampled(i)'
    BY <1>1 DEF Begin, Goto, OnlyLoop, MonTyped, Sampling, Sampled
  <2> QED
    BY <1>1, <1>a, <2>1, <2>2 DEF Begin, OnlyLoop
<1>2. ASSUME NEW i \in MonIds, Poll(i) PROVE Sampling'
  <2> DEFINE pc == IF ~Running(i) THEN "done" ELSE IF monFile.exists THEN "size" ELSE "compare"
  <2>1. /\ \A j \in MonIds \ {i} : monRec'[j] = monRec[j] /\ monSample'[j] = monSample[j]
        /\ monSample'[i] = EmptySample /\ monPc'[i] = pc /\ Goto(i, pc) /\ UNCHANGED monFile
    BY <1>2 DEF Poll, Goto, OnlyLoop, MonTyped
  <2>2. ~monFile.exists => FileNow.size = 0 /\ FileNow.hash = 0
    BY DEF FileNow, Missing
  <2>3. FileNow' = FileNow
    BY <2>1 DEF FileNow
  <2>4. monSample'[i].since <= monFile.edits /\ Sampled(i)'
    BY <1>f, <2>1, <2>2, <2>3 DEF Sampled, EmptySample
  <2> QED
    BY <1>a, <2>1, <2>4
<1>3. ASSUME NEW i \in MonIds, NEW field \in {"size", "mtime", "hash"}, NEW next, Read(i, field, next),
             \/ field = "size" /\ next = "mtime"
             \/ field = "mtime" /\ next = "hash"
             \/ field = "hash" /\ next = "compare"
      PROVE  Sampling'
  <2> DEFINE pc == IF monFile.exists THEN next ELSE "compare"  r == [monSample[i] EXCEPT ![field] = FileNow[field]]
  <2>0. r.since = monSample[i].since /\ r[field] = FileNow[field]
        /\ (field # "size" => r.size = monSample[i].size)
    BY <1>0 DEF Samples
  <2>1. /\ \A j \in MonIds \ {i} : monRec'[j] = monRec[j] /\ monSample'[j] = monSample[j]
        /\ monSample'[i] = r /\ monPc'[i] = pc /\ Goto(i, pc) /\ UNCHANGED monFile /\ monPc[i] = field
    BY <1>3 DEF Read, Goto, OnlyLoop, MonTyped
  <2> HIDE DEF r
  <2>2. FileNow' = FileNow
    BY <2>1 DEF FileNow
  <2>3. monSample'[i].since <= monFile.edits
    BY <2>0, <2>1 DEF Sampling
  <2>4. Sampled(i)'
    BY <1>3, <2>0, <2>1, <2>2 DEF Sampling, Sampled
  <2> QED
    BY <1>a, <2>1, <2>3, <2>4
<1>4. ASSUME NEW i \in MonIds, Compare(i) PROVE Sampling'
  <2> DEFINE s == monSample[i]
             r == [monRec[i] EXCEPT !.mtime = s.mtime, !.size = s.size,
                                    !.hash = IF s.hash # 0 THEN s.hash ELSE monRec[i].hash]
             q == IF Differs(i) THEN r ELSE monRec[i]
  <2>0. r.size = s.size /\ r.hash = IF s.hash # 0 THEN s.hash ELSE monRec[i].hash
    BY <1>0 DEF Records
  <2>1. q.size = s.size /\ (s.hash # 0 => q.hash = s.hash)
    BY <2>0 DEF Differs
  <2> HIDE DEF r
  <2>2. monRec' = [monRec EXCEPT ![i] = q]
    <3>1. monRec' = IF ~Differs(i) THEN monRec ELSE [monRec EXCEPT ![i] = r]
      BY <1>4 DEF Compare, r
    <3> QED
      BY <3>1 DEF MonTyped
  <2> HIDE DEF q
  <2>3. /\ \A j \in MonIds \ {i} : monRec'[j] = monRec[j] /\ monSample'[j] = monSample[j]
        /\ monSample'[i] = s /\ monRec'[i] = q /\ monPc'[i] = "sleep" /\ Goto(i, "sleep") /\ UNCHANGED monFile
        /\ monPc[i] = "compare"
    BY <1>4, <2>2 DEF Compare, Goto, OnlyLoop, MonTyped
  <2>4. FileNow' = FileNow
    BY <2>3 DEF FileNow
  <2>5. monSample'[i].since <= monFile.edits
    BY <2>3 DEF Sampling
  <2>6. Sampled(i)'
    BY <2>1, <2>3, <2>4 DEF Sampling, Sampled, Recorded
  <2> QED
    BY <1>a, <2>3, <2>5, <2>6
<1>5. ASSUME NEW i \in MonIds, Sleep(i) PROVE Sampling'
  <2>1. \A j \in MonIds \ {i} : monRec'[j] = monRec[j] /\ monSample'[j] = monSample[j]
    BY <1>5 DEF Sleep
  <2>2. monSample'[i].since <= monFile.edits /\ Sampled(i)'
    BY <1>5 DEF Sleep, Goto, OnlyLoop, MonTyped, Sampling, Sampled
  <2> QED
    BY <1>5, <1>a, <2>1, <2>2 DEF Sleep, OnlyLoop
\* What callers store in a record is not what samples do.
<1>6. ASSUME \A i \in MonIds : monRec'[i].size = monRec[i].size /\ monRec'[i].hash = monRec[i].hash,
             \A i \in MonIds : monPc'[i] \in {"size", "mtime", "hash", "compare", "sleep"} => monPc'[i] = monPc[i],
             UNCHANGED <<monSample, monFile>>
      PROVE  Sampling'
  BY <1>6 DEF Sampling, Sampled, Recorded, FileNow
<1>7. ASSUME NEW c \in MonCallers, NEW i \in MonIds, AddStart(c, i) \/ RemoveUnlink(c, i) PROVE Sampling'
  <2>1. \A j \in MonIds : monPc'[j] = monPc[j] \/ monPc'[j] = "start"
    BY <1>7 DEF AddStart, RemoveUnlink, MonTyped
  <2> QED
    BY <1>6, <1>7, <2>1 DEF AddStart, RemoveUnlink
<1>8. ASSUME NEW c \in MonCallers, Finish(c) PROVE Sampling'
  <2>1. \A i \in MonIds : monRec'[i].size = monRec[i].size /\ monRec'[i].hash = monRec[i].hash
    BY <1>0, <1>8 DEF Finish, AddPublish, RemoveStop, RemoveJoin, MonTyped, Records
  <2> QED
    BY <1>6, <1>8, <2>1 DEF Finish, AddPublish, RemoveStop, RemoveJoin
\* A new version of the file makes every sample an old one.
<1>9. CASE EditFile
  <2>1. monFile'.edits = monFile.edits + 1 /\ UNCHANGED monSample
    BY <1>9 DEF EditFile
  <2> QED
    BY <1>0, <1>f, <2>1 DEF Sampling, Sampled, Samples
<1>10. CASE UNCHANGED monVars
  BY <1>6, <1>10 DEF monVars
<1>11. ASSUME NEW i \in MonIds, Thread(i) PROVE Sampling'
  BY <1>1, <1>2, <1>3, <1>4, <1>5, <1>11 DEF Thread
<1> QED
  BY <1>7, <1>8, <1>9, <1>10, <1>11 DEF MonNext

\* A sample during which the file rested leaves the monitor with the size of the
\* file and, where it can be read, its hash, whatever mixture of versions was
\* stored before, for any number of monitors and edits.
THEOREM RestIsSeen == MonSpec => []ChangesRecorded
<1>1. MonInit => Sampling
  <2> SUFFICES ASSUME MonInit PROVE Sampling
    OBVIOUS
  <2>1. monFile.edits = 0 /\ EmptySample.since = 0
    BY DEF MonInit, EmptySample
  <2> QED
    BY <2>1 DEF MonInit, Sampling, Sampled
<1>2. Sampling => ChangesRecorded
  BY DEF Sampling, Sampled, ChangesRecorded
<1> QED
  BY <1>1, <1>2, MonAlwaysTyped, NextSampling, PTL DEF MonSpec

-----------------------------------------------------------------------------
(* Debugger. *)

Places == {"boot", "attach", "run", "paused", "unwind", "over"}
Commands == [cmd : {"break"}, line : DbgLines] \cup [cmd : {"clear", "go", "continue", "step", "quit"}, line : {0}]
Reports == [event : {"ready", "stopped", "locals"}, line : Nat]

DbgTyped ==
  /\ dbgPc \in Places
  /\ dbgBreaks \in SUBSET DbgLines /\ dbgWanted \in SUBSET DbgLines /\ dbgPending \in SUBSET DbgLines
  /\ dbgStep \in BOOLEAN /\ dbgQuit \in BOOLEAN /\ dbgReady \in BOOLEAN
  /\ dbgClient \in {"configuring", "running", "stopped", "gone"}
  /\ dbgIn \in Seq(Commands) /\ dbgErr \in Seq(Reports)

\* The two ends of a pipe: what is written comes last, what is read was first.
LEMMA Written ==
  ASSUME NEW S, NEW s \in Seq(S), NEW t \in Seq(S)
  PROVE  /\ s \o t \in Seq(S) /\ Len(s) \in Nat /\ Len(t) \in Nat /\ Len(s \o t) = Len(s) + Len(t)
         /\ \A i \in 1 .. Len(s) : i \in 1 .. Len(s \o t) /\ (s \o t)[i] = s[i]
         /\ \A i \in 1 .. Len(t) : Len(s) + i \in 1 .. Len(s \o t) /\ (s \o t)[Len(s) + i] = t[i]
         /\ \A i \in 1 .. Len(s \o t) :
              \/ i \in 1 .. Len(s)
              \/ i > Len(s) /\ \E j \in 1 .. Len(t) : i = Len(s) + j /\ (s \o t)[i] = t[j]
<1> DEFINE z == s \o t
<1>1. Len(s) \in Nat /\ Len(t) \in Nat
  OBVIOUS
<1>2. /\ z \in Seq(S) /\ Len(z) = Len(s) + Len(t)
      /\ \A i \in 1 .. Len(s) + Len(t) : z[i] = IF i <= Len(s) THEN s[i] ELSE t[i - Len(s)]
  BY ConcatProperties
<1> HIDE DEF z
<1>3. \A i \in 1 .. Len(s) : i \in 1 .. Len(z) /\ z[i] = s[i]
  BY <1>1, <1>2
<1>4. ASSUME NEW i \in 1 .. Len(t) PROVE Len(s) + i \in 1 .. Len(z) /\ z[Len(s) + i] = t[i]
  <2>1. Len(s) + i \in 1 .. Len(s) + Len(t) /\ ~(Len(s) + i <= Len(s)) /\ Len(s) + i - Len(s) = i
    BY <1>1, <1>4
  <2> QED
    BY <1>2, <2>1
<1>5. ASSUME NEW i \in 1 .. Len(z), i \notin 1 .. Len(s)
      PROVE  i > Len(s) /\ \E j \in 1 .. Len(t) : i = Len(s) + j /\ z[i] = t[j]
  <2>1. i - Len(s) \in 1 .. Len(t) /\ i = Len(s) + (i - Len(s)) /\ i > Len(s)
    BY <1>1, <1>2, <1>5
  <2> QED
    BY <1>4, <2>1
<1> QED
  BY <1>1, <1>2, <1>3, <1>4, <1>5 DEF z

LEMMA FirstRead ==
  ASSUME NEW S, NEW s \in Seq(S), s # <<>>
  PROVE  /\ Head(s) \in S /\ Tail(s) \in Seq(S) /\ Len(s) \in Nat /\ 1 \in 1 .. Len(s) /\ Len(Tail(s)) = Len(s) - 1
         /\ Head(s) = s[1]
         /\ \A i \in 1 .. Len(Tail(s)) : i + 1 \in 1 .. Len(s) /\ Tail(s)[i] = s[i + 1]
         /\ \A i \in 1 .. Len(s) : i # 1 => i - 1 \in 1 .. Len(Tail(s)) /\ Tail(s)[i - 1] = s[i]
<1>1. Len(s) \in Nat /\ Len(s) >= 1 /\ Head(s) = s[1]
  BY EmptySeq
<1>2. Head(s) \in S /\ Tail(s) \in Seq(S) /\ Len(Tail(s)) = Len(s) - 1
      /\ \A i \in 1 .. Len(Tail(s)) : Tail(s)[i] = s[i + 1]
  BY HeadTailProperties
<1> DEFINE z == Tail(s)
<1> HIDE DEF z
<1>3. \A i \in 1 .. Len(z) : i + 1 \in 1 .. Len(s) /\ z[i] = s[i + 1]
  BY <1>1, <1>2 DEF z
<1>4. \A i \in 1 .. Len(s) : i # 1 => i - 1 \in 1 .. Len(z) /\ i - 1 + 1 = i
  BY <1>1, <1>2 DEF z
<1> QED
  BY <1>1, <1>2, <1>3, <1>4 DEF z

\* Breaks(lines) names every line once or more, and nothing else.
LEMMA BreaksListed ==
  ASSUME NEW lines \in SUBSET DbgLines
  PROVE  /\ Breaks(lines) \in Seq(Commands)
         /\ \A i \in 1 .. Len(Breaks(lines)) : Breaks(lines)[i].cmd = "break"
         /\ \A l \in lines : \E i \in 1 .. Len(Breaks(lines)) : Breaks(lines)[i] = Break(l)
<1> DEFINE n == Cardinality(lines)  f == SetToSeq(lines)
<1>1. IsFiniteSet(lines) /\ lines \subseteq Nat
  BY DbgAssumption, FS_Subset
<1>2. n \in Nat /\ ExistsBijection(1 .. n, lines)
  BY <1>1, FS_CardinalityType
<1>3. f \in Injection(1 .. n, lines)
  <2>1. \E g \in [1 .. n -> lines] : IsInjective(g)
    BY <1>2 DEF ExistsBijection, Bijection, Injection
  <2>2. f \in [1 .. n -> lines] /\ IsInjective(f)
    BY <2>1 DEF SetToSeq
  <2> QED
    BY <2>2 DEF Injection
<1>4. Cardinality(1 .. n) = n
  BY <1>2, FS_Interval
<1>5. f \in Surjection(1 .. n, lines)
  BY <1>1, <1>3, <1>4, FS_Injection
<1>6. \A i \in 1 .. n : f[i] \in lines
  BY <1>3 DEF Injection
<1>7. \A l \in lines : \E i \in 1 .. n : f[i] = l
  BY <1>5 DEF Surjection
<1> DEFINE b == Breaks(lines)
<1>8. b = [i \in 1 .. n |-> Break(f[i])]
  BY DEF Breaks
<1> HIDE DEF f, n, b
<1>9. \A i \in 1 .. n : Break(f[i]) \in Commands /\ Break(f[i]).cmd = "break"
  BY <1>1, <1>6 DEF Break, Commands
<1>10. b \in Seq(Commands) /\ Len(b) = n
  BY <1>2, <1>8, <1>9
<1> QED
  BY <1>7, <1>8, <1>9, <1>10 DEF b

LEMMA ClearedFirst ==
  ASSUME NEW lines \in SUBSET DbgLines
  PROVE  /\ <<Cmd("clear")>> \o Breaks(lines) \in Seq(Commands)
         /\ \A i \in 1 .. Len(<<Cmd("clear")>> \o Breaks(lines)) :
              (<<Cmd("clear")>> \o Breaks(lines))[i].cmd = IF i = 1 THEN "clear" ELSE "break"
         /\ \A l \in lines : \E i \in 1 .. Len(<<Cmd("clear")>> \o Breaks(lines)) :
              i > 1 /\ (<<Cmd("clear")>> \o Breaks(lines))[i] = Break(l)
<1> DEFINE s == <<Cmd("clear")>>  t == Breaks(lines)  z == s \o t
<1>1. s \in Seq(Commands) /\ Len(s) = 1 /\ s[1].cmd = "clear"
  BY DEF Cmd, Commands
<1>2. t \in Seq(Commands) /\ (\A i \in 1 .. Len(t) : t[i].cmd = "break")
      /\ \A l \in lines : \E i \in 1 .. Len(t) : t[i] = Break(l)
  BY BreaksListed
<1> HIDE DEF s, t
<1>3. /\ z \in Seq(Commands) /\ Len(t) \in Nat
      /\ \A i \in 1 .. Len(s) : i \in 1 .. Len(z) /\ z[i] = s[i]
      /\ \A i \in 1 .. Len(t) : Len(s) + i \in 1 .. Len(z) /\ z[Len(s) + i] = t[i]
      /\ \A i \in 1 .. Len(z) : i \in 1 .. Len(s) \/ (i > Len(s) /\ \E j \in 1 .. Len(t) : i = Len(s) + j /\ z[i] = t[j])
  <2>1. s \in Seq(Commands) /\ t \in Seq(Commands)
    BY <1>1, <1>2
  <2> QED
    BY ONLY <2>1, Written
<1> HIDE DEF z
<1>4. ASSUME NEW i \in 1 .. Len(z) PROVE z[i].cmd = IF i = 1 THEN "clear" ELSE "break"
  <2>1. CASE i \in 1 .. Len(s)
    BY <1>1, <1>3, <2>1
  <2>2. CASE i > Len(s) /\ \E j \in 1 .. Len(t) : i = Len(s) + j /\ z[i] = t[j]
    BY <1>1, <1>2, <2>2
  <2> QED
    BY <1>3, <2>1, <2>2
<1>5. ASSUME NEW l \in lines PROVE \E i \in 1 .. Len(z) : i > 1 /\ z[i] = Break(l)
  <2>1. PICK i \in 1 .. Len(t) : t[i] = Break(l)
    BY <1>2
  <2>2. Len(s) + i \in 1 .. Len(z) /\ z[Len(s) + i] = Break(l) /\ Len(s) + i > 1
    BY <1>1, <1>3, <2>1
  <2> QED
    BY <2>2
<1> QED
  BY <1>3, <1>4, <1>5 DEF z, s, t

\* What has been written is still there, and what is sent comes behind it.
LEMMA Sending ==
  ASSUME DbgTyped, NEW cmds \in Seq(Commands), Send(cmds)
  PROVE  /\ dbgIn' \in Seq(Commands) /\ Len(dbgIn) \in Nat
         /\ \A i \in 1 .. Len(dbgIn) : i \in 1 .. Len(dbgIn') /\ dbgIn'[i] = dbgIn[i]
         /\ \A i \in 1 .. Len(cmds) : Len(dbgIn) + i \in 1 .. Len(dbgIn') /\ dbgIn'[Len(dbgIn) + i] = cmds[i]
         /\ \A i \in 1 .. Len(dbgIn') :
              \/ i \in 1 .. Len(dbgIn)
              \/ i > Len(dbgIn) /\ \E j \in 1 .. Len(cmds) : i = Len(dbgIn) + j /\ dbgIn'[i] = cmds[j]
<1> DEFINE z == dbgIn \o cmds
<1>1. dbgIn' = z /\ dbgIn \in Seq(Commands)
  BY DEF Send, DbgTyped
<1>2. /\ z \in Seq(Commands) /\ Len(dbgIn) \in Nat
      /\ \A i \in 1 .. Len(dbgIn) : i \in 1 .. Len(z) /\ z[i] = dbgIn[i]
      /\ \A i \in 1 .. Len(cmds) : Len(dbgIn) + i \in 1 .. Len(z) /\ z[Len(dbgIn) + i] = cmds[i]
      /\ \A i \in 1 .. Len(z) :
           \/ i \in 1 .. Len(dbgIn)
           \/ i > Len(dbgIn) /\ \E j \in 1 .. Len(cmds) : i = Len(dbgIn) + j /\ z[i] = cmds[j]
  BY <1>1, Written
<1> HIDE DEF z
<1> QED
  BY <1>1, <1>2

\* What handling an event does, by its kind.
LEMMA Handled ==
  ASSUME DbgTyped, HandleEvent
  PROVE  /\ dbgErr # <<>> /\ dbgErr' = Tail(dbgErr) /\ UNCHANGED <<dbgRuntime, dbgWanted, dbgEdits, dbgAtGo>>
         /\ Head(dbgErr) \in Reports
         /\ \/ Head(dbgErr).event = "ready" /\ dbgReady' /\ dbgPending' = {} /\ Send(Breaks(dbgPending)) /\ UNCHANGED dbgClient
            \/ Head(dbgErr).event = "stopped" /\ dbgClient' = "stopped" /\ UNCHANGED <<dbgReady, dbgPending, dbgIn>>
            \/ Head(dbgErr).event = "locals" /\ UNCHANGED <<dbgReady, dbgPending, dbgIn, dbgClient>>
<1>1. dbgErr # <<>> /\ dbgErr' = Tail(dbgErr) /\ UNCHANGED <<dbgRuntime, dbgWanted, dbgEdits, dbgAtGo>>
  BY DEF HandleEvent
<1>2. Head(dbgErr) \in Reports
  BY <1>1, FirstRead DEF DbgTyped
<1>3. Head(dbgErr).event \in {"ready", "stopped", "locals"}
  BY <1>2 DEF Reports
<1> QED
  BY <1>1, <1>2, <1>3 DEF HandleEvent

\* What the adapter writes apart from breakpoints is one command.
LEMMA OneSent ==
  ASSUME NEW c \in {"go", "continue", "step", "quit"}
  PROVE  /\ <<Cmd(c)>> \in Seq(Commands) /\ Len(<<Cmd(c)>>) = 1 /\ <<Cmd(c)>>[1].cmd = c
BY DEF Cmd, Commands

LEMMA DbgInitTyped == DbgInit => DbgTyped
<1>1. <<>> \in Seq(Commands) /\ <<>> \in Seq(Reports)
  OBVIOUS
<1> QED
  BY <1>1 DEF DbgInit, DbgTyped, Places

LEMMA DbgNextTyped == DbgTyped /\ [DbgNext]_dbgVars => DbgTyped'
<1> SUFFICES ASSUME DbgTyped, [DbgNext]_dbgVars PROVE DbgTyped'
  OBVIOUS
<1>0. \A l \in DbgLines : Event("locals", l) \in Reports /\ Event("stopped", l) \in Reports /\ l \in Nat
  BY DbgAssumption DEF Event, Reports
<1>w. ASSUME NEW cmds \in Seq(Commands), Send(cmds) PROVE dbgIn' \in Seq(Commands)
  BY <1>w, Sending
<1>1. CASE Boot
  <2>1. Event("ready", 0) \in Reports
    BY DEF Event, Reports
  <2> QED
    BY <1>1, <2>1 DEF Boot, DbgTyped, Places, dbgEditor
<1>2. CASE ReadCommand
  <2>1. /\ dbgIn # <<>> /\ dbgIn' = Tail(dbgIn) /\ dbgBreaks' = BreaksAfter(Head(dbgIn))
        /\ dbgStep' \in BOOLEAN /\ dbgQuit' \in BOOLEAN /\ dbgPc' \in {"unwind", "run", dbgPc}
        /\ UNCHANGED <<dbgErr, dbgEditor>>
    BY <1>2 DEF ReadCommand
  <2>2. Head(dbgIn) \in Commands /\ Tail(dbgIn) \in Seq(Commands)
    BY <2>1, FirstRead DEF DbgTyped
  <2>3. BreaksAfter(Head(dbgIn)) \in SUBSET DbgLines
    BY <2>2 DEF BreaksAfter, Cleared, Commands, DbgTyped
  <2> QED
    BY <2>1, <2>2, <2>3 DEF DbgTyped, Places, dbgEditor
<1>3. ASSUME NEW l \in DbgLines, Hook(l) PROVE DbgTyped'
  <2>1. dbgErr' \in Seq(Reports)
    <3>1. StopEvents(l) \in Seq(Reports)
      BY <1>0 DEF StopEvents
    <3>2. dbgErr \o StopEvents(l) \in Seq(Reports)
      BY <3>1, Written DEF DbgTyped
    <3> QED
      BY <1>3, <3>2 DEF Hook, DbgTyped
  <2> QED
    BY <1>3, <2>1 DEF Hook, DbgTyped, Places, dbgEditor
<1>4. CASE Unwind \/ ProgramEnds
  BY <1>4 DEF Unwind, ProgramEnds, DbgTyped, Places, dbgEditor
<1>5. CASE HandleEvent
  <2>1. dbgErr' \in Seq(Reports)
    BY <1>5, Handled, FirstRead DEF DbgTyped
  <2>2. dbgIn' \in Seq(Commands)
    BY <1>5, <1>w, Handled, BreaksListed DEF DbgTyped
  <2> QED
    BY <1>5, <2>1, <2>2, Handled DEF DbgTyped, dbgRuntime
<1>6. ASSUME NEW lines \in SUBSET DbgLines, SetBreakPoints(lines) PROVE DbgTyped'
  <2>1. dbgIn' \in Seq(Commands)
    BY <1>6, <1>w, ClearedFirst DEF SetBreakPoints, DbgTyped
  <2> QED
    BY <1>6, <2>1 DEF SetBreakPoints, DbgTyped, dbgRuntime
<1>7. CASE ConfigurationDone
  BY <1>7, <1>w, OneSent DEF ConfigurationDone, DbgTyped, dbgRuntime
<1>8. ASSUME NEW c \in {"continue", "step"}, Resume(c) PROVE DbgTyped'
  BY <1>8, <1>w, OneSent DEF Resume, DbgTyped, dbgRuntime
<1>9. CASE Disconnect
  BY <1>9, <1>w, OneSent DEF Disconnect, DbgTyped, Places
<1>10. CASE UNCHANGED dbgVars
  BY <1>10 DEF dbgVars, dbgRuntime, dbgEditor, DbgTyped
<1> QED
  BY <1>1, <1>2, <1>3, <1>4, <1>5, <1>6, <1>7, <1>8, <1>9, <1>10 DEF DbgNext

LEMMA DbgAlwaysTyped == DbgSpec => []DbgTyped
BY DbgInitTyped, DbgNextTyped, PTL DEF DbgSpec
-----------------------------------------------------------------------------
(***************************************************************************)
(* Stops.                                                                  *)
(***************************************************************************)
Announced == \E i \in 1 .. Len(dbgErr) : dbgErr[i].event = "stopped"
Released == \E i \in 1 .. Len(dbgIn) : dbgIn[i].cmd \in {"continue", "step"}
Reaching == dbgPc = "paused" /\ dbgClient # "gone" => dbgClient = "stopped" \/ Announced \/ Released

LEMMA SentKept ==
  ASSUME DbgTyped, NEW cmds \in Seq(Commands), Send(cmds)
  PROVE  /\ \A i \in 1 .. Len(dbgIn) : i \in 1 .. Len(dbgIn') /\ dbgIn'[i] = dbgIn[i]
         /\ Released => Released'
<1>1. \A i \in 1 .. Len(dbgIn) : i \in 1 .. Len(dbgIn') /\ dbgIn'[i] = dbgIn[i]
  BY Written DEF Send, DbgTyped
<1> QED
  BY <1>1 DEF Released

LEMMA NextReaching == DbgTyped /\ Reaching /\ [DbgNext]_dbgVars => Reaching'
<1> SUFFICES ASSUME DbgTyped, Reaching, [DbgNext]_dbgVars, dbgPc' = "paused", dbgClient' # "gone"
             PROVE  dbgClient' = "stopped" \/ Announced' \/ Released'
  BY DEF Reaching
<1>1. CASE Boot \/ Unwind \/ ProgramEnds
  BY <1>1 DEF Boot, Unwind, ProgramEnds
<1>2. CASE ReadCommand
  <2>1. /\ dbgPc = "paused" /\ dbgIn # <<>> /\ dbgIn' = Tail(dbgIn) /\ UNCHANGED <<dbgErr, dbgClient>>
        /\ Head(dbgIn).cmd \notin {"continue", "step"}
    BY <1>2 DEF ReadCommand, DbgTyped, Places, dbgEditor
  <2>2. Announced => Announced'
    BY <2>1 DEF Announced
  <2>3. Released => Released'
    <3>1. \A i \in 1 .. Len(dbgIn) : i # 1 => i - 1 \in 1 .. Len(dbgIn') /\ dbgIn'[i - 1] = dbgIn[i]
      BY <2>1, FirstRead DEF DbgTyped
    <3>2. dbgIn[1].cmd \notin {"continue", "step"}
      BY <2>1, FirstRead DEF DbgTyped
    <3> QED
      BY <3>1, <3>2 DEF Released
  <2> QED
    BY <2>1, <2>2, <2>3 DEF Reaching
<1>3. ASSUME NEW l \in DbgLines, Hook(l) PROVE Announced'
  <2>1. dbgErr' = dbgErr \o StopEvents(l)
    BY <1>3 DEF Hook
  <2>2. /\ StopEvents(l) \in Seq(Reports) /\ Len(StopEvents(l)) = 2 /\ StopEvents(l)[1].event = "stopped"
    BY DbgAssumption DEF StopEvents, Event, Reports
  <2> DEFINE t == StopEvents(l)
  <2> HIDE DEF t
  <2>3. Len(dbgErr) + 1 \in 1 .. Len(dbgErr') /\ dbgErr'[Len(dbgErr) + 1] = t[1]
    <3>1. 1 \in 1 .. Len(t) /\ t \in Seq(Reports) /\ dbgErr \in Seq(Reports) /\ dbgErr' = dbgErr \o t
      BY <2>1, <2>2 DEF t, DbgTyped
    <3> QED
      BY ONLY <3>1, Written
  <2> QED
    BY <2>2, <2>3 DEF Announced, t
<1>4. CASE HandleEvent
  <2>1. /\ dbgErr # <<>> /\ dbgErr' = Tail(dbgErr) /\ UNCHANGED dbgPc
        /\ \/ dbgClient' = "stopped"
           \/ Head(dbgErr).event # "stopped" /\ UNCHANGED dbgClient
    BY <1>4, Handled DEF dbgRuntime
  <2>2. Head(dbgErr).event # "stopped" /\ Announced => Announced'
    <3>1. \A i \in 1 .. Len(dbgErr) : i # 1 => i - 1 \in 1 .. Len(dbgErr') /\ dbgErr'[i - 1] = dbgErr[i]
      BY <2>1, FirstRead DEF DbgTyped
    <3>2. Head(dbgErr) = dbgErr[1]
      BY <2>1, FirstRead DEF DbgTyped
    <3> QED
      BY <3>1, <3>2 DEF Announced
  <2>3. Released => Released'
    <3>1. CASE Send(Breaks(dbgPending))
      BY <3>1, SentKept, BreaksListed DEF DbgTyped
    <3>2. CASE UNCHANGED dbgIn
      BY <3>2 DEF Released
    <3> QED
      BY <1>4, <3>1, <3>2, Handled
  <2> QED
    BY <2>1, <2>2, <2>3 DEF Reaching
<1>5. ASSUME NEW lines \in SUBSET DbgLines, SetBreakPoints(lines) PROVE Announced' \/ Released' \/ dbgClient' = "stopped"
  <2>1. Released => Released'
    <3>1. CASE dbgReady
      BY <1>5, <3>1, SentKept, ClearedFirst DEF SetBreakPoints
    <3>2. CASE ~dbgReady
      BY <1>5, <3>2 DEF SetBreakPoints, Released
    <3> QED
      BY <3>1, <3>2
  <2>2. UNCHANGED <<dbgPc, dbgErr, dbgClient>>
    BY <1>5 DEF SetBreakPoints, dbgRuntime
  <2> QED
    BY <2>1, <2>2 DEF Reaching, Announced
<1>6. CASE ConfigurationDone
  <2>1. UNCHANGED <<dbgPc, dbgErr>> /\ dbgClient = "configuring" /\ Send(<<Cmd("go")>>)
    BY <1>6 DEF ConfigurationDone, dbgRuntime
  <2>2. Released => Released'
    BY <2>1, SentKept, OneSent
  <2> QED
    BY <2>1, <2>2 DEF Reaching, Announced
<1>7. ASSUME NEW c \in {"continue", "step"}, Resume(c) PROVE Released'
  <2>1. dbgIn' = dbgIn \o <<Cmd(c)>>
    BY <1>7 DEF Resume, Send
  <2>2. <<Cmd(c)>> \in Seq(Commands) /\ Len(<<Cmd(c)>>) = 1 /\ <<Cmd(c)>>[1].cmd = c
    BY OneSent
  <2> DEFINE t == <<Cmd(c)>>
  <2> HIDE DEF t
  <2>3. Len(dbgIn) + 1 \in 1 .. Len(dbgIn') /\ dbgIn'[Len(dbgIn) + 1] = t[1]
    BY <2>1, <2>2, Written DEF t, DbgTyped
  <2> QED
    BY <2>2, <2>3 DEF Released, t
<1>8. CASE Disconnect
  BY <1>8 DEF Disconnect
<1>9. CASE UNCHANGED dbgVars
  BY <1>9 DEF dbgVars, dbgRuntime, dbgEditor, Reaching, Announced, Released
<1> QED
  BY <1>1, <1>2, <1>3, <1>4, <1>5, <1>6, <1>7, <1>8, <1>9 DEF DbgNext

\* However the two pipes are read: an interpreter that is stopped is one that the
\* editor shows as stopped or is about to, or has been told to go on.
THEOREM StopsAreShown == DbgSpec => []StopsReachEditor
<1>1. DbgInit => Reaching
  BY DEF DbgInit, Reaching
<1>2. DbgTyped /\ Reaching => StopsReachEditor
  <2> SUFFICES ASSUME DbgTyped, Reaching PROVE StopsReachEditor
    OBVIOUS
  <2>1. DOMAIN dbgErr = 1 .. Len(dbgErr) /\ DOMAIN dbgIn = 1 .. Len(dbgIn)
    BY DEF DbgTyped
  <2> QED
    BY <2>1 DEF Reaching, StopsReachEditor, Announced, Released
<1> QED
  BY <1>1, <1>2, DbgAlwaysTyped, NextReaching, PTL DEF DbgSpec
-----------------------------------------------------------------------------
(***************************************************************************)
(* Breakpoints.  A line that the editor shows with one is known to the     *)
(* interpreter, or written to it after the last clear, or waits in the     *)
(* adapter for the interpreter to be ready.                                *)
(***************************************************************************)
Coming(l) ==
  \/ l \in dbgBreaks /\ \A i \in 1 .. Len(dbgIn) : dbgIn[i].cmd # "clear"
  \/ \E i \in 1 .. Len(dbgIn) :
       dbgIn[i] = Break(l) /\ \A j \in 1 .. Len(dbgIn) : i < j => dbgIn[j].cmd # "clear"
Kept == IF dbgReady THEN \A l \in dbgWanted : Coming(l) ELSE dbgPending = dbgWanted

\* Commands other than clear take nothing back; those after a clear stay.
LEMMA ComingKept ==
  ASSUME DbgTyped, NEW cmds \in Seq(Commands), Send(cmds), \A i \in 1 .. Len(cmds) : cmds[i].cmd # "clear",
         UNCHANGED dbgBreaks, NEW l, Coming(l)
  PROVE  Coming(l)'
<1>1. /\ \A i \in 1 .. Len(dbgIn) : i \in 1 .. Len(dbgIn') /\ dbgIn'[i] = dbgIn[i]
      /\ \A i \in 1 .. Len(dbgIn') : \/ i \in 1 .. Len(dbgIn)
                                     \/ \E j \in 1 .. Len(cmds) : dbgIn'[i] = cmds[j]
  BY Sending
<1>2. ASSUME NEW j \in 1 .. Len(dbgIn'), dbgIn'[j].cmd = "clear" PROVE j \in 1 .. Len(dbgIn) /\ dbgIn[j].cmd = "clear"
  BY <1>1, <1>2
<1>3. CASE l \in dbgBreaks /\ \A i \in 1 .. Len(dbgIn) : dbgIn[i].cmd # "clear"
  BY <1>2, <1>3 DEF Coming
<1>4. CASE \E i \in 1 .. Len(dbgIn) : dbgIn[i] = Break(l) /\ \A j \in 1 .. Len(dbgIn) : i < j => dbgIn[j].cmd # "clear"
  BY <1>1, <1>2, <1>4 DEF Coming
<1> QED
  BY <1>3, <1>4 DEF Coming

\* What is written after the last clear has still to come.
LEMMA ComingWritten ==
  ASSUME DbgTyped, NEW cmds \in Seq(Commands), Send(cmds), NEW l, NEW i \in 1 .. Len(cmds), cmds[i] = Break(l),
         \A j \in 1 .. Len(cmds) : i < j => cmds[j].cmd # "clear"
  PROVE  Coming(l)'
<1>1. /\ Len(dbgIn) \in Nat /\ Len(dbgIn) + i \in 1 .. Len(dbgIn') /\ dbgIn'[Len(dbgIn) + i] = cmds[i]
      /\ \A j \in 1 .. Len(dbgIn') : \/ j \in 1 .. Len(dbgIn)
                                     \/ \E k \in 1 .. Len(cmds) : j = Len(dbgIn) + k /\ dbgIn'[j] = cmds[k]
  BY Sending
<1>2. ASSUME NEW j \in 1 .. Len(dbgIn'), Len(dbgIn) + i < j PROVE dbgIn'[j].cmd # "clear"
  <2>1. j \notin 1 .. Len(dbgIn)
    BY <1>1, <1>2
  <2>2. PICK k \in 1 .. Len(cmds) : j = Len(dbgIn) + k /\ dbgIn'[j] = cmds[k]
    BY <1>1, <2>1
  <2>3. i < k
    BY <1>1, <1>2, <2>2
  <2> QED
    BY <2>2, <2>3
<1> QED
  BY <1>1, <1>2 DEF Coming

LEMMA NextKept == DbgTyped /\ Kept /\ [DbgNext]_dbgVars => Kept'
<1> SUFFICES ASSUME DbgTyped, Kept, [DbgNext]_dbgVars PROVE Kept'
  OBVIOUS
<1>a. ASSUME UNCHANGED <<dbgIn, dbgBreaks, dbgReady, dbgPending, dbgWanted>> PROVE Kept'
  BY <1>a DEF Kept, Coming
\* A message of the adapter that is not about breakpoints.
<1>s. ASSUME NEW c \in {"go", "continue", "step", "quit"}, Send(<<Cmd(c)>>),
             UNCHANGED <<dbgBreaks, dbgReady, dbgPending, dbgWanted>>
      PROVE  Kept'
  <2>1. <<Cmd(c)>> \in Seq(Commands) /\ \A i \in 1 .. Len(<<Cmd(c)>>) : <<Cmd(c)>>[i].cmd # "clear"
    BY OneSent
  <2>2. \A l : Coming(l) => Coming(l)'
    BY <1>s, <2>1, ComingKept
  <2> QED
    BY <1>s, <2>2 DEF Kept
<1>1. CASE Boot \/ Unwind \/ ProgramEnds
  BY <1>1, <1>a DEF Boot, Unwind, ProgramEnds, dbgEditor
<1>2. ASSUME NEW l \in DbgLines, Hook(l) PROVE Kept'
  BY <1>2, <1>a DEF Hook, dbgEditor
<1>3. CASE ReadCommand
  <2> DEFINE c == Head(dbgIn)
  <2>1. /\ dbgIn # <<>> /\ dbgIn' = Tail(dbgIn) /\ dbgBreaks' = BreaksAfter(c)
        /\ UNCHANGED <<dbgReady, dbgPending, dbgWanted>>
    BY <1>3 DEF ReadCommand, dbgEditor
  <2>2. /\ 1 \in 1 .. Len(dbgIn) /\ c = dbgIn[1] /\ Len(dbgIn) \in Nat
        /\ \A i \in 1 .. Len(dbgIn') : i + 1 \in 1 .. Len(dbgIn) /\ dbgIn'[i] = dbgIn[i + 1]
        /\ \A i \in 1 .. Len(dbgIn) : i # 1 => i - 1 \in 1 .. Len(dbgIn') /\ dbgIn'[i - 1] = dbgIn[i]
    BY <2>1, FirstRead DEF DbgTyped
  <2> HIDE DEF c
  <2>3. ASSUME NEW l, Coming(l) PROVE Coming(l)'
    <3>1. CASE l \in dbgBreaks /\ \A i \in 1 .. Len(dbgIn) : dbgIn[i].cmd # "clear"
      <4>1. l \in dbgBreaks'
        BY <2>1, <2>2, <3>1 DEF BreaksAfter
      <4> QED
        BY <2>2, <3>1, <4>1 DEF Coming
    <3>2. CASE \E i \in 1 .. Len(dbgIn) : dbgIn[i] = Break(l) /\ \A j \in 1 .. Len(dbgIn) : i < j => dbgIn[j].cmd # "clear"
      <4>1. PICK i \in 1 .. Len(dbgIn) : dbgIn[i] = Break(l) /\ \A j \in 1 .. Len(dbgIn) : i < j => dbgIn[j].cmd # "clear"
        BY <3>2
      <4>2. CASE i = 1
        <5>1. l \in dbgBreaks'
          BY <2>1, <2>2, <4>1, <4>2 DEF BreaksAfter, Break
        <5>2. \A j \in 1 .. Len(dbgIn') : dbgIn'[j].cmd # "clear"
          BY <2>2, <4>1, <4>2
        <5> QED
          BY <5>1, <5>2 DEF Coming
      <4>3. CASE i # 1
        <5>1. i - 1 \in 1 .. Len(dbgIn') /\ dbgIn'[i - 1] = Break(l)
          BY <2>2, <4>1, <4>3
        <5>2. \A j \in 1 .. Len(dbgIn') : i - 1 < j => dbgIn'[j].cmd # "clear"
          BY <2>2, <4>1
        <5> QED
          BY <5>1, <5>2 DEF Coming
      <4> QED
        BY <4>2, <4>3
    <3> QED
      BY <2>3, <3>1, <3>2 DEF Coming
  <2> QED
    BY <2>1, <2>3 DEF Kept
<1>4. CASE HandleEvent
  <2>1. UNCHANGED <<dbgWanted, dbgBreaks>>
    BY <1>4, Handled DEF dbgRuntime
  <2>2. CASE dbgReady' /\ Send(Breaks(dbgPending))
    <3>1. /\ Breaks(dbgPending) \in Seq(Commands)
          /\ \A i \in 1 .. Len(Breaks(dbgPending)) : Breaks(dbgPending)[i].cmd # "clear"
          /\ \A l \in dbgPending : \E i \in 1 .. Len(Breaks(dbgPending)) : Breaks(dbgPending)[i] = Break(l)
      BY BreaksListed DEF DbgTyped
    <3>2. ASSUME NEW l \in dbgWanted PROVE Coming(l)'
      <4>1. CASE dbgReady
        BY <2>1, <2>2, <3>1, <4>1, ComingKept DEF Kept
      <4>2. CASE ~dbgReady
        <5>1. PICK i \in 1 .. Len(Breaks(dbgPending)) : Breaks(dbgPending)[i] = Break(l)
          BY <3>1, <4>2 DEF Kept
        <5> QED
          BY <2>2, <3>1, <5>1, ComingWritten
      <4> QED
        BY <4>1, <4>2
    <3> QED
      BY <2>1, <2>2, <3>2 DEF Kept
  <2>3. CASE UNCHANGED <<dbgReady, dbgPending, dbgIn>>
    BY <1>a, <2>1, <2>3
  <2> QED
    BY <1>4, <2>2, <2>3, Handled
<1>5. ASSUME NEW lines \in SUBSET DbgLines, SetBreakPoints(lines) PROVE Kept'
  <2> DEFINE cmds == <<Cmd("clear")>> \o Breaks(lines)
  <2>1. /\ dbgWanted' = lines /\ UNCHANGED <<dbgReady, dbgBreaks>>
        /\ IF dbgReady THEN Send(cmds) ELSE dbgPending' = lines
    BY <1>5 DEF SetBreakPoints, dbgRuntime
  <2>2. /\ cmds \in Seq(Commands)
        /\ \A i \in 1 .. Len(cmds) : cmds[i].cmd = IF i = 1 THEN "clear" ELSE "break"
        /\ \A l \in lines : \E i \in 1 .. Len(cmds) : i > 1 /\ cmds[i] = Break(l)
    BY ClearedFirst
  <2> HIDE DEF cmds
  <2>3. ASSUME dbgReady, NEW l \in lines PROVE Coming(l)'
    <3>1. PICK i \in 1 .. Len(cmds) : i > 1 /\ cmds[i] = Break(l)
      BY <2>2, <2>3
    <3>2. \A j \in 1 .. Len(cmds) : i < j => cmds[j].cmd # "clear"
      BY <2>2, <3>1
    <3>3. Send(cmds)
      BY <2>1, <2>3
    <3> QED
      BY <2>2, <3>1, <3>2, <3>3, ComingWritten
  <2> QED
    BY <2>1, <2>3 DEF Kept
<1>6. CASE ConfigurationDone
  BY <1>6, <1>s DEF ConfigurationDone, dbgRuntime
<1>7. ASSUME NEW c \in {"continue", "step"}, Resume(c) PROVE Kept'
  BY <1>7, <1>s DEF Resume, dbgRuntime
<1>8. CASE Disconnect
  BY <1>8, <1>s DEF Disconnect
<1>9. CASE UNCHANGED dbgVars
  BY <1>9, <1>a DEF dbgVars, dbgRuntime, dbgEditor
<1> QED
  BY <1>1, <1>2, <1>3, <1>4, <1>5, <1>6, <1>7, <1>8, <1>9 DEF DbgNext

\* When the interpreter has read every change, it knows each breakpoint that the
\* editor shows, and does not pass its line, whenever the changes were made.
THEOREM NoBreakpointPassed == DbgSpec => BreakpointsHonoured
<1>1. DbgInit => Kept
  BY DEF DbgInit, Kept
<1>2. DbgTyped /\ Kept /\ [DbgNext]_dbgVars =>
        [dbgPc = "run" /\ ~dbgQuit /\ dbgLine' # dbgLine /\ dbgLine' \in dbgWanted
           /\ dbgReady /\ ~Unread => dbgPc' = "paused"]_dbgVars
  <2> SUFFICES ASSUME DbgTyped, Kept, [DbgNext]_dbgVars, dbgPc = "run", ~dbgQuit, dbgLine' # dbgLine,
                      dbgLine' \in dbgWanted, dbgReady, ~Unread
               PROVE  dbgPc' = "paused"
    OBVIOUS
  <2>1. \E l \in DbgLines : Hook(l)
    BY DEF DbgNext, Boot, ReadCommand, Unwind, ProgramEnds, HandleEvent, SetBreakPoints, ConfigurationDone, Resume,
           Disconnect, dbgVars, dbgRuntime
  <2>2. PICK l \in DbgLines : Hook(l)
    BY <2>1
  <2>3. dbgLine' = l /\ Coming(l)
    BY <2>2 DEF Hook, Kept
  <2>4. \A i \in 1 .. Len(dbgIn) : dbgIn[i].cmd \notin {"break", "clear"}
    BY DEF Unread, DbgTyped
  <2>5. l \in dbgBreaks
    BY <2>3, <2>4 DEF Coming, Break
  <2> QED
    BY <2>2, <2>5 DEF Hook, Stops
<1> QED
  BY <1>1, <1>2, DbgAlwaysTyped, NextKept, PTL DEF DbgSpec, BreakpointsHonoured
-----------------------------------------------------------------------------
(***************************************************************************)
(* One word.  Whose turn it is is in one place only: with the editor, in   *)
(* a command on its way, with the running program, or in a report on its   *)
(* way back.  So there is at most one stop to be handled, and few events.  *)
(***************************************************************************)
Resumes(c) == c.cmd \in {"go", "continue", "step"}
Asking == dbgClient \in {"configuring", "stopped"}
Told == \E i \in 1 .. Len(dbgIn) : Resumes(dbgIn[i])
Going == dbgPc = "run" /\ ~dbgQuit

Turns ==
  /\ \A i, j \in 1 .. Len(dbgIn) : Resumes(dbgIn[i]) /\ Resumes(dbgIn[j]) => i = j
  /\ Asking => ~Told /\ ~Going /\ ~Announced
  /\ Told => ~Going /\ ~Announced
  /\ Going => ~Announced
  /\ dbgPc = "unwind" => dbgQuit
Few ==
  /\ dbgPc = "boot" => dbgErr = <<>>
  /\ \A i \in 1 .. Len(dbgErr) : dbgErr[i].event = "stopped" => i = Len(dbgErr) - 1
  /\ Len(dbgErr) <= IF Announced THEN 3 ELSE 1
OneTurn == Turns /\ Few

LEMMA Quiet ==
  ASSUME DbgTyped, NEW cmds \in Seq(Commands), Send(cmds), \A i \in 1 .. Len(cmds) : ~Resumes(cmds[i])
  PROVE  /\ Told' <=> Told
         /\ \A i \in 1 .. Len(dbgIn') : Resumes(dbgIn'[i]) => i \in 1 .. Len(dbgIn) /\ dbgIn'[i] = dbgIn[i]
<1>1. /\ \A i \in 1 .. Len(dbgIn) : i \in 1 .. Len(dbgIn') /\ dbgIn'[i] = dbgIn[i]
      /\ \A i \in 1 .. Len(dbgIn') : \/ i \in 1 .. Len(dbgIn)
                                     \/ \E j \in 1 .. Len(cmds) : dbgIn'[i] = cmds[j]
  BY Sending
<1>2. \A i \in 1 .. Len(dbgIn') : Resumes(dbgIn'[i]) => i \in 1 .. Len(dbgIn) /\ dbgIn'[i] = dbgIn[i]
  BY <1>1
<1> QED
  BY <1>1, <1>2 DEF Told

LEMMA Worded ==
  ASSUME DbgTyped, ~Told, NEW cmds \in Seq(Commands), Len(cmds) = 1, Send(cmds)
  PROVE  \A i \in 1 .. Len(dbgIn') : Resumes(dbgIn'[i]) => i = Len(dbgIn) + 1
<1>1. /\ \A i \in 1 .. Len(dbgIn) : dbgIn'[i] = dbgIn[i]
      /\ \A i \in 1 .. Len(dbgIn') : \/ i \in 1 .. Len(dbgIn)
                                     \/ \E j \in 1 .. Len(cmds) : i = Len(dbgIn) + j
  BY Sending
<1> QED
  BY <1>1 DEF Told

\* The report of a stop comes after at most one other event.
LEMMA StopReported ==
  ASSUME DbgTyped, Few, ~Announced, NEW t \in Seq(Reports), Len(t) = 2, t[1].event = "stopped", t[2].event = "locals",
         dbgErr' = dbgErr \o t
  PROVE  Announced' /\ Len(dbgErr') <= 3 /\ \A i \in 1 .. Len(dbgErr') : dbgErr'[i].event = "stopped" => i = Len(dbgErr') - 1
<1> DEFINE z == dbgErr \o t
<1>0. dbgErr \in Seq(Reports) /\ dbgErr' = z
  BY DEF DbgTyped
<1>1. /\ Len(dbgErr) \in Nat /\ Len(z) = Len(dbgErr) + Len(t)
      /\ \A i \in 1 .. Len(dbgErr) : z[i] = dbgErr[i]
      /\ \A i \in 1 .. Len(t) : Len(dbgErr) + i \in 1 .. Len(z) /\ z[Len(dbgErr) + i] = t[i]
      /\ \A i \in 1 .. Len(z) :
           \/ i \in 1 .. Len(dbgErr)
           \/ (i > Len(dbgErr) /\ \E j \in 1 .. Len(t) : i = Len(dbgErr) + j /\ z[i] = t[j])
  BY ONLY <1>0, t \in Seq(Reports), Written
<1> HIDE DEF z
<1>2. \A i \in 1 .. Len(dbgErr) : dbgErr[i].event # "stopped"
  BY DEF Announced
<1>3. Announced'
  BY <1>0, <1>1 DEF Announced
<1>4. ASSUME NEW i \in 1 .. Len(dbgErr'), dbgErr'[i].event = "stopped" PROVE i = Len(dbgErr') - 1
  <2>1. i \notin 1 .. Len(dbgErr)
    BY <1>0, <1>1, <1>2, <1>4
  <2>2. PICK j \in 1 .. Len(t) : i = Len(dbgErr) + j /\ dbgErr'[i] = t[j]
    BY <1>0, <1>1, <2>1
  <2>3. j = 1
    BY <1>4, <2>2
  <2> QED
    BY <1>0, <1>1, <2>2, <2>3
<1>5. Len(dbgErr') <= 3
  BY <1>0, <1>1 DEF Few
<1> QED
  BY <1>3, <1>4, <1>5

LEMMA NextTurn == DbgTyped /\ OneTurn /\ [DbgNext]_dbgVars => OneTurn'
<1> SUFFICES ASSUME DbgTyped, Turns, Few, [DbgNext]_dbgVars PROVE Turns' /\ Few'
  BY DEF OneTurn
<1>e. UNCHANGED dbgErr => (Announced' <=> Announced) /\ (dbgPc' # "boot" \/ UNCHANGED dbgPc => Few')
  BY DEF Announced, Few
<1>i. UNCHANGED dbgIn => (Told' <=> Told)
                         /\ \A i \in 1 .. Len(dbgIn') : i \in 1 .. Len(dbgIn) /\ dbgIn'[i] = dbgIn[i]
  BY DEF Told
\* The adapter writes something that is not about going on.
<1>q. ASSUME NEW cmds \in Seq(Commands), Send(cmds), \A i \in 1 .. Len(cmds) : ~Resumes(cmds[i]),
             UNCHANGED <<dbgPc, dbgErr, dbgClient, dbgQuit>>
      PROVE  Turns' /\ Few'
  <2>1. /\ Told' <=> Told
        /\ \A i \in 1 .. Len(dbgIn') : Resumes(dbgIn'[i]) => i \in 1 .. Len(dbgIn) /\ dbgIn'[i] = dbgIn[i]
    BY <1>q, Quiet
  <2> QED
    BY <1>e, <1>q, <2>1 DEF Turns, Asking, Going
\* The editor passes on its turn.
<1>p. ASSUME NEW c \in {"go", "continue", "step"}, Asking, dbgClient' = "running", Send(<<Cmd(c)>>),
             UNCHANGED <<dbgPc, dbgErr, dbgQuit>>
      PROVE  Turns' /\ Few'
  <2>1. \A i \in 1 .. Len(dbgIn') : Resumes(dbgIn'[i]) => i = Len(dbgIn) + 1
    BY <1>p, OneSent, Worded DEF Turns
  <2> QED
    BY <1>e, <1>p, <2>1 DEF Turns, Asking, Going
<1>1. CASE Boot
  <2>1. dbgErr' = Append(<<>>, Event("ready", 0)) /\ dbgPc' = "attach" /\ UNCHANGED <<dbgQuit, dbgIn, dbgClient>>
    BY <1>1 DEF Boot, Few, dbgEditor
  <2>2. Len(dbgErr') = 1 /\ dbgErr'[1].event = "ready"
    BY <2>1 DEF Event
  <2>3. ~Announced'
    BY <2>2 DEF Announced
  <2>4. Few'
    BY <2>1, <2>2, <2>3 DEF Few
  <2> QED
    BY <1>i, <2>1, <2>3, <2>4 DEF Turns, Asking, Going
<1>2. CASE ReadCommand
  <2>1. /\ dbgIn # <<>> /\ dbgIn' = Tail(dbgIn) /\ UNCHANGED <<dbgErr, dbgClient>>
        /\ dbgPc' \in {"attach", "paused", "run", "unwind"}
        /\ dbgPc' = "unwind" => dbgQuit'
        /\ dbgPc' = "run" => dbgQuit' \/ Resumes(Head(dbgIn))
    BY <1>2 DEF ReadCommand, dbgEditor, Resumes
  <2>2. /\ 1 \in 1 .. Len(dbgIn) /\ Head(dbgIn) = dbgIn[1]
        /\ \A i \in 1 .. Len(dbgIn') : i + 1 \in 1 .. Len(dbgIn) /\ i + 1 # 1 /\ dbgIn'[i] = dbgIn[i + 1]
    <3>1. /\ 1 \in 1 .. Len(dbgIn) /\ Head(dbgIn) = dbgIn[1]
          /\ \A i \in 1 .. Len(dbgIn') : i + 1 \in 1 .. Len(dbgIn) /\ dbgIn'[i] = dbgIn[i + 1]
      BY <2>1, FirstRead DEF DbgTyped
    <3>2. \A i \in 1 .. Len(dbgIn') : i + 1 # 1
      OBVIOUS
    <3> QED
      BY <3>1, <3>2
  <2>3. (Told' => Told) /\ (Resumes(Head(dbgIn)) => Told /\ ~Told')
    BY <2>2 DEF Told, Turns
  <2>4. \A i, j \in 1 .. Len(dbgIn') : Resumes(dbgIn'[i]) /\ Resumes(dbgIn'[j]) => i = j
    <3>1. ASSUME NEW i \in 1 .. Len(dbgIn'), NEW j \in 1 .. Len(dbgIn'), Resumes(dbgIn'[i]), Resumes(dbgIn'[j]) PROVE i = j
      <4>1. i + 1 = j + 1
        BY <2>2, <3>1 DEF Turns
      <4> QED
        BY <4>1
    <3> QED
      BY <3>1
  <2>5. Going' => Told /\ ~Told'
    BY <2>1, <2>3 DEF Going
  <2>6. (Asking' <=> Asking) /\ (Announced' <=> Announced) /\ Few'
    BY <1>e, <2>1 DEF Asking
  <2> QED
    BY <2>1, <2>3, <2>4, <2>5, <2>6 DEF Turns
<1>3. ASSUME NEW l \in DbgLines, Hook(l) PROVE Turns' /\ Few'
  <2>1. CASE dbgPc' = "paused"
    <3>1. Going /\ dbgErr' = dbgErr \o StopEvents(l) /\ UNCHANGED <<dbgIn, dbgClient, dbgQuit>>
      BY <1>3, <2>1 DEF Hook, dbgEditor, Going
    <3>2. /\ StopEvents(l) \in Seq(Reports) /\ Len(StopEvents(l)) = 2
          /\ StopEvents(l)[1].event = "stopped" /\ StopEvents(l)[2].event = "locals"
      BY DbgAssumption DEF StopEvents, Event, Reports
    <3>3. ~Announced
      BY <3>1 DEF Turns
    <3>4. /\ Announced' /\ Len(dbgErr') <= 3
          /\ \A i \in 1 .. Len(dbgErr') : dbgErr'[i].event = "stopped" => i = Len(dbgErr') - 1
      BY <3>1, <3>2, <3>3, StopReported
    <3>5. Few'
      BY <2>1, <3>4 DEF Few
    <3> QED
      BY <1>i, <2>1, <3>1, <3>5 DEF Turns, Asking, Going
  <2>2. CASE dbgPc' # "paused"
    <3>1. /\ UNCHANGED <<dbgErr, dbgIn, dbgClient, dbgQuit>>
          /\ dbgPc' \in {"unwind", "run"} /\ dbgPc = "run" /\ (dbgPc' = "unwind" => dbgQuit)
      BY <1>3, <2>2 DEF Hook, dbgEditor
    <3> QED
      BY <1>e, <1>i, <3>1 DEF Turns, Asking, Going
  <2> QED
    BY <2>1, <2>2
<1>4. CASE Unwind \/ ProgramEnds
  <2>1. /\ UNCHANGED <<dbgErr, dbgIn, dbgClient, dbgQuit>>
        /\ \/ dbgPc = "unwind" /\ dbgPc' \in {"run", "over"}
           \/ dbgPc' = "over"
    BY <1>4 DEF Unwind, ProgramEnds, dbgEditor
  <2> QED
    BY <1>e, <1>i, <2>1 DEF Turns, Asking, Going
<1>5. CASE HandleEvent
  <2>1. /\ dbgErr # <<>> /\ dbgErr' = Tail(dbgErr) /\ UNCHANGED <<dbgPc, dbgQuit>>
        /\ \/ Head(dbgErr).event = "stopped" /\ dbgClient' = "stopped" /\ UNCHANGED dbgIn
           \/ Head(dbgErr).event # "stopped" /\ UNCHANGED dbgClient /\ (UNCHANGED dbgIn \/ Send(Breaks(dbgPending)))
    BY <1>5, Handled DEF dbgRuntime
  <2>2. /\ Len(dbgErr) \in Nat /\ 1 \in 1 .. Len(dbgErr) /\ Len(dbgErr') = Len(dbgErr) - 1 /\ Head(dbgErr) = dbgErr[1]
        /\ \A i \in 1 .. Len(dbgErr') : i + 1 \in 1 .. Len(dbgErr) /\ dbgErr'[i] = dbgErr[i + 1]
        /\ \A i \in 1 .. Len(dbgErr) : i # 1 => i - 1 \in 1 .. Len(dbgErr') /\ dbgErr'[i - 1] = dbgErr[i]
    BY <2>1, FirstRead DEF DbgTyped
  <2>3. \A i \in 1 .. Len(dbgErr') : dbgErr'[i].event = "stopped" => i = Len(dbgErr') - 1
    <3>1. ASSUME NEW i \in 1 .. Len(dbgErr'), dbgErr'[i].event = "stopped" PROVE i = Len(dbgErr') - 1
      <4>1. i + 1 = Len(dbgErr) - 1
        BY <2>2, <3>1 DEF Few
      <4> QED
        BY <2>2, <4>1
    <3> QED
      BY <3>1
  <2>4. Announced' => Announced
    BY <2>2 DEF Announced
  <2>5. /\ Told' <=> Told
        /\ \A i \in 1 .. Len(dbgIn') : Resumes(dbgIn'[i]) => i \in 1 .. Len(dbgIn) /\ dbgIn'[i] = dbgIn[i]
    <3>1. CASE UNCHANGED dbgIn
      BY <1>i, <3>1
    <3>2. CASE Send(Breaks(dbgPending))
      <4>1. Breaks(dbgPending) \in Seq(Commands) /\ \A i \in 1 .. Len(Breaks(dbgPending)) : ~Resumes(Breaks(dbgPending)[i])
        BY BreaksListed DEF DbgTyped, Resumes
      <4> QED
        BY <3>2, <4>1, Quiet
    <3> QED
      BY <2>1, <3>1, <3>2
  <2>6. CASE Head(dbgErr).event = "stopped"
    <3>1. Announced /\ Len(dbgErr) = 2
      BY <2>2, <2>6 DEF Announced, Few
    <3>2. ~Announced'
      <4>1. ASSUME NEW i \in 1 .. Len(dbgErr'), dbgErr'[i].event = "stopped" PROVE FALSE
        BY <2>2, <2>3, <3>1, <4>1
      <4> QED
        BY <4>1 DEF Announced
    <3>3. Few'
      <4>1. Len(dbgErr') <= 1
        BY <2>2, <3>1
      <4>2. dbgPc' # "boot"
        BY <2>1 DEF Few
      <4> QED
        BY <2>3, <3>2, <4>1, <4>2 DEF Few
    <3> QED
      BY <2>1, <2>5, <2>6, <3>1, <3>2, <3>3 DEF Turns, Asking, Going
  <2>7. CASE Head(dbgErr).event # "stopped"
    <3>1. Announced => Announced'
      BY <2>2, <2>7 DEF Announced
    <3>2. Len(dbgErr') <= IF Announced' THEN 3 ELSE 1
      BY <2>2, <3>1 DEF Few
    <3>3. Few'
      BY <2>1, <2>2, <2>3, <3>2 DEF Few
    <3> QED
      BY <2>1, <2>4, <2>5, <2>7, <3>3 DEF Turns, Asking, Going
  <2> QED
    BY <2>6, <2>7
<1>6. ASSUME NEW lines \in SUBSET DbgLines, SetBreakPoints(lines) PROVE Turns' /\ Few'
  <2> DEFINE cmds == <<Cmd("clear")>> \o Breaks(lines)
  <2>1. UNCHANGED <<dbgPc, dbgErr, dbgClient, dbgQuit>> /\ (UNCHANGED dbgIn \/ Send(cmds))
    BY <1>6 DEF SetBreakPoints, dbgRuntime
  <2>2. cmds \in Seq(Commands) /\ \A i \in 1 .. Len(cmds) : ~Resumes(cmds[i])
    BY ClearedFirst DEF Resumes
  <2> HIDE DEF cmds
  <2>3. CASE UNCHANGED dbgIn
    BY <1>e, <1>i, <2>1, <2>3 DEF Turns, Asking, Going
  <2>4. CASE Send(cmds)
    BY <1>q, <2>1, <2>2, <2>4
  <2> QED
    BY <2>1, <2>3, <2>4
<1>7. CASE ConfigurationDone
  BY <1>7, <1>p DEF ConfigurationDone, Asking, dbgRuntime
<1>8. ASSUME NEW c \in {"continue", "step"}, Resume(c) PROVE Turns' /\ Few'
  BY <1>8, <1>p DEF Resume, Asking, dbgRuntime
<1>9. CASE Disconnect
  <2> DEFINE t == <<Cmd("quit")>>
  <2>1. /\ Send(t) /\ dbgPc' \in {dbgPc, "over"} /\ dbgClient' = "gone" /\ UNCHANGED <<dbgErr, dbgQuit>>
    BY <1>9 DEF Disconnect
  <2>2. t \in Seq(Commands) /\ \A i \in 1 .. Len(t) : ~Resumes(t[i])
    BY OneSent DEF Resumes
  <2> HIDE DEF t
  <2>3. /\ Told' <=> Told
        /\ \A i \in 1 .. Len(dbgIn') : Resumes(dbgIn'[i]) => i \in 1 .. Len(dbgIn) /\ dbgIn'[i] = dbgIn[i]
    BY <2>1, <2>2, Quiet
  <2> QED
    BY <1>e, <2>1, <2>3 DEF Turns, Asking, Going
<1>10. CASE UNCHANGED dbgVars
  <2>1. UNCHANGED <<dbgPc, dbgErr, dbgClient, dbgQuit, dbgIn>>
    BY <1>10 DEF dbgVars, dbgRuntime, dbgEditor
  <2> QED
    BY <1>e, <1>i, <2>1 DEF Turns, Asking, Going
<1> QED
  BY <1>1, <1>2, <1>3, <1>4, <1>5, <1>6, <1>7, <1>8, <1>9, <1>10 DEF DbgNext

\* Types; and never more than three events wait for the adapter, because the
\* interpreter does not stop again before the editor has let it go on.
THEOREM DbgTypeCorrect == DbgSpec => []DbgTypeOK
<1>1. DbgInit => OneTurn
  <2>1. Len(<<>>) = 0
    OBVIOUS
  <2> QED
    BY <2>1 DEF DbgInit, OneTurn, Turns, Few, Told, Going, Announced
<1>2. DbgTyped /\ OneTurn => DbgTypeOK
  <2> SUFFICES ASSUME DbgTyped, Few PROVE DbgTypeOK
    BY DEF OneTurn
  <2>1. Len(dbgErr) <= 3
    BY DEF Few, DbgTyped
  <2> QED
    BY <2>1 DEF DbgTyped, DbgTypeOK, Places
<1> QED
  BY <1>1, <1>2, DbgAlwaysTyped, NextTurn, PTL DEF DbgSpec
=============================================================================
