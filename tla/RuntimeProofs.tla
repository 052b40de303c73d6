--------------------------- MODULE RuntimeProofs ----------------------------
(***************************************************************************)
(* Theorems about what the Runtime runs for a program.                     *)
(*                                                                         *)
(* Lifecycle, for any globals, workers and bounds: types, what becomes of  *)
(* program globals, and what a run leaves behind.                          *)
(*                                                                         *)
(* WebServer, for any connections and messages: types, what clients are    *)
(* sent of each other's texts, and what the actions of the script see.     *)
(***************************************************************************)
EXTENDS Lifecycle, WebServer, SequenceTheorems, FiniteSetTheorems, TLAPS

-----------------------------------------------------------------------------
(* Lifecycle. *)

Frames == [async : BOOLEAN, copy : [LifGlobals -> 0 .. LifWrites + 1], back : BOOLEAN, prev : BOOLEAN]

Values == lifWrites \in 0 .. LifWrites /\ lifGlobals \in [LifGlobals -> 0 .. LifWrites]

LifTyped ==
  /\ Values
  /\ lifPhase \in {"out", "start", "body"} /\ (lifPhase = "out" <=> NotEntered("main"))
  /\ lifStack \in [LifThreads -> Seq(Frames)]
  /\ \A t \in LifThreads : Len(lifStack[t]) <= LifDepth
  /\ lifFlag \in [LifThreads -> BOOLEAN]
  /\ lifNest \in [LifThreads -> Int]
  /\ lifLast \in [LifGlobals -> 0 .. LifWrites]
  /\ {lifThrown, lifProgram, lifIndexed} \subseteq BOOLEAN

LEMMA Constants ==
  /\ LifWrites \in Nat /\ LifDepth \in Nat \ {0} /\ 0 \in 0 .. LifWrites
  /\ NoCopy \in 0 .. LifWrites + 1 /\ NoCopy \notin 0 .. LifWrites
  /\ 0 .. LifWrites \subseteq 0 .. LifWrites + 1
  /\ "main" \in LifThreads /\ "main" \notin LifWorkers /\ LifWorkers \subseteq LifThreads
BY LifAssumption DEF NoCopy, LifThreads

LEMMA FramesTyped ==
  ASSUME NEW a \in BOOLEAN, NEW b \in BOOLEAN, NEW t \in LifThreads, lifFlag[t] \in BOOLEAN,
         NEW copy, copy = NoCopies \/ copy \in [LifGlobals -> 0 .. LifWrites]
  PROVE  CallFrame(t, a, copy, b) \in Frames
BY Constants DEF CallFrame, Frames, NoCopies

\* Stacks: the first n frames, ...
LEMMA KeptFrames ==
  ASSUME NEW S, NEW s \in Seq(S), NEW n \in Nat, n <= Len(s)
  PROVE  /\ SubSeq(s, 1, n) \in Seq(S) /\ Len(SubSeq(s, 1, n)) = n
         /\ \A i \in 1 .. n : SubSeq(s, 1, n)[i] = s[i]
<1>1. \A i \in 1 .. n : s[i] \in S
  OBVIOUS
<1>2. /\ SubSeq(s, 1, n) \in Seq(S)
      /\ Len(SubSeq(s, 1, n)) = IF 1 <= n THEN n - 1 + 1 ELSE 0
      /\ \A i \in 1 .. n - 1 + 1 : SubSeq(s, 1, n)[i] = s[1 + i - 1]
  BY <1>1, SubSeqProperties
<1> QED
  BY <1>2

\* ... the last frame, the frames below it, and a frame on top.
LEMMA TopFrame ==
  ASSUME NEW S, NEW s \in Seq(S), s # <<>>
  PROVE  /\ Len(s) \in Nat \ {0} /\ Last(s) \in S /\ Last(s) = s[Len(s)]
         /\ Front(s) \in Seq(S) /\ Len(Front(s)) = Len(s) - 1
         /\ \A i \in 1 .. Len(s) - 1 : Front(s)[i] = s[i]
<1>1. Len(s) \in Nat \ {0}
  OBVIOUS
<1>2. Last(s) = s[Len(s)] /\ Front(s) = SubSeq(s, 1, Len(s) - 1)
  BY DEF Last, Front
<1>3. s[Len(s)] \in S
  BY <1>1
<1>4. /\ SubSeq(s, 1, Len(s) - 1) \in Seq(S) /\ Len(SubSeq(s, 1, Len(s) - 1)) = Len(s) - 1
      /\ \A i \in 1 .. Len(s) - 1 : SubSeq(s, 1, Len(s) - 1)[i] = s[i]
  <2>1. Len(s) - 1 \in Nat /\ Len(s) - 1 <= Len(s)
    BY <1>1
  <2> QED
    BY <2>1, KeptFrames
<1> QED
  BY <1>1, <1>2, <1>3, <1>4

LEMMA Pushed ==
  ASSUME NEW S, NEW s \in Seq(S), NEW f \in S
  PROVE  /\ Append(s, f) \in Seq(S) /\ Len(Append(s, f)) = Len(s) + 1
         /\ Append(s, f)[Len(s) + 1] = f /\ \A i \in 1 .. Len(s) : Append(s, f)[i] = s[i]
OBVIOUS

LEMMA LifInitTyped == LifInit => LifTyped
<1> SUFFICES ASSUME LifInit PROVE LifTyped
  OBVIOUS
<1>1. /\ lifStack \in [LifThreads -> Seq(Frames)]
      /\ \A t \in LifThreads : Len(lifStack[t]) <= LifDepth
  <2>1. <<>> \in Seq(Frames) /\ Len(<<>>) = 0 /\ 0 <= LifDepth
    BY Constants
  <2> QED
    BY <2>1 DEF LifInit
<1>2. Values /\ lifLast \in [LifGlobals -> 0 .. LifWrites]
  BY Constants DEF LifInit, Values
<1>3. lifPhase = "out" /\ NotEntered("main")
  BY Constants DEF LifInit, NotEntered
<1>4. lifFlag \in [LifThreads -> BOOLEAN] /\ lifNest \in [LifThreads -> Int]
  BY DEF LifInit
<1>5. {lifThrown, lifProgram, lifIndexed} \subseteq BOOLEAN
  BY DEF LifInit
<1> QED
  BY <1>1, <1>2, <1>3, <1>4, <1>5 DEF LifTyped

\* One thread's stack changes.
LEMMA StackTyped ==
  ASSUME LifTyped, NEW t \in LifThreads, NEW s \in Seq(Frames), Len(s) <= LifDepth,
         lifStack' = [lifStack EXCEPT ![t] = s]
  PROVE  lifStack' \in [LifThreads -> Seq(Frames)] /\ \A u \in LifThreads : Len(lifStack'[u]) <= LifDepth
BY DEF LifTyped

LEMMA PushTyped ==
  ASSUME LifTyped, NEW t \in LifThreads, Len(lifStack[t]) < LifDepth, NEW f \in Frames, Push(t, f)
  PROVE  lifStack' \in [LifThreads -> Seq(Frames)] /\ \A u \in LifThreads : Len(lifStack'[u]) <= LifDepth
<1>1. lifStack[t] \in Seq(Frames) /\ Len(lifStack[t]) + 1 <= LifDepth
  BY Constants DEF LifTyped
<1>2. Append(lifStack[t], f) \in Seq(Frames) /\ Len(Append(lifStack[t], f)) <= LifDepth
  BY <1>1, Pushed
<1> QED
  BY <1>2, StackTyped DEF Push

LEMMA WriteBackTyped ==
  ASSUME LifTyped, NEW f \in Frames
  PROVE  WriteBack(f) \in [LifGlobals -> 0 .. LifWrites]
<1>1. \A g \in LifGlobals : lifGlobals[g] \in 0 .. LifWrites
  BY DEF LifTyped, Values
<1>2. \A g \in LifGlobals : f.copy[g] # NoCopy => f.copy[g] \in 0 .. LifWrites
  BY Constants DEF Frames, NoCopy
<1> QED
  BY <1>1, <1>2 DEF WriteBack, LifTyped, Values

\* What is left of the stacks when the running frame of t writes v to its copy of g.
Wrote(t, g, v) ==
  /\ lifStack' \in [LifThreads -> Seq(Frames)] /\ \A u \in LifThreads : Len(lifStack'[u]) = Len(lifStack[u])
  /\ \A u \in LifThreads : \A k \in 1 .. Len(lifStack[u]) :
        /\ lifStack'[u][k].async = lifStack[u][k].async /\ lifStack'[u][k].back = lifStack[u][k].back
        /\ lifStack'[u][k].prev = lifStack[u][k].prev
        /\ u # t \/ k # Len(lifStack[t]) => lifStack'[u][k].copy = lifStack[u][k].copy
  /\ lifStack'[t][Len(lifStack[t])].copy = [lifStack[t][Len(lifStack[t])].copy EXCEPT ![g] = v]

LEMMA CopyTyped ==
  ASSUME LifTyped, NEW t \in LifThreads, lifStack[t] # <<>>, NEW g \in LifGlobals, NEW v \in 0 .. LifWrites,
         lifStack' = [lifStack EXCEPT ![t][Len(lifStack[t])].copy[g] = v]
  PROVE  Wrote(t, g, v)
<1> DEFINE s == lifStack[t]  n == Len(s)  f == [s[n] EXCEPT !.copy[g] = v]  z == [s EXCEPT ![n] = f]
<1>1. s \in Seq(Frames) /\ n \in Nat \ {0} /\ s[n] \in Frames
  BY TopFrame DEF LifTyped
<1>2. /\ f \in Frames /\ f.async = s[n].async /\ f.back = s[n].back /\ f.prev = s[n].prev
      /\ f.copy = [s[n].copy EXCEPT ![g] = v]
  BY <1>1, Constants DEF Frames
<1>3. z \in Seq(Frames) /\ Len(z) = n /\ z[n] = f /\ \A k \in 1 .. n : k # n => z[k] = s[k]
  BY <1>1, <1>2
<1>4. lifStack' = [lifStack EXCEPT ![t] = z]
  OBVIOUS
<1> HIDE DEF z, f
<1>5. lifStack'[t] = z /\ \A u \in LifThreads : u # t => lifStack'[u] = lifStack[u]
  BY <1>4 DEF LifTyped
<1>6. lifStack' \in [LifThreads -> Seq(Frames)]
  BY <1>3, <1>4 DEF LifTyped
<1> QED
  BY <1>2, <1>3, <1>5, <1>6 DEF Wrote

LEMMA LeaveTyped ==
  ASSUME NEW nest \in Int, NEW flag \in BOOLEAN, NEW active
  PROVE  AsyncRootLeave(nest, flag, active).nest \in Int /\ AsyncRootLeave(nest, flag, active).flag \in BOOLEAN
<1> DEFINE n == IF active /\ nest > 0 THEN nest - 1 ELSE nest
<1>1. n \in Int
  OBVIOUS
<1> HIDE DEF n
<1>2. (IF active /\ n = 0 THEN FALSE ELSE flag) \in BOOLEAN
  OBVIOUS
<1> DEFINE b == IF active /\ n = 0 THEN FALSE ELSE flag
<1>3. AsyncRootLeave(nest, flag, active) = [nest |-> n, flag |-> b]
  BY DEF AsyncRootLeave, n
<1> HIDE DEF b
<1>4. AsyncRootLeave(nest, flag, active).nest = n /\ AsyncRootLeave(nest, flag, active).flag = b
  BY <1>3
<1>5. b \in BOOLEAN
  BY <1>2, Zenon DEF b
<1> QED
  BY <1>1, <1>4, <1>5

LEMMA LifNextTyped == LifTyped /\ [LifNext]_lifVars => LifTyped'
<1> SUFFICES ASSUME LifTyped, [LifNext]_lifVars PROVE LifTyped'
  OBVIOUS
<1>0. \A t \in LifThreads : /\ lifStack[t] \in Seq(Frames) /\ Len(lifStack[t]) <= LifDepth
                            /\ lifFlag[t] \in BOOLEAN /\ lifNest[t] \in Int /\ Len(lifStack[t]) \in Nat
  BY DEF LifTyped
\* A call: a frame on top of the others.
<1>a. ASSUME NEW t \in LifThreads, Calls(t), NEW f \in Frames, Push(t, f),
             UNCHANGED <<lifPhase, lifGlobals, lifProgram, lifIndexed, lifThrown, lifHistory>>,
             lifFlag' \in [LifThreads -> BOOLEAN], lifNest' \in [LifThreads -> Int]
      PROVE  LifTyped'
  <2>1. /\ lifStack' \in [LifThreads -> Seq(Frames)] /\ \A u \in LifThreads : Len(lifStack'[u]) <= LifDepth
        /\ lifStack["main"] # <<>> => lifStack'["main"] # <<>>
    <3>1. lifStack["main"] # <<>> => lifStack'["main"] # <<>>
      <4>1. Append(lifStack[t], f) # <<>>
        BY <1>0, Pushed
      <4> QED
        BY <1>a, <4>1, Constants DEF Push, LifTyped
    <3> QED
      BY <1>a, <3>1, PushTyped DEF Calls
  <2>2. (lifPhase' = "out") <=> (lifStack'["main"] = <<>>)
    <3>1. t # "main" => lifStack'["main"] = lifStack["main"]
      BY <1>a, Constants DEF Push, LifTyped
    <3>2. t = "main" => lifStack["main"] # <<>>
      BY <1>a DEF Calls, NotEntered
    <3> QED
      BY <1>a, <2>1, <3>1, <3>2 DEF LifTyped, NotEntered
  <2> QED
    BY <1>a, <2>1, <2>2 DEF LifTyped, Values, lifHistory, NotEntered
\* A stack loses frames, but the main thread's keeps one.
<1>b. ASSUME NEW t \in LifThreads, NEW s \in Seq(Frames), Len(s) <= LifDepth, t = "main" => s # <<>> /\ lifStack[t] # <<>>,
             lifStack' = [lifStack EXCEPT ![t] = s],
             UNCHANGED <<lifPhase, lifHistory>>, lifGlobals' \in [LifGlobals -> 0 .. LifWrites],
             lifFlag' \in [LifThreads -> BOOLEAN], lifNest' \in [LifThreads -> Int],
             {lifThrown', lifProgram', lifIndexed'} \subseteq BOOLEAN
      PROVE  LifTyped'
  <2>1. /\ lifStack' \in [LifThreads -> Seq(Frames)] /\ \A u \in LifThreads : Len(lifStack'[u]) <= LifDepth
    BY <1>b, StackTyped
  <2>2. (lifPhase' = "out") <=> (lifStack'["main"] = <<>>)
    <3>1. lifStack'["main"] = IF t = "main" THEN s ELSE lifStack["main"]
      BY <1>b, Constants DEF LifTyped
    <3> QED
      BY <1>b, <3>1 DEF LifTyped, NotEntered
  <2> QED
    BY <1>b, <2>1, <2>2 DEF LifTyped, Values, lifHistory, NotEntered
<1>1. CASE RunBegin
  <2> DEFINE f == CallFrame("main", FALSE, Seeded(lifGlobals), FALSE)
  <2>0. /\ Seeded(lifGlobals) \in [LifGlobals -> 0 .. LifWrites]
        /\ Seeded(lifLast) \in [LifGlobals -> 0 .. LifWrites]
    BY Constants DEF Seeded, LifTyped, Values
  <2>1. f \in Frames
    BY <1>0, <2>0, Constants, FramesTyped
  <2>2. lifStack["main"] = <<>> /\ Len(lifStack["main"]) < LifDepth
    <3>1. lifStack["main"] = <<>>
      BY <1>1 DEF RunBegin, LifTyped, NotEntered
    <3>2. Len(<<>>) = 0
      OBVIOUS
    <3> QED
      BY <3>1, <3>2, Constants
  <2>3. Push("main", f)
    BY <1>1 DEF RunBegin
  <2> HIDE DEF f
  <2>4. lifStack'["main"] = Append(<<>>, f)
    BY <2>2, <2>3, Constants DEF Push, LifTyped
  <2>5. lifStack'["main"] # <<>>
    BY <2>1, <2>4
  <2>6. lifStack' \in [LifThreads -> Seq(Frames)] /\ \A u \in LifThreads : Len(lifStack'[u]) <= LifDepth
    BY <2>1, <2>2, <2>3, Constants, PushTyped
  <2> QED
    BY <1>1, <2>0, <2>5, <2>6 DEF RunBegin, LifTyped, Values, NotEntered, lifHistory
<1>2. ASSUME NEW async \in BOOLEAN, RunBody(async) PROVE LifTyped'
  <2> DEFINE s == lifStack["main"]  f == [s[1] EXCEPT !.async = async]  z == [s EXCEPT ![1] = f]
  <2>1. s \in Seq(Frames) /\ Len(s) = 1 /\ s[1] \in Frames /\ f \in Frames
    <3>1. s \in Seq(Frames) /\ Len(s) = 1
      BY <1>0, <1>2, Constants DEF RunBody
    <3>2. s[1] \in Frames
      BY <3>1
    <3> QED
      BY <3>1, <3>2 DEF Frames
  <2>2. z \in Seq(Frames) /\ Len(z) = 1 /\ z # <<>> /\ s # <<>>
    BY <2>1
  <2>3. lifStack' = [lifStack EXCEPT !["main"] = z]
    BY <1>2 DEF RunBody
  <2> HIDE DEF z
  <2>4. lifStack' \in [LifThreads -> Seq(Frames)] /\ \A u \in LifThreads : Len(lifStack'[u]) <= LifDepth
    BY <1>0, <2>1, <2>2, <2>3, Constants, StackTyped
  <2>5. lifStack'["main"] # <<>>
    BY <2>2, <2>3, Constants DEF LifTyped
  <2>6. lifFlag' \in [LifThreads -> BOOLEAN] /\ lifNest' \in [LifThreads -> Int]
    BY <1>2, Constants DEF RunBody, LifTyped
  <2> QED
    BY <1>2, <2>4, <2>5, <2>6 DEF RunBody, LifTyped, Values, NotEntered, lifHistory
<1>3. ASSUME LeaveRun, {lifThrown', lifProgram'} \subseteq BOOLEAN PROVE LifTyped'
  <2>1. lifStack' = [lifStack EXCEPT !["main"] = <<>>] /\ lifPhase' = "out" /\ lifIndexed' = FALSE
        /\ UNCHANGED <<lifGlobals, lifHistory>>
    BY <1>3 DEF LeaveRun
  <2>2. lifStack' \in [LifThreads -> Seq(Frames)] /\ \A u \in LifThreads : Len(lifStack'[u]) <= LifDepth
    <3>1. <<>> \in Seq(Frames) /\ Len(<<>>) = 0 /\ 0 <= LifDepth
      BY Constants
    <3> QED
      BY <2>1, <3>1, Constants, StackTyped
  <2>3. lifStack'["main"] = <<>>
    BY <2>1, Constants DEF LifTyped
  <2>4. lifFlag' \in [LifThreads -> BOOLEAN] /\ lifNest' \in [LifThreads -> Int]
    <3> DEFINE left == AsyncRootLeave(lifNest["main"], lifFlag["main"], lifPhase = "body" /\ lifStack["main"][1].async)
    <3>1. left.nest \in Int /\ left.flag \in BOOLEAN
      BY <1>0, Constants, LeaveTyped
    <3>2. /\ lifFlag' = [lifFlag EXCEPT !["main"] = left.flag]
          /\ lifNest' = [lifNest EXCEPT !["main"] = left.nest]
      BY <1>3 DEF LeaveRun
    <3> HIDE DEF left
    <3> QED
      BY <3>1, <3>2 DEF LifTyped
  <2> QED
    BY <1>3, <2>1, <2>2, <2>3, <2>4 DEF LifTyped, Values, NotEntered, lifHistory
<1>4. CASE RunReturn
  BY <1>3, <1>4 DEF RunReturn, LifTyped
<1>5. CASE RunThrow
  BY <1>3, <1>5 DEF RunThrow, LifTyped
<1>6. ASSUME NEW t \in LifThreads, CallByName(t) PROVE LifTyped'
  <2>1. CallFrame(t, lifFlag[t], lifGlobals, TRUE) \in Frames
    BY <1>0, FramesTyped DEF LifTyped, Values
  <2> QED
    BY <1>6, <1>a, <2>1 DEF CallByName, LifTyped
<1>7. ASSUME NEW t \in LifThreads, NEW async \in BOOLEAN, Call(t, async) PROVE LifTyped'
  <2>1. CallFrame(t, async, NoCopies, FALSE) \in Frames
    BY <1>0, FramesTyped
  <2>2. lifFlag' \in [LifThreads -> BOOLEAN] /\ lifNest' \in [LifThreads -> Int]
    BY <1>7 DEF Call, CallFlag, LifTyped
  <2> QED
    BY <1>7, <1>a, <2>1, <2>2 DEF Call
<1>8. ASSUME NEW t \in LifThreads, Return(t) PROVE LifTyped'
  <2>1. /\ lifStack[t] # <<>> /\ Len(lifStack[t]) > 1 /\ Top(t) \in Frames
        /\ Front(lifStack[t]) \in Seq(Frames) /\ Len(Front(lifStack[t])) = Len(lifStack[t]) - 1
    <3>1. lifStack[t] # <<>> /\ Len(lifStack[t]) > 1
      BY <1>8 DEF Return
    <3> QED
      BY <1>0, <3>1, TopFrame DEF Top
  <2>2. Front(lifStack[t]) # <<>> /\ Len(Front(lifStack[t])) <= LifDepth
    BY <1>0, <2>1, Constants
  <2>3. lifFlag' \in [LifThreads -> BOOLEAN]
    BY <1>8, <2>1 DEF Return, LifTyped, Frames
  <2>4. lifNest' \in [LifThreads -> Int]
    BY <1>8 DEF Return, LifTyped
  <2>5. lifGlobals' \in [LifGlobals -> 0 .. LifWrites]
    BY <1>8, <2>1, WriteBackTyped DEF Return, LifTyped, Frames
  <2> QED
    BY <1>8, <1>b, <2>1, <2>2, <2>3, <2>4, <2>5 DEF Return, LifTyped, lifHistory
<1>9. ASSUME NEW t \in LifThreads, NEW n \in 1 .. LifDepth, Throw(t, n) PROVE LifTyped'
  <2>1. n \in Nat /\ 1 <= n /\ n < Len(lifStack[t]) /\ lifStack[t] # <<>>
    <3>1. n \in 1 .. Len(lifStack[t]) - 1
      BY <1>9 DEF Throw
    <3>2. Len(lifStack[t]) > 1 /\ n \in Nat /\ 1 <= n /\ n < Len(lifStack[t])
      BY <1>0, <3>1
    <3> QED
      BY <3>2
  <2>2. /\ SubSeq(lifStack[t], 1, n) \in Seq(Frames) /\ SubSeq(lifStack[t], 1, n) # <<>>
        /\ Len(SubSeq(lifStack[t], 1, n)) <= LifDepth
    <3>1. SubSeq(lifStack[t], 1, n) \in Seq(Frames) /\ Len(SubSeq(lifStack[t], 1, n)) = n
      BY <1>0, <2>1, KeptFrames
    <3>2. Len(<<>>) = 0
      OBVIOUS
    <3> QED
      BY <2>1, <3>1, <3>2
  <2>3. lifStack' = [lifStack EXCEPT ![t] = SubSeq(lifStack[t], 1, n)] /\ lifThrown' = TRUE
        /\ UNCHANGED <<lifPhase, lifFlag, lifNest, lifGlobals, lifProgram, lifIndexed, lifHistory>>
    BY <1>9 DEF Throw
  <2> QED
    BY <1>b, <2>1, <2>2, <2>3 DEF LifTyped, Values
<1>10. ASSUME NEW t \in LifThreads, NEW g \in LifGlobals, WriteGlobal(t, g) PROVE LifTyped'
  <2>1. /\ lifWrites' = lifWrites + 1 /\ lifWrites + 1 \in 0 .. LifWrites /\ lifStack[t] # <<>>
        /\ lifLast' = [lifLast EXCEPT ![g] = lifWrites + 1]
        /\ lifGlobals' = [lifGlobals EXCEPT ![g] = lifWrites + 1]
        /\ UNCHANGED <<lifPhase, lifFlag, lifNest, lifProgram, lifIndexed, lifThrown>>
    BY <1>10, Constants DEF WriteGlobal, Stored, NotEntered, LifTyped, Values
  <2>2. /\ lifStack' \in [LifThreads -> Seq(Frames)] /\ \A u \in LifThreads : Len(lifStack'[u]) = Len(lifStack[u])
    <3>1. \/ UNCHANGED lifStack
          \/ lifStack' = [lifStack EXCEPT ![t][Len(lifStack[t])].copy[g] = lifWrites + 1]
      BY <1>10 DEF WriteGlobal, Remembered
    <3>2. CASE UNCHANGED lifStack
      BY <3>2 DEF LifTyped
    <3>3. CASE lifStack' = [lifStack EXCEPT ![t][Len(lifStack[t])].copy[g] = lifWrites + 1]
      <4>1. Wrote(t, g, lifWrites + 1)
        BY <2>1, <3>3, CopyTyped
      <4> QED
        BY <4>1 DEF Wrote
    <3> QED
      BY <3>1, <3>2, <3>3
  <2>3. (lifStack'["main"] = <<>>) <=> (lifStack["main"] = <<>>)
    <3>1. Len(lifStack'["main"]) = Len(lifStack["main"]) /\ lifStack'["main"] \in Seq(Frames)
          /\ lifStack["main"] \in Seq(Frames)
      BY <1>0, <2>2, Constants
    <3> QED
      BY <3>1
  <2> QED
    BY <1>0, <2>1, <2>2, <2>3 DEF LifTyped, Values, NotEntered
<1>11. ASSUME NEW w \in LifWorkers, WorkerEnter(w) PROVE LifTyped'
  <2> DEFINE f == CallFrame(w, FALSE, lifGlobals, TRUE)
  <2>1. w \in LifThreads /\ w # "main" /\ f \in Frames
    BY <1>0, Constants, FramesTyped DEF LifTyped, Values
  <2>2. lifStack[w] = <<>> /\ Push(w, f)
    BY <1>11 DEF WorkerEnter, NotEntered
  <2> HIDE DEF f
  <2>3. /\ Append(<<>>, f) \in Seq(Frames) /\ Len(Append(<<>>, f)) <= LifDepth
        /\ lifStack' = [lifStack EXCEPT ![w] = Append(<<>>, f)]
    <3>1. Append(<<>>, f) \in Seq(Frames) /\ Len(Append(<<>>, f)) = 1
      BY <2>1
    <3> QED
      BY <2>2, <3>1, Constants DEF Push
  <2>4. /\ lifGlobals' \in [LifGlobals -> 0 .. LifWrites] /\ UNCHANGED <<lifPhase, lifHistory>>
        /\ lifFlag' \in [LifThreads -> BOOLEAN] /\ lifNest' \in [LifThreads -> Int]
        /\ {lifThrown', lifProgram', lifIndexed'} \subseteq BOOLEAN
    BY <1>11 DEF WorkerEnter, LifTyped, Values
  <2> QED
    BY <1>b, <2>1, <2>3, <2>4
<1>12. ASSUME NEW w \in LifWorkers, WorkerReturn(w) \/ WorkerThrow(w) PROVE LifTyped'
  <2>1. w \in LifThreads /\ w # "main" /\ <<>> \in Seq(Frames) /\ Len(<<>>) = 0 /\ 0 <= LifDepth
    BY Constants
  <2>2. /\ lifStack' = [lifStack EXCEPT ![w] = <<>>]
        /\ UNCHANGED <<lifPhase, lifFlag, lifNest, lifHistory>>
        /\ {lifThrown', lifProgram', lifIndexed'} \subseteq BOOLEAN
    BY <1>12 DEF WorkerReturn, WorkerThrow, LifTyped
  <2>3. lifGlobals' \in [LifGlobals -> 0 .. LifWrites]
    <3>1. CASE WorkerReturn(w)
      <4>1. lifStack[w] # <<>>
        <5>1. Len(lifStack[w]) = 1 /\ lifStack[w] \in Seq(Frames)
          BY <1>0, <2>1, <3>1 DEF WorkerReturn
        <5> QED
          BY <2>1, <5>1
      <4>2. Top(w) \in Frames
        BY <1>0, <2>1, <4>1, TopFrame DEF Top
      <4> QED
        BY <3>1, <4>2, WriteBackTyped DEF WorkerReturn
    <3>2. CASE WorkerThrow(w)
      BY <3>2 DEF WorkerThrow, LifTyped, Values
    <3> QED
      BY <1>12, <3>1, <3>2
  <2> QED
    BY <1>b, <2>1, <2>2, <2>3 DEF LifTyped
<1>13. CASE UNCHANGED lifVars
  BY <1>13 DEF lifVars, lifHistory, LifTyped, Values, NotEntered
<1> QED
  BY <1>1, <1>2, <1>4, <1>5, <1>6, <1>7, <1>8, <1>9, <1>10, <1>11, <1>12, <1>13 DEF LifNext

LEMMA LifAlwaysTyped == LifSpec => []LifTyped
BY LifInitTyped, LifNextTyped, PTL DEF LifSpec

\* Every reachable state is well typed.
THEOREM LifTypeCorrect == LifSpec => []LifTypeOK
<1>1. LifTyped => LifTypeOK
  BY DEF LifTyped, Values, LifTypeOK
<1> QED
  BY <1>1, LifAlwaysTyped, PTL

-----------------------------------------------------------------------------
(***************************************************************************)
(* What a run leaves behind.  The index and the workers need only where    *)
(* the threads are; the flag and the async depth need to be in balance     *)
(* with the frames of each thread, which holds while nothing has thrown.   *)
(***************************************************************************)
Counted(frame) == frame.async /\ ~frame.back
Asyncs(s) == {k \in 1 .. Len(s) : Counted(s[k])}

\* The flag and the depth of a thread are those its frames account for, and
\* each frame remembers the flag of the one below.
Balanced(s, flag, nest) ==
  /\ s = <<>> => ~flag
  /\ s # <<>> => flag = s[Len(s)].async
  /\ \A k \in 2 .. Len(s) : s[k].prev = s[k - 1].async /\ (s[k].back => s[k].async = s[k].prev)
  /\ nest = Cardinality(Asyncs(s))

\* The first frame is run()'s own, or run_single_action's with its copies.
Bottom(t) ==
  ~NotEntered(t) =>
    IF t = "main" THEN ~lifStack[t][1].back /\ (lifPhase = "start" => ~lifStack[t][1].async)
    ELSE lifStack[t][1].back /\ ~lifStack[t][1].async

Outside == NotEntered("main") => ~lifIndexed /\ \A t \in LifThreads : NotEntered(t)

Kept ==
  lifThrown \/ /\ lifPhase = "out" => ~lifProgram
               /\ \A t \in LifThreads : Bottom(t) /\ Balanced(lifStack[t], lifFlag[t], lifNest[t])

LEMMA AsyncsFinite == ASSUME NEW s \in Seq(Frames) PROVE IsFiniteSet(Asyncs(s)) /\ Cardinality(Asyncs(s)) \in Nat
<1>1. IsFiniteSet(1 .. Len(s)) /\ Asyncs(s) \in SUBSET (1 .. Len(s))
  BY FS_Interval DEF Asyncs
<1> QED
  BY <1>1, FS_Subset, FS_CardinalityType

\* One frame more counts for one, or for none.
LEMMA OneMore ==
  ASSUME NEW s \in Seq(Frames), NEW z \in Seq(Frames), Len(z) = Len(s) + 1, \A i \in 1 .. Len(s) : z[i] = s[i]
  PROVE  Cardinality(Asyncs(z)) = Cardinality(Asyncs(s)) + IF Counted(z[Len(z)]) THEN 1 ELSE 0
<1>1. IsFiniteSet(Asyncs(s)) /\ Cardinality(Asyncs(s)) \in Nat /\ Len(z) \notin Asyncs(s)
  BY AsyncsFinite DEF Asyncs
<1>2. CASE Counted(z[Len(z)])
  <2>1. Asyncs(z) = Asyncs(s) \cup {Len(z)}
    BY <1>2 DEF Asyncs
  <2>2. Cardinality(Asyncs(s) \cup {Len(z)}) = Cardinality(Asyncs(s)) + 1
    BY <1>1, FS_AddElement
  <2> QED
    BY <1>2, <2>1, <2>2
<1>3. CASE ~Counted(z[Len(z)])
  <2>1. Asyncs(z) = Asyncs(s)
    BY <1>3 DEF Asyncs
  <2> QED
    BY <1>1, <1>3, <2>1
<1> QED
  BY <1>2, <1>3

LEMMA EmptyBalanced == Balanced(<<>>, FALSE, 0) /\ \A flag, nest : Balanced(<<>>, flag, nest) => ~flag /\ nest = 0
<1>1. Asyncs(<<>>) = {} /\ Len(<<>>) = 0
  BY DEF Asyncs
<1> QED
  BY <1>1, FS_EmptySet DEF Balanced

\* A call on top of a balanced stack that saves the flag, ...
LEMMA PushBalanced ==
  ASSUME NEW s \in Seq(Frames), NEW flag \in BOOLEAN, NEW nest, Balanced(s, flag, nest),
         NEW f \in Frames, f.prev = flag, f.back => f.async = flag
  PROVE  Balanced(Append(s, f), f.async, nest + IF Counted(f) THEN 1 ELSE 0)
<1> DEFINE z == Append(s, f)
<1>1. /\ z \in Seq(Frames) /\ Len(z) = Len(s) + 1 /\ z[Len(s) + 1] = f /\ \A i \in 1 .. Len(s) : z[i] = s[i]
      /\ z # <<>> /\ Len(s) \in Nat
  BY Pushed
<1> HIDE DEF z
<1>2. Cardinality(Asyncs(z)) = Cardinality(Asyncs(s)) + IF Counted(f) THEN 1 ELSE 0
  BY <1>1, OneMore
<1>3. ASSUME NEW k \in 2 .. Len(z) PROVE z[k].prev = z[k - 1].async /\ (z[k].back => z[k].async = z[k].prev)
  <2>1. CASE k = Len(s) + 1
    <3>1. s # <<>> /\ z[k - 1] = s[Len(s)] /\ z[k] = f
      BY <1>1, <1>3, <2>1
    <3>2. flag = s[Len(s)].async
      BY <3>1 DEF Balanced
    <3> QED
      BY <3>1, <3>2
  <2>2. CASE k # Len(s) + 1
    <3>1. k \in 2 .. Len(s) /\ z[k] = s[k] /\ z[k - 1] = s[k - 1]
      BY <1>1, <1>3, <2>2
    <3> QED
      BY <3>1 DEF Balanced
  <2> QED
    BY <2>1, <2>2
<1>4. Balanced(z, f.async, nest + IF Counted(f) THEN 1 ELSE 0)
  BY <1>1, <1>2, <1>3 DEF Balanced
<1> QED
  BY <1>4 DEF z

\* ... and a return that puts it back.
LEMMA PopBalanced ==
  ASSUME NEW s \in Seq(Frames), NEW flag, NEW nest \in Int, Balanced(s, flag, nest), Len(s) > 1
  PROVE  Balanced(Front(s), IF s[Len(s)].back THEN flag ELSE s[Len(s)].prev,
                  IF s[Len(s)].async /\ ~s[Len(s)].back THEN nest - 1 ELSE nest)
<1> DEFINE z == Front(s)  n == Len(s)
<1>1. /\ s # <<>> /\ n \in Nat /\ n > 1 /\ z \in Seq(Frames) /\ Len(z) = n - 1
      /\ \A i \in 1 .. n - 1 : z[i] = s[i]
  BY TopFrame
<1> HIDE DEF z
<1>2. z # <<>> /\ z[Len(z)] = s[n - 1]
  BY <1>1
<1>3. s[n].prev = s[n - 1].async /\ (s[n].back => s[n].async = s[n].prev) /\ flag = s[n].async
  BY <1>1 DEF Balanced
<1>4. Cardinality(Asyncs(s)) = Cardinality(Asyncs(z)) + IF Counted(s[n]) THEN 1 ELSE 0
  BY <1>1, OneMore
<1>5. nest = Cardinality(Asyncs(s)) /\ Cardinality(Asyncs(z)) \in Nat
  BY <1>1, AsyncsFinite DEF Balanced
<1>6. \A k \in 2 .. Len(z) : z[k].prev = z[k - 1].async /\ (z[k].back => z[k].async = z[k].prev)
  <2>1. ASSUME NEW k \in 2 .. Len(z) PROVE k \in 2 .. Len(s) /\ z[k] = s[k] /\ z[k - 1] = s[k - 1]
    BY <1>1
  <2> QED
    BY <2>1 DEF Balanced
<1>7. (IF s[n].back THEN flag ELSE s[n].prev) = z[Len(z)].async
  BY <1>2, <1>3
<1>8. (IF s[n].async /\ ~s[n].back THEN nest - 1 ELSE nest) = Cardinality(Asyncs(z))
  BY <1>4, <1>5 DEF Counted
<1>9. Balanced(z, IF s[n].back THEN flag ELSE s[n].prev, IF s[n].async /\ ~s[n].back THEN nest - 1 ELSE nest)
  BY <1>2, <1>6, <1>7, <1>8 DEF Balanced
<1> QED
  BY <1>9 DEF z

\* Nothing but the copies of the globals changed.
LEMMA SameBalanced ==
  ASSUME NEW s \in Seq(Frames), NEW z \in Seq(Frames), Len(z) = Len(s),
         \A k \in 1 .. Len(s) : z[k].async = s[k].async /\ z[k].back = s[k].back /\ z[k].prev = s[k].prev,
         NEW flag, NEW nest, Balanced(s, flag, nest)
  PROVE  Balanced(z, flag, nest)
<1>1. Asyncs(z) = Asyncs(s)
  BY DEF Asyncs, Counted
<1>2. (z = <<>>) <=> (s = <<>>)
  OBVIOUS
<1>3. s # <<>> => Len(s) \in 1 .. Len(s)
  OBVIOUS
<1>4. \A k \in 2 .. Len(z) : k \in 1 .. Len(s) /\ k - 1 \in 1 .. Len(s)
  OBVIOUS
<1> QED
  BY <1>1, <1>2, <1>3, <1>4 DEF Balanced

\* A stack of one frame that run() or run_single_action() made.
LEMMA OneFrame ==
  ASSUME NEW s \in Seq(Frames), Len(s) = 1
  PROVE  \A flag, nest : Balanced(s, flag, nest) <=>
           flag = s[1].async /\ nest = IF Counted(s[1]) THEN 1 ELSE 0
<1>1. s # <<>> /\ 2 .. Len(s) = {}
  <2>1. ASSUME s = <<>> PROVE Len(s) = 0
    BY <2>1
  <2>2. 2 .. Len(s) = {}
    OBVIOUS
  <2>3. s # <<>>
    BY <2>1
  <2> QED
    BY <2>2, <2>3
<1>2. Asyncs(s) = IF Counted(s[1]) THEN {1} ELSE {}
  BY DEF Asyncs
<1>3. Cardinality(Asyncs(s)) = IF Counted(s[1]) THEN 1 ELSE 0
  BY <1>2, FS_EmptySet, FS_Singleton
<1> QED
  BY <1>1, <1>3 DEF Balanced

LEMMA NextOutside == LifTyped /\ Outside /\ [LifNext]_lifVars => Outside'
<1> SUFFICES ASSUME LifTyped, Outside, [LifNext]_lifVars, NotEntered("main")'
             PROVE  ~lifIndexed' /\ \A t \in LifThreads : NotEntered(t)'
  BY DEF Outside
<1>0. \A t \in LifThreads : lifStack[t] \in Seq(Frames) /\ Len(lifStack[t]) \in Nat
  BY DEF LifTyped
\* A step on a thread that is inside, or a call where the main thread is.
<1>a. ASSUME NEW t \in LifThreads, ~NotEntered(t), NEW s, t = "main" => s # <<>>,
             lifStack' = [lifStack EXCEPT ![t] = s]
      PROVE  FALSE
  BY <1>a, Constants DEF Outside, NotEntered, LifTyped
<1>1. CASE RunBegin
  <2> DEFINE f == CallFrame("main", FALSE, Seeded(lifGlobals), FALSE)
  <2>1. Push("main", f)
    BY <1>1 DEF RunBegin
  <2> HIDE DEF f
  <2>2. lifStack'["main"] = Append(lifStack["main"], f) /\ lifStack["main"] \in Seq(Frames)
    BY <1>0, <2>1, Constants DEF Push, LifTyped
  <2>3. Append(lifStack["main"], f) # <<>>
    BY <2>2
  <2> QED
    BY <2>2, <2>3 DEF NotEntered
<1>2. ASSUME NEW async \in BOOLEAN, RunBody(async) PROVE FALSE
  <2> DEFINE z == [lifStack["main"] EXCEPT ![1] = [lifStack["main"][1] EXCEPT !.async = async]]
  <2>1. Len(z) = 1 /\ z # <<>>
    BY <1>0, <1>2, Constants DEF RunBody
  <2>2. lifStack' = [lifStack EXCEPT !["main"] = z]
    BY <1>2 DEF RunBody
  <2> HIDE DEF z
  <2> QED
    BY <2>1, <2>2, Constants DEF NotEntered, LifTyped
<1>3. CASE RunReturn \/ RunThrow
  <2>1. /\ lifIndexed' = FALSE /\ lifStack' = [lifStack EXCEPT !["main"] = <<>>]
        /\ \A w \in LifWorkers : NotEntered(w)
    BY <1>3 DEF RunReturn, RunThrow, LeaveRun
  <2>2. \A t \in LifThreads : lifStack'[t] = <<>>
    BY <2>1, Constants DEF NotEntered, LifTyped, LifThreads
  <2> QED
    BY <2>1, <2>2 DEF NotEntered
<1>4. ASSUME NEW t \in LifThreads, CallByName(t) \/ \E async \in BOOLEAN : Call(t, async) PROVE FALSE
  <2>1. PICK f \in Frames : Push(t, f) /\ ~NotEntered(t)
    <3>1. /\ CallFrame(t, lifFlag[t], lifGlobals, TRUE) \in Frames
          /\ \A async \in BOOLEAN : CallFrame(t, async, NoCopies, FALSE) \in Frames
      BY FramesTyped DEF LifTyped, Values
    <3> QED
      BY <1>4, <3>1 DEF CallByName, Call, Calls
  <2>2. Append(lifStack[t], f) # <<>>
    BY <1>0, Pushed
  <2> QED
    BY <1>a, <2>1, <2>2 DEF Push
<1>5. ASSUME NEW t \in LifThreads, Return(t) PROVE FALSE
  <2>1. Len(lifStack[t]) > 1 /\ lifStack[t] # <<>> /\ lifStack' = [lifStack EXCEPT ![t] = Front(lifStack[t])]
    BY <1>5 DEF Return
  <2>2. Len(Front(lifStack[t])) = Len(lifStack[t]) - 1
    BY <1>0, <2>1, TopFrame
  <2>3. Front(lifStack[t]) # <<>>
    BY <1>0, <2>1, <2>2
  <2> QED
    BY <1>a, <2>1, <2>3 DEF NotEntered
<1>6. ASSUME NEW t \in LifThreads, NEW n \in 1 .. LifDepth, Throw(t, n) PROVE FALSE
  <2>1. n \in Nat /\ 1 <= n /\ n <= Len(lifStack[t]) /\ lifStack[t] # <<>>
        /\ lifStack' = [lifStack EXCEPT ![t] = SubSeq(lifStack[t], 1, n)]
    <3>1. n \in 1 .. Len(lifStack[t]) - 1 /\ lifStack' = [lifStack EXCEPT ![t] = SubSeq(lifStack[t], 1, n)]
      BY <1>6 DEF Throw
    <3>2. n \in Nat /\ 1 <= n /\ n <= Len(lifStack[t]) /\ lifStack[t] # <<>>
      BY <1>0, <3>1
    <3> QED
      BY <3>1, <3>2
  <2>2. Len(SubSeq(lifStack[t], 1, n)) = n
    BY <1>0, <2>1, KeptFrames
  <2>3. SubSeq(lifStack[t], 1, n) # <<>>
    BY <2>1, <2>2
  <2> QED
    BY <1>a, <2>1, <2>3 DEF NotEntered
<1>7. ASSUME NEW t \in LifThreads, NEW g \in LifGlobals, WriteGlobal(t, g) PROVE FALSE
  <2>1. lifStack'["main"] # <<>>
    <3>1. lifStack[t] # <<>> /\ lifStack["main"] # <<>>
      BY <1>7 DEF WriteGlobal, Outside, NotEntered
    <3>2. \/ UNCHANGED lifStack
          \/ lifStack' = [lifStack EXCEPT ![t][Len(lifStack[t])].copy[g] = lifWrites + 1]
      BY <1>7 DEF WriteGlobal, Remembered
    <3>3. lifWrites + 1 \in 0 .. LifWrites
      BY <1>7, Constants DEF WriteGlobal, LifTyped, Values
    <3>4. CASE lifStack' = [lifStack EXCEPT ![t][Len(lifStack[t])].copy[g] = lifWrites + 1]
      <4>1. Len(lifStack'["main"]) = Len(lifStack["main"])
        BY <3>1, <3>3, <3>4, CopyTyped, Constants DEF Wrote
      <4> QED
        BY <1>0, <3>1, <4>1, Constants
    <3> QED
      BY <3>1, <3>2, <3>4
  <2> QED
    BY <2>1 DEF NotEntered
<1>8. ASSUME NEW w \in LifWorkers, WorkerEnter(w) PROVE FALSE
  <2>1. w \in LifThreads /\ w # "main" /\ ~NotEntered("main")
        /\ lifStack' = [lifStack EXCEPT ![w] = Append(lifStack[w], CallFrame(w, FALSE, lifGlobals, TRUE))]
    BY <1>8, Constants DEF WorkerEnter, Push
  <2> QED
    BY <2>1, Constants DEF NotEntered, LifTyped
<1>9. ASSUME NEW w \in LifWorkers, WorkerReturn(w) \/ WorkerThrow(w) PROVE FALSE
  <2>1. w \in LifThreads /\ w # "main" /\ lifStack' = [lifStack EXCEPT ![w] = <<>>]
    BY <1>9, Constants DEF WorkerReturn, WorkerThrow
  <2>2. ~NotEntered(w)
    BY <1>9 DEF WorkerReturn, WorkerThrow, NotEntered
  <2> QED
    BY <1>a, <2>1, <2>2
<1>10. CASE UNCHANGED lifVars
  BY <1>10 DEF lifVars, Outside, NotEntered
<1> QED
  BY <1>1, <1>2, <1>3, <1>4, <1>5, <1>6, <1>7, <1>8, <1>9, <1>10 DEF LifNext

LEMMA OneIsSome == ASSUME NEW s, Len(s) = 1 PROVE s # <<>>
<1>1. Len(<<>>) # 1
  OBVIOUS
<1> QED
  BY <1>1, Zenon

LEMMA NextKept == LifTyped /\ Outside /\ Kept /\ [LifNext]_lifVars => Kept'
<1> SUFFICES ASSUME LifTyped, Outside, Kept, [LifNext]_lifVars, ~lifThrown'
             PROVE  /\ lifPhase' = "out" => ~lifProgram'
                    /\ \A t \in LifThreads : Bottom(t)' /\ Balanced(lifStack'[t], lifFlag'[t], lifNest'[t])
  BY DEF Kept
<1>0. \A t \in LifThreads : /\ lifStack[t] \in Seq(Frames) /\ Len(lifStack[t]) \in Nat
                            /\ lifFlag[t] \in BOOLEAN /\ lifNest[t] \in Int
  BY DEF LifTyped
<1>k. ~lifThrown =>
        /\ lifPhase = "out" => ~lifProgram
        /\ \A t \in LifThreads : Bottom(t) /\ Balanced(lifStack[t], lifFlag[t], lifNest[t])
  BY DEF Kept
\* Only one thread's frames, flag and depth change.
<1>a. ASSUME NEW t \in LifThreads, ~lifThrown,
             NEW s, lifStack' = [lifStack EXCEPT ![t] = s],
             NEW flag, lifFlag' = [lifFlag EXCEPT ![t] = flag],
             NEW nest, lifNest' = [lifNest EXCEPT ![t] = nest],
             Balanced(s, flag, nest), Bottom(t)',
             t # "main" => lifPhase' = lifPhase
      PROVE  \A u \in LifThreads : Bottom(u)' /\ Balanced(lifStack'[u], lifFlag'[u], lifNest'[u])
  <2>1. lifStack'[t] = s /\ lifFlag'[t] = flag /\ lifNest'[t] = nest
    BY <1>a DEF LifTyped
  <2>2. ASSUME NEW u \in LifThreads, u # t PROVE Bottom(u)' /\ Balanced(lifStack'[u], lifFlag'[u], lifNest'[u])
    <3>1. lifStack'[u] = lifStack[u] /\ lifFlag'[u] = lifFlag[u] /\ lifNest'[u] = lifNest[u]
      BY <1>a, <2>2 DEF LifTyped
    <3>2. Bottom(u) /\ Balanced(lifStack[u], lifFlag[u], lifNest[u])
      BY <1>a, <1>k
    <3> QED
      BY <1>a, <2>2, <3>1, <3>2 DEF Bottom, NotEntered
  <2> QED
    BY <1>a, <2>1, <2>2
\* A call on top of the frames of a thread.
<1>b. ASSUME NEW t \in LifThreads, ~lifThrown, NEW f \in Frames, Push(t, f), Calls(t), UNCHANGED <<lifPhase, lifProgram>>,
             f.prev = lifFlag[t], f.back => f.async = lifFlag[t],
             lifFlag' = [lifFlag EXCEPT ![t] = f.async],
             lifNest' = [lifNest EXCEPT ![t] = lifNest[t] + IF Counted(f) THEN 1 ELSE 0]
      PROVE  /\ lifPhase' = "out" => ~lifProgram'
             /\ \A u \in LifThreads : Bottom(u)' /\ Balanced(lifStack'[u], lifFlag'[u], lifNest'[u])
  <2> DEFINE z == Append(lifStack[t], f)
  <2>1. Balanced(z, f.async, lifNest[t] + IF Counted(f) THEN 1 ELSE 0)
    BY <1>0, <1>b, <1>k, PushBalanced
  <2>2. z[1] = lifStack[t][1] /\ lifStack' = [lifStack EXCEPT ![t] = z]
    <3>1. lifStack[t] # <<>>
      BY <1>b DEF Calls, NotEntered
    <3> QED
      BY <1>0, <1>b, <3>1, Pushed DEF Push
  <2> HIDE DEF z
  <2>3. Bottom(t)'
    <3>1. lifStack'[t][1] = lifStack[t][1] /\ Bottom(t) /\ ~NotEntered(t)
      BY <1>b, <1>k, <2>2 DEF LifTyped, Calls
    <3> QED
      BY <1>b, <3>1 DEF Bottom, NotEntered
  <2>4. \A u \in LifThreads : Bottom(u)' /\ Balanced(lifStack'[u], lifFlag'[u], lifNest'[u])
    BY <1>a, <1>b, <2>1, <2>2, <2>3
  <2> QED
    BY <1>b, <1>k, <2>4
<1>1. CASE RunBegin
  <2> DEFINE f == CallFrame("main", FALSE, Seeded(lifGlobals), FALSE)
  <2>0. Push("main", f)
    BY <1>1 DEF RunBegin
  <2>1. ~lifThrown /\ lifPhase = "out" /\ lifPhase' = "start" /\ UNCHANGED <<lifFlag, lifNest>>
    BY <1>1 DEF RunBegin
  <2>2. f \in Frames /\ ~f.async /\ ~f.back
    <3>1. Seeded(lifGlobals) \in [LifGlobals -> 0 .. LifWrites]
      BY Constants DEF Seeded, LifTyped, Values
    <3> QED
      BY <1>0, <3>1, Constants, FramesTyped DEF CallFrame
  <2> HIDE DEF f
  <2>3. lifStack["main"] = <<>> /\ Balanced(<<>>, lifFlag["main"], lifNest["main"])
    BY <1>k, <2>1, Constants DEF LifTyped, NotEntered
  <2>4. ~lifFlag["main"] /\ lifNest["main"] = 0
    BY <2>3, EmptyBalanced
  <2> DEFINE z == Append(<<>>, f)
  <2>5. z \in Seq(Frames) /\ Len(z) = 1 /\ z[1] = f
    BY <2>2
  <2>6. lifStack' = [lifStack EXCEPT !["main"] = z]
    BY <2>0, <2>3 DEF Push
  <2> HIDE DEF z
  <2>7. Balanced(z, lifFlag["main"], lifNest["main"])
    <3>1. lifFlag["main"] = z[1].async
      BY <1>0, <2>2, <2>4, <2>5, Constants DEF Frames
    <3> QED
      BY <2>2, <2>4, <2>5, <3>1, OneFrame DEF Counted
  <2>8. Bottom("main")'
    BY <2>2, <2>5, <2>6, Constants DEF Bottom, LifTyped
  <2>9. lifFlag' = [lifFlag EXCEPT !["main"] = lifFlag["main"]] /\ lifNest' = [lifNest EXCEPT !["main"] = lifNest["main"]]
    BY <2>1 DEF LifTyped
  <2>10. \A u \in LifThreads : Bottom(u)' /\ Balanced(lifStack'[u], lifFlag'[u], lifNest'[u])
    BY <1>a, <2>1, <2>6, <2>7, <2>8, <2>9, Constants
  <2> QED
    BY <2>1, <2>10
<1>2. ASSUME NEW async \in BOOLEAN, RunBody(async)
      PROVE  /\ lifPhase' = "out" => ~lifProgram'
             /\ \A u \in LifThreads : Bottom(u)' /\ Balanced(lifStack'[u], lifFlag'[u], lifNest'[u])
  <2> DEFINE s == lifStack["main"]  f == [s[1] EXCEPT !.async = async]  z == [s EXCEPT ![1] = f]
  <2>1. ~lifThrown /\ lifPhase = "start" /\ lifPhase' = "body" /\ Len(s) = 1
    BY <1>2 DEF RunBody
  <2>2. s \in Seq(Frames) /\ s[1] \in Frames /\ ~NotEntered("main")
    BY <1>0, <2>1, Constants DEF LifTyped
  <2>3. ~s[1].async /\ ~s[1].back
    BY <1>k, <2>1, <2>2, Constants DEF Bottom
  <2>4. Balanced(s, lifFlag["main"], lifNest["main"])
    BY <1>k, <2>1, Constants
  <2>5. lifFlag["main"] = FALSE /\ lifNest["main"] = 0
    BY <1>0, <2>1, <2>2, <2>3, <2>4, OneFrame, Constants DEF Counted
  <2>6. f \in Frames /\ f.async = async /\ ~f.back
    BY <2>2, <2>3 DEF Frames
  <2> HIDE DEF f
  <2>7. z \in Seq(Frames) /\ Len(z) = 1 /\ z[1] = f
    BY <2>1, <2>2, <2>6
  <2>8. lifStack' = [lifStack EXCEPT !["main"] = z]
    BY <1>2 DEF RunBody, f
  <2> HIDE DEF z
  <2> DEFINE nest == IF async THEN 1 ELSE 0
  <2>9. Balanced(z, async, nest)
    BY <2>6, <2>7, OneFrame DEF Counted
  <2>10. lifFlag' = [lifFlag EXCEPT !["main"] = async] /\ lifNest' = [lifNest EXCEPT !["main"] = nest]
    <3>1. lifFlag' = [lifFlag EXCEPT !["main"] = async]
      BY <1>2, <2>5, Constants DEF RunBody, LifTyped
    <3>2. lifNest' = [lifNest EXCEPT !["main"] = IF async THEN lifNest["main"] + 1 ELSE lifNest["main"]]
      BY <1>2 DEF RunBody
    <3> QED
      BY <2>5, <3>1, <3>2
  <2>11. Bottom("main")'
    BY <2>1, <2>6, <2>7, <2>8, Constants DEF Bottom, LifTyped
  <2>12. \A u \in LifThreads : Bottom(u)' /\ Balanced(lifStack'[u], lifFlag'[u], lifNest'[u])
    BY <1>a, <2>1, <2>8, <2>9, <2>10, <2>11, Constants
  <2> QED
    BY <2>1, <2>12
<1>3. CASE RunReturn
  <2> DEFINE s == lifStack["main"]  active == lifPhase = "body" /\ s[1].async
             left == AsyncRootLeave(lifNest["main"], lifFlag["main"], active)
  <2>1. ~lifThrown /\ lifPhase = "body" /\ Len(s) = 1 /\ lifPhase' = "out" /\ lifProgram' = FALSE
        /\ lifStack' = [lifStack EXCEPT !["main"] = <<>>]
        /\ lifFlag' = [lifFlag EXCEPT !["main"] = left.flag] /\ lifNest' = [lifNest EXCEPT !["main"] = left.nest]
    BY <1>3 DEF RunReturn, LeaveRun
  <2>2. s \in Seq(Frames) /\ s[1] \in Frames /\ ~NotEntered("main")
    BY <1>0, <2>1, Constants DEF LifTyped
  <2>3. ~s[1].back /\ Balanced(s, lifFlag["main"], lifNest["main"])
    BY <1>k, <2>1, <2>2, Constants DEF Bottom
  <2>4. lifFlag["main"] = s[1].async /\ lifNest["main"] = IF s[1].async THEN 1 ELSE 0
    BY <2>1, <2>2, <2>3, OneFrame DEF Counted
  <2>5. left.flag = FALSE /\ left.nest = 0
    <3>1. CASE s[1].async
      BY <2>1, <2>4, <3>1 DEF AsyncRootLeave
    <3>2. CASE ~s[1].async
      <4>1. lifFlag["main"] = FALSE
        BY <1>0, <2>4, <3>2, Constants
      <4> QED
        BY <2>4, <3>2, <4>1 DEF AsyncRootLeave
    <3> QED
      BY <3>1, <3>2
  <2> HIDE DEF left
  <2>6. Balanced(<<>>, left.flag, left.nest)
    BY <2>5, EmptyBalanced
  <2>7. Bottom("main")'
    BY <2>1, Constants DEF Bottom, NotEntered, LifTyped
  <2>8. \A u \in LifThreads : Bottom(u)' /\ Balanced(lifStack'[u], lifFlag'[u], lifNest'[u])
    BY <1>a, <2>1, <2>6, <2>7, Constants
  <2> QED
    BY <2>1, <2>8
<1>4. ASSUME NEW t \in LifThreads, CallByName(t)
      PROVE  /\ lifPhase' = "out" => ~lifProgram'
             /\ \A u \in LifThreads : Bottom(u)' /\ Balanced(lifStack'[u], lifFlag'[u], lifNest'[u])
  <2> DEFINE f == CallFrame(t, lifFlag[t], lifGlobals, TRUE)
  <2>1. f \in Frames /\ f.prev = lifFlag[t] /\ f.async = lifFlag[t] /\ f.back
    BY <1>0, FramesTyped DEF LifTyped, Values, CallFrame
  <2>0. Push(t, f) /\ Calls(t)
    BY <1>4 DEF CallByName
  <2>2. UNCHANGED <<lifPhase, lifProgram, lifFlag, lifNest>> /\ ~lifThrown
    BY <1>4 DEF CallByName
  <2> HIDE DEF f
  <2>3. lifFlag' = [lifFlag EXCEPT ![t] = f.async]
    BY <2>1, <2>2 DEF LifTyped
  <2>4. lifNest' = [lifNest EXCEPT ![t] = lifNest[t] + IF Counted(f) THEN 1 ELSE 0]
    <3>1. (lifNest[t] + IF Counted(f) THEN 1 ELSE 0) = lifNest[t]
      BY <1>0, <2>1 DEF Counted
    <3> QED
      BY <2>2, <3>1 DEF LifTyped
  <2> QED
    BY <1>b, <2>0, <2>1, <2>2, <2>3, <2>4
<1>5. ASSUME NEW t \in LifThreads, NEW async \in BOOLEAN, Call(t, async)
      PROVE  /\ lifPhase' = "out" => ~lifProgram'
             /\ \A u \in LifThreads : Bottom(u)' /\ Balanced(lifStack'[u], lifFlag'[u], lifNest'[u])
  <2> DEFINE f == CallFrame(t, async, NoCopies, FALSE)
  <2>1. f \in Frames /\ f.prev = lifFlag[t] /\ f.async = async /\ f.back = FALSE
    BY <1>0, FramesTyped DEF CallFrame
  <2>0. Push(t, f) /\ Calls(t)
    BY <1>5 DEF Call
  <2>2. UNCHANGED <<lifPhase, lifProgram>> /\ ~lifThrown
    BY <1>5 DEF Call
  <2> HIDE DEF f
  <2>3. lifFlag' = [lifFlag EXCEPT ![t] = f.async]
    BY <1>5, <2>1 DEF Call, CallFlag
  <2>4. lifNest' = [lifNest EXCEPT ![t] = lifNest[t] + IF Counted(f) THEN 1 ELSE 0]
    <3>1. (lifNest[t] + IF Counted(f) THEN 1 ELSE 0) = IF async THEN lifNest[t] + 1 ELSE lifNest[t]
      BY <1>0, <2>1 DEF Counted
    <3> QED
      BY <1>5, <3>1 DEF Call
  <2> QED
    BY <1>b, <2>0, <2>1, <2>2, <2>3, <2>4
<1>6. ASSUME NEW t \in LifThreads, Return(t)
      PROVE  /\ lifPhase' = "out" => ~lifProgram'
             /\ \A u \in LifThreads : Bottom(u)' /\ Balanced(lifStack'[u], lifFlag'[u], lifNest'[u])
  <2> DEFINE s == lifStack[t]  z == Front(s)
             flag == IF s[Len(s)].back THEN lifFlag[t] ELSE s[Len(s)].prev
             nest == IF s[Len(s)].async /\ ~s[Len(s)].back THEN lifNest[t] - 1 ELSE lifNest[t]
  <2>1. /\ s \in Seq(Frames) /\ Len(s) > 1 /\ s # <<>> /\ Top(t) = s[Len(s)] /\ ~lifThrown
        /\ UNCHANGED <<lifPhase, lifProgram>>
    <3>1. Len(s) > 1 /\ s # <<>> /\ ~lifThrown /\ UNCHANGED <<lifPhase, lifProgram>>
      BY <1>6 DEF Return
    <3> QED
      BY <1>0, <3>1, TopFrame DEF Top
  <2>2. z # <<>> /\ z[1] = s[1]
    <3>1. Len(z) = Len(s) - 1 /\ z[1] = s[1]
      BY <2>1, TopFrame
    <3> QED
      BY <1>0, <2>1, <3>1
  <2>3. Balanced(s, lifFlag[t], lifNest[t]) /\ lifNest[t] \in Int
    BY <1>0, <1>k, <2>1
  <2>4. Balanced(z, flag, nest)
    BY <2>1, <2>3, PopBalanced
  <2>5. /\ lifStack' = [lifStack EXCEPT ![t] = z] /\ lifFlag' = [lifFlag EXCEPT ![t] = flag]
        /\ lifNest' = [lifNest EXCEPT ![t] = nest]
    BY <1>6, <2>1 DEF Return
  <2> HIDE DEF z, flag, nest
  <2>6. Bottom(t)'
    <3>1. lifStack'[t] = z /\ Bottom(t)
      BY <1>k, <2>1, <2>5 DEF LifTyped
    <3> QED
      BY <2>1, <2>2, <3>1 DEF Bottom, NotEntered
  <2>7. \A u \in LifThreads : Bottom(u)' /\ Balanced(lifStack'[u], lifFlag'[u], lifNest'[u])
    BY <1>a, <2>1, <2>4, <2>5, <2>6
  <2> QED
    BY <1>k, <2>1, <2>7
<1>7. ASSUME NEW t \in LifThreads, NEW g \in LifGlobals, WriteGlobal(t, g)
      PROVE  /\ lifPhase' = "out" => ~lifProgram'
             /\ \A u \in LifThreads : Bottom(u)' /\ Balanced(lifStack'[u], lifFlag'[u], lifNest'[u])
  <2>1. /\ lifStack[t] # <<>> /\ lifWrites + 1 \in 0 .. LifWrites /\ ~lifThrown
        /\ UNCHANGED <<lifPhase, lifProgram, lifFlag, lifNest>>
        /\ \/ UNCHANGED lifStack
           \/ lifStack' = [lifStack EXCEPT ![t][Len(lifStack[t])].copy[g] = lifWrites + 1]
    BY <1>7, Constants DEF WriteGlobal, Remembered, NotEntered, LifTyped, Values
  <2>2. CASE UNCHANGED lifStack
    <3>1. \A u \in LifThreads : Bottom(u) /\ Balanced(lifStack[u], lifFlag[u], lifNest[u])
      BY <1>k, <2>1
    <3> QED
      BY <1>k, <2>1, <2>2, <3>1 DEF Bottom, NotEntered
  <2>3. CASE lifStack' = [lifStack EXCEPT ![t][Len(lifStack[t])].copy[g] = lifWrites + 1]
    <3>1. /\ lifStack' \in [LifThreads -> Seq(Frames)] /\ \A u \in LifThreads : Len(lifStack'[u]) = Len(lifStack[u])
          /\ \A u \in LifThreads : \A k \in 1 .. Len(lifStack[u]) :
               /\ lifStack'[u][k].async = lifStack[u][k].async /\ lifStack'[u][k].back = lifStack[u][k].back
               /\ lifStack'[u][k].prev = lifStack[u][k].prev
      <4>1. Wrote(t, g, lifWrites + 1)
        BY <2>1, <2>3, CopyTyped
      <4> QED
        BY <4>1 DEF Wrote
    <3>2. ASSUME NEW u \in LifThreads PROVE Bottom(u)' /\ Balanced(lifStack'[u], lifFlag'[u], lifNest'[u])
      <4>1. lifStack'[u] \in Seq(Frames) /\ Balanced(lifStack[u], lifFlag[u], lifNest[u]) /\ Bottom(u)
        BY <1>k, <2>1, <3>1
      <4>2. Balanced(lifStack'[u], lifFlag[u], lifNest[u])
        BY <1>0, <3>1, <4>1, SameBalanced
      <4>3. Bottom(u)'
        <5>1. lifStack'[u] # <<>> => lifStack[u] # <<>> /\ 1 \in 1 .. Len(lifStack[u])
          BY <1>0, <3>1, <4>1
        <5> QED
          BY <2>1, <3>1, <4>1, <5>1 DEF Bottom, NotEntered
      <4> QED
        BY <2>1, <4>2, <4>3
    <3> QED
      BY <1>k, <2>1, <3>2
  <2> QED
    BY <2>1, <2>2, <2>3
<1>8. ASSUME NEW w \in LifWorkers, WorkerEnter(w)
      PROVE  /\ lifPhase' = "out" => ~lifProgram'
             /\ \A u \in LifThreads : Bottom(u)' /\ Balanced(lifStack'[u], lifFlag'[u], lifNest'[u])
  <2> DEFINE f == CallFrame(w, FALSE, lifGlobals, TRUE)
  <2>0. Push(w, f)
    BY <1>8 DEF WorkerEnter
  <2>1. /\ w \in LifThreads /\ w # "main" /\ lifStack[w] = <<>> /\ ~lifThrown /\ ~NotEntered("main")
        /\ UNCHANGED <<lifPhase, lifProgram, lifFlag, lifNest>>
    BY <1>8, Constants DEF WorkerEnter, NotEntered
  <2>2. f \in Frames /\ ~f.async /\ f.async = FALSE /\ f.back
    BY <1>0, <2>1, FramesTyped DEF LifTyped, Values, CallFrame
  <2> HIDE DEF f
  <2>3. ~lifFlag[w] /\ lifNest[w] = 0
    BY <1>k, <2>1, EmptyBalanced
  <2> DEFINE z == Append(<<>>, f)
  <2>4. z \in Seq(Frames) /\ Len(z) = 1 /\ z[1] = f
    BY <2>2
  <2>5. lifStack' = [lifStack EXCEPT ![w] = z]
    BY <2>0, <2>1 DEF Push
  <2> HIDE DEF z
  <2>6. Balanced(z, lifFlag[w], lifNest[w])
    <3>1. lifFlag[w] = z[1].async
      BY <1>0, <2>1, <2>2, <2>3, <2>4
    <3> QED
      BY <2>2, <2>3, <2>4, <3>1, OneFrame DEF Counted
  <2>7. Bottom(w)'
    BY <2>1, <2>2, <2>4, <2>5 DEF Bottom, LifTyped
  <2>8. lifFlag' = [lifFlag EXCEPT ![w] = lifFlag[w]] /\ lifNest' = [lifNest EXCEPT ![w] = lifNest[w]]
    BY <2>1 DEF LifTyped
  <2>9. \A u \in LifThreads : Bottom(u)' /\ Balanced(lifStack'[u], lifFlag'[u], lifNest'[u])
    BY <1>a, <2>1, <2>5, <2>6, <2>7, <2>8
  <2> QED
    BY <1>k, <2>1, <2>9
<1>9. ASSUME NEW w \in LifWorkers, WorkerReturn(w)
      PROVE  /\ lifPhase' = "out" => ~lifProgram'
             /\ \A u \in LifThreads : Bottom(u)' /\ Balanced(lifStack'[u], lifFlag'[u], lifNest'[u])
  <2> DEFINE s == lifStack[w]
  <2>1. /\ w \in LifThreads /\ w # "main" /\ Len(s) = 1 /\ lifStack' = [lifStack EXCEPT ![w] = <<>>]
        /\ lifProgram' = FALSE /\ ~lifThrown /\ UNCHANGED <<lifPhase, lifFlag, lifNest>>
    BY <1>9, Constants DEF WorkerReturn
  <2>2. s \in Seq(Frames) /\ ~NotEntered(w) /\ Balanced(s, lifFlag[w], lifNest[w]) /\ Bottom(w)
    <3>1. w \in LifThreads /\ Len(s) = 1
      BY <2>1
    <3>2. s \in Seq(Frames)
      BY <1>0, <3>1
    <3>3. s # <<>>
      BY <3>1, OneIsSome
    <3>4. Balanced(s, lifFlag[w], lifNest[w]) /\ Bottom(w)
      BY <1>k, <2>1
    <3> QED
      BY <3>2, <3>3, <3>4 DEF NotEntered
  <2>3. s[1].back /\ ~s[1].async
    BY <2>1, <2>2 DEF Bottom
  <2>4. ~lifFlag[w] /\ lifNest[w] = 0
    BY <2>1, <2>2, <2>3, OneFrame DEF Counted
  <2>5. Balanced(<<>>, lifFlag[w], lifNest[w])
    <3>1. lifFlag[w] = FALSE
      BY <1>0, <2>1, <2>4
    <3> QED
      BY <2>4, <3>1, EmptyBalanced
  <2>6. Bottom(w)'
    BY <2>1 DEF Bottom, NotEntered, LifTyped
  <2>7. lifFlag' = [lifFlag EXCEPT ![w] = lifFlag[w]] /\ lifNest' = [lifNest EXCEPT ![w] = lifNest[w]]
    BY <2>1 DEF LifTyped
  <2>8. \A u \in LifThreads : Bottom(u)' /\ Balanced(lifStack'[u], lifFlag'[u], lifNest'[u])
    BY <1>a, <2>1, <2>5, <2>6, <2>7
  <2> QED
    BY <2>1, <2>8
<1>10. CASE UNCHANGED lifVars
  <2>1. UNCHANGED <<lifPhase, lifStack, lifFlag, lifNest, lifProgram>> /\ ~lifThrown
    BY <1>10 DEF lifVars
  <2> QED
    BY <1>k, <2>1 DEF Bottom, NotEntered
\* A throw ends the account.
<1>11. /\ ~RunThrow /\ \A t \in LifThreads : \A n \in 1 .. LifDepth : ~Throw(t, n)
       /\ \A w \in LifWorkers : ~WorkerThrow(w)
  BY DEF RunThrow, Throw, WorkerThrow
<1> QED
  BY <1>1, <1>2, <1>3, <1>4, <1>5, <1>6, <1>7, <1>8, <1>9, <1>10, <1>11 DEF LifNext

\* Whichever way run() is left, no thread is inside and the index is empty; and
\* unless a throw went through a frame, the program is forgotten and every
\* thread has the flag and the async depth it came with.
THEOREM NothingLeft == LifSpec => []RunLeavesNothing
<1>1. LifInit => Outside /\ Kept
  <2> SUFFICES ASSUME LifInit PROVE Outside /\ Kept
    OBVIOUS
  <2>1. Outside
    BY DEF LifInit, Outside, NotEntered
  <2>2. \A t \in LifThreads : Bottom(t) /\ Balanced(lifStack[t], lifFlag[t], lifNest[t])
    BY EmptyBalanced DEF LifInit, Bottom, NotEntered
  <2> QED
    BY <2>1, <2>2 DEF Kept, LifInit
<1>2. LifTyped /\ Outside /\ Kept => RunLeavesNothing
  <2> SUFFICES ASSUME LifTyped, Outside, Kept, lifPhase = "out"
               PROVE  /\ ~lifIndexed /\ \A t \in LifThreads : NotEntered(t)
                      /\ lifThrown \/ (~lifProgram /\ \A t \in LifThreads : ~lifFlag[t] /\ lifNest[t] = 0)
    BY DEF RunLeavesNothing
  <2>1. ~lifIndexed /\ \A t \in LifThreads : NotEntered(t)
    BY DEF LifTyped, Outside
  <2>2. ASSUME ~lifThrown PROVE ~lifProgram /\ \A t \in LifThreads : ~lifFlag[t] /\ lifNest[t] = 0
    BY <2>1, <2>2, EmptyBalanced DEF Kept, NotEntered
  <2> QED
    BY <2>1, <2>2
<1> QED
  BY <1>1, <1>2, LifAlwaysTyped, NextOutside, NextKept, PTL DEF LifSpec

-----------------------------------------------------------------------------
(***************************************************************************)
(* Globals.  A frame that will put its copies back holds what was last     *)
(* assigned to every global that is not contested, and so does the store.  *)
(***************************************************************************)
Holds(frame, g, v) == frame.back => frame.copy[g] \in {NoCopy, v}

Current ==
  \A g \in LifGlobals \ lifContested :
    /\ lifGlobals[g] = lifLast[g]
    /\ \A t \in LifThreads : \A k \in 1 .. Len(lifStack[t]) : Holds(lifStack[t][k], g, lifLast[g])

\* Steps that assign nothing: a frame that puts copies back was there, or copies now.
LEMMA SameCopies ==
  ASSUME LifTyped, Current, UNCHANGED lifHistory,
         \A g \in LifGlobals \ lifContested : lifGlobals'[g] = lifLast[g],
         \A t \in LifThreads : \A k \in 1 .. Len(lifStack'[t]) :
           \/ k \in 1 .. Len(lifStack[t]) /\ lifStack'[t][k] = lifStack[t][k]
           \/ ~lifStack'[t][k].back
           \/ lifStack'[t][k].copy = lifGlobals
  PROVE  Current'
BY DEF Current, Holds, lifHistory

LEMMA NextCurrent == LifTyped /\ Outside /\ Current /\ [LifNext]_lifVars => Current'
<1> SUFFICES ASSUME LifTyped, Outside, Current, [LifNext]_lifVars PROVE Current'
  OBVIOUS
<1>0. \A t \in LifThreads : lifStack[t] \in Seq(Frames) /\ Len(lifStack[t]) \in Nat
  BY DEF LifTyped
\* A frame on top of the others.
<1>a. ASSUME NEW t \in LifThreads, NEW f \in Frames, Push(t, f), ~f.back \/ f.copy = lifGlobals
      PROVE  \A u \in LifThreads : \A k \in 1 .. Len(lifStack'[u]) :
               \/ k \in 1 .. Len(lifStack[u]) /\ lifStack'[u][k] = lifStack[u][k]
               \/ ~lifStack'[u][k].back
               \/ lifStack'[u][k].copy = lifGlobals
  <2>1. lifStack'[t] = Append(lifStack[t], f) /\ \A u \in LifThreads : u # t => lifStack'[u] = lifStack[u]
    BY <1>a DEF Push, LifTyped
  <2>2. \A k \in 1 .. Len(Append(lifStack[t], f)) :
          \/ k \in 1 .. Len(lifStack[t]) /\ Append(lifStack[t], f)[k] = lifStack[t][k]
          \/ Append(lifStack[t], f)[k] = f
    BY <1>0, Pushed
  <2> QED
    BY <1>a, <2>1, <2>2
\* A stack keeps its first frames.
<1>b. ASSUME NEW t \in LifThreads, NEW s \in Seq(Frames), Len(s) <= Len(lifStack[t]),
             \A k \in 1 .. Len(s) : s[k] = lifStack[t][k],
             lifStack' = [lifStack EXCEPT ![t] = s],
             UNCHANGED lifHistory, \A g \in LifGlobals \ lifContested : lifGlobals'[g] = lifLast[g]
      PROVE  Current'
  <2>1. lifStack'[t] = s /\ \A u \in LifThreads : u # t => lifStack'[u] = lifStack[u]
    BY <1>b DEF LifTyped
  <2>2. \A k \in 1 .. Len(s) : k \in 1 .. Len(lifStack[t])
    BY <1>0, <1>b
  <2> QED
    BY <1>b, <2>1, <2>2, SameCopies
<1>c. \A g \in LifGlobals \ lifContested : lifGlobals[g] = lifLast[g]
  BY DEF Current
\* What a frame puts back is what the store holds.
<1>d. ASSUME NEW t \in LifThreads, lifStack[t] # <<>>
      PROVE  \A g \in LifGlobals \ lifContested : WriteBack(Top(t))[g] = lifLast[g]
  <2>1. Top(t) = lifStack[t][Len(lifStack[t])] /\ Len(lifStack[t]) \in 1 .. Len(lifStack[t])
    <3> DEFINE s == lifStack[t]
    <3>1. s \in Seq(Frames) /\ s # <<>>
      BY <1>0, <1>d
    <3> HIDE DEF s
    <3>2. Len(s) \in Nat \ {0} /\ Last(s) = s[Len(s)]
      BY <3>1, TopFrame
    <3>3. Len(s) \in 1 .. Len(s)
      BY <3>2
    <3> QED
      BY <3>2, <3>3 DEF s, Top
  <2> QED
    BY <1>c, <2>1 DEF WriteBack, Current, Holds
<1>1. ASSUME NEW t \in LifThreads, NEW g \in LifGlobals, WriteGlobal(t, g) PROVE Current'
  <2> DEFINE v == lifWrites + 1  n == Len(lifStack[t])
  <2>1. /\ v \in 0 .. LifWrites /\ lifStack[t] # <<>> /\ n \in 1 .. n
        /\ lifLast' = [lifLast EXCEPT ![g] = v] /\ lifGlobals' = [lifGlobals EXCEPT ![g] = v]
        /\ lifContested' = IF HeldElsewhere(t, g) THEN lifContested \cup {g} ELSE lifContested \ {g}
    <3>1. lifStack[t] # <<>>
      BY <1>1 DEF WriteGlobal, NotEntered
    <3> QED
      BY <1>0, <1>1, <3>1, Constants, TopFrame DEF WriteGlobal, Stored, LifTyped, Values
  <2>2. /\ \A u \in LifThreads : Len(lifStack'[u]) = Len(lifStack[u])
        /\ \A u \in LifThreads : \A k \in 1 .. Len(lifStack[u]) :
              /\ lifStack'[u][k].back = lifStack[u][k].back
              /\ u # t \/ k # n => lifStack'[u][k].copy = lifStack[u][k].copy
              /\ \A h \in LifGlobals : h # g => lifStack'[u][k].copy[h] = lifStack[u][k].copy[h]
        /\ lifStack'[t][n].copy[g] \in {NoCopy, v}
    <3>1. lifStack[t][n] \in Frames /\ Top(t) = lifStack[t][n]
      BY <1>0, <2>1, TopFrame DEF Top
    <3>2. CASE lifStack[t][n].copy[g] = NoCopy
      BY <1>1, <3>1, <3>2 DEF WriteGlobal, Remembered
    <3>3. CASE lifStack[t][n].copy[g] # NoCopy
      <4>1. lifStack' = [lifStack EXCEPT ![t][n].copy[g] = v]
        BY <1>1, <3>1, <3>3 DEF WriteGlobal, Remembered
      <4>2. Wrote(t, g, v)
        BY <2>1, <4>1, CopyTyped
      <4>3. lifStack[t][n].copy \in [LifGlobals -> 0 .. LifWrites + 1]
        BY <3>1 DEF Frames
      <4> QED
        BY <2>1, <4>2, <4>3 DEF Wrote
    <3> QED
      BY <3>2, <3>3
  <2>3. ASSUME NEW h \in LifGlobals, h # g, h \notin lifContested'
        PROVE  /\ lifGlobals'[h] = lifLast'[h]
               /\ \A u \in LifThreads : \A k \in 1 .. Len(lifStack'[u]) : Holds(lifStack'[u][k], h, lifLast'[h])
    <3>1. h \notin lifContested /\ lifGlobals'[h] = lifGlobals[h] /\ lifLast'[h] = lifLast[h]
      BY <2>1, <2>3 DEF LifTyped, Values
    <3> QED
      BY <2>2, <2>3, <3>1 DEF Current, Holds
  <2>4. ASSUME g \notin lifContested'
        PROVE  /\ lifGlobals'[g] = lifLast'[g]
               /\ \A u \in LifThreads : \A k \in 1 .. Len(lifStack'[u]) : Holds(lifStack'[u][k], g, lifLast'[g])
    <3>1. ~HeldElsewhere(t, g)
      BY <2>1, <2>4
    <3>2. ASSUME NEW u \in LifThreads, NEW k \in 1 .. Len(lifStack[u]), u # t \/ k # n
          PROVE  ~lifStack[u][k].back \/ lifStack[u][k].copy[g] = NoCopy
      <4>1. k \in DOMAIN lifStack[u]
        BY <1>0
      <4> QED
        BY <3>1, <3>2, <4>1 DEF HeldElsewhere
    <3>3. lifGlobals'[g] = v /\ lifLast'[g] = v
      BY <2>1 DEF LifTyped, Values
    <3> QED
      BY <2>2, <3>2, <3>3 DEF Holds
  <2> QED
    BY <2>3, <2>4 DEF Current
<1>2. ASSUME NEW t \in LifThreads, NEW async \in BOOLEAN, Call(t, async) PROVE Current'
  <2>1. CallFrame(t, async, NoCopies, FALSE) \in Frames /\ ~CallFrame(t, async, NoCopies, FALSE).back
    <3>1. lifFlag[t] \in BOOLEAN
      BY DEF LifTyped
    <3> QED
      BY <3>1, FramesTyped DEF CallFrame
  <2> QED
    BY <1>2, <1>a, <1>c, <2>1, SameCopies DEF Call
<1>3. ASSUME NEW t \in LifThreads, CallByName(t) \/ (t \in LifWorkers /\ WorkerEnter(t)) PROVE Current'
  <2>1. PICK a \in BOOLEAN : Push(t, CallFrame(t, a, lifGlobals, TRUE)) /\ UNCHANGED <<lifGlobals, lifHistory>>
    BY <1>3 DEF CallByName, WorkerEnter, LifTyped
  <2>2. /\ CallFrame(t, a, lifGlobals, TRUE) \in Frames
        /\ CallFrame(t, a, lifGlobals, TRUE).copy = lifGlobals
    <3>1. lifFlag[t] \in BOOLEAN /\ lifGlobals \in [LifGlobals -> 0 .. LifWrites]
      BY DEF LifTyped, Values
    <3> QED
      BY <3>1, FramesTyped DEF CallFrame
  <2> QED
    BY <1>a, <1>c, <2>1, <2>2, SameCopies
<1>4. ASSUME NEW t \in LifThreads, Return(t) PROVE Current'
  <2>1. lifStack[t] # <<>>
    BY <1>4 DEF Return
  <2>2. /\ Front(lifStack[t]) \in Seq(Frames) /\ Len(Front(lifStack[t])) <= Len(lifStack[t])
        /\ \A k \in 1 .. Len(Front(lifStack[t])) : Front(lifStack[t])[k] = lifStack[t][k]
    BY <1>0, <2>1, TopFrame
  <2>3. /\ lifStack' = [lifStack EXCEPT ![t] = Front(lifStack[t])] /\ lifGlobals' = WriteBack(Top(t))
        /\ UNCHANGED lifHistory
    BY <1>4 DEF Return
  <2> QED
    BY <1>b, <1>d, <2>1, <2>2, <2>3
<1>5. ASSUME NEW t \in LifThreads, NEW n, Throw(t, n) PROVE Current'
  <2>1. n \in Nat /\ n <= Len(lifStack[t])
    BY <1>0, <1>5 DEF Throw
  <2>2. /\ SubSeq(lifStack[t], 1, n) \in Seq(Frames) /\ Len(SubSeq(lifStack[t], 1, n)) = n
        /\ \A k \in 1 .. n : SubSeq(lifStack[t], 1, n)[k] = lifStack[t][k]
    BY <1>0, <2>1, KeptFrames
  <2>3. /\ lifStack' = [lifStack EXCEPT ![t] = SubSeq(lifStack[t], 1, n)]
        /\ UNCHANGED <<lifGlobals, lifHistory>>
    BY <1>5 DEF Throw
  <2> QED
    BY <1>b, <1>c, <2>1, <2>2, <2>3
<1>6. ASSUME NEW t \in LifThreads, lifStack' = [lifStack EXCEPT ![t] = <<>>], UNCHANGED lifHistory,
             \A g \in LifGlobals \ lifContested : lifGlobals'[g] = lifLast[g]
      PROVE  Current'
  <2>1. <<>> \in Seq(Frames) /\ Len(<<>>) = 0 /\ 1 .. 0 = {}
    OBVIOUS
  <2>2. Len(<<>>) <= Len(lifStack[t]) /\ \A k \in 1 .. Len(<<>>) : <<>>[k] = lifStack[t][k]
    BY <1>0, <2>1
  <2> QED
    BY <1>6, <1>b, <2>1, <2>2
<1>7. CASE RunReturn \/ RunThrow
  BY <1>6, <1>7, <1>c, Constants DEF RunReturn, RunThrow, LeaveRun
<1>8. ASSUME NEW w \in LifWorkers, WorkerReturn(w) \/ WorkerThrow(w) PROVE Current'
  <2>1. w \in LifThreads /\ lifStack' = [lifStack EXCEPT ![w] = <<>>] /\ UNCHANGED lifHistory
    BY <1>8, Constants DEF WorkerReturn, WorkerThrow
  <2>2. CASE WorkerReturn(w)
    <3>1. lifStack[w] # <<>> /\ lifGlobals' = WriteBack(Top(w))
      <4>1. Len(lifStack[w]) = 1 /\ lifGlobals' = WriteBack(Top(w))
        BY <2>2 DEF WorkerReturn
      <4>2. Len(<<>>) = 0
        OBVIOUS
      <4> QED
        BY <4>1, <4>2
    <3> QED
      BY <1>6, <1>d, <2>1, <3>1
  <2>3. CASE WorkerThrow(w)
    BY <1>6, <1>c, <2>1, <2>3 DEF WorkerThrow
  <2> QED
    BY <1>8, <2>2, <2>3
<1>9. ASSUME NEW async \in BOOLEAN, RunBody(async) PROVE Current'
  <2> DEFINE s == lifStack["main"]  z == [s EXCEPT ![1].async = async]
  <2>1. s \in Seq(Frames) /\ Len(s) = 1 /\ s[1] \in Frames
    <3>1. s \in Seq(Frames) /\ Len(s) = 1
      BY <1>0, <1>9, Constants DEF RunBody
    <3> QED
      BY <3>1
  <2>2. Len(z) = 1 /\ z[1].back = s[1].back /\ z[1].copy = s[1].copy
    BY <2>1 DEF Frames
  <2>3. lifStack' = [lifStack EXCEPT !["main"] = z] /\ UNCHANGED <<lifGlobals, lifHistory>>
    BY <1>9 DEF RunBody
  <2> HIDE DEF z
  <2>4. lifStack'["main"] = z /\ \A u \in LifThreads : u # "main" => lifStack'[u] = lifStack[u]
    BY <2>3, Constants DEF LifTyped
  <2>5. \A k \in 1 .. Len(z) : z[k].back = s[k].back /\ z[k].copy = s[k].copy
    BY <2>2
  <2>6. ASSUME NEW g \in LifGlobals, g \notin lifContested, NEW u \in LifThreads, NEW k \in 1 .. Len(lifStack'[u])
        PROVE  Holds(lifStack'[u][k], g, lifLast[g])
    <3>1. CASE u = "main"
      <4>1. k \in 1 .. Len(s) /\ Holds(s[k], g, lifLast[g])
        BY <2>1, <2>2, <2>4, <2>6, <3>1, Constants DEF Current
      <4> QED
        BY <2>4, <2>5, <2>6, <3>1, <4>1 DEF Holds
    <3>2. CASE u # "main"
      BY <2>4, <2>6, <3>2 DEF Current
    <3> QED
      BY <3>1, <3>2
  <2> QED
    BY <1>c, <2>3, <2>6 DEF Current, lifHistory
<1>10. CASE RunBegin
  <2> DEFINE f == CallFrame("main", FALSE, Seeded(lifGlobals), FALSE)
  <2>1. /\ lifGlobals' = Seeded(lifGlobals) /\ lifLast' = Seeded(lifLast)
        /\ lifContested' = lifContested \ LifSeeded /\ Push("main", f)
    BY <1>10 DEF RunBegin
  <2>2. f \in Frames /\ ~f.back
    <3>1. Seeded(lifGlobals) \in [LifGlobals -> 0 .. LifWrites]
      BY Constants DEF Seeded, LifTyped, Values
    <3>2. lifFlag["main"] \in BOOLEAN
      BY Constants DEF LifTyped
    <3> QED
      BY <3>1, <3>2, Constants, FramesTyped DEF CallFrame
  <2> HIDE DEF f
  \* Nobody is inside: no frame holds a copy that the initialisers passed by.
  <2>3. \A t \in LifThreads : lifStack[t] = <<>>
    BY <1>10 DEF RunBegin, LifTyped, Outside, NotEntered
  <2>4. lifStack'["main"] = Append(<<>>, f) /\ \A t \in LifThreads : t # "main" => lifStack'[t] = <<>>
    BY <2>1, <2>3, Constants DEF Push, LifTyped
  <2>5. \A t \in LifThreads : \A k \in 1 .. Len(lifStack'[t]) : ~lifStack'[t][k].back
    <3>1. Len(Append(<<>>, f)) = 1 /\ Append(<<>>, f)[1] = f /\ Len(<<>>) = 0
      BY <2>2
    <3> QED
      BY <2>2, <2>4, <3>1
  <2>6. ASSUME NEW g \in LifGlobals \ lifContested' PROVE lifGlobals'[g] = lifLast'[g]
    BY <1>c, <2>1 DEF Seeded
  <2> QED
    BY <2>5, <2>6 DEF Current, Holds
<1>11. CASE UNCHANGED lifVars
  BY <1>11 DEF lifVars, lifHistory, Current, Holds
<1> QED
  BY <1>1, <1>2, <1>3, <1>4, <1>5, <1>7, <1>8, <1>9, <1>10, <1>11, Constants DEF LifNext

\* "Persist mutated globals" (core.cpp:425) for any number of threads, globals,
\* nested calls and runs: copies that are put back undo no assignment but those
\* made while another frame than the assigning one held its copy.
THEOREM AssignmentsStand == LifSpec => []GlobalsStand
<1>1. LifInit => Current
  <2> SUFFICES ASSUME LifInit PROVE Current
    OBVIOUS
  <2>1. \A t \in LifThreads : 1 .. Len(lifStack[t]) = {}
    <3>1. Len(<<>>) = 0 /\ 1 .. 0 = {}
      OBVIOUS
    <3> QED
      BY <3>1 DEF LifInit
  <2> QED
    BY <2>1 DEF LifInit, Current
<1>2. LifInit => Outside
  BY DEF LifInit, Outside, NotEntered
<1>3. Current => GlobalsStand
  BY DEF Current, GlobalsStand
<1> QED
  BY <1>1, <1>2, <1>3, NextOutside, NextCurrent, LifAlwaysTyped, PTL DEF LifSpec

-----------------------------------------------------------------------------
(* WebServer. *)

Places == {"none", "upgraded", "registered", "head", "echo", "cast", "casting", "leave", "gone"}
Conns == [at : Places, open : BOOLEAN, sock : BOOLEAN, listed : BOOLEAN, closing : BOOLEAN,
          inbox : Nat, got : Nat, targets : SUBSET WebConns]
Servers == [running : BOOLEAN, sock : BOOLEAN, listed : BOOLEAN, active : BOOLEAN, threw : BOOLEAN,
            loop : {"idle", "head", "select", "act", "last", "register", "start", "end"},
            stop : {"idle", "stop", "erase"}]
Events == [from : WebConns, n : Nat]

WebTyped ==
  /\ webServer \in Servers
  /\ webConn \in [WebConns -> Conns]
  /\ webEvents \in Seq(Events) /\ webBatch \in Seq(Events)
  /\ webActed \in [WebConns -> Seq(Nat)]
  /\ webSeen \in [WebConns -> [WebConns -> Seq(Nat)]]

\* How one connection changes, for all steps that change one.
Moved(c, r) == r \in Conns /\ webConn' = [webConn EXCEPT ![c] = r]

LEMMA Changes ==
  ASSUME WebTyped, NEW c \in WebConns
  PROVE  /\ \A pc \in Places : ReaderMoves(c, pc) => Moved(c, [webConn[c] EXCEPT !.at = pc])
         /\ Register(c) => Moved(c, [webConn[c] EXCEPT !.at = "registered", !.open = TRUE, !.sock = TRUE, !.listed = TRUE])
         /\ Receive(c) => Moved(c, [webConn[c] EXCEPT !.at = "echo", !.inbox = @ - 1, !.got = @ + 1])
         /\ Snapshot(c) => Moved(c, [webConn[c] EXCEPT !.at = "casting", !.targets = Targets(c)])
         /\ \A d \in WebConns : CastTo(c, d) => Moved(c, [webConn[c] EXCEPT !.targets = @ \ {d}])
         /\ Leave(c) => Moved(c, [webConn[c] EXCEPT !.at = "gone", !.open = FALSE, !.sock = FALSE, !.listed = FALSE])
         /\ ScriptUnlists(c) => Moved(c, [webConn[c] EXCEPT !.listed = FALSE, !.closing = TRUE])
         /\ ScriptCloses(c) => Moved(c, [webConn[c] EXCEPT !.closing = FALSE, !.open = FALSE, !.sock = FALSE])
         /\ ClientSends(c) => Moved(c, [webConn[c] EXCEPT !.inbox = @ + 1])
<1>0. webConn[c] \in Conns /\ c \in DOMAIN webConn
  BY DEF WebTyped
<1>1. ASSUME NEW pc \in Places, ReaderMoves(c, pc) PROVE Moved(c, [webConn[c] EXCEPT !.at = pc])
  BY <1>0, <1>1 DEF ReaderMoves, Moved, Conns
<1>2. Register(c) => Moved(c, [webConn[c] EXCEPT !.at = "registered", !.open = TRUE, !.sock = TRUE, !.listed = TRUE])
  BY <1>0 DEF Register, Moved, Conns, Places
<1>3. Receive(c) => Moved(c, [webConn[c] EXCEPT !.at = "echo", !.inbox = @ - 1, !.got = @ + 1])
  <2> SUFFICES ASSUME Receive(c) PROVE Moved(c, [webConn[c] EXCEPT !.at = "echo", !.inbox = @ - 1, !.got = @ + 1])
    OBVIOUS
  <2>1. webConn[c].inbox - 1 \in Nat /\ webConn[c].got + 1 \in Nat
    BY <1>0 DEF Receive, Conns
  <2> QED
    BY <1>0, <2>1 DEF Receive, Moved, Conns, Places
<1>4. Snapshot(c) => Moved(c, [webConn[c] EXCEPT !.at = "casting", !.targets = Targets(c)])
  BY <1>0 DEF Snapshot, Moved, Conns, Places, Targets
<1>5. ASSUME NEW d \in WebConns PROVE CastTo(c, d) => Moved(c, [webConn[c] EXCEPT !.targets = @ \ {d}])
  BY <1>0 DEF CastTo, Moved, Conns
<1>6. Leave(c) => Moved(c, [webConn[c] EXCEPT !.at = "gone", !.open = FALSE, !.sock = FALSE, !.listed = FALSE])
  BY <1>0 DEF Leave, Moved, Conns, Places
<1>7. ScriptUnlists(c) => Moved(c, [webConn[c] EXCEPT !.listed = FALSE, !.closing = TRUE])
  BY <1>0 DEF ScriptUnlists, Moved, Conns
<1>8. ScriptCloses(c) => Moved(c, [webConn[c] EXCEPT !.closing = FALSE, !.open = FALSE, !.sock = FALSE])
  BY <1>0 DEF ScriptCloses, Moved, Conns
<1>9. ClientSends(c) => Moved(c, [webConn[c] EXCEPT !.inbox = @ + 1])
  BY <1>0 DEF ClientSends, Moved, Conns
<1> QED
  BY <1>1, <1>2, <1>3, <1>4, <1>5, <1>6, <1>7, <1>8, <1>9

LEMMA MovedTyped ==
  ASSUME WebTyped, NEW c \in WebConns, NEW r, Moved(c, r)
  PROVE  webConn' \in [WebConns -> Conns] /\ webConn'[c] = r /\ \A d \in WebConns \ {c} : webConn'[d] = webConn[d]
BY DEF WebTyped, Moved

\* The sequences: one text more for a client, one event more or less.
LEMMA SendTyped ==
  ASSUME WebTyped, NEW d \in WebConns, NEW e \in Events, SendTo(d, e)
  PROVE  webSeen' \in [WebConns -> [WebConns -> Seq(Nat)]]
<1>1. e.from \in WebConns /\ e.n \in Nat
  BY DEF Events
<1>2. webSeen[d] \in [WebConns -> Seq(Nat)] /\ webSeen[d][e.from] \in Seq(Nat)
  BY <1>1 DEF WebTyped
<1>3. Append(webSeen[d][e.from], e.n) \in Seq(Nat)
  BY <1>1, <1>2
<1>4. CASE webSeen' = [webSeen EXCEPT ![d][e.from] = Append(@, e.n)]
  BY <1>1, <1>2, <1>3, <1>4 DEF WebTyped
<1> QED
  BY <1>4 DEF SendTo, WebTyped

LEMMA EventTyped == ASSUME WebTyped, NEW c \in WebConns PROVE WsEvent(c) \in Events /\ WsEvent(c).from = c /\ WsEvent(c).n = webConn[c].got
BY DEF WebTyped, Conns, WsEvent, Events

LEMMA ActedTyped ==
  ASSUME WebTyped, webBatch # <<>>, webActed' = Acted(Head(webBatch))
  PROVE  /\ Head(webBatch) \in Events /\ Tail(webBatch) \in Seq(Events)
         /\ webActed' \in [WebConns -> Seq(Nat)]
<1>1. Head(webBatch) \in Events /\ Tail(webBatch) \in Seq(Events)
  BY HeadTailProperties DEF WebTyped
<1>2. Head(webBatch).from \in WebConns /\ Head(webBatch).n \in Nat
  BY <1>1 DEF Events
<1>3. Append(webActed[Head(webBatch).from], Head(webBatch).n) \in Seq(Nat)
  BY <1>2 DEF WebTyped
<1> QED
  BY <1>1, <1>2, <1>3 DEF Acted, WebTyped

LEMMA WebInitTyped == WebInit => WebTyped
<1> SUFFICES ASSUME WebInit PROVE WebTyped
  OBVIOUS
<1>1. webServer \in Servers
  BY DEF WebInit, Servers
<1>2. webConn \in [WebConns -> Conns]
  BY DEF WebInit, Conns, Places
<1>3. <<>> \in Seq(Nat) /\ <<>> \in Seq(Events)
  OBVIOUS
<1>4. webActed \in [WebConns -> Seq(Nat)] /\ webSeen \in [WebConns -> [WebConns -> Seq(Nat)]]
  BY <1>3 DEF WebInit
<1> QED
  BY <1>1, <1>2, <1>3, <1>4 DEF WebInit, WebTyped

LEMMA WebNextTyped == WebTyped /\ [WebNext]_webVars => WebTyped'
<1> SUFFICES ASSUME WebTyped, [WebNext]_webVars PROVE WebTyped'
  OBVIOUS
\* Steps of the server change its record alone, apart from events.
<1>s. ASSUME webServer' \in Servers, ServerOnly PROVE WebTyped'
  BY <1>s DEF ServerOnly, WebTyped
<1>c. ASSUME NEW c \in WebConns, NEW r, Moved(c, r), webServer' \in Servers,
             webEvents' \in Seq(Events), UNCHANGED <<webBatch, webActed>>,
             webSeen' \in [WebConns -> [WebConns -> Seq(Nat)]]
      PROVE  WebTyped'
  BY <1>c, MovedTyped DEF WebTyped
<1>0. webServer \in Servers /\ webEvents \in Seq(Events) /\ webSeen \in [WebConns -> [WebConns -> Seq(Nat)]]
  BY DEF WebTyped
<1>1. CASE Listen \/ Dispatched \/ LeaveLoop \/ CtrlC
  <2>1. webServer' \in Servers /\ ServerOnly
    BY <1>0, <1>1 DEF Listen, Dispatched, LeaveLoop, CtrlC, Servers
  <2> QED
    BY <1>s, <2>1
<1>2. CASE Shutdown
  <2>1. webServer' \in Servers /\ ServerOnly
    BY <1>0, <1>2 DEF Shutdown, ShutdownStep, Servers
  <2> QED
    BY <1>s, <2>1
<1>3. CASE Turn \/ LastDrain
  <2>1. /\ webServer' \in Servers /\ webBatch' = webEvents /\ webEvents' = <<>>
        /\ UNCHANGED <<webConn, webSeen, webActed>>
    BY <1>0, <1>3 DEF Turn, LastDrain, Drain, AfterSwap, Servers
  <2> QED
    BY <2>1 DEF WebTyped
<1>4. CASE Dispatch \/ ActionThrows
  <2>1. /\ webBatch # <<>> /\ webActed' = Acted(Head(webBatch)) /\ webServer' \in Servers
        /\ webBatch' \in {<<>>, Tail(webBatch)} /\ UNCHANGED <<webConn, webEvents, webSeen>>
    BY <1>0, <1>4 DEF Dispatch, ActionThrows, Servers
  <2>2. Tail(webBatch) \in Seq(Events) /\ webActed' \in [WebConns -> Seq(Nat)] /\ <<>> \in Seq(Events)
    BY <2>1, ActedTyped
  <2> QED
    BY <2>1, <2>2 DEF WebTyped
<1>5. ASSUME NEW c \in WebConns, Upgrade(c) \/ Register(c) \/ StartReader(c) PROVE WebTyped'
  <2>1. webServer' \in Servers /\ UNCHANGED <<webEvents, webBatch, webSeen, webActed>>
    BY <1>0, <1>5 DEF Upgrade, Register, StartReader, Servers
  <2>2. \E r : Moved(c, r)
    BY <1>5, Changes DEF Upgrade, StartReader, Places
  <2> QED
    BY <1>0, <1>c, <2>1, <2>2
<1>6. ASSUME NEW c \in WebConns, Receive(c) \/ ReaderStops(c) \/ Snapshot(c) \/ Leave(c) \/ ScriptUnlists(c) \/ ScriptCloses(c) \/ ClientSends(c)
      PROVE  WebTyped'
  <2>1. UNCHANGED <<webServer, webEvents, webBatch, webSeen, webActed>>
    BY <1>6 DEF Receive, ReaderStops, Snapshot, Leave, ScriptUnlists, ScriptCloses, ClientSends, ReaderOnly
  <2>2. \E r : Moved(c, r)
    BY <1>6, Changes DEF ReaderStops, Places
  <2> QED
    BY <1>0, <1>c, <2>1, <2>2
<1>7. ASSUME NEW c \in WebConns, NEW d \in WebConns, (Echo(c) /\ c = d) \/ CastTo(c, d) PROVE WebTyped'
  <2>1. SendTo(d, WsEvent(c)) /\ UNCHANGED <<webServer, webEvents, webBatch, webActed>>
    BY <1>7 DEF Echo, CastTo, ReaderOnly
  <2>2. \E r : Moved(c, r)
    BY <1>7, Changes DEF Echo, Places
  <2>3. webSeen' \in [WebConns -> [WebConns -> Seq(Nat)]]
    BY <2>1, EventTyped, SendTyped
  <2> QED
    BY <1>0, <1>c, <2>1, <2>2, <2>3
<1>8. ASSUME NEW c \in WebConns, Queue(c) PROVE WebTyped'
  <2>1. webEvents' = Append(webEvents, WsEvent(c)) /\ UNCHANGED <<webServer, webBatch, webActed, webSeen>>
    BY <1>8 DEF Queue, ReaderOnly
  <2>2. webEvents' \in Seq(Events)
    BY <1>0, <2>1, EventTyped
  <2>3. \E r : Moved(c, r)
    BY <1>8, Changes DEF Queue, Places
  <2> QED
    BY <1>0, <1>c, <2>1, <2>2, <2>3
<1>9. CASE UNCHANGED webVars
  BY <1>9 DEF webVars, WebTyped
<1> QED
  BY <1>1, <1>2, <1>3, <1>4, <1>5, <1>6, <1>7, <1>8, <1>9 DEF WebNext, Reader

LEMMA WebAlwaysTyped == WebSpec => []WebTyped
BY WebInitTyped, WebNextTyped, PTL DEF WebSpec
-----------------------------------------------------------------------------
(***************************************************************************)
(* Casts.  A client is a target of a broadcast only after it was           *)
(* registered, and while it may still be sent something the last text it   *)
(* was sent of another is the one that the reader of the other has got, or *)
(* the one before while the reader has still to come to it.                *)
(***************************************************************************)
Joined(d) == ~ReaderAt(d, "none") /\ ~ReaderAt(d, "upgraded")

Reading(c) ==
  /\ webConn[c].targets \subseteq {d \in WebConns \ {c} : Joined(d)}
  /\ webConn[c].targets # {} => ReaderAt(c, "casting")
  /\ webConn[c].listed \/ webConn[c].open \/ webConn[c].sock \/ webConn[c].closing => Joined(c)
  /\ InHand(c) => webConn[c].got > 0
Readings == \A c \in WebConns : Reading(c)

\* The text in hand has still to be sent to d.
Owing(c, d) ==
  IF c = d THEN ReaderAt(c, "echo") ELSE ReaderAt(c, "echo") \/ ReaderAt(c, "cast") \/ d \in webConn[c].targets
Reached(c, d) == Sendable(d) /\ (c = d \/ webConn[d].listed \/ d \in webConn[c].targets)
Told(c, d) ==
  LET seen == webSeen[d][c] IN
  /\ Consecutive(seen)
  /\ seen # <<>> => Joined(d)
  /\ seen # <<>> /\ Reached(c, d) =>
       seen[Len(seen)] = IF Owing(c, d) THEN webConn[c].got - 1 ELSE webConn[c].got
Casts == \A c, d \in WebConns : Told(c, d)

\* What each step does to a connection, field by field.
Same(c) == webConn'[c] = webConn[c]
LEMMA Fields ==
  ASSUME WebTyped, NEW c \in WebConns, NEW r, Moved(c, r)
  PROVE  webConn'[c] = r /\ \A d \in WebConns \ {c} : Same(d)
BY MovedTyped DEF Same

LEMMA NextReadings == WebTyped /\ Readings /\ [WebNext]_webVars => Readings'
<1> SUFFICES ASSUME WebTyped, Readings, [WebNext]_webVars PROVE Readings'
  OBVIOUS
<1>0. \A c \in WebConns : webConn[c] \in Conns
  BY DEF WebTyped
\* The connection c moves, and those that had joined stay joined.
<1>a. ASSUME NEW c \in WebConns, \A d \in WebConns \ {c} : Same(d), Joined(c) => Joined(c)',
             /\ webConn'[c].targets \subseteq {d \in WebConns \ {c} : Joined(d)}
             /\ webConn'[c].targets # {} => webConn'[c].at = "casting"
             /\ webConn'[c].listed \/ webConn'[c].open \/ webConn'[c].sock \/ webConn'[c].closing => Joined(c)'
             /\ InHand(c)' => webConn'[c].got > 0
      PROVE  Readings'
  <2>1. \A d \in WebConns : Joined(d) => Joined(d)'
    BY <1>a DEF Same, Joined, ReaderAt
  <2>2. ASSUME NEW d \in WebConns \ {c} PROVE Reading(d)'
    <3>1. Reading(d) /\ Same(d)
      BY <1>a, <2>2 DEF Readings
    <3> QED
      BY <2>1, <3>1 DEF Reading, Same, InHand, ReaderAt, Joined
  <2>3. Reading(c)'
    BY <1>a, <2>1 DEF Reading, ReaderAt
  <2> QED
    BY <2>2, <2>3 DEF Readings
<1>b. ASSUME UNCHANGED webConn PROVE Readings'
  BY <1>b DEF Readings, Reading, InHand, Joined, ReaderAt
<1>g. ASSUME NEW c \in WebConns, NEW pc \in Places, ReaderMoves(c, pc), webConn[c].targets = {},
             Joined(c) => pc \notin {"none", "upgraded"}, Joined(c) \/ ReaderAt(c, "none"),
             pc \in {"echo", "cast", "casting"} => InHand(c)
      PROVE  Readings'
  <2> DEFINE r == [webConn[c] EXCEPT !.at = pc]
  <2>1. Moved(c, r)
    BY <1>g, Changes
  <2>2. webConn'[c] = r /\ \A d \in WebConns \ {c} : Same(d)
    BY <2>1, Fields
  <2>3. Reading(c)
    BY DEF Readings
  <2> QED
    BY <1>0, <1>a, <1>g, <2>2, <2>3 DEF Conns, Reading, Joined, ReaderAt, InHand
<1>1. CASE Listen \/ Dispatched \/ LeaveLoop \/ CtrlC \/ Shutdown \/ Turn \/ LastDrain \/ Dispatch \/ ActionThrows
  BY <1>1, <1>b DEF Listen, Dispatched, LeaveLoop, CtrlC, Shutdown, ShutdownStep, Turn, LastDrain, Drain, Dispatch,
                    ActionThrows, ServerOnly
<1>2. ASSUME NEW c \in WebConns, Upgrade(c) PROVE Readings'
  <2>1. Reading(c) /\ ReaderAt(c, "none") /\ ReaderMoves(c, "upgraded")
    BY <1>2 DEF Readings, Upgrade
  <2> QED
    BY <1>g, <2>1 DEF Reading, Joined, ReaderAt, Places
<1>3. ASSUME NEW c \in WebConns, Register(c) PROVE Readings'
  <2> DEFINE r == [webConn[c] EXCEPT !.at = "registered", !.open = TRUE, !.sock = TRUE, !.listed = TRUE]
  <2>1. Moved(c, r) /\ Reading(c) /\ ReaderAt(c, "upgraded")
    BY <1>3, Changes DEF Readings, Register
  <2>2. webConn'[c] = r /\ \A d \in WebConns \ {c} : Same(d)
    BY <2>1, Fields
  <2> QED
    BY <1>0, <1>a, <2>1, <2>2 DEF Conns, Reading, Joined, ReaderAt, InHand
<1>4. ASSUME NEW c \in WebConns, StartReader(c) \/ ReaderStops(c) \/ Echo(c) \/ Queue(c) PROVE Readings'
  <2>1. Reading(c)
    BY DEF Readings
  <2>2. CASE StartReader(c)
    BY <1>g, <2>1, <2>2 DEF StartReader, Reading, Joined, ReaderAt, Places
  <2>3. CASE ReaderStops(c)
    BY <1>g, <2>1, <2>3 DEF ReaderStops, Reading, Joined, ReaderAt, Places
  <2>4. CASE Echo(c)
    BY <1>g, <2>1, <2>4 DEF Echo, Reading, Joined, ReaderAt, Places, InHand
  <2>5. CASE Queue(c)
    BY <1>g, <2>1, <2>5 DEF Queue, Reading, Joined, ReaderAt, Places, InHand
  <2> QED
    BY <1>4, <2>2, <2>3, <2>4, <2>5
<1>5. ASSUME NEW c \in WebConns, Receive(c) PROVE Readings'
  <2> DEFINE r == [webConn[c] EXCEPT !.at = "echo", !.inbox = @ - 1, !.got = @ + 1]
  <2>1. Moved(c, r) /\ Reading(c) /\ ReaderAt(c, "head")
    BY <1>5, Changes DEF Readings, Receive
  <2>2. webConn'[c] = r /\ \A d \in WebConns \ {c} : Same(d)
    BY <2>1, Fields
  <2>3. r.at = "echo" /\ r.got = webConn[c].got + 1 /\ r.got > 0 /\ r.targets = webConn[c].targets
    BY <1>0 DEF Conns
  <2> HIDE DEF r
  <2> QED
    BY <1>a, <2>1, <2>2, <2>3 DEF Reading, Joined, ReaderAt
<1>6. ASSUME NEW c \in WebConns, Snapshot(c) PROVE Readings'
  <2> DEFINE r == [webConn[c] EXCEPT !.at = "casting", !.targets = Targets(c)]
  <2>1. Moved(c, r) /\ Reading(c) /\ ReaderAt(c, "cast")
    BY <1>6, Changes DEF Readings, Snapshot
  <2>2. webConn'[c] = r /\ \A d \in WebConns \ {c} : Same(d)
    BY <2>1, Fields
  <2>3. Targets(c) \subseteq {d \in WebConns \ {c} : Joined(d)}
    BY DEF Targets, Readings, Reading
  <2> HIDE DEF Targets
  <2> QED
    BY <1>0, <1>a, <2>1, <2>2, <2>3 DEF Conns, Reading, Joined, ReaderAt, InHand
<1>7. ASSUME NEW c \in WebConns, NEW d \in WebConns, CastTo(c, d) PROVE Readings'
  <2> DEFINE r == [webConn[c] EXCEPT !.targets = @ \ {d}]
  <2>1. Moved(c, r) /\ Reading(c) /\ ReaderAt(c, "casting")
    BY <1>7, Changes DEF Readings, CastTo
  <2>2. webConn'[c] = r /\ \A e \in WebConns \ {c} : Same(e)
    BY <2>1, Fields
  <2>3. r.targets = webConn[c].targets \ {d} /\ r.at = webConn[c].at /\ r.got = webConn[c].got
        /\ r.listed = webConn[c].listed /\ r.open = webConn[c].open /\ r.sock = webConn[c].sock
        /\ r.closing = webConn[c].closing
    BY <1>0 DEF Conns
  <2> HIDE DEF r
  <2> QED
    BY <1>a, <2>1, <2>2, <2>3 DEF Reading, Joined, ReaderAt, InHand
<1>8. ASSUME NEW c \in WebConns, Leave(c) PROVE Readings'
  <2> DEFINE r == [webConn[c] EXCEPT !.at = "gone", !.open = FALSE, !.sock = FALSE, !.listed = FALSE]
  <2>1. Moved(c, r) /\ Reading(c) /\ ReaderAt(c, "leave")
    BY <1>8, Changes DEF Readings, Leave
  <2>2. webConn'[c] = r /\ \A d \in WebConns \ {c} : Same(d)
    BY <2>1, Fields
  <2> QED
    BY <1>0, <1>a, <2>1, <2>2 DEF Conns, Reading, Joined, ReaderAt, InHand
<1>9. ASSUME NEW c \in WebConns, ScriptUnlists(c) \/ ScriptCloses(c) \/ ClientSends(c) PROVE Readings'
  <2>1. PICK r : Moved(c, r) /\ r.at = webConn[c].at /\ r.got = webConn[c].got /\ r.targets = webConn[c].targets
                 /\ (r.listed \/ r.open \/ r.sock \/ r.closing =>
                       webConn[c].listed \/ webConn[c].open \/ webConn[c].sock \/ webConn[c].closing)
    <3>1. CASE ScriptUnlists(c)
      <4> DEFINE r == [webConn[c] EXCEPT !.listed = FALSE, !.closing = TRUE]
      <4>1. Moved(c, r) /\ webConn[c].listed
        BY <3>1, Changes DEF ScriptUnlists
      <4> QED
        BY <1>0, <4>1 DEF Conns
    <3>2. CASE ScriptCloses(c)
      <4> DEFINE r == [webConn[c] EXCEPT !.closing = FALSE, !.open = FALSE, !.sock = FALSE]
      <4>1. Moved(c, r)
        BY <3>2, Changes
      <4> QED
        BY <1>0, <4>1 DEF Conns
    <3>3. CASE ClientSends(c)
      <4> DEFINE r == [webConn[c] EXCEPT !.inbox = @ + 1]
      <4>1. Moved(c, r)
        BY <3>3, Changes
      <4> QED
        BY <1>0, <4>1 DEF Conns
    <3> QED
      BY <1>9, <3>1, <3>2, <3>3
  <2>2. webConn'[c] = r /\ \A d \in WebConns \ {c} : Same(d)
    BY <2>1, Fields
  <2>3. Reading(c)
    BY DEF Readings
  <2> QED
    BY <1>a, <2>1, <2>2, <2>3 DEF Reading, Joined, ReaderAt, InHand
<1>10. CASE UNCHANGED webVars
  BY <1>10, <1>b DEF webVars
<1> QED
  BY <1>1, <1>2, <1>3, <1>4, <1>5, <1>6, <1>7, <1>8, <1>9, <1>10 DEF WebNext, Reader
LEMMA Appended ==
  ASSUME NEW s \in Seq(Nat), NEW n \in Nat, Consecutive(s), s # <<>> => s[Len(s)] = n - 1
  PROVE  /\ Append(s, n) # <<>> /\ Append(s, n)[Len(Append(s, n))] = n /\ Consecutive(Append(s, n))
<1> DEFINE z == Append(s, n)
<1>1. Len(s) \in Nat /\ Len(z) = Len(s) + 1 /\ z[Len(z)] = n /\ \A i \in 1 .. Len(s) : z[i] = s[i]
  OBVIOUS
<1>2. z # <<>>
  OBVIOUS
<1> HIDE DEF z
<1>3. ASSUME NEW i \in 1 .. Len(z) - 1 PROVE z[i + 1] = z[i] + 1
  <2>1. CASE i = Len(s)
    <3>1. s # <<>> /\ z[i] = s[i] /\ z[i + 1] = n /\ s[Len(s)] = n - 1
      BY <1>1, <1>3, <2>1
    <3> QED
      BY <2>1, <3>1
  <2>2. CASE i # Len(s)
    <3>1. i \in 1 .. Len(s) - 1 /\ i \in 1 .. Len(s) /\ i + 1 \in 1 .. Len(s)
      BY <1>1, <1>3, <2>2
    <3>2. z[i] = s[i] /\ z[i + 1] = s[i + 1] /\ s[i + 1] = s[i] + 1
      BY <1>1, <3>1 DEF Consecutive
    <3> QED
      BY <3>2
  <2> QED
    BY <2>1, <2>2
<1>4. Consecutive(z)
  BY <1>3 DEF Consecutive
<1> QED
  BY <1>1, <1>2, <1>4 DEF z

\* A client is sent the text that a reader has in hand.
LEMMA SentOne ==
  ASSUME WebTyped, NEW c \in WebConns, NEW d \in WebConns, SendTo(d, WsEvent(c))
  PROVE  /\ webSeen'[d][c] = IF Sendable(d) THEN Append(webSeen[d][c], webConn[c].got) ELSE webSeen[d][c]
         /\ \A e, x \in WebConns : e # d \/ x # c => webSeen'[e][x] = webSeen[e][x]
<1>1. WsEvent(c).from = c /\ WsEvent(c).n = webConn[c].got
  BY EventTyped
<1>2. webSeen' = IF Sendable(d) THEN [webSeen EXCEPT ![d][c] = Append(webSeen[d][c], webConn[c].got)] ELSE webSeen
  BY <1>1 DEF SendTo
<1> QED
  BY <1>2 DEF WebTyped

LEMMA NextCasts == WebTyped /\ Readings /\ Casts /\ [WebNext]_webVars => Casts'
<1> SUFFICES ASSUME WebTyped, Readings, Casts, [WebNext]_webVars PROVE Casts'
  OBVIOUS
<1>0. \A c \in WebConns : webConn[c] \in Conns /\ webConn[c].got \in Nat
  BY DEF WebTyped, Conns
<1>t. \A c, d \in WebConns : webSeen[d][c] \in Seq(Nat) /\ Told(c, d)
  BY DEF WebTyped, Casts
<1>b. ASSUME UNCHANGED <<webConn, webSeen>> PROVE Casts'
  BY <1>b DEF Casts, Told, Reached, Owing, Joined, Sendable, ReaderAt
\* A connection that moves, and takes nothing and sends nothing.
<1>m. ASSUME NEW c \in WebConns, NEW r, Moved(c, r), UNCHANGED webSeen,
             r.got = webConn[c].got, r.targets = webConn[c].targets,
             r.at = "echo" <=> ReaderAt(c, "echo"), r.at = "cast" <=> ReaderAt(c, "cast"),
             Joined(c) => /\ r.at \notin {"none", "upgraded"}
                          /\ r.listed => webConn[c].listed
                          /\ r.open /\ r.sock => Sendable(c)
      PROVE  Casts'
  <2>1. webConn'[c] = r /\ \A d \in WebConns \ {c} : webConn'[d] = webConn[d]
    BY <1>m, MovedTyped
  <2>2. ASSUME NEW x \in WebConns, NEW d \in WebConns PROVE Told(x, d)'
    <3>1. Told(x, d) /\ (webSeen[d][x] # <<>> => Joined(d))
      BY <1>t DEF Told
    <3>2. Joined(d) => Joined(d)' /\ (Reached(x, d)' => Reached(x, d))
      BY <1>m, <2>1 DEF Joined, Reached, Sendable, ReaderAt
    <3>3. webConn'[x].got = webConn[x].got /\ (Owing(x, d)' <=> Owing(x, d))
      BY <1>m, <2>1 DEF Owing, ReaderAt
    <3> QED
      BY <1>m, <3>1, <3>2, <3>3 DEF Told
  <2> QED
    BY <2>2 DEF Casts
<1>g. ASSUME NEW c \in WebConns, NEW pc \in Places, ReaderMoves(c, pc), UNCHANGED webSeen,
             ~ReaderAt(c, "echo"), ~ReaderAt(c, "cast"), pc \notin {"echo", "cast"},
             Joined(c) => pc \notin {"none", "upgraded"}
      PROVE  Casts'
  <2> DEFINE r == [webConn[c] EXCEPT !.at = pc]
  <2>1. Moved(c, r)
    BY <1>g, Changes
  <2> QED
    BY <1>0, <1>g, <1>m, <2>1 DEF Conns, ReaderAt, Sendable
<1>1. CASE Listen \/ Dispatched \/ LeaveLoop \/ CtrlC \/ Shutdown \/ Turn \/ LastDrain \/ Dispatch \/ ActionThrows
  BY <1>1, <1>b DEF Listen, Dispatched, LeaveLoop, CtrlC, Shutdown, ShutdownStep, Turn, LastDrain, Drain, Dispatch,
                    ActionThrows, ServerOnly
<1>2. ASSUME NEW c \in WebConns, Upgrade(c) \/ StartReader(c) PROVE Casts'
  <2>1. CASE Upgrade(c)
    BY <1>g, <2>1 DEF Upgrade, ReaderAt, Joined, Places
  <2>2. CASE StartReader(c)
    BY <1>g, <2>2 DEF StartReader, ReaderAt, Joined, Places
  <2> QED
    BY <1>2, <2>1, <2>2
<1>3. ASSUME NEW c \in WebConns, Register(c) PROVE Casts'
  <2> DEFINE r == [webConn[c] EXCEPT !.at = "registered", !.open = TRUE, !.sock = TRUE, !.listed = TRUE]
  <2>1. Moved(c, r) /\ ReaderAt(c, "upgraded") /\ UNCHANGED webSeen
    BY <1>3, Changes DEF Register
  <2>2. r.at = "registered" /\ r.got = webConn[c].got /\ r.targets = webConn[c].targets
    BY <1>0 DEF Conns
  <2> HIDE DEF r
  <2> QED
    BY <1>m, <2>1, <2>2 DEF Joined, ReaderAt
<1>4. ASSUME NEW c \in WebConns, ReaderStops(c) \/ Queue(c) PROVE Casts'
  <2>1. CASE ReaderStops(c)
    BY <1>g, <2>1 DEF ReaderStops, ReaderAt, Joined, Places
  <2>2. CASE Queue(c)
    BY <1>g, <2>2 DEF Queue, ReaderAt, Joined, Places
  <2> QED
    BY <1>4, <2>1, <2>2
<1>5. ASSUME NEW c \in WebConns, Receive(c) PROVE Casts'
  <2> DEFINE r == [webConn[c] EXCEPT !.at = "echo", !.inbox = @ - 1, !.got = @ + 1]
  <2>1. Moved(c, r) /\ ReaderAt(c, "head") /\ UNCHANGED webSeen
    BY <1>5, Changes DEF Receive
  <2>2. /\ r.at = "echo" /\ r.got = webConn[c].got + 1 /\ r.targets = webConn[c].targets
        /\ r.listed = webConn[c].listed /\ r.open = webConn[c].open /\ r.sock = webConn[c].sock
    BY <1>0 DEF Conns
  <2> HIDE DEF r
  <2>3. webConn'[c] = r /\ \A d \in WebConns \ {c} : webConn'[d] = webConn[d]
    BY <2>1, MovedTyped
  <2>4. webConn[c].targets = {}
    BY <2>1 DEF Readings, Reading, ReaderAt
  <2>5. \A x, d \in WebConns : (Joined(d) => Joined(d)') /\ (Reached(x, d)' <=> Reached(x, d))
    BY <2>1, <2>2, <2>3 DEF Joined, Reached, Sendable, ReaderAt
  <2>6. ASSUME NEW d \in WebConns PROVE Told(c, d)'
    <3>1. ~Owing(c, d) /\ Owing(c, d)' /\ webConn'[c].got - 1 = webConn[c].got
      BY <1>0, <2>1, <2>2, <2>3, <2>4 DEF Owing, ReaderAt
    <3> QED
      BY <1>t, <2>1, <2>5, <3>1 DEF Told
  <2>7. ASSUME NEW x \in WebConns \ {c}, NEW d \in WebConns PROVE Told(x, d)'
    <3>1. webConn'[x].got = webConn[x].got /\ (Owing(x, d)' <=> Owing(x, d))
      BY <2>3 DEF Owing, ReaderAt
    <3> QED
      BY <1>t, <2>1, <2>5, <3>1 DEF Told
  <2> QED
    BY <2>6, <2>7 DEF Casts
<1>6. ASSUME NEW c \in WebConns, Snapshot(c) PROVE Casts'
  <2> DEFINE r == [webConn[c] EXCEPT !.at = "casting", !.targets = Targets(c)]
  <2>1. Moved(c, r) /\ ReaderAt(c, "cast") /\ UNCHANGED webSeen
    BY <1>6, Changes DEF Snapshot
  <2>2. /\ r.at = "casting" /\ r.got = webConn[c].got /\ r.targets = Targets(c)
        /\ r.listed = webConn[c].listed /\ r.open = webConn[c].open /\ r.sock = webConn[c].sock
    BY <1>0 DEF Conns
  <2> HIDE DEF r
  <2>3. webConn'[c] = r /\ \A d \in WebConns \ {c} : webConn'[d] = webConn[d]
    BY <2>1, MovedTyped
  <2>4. webConn[c].targets = {}
    BY <2>1 DEF Readings, Reading, ReaderAt
  <2>5. \A d \in WebConns : (Joined(d) => Joined(d)') /\ (Sendable(d)' <=> Sendable(d))
                            /\ webConn'[d].listed = webConn[d].listed
    BY <2>1, <2>2, <2>3 DEF Joined, Sendable, ReaderAt
  <2>6. ASSUME NEW d \in WebConns PROVE Told(c, d)'
    <3>1. CASE d = c
      <4>1. Owing(c, d)' <=> Owing(c, d)
        BY <2>1, <2>2, <2>3, <3>1 DEF Owing, ReaderAt
      <4>2. Reached(c, d)' <=> Reached(c, d)
        BY <2>5, <3>1 DEF Reached
      <4> QED
        BY <1>t, <2>1, <2>2, <2>3, <2>5, <4>1, <4>2 DEF Told
    <3>2. CASE d # c
      <4>1. Reached(c, d)' => d \in Targets(c) /\ Reached(c, d)
        BY <2>2, <2>3, <2>5, <3>2 DEF Reached, Targets, Sendable
      <4>2. Owing(c, d) /\ (d \in Targets(c) => Owing(c, d)')
        BY <2>1, <2>2, <2>3, <3>2 DEF Owing, ReaderAt
      <4> QED
        BY <1>t, <2>1, <2>2, <2>3, <2>5, <4>1, <4>2 DEF Told
    <3> QED
      BY <3>1, <3>2
  <2>7. ASSUME NEW x \in WebConns \ {c}, NEW d \in WebConns PROVE Told(x, d)'
    <3>1. webConn'[x].got = webConn[x].got /\ (Owing(x, d)' <=> Owing(x, d))
      BY <2>3 DEF Owing, ReaderAt
    <3>2. Reached(x, d)' <=> Reached(x, d)
      BY <2>3, <2>5 DEF Reached
    <3> QED
      BY <1>t, <2>1, <2>5, <3>1, <3>2 DEF Told
  <2> QED
    BY <2>6, <2>7 DEF Casts
\* A text goes out to d.
<1>7. ASSUME NEW c \in WebConns, NEW d \in WebConns, NEW r, Moved(c, r), SendTo(d, WsEvent(c)),
             r.got = webConn[c].got, r.listed = webConn[c].listed, r.open = webConn[c].open, r.sock = webConn[c].sock,
             r.at \notin {"none", "upgraded"}, Joined(c), Joined(d),
             Sendable(d) => Reached(c, d), Owing(c, d), ~Owing(c, d)',
             \A x, e \in WebConns : x # c \/ e # d => (Owing(x, e)' <=> Owing(x, e)) /\ (Reached(x, e)' => Reached(x, e))
      PROVE  Casts'
  <2>1. webConn'[c] = r /\ \A e \in WebConns \ {c} : webConn'[e] = webConn[e]
    BY <1>7, MovedTyped
  <2>2. \A x, e \in WebConns : /\ webConn'[x].got = webConn[x].got /\ (Joined(e) => Joined(e)')
                               /\ (Sendable(e)' <=> Sendable(e))
    BY <1>7, <2>1 DEF Joined, ReaderAt, Sendable
  <2>3. ASSUME NEW x \in WebConns, NEW e \in WebConns, x # c \/ e # d PROVE Told(x, e)'
    <3>1. webSeen'[e][x] = webSeen[e][x]
      BY <1>7, <2>3, SentOne
    <3> QED
      BY <1>7, <1>t, <2>2, <2>3, <3>1 DEF Told
  <2>4. Told(c, d)'
    <3>1. CASE Sendable(d)
      <4>1. webSeen'[d][c] = Append(webSeen[d][c], webConn[c].got)
        BY <1>7, <3>1, SentOne
      <4>2. webSeen[d][c] # <<>> => webSeen[d][c][Len(webSeen[d][c])] = webConn[c].got - 1
        BY <1>7, <1>t, <3>1 DEF Told
      <4>3. Consecutive(webSeen[d][c])
        BY <1>t DEF Told
      <4>4. Consecutive(webSeen'[d][c]) /\ webSeen'[d][c][Len(webSeen'[d][c])] = webConn[c].got
        BY <1>0, <1>t, <4>1, <4>2, <4>3, Appended
      <4> QED
        BY <1>7, <2>2, <4>4 DEF Told
    <3>2. CASE ~Sendable(d)
      <4>1. webSeen'[d][c] = webSeen[d][c] /\ ~Reached(c, d)'
        BY <1>7, <2>2, <3>2, SentOne DEF Reached
      <4> QED
        BY <1>t, <2>2, <4>1 DEF Told
    <3> QED
      BY <3>1, <3>2
  <2> QED
    BY <2>3, <2>4 DEF Casts
<1>8. ASSUME NEW c \in WebConns, Echo(c) PROVE Casts'
  <2> DEFINE r == [webConn[c] EXCEPT !.at = "cast"]
  <2>1. Moved(c, r) /\ ReaderAt(c, "echo") /\ SendTo(c, WsEvent(c))
    BY <1>8, Changes DEF Echo, Places
  <2>2. /\ r.at = "cast" /\ r.got = webConn[c].got /\ r.targets = webConn[c].targets
        /\ r.listed = webConn[c].listed /\ r.open = webConn[c].open /\ r.sock = webConn[c].sock
    BY <1>0 DEF Conns
  <2> HIDE DEF r
  <2>3. webConn'[c] = r /\ \A d \in WebConns \ {c} : webConn'[d] = webConn[d]
    BY <2>1, MovedTyped
  <2>4. Joined(c) /\ Owing(c, c) /\ ~Owing(c, c)' /\ (Sendable(c) => Reached(c, c))
    BY <2>1, <2>2, <2>3 DEF Joined, Owing, ReaderAt, Reached
  <2>5. \A x, e \in WebConns : x # c \/ e # c => (Owing(x, e)' <=> Owing(x, e)) /\ (Reached(x, e)' => Reached(x, e))
    BY <2>1, <2>2, <2>3 DEF Owing, ReaderAt, Reached, Sendable
  <2> QED
    BY <1>7, <2>1, <2>2, <2>4, <2>5
<1>9. ASSUME NEW c \in WebConns, NEW d \in WebConns, CastTo(c, d) PROVE Casts'
  <2> DEFINE r == [webConn[c] EXCEPT !.targets = @ \ {d}]
  <2>1. Moved(c, r) /\ ReaderAt(c, "casting") /\ d \in webConn[c].targets /\ SendTo(d, WsEvent(c))
    BY <1>9, Changes DEF CastTo
  <2>2. /\ r.at = webConn[c].at /\ r.got = webConn[c].got /\ r.targets = webConn[c].targets \ {d}
        /\ r.listed = webConn[c].listed /\ r.open = webConn[c].open /\ r.sock = webConn[c].sock
    BY <1>0 DEF Conns
  <2> HIDE DEF r
  <2>3. webConn'[c] = r /\ \A e \in WebConns \ {c} : webConn'[e] = webConn[e]
    BY <2>1, MovedTyped
  <2>4. d # c /\ Joined(d)
    BY <2>1 DEF Readings, Reading
  <2>5. Joined(c) /\ Owing(c, d) /\ ~Owing(c, d)' /\ (Sendable(d) => Reached(c, d))
    BY <2>1, <2>2, <2>3, <2>4 DEF Joined, Owing, ReaderAt, Reached
  <2>6. \A x, e \in WebConns : x # c \/ e # d => (Owing(x, e)' <=> Owing(x, e)) /\ (Reached(x, e)' => Reached(x, e))
    BY <2>1, <2>2, <2>3 DEF Owing, ReaderAt, Reached, Sendable
  <2>7. r.at \notin {"none", "upgraded"}
    BY <2>1, <2>2 DEF ReaderAt
  <2> QED
    BY <1>7, <2>1, <2>2, <2>4, <2>5, <2>6, <2>7
<1>10. ASSUME NEW c \in WebConns, Leave(c) PROVE Casts'
  <2> DEFINE r == [webConn[c] EXCEPT !.at = "gone", !.open = FALSE, !.sock = FALSE, !.listed = FALSE]
  <2>1. Moved(c, r) /\ ReaderAt(c, "leave") /\ UNCHANGED webSeen
    BY <1>10, Changes DEF Leave
  <2>2. /\ r.at = "gone" /\ r.got = webConn[c].got /\ r.targets = webConn[c].targets
        /\ r.listed = FALSE /\ r.open = FALSE
    BY <1>0 DEF Conns
  <2> HIDE DEF r
  <2> QED
    BY <1>m, <2>1, <2>2 DEF ReaderAt
<1>11. ASSUME NEW c \in WebConns, ScriptUnlists(c) \/ ScriptCloses(c) \/ ClientSends(c) PROVE Casts'
  <2>1. CASE ScriptUnlists(c)
    <3> DEFINE r == [webConn[c] EXCEPT !.listed = FALSE, !.closing = TRUE]
    <3>1. Moved(c, r) /\ UNCHANGED webSeen
      BY <2>1, Changes DEF ScriptUnlists
    <3>2. /\ r.at = webConn[c].at /\ r.got = webConn[c].got /\ r.targets = webConn[c].targets
          /\ r.listed = FALSE /\ r.open = webConn[c].open /\ r.sock = webConn[c].sock
      BY <1>0 DEF Conns
    <3> HIDE DEF r
    <3> QED
      BY <1>m, <3>1, <3>2 DEF Joined, ReaderAt, Sendable
  <2>2. CASE ScriptCloses(c)
    <3> DEFINE r == [webConn[c] EXCEPT !.closing = FALSE, !.open = FALSE, !.sock = FALSE]
    <3>1. Moved(c, r) /\ UNCHANGED webSeen
      BY <2>2, Changes DEF ScriptCloses
    <3>2. /\ r.at = webConn[c].at /\ r.got = webConn[c].got /\ r.targets = webConn[c].targets
          /\ r.listed = webConn[c].listed /\ r.open = FALSE
      BY <1>0 DEF Conns
    <3> HIDE DEF r
    <3> QED
      BY <1>m, <3>1, <3>2 DEF Joined, ReaderAt, Sendable
  <2>3. CASE ClientSends(c)
    <3> DEFINE r == [webConn[c] EXCEPT !.inbox = @ + 1]
    <3>1. Moved(c, r) /\ UNCHANGED webSeen
      BY <2>3, Changes DEF ClientSends
    <3> QED
      BY <1>0, <1>m, <3>1 DEF Conns, Joined, ReaderAt, Sendable
  <2> QED
    BY <1>11, <2>1, <2>2, <2>3
<1>12. CASE UNCHANGED webVars
  BY <1>12, <1>b DEF webVars
<1> QED
  BY <1>1, <1>2, <1>3, <1>4, <1>5, <1>6, <1>8, <1>9, <1>10, <1>11, <1>12 DEF WebNext, Reader

\* For any number of clients and texts: a client that joined is sent every later
\* text of each of them once and in order while its connection is open, however
\* readers, joins and closes interleave.
THEOREM NoCastMissed == WebSpec => []CastsComplete
<1>1. WebInit => Readings /\ Casts
  <2> SUFFICES ASSUME WebInit PROVE Readings /\ Casts
    OBVIOUS
  <2>1. Readings
    BY DEF WebInit, Readings, Reading, InHand
  <2>2. ASSUME NEW c \in WebConns, NEW d \in WebConns PROVE Told(c, d)
    <3>1. webSeen[d][c] = <<>>
      BY DEF WebInit
    <3>2. Len(<<>>) = 0
      OBVIOUS
    <3>3. Consecutive(<<>>)
      BY <3>2 DEF Consecutive
    <3> QED
      BY <3>1, <3>3 DEF Told
  <2> QED
    BY <2>1, <2>2 DEF Casts
<1>2. WebTyped /\ Readings /\ Casts => CastsComplete
  <2> SUFFICES ASSUME WebTyped, Readings, Casts, NEW c \in WebConns, NEW d \in WebConns
               PROVE  /\ Consecutive(webSeen[d][c])
                      /\ webSeen[d][c] # <<>> /\ webConn[d].listed /\ Sendable(d) /\ ~InHand(c) =>
                           Last(webSeen[d][c]) = webConn[c].got
    BY DEF CastsComplete
  <2>1. Told(c, d) /\ Reading(c)
    BY DEF Casts, Readings
  <2>2. ~InHand(c) => ~Owing(c, d)
    BY <2>1 DEF InHand, Owing, ReaderAt, Reading
  <2> QED
    BY <2>1, <2>2 DEF Told, Reached, Last
<1> QED
  BY <1>1, <1>2, WebAlwaysTyped, NextReadings, NextCasts, PTL DEF WebSpec
-----------------------------------------------------------------------------
(***************************************************************************)
(* Events.  The loop takes a new batch only when it is through with the    *)
(* last, so that the batch and the queue together are one queue: readers   *)
(* append to it, the actions of the script take its head.                  *)
(***************************************************************************)
Emptied == webServer.loop \notin {"act", "last"} => webBatch = <<>>
Ordered ==
  /\ \A i, j \in 1 .. Len(Queued) : i < j /\ Queued[i].from = Queued[j].from => Queued[i].n < Queued[j].n
  /\ \A c \in WebConns : Increasing(webActed[c])
  /\ \A i \in 1 .. Len(Queued) : \A k \in 1 .. Len(webActed[Queued[i].from]) :
       webActed[Queued[i].from][k] < Queued[i].n
  /\ \A i \in 1 .. Len(Queued) : Queued[i].n \in Handed(Queued[i].from)
  /\ \A c \in WebConns : \A k \in 1 .. Len(webActed[c]) : webActed[c][k] \in Handed(c)
Complete ==
  ~webServer.threw =>
    \A c \in WebConns : \A n \in Handed(c) :
      \/ \E k \in 1 .. Len(webActed[c]) : webActed[c][k] = n
      \/ \E i \in 1 .. Len(Queued) : Queued[i].from = c /\ Queued[i].n = n

LEMMA QueuedTyped ==
  ASSUME WebTyped
  PROVE  /\ Queued \in Seq(Events) /\ Len(Queued) = Len(webBatch) + Len(webEvents) /\ Len(Queued) \in Nat
         /\ \A i \in 1 .. Len(Queued) : Queued[i] \in Events /\ Queued[i].from \in WebConns /\ Queued[i].n \in Nat
<1>1. /\ Queued \in Seq(Events) /\ Len(Queued) = Len(webBatch) + Len(webEvents) /\ Len(Queued) \in Nat
  BY ConcatProperties DEF WebTyped, Queued
<1>2. \A i \in 1 .. Len(Queued) : Queued[i] \in Events
  BY <1>1
<1> QED
  BY <1>1, <1>2 DEF Events

LEMMA AppendNth ==
  ASSUME NEW s \in Seq(Nat), NEW n \in Nat
  PROVE  /\ Len(Append(s, n)) = Len(s) + 1 /\ Append(s, n)[Len(s) + 1] = n
         /\ \A m \in 1 .. Len(s) : m \in 1 .. Len(Append(s, n)) /\ Append(s, n)[m] = s[m]
         /\ \A m \in 1 .. Len(Append(s, n)) : m \in 1 .. Len(s) \/ m = Len(s) + 1
OBVIOUS

LEMMA IncreasingOn ==
  ASSUME NEW s \in Seq(Nat), NEW n \in Nat, Increasing(s), \A k \in 1 .. Len(s) : s[k] < n
  PROVE  Increasing(Append(s, n))
<1> DEFINE z == Append(s, n)
<1>1. Len(s) \in Nat /\ Len(z) = Len(s) + 1 /\ z[Len(s) + 1] = n /\ \A i \in 1 .. Len(s) : z[i] = s[i]
  OBVIOUS
<1> HIDE DEF z
<1>2. ASSUME NEW i \in 1 .. Len(z) - 1 PROVE z[i] < z[i + 1]
  <2>1. CASE i = Len(s)
    <3>1. i \in 1 .. Len(s) /\ z[i] = s[i] /\ z[i + 1] = n
      BY <1>1, <1>2, <2>1
    <3> QED
      BY <3>1
  <2>2. CASE i # Len(s)
    <3>1. i \in 1 .. Len(s) - 1 /\ i \in 1 .. Len(s) /\ i + 1 \in 1 .. Len(s)
      BY <1>1, <1>2, <2>2
    <3>2. z[i] = s[i] /\ z[i + 1] = s[i + 1] /\ s[i] < s[i + 1]
      BY <1>1, <3>1 DEF Increasing
    <3> QED
      BY <3>2
  <2> QED
    BY <2>1, <2>2
<1> QED
  BY <1>2 DEF Increasing, z

\* Without its first element, a concatenation goes on from the second.
LEMMA TailOfBoth ==
  ASSUME NEW S, NEW s \in Seq(S), NEW t \in Seq(S), s # <<>>
  PROVE  /\ Len(Tail(s) \o t) = Len(s \o t) - 1 /\ Len(s \o t) \in Nat /\ Len(s \o t) >= 1
         /\ Head(s) = (s \o t)[1] /\ \A i \in 1 .. Len(s \o t) - 1 : (Tail(s) \o t)[i] = (s \o t)[i + 1]
<1>1. /\ Len(s) \in Nat /\ Len(s) >= 1 /\ Len(t) \in Nat /\ Tail(s) \in Seq(S) /\ Len(Tail(s)) = Len(s) - 1
      /\ \A i \in 1 .. Len(s) - 1 : Tail(s)[i] = s[i + 1]
      /\ Head(s) = s[1]
  <2>1. Len(s) \in Nat /\ Len(s) >= 1 /\ Len(t) \in Nat
    BY EmptySeq
  <2>2. Head(s) = s[1]
    BY <2>1
  <2> QED
    BY <2>1, <2>2, HeadTailProperties
<1>2. /\ Len(s \o t) = Len(s) + Len(t)
      /\ \A i \in 1 .. Len(s) + Len(t) : (s \o t)[i] = IF i <= Len(s) THEN s[i] ELSE t[i - Len(s)]
  BY ConcatProperties
<1>3. /\ Len(Tail(s) \o t) = Len(s) - 1 + Len(t)
      /\ \A i \in 1 .. Len(s) - 1 + Len(t) :
           (Tail(s) \o t)[i] = IF i <= Len(s) - 1 THEN Tail(s)[i] ELSE t[i - (Len(s) - 1)]
  BY <1>1, ConcatProperties
<1> DEFINE z == Tail(s) \o t  q == s \o t
<1> HIDE DEF z, q
<1>4. ASSUME NEW i \in 1 .. Len(s) + Len(t) - 1 PROVE z[i] = q[i + 1]
  <2>1. q[i + 1] = IF i + 1 <= Len(s) THEN s[i + 1] ELSE t[i + 1 - Len(s)]
    BY <1>1, <1>2, <1>4 DEF q
  <2>2. z[i] = IF i <= Len(s) - 1 THEN Tail(s)[i] ELSE t[i - (Len(s) - 1)]
    BY <1>1, <1>3, <1>4 DEF z
  <2>3. i - (Len(s) - 1) = i + 1 - Len(s)
    BY <1>1, <1>4
  <2> QED
    BY <1>1, <1>4, <2>1, <2>2, <2>3
<1>5. q[1] = s[1]
  BY <1>1, <1>2 DEF q
<1> QED
  BY <1>1, <1>2, <1>3, <1>4, <1>5 DEF z, q

LEMMA NextEmptied == WebTyped /\ Emptied /\ [WebNext]_webVars => Emptied'
<1> SUFFICES ASSUME WebTyped, Emptied, [WebNext]_webVars PROVE Emptied'
  OBVIOUS
<1>0. webServer \in Servers
  BY DEF WebTyped
<1>1. CASE Listen \/ Dispatched \/ LeaveLoop
  BY <1>0, <1>1 DEF Listen, Dispatched, LeaveLoop, Looking, ServerOnly, Emptied, Servers
<1>2. CASE CtrlC \/ Shutdown
  BY <1>0, <1>2 DEF CtrlC, Shutdown, ShutdownStep, ServerOnly, Emptied, Servers
<1>3. CASE Turn \/ LastDrain
  BY <1>0, <1>3 DEF Turn, LastDrain, Drain, Emptied, Servers
<1>4. CASE Dispatch \/ ActionThrows
  BY <1>0, <1>4 DEF Dispatch, ActionThrows, Emptied, Servers
<1>5. ASSUME NEW c \in WebConns, Upgrade(c) \/ Register(c) \/ StartReader(c) PROVE Emptied'
  BY <1>0, <1>5 DEF Upgrade, Register, StartReader, Emptied, Servers
<1>6. ASSUME UNCHANGED <<webServer, webBatch>> PROVE Emptied'
  BY <1>6 DEF Emptied
<1>7. ASSUME NEW c \in WebConns, Reader(c) \/ ScriptUnlists(c) \/ ScriptCloses(c) \/ ClientSends(c)
      PROVE  UNCHANGED <<webServer, webBatch>>
  BY <1>7 DEF Reader, Receive, ReaderStops, Echo, Snapshot, Queue, Leave, ScriptUnlists, ScriptCloses, ClientSends, ReaderOnly
<1>8. ASSUME NEW c \in WebConns, NEW d \in WebConns, CastTo(c, d) PROVE UNCHANGED <<webServer, webBatch>>
  BY <1>8 DEF CastTo, ReaderOnly
<1>9. CASE UNCHANGED webVars
  BY <1>6, <1>9 DEF webVars
<1> QED
  BY <1>1, <1>2, <1>3, <1>4, <1>5, <1>6, <1>7, <1>8, <1>9 DEF WebNext

\* What readers and the server do between events leaves the numbers alone.
LEMMA HandedKept ==
  ASSUME WebTyped, NEW c \in WebConns, NEW r, Moved(c, r),
         \/ r.got = webConn[c].got /\ (r.at \in {"echo", "cast", "casting"} <=> InHand(c))
         \/ r.got = webConn[c].got + 1 /\ r.at \in {"echo", "cast", "casting"} /\ ~InHand(c)
  PROVE  \A d \in WebConns : Handed(d)' = Handed(d)
<1>1. webConn'[c] = r /\ \A d \in WebConns \ {c} : webConn'[d] = webConn[d]
  BY MovedTyped
<1>2. webConn[c].got \in Nat
  BY DEF WebTyped, Conns
<1>3. Handed(c)' = Handed(c)
  BY <1>1, <1>2 DEF Handed, InHand
<1>4. \A d \in WebConns \ {c} : Handed(d)' = Handed(d)
  BY <1>1 DEF Handed, InHand
<1> QED
  BY <1>3, <1>4

LEMMA KeptOrdered ==
  ASSUME WebTyped, Ordered /\ Complete, Queued' = Queued, UNCHANGED webActed,
         \A c \in WebConns : Handed(c)' = Handed(c), webServer'.threw = webServer.threw
  PROVE  Ordered' /\ Complete'
<1>1. \A i \in 1 .. Len(Queued) : Queued[i].from \in WebConns
  BY QueuedTyped
<1>2. Ordered'
  BY <1>1 DEF Ordered
<1>3. Complete'
  BY DEF Complete
<1> QED
  BY <1>2, <1>3

\* The script acts on the head; k - 1 more events are dropped.
LEMMA TakenOrdered ==
  ASSUME WebTyped, Ordered, NEW k \in Nat, 1 <= k, k <= Len(Queued),
         Len(Queued') = Len(Queued) - k, \A i \in 1 .. Len(Queued) - k : Queued'[i] = Queued[i + k],
         webActed' = Acted(Queued[1]), UNCHANGED webConn
  PROVE  Ordered' /\ (k = 1 /\ Complete /\ webServer'.threw = webServer.threw => Complete')
<1> DEFINE q == Queued  e == q[1]  z == Queued'
<1>1. /\ Len(q) \in Nat /\ \A i \in 1 .. Len(q) : q[i].from \in WebConns /\ q[i].n \in Nat
      /\ 1 \in 1 .. Len(q) /\ e.from \in WebConns /\ e.n \in Nat
  BY QueuedTyped
<1>2. /\ \A c \in WebConns : webActed[c] \in Seq(Nat) /\ Len(webActed[c]) \in Nat
      /\ \A c \in WebConns : webActed'[c] = IF c = e.from THEN Append(webActed[c], e.n) ELSE webActed[c]
  BY <1>1 DEF Acted, WebTyped
<1>3. \A c \in WebConns : Handed(c)' = Handed(c)
  BY DEF Handed, InHand
<1>4. \A i \in 1 .. Len(z) : i + k \in 1 .. Len(q) /\ i + k > 1 /\ z[i] = q[i + k]
  BY <1>1
<1> HIDE DEF q, z
<1>5. ASSUME NEW c \in WebConns, NEW m \in 1 .. Len(webActed'[c])
      PROVE  \/ m \in 1 .. Len(webActed[c]) /\ webActed'[c][m] = webActed[c][m]
             \/ c = e.from /\ webActed'[c][m] = e.n
  <2>1. CASE c = e.from
    <3>1. webActed'[c] = Append(webActed[c], e.n)
      BY <1>2, <2>1
    <3> QED
      BY <1>1, <1>2, <1>5, <2>1, <3>1, AppendNth
  <2>2. CASE c # e.from
    BY <1>2, <1>5, <2>2
  <2> QED
    BY <2>1, <2>2
<1>6. \A c \in WebConns : Increasing(webActed'[c])
  <2>1. \A m \in 1 .. Len(webActed[e.from]) : webActed[e.from][m] < e.n
    BY <1>1 DEF Ordered, q
  <2> QED
    BY <1>1, <1>2, <2>1, IncreasingOn DEF Ordered
<1>7. \A i, j \in 1 .. Len(z) : i < j /\ z[i].from = z[j].from => z[i].n < z[j].n
  <2>1. ASSUME NEW i \in 1 .. Len(z), NEW j \in 1 .. Len(z), i < j, z[i].from = z[j].from PROVE z[i].n < z[j].n
    <3>1. i + k \in 1 .. Len(q) /\ j + k \in 1 .. Len(q) /\ i + k < j + k /\ z[i] = q[i + k] /\ z[j] = q[j + k]
      BY <1>4, <2>1
    <3> QED
      BY <2>1, <3>1 DEF Ordered, q
  <2> QED
    BY <2>1
<1>8. ASSUME NEW i \in 1 .. Len(z), NEW m \in 1 .. Len(webActed'[z[i].from]) PROVE webActed'[z[i].from][m] < z[i].n
  <2>1. i + k \in 1 .. Len(q) /\ i + k > 1 /\ z[i] = q[i + k] /\ z[i].from \in WebConns
    BY <1>1, <1>4
  <2>2. CASE m \in 1 .. Len(webActed[z[i].from]) /\ webActed'[z[i].from][m] = webActed[z[i].from][m]
    BY <2>1, <2>2 DEF Ordered, q
  <2>3. CASE z[i].from = e.from /\ webActed'[z[i].from][m] = e.n
    BY <1>1, <2>1, <2>3 DEF Ordered, q
  <2> QED
    BY <1>5, <2>1, <2>2, <2>3
<1>9. ASSUME NEW i \in 1 .. Len(z), NEW c \in WebConns, z[i].from = c PROVE z[i].n \in Handed(c)'
  <2>1. i + k \in 1 .. Len(q) /\ z[i] = q[i + k]
    BY <1>4, <1>9
  <2>2. q[i + k].n \in Handed(q[i + k].from)
    BY <2>1 DEF Ordered, q
  <2> QED
    BY <1>3, <1>9, <2>1, <2>2
<1>10. \A c \in WebConns : \A m \in 1 .. Len(webActed'[c]) : webActed'[c][m] \in Handed(c)'
  <2>1. e.n \in Handed(e.from)
    BY <1>1 DEF Ordered, q
  <2> QED
    BY <1>3, <1>5, <2>1 DEF Ordered
<1>11. Ordered'
  <2>1. \A i \in 1 .. Len(z) : z[i].from \in WebConns
    BY <1>1, <1>4
  <2>2. \A i \in 1 .. Len(z) : \A m \in 1 .. Len(webActed'[z[i].from]) : webActed'[z[i].from][m] < z[i].n
    BY <1>8
  <2>3. \A i \in 1 .. Len(z) :
          z[i].n \in 1 .. (IF webConn'[z[i].from].at \in {"echo", "cast", "casting"} THEN webConn'[z[i].from].got - 1
                                                                                 ELSE webConn'[z[i].from].got)
    BY <1>9, <2>1 DEF Handed, InHand
  <2> QED
    BY <1>6, <1>7, <1>10, <2>2, <2>3 DEF Ordered, z, Handed, InHand
<1>12. ASSUME k = 1, Complete, webServer'.threw = webServer.threw, ~webServer'.threw,
              NEW c \in WebConns, NEW n \in Handed(c)'
       PROVE  \/ \E m \in 1 .. Len(webActed'[c]) : webActed'[c][m] = n
              \/ \E i \in 1 .. Len(z) : z[i].from = c /\ z[i].n = n
  <2>1. \/ \E m \in 1 .. Len(webActed[c]) : webActed[c][m] = n
        \/ \E i \in 1 .. Len(q) : q[i].from = c /\ q[i].n = n
    BY <1>3, <1>12 DEF Complete, q
  <2>2. CASE \E m \in 1 .. Len(webActed[c]) : webActed[c][m] = n
    <3>1. PICK m \in 1 .. Len(webActed[c]) : webActed[c][m] = n
      BY <2>2
    <3>2. CASE c = e.from
      <4>1. webActed'[c] = Append(webActed[c], e.n)
        BY <1>2, <3>2
      <4> QED
        BY <1>1, <1>2, <1>12, <3>1, <4>1, AppendNth
    <3>3. CASE c # e.from
      BY <1>2, <1>12, <3>1, <3>3
    <3> QED
      BY <3>2, <3>3
  <2>3. CASE \E i \in 1 .. Len(q) : q[i].from = c /\ q[i].n = n
    <3>1. PICK i \in 1 .. Len(q) : q[i].from = c /\ q[i].n = n
      BY <2>3
    <3>2. CASE i = 1
      <4>1. c = e.from /\ e.n = n
        BY <3>1, <3>2
      <4>2. webActed'[c] = Append(webActed[c], n) /\ Len(webActed[c]) \in Nat
        BY <1>2, <4>1
      <4>3. Len(webActed[c]) + 1 \in 1 .. Len(webActed'[c]) /\ webActed'[c][Len(webActed[c]) + 1] = n
        BY <1>1, <1>2, <4>1, <4>2
      <4> QED
        BY <4>3
    <3>3. CASE i # 1
      <4>1. i - 1 \in 1 .. Len(z) /\ z[i - 1] = q[i]
        BY <1>1, <1>4, <1>12, <3>1, <3>3 DEF z, q
      <4> QED
        BY <3>1, <4>1
    <3> QED
      BY <3>2, <3>3
  <2> QED
    BY <2>1, <2>2, <2>3
<1>13. k = 1 /\ Complete /\ webServer'.threw = webServer.threw => Complete'
  BY <1>12 DEF Complete, z
<1> QED
  BY <1>11, <1>13

\* A reader queues the message that it has in hand, the last it got.
LEMMA BothAppended ==
  ASSUME NEW S, NEW s \in Seq(S), NEW t \in Seq(S), NEW e \in S
  PROVE  /\ Len(s \o Append(t, e)) = Len(s \o t) + 1 /\ Len(s \o t) \in Nat
         /\ (s \o Append(t, e))[Len(s \o t) + 1] = e
         /\ \A i \in 1 .. Len(s \o t) : (s \o Append(t, e))[i] = (s \o t)[i]
<1> DEFINE u == Append(t, e)
<1>1. u \in Seq(S) /\ Len(u) = Len(t) + 1 /\ u[Len(t) + 1] = e /\ \A i \in 1 .. Len(t) : u[i] = t[i]
  OBVIOUS
<1>2. Len(s) \in Nat /\ Len(t) \in Nat
  OBVIOUS
<1>3. /\ Len(s \o t) = Len(s) + Len(t)
      /\ \A i \in 1 .. Len(s) + Len(t) : (s \o t)[i] = IF i <= Len(s) THEN s[i] ELSE t[i - Len(s)]
  BY ConcatProperties
<1> HIDE DEF u
<1>4. /\ Len(s \o u) = Len(s) + Len(u)
      /\ \A i \in 1 .. Len(s) + Len(u) : (s \o u)[i] = IF i <= Len(s) THEN s[i] ELSE u[i - Len(s)]
  BY <1>1, ConcatProperties
<1> DEFINE z == s \o u  q == s \o t
<1> HIDE DEF z, q
<1>5. Len(z) = Len(q) + 1 /\ Len(q) \in Nat
  BY <1>1, <1>2, <1>3, <1>4 DEF z, q
<1>6. z[Len(q) + 1] = e
  BY <1>1, <1>2, <1>3, <1>4 DEF z, q
<1>7. ASSUME NEW i \in 1 .. Len(q) PROVE z[i] = q[i]
  <2>1. i \in 1 .. Len(s) + Len(t) /\ i \in 1 .. Len(s) + Len(u)
    BY <1>1, <1>2, <1>3, <1>7 DEF q
  <2>2. CASE i <= Len(s)
    BY <1>3, <1>4, <2>1, <2>2 DEF z, q
  <2>3. CASE ~(i <= Len(s))
    <3>1. i - Len(s) \in 1 .. Len(t)
      BY <1>2, <2>1, <2>3
    <3>2. z[i] = u[i - Len(s)] /\ q[i] = t[i - Len(s)]
      BY <1>3, <1>4, <2>1, <2>3 DEF z, q
    <3> QED
      BY <1>1, <3>1, <3>2
  <2> QED
    BY <2>2, <2>3
<1> QED
  BY <1>5, <1>6, <1>7 DEF z, q, u

LEMMA AddedOrdered ==
  ASSUME WebTyped, Readings, Ordered, NEW c \in WebConns, Queue(c)
  PROVE  Ordered' /\ (Complete => Complete')
<1> DEFINE q == Queued  z == Queued'  e == WsEvent(c)  g == webConn[c].got
<1>1. /\ Len(q) \in Nat /\ \A i \in 1 .. Len(q) : q[i].from \in WebConns /\ q[i].n \in Nat
      /\ e \in Events /\ e.from = c /\ e.n = g
  BY QueuedTyped, EventTyped
<1>2. /\ Len(z) = Len(q) + 1 /\ z[Len(q) + 1] = e
      /\ \A i \in 1 .. Len(q) : z[i] = q[i]
  <2>1. z = webBatch \o Append(webEvents, e)
    BY DEF Queue, ReaderOnly, Queued
  <2> HIDE DEF z, e
  <2> QED
    BY <1>1, <2>1, BothAppended DEF WebTyped, Queued
<1>3. webActed' = webActed /\ webServer' = webServer
  BY DEF Queue, ReaderOnly
<1>4. g \in Nat /\ g > 0 /\ Handed(c) = 1 .. g - 1 /\ Handed(c)' = 1 .. g
      /\ \A d \in WebConns \ {c} : Handed(d)' = Handed(d)
  <2> DEFINE r == [webConn[c] EXCEPT !.at = "head"]
  <2>0. webConn[c] \in Conns
    BY DEF WebTyped
  <2>1. Moved(c, r) /\ InHand(c)
    BY Changes DEF Queue, Places, InHand, ReaderAt
  <2>2. r.at = "head" /\ r.got = g /\ g \in Nat
    BY <2>0 DEF Conns
  <2> HIDE DEF r
  <2>3. webConn'[c] = r /\ \A d \in WebConns \ {c} : webConn'[d] = webConn[d]
    BY <2>1, MovedTyped
  <2>4. g > 0
    BY <2>1 DEF Readings, Reading
  <2> QED
    BY <2>1, <2>2, <2>3, <2>4 DEF Handed, InHand
<1> HIDE DEF q, z, e, g
<1>5. \A d \in WebConns : \A n \in Handed(d) : n \in Handed(d)'
  BY <1>4
<1>6. \A i \in 1 .. Len(z) : (i \in 1 .. Len(q) /\ z[i] = q[i]) \/ (i = Len(q) + 1 /\ z[i] = e)
  BY <1>1, <1>2
<1>7. \A d \in WebConns : \A n \in Handed(d) : d = c => n < g
  BY <1>4
<1>8. ASSUME NEW i \in 1 .. Len(z), NEW j \in 1 .. Len(z), i < j, z[i].from = z[j].from PROVE z[i].n < z[j].n
  <2>1. i \in 1 .. Len(q) /\ z[i] = q[i]
    BY <1>1, <1>2, <1>8
  <2>2. CASE j \in 1 .. Len(q) /\ z[j] = q[j]
    BY <1>8, <2>1, <2>2 DEF Ordered, q
  <2>3. CASE z[j] = e
    <3>1. q[i].from = c /\ q[i].n \in Handed(c)
      BY <1>1, <1>8, <2>1, <2>3 DEF Ordered, q
    <3> QED
      BY <1>1, <1>4, <2>1, <2>3, <3>1
  <2> QED
    BY <1>6, <2>2, <2>3
<1>9. ASSUME NEW i \in 1 .. Len(z), NEW d \in WebConns, z[i].from = d, NEW m \in 1 .. Len(webActed[d])
      PROVE  webActed[d][m] < z[i].n
  <2>1. CASE i \in 1 .. Len(q) /\ z[i] = q[i]
    BY <1>9, <2>1 DEF Ordered, q
  <2>2. CASE z[i] = e
    <3>1. d = c /\ webActed[d][m] \in Handed(c)
      BY <1>1, <1>9, <2>2 DEF Ordered
    <3> QED
      BY <1>1, <1>4, <2>2, <3>1
  <2> QED
    BY <1>6, <2>1, <2>2
<1>10. ASSUME NEW i \in 1 .. Len(z), NEW d \in WebConns, z[i].from = d PROVE z[i].n \in Handed(d)'
  <2>1. CASE i \in 1 .. Len(q) /\ z[i] = q[i]
    BY <1>5, <1>10, <2>1 DEF Ordered, q
  <2>2. CASE z[i] = e
    <3>1. d = c /\ z[i].n = g /\ g \in 1 .. g
      BY <1>1, <1>4, <1>10, <2>2
    <3> QED
      BY <1>4, <3>1
  <2> QED
    BY <1>6, <2>1, <2>2
<1>11. \A i \in 1 .. Len(z) : z[i].from \in WebConns
  BY <1>1, <1>6
<1>12. /\ \A d \in WebConns : Increasing(webActed[d])
       /\ \A d \in WebConns : \A m \in 1 .. Len(webActed[d]) : webActed[d][m] \in Handed(d)'
  BY <1>5 DEF Ordered
<1>13. Ordered'
  BY <1>3, <1>8, <1>9, <1>10, <1>11, <1>12 DEF Ordered, z, Handed, InHand
<1>14. ASSUME Complete, ~webServer.threw, NEW d \in WebConns, NEW n \in Handed(d)'
       PROVE  \/ \E m \in 1 .. Len(webActed[d]) : webActed[d][m] = n
              \/ \E i \in 1 .. Len(z) : z[i].from = d /\ z[i].n = n
  <2>1. CASE n \in Handed(d)
    <3>1. \/ \E m \in 1 .. Len(webActed[d]) : webActed[d][m] = n
          \/ \E i \in 1 .. Len(q) : q[i].from = d /\ q[i].n = n
      BY <1>14, <2>1 DEF Complete, q
    <3>2. \A i \in 1 .. Len(q) : i \in 1 .. Len(z) /\ z[i] = q[i]
      BY <1>1, <1>2
    <3> QED
      BY <3>1, <3>2
  <2>2. CASE n \notin Handed(d)
    <3>1. d = c /\ n = g
      BY <1>4, <1>14, <2>2
    <3>2. Len(q) + 1 \in 1 .. Len(z)
      BY <1>1, <1>2
    <3> QED
      BY <1>1, <1>2, <3>1, <3>2
  <2> QED
    BY <2>1, <2>2
<1>15. Complete => Complete'
  BY <1>3, <1>14 DEF Complete, z
<1> QED
  BY <1>13, <1>15

Numbered == Ordered /\ Complete
LEMMA NextNumbered == WebTyped /\ Readings /\ Emptied /\ Numbered /\ [WebNext]_webVars => Numbered'
<1> SUFFICES ASSUME WebTyped, Readings, Emptied, Ordered, Complete, [WebNext]_webVars PROVE Ordered' /\ Complete'
  BY DEF Numbered
<1>0. webServer \in Servers /\ \A c \in WebConns : webConn[c] \in Conns
  BY DEF WebTyped
<1>k. ASSUME UNCHANGED <<webConn, webActed>>, Queued' = Queued, webServer'.threw = webServer.threw PROVE Ordered' /\ Complete'
  <2>1. \A c \in WebConns : Handed(c)' = Handed(c)
    BY <1>k DEF Handed, InHand
  <2> QED
    BY <1>k, <2>1, KeptOrdered
<1>m. ASSUME NEW c \in WebConns, NEW r, Moved(c, r), UNCHANGED <<webEvents, webBatch, webActed>>,
             webServer'.threw = webServer.threw,
             \/ r.got = webConn[c].got /\ (r.at \in {"echo", "cast", "casting"} <=> InHand(c))
             \/ r.got = webConn[c].got + 1 /\ r.at \in {"echo", "cast", "casting"} /\ ~InHand(c)
      PROVE  Ordered' /\ Complete'
  <2>1. \A d \in WebConns : Handed(d)' = Handed(d)
    BY <1>m, HandedKept
  <2>2. Queued' = Queued
    BY <1>m DEF Queued
  <2> QED
    BY <1>m, <2>1, <2>2, KeptOrdered
<1>g. ASSUME NEW c \in WebConns, NEW pc \in Places, ReaderMoves(c, pc), UNCHANGED <<webEvents, webBatch, webActed>>,
             webServer'.threw = webServer.threw, pc \in {"echo", "cast", "casting"} <=> InHand(c)
      PROVE  Ordered' /\ Complete'
  <2> DEFINE r == [webConn[c] EXCEPT !.at = pc]
  <2>1. Moved(c, r)
    BY <1>g, Changes
  <2>2. r.at = pc /\ r.got = webConn[c].got
    BY <1>0 DEF Conns
  <2> HIDE DEF r
  <2> QED
    BY <1>g, <1>m, <2>1, <2>2
<1>1. CASE Listen \/ Dispatched \/ LeaveLoop \/ CtrlC \/ Shutdown
  <2>1. ServerOnly /\ webServer'.threw = webServer.threw
    BY <1>0, <1>1 DEF Listen, Dispatched, LeaveLoop, CtrlC, Shutdown, ShutdownStep, Servers
  <2> QED
    BY <1>k, <2>1 DEF ServerOnly, Queued
<1>2. CASE Turn \/ LastDrain
  <2>1. /\ webBatch' = webEvents /\ webEvents' = <<>> /\ UNCHANGED <<webConn, webActed>>
        /\ webServer'.threw = webServer.threw /\ webBatch = <<>>
    BY <1>0, <1>2 DEF Turn, LastDrain, Drain, AfterSwap, Looking, Emptied, Servers
  <2>2. <<>> \o webEvents = webEvents /\ webEvents \o <<>> = webEvents
    BY ConcatEmptySeq DEF WebTyped
  <2>3. Queued' = Queued
    BY <2>1, <2>2 DEF Queued
  <2> QED
    BY <1>k, <2>1, <2>3
<1>3. CASE Dispatch
  <2>1. /\ webBatch # <<>> /\ webActed' = Acted(Head(webBatch)) /\ webBatch' = Tail(webBatch)
        /\ UNCHANGED <<webServer, webConn, webEvents>>
    BY <1>3 DEF Dispatch
  <2>2. Queued' = Tail(webBatch) \o webEvents
    BY <2>1 DEF Queued
  <2>3. /\ Len(Queued') = Len(Queued) - 1 /\ Len(Queued) \in Nat /\ Len(Queued) >= 1 /\ Head(webBatch) = Queued[1]
        /\ \A i \in 1 .. Len(Queued) - 1 : Queued'[i] = Queued[i + 1]
    BY <2>1, <2>2, TailOfBoth DEF WebTyped, Queued
  <2> QED
    BY <2>1, <2>3, TakenOrdered
<1>4. CASE ActionThrows
  <2>1. /\ webBatch # <<>> /\ webActed' = Acted(Head(webBatch)) /\ webBatch' = <<>>
        /\ webServer'.threw /\ UNCHANGED <<webConn, webEvents>>
    BY <1>0, <1>4 DEF ActionThrows, Servers
  <2>2. Queued' = webEvents
    BY <2>1, ConcatEmptySeq DEF Queued, WebTyped
  <2>3. Len(webBatch) \in Nat /\ Len(webBatch) >= 1 /\ Len(webEvents) \in Nat /\ Head(webBatch) = webBatch[1]
    BY <2>1, EmptySeq DEF WebTyped
  <2>4. /\ Len(Queued) = Len(webBatch) + Len(webEvents) /\ Head(webBatch) = Queued[1]
        /\ \A i \in 1 .. Len(Queued) : Queued[i] = IF i <= Len(webBatch) THEN webBatch[i] ELSE webEvents[i - Len(webBatch)]
    BY <2>3, ConcatProperties DEF Queued, WebTyped
  <2>5. /\ Len(webBatch) <= Len(Queued) /\ Len(Queued') = Len(Queued) - Len(webBatch)
        /\ \A i \in 1 .. Len(Queued) - Len(webBatch) : Queued'[i] = Queued[i + Len(webBatch)]
    <3>1. ASSUME NEW i \in 1 .. Len(webEvents) PROVE webEvents[i] = Queued[i + Len(webBatch)]
      <4>1. i + Len(webBatch) \in 1 .. Len(Queued) /\ ~(i + Len(webBatch) <= Len(webBatch))
            /\ i + Len(webBatch) - Len(webBatch) = i
        BY <2>3, <2>4, <3>1
      <4> QED
        BY <2>4, <4>1
    <3> QED
      BY <2>2, <2>3, <2>4, <3>1
  <2>6. Ordered'
    BY <2>1, <2>3, <2>4, <2>5, TakenOrdered
  <2> QED
    BY <2>1, <2>6 DEF Complete
<1>5. ASSUME NEW c \in WebConns, Upgrade(c) \/ StartReader(c) PROVE Ordered' /\ Complete'
  <2>1. CASE Upgrade(c)
    <3>1. webServer'.threw = webServer.threw
      BY <1>0, <2>1 DEF Upgrade, Servers
    <3> QED
      BY <1>g, <2>1, <3>1 DEF Upgrade, ReaderAt, InHand, Places
  <2>2. CASE StartReader(c)
    <3>1. webServer'.threw = webServer.threw
      BY <1>0, <2>2 DEF StartReader, Servers
    <3> QED
      BY <1>g, <2>2, <3>1 DEF StartReader, ReaderAt, InHand, Places
  <2> QED
    BY <1>5, <2>1, <2>2
<1>6. ASSUME NEW c \in WebConns, Register(c) PROVE Ordered' /\ Complete'
  <2> DEFINE r == [webConn[c] EXCEPT !.at = "registered", !.open = TRUE, !.sock = TRUE, !.listed = TRUE]
  <2>1. Moved(c, r) /\ ~InHand(c) /\ UNCHANGED <<webEvents, webBatch, webActed>> /\ webServer'.threw = webServer.threw
    BY <1>0, <1>6, Changes DEF Register, ReaderAt, InHand, Servers
  <2>2. r.at = "registered" /\ r.got = webConn[c].got
    BY <1>0 DEF Conns
  <2> HIDE DEF r
  <2> QED
    BY <1>m, <2>1, <2>2
<1>7. ASSUME NEW c \in WebConns, Receive(c) PROVE Ordered' /\ Complete'
  <2> DEFINE r == [webConn[c] EXCEPT !.at = "echo", !.inbox = @ - 1, !.got = @ + 1]
  <2>1. Moved(c, r) /\ ~InHand(c) /\ UNCHANGED <<webEvents, webBatch, webActed, webServer>>
    BY <1>7, Changes DEF Receive, ReaderOnly, ReaderAt, InHand
  <2>2. r.at = "echo" /\ r.got = webConn[c].got + 1
    BY <1>0 DEF Conns
  <2> HIDE DEF r
  <2> QED
    BY <1>m, <2>1, <2>2
<1>8. ASSUME NEW c \in WebConns, ReaderStops(c) \/ Echo(c) PROVE Ordered' /\ Complete'
  <2>1. CASE ReaderStops(c)
    BY <1>g, <2>1 DEF ReaderStops, ReaderOnly, ReaderAt, InHand, Places
  <2>2. CASE Echo(c)
    BY <1>g, <2>2 DEF Echo, ReaderOnly, ReaderAt, InHand, Places
  <2> QED
    BY <1>8, <2>1, <2>2
<1>9. ASSUME NEW c \in WebConns, Snapshot(c) PROVE Ordered' /\ Complete'
  <2> DEFINE r == [webConn[c] EXCEPT !.at = "casting", !.targets = Targets(c)]
  <2>1. Moved(c, r) /\ InHand(c) /\ UNCHANGED <<webEvents, webBatch, webActed, webServer>>
    BY <1>9, Changes DEF Snapshot, ReaderOnly, ReaderAt, InHand
  <2>2. r.at = "casting" /\ r.got = webConn[c].got
    BY <1>0 DEF Conns
  <2> HIDE DEF r
  <2> QED
    BY <1>m, <2>1, <2>2
<1>10. ASSUME NEW c \in WebConns, NEW d \in WebConns, CastTo(c, d) PROVE Ordered' /\ Complete'
  <2> DEFINE r == [webConn[c] EXCEPT !.targets = @ \ {d}]
  <2>1. Moved(c, r) /\ InHand(c) /\ UNCHANGED <<webEvents, webBatch, webActed, webServer>>
    BY <1>10, Changes DEF CastTo, ReaderOnly, ReaderAt, InHand
  <2>2. r.at = webConn[c].at /\ r.got = webConn[c].got
    BY <1>0 DEF Conns
  <2> HIDE DEF r
  <2> QED
    BY <1>m, <2>1, <2>2 DEF InHand
<1>11. ASSUME NEW c \in WebConns, Leave(c) PROVE Ordered' /\ Complete'
  <2> DEFINE r == [webConn[c] EXCEPT !.at = "gone", !.open = FALSE, !.sock = FALSE, !.listed = FALSE]
  <2>1. Moved(c, r) /\ ~InHand(c) /\ UNCHANGED <<webEvents, webBatch, webActed, webServer>>
    BY <1>11, Changes DEF Leave, ReaderOnly, ReaderAt, InHand
  <2>2. r.at = "gone" /\ r.got = webConn[c].got
    BY <1>0 DEF Conns
  <2> HIDE DEF r
  <2> QED
    BY <1>m, <2>1, <2>2
<1>12. ASSUME NEW c \in WebConns, ScriptUnlists(c) \/ ScriptCloses(c) \/ ClientSends(c) PROVE Ordered' /\ Complete'
  <2>1. UNCHANGED <<webEvents, webBatch, webActed, webServer>>
    BY <1>12 DEF ScriptUnlists, ScriptCloses, ClientSends, ReaderOnly
  <2>2. PICK r : Moved(c, r) /\ r.at = webConn[c].at /\ r.got = webConn[c].got
    <3>1. CASE ScriptUnlists(c)
      <4> DEFINE r == [webConn[c] EXCEPT !.listed = FALSE, !.closing = TRUE]
      <4>1. Moved(c, r)
        BY <3>1, Changes
      <4>2. r.at = webConn[c].at /\ r.got = webConn[c].got
        BY <1>0 DEF Conns
      <4> HIDE DEF r
      <4> QED
        BY <4>1, <4>2
    <3>2. CASE ScriptCloses(c)
      <4> DEFINE r == [webConn[c] EXCEPT !.closing = FALSE, !.open = FALSE, !.sock = FALSE]
      <4>1. Moved(c, r)
        BY <3>2, Changes
      <4>2. r.at = webConn[c].at /\ r.got = webConn[c].got
        BY <1>0 DEF Conns
      <4> HIDE DEF r
      <4> QED
        BY <4>1, <4>2
    <3>3. CASE ClientSends(c)
      <4> DEFINE r == [webConn[c] EXCEPT !.inbox = @ + 1]
      <4>1. Moved(c, r)
        BY <3>3, Changes
      <4>2. r.at = webConn[c].at /\ r.got = webConn[c].got
        BY <1>0 DEF Conns
      <4> HIDE DEF r
      <4> QED
        BY <4>1, <4>2
    <3> QED
      BY <1>12, <3>1, <3>2, <3>3
  <2> QED
    BY <1>m, <2>1, <2>2 DEF InHand
<1>13. ASSUME NEW c \in WebConns, Queue(c) PROVE Ordered' /\ Complete'
  BY <1>13, AddedOrdered
<1>14. CASE UNCHANGED webVars
  BY <1>14, <1>k DEF webVars, Queued
<1> QED
  BY <1>1, <1>2, <1>3, <1>4, <1>5, <1>6, <1>7, <1>8, <1>9, <1>10, <1>11, <1>12, <1>13, <1>14 DEF WebNext, Reader

\* For any number of clients and messages: the actions of the script see every
\* message of a connection once and in the order in which it was sent, across
\* drains, shutdowns and the end of its reader, and miss none unless one of them threw.
THEOREM ActionsSeeAll == WebSpec => []EventsInOrder
<1>1. WebInit => Readings /\ Emptied /\ Numbered
  <2> SUFFICES ASSUME WebInit PROVE Readings /\ Emptied /\ Numbered
    OBVIOUS
  <2>1. Readings
    BY DEF WebInit, Readings, Reading, InHand
  <2>2. Emptied
    BY DEF WebInit, Emptied
  <2>3. Len(<<>>) = 0 /\ <<>> \o <<>> = <<>>
    OBVIOUS
  <2>4. Queued = <<>> /\ \A c \in WebConns : webActed[c] = <<>> /\ Handed(c) = {}
    BY <2>3 DEF WebInit, Queued, Handed, InHand
  <2> QED
    BY <2>1, <2>2, <2>3, <2>4 DEF Numbered, Ordered, Complete, Increasing
<1>2. WebTyped /\ Numbered => EventsInOrder
  <2> SUFFICES ASSUME WebTyped, Ordered, Complete PROVE EventsInOrder
    BY DEF Numbered
  <2>1. \A c \in WebConns : \A n : n \in ToSet(webActed[c]) <=> \E m \in 1 .. Len(webActed[c]) : webActed[c][m] = n
    <3>1. ASSUME NEW c \in WebConns PROVE DOMAIN webActed[c] = 1 .. Len(webActed[c])
      <4>1. webActed[c] \in Seq(Nat)
        BY DEF WebTyped
      <4> QED
        BY <4>1
    <3> QED
      BY <3>1 DEF ToSet
  <2>2. DOMAIN Queued = 1 .. Len(Queued) /\ ToSet(Queued) = {Queued[i] : i \in 1 .. Len(Queued)}
    BY QueuedTyped DEF ToSet
  <2>3. \A c \in WebConns : \A n \in Waiting(c) : \E i \in 1 .. Len(Queued) : Queued[i].from = c /\ Queued[i].n = n
    BY <2>2 DEF Waiting
  <2>4. \A c \in WebConns : \A i \in 1 .. Len(Queued) : Queued[i].from = c => Queued[i].n \in Waiting(c)
    BY <2>2 DEF Waiting
  <2>5. \A i, j \in DOMAIN Queued : i < j /\ Queued[i].from = Queued[j].from => Queued[i].n < Queued[j].n
    BY <2>2 DEF Ordered
  <2>6. ASSUME NEW c \in WebConns
        PROVE  /\ Increasing(webActed[c])
               /\ \A n \in ToSet(webActed[c]), m \in Waiting(c) : n < m
               /\ ToSet(webActed[c]) \cup Waiting(c) \subseteq Handed(c)
               /\ ~webServer.threw => Handed(c) \subseteq ToSet(webActed[c]) \cup Waiting(c)
    <3>1. Increasing(webActed[c])
      BY DEF Ordered
    <3>2. ASSUME NEW n \in ToSet(webActed[c]), NEW w \in Waiting(c) PROVE n < w
      <4>1. PICK m \in 1 .. Len(webActed[c]) : webActed[c][m] = n
        BY <2>1, <3>2
      <4>2. PICK i \in 1 .. Len(Queued) : Queued[i].from = c /\ Queued[i].n = w
        BY <2>3, <3>2
      <4> QED
        BY <4>1, <4>2 DEF Ordered
    <3>3. ToSet(webActed[c]) \subseteq Handed(c) /\ Waiting(c) \subseteq Handed(c)
      BY <2>1, <2>3 DEF Ordered
    <3>4. ASSUME ~webServer.threw, NEW n \in Handed(c) PROVE n \in ToSet(webActed[c]) \cup Waiting(c)
      <4>1. \/ \E k \in 1 .. Len(webActed[c]) : webActed[c][k] = n
            \/ \E i \in 1 .. Len(Queued) : Queued[i].from = c /\ Queued[i].n = n
        BY <3>4 DEF Complete
      <4> QED
        BY <2>1, <2>4, <4>1
    <3> QED
      BY <3>1, <3>2, <3>3, <3>4
  <2> QED
    BY <2>5, <2>6 DEF EventsInOrder
<1> QED
  BY <1>1, <1>2, WebAlwaysTyped, NextReadings, NextEmptied, NextNumbered, PTL DEF WebSpec
=============================================================================
