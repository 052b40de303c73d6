------------------------------ MODULE Debugger ------------------------------
(* The debugger: the editor's adapter and the interpreter it started, joined by
   two pipes.  Breakpoints and resume commands go to the standard input of the
   interpreter, which reads it only before the program starts and while it is
   stopped; events come back on its standard error. *)
EXTENDS Naturals, Sequences, FiniteSets, SequencesExt

CONSTANTS DbgLines, \* lines of the program that the main thread may reach
          DbgEdits  \* bound: times the editor changes the breakpoints

ASSUME DbgAssumption == DbgLines \subseteq Nat \ {0} /\ IsFiniteSet(DbgLines) /\ DbgEdits \in Nat

VARIABLES dbgPc,      \* where the interpreter is
          dbgLine,    \* the line it reached last
          dbgBreaks,  \* breakpoints it knows
          dbgStep,    \* stepMode
          dbgQuit,    \* quit
          dbgIn,      \* commands in its standard input
          dbgErr,     \* events in its standard error
          dbgReady,   \* adapter: "ready" has been seen
          dbgPending, \* adapter: breakpoints to send when it has
          dbgClient,  \* editor: configuring, running or stopped
          dbgShown,   \* editor: line and locals it shows
          dbgWanted,  \* editor: breakpoints it shows as verified
          dbgEdits,   \* changes made so far
          dbgAtGo     \* history: changes made before configurationDone

dbgRuntime == <<dbgPc, dbgLine, dbgBreaks, dbgStep, dbgQuit>>
dbgEditor == <<dbgReady, dbgPending, dbgClient, dbgShown, dbgWanted, dbgEdits, dbgAtGo>>
dbgVars == <<dbgRuntime, dbgIn, dbgErr, dbgEditor>>

Break(l) == [cmd |-> "break", line |-> l]
Cmd(c) == [cmd |-> c, line |-> 0]
Event(e, l) == [event |-> e, line |-> l]
Breaks(lines) == [i \in 1..Cardinality(lines) |-> Break(SetToSeq(lines)[i])]
Send(cmds) == dbgIn' = dbgIn \o cmds

-----------------------------------------------------------------------------
(* The interpreter. *)

Boot ==
  /\ dbgPc = "boot" /\ dbgPc' = "attach"
  /\ dbgErr' = Append(dbgErr, Event("ready", 0))
  /\ UNCHANGED <<dbgLine, dbgBreaks, dbgStep, dbgQuit, dbgIn, dbgEditor>>

Cleared(breaks) == {}
BreaksAfterReplacing(c) ==
  CASE c.cmd = "break" -> {c.line}
    [] c.cmd = "clear" -> Cleared(dbgBreaks)
    [] OTHER -> dbgBreaks
BreaksAfter(c) ==
  CASE c.cmd = "break" -> dbgBreaks \cup {c.line}
    [] c.cmd = "clear" -> Cleared(dbgBreaks)
    [] OTHER -> dbgBreaks

(* debug_wait_attach, and the command loop of a stop. *)
ReadCommand ==
  LET c == Head(dbgIn)
      resumes == c.cmd = "continue" \/ c.cmd = IF dbgPc = "attach" THEN "go" ELSE "step" IN
  /\ dbgPc \in {"attach", "paused"} /\ dbgIn # <<>>
  /\ dbgIn' = Tail(dbgIn)
  /\ dbgBreaks' = BreaksAfter(c)
  /\ dbgStep' = (c.cmd = "step" /\ dbgPc = "paused")
  /\ dbgQuit' = (c.cmd = "quit")
  /\ dbgPc' = CASE dbgQuit' /\ dbgPc = "paused" -> "unwind"
                [] dbgQuit' \/ resumes -> "run"
                [] OTHER -> dbgPc
  /\ UNCHANGED <<dbgLine, dbgErr, dbgEditor>>

(* The hook before a statement of the main thread. *)
Stops(l) == l \in dbgBreaks \/ dbgStep
StopEventsLocals(l) == <<Event("locals", l)>>
StopEvents(l) == <<Event("stopped", l), Event("locals", l)>>
Hook(l) ==
  /\ dbgPc = "run" /\ dbgLine' = l
  /\ IF dbgQuit
     THEN dbgPc' = "unwind" /\ UNCHANGED <<dbgErr, dbgStep>>
     ELSE IF Stops(l)
     THEN /\ dbgPc' = "paused" /\ dbgStep' = FALSE
          /\ dbgErr' = dbgErr \o StopEvents(l)
     ELSE UNCHANGED <<dbgPc, dbgErr, dbgStep>>
  /\ UNCHANGED <<dbgBreaks, dbgQuit, dbgIn, dbgEditor>>

(* "debug quit" is an ordinary error: a try statement of the program may catch
   it, and the next hook throws again. *)
Unwind ==
  /\ dbgPc = "unwind" /\ dbgPc' \in {"run", "over"}
  /\ UNCHANGED <<dbgLine, dbgBreaks, dbgStep, dbgQuit, dbgIn, dbgErr, dbgEditor>>

ProgramEnds ==
  /\ dbgPc = "run" /\ dbgPc' = "over"
  /\ UNCHANGED <<dbgLine, dbgBreaks, dbgStep, dbgQuit, dbgIn, dbgErr, dbgEditor>>

-----------------------------------------------------------------------------
(* The adapter. *)

HandleEvent ==
  LET e == Head(dbgErr) IN
  /\ dbgErr # <<>> /\ dbgErr' = Tail(dbgErr)
  /\ CASE e.event = "ready" ->
            /\ dbgReady' = TRUE /\ dbgPending' = {} /\ Send(Breaks(dbgPending))
            /\ UNCHANGED <<dbgClient, dbgShown>>
       [] e.event = "stopped" ->
            /\ dbgClient' = "stopped" /\ dbgShown' = [dbgShown EXCEPT !.line = e.line]
            /\ UNCHANGED <<dbgReady, dbgPending, dbgIn>>
       [] e.event = "locals" ->
            /\ dbgShown' = [dbgShown EXCEPT !.locals = e.line]
            /\ UNCHANGED <<dbgReady, dbgPending, dbgIn, dbgClient>>
  /\ UNCHANGED <<dbgRuntime, dbgWanted, dbgEdits, dbgAtGo>>

SetBreakPoints(lines) ==
  /\ dbgEdits < DbgEdits /\ dbgEdits' = dbgEdits + 1
  /\ dbgWanted' = lines
  /\ IF dbgReady THEN Send(<<Cmd("clear")>> \o Breaks(lines)) /\ UNCHANGED dbgPending
     ELSE dbgPending' = lines /\ UNCHANGED dbgIn
  /\ UNCHANGED <<dbgRuntime, dbgErr, dbgReady, dbgClient, dbgShown, dbgAtGo>>

ConfigurationDone ==
  /\ dbgClient = "configuring" /\ dbgClient' = "running" /\ Send(<<Cmd("go")>>)
  /\ dbgAtGo' = dbgEdits
  /\ UNCHANGED <<dbgRuntime, dbgErr, dbgReady, dbgPending, dbgShown, dbgWanted, dbgEdits>>

Resume(c) ==
  /\ dbgClient = "stopped" /\ dbgClient' = "running" /\ Send(<<Cmd(c)>>)
  /\ UNCHANGED <<dbgRuntime, dbgErr, dbgReady, dbgPending, dbgShown, dbgWanted, dbgEdits, dbgAtGo>>

(* disconnect and terminate: quit is written and the process killed. *)
Disconnect ==
  /\ dbgClient # "gone" /\ dbgClient' = "gone"
  /\ Send(<<Cmd("quit")>>) /\ dbgPc' \in {dbgPc, "over"}
  /\ UNCHANGED <<dbgLine, dbgBreaks, dbgStep, dbgQuit, dbgErr, dbgReady, dbgPending, dbgShown,
                 dbgWanted, dbgEdits, dbgAtGo>>

DbgInit ==
  /\ dbgPc = "boot" /\ dbgLine = 0 /\ dbgBreaks = {} /\ dbgStep = FALSE /\ dbgQuit = FALSE
  /\ dbgIn = <<>> /\ dbgErr = <<>>
  /\ dbgReady = FALSE /\ dbgPending = {} /\ dbgClient = "configuring"
  /\ dbgShown = [line |-> 0, locals |-> 0] /\ dbgWanted = {} /\ dbgEdits = 0 /\ dbgAtGo = 0

DbgNext ==
  \/ Boot \/ ReadCommand \/ Unwind \/ ProgramEnds \/ \E l \in DbgLines : Hook(l)
  \/ HandleEvent \/ ConfigurationDone \/ Disconnect
  \/ \E c \in {"continue", "step"} : Resume(c)
  \/ \E lines \in SUBSET DbgLines : SetBreakPoints(lines)

DbgSpec == DbgInit /\ [][DbgNext]_dbgVars

-----------------------------------------------------------------------------
DbgTypeOK ==
  /\ dbgPc \in {"boot", "attach", "run", "paused", "unwind", "over"}
  /\ dbgBreaks \cup dbgWanted \cup dbgPending \subseteq DbgLines
  /\ Len(dbgErr) <= 3

Unread == \E i \in DOMAIN dbgIn : dbgIn[i].cmd \in {"break", "clear"}

(* Once the interpreter has read every change of the breakpoints it never
   passes a line that the editor shows with one, whatever was set before it was
   ready, between two stops or while it was stopped. *)
BreakpointsHonoured ==
  [][dbgPc = "run" /\ ~dbgQuit /\ dbgLine' # dbgLine /\ dbgLine' \in dbgWanted
       /\ dbgReady /\ ~Unread => dbgPc' = "paused"]_dbgVars

(* The interpreter is never left stopped by an adapter that believes it runs:
   it is told to go on, or the editor still has the stop to show. *)
StopsReachEditor ==
  dbgPc = "paused" /\ dbgClient # "gone" =>
    \/ dbgClient = "stopped"
    \/ \E i \in DOMAIN dbgErr : dbgErr[i].event = "stopped"
    \/ \E i \in DOMAIN dbgIn : dbgIn[i].cmd \in {"continue", "step"}

(* erevos-language/src/debugAdapter.ts:108, "breakpoints already sent via
   setBreakPoints before continue": when the program starts, the interpreter
   has the breakpoints that the editor had set. *)
BreaksBeforeGo ==
  dbgPc \in {"run", "paused"} /\ dbgEdits = dbgAtGo /\ ~dbgQuit => dbgBreaks = dbgWanted
=============================================================================
