---------------------------- MODULE MCComponents ----------------------------
(* One instance for the components that do not touch each other's state: a
   behaviour belongs to one of them, which `part` names, and the others keep
   their initial states. *)
EXTENDS Memory, Monitor, Lifecycle, Debugger, Expressions, WebServer, Packages, Collections

CONSTANTS MaxThreads, MaxWorkers, MainOps, WorkerOps
VARIABLES created, table, freed, state, detached, handle, exec, prev, call, held,
          lock, current, told, ub
Threads == INSTANCE ThreadManager
threadVars == <<created, table, freed, state, detached, handle, exec, prev, call, held,
                lock, current, told, ub>>

CONSTANTS SerBeyond, SerMaxCount
VARIABLES serProgram, serBlob, serLoaded
Blobs == INSTANCE Serializer
serVars == <<serProgram, serBlob, serLoaded>>

CONSTANTS StmAsks, StmLen, StmBind, StmInit
VARIABLES stmBody, stmEnd
Bodies == INSTANCE Statements
stmVars == <<stmBody, stmEnd>>

Versions == {<<1, 0, 0>>, <<1, 2, 0>>}
Wants == {[kind |-> "caret", v |-> <<1, 0, 0>>], [kind |-> "exact", v |-> <<1, 0, 0>>]}

CONSTANT PrsSlips
VARIABLES prsTree, prsTokens, prsHurt, prsOut
Text == INSTANCE Syntax
prsVars == <<prsTree, prsTokens, prsHurt, prsOut>>

CONSTANTS MirMax, MirGuard
VARIABLES mirPick, mirMod, mirFrames, mirHeap, mirFiles, mirOut, mirEnd
Mini == INSTANCE MiniIr
mirVars == <<mirPick, mirMod, mirFrames, mirHeap, mirFiles, mirOut, mirEnd>>

VARIABLES lexPick, lexAt, lexLine, lexStart, lexOut
Scan == INSTANCE Lexer
lexVars == <<lexPick, lexAt, lexLine, lexStart, lexOut>>

CallsLeft == [dicts |-> 5, lists |-> 4, bags |-> 4]
Most == [dicts |-> 2, lists |-> 3, sets |-> 3, long |-> 3]
Rows == {<<>>, <<"a">>, <<"a", "b">>}
Columns == {<<<<"b">>>>, <<<<"b">>, <<"a">>>>, <<<<"b", ".", "a">>>>, <<<<".", "b">>>>}

VARIABLES impPick, impOut
Sources == INSTANCE Imports
impVars == <<impPick, impOut>>

VARIABLE part

Parts == {"memory", "monitor", "lifecycle", "debugger", "expressions", "threads", "blobs", "bodies", "packages",
          "web", "syntax", "machine", "lexer", "collections", "imports"}
Only(p) ==
  /\ part = p /\ UNCHANGED part
  /\ p = "memory" \/ UNCHANGED memVars
  /\ p = "monitor" \/ UNCHANGED monVars
  /\ p = "lifecycle" \/ UNCHANGED lifVars
  /\ p = "debugger" \/ UNCHANGED dbgVars
  /\ p = "expressions" \/ UNCHANGED expVars
  /\ p = "threads" \/ UNCHANGED threadVars
  /\ p = "blobs" \/ UNCHANGED serVars
  /\ p = "bodies" \/ UNCHANGED stmVars
  /\ p = "packages" \/ UNCHANGED pkgVars
  /\ p = "web" \/ UNCHANGED webVars
  /\ p = "syntax" \/ UNCHANGED prsVars
  /\ p = "machine" \/ UNCHANGED mirVars
  /\ p = "lexer" \/ UNCHANGED lexVars
  /\ p = "collections" \/ UNCHANGED colVars
  /\ p = "imports" \/ UNCHANGED impVars

Init ==
  /\ part \in Parts
  /\ MemInit /\ MonInit /\ LifInit /\ DbgInit /\ Threads!Init /\ WebInit
  /\ IF part = "expressions" THEN ExpInit ELSE ExpIdle
  /\ IF part = "blobs" THEN Blobs!SerInit ELSE Blobs!SerIdle
  /\ IF part = "bodies" THEN Bodies!StmBegin ELSE Bodies!StmIdle
  /\ IF part = "packages" THEN PkgInit ELSE PkgIdle
  /\ IF part = "syntax" THEN Text!PrsInit ELSE Text!PrsIdle
  /\ IF part = "machine" THEN Mini!MirInit ELSE Mini!MirIdle
  /\ IF part = "lexer" THEN Scan!LexInit ELSE Scan!LexIdle
  /\ IF part = "collections" THEN ColInit ELSE ColIdle
  /\ IF part = "imports" THEN Sources!ImpInit ELSE Sources!ImpIdle
Next ==
  \/ Only("memory") /\ MemNext
  \/ Only("monitor") /\ MonNext
  \/ Only("lifecycle") /\ LifNext
  \/ Only("debugger") /\ DbgNext
  \/ Only("expressions") /\ ExpNext
  \/ Only("threads") /\ Threads!Next
  \/ Only("blobs") /\ Blobs!SerNext
  \/ Only("bodies") /\ Bodies!RunBody
  \/ Only("packages") /\ PkgNext
  \/ Only("web") /\ WebNext
  \/ Only("syntax") /\ Text!PrsNext
  \/ Only("machine") /\ Mini!MirNext
  \/ Only("lexer") /\ Scan!LexNext
  \/ Only("collections") /\ ColNext
  \/ Only("imports") /\ Sources!ImpNext
Spec ==
  Init /\ [][Next]_<<part, memVars, monVars, lifVars, dbgVars, expVars, threadVars, serVars, stmVars,
                 pkgVars, webVars, prsVars, mirVars, lexVars, colVars, impVars>>

\* Clients are alike, and so are the variables of a script.
Symmetry == Permutations(WebConns) \cup Permutations(MemNames)

TypesOK == MemTypeOK /\ MonTypeOK /\ LifTypeOK /\ DbgTypeOK /\ Threads!TypeOK /\ PkgTypeOK /\ ColTypeOK

(* src/runtime/features/ast_serializer.cpp: what writer and reader agree on. *)
ProgramsRoundTrip == Blobs!RoundTrips

(* src/runtime/actions.cpp: flags and exceptions of the tree walker. *)
JumpsMeanJumps == Bodies!FlagsMeanJumps

(* src/parser.cpp: what is read, and what is said about what cannot be read. *)
ParsesBack == Text!ParsesBack
LinesAnswered == Text!LinesAnswered

(* src/runtime/mini_ir_vm.cpp: programs mean what the language says. *)
MachineMeans == Mini!MachineMeans

(* src/lexer.cpp: pieces of a source are read apart. *)
LexedApart == Scan!LexedApart

(* src/obs_main.cpp, src/main.cpp, src/runtime/cabi_exports.cpp: who reads files, reads one program. *)
ProgramsAssembled == Sources!ProgramsAssembled
=============================================================================
