----------------------------- MODULE Statements ------------------------------
(* How the tree walker runs the body of an action: a statement that jumps sets a
   flag of the ExecContext that every block and loop on the way out has to look
   at, clear or hand on, an error is a C++ exception, and the `?` operator an
   exception that the innermost block turns into a return.  Conditions hold the
   first StmAsks times they are asked. *)
EXTENDS Naturals, Sequences, TLC

CONSTANTS StmAsks,  \* bound: conditions that hold
          StmLen,   \* bound: turns of repeat, elements of the list
          StmBind,  \* the name that the pattern of a match binds
          StmInit   \* what the header of a for loop begins with

VARIABLES stmBody, \* the body of the action
          stmEnd   \* what its run leaves: NotRun before

stmVars == <<stmBody, stmEnd>>

(* Env, the flags of ExecContext, the exception in flight (exc), and what can be
   seen from outside: said, the elements of a list, the conditions asked. *)
Start ==
  [vars |-> "x" :> 0, said |-> <<>>, list |-> [i \in 1 .. StmLen |-> i], asked |-> 0,
   returned |-> FALSE, breakSignal |-> FALSE, continueSignal |-> FALSE, exc |-> "none"]

Ask(s) == [s EXCEPT !.asked = @ + 1]
Holds(s) == s.asked < StmAsks
Bind(s, name, v) == [s EXCEPT !.vars = (name :> v) @@ @]
Declared(s, name) == name \in DOMAIN s.vars

(* The statements that do not hold others. *)
Simple == {"say", "set", "let", "push", "clear", "break", "continue", "return", "throw", "propagate"}
Effect(k, s) ==
  CASE k = "say" -> [s EXCEPT !.said = Append(@, s.vars["x"])]
    [] k = "set" -> Bind(s, "x", s.vars["x"] + 1)
    [] k = "let" -> Bind(s, "y", 1)
    [] k = "push" -> [s EXCEPT !.list = Append(@, 9)]
    [] k = "clear" -> [s EXCEPT !.list = <<>>]
    [] k = "break" -> [s EXCEPT !.breakSignal = TRUE]
    [] k = "continue" -> [s EXCEPT !.continueSignal = TRUE]
    [] k = "return" -> [s EXCEPT !.returned = TRUE]
    [] k = "throw" -> [s EXCEPT !.exc = "error"]
    [] k = "propagate" -> [s EXCEPT !.exc = "propagate"]

-----------------------------------------------------------------------------
RECURSIVE ExecBlock(_, _), ExecStmt(_, _), While(_, _), For(_, _), DoWhile(_, _),
          Repeat(_, _, _), EachElement(_, _, _, _), EachEntry(_, _, _)

ExecBlock(b, s) ==
  IF b = <<>> THEN s
  ELSE LET r == ExecStmt(Head(b), s) IN
       CASE r.exc = "propagate" -> [r EXCEPT !.exc = "none", !.returned = TRUE]
         [] r.exc = "error" -> r
         [] OTHER -> IF r.returned \/ r.breakSignal \/ r.continueSignal THEN r ELSE ExecBlock(Tail(b), r)

(* What a loop does after a turn: its flags are consumed, returns and errors are
   handed on. *)
Leaves(r) == r.exc # "none" \/ r.breakSignal \/ r.returned
Broken(r) == [r EXCEPT !.breakSignal = FALSE]
Continued(r) == [r EXCEPT !.continueSignal = FALSE]

While(st, s) ==
  IF ~Holds(s) THEN Ask(s)
  ELSE LET r == ExecBlock(st.body, Ask(s)) IN
       IF Leaves(r) THEN Broken(r) ELSE While(st, Continued(r))

For(st, s) ==
  IF ~Holds(s) THEN Ask(s)
  ELSE LET r == ExecBlock(st.body, Ask(s)) IN
       IF Leaves(r) THEN Broken(r)
       ELSE LET stepped == ExecBlock(st.step, Continued(r)) IN
            IF stepped.exc # "none" \/ stepped.returned THEN stepped ELSE For(st, stepped)

DoWhile(st, s) ==
  LET r == ExecBlock(st.body, s) IN
  IF Leaves(r) THEN Broken(r)
  ELSE IF Holds(r) THEN DoWhile(st, Ask(Continued(r))) ELSE Ask(Continued(r))

Repeat(st, i, s) ==
  IF i = StmLen THEN s
  ELSE LET r == ExecBlock(st.body, s) IN
       IF Leaves(r) THEN Broken(r) ELSE Repeat(st, i + 1, Continued(r))

(* for over a list: as many turns as it had elements, as long as they are there. *)
EachElement(st, i, count, s) ==
  IF i > count \/ i > Len(s.list) THEN s
  ELSE LET r == ExecBlock(st.body, Bind(s, "x", s.list[i])) IN
       IF Leaves(r) THEN Broken(r) ELSE EachElement(st, i + 1, count, Continued(r))

(* for over a dictionary: over a copy of its entries. *)
EachEntry(st, i, s) ==
  IF i > StmLen THEN s
  ELSE LET r == ExecBlock(st.body, Bind(s, "x", i)) IN
       IF Leaves(r) THEN Broken(r) ELSE EachEntry(st, i + 1, Continued(r))

TryCatch(st, s) ==
  LET r == ExecBlock(st.body, s) IN
  IF r.exc = "error" THEN ExecBlock(st.other, [r EXCEPT !.exc = "none"]) ELSE r

(* A break inside a switch or a match ends it and goes no further. *)
SwitchKeepingBreak(st, s) == ExecBlock(IF Holds(s) THEN st.body ELSE st.other, Ask(s))

Switch(st, s) == Broken(ExecBlock(IF Holds(s) THEN st.body ELSE st.other, Ask(s)))

(* A case that binds nothing runs in the environment of the match. *)
Match(st, s) == IF Holds(s) THEN Broken(ExecBlock(st.body, Ask(s))) ELSE [Ask(s) EXCEPT !.exc = "error"]

(* A case that binds runs in a copy, of which the names that were there before
   are written back; an error drops the copy. *)
MatchBinding(st, s) ==
  LET r == ExecBlock(st.body, Bind(Ask(s), StmBind, 5)) IN
  IF ~Holds(s) THEN [Ask(s) EXCEPT !.exc = "error"]
  ELSE IF r.exc = "error" THEN [r EXCEPT !.vars = s.vars]
  ELSE Broken([r EXCEPT !.vars = [n \in DOMAIN s.vars |-> r.vars[n]]])

ExecStmt(st, s) ==
  CASE st.k \in Simple -> Effect(st.k, s)
    [] st.k = "if" -> ExecBlock(IF Holds(s) THEN st.body ELSE st.other, Ask(s))
    [] st.k = "while" -> While(st, s)
    [] st.k = "for" -> LET r == ExecBlock(st.init, s) IN IF r.exc # "none" THEN r ELSE For(st, r)
    [] st.k = "doWhile" -> DoWhile(st, s)
    [] st.k = "repeat" -> Repeat(st, 0, s)
    [] st.k = "forList" -> EachElement(st, 1, Len(s.list), s)
    [] st.k = "forDict" -> EachEntry(st, 1, s)
    [] st.k = "tryCatch" -> TryCatch(st, s)
    [] st.k = "unsafe" -> ExecBlock(st.body, s)
    [] st.k = "fire" -> ExecBlock(st.body, s)
    [] st.k = "switch" -> Switch(st, s)
    [] st.k = "match" -> Match(st, s)
    [] st.k = "matchBinding" -> MatchBinding(st, s)

-----------------------------------------------------------------------------
(* The meaning of the statements: each ends in one way, "normal", "break",
   "continue", "return" or "error", and passes that on to the one around it. *)
RECURSIVE BlockMeans(_, _), Means(_, _), LoopMeans(_, _, _)
Ends(how, s) == [how |-> how, s |-> s]
Known(s) == [s EXCEPT !.exc = "none", !.returned = FALSE, !.breakSignal = FALSE, !.continueSignal = FALSE]

BlockMeans(b, s) ==
  IF b = <<>> THEN Ends("normal", s)
  ELSE LET m == Means(Head(b), s) IN
       IF m.how = "normal" THEN BlockMeans(Tail(b), m.s) ELSE m

(* How the turns of a loop begin and go on: whether there is one more, what it
   starts with, and what is done between two turns. *)
Turns(st, turn, s) ==
  CASE st.k \in {"while", "for"} -> [more |-> Holds(s), s |-> Ask(s)]
    [] st.k = "doWhile" -> [more |-> turn = 1 \/ Holds(s), s |-> IF turn = 1 THEN s ELSE Ask(s)]
    [] st.k = "repeat" -> [more |-> turn <= StmLen, s |-> s]
    [] st.k = "forList" ->
         LET more == turn <= st.count /\ turn <= Len(s.list) IN
         [more |-> more, s |-> IF more THEN Bind(s, "x", s.list[turn]) ELSE s]
    [] st.k = "forDict" ->
         [more |-> turn <= StmLen, s |-> IF turn <= StmLen THEN Bind(s, "x", turn) ELSE s]

LoopMeans(st, turn, s) ==
  LET t == Turns(st, turn, s) m == BlockMeans(st.body, t.s) IN
  IF ~t.more THEN Ends("normal", t.s)
  ELSE CASE m.how = "break" -> Ends("normal", m.s)
         [] m.how \in {"normal", "continue"} ->
              LET step == IF st.k = "for" THEN BlockMeans(st.step, m.s) ELSE Ends("normal", m.s) IN
              IF step.how = "normal" THEN LoopMeans(st, turn + 1, step.s) ELSE step
         [] OTHER -> m

Unbroken(m) == IF m.how = "break" THEN Ends("normal", m.s) ELSE m
Restored(m, s) ==
  Ends(m.how, [m.s EXCEPT !.vars =
    [n \in DOMAIN s.vars |-> IF n = StmBind \/ m.how = "error" THEN s.vars[n] ELSE m.s.vars[n]]])

Means(st, s) ==
  CASE st.k \in {"return", "propagate"} -> Ends("return", s)
    [] st.k = "throw" -> Ends("error", s)
    [] st.k \in {"break", "continue"} -> Ends(st.k, s)
    [] st.k \in Simple \ {"return", "propagate", "throw", "break", "continue"} -> Ends("normal", Effect(st.k, s))
    [] st.k = "if" -> BlockMeans(IF Holds(s) THEN st.body ELSE st.other, Ask(s))
    [] st.k = "for" ->
         LET m == BlockMeans(st.init, s) IN IF m.how = "normal" THEN LoopMeans(st, 1, m.s) ELSE m
    [] st.k \in {"while", "doWhile", "repeat", "forDict"} -> LoopMeans(st, 1, s)
    [] st.k = "forList" -> LoopMeans([count |-> Len(s.list)] @@ st, 1, s)
    [] st.k = "tryCatch" ->
         LET m == BlockMeans(st.body, s) IN IF m.how = "error" THEN BlockMeans(st.other, m.s) ELSE m
    [] st.k \in {"unsafe", "fire"} -> BlockMeans(st.body, s)
    [] st.k = "switch" -> Unbroken(BlockMeans(IF Holds(s) THEN st.body ELSE st.other, Ask(s)))
    [] st.k = "match" ->
         IF Holds(s) THEN Unbroken(BlockMeans(st.body, Ask(s))) ELSE Ends("error", Ask(s))
    [] st.k = "matchBinding" ->
         IF Holds(s) THEN Unbroken(Restored(BlockMeans(st.body, Bind(Ask(s), StmBind, 5)), s))
         ELSE Ends("error", Ask(s))

-----------------------------------------------------------------------------
(* Bodies: compounds within compounds around every simple statement. *)
Compound == {"if", "while", "for", "doWhile", "repeat", "forList", "forDict", "tryCatch", "unsafe",
             "fire", "switch", "match", "matchBinding"}
Leaf(k) == [k |-> k]
Around(k, b) ==
  [k |-> k, body |-> b, other |-> <<Leaf("set")>>, init |-> <<Leaf(StmInit)>>, step |-> <<Leaf("set")>>]

NotRun == [how |-> "not run"]
StmIdle == stmBody = <<>> /\ stmEnd = NotRun
StmBegin ==
  /\ stmEnd = NotRun
  /\ \E outer, inner \in Compound, a, b \in Simple :
       stmBody = <<Around(outer, <<Around(inner, <<Leaf(a), Leaf("set")>>), Leaf(b), Leaf("say")>>), Leaf("say")>>

(* How the call of an action sees the end of its body. *)
Outcome(s) ==
  CASE s.exc = "error" -> "error"
    [] s.returned -> "return"
    [] s.breakSignal -> "break"
    [] s.continueSignal -> "continue"
    [] OTHER -> "normal"

RunBody ==
  /\ stmEnd = NotRun
  /\ LET s == ExecBlock(stmBody, Start) IN stmEnd' = [how |-> Outcome(s), s |-> Known(s)]
  /\ UNCHANGED stmBody

StmSpec == StmBegin /\ [][RunBody]_stmVars

-----------------------------------------------------------------------------
(* However statements are nested, the flags and exceptions make a body do what
   its statements mean: no jump is lost, none is seen twice, none leaves a loop,
   a switch or a match that it does not belong to. *)
FlagsMeanJumps == stmEnd # NotRun => stmEnd = BlockMeans(stmBody, Start)
=============================================================================
