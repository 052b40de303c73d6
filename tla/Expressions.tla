---------------------------- MODULE Expressions -----------------------------
(* Numbers and operators: what the evaluator computes (apply_binary), what the
   optimizer folds before the run, and what the machine for simple for loops
   does with the bytecode that stands for the same expressions.  Integers have
   ExpBits bits where the code has 64; floats and text are left out but for
   literals that only travel. *)
EXTENDS Integers, Sequences, SequencesExt, Bitwise

CONSTANTS ExpBits,  \* width of an integer
          ExpDepth, \* bound: operators nested in an expression
          ExpTexts, \* string literals a loop may assign
          ExpTurns  \* bound: rounds of a loop

ASSUME ExpAssumption == ExpBits \in Nat \ {0} /\ ExpDepth \in Nat /\ ExpTurns \in Nat

VARIABLES expTree, \* the expression under consideration
          expLoop, \* the for loop the machine runs
          expVm    \* the machine: instruction, stack, variables, how it ended

expVars == <<expTree, expLoop, expVm>>

MinInt == -(2 ^ (ExpBits - 1))
MaxInt == 2 ^ (ExpBits - 1) - 1
Unsigned(n) == n % (2 ^ ExpBits)
Wrap(n) == IF Unsigned(n) > MaxInt THEN Unsigned(n) - 2 ^ ExpBits ELSE Unsigned(n)
Sign(n) == IF n < 0 THEN -1 ELSE 1
Magnitude(n) == IF n < 0 THEN -n ELSE n
Quotient(a, b) == Sign(a) * Sign(b) * (Magnitude(a) \div Magnitude(b))
Remainder(a, b) == a - b * Quotient(a, b)

IntVal(n) == [k |-> "int", n |-> n]
BoolVal(b) == [k |-> "bool", n |-> IF b THEN 1 ELSE 0]
NoValue == [k |-> "null", n |-> 0]
TextVal(t) == [k |-> "text", t |-> t]
Threw(why) == [k |-> "throw", why |-> why]
Failed(v) == v.k = "throw"
Truthy(v) == IF v.k = "text" THEN TRUE ELSE v.n # 0
AsInt(v) == IF v.k = "text" THEN 0 ELSE v.n
Numeric(v) == v.k \in {"int", "bool"}

Lit(v) == [e |-> "lit", v |-> v]
Var(x) == [e |-> "var", x |-> x]
Un(op, x) == [e |-> "un", op |-> op, x |-> x]
Bin(op, l, r) == [e |-> "bin", op |-> op, l |-> l, r |-> r]
Num(n) == Lit(IntVal(n))

Arithmetic == {"+", "-", "*", "/", "mod", "pow"}
Bits == {"&", "|", "^", "<<", ">>"}
Orders == {"<", "<=", ">", ">="}
Equalities == {"==", "!=", "===", "!=="}
Connectives == {"&&", "||", "??"}
BinOps == Arithmetic \cup Bits \cup Orders \cup Equalities \cup Connectives
UnOps == {"neg", "not", "inv"}

-----------------------------------------------------------------------------
(* apply_binary and apply_unary: both operands have been evaluated. *)

PowWrapped[a \in Int, b \in Nat] == IF b = 0 THEN 1 ELSE Wrap(PowWrapped[a, b - 1] * a)

Bitwise2(op, a, b) ==
  LET x == Unsigned(a)
      y == Unsigned(b)
  IN Wrap(CASE op = "&" -> x & y [] op = "|" -> x | y [] op = "^" -> x ^^ y)

ApplyInts(op, a, b) ==
  CASE op = "-" -> IntVal(Wrap(a - b))
    [] op = "*" -> IntVal(Wrap(a * b))
    [] op = "/" -> IF b = 0 THEN Threw("Division by zero")
                   ELSE IntVal(IF b = -1 THEN Wrap(-a) ELSE Quotient(a, b))
    [] op = "mod" -> IF b = 0 THEN Threw("Modulo by zero")
                     ELSE IntVal(IF b = -1 THEN 0 ELSE Remainder(a, b))
    [] op = "pow" -> IF b < 0 THEN IntVal(0)
                     ELSE IF b > ExpBits - 2 THEN Threw("Exponent too large")
                     ELSE IntVal(PowWrapped[a, b])
    [] op \in {"&", "|", "^"} -> IntVal(Bitwise2(op, a, b))
    [] op \in {"<<", ">>"} ->
         IF b < 0 \/ b >= ExpBits THEN Threw("Shift amount out of range")
         ELSE IntVal(IF op = "<<" THEN Wrap(a * 2 ^ b) ELSE a \div (2 ^ b))

(* Values of different kinds are equal only as numbers.  The order of values
   that are not numbers, that of their texts, is left out. *)
Equal(l, r) == IF Numeric(l) /\ Numeric(r) THEN AsInt(l) = AsInt(r) ELSE l = r
Ordered(op, a, b) ==
  CASE op = "<" -> a < b [] op = "<=" -> a <= b [] op = ">" -> a > b [] op = ">=" -> a >= b

(* What is not a number is joined as text. *)
Add(l, r) == IF Numeric(l) /\ Numeric(r) THEN IntVal(Wrap(AsInt(l) + AsInt(r)))
             ELSE TextVal(<<l, r>>)

ApplyBinary(op, l, r) ==
  CASE op = "&&" -> BoolVal(Truthy(l) /\ Truthy(r))
    [] op = "||" -> BoolVal(Truthy(l) \/ Truthy(r))
    [] op = "??" -> IF l = NoValue THEN r ELSE l
    [] op = "==" -> BoolVal(Equal(l, r))
    [] op = "!=" -> BoolVal(~Equal(l, r))
    [] op = "===" -> BoolVal(l.k = r.k /\ Equal(l, r))
    [] op = "!==" -> BoolVal(~(l.k = r.k /\ Equal(l, r)))
    [] op = "+" -> Add(l, r)
    [] op \in Orders -> BoolVal(Ordered(op, AsInt(l), AsInt(r)))
    [] OTHER -> ApplyInts(op, AsInt(l), AsInt(r))

ApplyUnary(op, v) ==
  CASE op = "neg" -> IntVal(Wrap(-AsInt(v)))
    [] op = "not" -> BoolVal(~Truthy(v))
    [] op = "inv" -> IntVal(-AsInt(v) - 1)

(* eval_value: left, then right, whatever the operator; the first throw wins. *)
RECURSIVE Eval(_, _)
Eval(e, env) ==
  CASE e.e = "lit" -> e.v
    [] e.e = "var" -> env[e.x]
    [] e.e = "un" -> LET v == Eval(e.x, env) IN IF Failed(v) THEN v ELSE ApplyUnary(e.op, v)
    [] e.e = "bin" ->
         LET l == Eval(e.l, env)
             r == Eval(e.r, env)
         IN IF Failed(l) THEN l ELSE IF Failed(r) THEN r ELSE ApplyBinary(e.op, l, r)

-----------------------------------------------------------------------------
(* The optimizer. *)

InRange(n) == n \in MinInt..MaxInt
IsNumber(e) == e.e = "lit" /\ e.v.k = "int"
NotFolded == [folded |-> FALSE, n |-> 0]
FoldsTo(n) == [folded |-> TRUE, n |-> n]
Checked(n) == IF InRange(n) THEN FoldsTo(n) ELSE NotFolded

Power(a, b) == IF b = 0 THEN 1 ELSE a ^ b
FoldPow(a, b) ==
  IF b < 0 \/ b > ExpBits - 2 \/ \E i \in 0..b : ~InRange(Power(a, i)) THEN NotFolded
  ELSE FoldsTo(Power(a, b))
FoldDivUnguarded(op, a, b) ==
  FoldsTo(IF b = 0 THEN 0 ELSE IF op = "/" THEN Quotient(a, b) ELSE Remainder(a, b))
FoldDiv(op, a, b) ==
  IF b = 0 \/ (a = MinInt /\ b = -1) THEN NotFolded
  ELSE FoldsTo(IF op = "/" THEN Quotient(a, b) ELSE Remainder(a, b))

FoldInts(op, a, b) ==
  CASE op = "+" -> Checked(a + b)
    [] op = "-" -> Checked(a - b)
    [] op = "*" -> Checked(a * b)
    [] op \in {"/", "mod"} -> FoldDiv(op, a, b)
    [] op = "pow" -> FoldPow(a, b)
    [] op \in {"&", "|", "^"} -> FoldsTo(Bitwise2(op, a, b))
    [] op \in {"<<", ">>"} ->
         IF b < 0 \/ b >= ExpBits THEN NotFolded
         ELSE FoldsTo(IF op = "<<" THEN Wrap(a * 2 ^ b) ELSE a \div (2 ^ b))
    [] OTHER -> NotFolded

RECURSIVE Fold(_)
Fold(e) ==
  CASE e.e = "bin" ->
         LET l == Fold(e.l)
             r == Fold(e.r)
             f == IF IsNumber(l) /\ IsNumber(r) THEN FoldInts(e.op, l.v.n, r.v.n) ELSE NotFolded
         IN IF f.folded THEN Num(f.n) ELSE Bin(e.op, l, r)
    [] e.e = "un" ->
         LET x == Fold(e.x)
         IN IF ~IsNumber(x) \/ e.op = "not" \/ (e.op = "neg" /\ x.v.n = MinInt) THEN Un(e.op, x)
            ELSE Num(IF e.op = "neg" THEN -x.v.n ELSE -x.v.n - 1)
    [] OTHER -> e

-----------------------------------------------------------------------------
(* try_compile_for_loop: condition, assignments, step; one instruction is one
   element, and a jump is relative to the instruction after it. *)

RECURSIVE Compilable(_)
Compilable(e) ==
  CASE e.e = "un" -> Compilable(e.x)
    [] e.e = "bin" -> e.op \notin {"+", "-", "*", "/", "==", "!="} /\ Compilable(e.l) /\ Compilable(e.r)
    [] OTHER -> TRUE

RECURSIVE Code(_)
Code(e) ==
  CASE e.e = "lit" -> <<[op |-> "const", v |-> e.v]>>
    [] e.e = "var" -> <<[op |-> "load", x |-> e.x]>>
    [] e.e = "un" -> Append(Code(e.x), [op |-> "un", f |-> e.op])
    [] e.e = "bin" -> Code(e.l) \o Code(e.r) \o <<[op |-> "bin", f |-> e.op]>>

Store(x) == <<[op |-> "store", x |-> x]>>
StepCode(step) ==
  IF step.s = "set" THEN Code(step.e) \o Store(step.x)
  ELSE Code(Var(step.x)) \o Code(Num(1))
         \o <<[op |-> "bin", f |-> IF step.s = "inc" THEN "+" ELSE "-"]>> \o Store(step.x)

ExitAfterOneLess(rest) == Len(rest)
ExitAfter(rest) == Len(rest) + 1
LoopCode(loop) ==
  LET cond == Code(loop.cond)
      rest == FlattenSeq([i \in DOMAIN loop.body |-> Code(loop.body[i].e) \o Store(loop.body[i].x)])
                \o StepCode(loop.step)
  IN  cond \o <<[op |-> "jumpIfFalse", rel |-> ExitAfter(rest)]>> \o rest
        \o <<[op |-> "jump", rel |-> -(Len(cond) + Len(rest) + 2)], [op |-> "return"]>>

(* run_chunk, one instruction at a time. *)
Interpolates(t, env) == IF t = "{i}" THEN env["i"] ELSE TextVal(t)
Push1(vm, v) == [vm EXCEPT !.ip = @ + 1, !.stack = Append(@, v)]
Top1(vm) == Last(vm.stack)
Replace(vm, n, v) ==
  IF Failed(v) THEN [vm EXCEPT !.end = v.why]
  ELSE [vm EXCEPT !.ip = @ + 1, !.stack = Append(SubSeq(@, 1, Len(@) - n), v)]

Execute(vm, i) ==
  CASE i.op = "const" -> Push1(vm, i.v)
    [] i.op = "load" -> Push1(vm, vm.env[i.x])
    [] i.op = "un" -> Replace(vm, 1, ApplyUnary(i.f, Top1(vm)))
    [] i.op = "bin" -> Replace(vm, 2, ApplyBinary(i.f, vm.stack[Len(vm.stack) - 1], Top1(vm)))
    [] i.op = "store" -> [vm EXCEPT !.ip = @ + 1, !.stack = Front(@), !.env[i.x] = Top1(vm)]
    [] i.op = "jumpIfFalse" ->
         [vm EXCEPT !.stack = Front(@), !.ip = @ + 1 + (IF Truthy(Top1(vm)) THEN 0 ELSE i.rel)]
    [] i.op = "jump" -> [vm EXCEPT !.ip = @ + 1 + i.rel, !.turns = @ + 1]
    [] i.op = "return" -> [vm EXCEPT !.end = "return"]

(* The statements as exec_stmt runs them: the text of a literal is scanned for
   {expr} wherever it is evaluated. *)
EvalSet(e, env) == IF e.e = "lit" /\ e.v.k = "text" THEN Interpolates(e.v.t, env) ELSE Eval(e, env)
Assign(st, x, v) == IF Failed(v) THEN [st EXCEPT !.end = v.why] ELSE [st EXCEPT !.env[x] = v]
DoStep(st, step) ==
  IF step.s = "set" THEN Assign(st, step.x, EvalSet(step.e, st.env))
  ELSE Assign(st, step.x, IntVal(Wrap(AsInt(st.env[step.x]) + (IF step.s = "inc" THEN 1 ELSE -1))))

Interpreted(loop, env, rounds) ==
  LET Body(st) == FoldLeft(LAMBDA now, b : IF now.end # "runs" THEN now
                                            ELSE Assign(now, b.x, EvalSet(b.e, now.env)),
                           st, loop.body)
      Round(st, n) ==
        LET c == EvalSet(loop.cond, st.env)
            after == Body(st)
        IN CASE st.end # "runs" -> st
             [] Failed(c) -> [st EXCEPT !.end = c.why]
             [] ~Truthy(c) -> [st EXCEPT !.end = "return"]
             [] after.end # "runs" -> after
             [] OTHER -> DoStep(after, loop.step)
  IN FoldLeft(Round, [env |-> env, end |-> "runs"], [n \in 1..rounds |-> n])

-----------------------------------------------------------------------------
(* The inputs: expressions grow by one operator, loops are picked. *)

Leaves == {Num(n) : n \in {MinInt, -1, 0, 2}} \cup {Var("i")}
RECURSIVE Nesting(_)
Nesting(e) == CASE e.e = "bin" -> 1 + Nesting(e.l) + Nesting(e.r) [] e.e = "un" -> 1 + Nesting(e.x) [] OTHER -> 0
Env0(n) == [x \in {"i", "v"} |-> IF x = "i" THEN IntVal(n) ELSE NoValue]

Bounds == {Bin(op, Var("i"), Num(n)) : op \in {"<", "<=", "!=="}, n \in {0, 2}}
Assigned == {Bin(op, Var("i"), Num(n)) : op \in {"mod", "pow", "<<", "^", "??", "||", "===", "+"}, n \in {-1, 0, 2}}
              \cup {Un(op, Var("v")) : op \in UnOps} \cup {Lit(TextVal(t)) : t \in ExpTexts}
Steps == {[s |-> "inc", x |-> "i"], [s |-> "dec", x |-> "i"], [s |-> "set", x |-> "i", e |-> Un("inv", Var("i"))]}
Loops == {l \in {[cond |-> c, body |-> <<[x |-> "v", e |-> a]>>, step |-> s] :
                   c \in Bounds, a \in Assigned, s \in Steps} :
            Compilable(l.cond) /\ Compilable(l.body[1].e)}
Machine(n) == [ip |-> 1, stack |-> <<>>, env |-> Env0(n), turns |-> 0, end |-> "runs", from |-> n]

Grow ==
  /\ Nesting(expTree) < ExpDepth
  /\ \E leaf \in Leaves, op \in BinOps, u \in UnOps :
       expTree' \in {Un(u, expTree), Bin(op, expTree, leaf), Bin(op, leaf, expTree)}
  /\ UNCHANGED <<expLoop, expVm>>

Instruction ==
  /\ expVm.end = "runs" /\ expVm.turns <= ExpTurns
  /\ expVm' = Execute(expVm, LoopCode(expLoop)[expVm.ip])
  /\ UNCHANGED <<expTree, expLoop>>

ExpIdle ==
  /\ expTree = Num(0)
  /\ expLoop = CHOOSE l \in Loops : TRUE
  /\ expVm = [Machine(0) EXCEPT !.end = "idle"]
ExpInit ==
  \/ /\ expTree \in Leaves
     /\ expLoop = CHOOSE l \in Loops : TRUE
     /\ expVm = [Machine(0) EXCEPT !.end = "idle"]
  \/ /\ expTree = Num(0)
     /\ expLoop \in Loops
     /\ \E n \in {-1, 0} : expVm = Machine(n)
ExpNext == (expVm.end = "idle" /\ Grow) \/ Instruction
ExpSpec == ExpInit /\ [][ExpNext]_expVars

-----------------------------------------------------------------------------
(* A folded expression means what it meant: the same value or the same throw,
   at the limits of the integers, for every operator and nesting. *)
FoldPreserves ==
  expVm.end = "idle" =>
    \A n \in {MinInt, 0, MaxInt} : Eval(Fold(expTree), Env0(n)) = Eval(expTree, Env0(n))

(* The machine and the interpreter run one loop: whenever the machine is at the
   top of the loop or has stopped, its variables are those of the interpreted
   loop after as many rounds, it has stopped for the same reason, and nothing
   is left on its stack.  src/runtime/eval.cpp:290, "`{expr}` interpolates in
   every string literal". *)
CompiledLoopAgrees ==
  LET After(rounds) == Interpreted(expLoop, Env0(expVm.from), rounds)
      same(st) == st.env = expVm.env /\ st.end = expVm.end
  IN  /\ expVm.ip = 1 /\ expVm.end = "runs" => expVm.stack = <<>> /\ same(After(expVm.turns))
      /\ expVm.end \notin {"runs", "idle"} => same(After(expVm.turns + 1))
=============================================================================
