------------------------------- MODULE MiniIr -------------------------------
(***************************************************************************)
(* The machine for the self-hosted compiler (src/runtime/mini_ir_vm.cpp):  *)
(* it reads a module from its text, then runs it.  The texts are those     *)
(* that compiler/codegen.elan writes; Emit... below is its translation.    *)
(* A number and a reference share one 64-bit word: what is below zero is a *)
(* handle.  A string is a sequence of symbols, each standing for some      *)
(* characters: a letter, a digit, a name without dots or commas.           *)
(***************************************************************************)
EXTENDS Integers, SequencesExt

CONSTANTS MirMax,    \* bound: the numbers in the programs
          MirGuard   \* bound: instructions of one activation (kGuard)

VARIABLES mirPick,   \* the program whose text is given to run_text
          mirMod,    \* what parse_module made of it
          mirFrames, \* activations of run_code, the innermost last
          mirHeap,   \* VmState::heap
          mirFiles,  \* the files that fs.* sees
          mirOut,    \* what has been printed
          mirEnd     \* "new", "running", "ok" or the error

mirVars == <<mirPick, mirMod, mirFrames, mirHeap, mirFiles, mirOut, mirEnd>>

-----------------------------------------------------------------------------
(* Texts of modules: words, numbers, "len:" with the symbols it counts, ends of line. *)

Sym(k, w, n) == [k |-> k, w |-> w, n |-> n]
Word(w) == Sym("word", w, 0)
Number(n) == Sym("int", "", n)
EOL == Sym("eol", "", 0)
Counted(s) == <<Sym("len", "", Len(s))>> \o [i \in DOMAIN s |-> Sym("chr", s[i], 0)]

\* Operands of each instruction: a number, a string.
WithNumber == {"CONST", "LOAD", "STORE", "LABEL", "JUMP", "JUMP_IF_FALSE", "CALL", "MK_ENUM",
               "JUMP_IF_NOT_VARIANT", "GET_PAYLOAD"}
WithString == {"CONST_STR", "CALL", "MK_ENUM", "MK_STRUCT", "GET_FIELD", "SET_FIELD", "JUMP_IF_NOT_VARIANT"}
Plain == {"ADD", "SUB", "MUL", "DIV", "CMP_EQ", "CMP_NE", "CMP_LT", "PRINT", "PRINT_STR", "POP", "RETURN"}

Ins(op, n, s) == [op |-> op, n |-> n, s |-> s]

RECURSIVE skip_blank_and_comments(_, _), parse_lines(_, _)

Kind(t, i) == IF i > Len(t) THEN "eof" ELSE t[i].k
LineEnd(t, i) == SelectInSubSeq(t, i, Len(t), LAMBDA x : x.k = "eol")
skip_blank_and_comments(t, i) ==
  CASE Kind(t, i) = "eol" -> skip_blank_and_comments(t, i + 1)
    [] Kind(t, i) = "hash" ->
         IF LineEnd(t, i) = 0 THEN Len(t) + 1 ELSE skip_blank_and_comments(t, LineEnd(t, i) + 1)
    [] OTHER -> i

\* A counted string ends where its count says, whatever its symbols are.
read_len_str(t, i) ==
  IF Kind(t, i) = "len" /\ i + t[i].n <= Len(t)
    THEN [ok |-> TRUE, s |-> [j \in 1..t[i].n |-> t[i + j].w], next |-> i + t[i].n + 1]
    ELSE [ok |-> FALSE, s |-> <<>>, next |-> i]

expect_eol(t, i) == IF Kind(t, i) = "eol" THEN i + 1 ELSE i

\* One instruction, its word and number read, its string at the position it says.
Instr(t, i, op, n, str) ==
  IF str.ok THEN [ok |-> TRUE, next |-> expect_eol(t, str.next), ins |-> Ins(op, n, str.s)]
            ELSE [ok |-> FALSE, next |-> i, ins |-> Ins("RETURN", 0, <<>>)]
Operand(t, op, at) == IF op \in WithString THEN read_len_str(t, at) ELSE [ok |-> TRUE, s |-> <<>>, next |-> at]
Failed == [ok |-> FALSE, s |-> <<>>, next |-> 0]
parse_instr(t, i) ==
  CASE Kind(t, i) # "word" \/ t[i].w \notin WithNumber \cup WithString \cup Plain -> Instr(t, i, "", 0, Failed)
    [] Kind(t, i) = "word" /\ t[i].w \in WithNumber ->
         IF Kind(t, i + 1) = "int" THEN Instr(t, i, t[i].w, t[i + 1].n, Operand(t, t[i].w, i + 2))
                                   ELSE Instr(t, i, "", 0, Failed)
    [] OTHER -> Instr(t, i, t[i].w, 0, Operand(t, t[i].w, i + 1))

\* The last of several labels of one number counts; labels nobody placed lead to the start.
build_labels(code) ==
  LET placed == {i \in DOMAIN code : code[i].op = "LABEL"}
      highest == Max({code[i].n : i \in placed} \cup {-1})
  IN [n \in 0..highest |-> Max({i \in placed : code[i].n = n} \cup {1})]

NoBlock == [head |-> "", name |-> <<>>, code |-> <<>>]
NoModule == [entry |-> <<>>, labels |-> <<>>, funcs |-> <<>>, saw |-> FALSE, error |-> "", block |-> NoBlock]

\* What one line makes of the module, and where the next one begins; 0 when all is said.
After(mod, i) == [mod |-> mod, next |-> i]
Broken(mod, why) == After([mod EXCEPT !.error = why], 0)

\* parse_code_block is over at a directive or at the end: the block joins the module.
AddBlock(mod) ==
  LET b == mod.block
      m == [mod EXCEPT !.block = NoBlock]
  IN CASE b.head = ".entry" -> [m EXCEPT !.entry = b.code, !.labels = build_labels(b.code), !.saw = TRUE]
       [] b.head = ".func" -> [m EXCEPT !.funcs = Append(@, [name |-> b.name, code |-> b.code, labels |-> build_labels(b.code)])]
       [] OTHER -> m
parse_code_block(t, mod, one) ==
  IF one.ok THEN After([mod EXCEPT !.block.code = Append(@, one.ins)], one.next) ELSE Broken(mod, "bad instruction")

\* .entry and .func name params locals, each followed by its code.
Section(t, i) ==
  IF t[i].w = ".entry" THEN [ok |-> TRUE, s |-> <<>>, next |-> i + 1]
  ELSE LET name == read_len_str(t, i + 1) IN
       [name EXCEPT !.ok = @ /\ \A j \in 0..1 : Kind(t, name.next + j) = "int", !.next = @ + 2]
Opens(t, mod, head, name) ==
  IF name.ok THEN After([mod EXCEPT !.block = [NoBlock EXCEPT !.head = head, !.name = name.s]], expect_eol(t, name.next))
             ELSE Broken(mod, "bad header")
directive(t, i, mod) ==
  CASE t[i].w \in {".locals", ".labels"} ->
         IF Kind(t, i + 1) = "int" THEN After(mod, expect_eol(t, i + 2)) ELSE Broken(mod, "bad header")
    [] t[i].w \in {".entry", ".func"} -> Opens(t, mod, t[i].w, Section(t, i))
    [] OTHER -> Broken(mod, "unexpected content")
parse_module(t, i, mod) ==
  CASE Kind(t, i) = "eof" -> IF AddBlock(mod).saw THEN After(AddBlock(mod), 0) ELSE Broken(mod, "missing .entry")
    [] Kind(t, i) = "dot" -> directive(t, i, AddBlock(mod))
    [] Kind(t, i) \notin {"eof", "dot"} /\ mod.block # NoBlock -> parse_code_block(t, mod, parse_instr(t, i))
    [] OTHER -> Broken(mod, "unexpected content")
parse_lines(t, r) ==
  IF r.next = 0 THEN r.mod ELSE parse_lines(t, parse_module(t, skip_blank_and_comments(t, r.next), r.mod))

-----------------------------------------------------------------------------
(* Programs, and the compiler that writes the texts (compiler/codegen.elan). *)

IntLit(n) == [k |-> "int", n |-> n]
StringLit(s) == [k |-> "text", s |-> s]
Name(x) == [k |-> "name", x |-> x]
Unary(op, a) == [k |-> op, a |-> a]
BinOp(op, a, b) == [k |-> "bin", op |-> op, a |-> a, b |-> b]
Assigned(x, a) == [k |-> "set", x |-> x, a |-> a]
CallOf(f, args) == [k |-> "call", f |-> f, args |-> args]
Member(a, field) == [k |-> "member", a |-> a, x |-> field]

Let(x, e) == [k |-> "let", x |-> x, e |-> e]
VarDecl(fields, x) == [k |-> "var", x |-> x, fields |-> fields]
AssignStmt(x, e) == [k |-> "assign", x |-> x, e |-> e]
FieldAssign(a, field, e) == [k |-> "field", a |-> a, x |-> field, e |-> e]
ExprStmt(e) == [k |-> "expr", e |-> e]
Show(e) == [k |-> "print", e |-> e]
Back(e) == [k |-> "return", e |-> e]
If(c, a, b) == [k |-> "if", c |-> c, a |-> a, b |-> b]
While(c, a) == [k |-> "while", c |-> c, a |-> a]
Match(e, arms) == [k |-> "match", e |-> e, arms |-> arms]
Arm(tag, binds, body) == [tag |-> tag, binds |-> binds, body |-> body]

Operators == [add |-> "ADD", sub |-> "SUB", mul |-> "MUL", div |-> "DIV", eq |-> "CMP_EQ", ne |-> "CMP_NE",
              lt |-> "CMP_LT", and |-> "MUL", or |-> "ADD"]

\* EmitState.
Fresh == [code |-> <<>>, scope |-> <<>>, local |-> 0, label |-> 0]
Emit(st, op, n, s) == [st EXCEPT !.code = Append(@, Ins(op, n, s))]
Bind(st, x) == [st EXCEPT !.scope = Append(@, [x |-> x, id |-> st.local]), !.local = @ + 1]
emit_scope_lookup(st, x) ==
  LET i == SelectLastInSeq(st.scope, LAMBDA b : b.x = x) IN IF i = 0 THEN -1 ELSE st.scope[i].id

Expressions == {"int", "text", "name", "neg", "not", "bin", "set", "call", "member"}

RECURSIVE emit(_, _)   \* emit_expr or emit_stmt
emit_args(args, st) == FoldLeft(LAMBDA s, e : emit(e, s), st, args)
emit_stmt_list(xs, st) == FoldLeft(LAMBDA s, x : emit(x, s), st, xs)
EmitSet(s, id) == Emit(Emit(s, "STORE", id, <<>>), "LOAD", id, <<>>)
emit_expr(e, st) ==
  CASE e.k = "int" -> Emit(st, "CONST", e.n, <<>>)
    [] e.k = "text" -> Emit(st, "CONST_STR", 0, e.s)
    [] e.k = "name" -> Emit(st, "LOAD", emit_scope_lookup(st, e.x), <<>>)
    [] e.k = "neg" -> Emit(emit(e.a, Emit(st, "CONST", 0, <<>>)), "SUB", 0, <<>>)
    [] e.k = "not" -> Emit(Emit(emit(e.a, st), "CONST", 0, <<>>), "CMP_EQ", 0, <<>>)
    [] e.k = "bin" -> Emit(emit(e.b, emit(e.a, st)), Operators[e.op], 0, <<>>)
    [] e.k = "set" -> EmitSet(emit(e.a, st), emit_scope_lookup(st, e.x))
    [] e.k = "call" -> Emit(emit_args(e.args, st), "CALL", Len(e.args), e.f)
    [] e.k = "member" /\ e.a.k = "name" /\ emit_scope_lookup(st, e.a.x) < 0 -> Emit(st, "MK_ENUM", 0, <<e.x>>)
    [] OTHER -> Emit(emit(e.a, st), "GET_FIELD", 0, <<e.x>>)

emit_arm_binds(binds, st) ==
  FoldLeft(LAMBDA s, i : Emit(Bind(Emit(s, "GET_PAYLOAD", i - 1, <<>>), binds[i]), "STORE", s.local, <<>>),
           st, [i \in DOMAIN binds |-> i])
\* An arm: test, bindings, the value off the stack, the body, to the end.
EmitArm(arm, end, st) ==
  LET bound == emit_arm_binds(arm.binds, Emit([st EXCEPT !.label = @ + 1], "JUMP_IF_NOT_VARIANT", st.label, <<arm.tag>>))
  IN Emit(Emit(emit_stmt_list(arm.body, Emit(bound, "POP", 0, <<>>)), "JUMP", end, <<>>), "LABEL", st.label, <<>>)
emit_match_arms(arms, end, st) == Emit(FoldLeft(LAMBDA s, arm : EmitArm(arm, end, s), st, arms), "POP", 0, <<>>)

EmitLet(x, s) == Emit(Bind(s, x), "STORE", s.local, <<>>)
EmitIf(s, c) ==
  LET s1 == emit_stmt_list(s.a, Emit([c EXCEPT !.label = @ + 2], "JUMP_IF_FALSE", c.label, <<>>))
      s2 == Emit(Emit(s1, "JUMP", c.label + 1, <<>>), "LABEL", c.label, <<>>)
  IN Emit(emit_stmt_list(s.b, s2), "LABEL", c.label + 1, <<>>)
EmitWhile(s, st) ==
  LET c == emit(s.c, Emit([st EXCEPT !.label = @ + 2], "LABEL", st.label, <<>>))
      done == emit_stmt_list(s.a, Emit(c, "JUMP_IF_FALSE", st.label + 1, <<>>))
  IN Emit(Emit(done, "JUMP", st.label, <<>>), "LABEL", st.label + 1, <<>>)
EmitMatch(arms, s) == Emit(emit_match_arms(arms, s.label, [s EXCEPT !.label = @ + 1]), "LABEL", s.label, <<>>)
emit_stmt(s, st) ==
  CASE s.k = "let" -> EmitLet(s.x, emit(s.e, st))
    [] s.k = "var" -> EmitLet(s.x, Emit(st, "MK_STRUCT", 0, s.fields))
    [] s.k = "assign" -> Emit(emit(s.e, st), "STORE", emit_scope_lookup(st, s.x), <<>>)
    [] s.k = "field" -> Emit(emit(s.e, emit(s.a, st)), "SET_FIELD", 0, <<s.x>>)
    [] s.k = "expr" -> Emit(emit(s.e, st), "POP", 0, <<>>)
    [] s.k = "print" -> Emit(emit(s.e, st), IF s.e.k = "text" THEN "PRINT_STR" ELSE "PRINT", 0, <<>>)
    [] s.k = "return" -> Emit(emit(s.e, st), "RETURN", 0, <<>>)
    [] s.k = "if" -> EmitIf(s, emit(s.c, st))
    [] s.k = "while" -> EmitWhile(s, st)
    [] OTHER -> EmitMatch(s.arms, emit(s.e, st))
\* (st is looked at first: a list then costs TLC no depth.)
emit(x, st) ==
  CASE st.label >= 0 /\ x.k \in Expressions -> emit_expr(x, st)
    [] st.label >= 0 /\ x.k \notin Expressions -> emit_stmt(x, st)

\* The body of a function ends in RETURN, with one added where it does not.
Returning(st) == IF st.code # <<>> /\ Last(st.code).op = "RETURN" THEN st ELSE Emit(st, "RETURN", 0, <<>>)
lower_action(f) == Returning(emit_stmt_list(f.body, FoldLeft(Bind, Fresh, f.params)))
lower(body) == Emit(emit_stmt_list(body, Fresh), "RETURN", 0, <<>>)

instr_emit(i) ==
  <<Word(i.op)>> \o (IF i.op \in WithNumber THEN <<Number(i.n)>> ELSE <<>>)
                 \o (IF i.op \in WithString THEN Counted(i.s) ELSE <<>>) \o <<EOL>>
append_ir_code(code) == FlattenSeq([i \in DOMAIN code |-> instr_emit(code[i])])
Directive(w) == Sym("dot", w, 0)
FunctionText(f, st) ==
  <<Directive(".func")>> \o Counted(f.name) \o <<Number(Len(f.params)), Number(st.local), EOL>> \o append_ir_code(st.code)
EntryText(st) ==
  <<Sym("hash", "#", 0), Word("mini-ir"), Word("v1"), EOL, Directive(".locals"), Number(st.local), EOL,
    Directive(".labels"), Number(st.label), EOL, Directive(".entry"), EOL>> \o append_ir_code(st.code)
write_ir_module(p) ==
  EntryText(lower(p.body)) \o FlattenSeq([i \in DOMAIN p.funcs |-> FunctionText(p.funcs[i], lower_action(p.funcs[i]))])

-----------------------------------------------------------------------------
(* Memory of the machine. *)

Empty == [kind |-> "empty", s |-> <<>>, vals |-> <<>>]
Object(kind, s, vals) == [kind |-> kind, s |-> s, vals |-> vals]
to_handle(i) == -i
heap_get(h, v) == IF v < 0 /\ -v <= Len(h) THEN h[-v] ELSE Empty
heap_is_string(h, v) == heap_get(h, v).kind = "string"
heap_as_string(h, v) == IF heap_is_string(h, v) THEN heap_get(h, v).s ELSE <<>>

Top(st) == IF st = <<>> THEN 0 ELSE Last(st)
Popped(st, n) == SubSeq(st, 1, Len(st) - n)
locals_get(ls, i) == IF i \in 0..Len(ls) - 1 THEN ls[i + 1] ELSE 0
locals_set(ls, i, v) ==
  IF i < 0 THEN ls ELSE [j \in 1..Max({Len(ls), i + 1}) |-> IF j = i + 1 THEN v ELSE locals_get(ls, j - 1)]

\* Fields are kept as one string with commas: csv_count, csv_at, csv_index.
Commas(s) == {i \in DOMAIN s : s[i] = ","}
csv_count(s) == IF s = <<>> THEN 0 ELSE 1 + Cardinality(Commas(s))
csv_at(s, i) ==
  LET ends == SetToSortSeq(Commas(s) \cup {0, Len(s) + 1}, <)
  IN IF i + 2 <= Len(ends) THEN SubSeq(s, ends[i + 1] + 1, ends[i + 2] - 1) ELSE <<>>
csv_index(s, name) ==
  LET found == {i \in 0..csv_count(s) - 1 : csv_at(s, i) = name} IN IF found = {} THEN -1 ELSE Min(found)

Upper == {"Some", "None"}
dotted_tail(n) == SubSeq(n, Max({i \in DOMAIN n : n[i] = "."} \cup {0}) + 1, Len(n))
call_name_must_resolve(n) == n = <<>> \/ \A i \in DOMAIN n : n[i] \notin Upper
                             \/ \E j \in DOMAIN n : n[j] = "."

-----------------------------------------------------------------------------
(* Builtins: a value pushed, a string allocated, a file written. *)

Digits == <<"0", "1", "2", "3", "4", "5", "6", "7", "8", "9">>
IsDigit(c) == \E i \in DOMAIN Digits : Digits[i] = c
DigitOf(c) == CHOOSE d \in 0..9 : Digits[d + 1] = c
Alphas == {"a", "b"}
RECURSIVE to_string(_), Digital(_, _)
to_string(n) ==
  CASE n < 0 -> <<"-">> \o to_string(-n)
    [] n \in 0..9 -> <<Digits[n + 1]>>
    [] OTHER -> Append(to_string(n \div 10), Digits[(n % 10) + 1])
Digital(s, n) == IF s # <<>> /\ IsDigit(Head(s)) THEN Digital(Tail(s), 10 * n + DigitOf(Head(s))) ELSE n
strip_front(s) == SubSeq(s, Max({i \in DOMAIN s : \A j \in 1..i : s[j] = " "} \cup {0}) + 1, Len(s))
strip_ws(s) == Reverse(strip_front(Reverse(strip_front(s))))
parse_int_string(s0) ==
  LET s == strip_front(s0) IN
  IF s # <<>> /\ Head(s) = "-" THEN -Digital(Tail(s), 0) ELSE Digital(s, 0)
find(s, needle) ==
  LET at == {i \in 0..Len(s) - Len(needle) : SubSeq(s, i + 1, i + Len(needle)) = needle}
  IN IF at = {} THEN -1 ELSE Min(at)
substr(s, start, span) ==
  IF start \in 0..Len(s) THEN SubSeq(s, start + 1, start + Min({Max({span, 0}), Len(s) - start})) ELSE <<>>
path_join(a, b) ==
  CASE a = <<>> -> b [] b = <<>> -> a
    [] OTHER -> IF Last(a) = "/" THEN a \o b ELSE a \o <<"/">> \o b
path_dirname(p) ==
  LET pos == Max({i \in DOMAIN p : p[i] = "/"} \cup {0})
  IN CASE pos = 0 -> <<".">> [] pos = 1 -> <<"/">> [] OTHER -> SubSeq(p, 1, pos - 1)

Bit(b) == IF b THEN 1 ELSE 0
ReadFile(fs, p) == IF p \in DOMAIN fs THEN fs[p] ELSE <<>>
Write(fs, p, text) == [q \in DOMAIN fs \cup {p} |-> IF q = p THEN text ELSE fs[q]]

\* What try_builtin does with its arguments: [ok, str: whether a string is made, n, s, fs].
try_builtin(n, argc, ls, h, fs) ==
  LET A(i) == locals_get(ls, i)
      S(i) == heap_as_string(h, A(i))
      Gives(v) == [ok |-> TRUE, str |-> FALSE, n |-> v, s |-> <<>>, fs |-> fs]
      Makes(s) == [ok |-> TRUE, str |-> TRUE, n |-> 0, s |-> s, fs |-> fs]
      Is(short, long) == n \in {<<short>>, long}
      IsAlpha == Len(S(0)) = 1 /\ S(0)[1] \in Alphas
      IsNum == Len(S(0)) = 1 /\ IsDigit(S(0)[1])
      Under == S(0) = <<"_">>
  IN CASE Is("len", <<"string", ".", "len">>) -> Gives(Len(S(0)))
       [] Is("substr", <<"string", ".", "substr">>) -> Makes(substr(S(0), A(1), IF argc >= 3 THEN A(2) ELSE Len(S(0)) - A(1)))
       [] Is("find", <<"string", ".", "find">>) -> Gives(find(S(0), S(1)))
       [] Is("strip", <<"string", ".", "strip">>) -> Makes(strip_ws(S(0)))
       [] Is("starts_with", <<"string", ".", "starts_with">>) -> Gives(Bit(IsPrefix(S(1), S(0))))
       [] Is("ends_with", <<"string", ".", "ends_with">>) -> Gives(Bit(IsSuffix(S(1), S(0))))
       [] n = <<"string">> -> Makes(to_string(A(0)))
       [] n \in {<<"int">>, <<"toint">>} -> Gives(IF heap_is_string(h, A(0)) THEN parse_int_string(S(0)) ELSE A(0))
       [] n = <<"char_is_digit">> -> Gives(Bit(IsNum))
       [] n = <<"char_is_alpha">> -> Gives(Bit(IsAlpha))
       [] n = <<"char_is_space">> -> Gives(Bit(S(0) = <<" ">>))
       [] n = <<"char_is_ident_start">> -> Gives(Bit(IsAlpha \/ Under))
       [] n = <<"char_is_ident_part">> -> Gives(Bit(IsAlpha \/ IsNum \/ Under))
       [] n = <<"exit">> -> Gives(0)
       [] Is("read", <<"fs", ".", "read">>) -> Makes(ReadFile(fs, S(0)))
       [] Is("write", <<"fs", ".", "write">>) -> [Gives(1) EXCEPT !.fs = Write(fs, S(0), S(1))]
       [] Is("append", <<"fs", ".", "append">>) -> [Gives(1) EXCEPT !.fs = Write(fs, S(0), ReadFile(fs, S(0)) \o S(1))]
       [] Is("exists", <<"fs", ".", "exists">>) -> Gives(Bit(S(0) \in DOMAIN fs))
       [] n = <<"path", ".", "join">> -> Makes(path_join(S(0), S(1)))
       [] n = <<"path", ".", "dirname">> -> Makes(path_dirname(S(0)))
       [] OTHER -> [Gives(0) EXCEPT !.ok = FALSE]

-----------------------------------------------------------------------------
(* The programs: each with two numbers of 0..MirMax in it. *)

Func(name, params, body) == [name |-> <<name>>, params |-> params, body |-> body]
Just(body) == [body |-> body, funcs |-> <<>>]
X == Name("x")
Y == Name("y")
One == IntLit(1)
ab == StringLit(<<"a", "b">>)
Call1(f, a) == CallOf(<<f>>, <<a>>)
Call2(f, a, b) == CallOf(<<f>>, <<a, b>>)
Of(owner, f, args) == CallOf(<<owner, ".", f>>, args)
Shows(es) == [i \in DOMAIN es |-> Show(es[i])]

Arithmetic(A, B) == Just(
  <<Let("x", BinOp("add", A, BinOp("mul", B, IntLit(3)))), Let("y", BinOp("div", X, B))>>
  \o Shows(<<BinOp("sub", X, B), Y, BinOp("lt", A, B), BinOp("eq", A, B), BinOp("ne", A, B), Unary("not", A),
             BinOp("sub", BinOp("mul", X, Y), BinOp("sub", X, A)), Assigned("y", BinOp("sub", A, B)), Y, Unary("neg", Y)>>))
Texts(A, B) == Just(
  <<Let("x", BinOp("add", ab, Call1("string", A))), Let("y", BinOp("add", ab, Call1("string", B))), Show(ab)>>
  \o Shows(<<X, BinOp("add", X, Y), BinOp("eq", X, Y), BinOp("ne", X, Y), Call1("len", BinOp("add", X, Y)),
             Call1("int", Of("string", "substr", <<X, IntLit(2), A>>)), Call2("substr", X, B),
             Of("string", "find", <<X, Call1("string", B)>>), Call2("starts_with", X, ab),
             Of("string", "ends_with", <<X, Call1("string", B)>>),
             Call1("strip", BinOp("add", StringLit(<<" ">>), BinOp("add", X, StringLit(<<" ">>)))),
             Call1("char_is_digit", Call1("string", A)), Call1("char_is_alpha", ab), Call1("char_is_space", X),
             Call1("char_is_ident_start", StringLit(<<"_">>)), Call1("char_is_ident_part", Call1("string", B)),
             Call1("toint", BinOp("mul", A, IntLit(7)))>>))
Branches(A, B) == Just(
  <<Let("x", A), Let("y", IntLit(0)),
    While(BinOp("lt", X, IntLit(4)),
      <<If(BinOp("and", BinOp("ne", X, B), BinOp("or", BinOp("lt", X, IntLit(3)), BinOp("eq", B, A))),
           <<AssignStmt("y", BinOp("add", Y, X))>>, <<Show(Y)>>), AssignStmt("x", BinOp("add", X, One))>>),
    If(Y, <<Show(Y)>>, <<Show(StringLit(<<",", "a">>))>>)>>)
Matching(A, B) ==
  LET Arms == <<Arm("None", <<>>, <<Show(IntLit(7))>>),
                Arm("Some", <<"p", "q">>, <<Show(BinOp("sub", BinOp("mul", Name("p"), IntLit(3)), Name("q")))>>)>>
  IN Just(<<Let("x", CallOf(<<"Some">>, <<BinOp("add", A, One), B>>)), Match(X, Arms),
            Match(Member(Name("Opt"), "None"), Arms), Match(BinOp("add", A, B), Arms), Match(CallOf(<<"None">>, <<>>), Arms),
            If(A, <<Match(X, <<Arms[1]>>)>>, <<Match(X, <<Arms[2]>>)>>), Show(B)>>)
Structs(A, B) == Just(
  <<VarDecl(<<"p", ",", "q">>, "x"), FieldAssign(X, "p", A), Let("y", X), FieldAssign(Y, "q", BinOp("add", Member(X, "p"), B)),
    VarDecl(<<"q">>, "z"), FieldAssign(Name("z"), "q", X), FieldAssign(Member(Name("z"), "q"), "p", IntLit(9)),
    FieldAssign(A, "p", B)>>
  \o Shows(<<Member(X, "p"), Member(X, "q"), Member(Member(Name("z"), "q"), "q"), Member(B, "p")>>))
Functions(A, B) ==
  [body |-> <<Show(Call2("f", A, B)), Show(Call2("g", A, BinOp("add", B, One))), ExprStmt(Call1("h", A)), Show(Call1("h", IntLit(0)))>>,
   funcs |-> <<
     Func("f", <<"x", "y">>, <<If(BinOp("lt", X, Y), <<Back(BinOp("sub", Y, X))>>, <<>>), Back(BinOp("sub", X, Y))>>),
     Func("g", <<"x", "y">>, <<If(Y, <<Back(BinOp("add", X, Call2("g", X, BinOp("sub", Y, One))))>>, <<Back(IntLit(0))>>)>>),
     Func("h", <<"x">>, <<While(X, <<Show(X), Back(Call2("f", X, IntLit(0)))>>), Show(StringLit(<<"b">>)), Back(One)>>)>>]
Files(A, B) ==
  LET P == Of("path", "join", <<ab, StringLit(<<"c">>)>>)
  IN Just(<<ExprStmt(Of("fs", "append", <<P, Call1("string", A)>>)),
            If(BinOp("lt", A, B), <<ExprStmt(Of("fs", "write", <<P, ab>>))>>, <<>>),
            ExprStmt(Call2("append", P, Call1("string", B))), Show(Of("fs", "read", <<P>>)), Show(Call1("exists", P)),
            Show(Call1("exists", ab)), Show(Of("path", "dirname", <<P>>)), ExprStmt(Call1("exit", A)),
            Show(Call1("read", Of("path", "dirname", <<P>>)))>>)
Refused(A, B) == Just(<<Show(BinOp("sub", A, B)), If(A, <<Show(Call1("absent", B))>>, <<Show(Of("string", "lower", <<ab>>))>>), Show(B)>>)
Endless(A, B) == Just(<<Let("x", A), While(BinOp("lt", IntLit(0), BinOp("add", X, B)), <<AssignStmt("x", A)>>), Show(X)>>)

Kinds == 1..9
Program(pick) ==
  LET A == IntLit(pick[2])
      B == IntLit(pick[3])
  IN CASE pick[1] = 1 -> Arithmetic(A, B) [] pick[1] = 2 -> Texts(A, B) [] pick[1] = 3 -> Branches(A, B)
       [] pick[1] = 4 -> Matching(A, B) [] pick[1] = 5 -> Structs(A, B) [] pick[1] = 6 -> Functions(A, B)
       [] pick[1] = 7 -> Files(A, B) [] pick[1] = 8 -> Refused(A, B) [] OTHER -> Endless(A, B)

-----------------------------------------------------------------------------
(* run_text and run_code. *)

Activation(fn, ls) == [fn |-> fn, pc |-> 1, stack |-> <<>>, locals |-> ls, guard |-> 0]
Code(fn) == IF fn = 0 THEN mirMod.entry ELSE mirMod.funcs[fn].code
Labels(fn) == IF fn = 0 THEN mirMod.labels ELSE mirMod.funcs[fn].labels
func_index(n) == Max({i \in DOMAIN mirMod.funcs : mirMod.funcs[i].name = n} \cup {0})

Load ==
  /\ mirEnd = "new"
  /\ LET mod == parse_lines(write_ir_module(Program(mirPick)), After(NoModule, 1)) IN
     /\ mirMod' = mod
     /\ mirEnd' = IF mod.error = "" THEN "running" ELSE mod.error
     /\ mirFrames' = IF mod.error = "" THEN <<Activation(0, <<>>)>> ELSE <<>>
  /\ UNCHANGED <<mirPick, mirHeap, mirFiles, mirOut>>

Now == Last(mirFrames)
Fits(f) == f.guard < MirGuard /\ f.pc <= Len(Code(f.fn))
At(op) == mirEnd = "running" /\ Fits(Now) /\ Code(Now.fn)[Now.pc].op \in op
Here == Code(Now.fn)[Now.pc]

\* The instruction is over: the innermost activation goes on with this stack.
Goes(f) == mirFrames' = Append(Front(mirFrames), [f EXCEPT !.guard = @ + 1])
Steps(stack) == Goes([Now EXCEPT !.stack = stack, !.pc = @ + 1])
\* A label too high ends the code; jump_to sets the position of the label itself.
jump_to(stack, lab) ==
  Goes([Now EXCEPT !.stack = stack, !.pc = IF lab \in DOMAIN Labels(Now.fn) THEN Labels(Now.fn)[lab] ELSE Len(Code(Now.fn)) + 1])
Fails(why) == mirEnd' = why /\ mirFrames' = <<>>

Second == Top(Popped(Now.stack, 1))
Quotient(a, b) ==
  LET q == (IF a < 0 THEN -a ELSE a) \div (IF b < 0 THEN -b ELSE b)
  IN IF (a < 0) # (b < 0) THEN -q ELSE q

\* Mistake: the operands in the order in which they are popped.
OfTwoSwapped(op, a, b) ==
  CASE op = "ADD" -> a + b [] op = "SUB" -> b - a [] op = "MUL" -> a * b
    [] op = "DIV" -> (IF b = 0 THEN 0 ELSE Quotient(a, b)) [] op = "CMP_LT" -> Bit(a < b)
    [] op = "CMP_EQ" -> Bit(a = b) [] OTHER -> Bit(a # b)

OfTwo(op, a, b) ==
  CASE op = "ADD" -> a + b [] op = "SUB" -> a - b [] op = "MUL" -> a * b
    [] op = "DIV" -> (IF b = 0 THEN 0 ELSE Quotient(a, b)) [] op = "CMP_LT" -> Bit(a < b)
    [] op = "CMP_EQ" -> Bit(a = b) [] OTHER -> Bit(a # b)

Alloc(stack, obj) == mirHeap' = Append(mirHeap, obj) /\ Steps(Append(stack, to_handle(Len(mirHeap) + 1)))

\* ADD, CMP_EQ and CMP_NE of two strings are about their texts.
Calculate ==
  /\ At({"ADD", "SUB", "MUL", "DIV", "CMP_EQ", "CMP_NE", "CMP_LT"})
  /\ LET op == Here.op
         a == Second
         b == Top(Now.stack)
         rest == Popped(Now.stack, 2)
         texts == heap_is_string(mirHeap, a) /\ heap_is_string(mirHeap, b)
         same == heap_as_string(mirHeap, a) = heap_as_string(mirHeap, b)
     IN IF texts /\ op = "ADD"
          THEN Alloc(rest, Object("string", heap_as_string(mirHeap, a) \o heap_as_string(mirHeap, b), <<>>))
          ELSE /\ Steps(Append(rest, IF texts /\ op = "CMP_EQ" THEN Bit(same)
                                     ELSE IF texts /\ op = "CMP_NE" THEN Bit(~same) ELSE OfTwo(op, a, b)))
               /\ UNCHANGED mirHeap
  /\ UNCHANGED <<mirPick, mirMod, mirFiles, mirOut, mirEnd>>

Move ==
  /\ At({"CONST", "LOAD", "STORE", "POP", "LABEL"})
  /\ LET i == Here IN
     CASE i.op = "CONST" -> Steps(Append(Now.stack, i.n))
       [] i.op = "LOAD" -> Steps(Append(Now.stack, locals_get(Now.locals, i.n)))
       [] i.op = "STORE" -> Goes([Now EXCEPT !.locals = locals_set(@, i.n, Top(Now.stack)), !.stack = Popped(@, 1), !.pc = @ + 1])
       [] i.op = "POP" -> Steps(Popped(Now.stack, 1))
       [] OTHER -> Steps(Now.stack)
  /\ UNCHANGED <<mirPick, mirMod, mirHeap, mirFiles, mirOut, mirEnd>>

\* The variant test leaves the value on the stack.
Jump ==
  /\ At({"JUMP", "JUMP_IF_FALSE", "JUMP_IF_NOT_VARIANT"})
  /\ LET i == Here
         obj == heap_get(mirHeap, Top(Now.stack))
     IN CASE i.op = "JUMP" -> jump_to(Now.stack, i.n)
          [] i.op = "JUMP_IF_FALSE" ->
               IF Top(Now.stack) = 0 THEN jump_to(Popped(Now.stack, 1), i.n) ELSE Steps(Popped(Now.stack, 1))
          [] OTHER -> IF obj.kind = "enum" /\ obj.s = i.s THEN Steps(Now.stack) ELSE jump_to(Now.stack, i.n)
  /\ UNCHANGED <<mirPick, mirMod, mirHeap, mirFiles, mirOut, mirEnd>>

Line(text, n, s) == [text |-> text, n |-> n, s |-> s]
PrintTop ==
  /\ At({"PRINT", "PRINT_STR"})
  /\ LET v == Top(Now.stack) IN
     mirOut' = Append(mirOut, IF Here.op = "PRINT_STR" \/ heap_is_string(mirHeap, v)
                                THEN Line(TRUE, 0, heap_as_string(mirHeap, v)) ELSE Line(FALSE, v, <<>>))
  /\ Steps(Popped(Now.stack, 1))
  /\ UNCHANGED <<mirPick, mirMod, mirHeap, mirFiles, mirEnd>>

\* The payload of MK_ENUM begins with the value popped first.
Make ==
  /\ At({"CONST_STR", "MK_ENUM", "MK_STRUCT"})
  /\ LET i == Here IN
     CASE i.op = "CONST_STR" -> Alloc(Now.stack, Object("string", i.s, <<>>))
       [] i.op = "MK_ENUM" -> Alloc(Popped(Now.stack, i.n),
            Object("enum", i.s, [j \in 1..i.n |-> Top(Popped(Now.stack, j - 1))]))
       [] OTHER -> Alloc(Now.stack, Object("struct", i.s, [j \in 1..csv_count(i.s) |-> 0]))
  /\ UNCHANGED <<mirPick, mirMod, mirFiles, mirOut, mirEnd>>

Look ==
  /\ At({"GET_FIELD", "GET_PAYLOAD"})
  /\ LET i == Here
         obj == heap_get(mirHeap, Top(Now.stack))
     IN IF i.op = "GET_FIELD"
          THEN Steps(Append(Popped(Now.stack, 1), IF obj.kind = "struct" THEN locals_get(obj.vals, csv_index(obj.s, i.s)) ELSE 0))
          ELSE Steps(Append(Now.stack, IF obj.kind = "enum" THEN locals_get(obj.vals, i.n) ELSE 0))
  /\ UNCHANGED <<mirPick, mirMod, mirHeap, mirFiles, mirOut, mirEnd>>

SetField ==
  /\ At({"SET_FIELD"})
  /\ LET v == Second
         obj == heap_get(mirHeap, v)
     IN mirHeap' = IF obj.kind = "struct"
                     THEN [mirHeap EXCEPT ![-v].vals = locals_set(@, csv_index(obj.s, Here.s), Top(Now.stack))]
                     ELSE mirHeap
  /\ Steps(Popped(Now.stack, 2))
  /\ UNCHANGED <<mirPick, mirMod, mirFiles, mirOut, mirEnd>>

Arguments(argc) == [i \in 1..argc |-> Top(Popped(Now.stack, argc - i))]

Calling(n, argc) == try_builtin(n, argc, Arguments(argc), mirHeap, mirFiles)
CallBuiltin ==
  /\ At({"CALL"})
  /\ LET r == Calling(Here.s, Here.n)
         rest == Popped(Now.stack, Here.n)
     IN /\ r.ok
        /\ mirFiles' = r.fs
        /\ IF r.str THEN Alloc(rest, Object("string", r.s, <<>>))
                    ELSE Steps(Append(rest, r.n)) /\ UNCHANGED mirHeap
  /\ UNCHANGED <<mirPick, mirMod, mirOut, mirEnd>>

\* A function; a name with a capital that is no function makes a variant.
CallOther ==
  /\ At({"CALL"})
  /\ LET n == Here.s
         args == Arguments(Here.n)
         rest == Popped(Now.stack, Here.n)
         fn == func_index(n)
     IN /\ ~Calling(n, Here.n).ok
        /\ CASE fn # 0 ->
                 /\ mirFrames' = Front(mirFrames) \o <<[Now EXCEPT !.stack = rest, !.pc = @ + 1, !.guard = @ + 1], Activation(fn, args)>>
                 /\ UNCHANGED <<mirHeap, mirEnd>>
             [] fn = 0 /\ call_name_must_resolve(n) -> Fails("unknown call") /\ UNCHANGED mirHeap
             [] OTHER -> Alloc(rest, Object("enum", dotted_tail(n), args)) /\ UNCHANGED mirEnd
  /\ UNCHANGED <<mirPick, mirMod, mirFiles, mirOut>>

Return ==
  /\ At({"RETURN"})
  /\ IF Len(mirFrames) = 1
       THEN mirEnd' = "ok" /\ mirFrames' = <<>>
       ELSE /\ mirFrames' = Append(Front(Front(mirFrames)),
                                   [Last(Front(mirFrames)) EXCEPT !.stack = Append(@, Top(Now.stack))])
            /\ UNCHANGED mirEnd
  /\ UNCHANGED <<mirPick, mirMod, mirHeap, mirFiles, mirOut>>

Stop ==
  /\ mirEnd = "running" /\ ~Fits(Now)
  /\ Fails(IF Now.guard >= MirGuard THEN "guard tripped" ELSE "fell off end of code")
  /\ UNCHANGED <<mirPick, mirMod, mirHeap, mirFiles, mirOut>>

MirInit ==
  /\ mirPick \in Kinds \X (0..MirMax) \X (0..MirMax) /\ mirEnd = "new"
  /\ mirMod = NoModule /\ mirFrames = <<>> /\ mirHeap = <<>> /\ mirFiles = <<>> /\ mirOut = <<>>
MirIdle ==
  /\ mirPick = <<1, 0, 0>> /\ mirEnd = "ok"
  /\ mirMod = NoModule /\ mirFrames = <<>> /\ mirHeap = <<>> /\ mirFiles = <<>> /\ mirOut = <<>>
MirNext ==
  \/ Load \/ Calculate \/ Move \/ Jump \/ PrintTop \/ Make \/ Look \/ SetField \/ CallBuiltin \/ CallOther \/ Return \/ Stop

-----------------------------------------------------------------------------
(* What the programs mean: values with a kind, structs shared by reference, no machine. *)

Val(t, n, s, vals) == [t |-> t, n |-> n, s |-> s, vals |-> vals]
Num(n) == Val("num", n, <<>>, <<>>)
Txt(s) == Val("text", 0, s, <<>>)
World(files) == [env |-> <<>>, objs |-> <<>>, out |-> <<>>, files |-> files, flow |-> "next", val |-> Num(0), below |-> FALSE]
Give(w, v) == [w EXCEPT !.val = v, !.below = @ \/ (v.t = "num" /\ v.n < 0)]
Means(w, x) == IF x \in DOMAIN w.env THEN w.env[x] ELSE Num(0)
SetVar(w, x, v) == [w EXCEPT !.env = (x :> v) @@ @]
Same(a, b) == a.t = b.t /\ a.n = b.n /\ a.s = b.s
Combined(op, a, b) ==
  CASE op = "add" /\ a.t = "text" -> Txt(a.s \o b.s)
    [] op \in {"add", "or"} -> Num(a.n + b.n)
    [] op = "sub" -> Num(a.n - b.n)
    [] op \in {"mul", "and"} -> Num(a.n * b.n)
    [] op = "div" -> Num(IF b.n = 0 THEN 0 ELSE Quotient(a.n, b.n))
    [] op = "lt" -> Num(Bit(a.n < b.n))
    [] op = "eq" -> Num(Bit(Same(a, b)))
    [] OTHER -> Num(Bit(~Same(a, b)))
FieldNames(s) == {s[i] : i \in DOMAIN s} \ {","}

\* The builtins by what they are for; [ok, v, files].
Library(f, a, files) ==
  LET word == Last(f)
      Done(v) == [ok |-> TRUE, v |-> v, files |-> files]
      Truth(b) == Done(Num(Bit(b)))
      s == a[1].s
      p == a[2].s
      Kept(path) == IF path \in DOMAIN files THEN files[path] ELSE <<>>
  IN CASE word = "len" -> Done(Num(Len(s)))
       [] word = "substr" -> Done(Txt([i \in 1..Min({Len(s) - a[2].n, IF Len(a) = 3 THEN a[3].n ELSE Len(s)} ) |-> s[a[2].n + i]]))
       [] word = "find" -> Done(Num(IF \E i \in DOMAIN s : s[i] = p[1] THEN SelectInSeq(s, LAMBDA c : c = p[1]) - 1 ELSE -1))
       [] word = "strip" -> Done(Txt(SelectSeq(s, LAMBDA c : c # " ")))
       [] word = "starts_with" -> Truth(\E r \in Suffixes(s) : s = p \o r)
       [] word = "ends_with" -> Truth(\E r \in Prefixes(s) : s = r \o p)
       [] word = "string" -> Done(Txt(to_string(a[1].n)))
       [] word \in {"int", "toint"} -> Done(IF a[1].t = "text" THEN Num(parse_int_string(s)) ELSE a[1])
       [] word = "char_is_digit" -> Truth(s \in {<<Digits[i]>> : i \in 1..10})
       [] word = "char_is_alpha" -> Truth(s \in {<<c>> : c \in Alphas})
       [] word = "char_is_space" -> Truth(s = <<" ">>)
       [] word = "char_is_ident_start" -> Truth(s \in {<<c>> : c \in Alphas \cup {"_"}})
       [] word = "char_is_ident_part" -> Truth(s \in {<<c>> : c \in Alphas \cup {"_"} \cup Range(Digits)})
       [] word = "exit" -> Done(Num(0))
       [] word = "read" -> Done(Txt(Kept(s)))
       [] word = "write" -> [Truth(TRUE) EXCEPT !.files = (s :> p) @@ @]
       [] word = "append" -> [Truth(TRUE) EXCEPT !.files = (s :> Kept(s) \o p) @@ @]
       [] word = "exists" -> Truth(s \in DOMAIN files)
       [] word = "join" -> Done(Txt(s \o <<"/">> \o p))
       [] word = "dirname" -> Done(Txt(SubSeq(s, 1, SelectLastInSeq(s, LAMBDA c : c = "/") - 1)))
       [] OTHER -> [Truth(FALSE) EXCEPT !.ok = FALSE]

RECURSIVE Run(_, _, _)   \* an expression, a statement, a loop
RunAll(ss, w, p) == FoldLeft(LAMBDA v, x : Run(x, v, p), w, ss)
Turn(s) == [s EXCEPT !.k = "turn"] @@ [turns |-> MirMax + 5]   \* more turns than any loop here takes that ends

Bound(names, vals) == [x \in Range(names) |-> vals[SelectInSeq(names, LAMBDA y : y = x)]]
Left(w, env) == [w EXCEPT !.env = env, !.flow = IF @ = "return" THEN "next" ELSE @]
Apply(f, args, w, p) ==
  LET at == SelectInSeq(p.funcs, LAMBDA g : g.name = f)
      lib == Library(f, args, w.files)
  IN CASE at # 0 -> Left(RunAll(p.funcs[at].body, [w EXCEPT !.env = Bound(p.funcs[at].params, args)], p), w.env)
       [] at = 0 /\ f[1] \in Upper -> Give(w, Val("enum", 0, f, args))
       [] at = 0 /\ f[1] \notin Upper /\ lib.ok -> Give([w EXCEPT !.files = lib.files], lib.v)
       [] OTHER -> [w EXCEPT !.flow = "unknown call"]

Also(r, v) == [w |-> v, vals |-> Append(r.vals, v.val)]
EvalArgs(es, w, p) == FoldLeft(LAMBDA r, e : Also(r, Run(e, r.w, p)), [w |-> w, vals |-> <<>>], es)
CallWith(f, r, p) == IF r.w.flow = "next" THEN Apply(f, r.vals, r.w, p) ELSE r.w
Joining(op, l, r) == IF r.flow = "next" THEN Give(r, Combined(op, l.val, r.val)) ELSE r
Right(e, l, p) == Joining(e.op, l, Run(e.b, l, p))
Negated(r) == Give(r, Num(-r.val.n))
Denied(r) == Give(r, Num(Bit(r.val.n = 0)))
Set(r, x) == SetVar(r, x, r.val)
FieldOf(r, x) == Give(r, IF r.val.t = "ref" /\ x \in DOMAIN r.objs[r.val.n] THEN r.objs[r.val.n][x] ELSE Num(0))
Eval(e, w, p) ==
  CASE e.k = "int" -> Give(w, Num(e.n))
    [] e.k = "text" -> Give(w, Txt(e.s))
    [] e.k = "name" -> Give(w, Means(w, e.x))
    [] e.k = "neg" -> Negated(Run(e.a, w, p))
    [] e.k = "not" -> Denied(Run(e.a, w, p))
    [] e.k = "bin" -> Right(e, Run(e.a, w, p), p)
    [] e.k = "set" -> Set(Run(e.a, w, p), e.x)
    [] e.k = "call" -> CallWith(e.f, EvalArgs(e.args, w, p), p)
    [] e.k = "member" /\ e.a.k = "name" /\ e.a.x \notin DOMAIN w.env -> Give(w, Val("enum", 0, <<e.x>>, <<>>))
    [] OTHER -> FieldOf(Run(e.a, w, p), e.x)

SetMember(s, o, r) == IF o.val.t = "ref" THEN [r EXCEPT !.objs[o.val.n][s.x] = r.val] ELSE r
Shown(r) == IF r.flow = "next" THEN [r EXCEPT !.out = Append(@, Line(r.val.t = "text", r.val.n, r.val.s))] ELSE r
Gone(r) == IF r.flow = "next" THEN [r EXCEPT !.flow = "return"] ELSE r
Branch(s, c, p) == RunAll(IF c.val.n # 0 THEN s.a ELSE s.b, c, p)
Looped(s, c, p) ==
  CASE c.flow # "next" \/ c.val.n = 0 -> c
    [] c.flow = "next" /\ c.val.n # 0 /\ s.turns = 0 -> [c EXCEPT !.flow = "guard tripped"]
    [] OTHER -> Run([s EXCEPT !.turns = @ - 1], RunAll(s.a, c, p), p)
Chosen(arms, r, p) ==
  LET i == SelectInSeq(arms, LAMBDA a : r.val.t = "enum" /\ <<a.tag>> = r.val.s)
  IN IF i = 0 THEN r ELSE RunAll(arms[i].body, [r EXCEPT !.env = Bound(arms[i].binds, r.val.vals) @@ @], p)
Exec(s, w, p) ==
  CASE s.k \in {"let", "assign"} -> Set(Run(s.e, w, p), s.x)
    [] s.k = "var" ->
         SetVar([w EXCEPT !.objs = Append(@, [f \in FieldNames(s.fields) |-> Num(0)])], s.x, Val("ref", Len(w.objs) + 1, <<>>, <<>>))
    [] s.k = "field" -> LET o == Run(s.a, w, p) IN SetMember(s, o, Run(s.e, o, p))
    [] s.k = "expr" -> Run(s.e, w, p)
    [] s.k = "print" -> Shown(Run(s.e, w, p))
    [] s.k = "return" -> Gone(Run(s.e, w, p))
    [] s.k = "if" -> Branch(s, Run(s.c, w, p), p)
    [] s.k = "while" -> Run(Turn(s), w, p)
    [] s.k = "turn" -> Looped(s, Run(s.c, w, p), p)
    [] OTHER -> Chosen(s.arms, Run(s.e, w, p), p)
Run(x, w, p) ==
  CASE w.flow # "next" -> w
    [] w.flow = "next" /\ x.k \in Expressions -> Eval(x, w, p)
    [] OTHER -> Exec(x, w, p)

-----------------------------------------------------------------------------
\* run_code against the language: a program compiled, written, read and run has
\* printed what the program means, left the files it means, and ended as it
\* should, unless a number below zero came up: the machine takes those for
\* handles of its heap (is_handle), so PRINT may show a string instead.
MachineMeans ==
  mirEnd \notin {"new", "running"} /\ mirMod.saw =>
    LET m == RunAll(Program(mirPick).body, World(<<>>), Program(mirPick)) IN
    ~m.below => /\ mirEnd = (IF m.flow \in {"next", "return"} THEN "ok" ELSE m.flow)
                /\ mirEnd # "guard tripped" => mirOut = m.out /\ mirFiles = m.files
=============================================================================
