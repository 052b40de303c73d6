------------------------------- MODULE Parser --------------------------------
(* The recursive-descent parser.  A token is a string, a tree a tuple that starts
   with what it is.  A parse function takes the state of the Parser object and
   returns whether it returned or threw (ok), what it made (t, a sequence) and the
   state it left, which a catch clause keeps but for the position it restores. *)
EXTENDS Naturals, Sequences, FiniteSets

VARIABLE prsTokens \* what the lexer made of the text

-----------------------------------------------------------------------------
(* Tokens.  "nl" is a line break, "$" the end; keywords of the lexer are names
   too, except where the parser asks for a word. *)

Numbers == {"0", "1", "2"}
Strings == {"''", "'s'"}
Signs == {"nl", "$", ";", ",", ":", "::", ".", "..", "..<", "(", ")", "[", "]", "{", "}", "@", "?", "??",
          "=", "+=", "-=", "*=", "/=", "%=", "**=", "==", "!=", "===", "!==", "<", "<=", ">", ">=", "<<", ">>",
          "+", "-", "*", "/", "%", "**", "++", "--", "!", "~", "&", "&&", "|", "||", "^", "->", "=>", "5s"}
Keywords == {"if", "else", "while", "do", "repeat", "for", "switch", "case", "default", "return", "const",
             "action", "entity", "hook", "global", "run", "in", "public", "private", "export", "namespace",
             "unsafe", "true", "false", "null", "sizeof", "typeof", "offsetof", "is_base_of", "reinterpret_cast",
             "lambda"}
IsName(tk) == tk \notin Signs \cup Numbers \cup Strings
IsWord(tk) == IsName(tk) /\ tk \notin Keywords

is_probable_type_start(tk) ==
  tk \in {"*", "any", "void", "int", "double", "float", "bool", "string", "char", "array", "map", "set", "tuple",
          "future", "heap", "shared", "weak", "buffer", "u8", "i64",
          "T", "Box", "Pair", "Some", "None", "Ok"} \* the last line: names in capitals

ParserState == [i |-> 1, gt |-> FALSE, tern |-> 0, meth |-> FALSE, ns |-> <<>>, errs |-> <<>>]
At(n) == IF n > Len(prsTokens) THEN "$" ELSE prsTokens[n]
Peek(s, k) == IF k = 0 /\ s.gt THEN ">" ELSE At(s.i + k)
Eat(s) == IF s.gt THEN [s EXCEPT !.gt = FALSE]
          ELSE IF s.i <= Len(prsTokens) THEN [s EXCEPT !.i = @ + 1] ELSE s
EatIf(s, tk) == IF Peek(s, 0) = tk THEN Eat(s) ELSE s
Back(s, from) == [s EXCEPT !.i = from.i]

RECURSIVE Skip(_)
Skip(s) == IF Peek(s, 0) \in {"nl", ";"} THEN Skip(Eat(s)) ELSE s

Done(t, s) == [ok |-> TRUE, t |-> t, s |-> s]
Thrown(s) == [ok |-> FALSE, t |-> <<>>, s |-> s]
Made(tag, r) == IF r.ok THEN [r EXCEPT !.t = <<<<tag>> \o @>>] ELSE r

RECURSIVE Item(_, _), Items(_, _, _), Several(_, _, _)
(* What a rule asks for, one after the other: a token, or what <x> stands for. *)
Items(items, acc, s) ==
  IF items = <<>> THEN Done(acc, s)
  ELSE LET r == Item(Head(items), s) IN
       IF r.ok THEN Items(Tail(items), acc \o r.t, r.s) ELSE r
More(r, items) == IF r.ok THEN Items(items, r.t, r.s) ELSE r
(* do { item } while (match(Comma)) *)
Several(item, acc, s) ==
  LET r == Item(item, s) IN
  IF r.ok /\ Peek(r.s, 0) = "," THEN Several(item, acc \o r.t, Eat(r.s))
  ELSE IF r.ok THEN Done(<<acc \o r.t>>, r.s) ELSE r
Enclosed(item, close, s) ==
  IF Peek(s, 0) = close THEN Done(<<<<>>>>, Eat(s))
  ELSE LET r == Several(item, <<>>, s) IN
       IF ~r.ok THEN r
       ELSE IF Peek(r.s, 0) = close THEN Done(r.t, Eat(r.s)) ELSE Thrown(r.s)

(* name { :: name } *)
RECURSIVE Path(_, _)
Path(acc, s) ==
  IF ~IsName(Peek(s, 0)) THEN Thrown(Eat(s))
  ELSE LET p == acc \o <<Peek(s, 0)>> IN
       IF Peek(Eat(s), 0) = "::" THEN Path(p, Eat(Eat(s))) ELSE Done(<<p>>, Eat(s))
-----------------------------------------------------------------------------
(* Types.  The text of a type is the sequence of its tokens, ">>" being two. *)

RECURSIVE Angles(_, _, _), Stars(_, _), LookPast(_, _, _)
parse_type_annotation_angles(s) == IF Peek(s, 0) = "<" THEN Angles(1, <<"<">>, Eat(s)) ELSE Done(<<<<>>>>, s)
Angles(depth, acc, s) ==
  LET tk == Peek(s, 0) n == Eat(s) IN
  IF depth = 0 THEN Done(<<acc>>, s)
  ELSE CASE tk = "<" -> Angles(depth + 1, Append(acc, tk), n)
         [] tk = ">" -> Angles(depth - 1, Append(acc, tk), n)
         [] tk = ">>" -> IF depth = 1 THEN Done(<<Append(acc, ">")>>, [n EXCEPT !.gt = TRUE])
                         ELSE Angles(depth - 2, acc \o <<">", ">">>, n)
         [] tk = "<<" -> Angles(depth + 2, acc \o <<"<", "<">>, n)
         [] tk \in {",", ".", ":", "?", "::"} \cup Numbers \/ IsName(tk) -> Angles(depth, Append(acc, tk), n)
         [] OTHER -> Thrown(n)
Stars(acc, s) ==
  CASE Peek(s, 0) = "*" -> Stars(<<"*">> \o acc, Eat(s))
    [] Peek(s, 0) = "&" /\ ~IsName(Peek(s, 1)) -> Stars(Append(acc, "&"), Eat(s))
    [] OTHER -> Done(<<acc>>, s)

RECURSIVE parse_type_annotation(_)
FunctionType(s) ==
  LET ps == Items(<<"(", "<types)">>, <<>>, EatIf(s, "action"))
      to == Peek(ps.s, 0) \in {"->", "=>"} IN
  IF ~ps.ok THEN ps
  ELSE IF ~to THEN Thrown(ps.s)
  ELSE LET r == parse_type_annotation(Eat(ps.s)) IN
       IF r.ok THEN Done(<<<<"action", ps.t[1], "->", r.t[1]>>>>, r.s) ELSE r
parse_type_annotation(s) ==
  IF Peek(s, 0) = "(" \/ (Peek(s, 0) = "action" /\ Peek(s, 1) = "(") THEN FunctionType(s)
  ELSE IF Peek(s, 0) = "*"
  THEN LET r == parse_type_annotation(Eat(s)) IN IF r.ok THEN Done(<<<<"*">> \o r.t[1]>>, r.s) ELSE r
  ELSE LET name == Path(<<>>, s)
           args == parse_type_annotation_angles(name.s) IN
       IF ~name.ok THEN name ELSE IF ~args.ok THEN args ELSE Stars(name.t[1] \o args.t[1], args.s)

(* Is this "<" the start of type arguments?  The index after their end, or 0. *)
LookPast(n, depth, stops) ==
  LET tk == At(n) IN
  CASE depth = 0 -> n
    [] tk \in stops \cup {"$"} -> 0
    [] tk = "<" -> LookPast(n + 1, depth + 1, stops)
    [] tk = "<<" -> LookPast(n + 1, depth + 2, stops)
    [] tk = ">" -> LookPast(n + 1, depth - 1, stops)
    [] tk = ">>" -> IF depth = 1 THEN 0 ELSE LookPast(n + 1, depth - 2, stops)
    [] OTHER -> LookPast(n + 1, depth, stops)
EndsBefore(s, stops, tk) == LET n == LookPast(s.i + 1, 1, stops) IN n > 0 /\ At(n) = tk
try_parse_call_type_args(s) ==
  IF Peek(s, 0) = "<" /\ EndsBefore(s, {"nl", ";"}, "(") THEN Enclosed("<type>", ">", Eat(s))
  ELSE Done(<<<<>>>>, s)

(* <T: Show & Add, U> *)
RECURSIVE Bounds(_, _)
Bounds(acc, s) ==
  LET r == Item("<type>", s) IN
  IF r.ok /\ Peek(r.s, 0) = "&" THEN Bounds(acc \o r.t, Eat(r.s))
  ELSE IF r.ok THEN Done(<<acc \o r.t>>, r.s) ELSE r
TypeParam(s) ==
  CASE ~IsName(Peek(s, 0)) -> Thrown(Eat(s))
    [] Peek(s, 1) = ":" -> Made(Peek(s, 0), Bounds(<<>>, Eat(Eat(s))))
    [] OTHER -> Done(<<<<Peek(s, 0), <<>>>>>>, Eat(s))
parse_type_param_list(s) ==
  IF Peek(s, 0) = "<" THEN Enclosed("<typeparam>", ">", Eat(s)) ELSE Done(<<<<>>>>, s)
-----------------------------------------------------------------------------
(* Expressions. *)

CompoundOps == {"+=", "-=", "*=", "/=", "%=", "**="}
(* What parse_coalesce and the eleven functions below it look for, loosest first. *)
LevelsSwapped == <<{"??"}, {"||"}, {"&&"}, {"|"}, {"^"}, {"==", "!=", "===", "!=="}, {"&"}, {"<", "<=", ">", ">="},
                   {"..", "..<"}, {"<<", ">>"}, {"+", "-"}, {"*", "/", "%", "**"}>>
Levels == <<{"??"}, {"||"}, {"&&"}, {"|"}, {"^"}, {"&"}, {"==", "!=", "===", "!=="}, {"<", "<=", ">", ">="},
            {"..", "..<"}, {"<<", ">>"}, {"+", "-"}, {"*", "/", "%", "**"}>>
RangeOps == {"..", "..<"}
PrefixOps == {"++", "--", "-", "!", "~", "*", "&"}
SpecialWords == {"reinterpret_cast", "sizeof", "typeof", "offsetof", "is_base_of", "await"}

RECURSIVE Level(_, _), Chain(_, _), Postfix(_), Entries(_, _)

parse_expression(s) ==
  LET c == Item("<coalesce>", s)
      then == Items(<<"<expr>">>, c.t, [Eat(c.s) EXCEPT !.tern = @ + 1])
      l == IF ~c.ok \/ Peek(c.s, 0) # "?" THEN c
           ELSE IF ~then.ok THEN then
           ELSE Made("?:", Items(<<":", "<expr>">>, then.t, [then.s EXCEPT !.tern = @ - 1]))
      op == Peek(l.s, 0) IN
  IF l.ok /\ op \in CompoundOps THEN Made(op, Items(<<"<expr>">>, l.t, Eat(l.s))) ELSE l

Level(n, s) == IF n > Len(Levels) THEN Item("<unary>", s) ELSE Chain(n, Level(n + 1, s))
Chain(n, l) ==
  LET op == Peek(l.s, 0)
      r == Level(n + 1, Eat(l.s)) IN
  IF ~l.ok \/ op \notin Levels[n] THEN l
  ELSE IF ~r.ok THEN r
  ELSE LET b == Done(<<<<op, l.t[1], r.t[1]>>>>, r.s) IN IF op \in RangeOps THEN b ELSE Chain(n, b)

parse_unary(s) ==
  IF Peek(s, 0) \in PrefixOps THEN Made(Peek(s, 0), Item("<unary>", Eat(s))) ELSE Item("<primary>", s)

(* apply_postfix *)
Postfix(r) ==
  LET s == r.s
      called == IsName(Peek(s, 1)) /\ Peek(s, 2) = "("
      with(tag, items) == Postfix(Made(tag, Items(items, r.t, s))) IN
  IF ~r.ok THEN r
  ELSE CASE Peek(s, 0) = "[" -> with("index", <<"[", "<expr>", "]">>)
         [] Peek(s, 0) = ":" /\ s.tern = 0 /\ called -> with("string.", <<":", "<name>", "(", "<args)">>)
         [] Peek(s, 0) = "." /\ called -> with("method", <<".", "<name>", "(", "<args)">>)
         [] Peek(s, 0) = "++" -> with("post++", <<"++">>)
         [] Peek(s, 0) = "--" -> with("post--", <<"--">>)
         [] Peek(s, 0) = "?" -> with("try", <<"?">>)
         [] OTHER -> r

Await(s) ==
  LET r == Item("<primary>", s) IN
  IF r.ok /\ r.t[1][1] = "try" THEN Done(<<<<"try", <<"await", r.t[1][2]>>>>>>, r.s) ELSE Made("await", r)

(* The names that the body of a lambda mentions and its parameters do not bind;
   walkExpr and walkBlock look into these forms and no others. *)
RECURSIVE Mentioned(_, _), MentionedAll(_, _)
MentionedAll(ts, block) == UNION {Mentioned(ts[k], block) : k \in DOMAIN ts}
Mentioned(e, block) ==
  CASE e[1] \in {"id", "member"} -> {e[2]}
    [] e[1] \in UNION {Levels[n] : n \in DOMAIN Levels} \ RangeOps -> MentionedAll(Tail(e), block)
    [] e[1] \in {"index", "?:", "!", "~"} -> MentionedAll(Tail(e), block)
    [] e[1] \in {"await", "try"} -> IF block THEN Mentioned(e[2], block) ELSE {}
    [] e[1] \in {"call", "callstmt", "methodstmt"} -> MentionedAll(e[4], block)
    [] e[1] \in {"method", "string."} -> Mentioned(e[2], block) \cup MentionedAll(e[4], block)
    [] e[1] \in {"return", "print", "expr"} -> MentionedAll(Tail(e), block)
    [] e[1] = "set" -> {<<e[2]>>} \cup Mentioned(e[3], block)
    [] e[1] = "let" -> Mentioned(e[7], block)
    [] e[1] = "if" -> Mentioned(e[2], block) \cup MentionedAll(e[3], block) \cup MentionedAll(e[4], block)
    [] e[1] = "while" -> Mentioned(e[2], block) \cup MentionedAll(e[3], block)
    [] OTHER -> {}
CapturedBlindly(params, body, block) == MentionedAll(body, block)
Captured(params, body, block) ==
  MentionedAll(body, block) \ {<<params[k][1]>> : k \in DOMAIN params}

Lambda(s) ==
  LET head == Items(<<"(", "<lambda params)", "<returns:>">>, <<>>, s)
      arrow == Peek(head.s, 0) \in {"->", "=>"}
      body == IF arrow THEN Item("<expr>", Eat(head.s)) ELSE Item("<body>", head.s) IN
  IF ~head.ok THEN head
  ELSE IF ~body.ok THEN body
  ELSE LET b == IF arrow THEN <<<<"return", body.t[1]>>>> ELSE body.t[1] IN
       Done(<<<<"lambda", head.t[1], head.t[2], b, Captured(head.t[1], b, ~arrow)>>>>, body.s)

Cast(s) == Made("reinterpret_cast", Items(<<"<", "<type>", "<gt?>", "(", "<expr>", ")">>, <<>>, s))
Sizeof(s) ==
  Made("sizeof", IF Peek(s, 0) = "<" THEN Items(<<"<", "<type>", "<gt?>", "<()?>">>, <<>>, s)
                 ELSE Items(<<"(", "<expr>", ")">>, <<>>, s))
IsBaseOf(s) == Made("is_base_of", Items(<<"<", "<type>", ",", "<type>", "<gt?>", "<args?>">>, <<>>, s))

(* Names: variables, calls, members, variants of generic enums. *)
Named(s) ==
  LET name == Path(<<>>, s)
      targs == try_parse_call_type_args(name.s)
      generic == IF targs.t = <<<<>>>> /\ Peek(targs.s, 0) = "<"
                    /\ EndsBefore(targs.s, {"nl", ";", "{", "}"}, ".")
                 THEN parse_type_annotation_angles(targs.s) ELSE Done(<<<<>>>>, targs.s)
      base == name.t[1] \o generic.t[1]
      g == generic.s
      dotted == base \o <<".", Peek(g, 1)>> IN
  IF ~name.ok THEN name
  ELSE IF ~targs.ok THEN targs
  ELSE IF ~generic.ok THEN generic
  ELSE CASE Peek(g, 0) = "(" ->
              Made("call", Items(<<"(", "<args)">>, <<base, targs.t[1]>>, g))
         [] Peek(g, 0) = "." /\ ~IsName(Peek(g, 1)) -> Thrown(Eat(Eat(g)))
         [] Peek(g, 0) = "." /\ Peek(g, 2) = "(" ->
              Made("call", Items(<<"<args)">>, <<dotted, <<>>>>, Eat(Eat(Eat(g)))))
         [] Peek(g, 0) = "." ->
              Done(<<IF Len(base) > 1 THEN <<"call", dotted, <<>>, <<>>>> ELSE <<"member", base, Peek(g, 1)>>>>,
                   Eat(Eat(g)))
         [] OTHER -> Done(<<<<"id", base>>>>, g)

Entries(acc, s) ==
  LET k == Skip(s)
      key == Peek(k, 0)
      e == Items(<<":", "<expr>">>, <<>>, Eat(k))
      more == Append(acc, <<key, e.t[1]>>)
      n == Skip(e.s) IN
  IF ~IsName(key) /\ key \notin Strings \cup Numbers THEN Thrown(Eat(k))
  ELSE IF ~e.ok THEN e
  ELSE CASE Peek(e.s, 0) = "," -> Entries(more, Eat(e.s))
         [] Peek(e.s, 0) \in {"nl", ";"} /\ Peek(n, 0) # "}" -> Entries(more, n)
         [] Peek(n, 0) = "}" -> Done(<<more>>, Eat(n))
         [] OTHER -> Thrown(e.s)
DictLiteral(s) ==
  IF Peek(Skip(s), 0) = "}" THEN Done(<<<<>>>>, Eat(Skip(s))) ELSE Entries(<<>>, Skip(s))

Parenthesised(s) ==
  LET first == Item("<expr>", s)
      rest == Several("<padded>", first.t, Eat(first.s)) IN
  IF Peek(s, 0) = ")" THEN Thrown(Eat(s))
  ELSE IF ~first.ok THEN first
  ELSE IF Peek(first.s, 0) = "," THEN Made("tuple", More(rest, <<")">>))
  ELSE More(first, <<")">>)

parse_primary(s) ==
  LET tk == Peek(s, 0) n == Eat(s) IN
  CASE tk = "await" -> Await(n)
    [] tk = "lambda" -> Lambda(n)
    [] tk = "reinterpret_cast" -> Postfix(Cast(n))
    [] tk = "sizeof" -> Postfix(Sizeof(n))
    [] tk = "typeof" -> Postfix(Made("typeof", Items(<<"(", "<expr>", ")">>, <<>>, n)))
    [] tk = "offsetof" -> Postfix(Made("offsetof", Items(<<"(", "<type>", ",", "<name>", ")">>, <<>>, n)))
    [] tk = "is_base_of" -> Postfix(IsBaseOf(n))
    [] tk = "new" -> Postfix(Made("new", Items(<<"<type>", "<args?>">>, <<>>, n)))
    [] tk \in Strings \cup Numbers \cup {"5s", "true", "false", "null"} -> Postfix(Done(<<<<"lit", tk>>>>, n))
    [] IsName(tk) /\ tk \notin SpecialWords \cup {"lambda", "new", "true", "false", "null"} -> Postfix(Named(s))
    [] tk = "[" -> Postfix(Made("list", IF Peek(Skip(n), 0) = "]" THEN Done(<<<<>>>>, Eat(Skip(n)))
                                        ELSE Items(<<"<elements>", "]">>, <<>>, Skip(n))))
    [] tk = "{" -> Postfix(Made("dict", DictLiteral(n)))
    [] tk = "(" -> Postfix(Parenthesised(n))
    [] OTHER -> Thrown(s)
-----------------------------------------------------------------------------
(* Patterns. *)

RECURSIVE Alternatives(_, _)
PatField(s) ==
  IF ~IsName(Peek(s, 0)) THEN Thrown(Eat(s))
  ELSE IF Peek(s, 1) = ":" THEN Made(Peek(s, 0), Item("<pattern>", Eat(Eat(s))))
  ELSE Done(<<<<Peek(s, 0), <<"bind", Peek(s, 0)>>>>>>, Eat(s))
parse_pattern_atom(top, s) ==
  LET tk == Peek(s, 0) n == Eat(s)
      tuple == More(Several("<skip pattern>", <<>>, n), <<"<skip>", ")">>) IN
  CASE tk = "{" -> Made("struct", IF Peek(n, 0) = "}" THEN Done(<<<<>>>>, Eat(n))
                                  ELSE More(Several("<skip field>", <<>>, n), <<"<skip>", "}">>))
    [] tk = "[" -> Made("array", IF Peek(n, 0) = "]" THEN Done(<<<<>>>>, Eat(n))
                                 ELSE More(Several("<skip pattern>", <<>>, n), <<"<skip>", "]">>))
    [] tk = "(" -> IF Peek(n, 0) = ")" \/ (tuple.ok /\ Len(tuple.t[1]) < 2) THEN Thrown(n) ELSE Made("tuple", tuple)
    [] ~IsName(tk) /\ tk \notin {"{", "[", "("} -> Thrown(n)
    [] tk = "_" /\ Peek(n, 0) # "(" -> Done(<<<<"_">>>>, n)
    [] IsName(tk) /\ Peek(n, 0) = "(" -> Made("ctor", Items(<<"(", "<patterns)">>, <<tk>>, n))
    [] OTHER -> Done(<<IF top THEN <<"ctor", tk, <<>>>> ELSE <<"bind", tk>>>>, n)
Alternatives(acc, s) ==
  LET r == parse_pattern_atom(TRUE, s) IN
  IF r.ok /\ Peek(r.s, 0) = "|" THEN Alternatives(acc \o r.t, Eat(r.s))
  ELSE IF r.ok THEN Done(<<acc \o r.t>>, r.s) ELSE r
TopPattern(s) ==
  LET r == Alternatives(<<>>, s) IN
  IF r.ok /\ Len(r.t[1]) = 1 THEN Done(r.t[1], r.s) ELSE Made("or", r)

-----------------------------------------------------------------------------
(* Statements. *)

RECURSIVE parse_statement(_), Statements(_, _), Cases(_, _, _), CaseBody(_, _), Arms(_, _), parse_if(_), Segments(_, _)

NeedsSemicolon(stmt) ==
  stmt[1] \notin {"if", "switch", "match", "while", "repeat", "for", "forin", "try", "unsafe", "parallel"}

(* synchronize_block: go on after the end of the line. *)
RECURSIVE ToLineEnd(_)
ToLineEnd(s) ==
  CASE Peek(s, 0) \in {"$", "}"} -> s
    [] Peek(s, 0) \in {";", "nl"} -> Eat(s)
    [] OTHER -> ToLineEnd(Eat(s))
SynchronizeLate(s) == Skip(IF ToLineEnd(s).i = s.i THEN Eat(s) ELSE ToLineEnd(Skip(Eat(s))))
Synchronize(s) == Skip(IF ToLineEnd(s).i = s.i /\ Peek(s, 0) # "$" THEN Eat(s) ELSE ToLineEnd(s))

Statements(acc, s) ==
  LET stmt == Item("<statement>", s)
      r == IF stmt.ok /\ NeedsSemicolon(stmt.t[1]) THEN More(stmt, <<";">>) ELSE stmt IN
  IF Peek(s, 0) \in {"$", "}"} THEN Done(<<acc>>, s)
  ELSE IF r.ok THEN Statements(acc \o r.t, Skip(r.s))
  ELSE Statements(acc, Synchronize([r.s EXCEPT !.errs = Append(@, r.s.i)]))
parse_block(implicit, s) ==
  LET braces == Peek(s, 0) = "{"
      b == Statements(<<>>, Skip(EatIf(s, "{"))) IN
  IF ~braces /\ ~implicit THEN Thrown(s) ELSE Done(b.t, IF braces THEN EatIf(b.s, "}") ELSE b.s)

(* if, while, do, repeat *)
ElseBranch(s) ==
  LET e == Skip(s) n == Skip(Eat(e)) IN
  IF Peek(e, 0) # "else" THEN Done(<<<<>>>>, e)
  ELSE IF Peek(n, 0) = "if" THEN LET r == Item("<if>", Eat(n)) IN IF r.ok THEN Done(<<r.t>>, r.s) ELSE r
  ELSE Item("<block>", n)
Condition(s) == IF Peek(s, 0) = "(" THEN Items(<<"(", "<expr>", ")">>, <<>>, s) ELSE Item("<expr>", s)
parse_if(s) == Made("if", Items(<<"<condition>", "<block>", "<else>">>, <<>>, s))

(* for: which of its two forms is it? *)
RECURSIVE EachAhead(_, _)
EachAhead(n, depth) ==
  LET tk == At(n)
      d == CASE tk = "(" -> depth + 1 [] tk = ")" -> depth - 1 [] OTHER -> depth IN
  CASE tk = "$" \/ (tk = ")" /\ d = 0) -> FALSE
    [] d = 1 /\ tk = ";" -> FALSE
    [] d = 1 /\ tk \in {":", "in"} -> TRUE
    [] OTHER -> EachAhead(n + 1, d)
Let(const, name, type, value) == <<"let", const, name, type, <<>>, <<>>, value>>
(* The three assignments a header may hold; r.ok is FALSE when it holds none. *)
HeaderAssignment(s) ==
  LET const == Peek(s, 0) = "const"
      named == Items(<<"=", "<expr>">>, <<>>, IF const THEN Eat(Eat(s)) ELSE Eat(s))
      name == IF const THEN Peek(s, 1) ELSE Peek(s, 0)
      typed == Items(<<"<type>", "<word>", "=", "<expr>">>, <<>>, s) IN
  CASE const -> IF IsWord(name) /\ named.ok THEN Done(<<Let(TRUE, name, <<>>, named.t[1])>>, named.s)
                ELSE Thrown(named.s)
    [] IsWord(name) /\ Peek(s, 1) = "=" ->
         IF named.ok THEN Done(<<<<"set", name, named.t[1]>>>>, named.s) ELSE named
    [] OTHER -> IF typed.ok THEN Done(<<Let(FALSE, typed.t[2], typed.t[1], typed.t[3])>>, typed.s)
                ELSE Thrown(Back(typed.s, s))
Initialiser(s) ==
  LET r == HeaderAssignment(s) IN
  IF Peek(s, 0) = ";" THEN Done(<<<<>>>>, Eat(s))
  ELSE IF r.ok THEN More(Done(<<r.t>>, r.s), <<";">>) ELSE r
Test(s) == IF Peek(s, 0) = ";" THEN Done(<<<<>>>>, Eat(s)) ELSE Items(<<"<expr>", ";">>, <<>>, s)
Step(s) ==
  LET r == HeaderAssignment(s)
      e == Made("expr", Item("<expr>", r.s)) IN
  CASE Peek(s, 0) = ")" -> Done(<<<<>>>>, Eat(s))
    [] r.ok -> More(Done(<<r.t>>, r.s), <<")">>)
    [] ~r.ok /\ r.s.i # s.i -> r
    [] OTHER -> IF e.ok THEN More(Done(<<e.t>>, e.s), <<")">>) ELSE e
parse_for(s) == Made("for", Items(<<"(", "<initialiser>", "<test>", "<step>", "<block>">>, <<>>, s))

LoopVariable(s) ==
  LET typed == IsName(Peek(s, 0)) /\ (IsName(Peek(s, 1)) \/ Peek(s, 1) \in {"&", "*"})
               /\ Peek(s, 2) \in {":", ",", "&", "*", "in"}
      t == IF typed THEN Eat(s) ELSE s
      v == IF Peek(t, 0) \in {"&", "*"} THEN Eat(t) ELSE t IN
  IF IsName(Peek(v, 0)) THEN Done(<<IF typed /\ Peek(s, 0) # "auto" THEN Peek(s, 0) ELSE "", Peek(v, 0)>>, Eat(v)) ELSE Thrown(Eat(v))
parse_for_in_after_lparen(s) ==
  LET k == LoopVariable(s)
      v == IF k.ok /\ Peek(k.s, 0) = "," THEN LoopVariable(Eat(k.s)) ELSE Done(<<"", "">>, k.s) IN
  IF ~k.ok THEN k
  ELSE IF ~v.ok \/ Peek(v.s, 0) \notin {":", "in"} THEN Thrown(v.s)
  ELSE Made("forin", Items(<<"<expr>", ")", "<block>">>, Append(k.t, v.t[2]), Eat(v.s)))

(* switch and match *)
CaseBody(acc, s) ==
  LET r == Item("<statement>", s) IN
  IF Peek(s, 0) \in {"}", "$", "case", "default"} THEN Done(<<acc>>, s)
  ELSE IF r.ok THEN CaseBody(acc \o r.t, Skip(r.s)) ELSE r
parse_case_body(s) == IF Peek(Skip(s), 0) = "{" THEN Item("<block>", Skip(s)) ELSE CaseBody(<<>>, Skip(s))
Cases(cases, dflt, s) ==
  LET v == Peek(s, 1)
      c == Items(<<":", "<case body>">>, <<>>, Eat(Eat(s)))
      d == Items(<<":", "<case body>">>, <<>>, Eat(s)) IN
  CASE Peek(s, 0) = "}" -> Done(<<cases, dflt>>, Eat(s))
    [] Peek(s, 0) = "case" -> IF ~IsName(v) /\ v \notin Strings \cup Numbers THEN Thrown(Eat(Eat(s)))
                              ELSE IF c.ok THEN Cases(Append(cases, <<v, c.t[1]>>), dflt, Skip(c.s)) ELSE c
    [] Peek(s, 0) = "default" -> IF d.ok THEN Cases(cases, d.t, Skip(d.s)) ELSE d
    [] OTHER -> Thrown(s)
Arms(acc, s) ==
  LET p == Item("<top pattern>", Eat(s))
      g == IF p.ok /\ Peek(p.s, 0) = "if" THEN Item("<expr>", Eat(p.s)) ELSE Done(<<<<>>>>, p.s)
      colon == IF ~p.ok THEN p ELSE IF ~g.ok THEN g ELSE More(Done(p.t \o g.t, g.s), <<":", "<skip>">>)
      stmt == Item("<statement>", colon.s)
      body == IF Peek(colon.s, 0) = "{" THEN Item("<block>", colon.s)
              ELSE IF stmt.ok THEN Done(<<stmt.t>>, stmt.s) ELSE stmt IN
  CASE Peek(s, 0) = "}" -> Done(<<acc>>, Eat(s))
    [] Peek(s, 0) # "case" /\ Peek(s, 0) # "}" -> Thrown(s)
    [] OTHER -> IF ~colon.ok THEN colon
                ELSE IF ~body.ok THEN body
                ELSE Arms(Append(acc, colon.t \o body.t), Skip(body.s))
(* What a variable of a declared type holds when the declaration says nothing. *)
make_default_initializer_for_declared_type(type) ==
  CASE type = <<"bool">> -> <<"lit", "false">>
    [] type \in {<<"string">>, <<"char">>} -> <<"lit", "''">>
    [] type \in {<<"int">>, <<"u8">>, <<"i64">>, <<"double">>, <<"float">>} -> <<"lit", "0">>
    [] type[1] = "array" -> <<"list", <<>>>>
    [] type[1] = "map" -> <<"dict", <<>>>>
    [] type[1] = "set" -> <<"call", <<"set_new">>, <<>>, <<>>>>
    [] OTHER -> <<"lit", "null">>
TypedDeclaration(s) ==
  LET d == Items(<<"<type>", "<name>", "<size>">>, <<>>, s)
      v == IF Peek(d.s, 0) = "=" THEN Item("<expr>", Eat(d.s))
           ELSE Done(<<make_default_initializer_for_declared_type(d.t[1])>>, d.s) IN
  IF ~d.ok THEN d
  ELSE IF v.ok THEN Done(<<<<"let", FALSE, d.t[2], d.t[1], <<>>, d.t[3], v.t[1]>>>>, v.s) ELSE v

(* let and const: a name, or a pattern to take the value apart. *)
Binding(const, s) ==
  LET k == Peek(s, 0)
      apart == k \in {"{", "[", "("} \/ (IsName(k) /\ Peek(s, 1) = "(")
               \/ (const /\ k \in {"None", "Ok", "Some"} /\ Peek(s, 1) = "=")
      p == Items(<<"<top pattern>", "=", "<expr>">>, <<>>, s)
      dict == const /\ Peek(s, 1) = "{"
      e == Item("<expr>", EatIf(Eat(s), "=")) IN
  CASE apart -> IF p.ok THEN Done(<<<<"let", const, "", <<>>, p.t[1], <<>>, p.t[2]>>>>, p.s) ELSE p
    [] ~apart /\ (Peek(s, 1) = "=" \/ dict) /\ (IF const THEN IsWord(k) ELSE IsName(k)) ->
         IF e.ok THEN Done(<<Let(const, k, <<>>, e.t[1])>>, e.s) ELSE e
    [] OTHER -> Thrown(IF const THEN Eat(s) ELSE [s EXCEPT !.i = @ - 1])

Return(s) ==
  IF Peek(s, 0) \in {"}", ";", "nl", "$"} THEN Done(<<<<"return">>>>, s) ELSE Made("return", Item("<expr>", s))
Sleep(s) ==
  LET n == EatIf(s, "(")
      t == IF Peek(n, 0) \in Numbers /\ Peek(n, 1) = "ms" THEN Eat(Eat(n)) ELSE Eat(n) IN
  IF Peek(n, 0) \notin Numbers \cup {"5s"} THEN Thrown(Eat(n))
  ELSE IF Peek(s, 0) = "(" THEN More(Done(<<<<"sleep", Peek(n, 0)>>>>, t), <<")">>)
  ELSE Done(<<<<"sleep", Peek(n, 0)>>>>, t)

(* a.b = e, a.b(...), a.b.c(...) *)
Segments(acc, s) ==
  CASE Peek(s, 0) = "." /\ IsName(Peek(s, 1)) -> Segments(acc \o <<".", Peek(s, 1)>>, Eat(Eat(s)))
    [] Peek(s, 0) = "." /\ ~IsName(Peek(s, 1)) -> Thrown(Eat(Eat(s)))
    [] OTHER -> Done(<<acc>>, s)
Dotted(s) ==
  LET path == Segments(<<Peek(s, 0)>>, Eat(s))
      args == More(path, <<"(", "<args)">>) IN
  IF IsName(Peek(s, 2)) /\ Peek(s, 3) = "="
  THEN Made("member set", Items(<<"<expr>">>, <<Peek(s, 0), Peek(s, 2)>>, Eat(Eat(Eat(Eat(s))))))
  ELSE IF ~args.ok THEN args
  ELSE IF Len(path.t[1]) = 3 THEN Done(<<<<"methodstmt", path.t[1][1], path.t[1][3], args.t[2]>>>>, args.s)
  ELSE Done(<<<<"callstmt", path.t[1], <<>>, args.t[2]>>>>, args.s)
IndexSet(s) ==
  Made("index set", Items(<<"[", "<expr>", "]", "=", "<expr>">>, <<<<"id", <<Peek(s, 0)>>>>>>, Eat(s)))
CallStatement(s) ==
  LET name == Path(<<>>, s)
      targs == try_parse_call_type_args(name.s) IN
  IF Peek(s, 0) \in SpecialWords THEN Made("expr", Item("<expr>", s))
  ELSE IF ~IsName(Peek(s, 0)) THEN Thrown(s)
  ELSE IF ~name.ok THEN name
  ELSE IF ~targs.ok THEN targs
  ELSE Made("callstmt", Items(<<"(", "<args)">>, name.t \o targs.t, targs.s))
Assignment(s) ==
  LET tk == Peek(s, 0) op == Peek(s, 1) rest == Eat(Eat(s))
      operand == <<"id", <<tk>>>>
      index == IndexSet(s) IN
  CASE op = "[" -> IF index.ok THEN index ELSE CallStatement(Back(index.s, s))
    [] op = "." -> Dotted(s)
    [] op = "=" -> Made("set", Items(<<"<expr>">>, <<tk>>, rest))
    [] op \in CompoundOps -> Made("expr", Made(op, Items(<<"<expr>">>, <<operand>>, rest)))
    [] op \in {"++", "--"} -> Done(<<<<"expr", <<IF op = "++" THEN "post++" ELSE "post--", operand>>>>>>, rest)
    [] OTHER -> CallStatement(s)

Keyworded(tk, n) ==
  CASE tk \in {"break", "continue", "pause"} -> Done(<<<<tk>>>>, n)
    [] tk \in {"unsafe", "parallel"} -> Made(tk, Item("<block>", n))
    [] tk = "if" -> Item("<if>", n)
    [] tk = "try" -> Made("try", Items(<<"<block>", "<skip>", "catch", "<catch variable>", "<block>">>, <<>>, n))
    [] tk = "match" -> Made("match", Items(<<"<condition>", "{", "<skip>", "<arms>">>, <<>>, n))
    [] tk = "while" -> Made("while", Items(<<"(", "<expr>", ")", "<block>">>, <<>>, n))
    [] tk = "do" -> Made("do", Items(<<"<block>", "while", "(", "<expr>", ")">>, <<>>, n))
    [] tk = "repeat" -> Made("repeat", Items(<<"<expr>", "<block>">>, <<>>, n))
    [] tk = "for" -> IF Peek(n, 0) = "(" /\ EachAhead(n.i, 0) THEN parse_for_in_after_lparen(Eat(n)) ELSE parse_for(n)
    [] tk = "print" -> Made("print", Item("<expr>", n))
    [] tk = "sleep" -> Sleep(n)
    [] tk = "let" -> Binding(FALSE, n)
    [] tk = "const" -> Binding(TRUE, n)
    [] tk = "return" -> Return(n)
    [] tk = "wait" -> Made("wait", Items(<<"all">>, <<>>, n))
    [] tk \in {"input", "fire"} -> Made(tk, Items(<<"<word>">>, <<>>, n))
    [] tk = "switch" -> Made("switch", Items(<<"<expr>", "{", "<skip>", "<cases>">>, <<>>, n))
    [] tk = "run" -> LET p == Path(<<>>, n) IN Made("callstmt", IF p.ok THEN Done(p.t \o <<<<>>, <<>>>>, p.s) ELSE p)
StatementWords ==
  {"break", "continue", "pause", "unsafe", "parallel", "if", "try", "match", "while", "do", "repeat", "for", "print",
   "sleep", "let", "const", "return", "wait", "input", "fire", "switch", "run"}

parse_statement(s) ==
  LET tk == Peek(s, 0)
      store == Made("pointer set", Items(<<"*", "<unary>", "=", "<expr>">>, <<>>, s))
      s1 == IF tk = "*" THEN Back(store.s, s) ELSE s
      typed == TypedDeclaration(s1)
      s2 == Back(typed.s, s1) IN
  CASE tk = "*" /\ store.ok -> store
    [] tk \in StatementWords -> Keyworded(tk, Eat(s))
    [] is_probable_type_start(tk) /\ typed.ok /\ ~(tk = "*" /\ store.ok) -> typed
    [] is_probable_type_start(tk) /\ ~typed.ok -> IF IsName(tk) THEN Assignment(s2) ELSE Thrown(s2)
    [] tk \in {"++", "--"} -> Made("expr", Made(tk, Item("<unary>", Eat(s))))
    [] OTHER -> IF IsName(tk) THEN Assignment(s) ELSE Thrown(s)
-----------------------------------------------------------------------------
(* Declarations. *)

RECURSIVE parse_attributes(_, _), Modifiers(_, _, _, _), Members(_, _, _)

parse_attributes(acc, s) ==
  LET list == Peek(s, 0) = "["
      n == Eat(s)
      arg == Peek(n, 1) = "("
      v == Peek(n, 2)
      a == IF arg THEN <<Peek(n, 0), v>> ELSE <<Peek(n, 0)>>
      r == Items((IF arg THEN <<")">> ELSE <<>>) \o (IF list THEN <<"]">> ELSE <<>>), <<>>,
                 IF arg THEN Eat(Eat(Eat(n))) ELSE Eat(n)) IN
  IF Peek(s, 0) \notin {"@", "["} THEN Done(<<acc>>, s)
  ELSE IF ~IsName(Peek(n, 0)) \/ (arg /\ ~IsName(v) /\ v \notin Strings \cup Numbers) THEN Thrown(Eat(n))
  ELSE IF r.ok THEN parse_attributes(Append(acc, a), Skip(r.s)) ELSE r

(* Modifiers before a declaration, the last visibility counting; apart: line breaks
   may come between them. *)
Plain == [flags |-> {}, vis |-> "public"]
Modifiers(words, apart, m, s) ==
  LET tk == Peek(s, 0)
      next == IF apart THEN Skip(Eat(s)) ELSE Eat(s) IN
  IF tk \notin words THEN Done(<<m>>, s)
  ELSE Modifiers(words, apart, IF tk \in {"public", "private"} THEN [m EXCEPT !.vis = tk]
                               ELSE [m EXCEPT !.flags = @ \cup {tk}], next)
Visibilities == {"public", "private"}

(* name: type, type name, or a name alone where untyped parameters are allowed *)
parse_param_decl(lambda, s) ==
  LET colon == Items(<<"<name>", ":", "<type>">>, <<>>, s)
      typed == Items(<<"<type>", "<name>">>, <<>>, s)
      next == Peek(s, 1) IN
  CASE ~IsName(Peek(s, 0)) -> Thrown(Eat(s))
    [] next = ":" -> IF colon.ok THEN Done(<<colon.t>>, colon.s) ELSE colon
    [] IsName(next) \/ next \in {"<", "::"} \cup (IF lambda THEN {} ELSE {"*", "&"}) ->
         IF typed.ok THEN Done(<<<<typed.t[2], typed.t[1]>>>>, typed.s) ELSE typed
    [] OTHER -> IF lambda THEN Thrown(Eat(s)) ELSE Done(<<<<Peek(s, 0), <<>>>>>>, Eat(s))
OptionalType(before, s) ==
  IF Peek(s, 0) \in before THEN Item("<type>", Eat(s)) ELSE Done(<<<<>>>>, s)

qualify_name(s, path) == IF s.ns = <<>> THEN path ELSE s.ns[Len(s.ns)] \o path
parse_action(s) ==
  LET a == Item("<attributes>", s)
      m == Modifiers(Visibilities \cup {"export", "async"}, FALSE, Plain, a.s)
      typed == Peek(m.s, 0) # "action" /\ is_probable_type_start(Peek(m.s, 0))
      front == IF typed THEN Item("<type>", m.s) ELSE Done(<<<<>>>>, EatIf(m.s, "action"))
      head == More(front, <<"<name>", "<typeparams>">>)
      params == IF head.ok /\ Peek(head.s, 0) = "(" THEN More(head, <<"(", "<params)">>)
                ELSE More(head, <<"<nothing>">>)
      returns == IF params.ok THEN OptionalType({":", "->", "=>"}, params.s) ELSE params
      body == More(returns, <<"<body>">>)
      name == IF s.meth THEN <<head.t[2]>> ELSE qualify_name(s, <<head.t[2]>>) IN
  IF ~a.ok THEN a
  ELSE IF ~body.ok THEN body
  ELSE Done(<<<<"action", a.t[1], m.t[1], name, params.t[3], params.t[4],
                IF returns.t[1] = <<>> THEN front.t[1] ELSE returns.t[1], body.t[2]>>>>, body.s)
parse_hook(s) ==
  LET r == More(Item("<attributes>", s), <<"hook", "<name>", "<body>">>) IN
  IF r.ok THEN Done(<<<<"hook", r.t[1], qualify_name(s, <<r.t[2]>>), r.t[3]>>>>, r.s) ELSE r
parse_global(s) ==
  LET a == Item("<attributes>", s)
      m == Modifiers(Visibilities \cup {"export"}, TRUE, Plain, a.s)
      g == Items(<<"<skip>", "global">>, m.t, m.s)
      typed == Peek(g.s, 0) \in {"string", "int", "bool", "double", "float", "list", "dict"}
      r == Items(<<"<name>", "=", "<expr>">>, <<IF typed THEN Peek(g.s, 0) ELSE "">>, IF typed THEN Eat(g.s) ELSE g.s) IN
  IF ~a.ok THEN a ELSE IF ~g.ok THEN g
  ELSE IF r.ok THEN Done(<<<<"global", g.t[1], r.t[1], qualify_name(s, <<r.t[2]>>), r.t[3]>>>>, r.s) ELSE r
parse_extern_decl(s) ==
  LET r == Items(<<"<name>", "<params?>", "<returns:>">>, <<>>, EatIf(Eat(s), "action")) IN
  IF Peek(s, 0) # "extern" THEN Thrown(s)
  ELSE IF r.ok THEN Done(<<<<"extern", qualify_name(s, <<r.t[1]>>), r.t[2], r.t[3]>>>>, r.s) ELSE r
(* struct, enum, type and trait forget their attributes and modifiers. *)
Bare(word, s) ==
  LET a == Item("<attributes>", s)
      m == Modifiers(Visibilities \cup {"export"}, TRUE, Plain, a.s) IN
  IF a.ok THEN Items(<<word>>, <<>>, m.s) ELSE a
parse_type_alias(s) ==
  LET r == More(Bare("type", s), <<"<path>", "<typeparams>", "=", "<type>">>) IN
  IF r.ok THEN Done(<<<<"alias", qualify_name(s, r.t[1]), r.t[2], r.t[3]>>>>, r.s) ELSE r

RECURSIVE NamedImports(_, _), ImportPath(_, _, _)
NamedImports(acc, s) ==
  LET r == Items(<<"<skip>", "<name>", "<skip>">>, acc, s) IN
  IF r.ok /\ Peek(r.s, 0) = "," THEN NamedImports(r.t, Eat(r.s))
  ELSE IF r.ok THEN More(Done(<<r.t>>, r.s), <<"}", "from">>) ELSE r
ImportPath(angled, acc, s) ==
  LET tk == Peek(s, 0) n == Eat(s) IN
  CASE angled /\ tk \in {">", "$"} -> IF tk = ">" /\ acc # <<>> THEN Done(<<acc>>, n) ELSE Thrown(s)
    [] angled /\ tk \in {"nl", ";"} -> Thrown(n)
    [] ~angled /\ acc # <<>> /\ tk \in {"$", "nl", ";", "as", ","} -> Done(<<acc>>, s)
    [] ~angled /\ acc = <<>> /\ ~(IsName(tk) \/ tk = "/" \/ tk \in Strings) -> Thrown(n)
    [] ~angled /\ acc = <<>> /\ tk \in Strings -> Done(<<<<tk>>>>, n)
    [] OTHER -> ImportPath(angled, Append(acc, tk), n)
(* The name of the file without its directories and extensions. *)
DefaultAlias(path) ==
  LET slashes == {0} \cup {k \in 1..Len(path) - 1 : path[k] = "/"} IN
  path[1 + CHOOSE k \in slashes : \A l \in slashes : l <= k]
parse_import_decl(s) ==
  LET names == IF Peek(s, 0) = "{" THEN NamedImports(<<>>, Skip(Eat(s))) ELSE Done(<<<<>>>>, s)
      angled == Peek(names.s, 0) = "<"
      path == ImportPath(angled, <<>>, IF angled THEN Eat(names.s) ELSE names.s)
      as == Items(<<"<name>">>, <<>>, Eat(path.s)) IN
  IF ~names.ok THEN names
  ELSE IF ~path.ok THEN path
  ELSE IF Peek(path.s, 0) = "as"
  THEN IF as.ok THEN Done(<<<<"import", names.t[1], path.t[1], as.t[1]>>>>, as.s) ELSE as
  ELSE Done(<<<<"import", names.t[1], path.t[1],
                IF names.t[1] = <<>> THEN DefaultAlias(path.t[1]) ELSE "">>>>, path.s)

(* What follows attributes, modifiers and a type, seen from afar. *)
RECURSIVE AttributesEnd(_, _), ModifiersEnd(_, _, _), TypeEnd(_, _, _), SeparatorsEnd(_, _)
SeparatorsEnd(s, k) == IF Peek(s, k) \in {"nl", ";"} THEN SeparatorsEnd(s, k + 1) ELSE k
AttributesEnd(s, k) ==
  LET arg == IF Peek(s, k + 2) = "(" THEN 3 ELSE 0
      close == IF Peek(s, k) = "[" /\ Peek(s, k + 2 + arg) = "]" THEN 1 ELSE 0 IN
  IF Peek(s, k) \in {"@", "["} THEN AttributesEnd(s, SeparatorsEnd(s, k + 2 + arg + close)) ELSE k
ModifiersEnd(s, k, words) ==
  IF Peek(s, k) \in words THEN ModifiersEnd(s, SeparatorsEnd(s, k + 1), words) ELSE k
TypeEnd(s, k, depth) ==
  CASE Peek(s, k) = "<" -> TypeEnd(s, k + 1, depth + 1)
    [] Peek(s, k) = ">" /\ depth > 0 -> TypeEnd(s, k + 1, depth - 1)
    [] Peek(s, k) = "$" -> k
    [] OTHER -> IF depth > 0 \/ Peek(s, k) \in {"*", "&", "nl", ";"} THEN TypeEnd(s, k + 1, depth) ELSE k
MethodAhead(kind, s) ==
  LET words == Visibilities \cup {"export"} \cup (IF kind = "entity" THEN {} ELSE {"async"})
      k == ModifiersEnd(s, AttributesEnd(s, 0), words)
      e == TypeEnd(s, k + 1, 0) IN
  \/ Peek(s, k) = "action"
  \/ kind = "entity" /\ is_probable_type_start(Peek(s, k)) /\ IsName(Peek(s, e)) /\ Peek(s, e + 1) = "("
Method(s) == LET r == Item("<action>", [s EXCEPT !.meth = TRUE]) IN IF r.ok THEN [r EXCEPT !.s.meth = FALSE] ELSE r

EntityField(s) ==
  LET a == Item("<attributes>", s)
      seen == Peek(a.s, 0) \in Visibilities
      first == EatIf(IF seen THEN Eat(a.s) ELSE a.s, "field")
      named == Items(<<"<name>", ":", "<type>">>, <<>>, first)
      d == CASE Peek(first, 1) = ":" -> named
             [] IsName(Peek(first, 1)) -> Done(<<Peek(first, 1), <<Peek(first, 0)>>>>, Eat(Eat(first)))
             [] OTHER -> Done(<<Peek(first, 0), <<>>>>, Eat(first))
      v == IF d.ok /\ Peek(d.s, 0) = "=" THEN Item("<expr>", Eat(d.s)) ELSE Done(<<<<>>>>, d.s) IN
  IF ~a.ok THEN a ELSE IF ~IsName(Peek(first, 0)) THEN Thrown(Eat(first)) ELSE IF ~d.ok THEN d
  ELSE IF v.ok THEN Done(<<<<"field", a.t[1], IF seen THEN Peek(a.s, 0) ELSE "public", d.t[1], d.t[2], v.t[1]>>>>,
                         EatIf(v.s, ";")) ELSE v
StructField(s) ==
  LET next == Peek(s, 1)
      colon == Items(<<"<name>", ":", "<type>">>, <<>>, s)
      typed == Items(<<"<type>", "<name>">>, <<>>, s)
      r == IF next = ":" THEN colon
           ELSE IF typed.ok THEN Done(<<typed.t[2], typed.t[1]>>, typed.s) ELSE typed IN
  CASE ~IsName(Peek(s, 0)) -> Thrown(Eat(s))
    [] IsName(Peek(s, 0)) /\ ~IsName(next) /\ next \notin {":", "<", "::", "*", "&"} -> Thrown(Eat(Eat(s)))
    [] OTHER -> IF r.ok THEN Done(<<<<"field">> \o r.t>>, EatIf(r.s, ";")) ELSE r
Variant(s) ==
  LET p == IF Peek(s, 1) = "(" THEN Enclosed("<type>", ")", Eat(Eat(s))) ELSE Done(<<<<>>>>, Eat(s)) IN
  IF ~IsName(Peek(s, 0)) THEN Thrown(Eat(s))
  ELSE IF p.ok THEN Done(<<<<"variant", Peek(s, 0), p.t[1]>>>>, EatIf(EatIf(p.s, ","), ";")) ELSE p
Required(s) ==
  LET v == EatIf(EatIf(s, "public"), "private")
      m == Items(<<"<name>", "(", "<params)">>, <<>>, EatIf(v, "action"))
      to == OptionalType({":", "->", "=>"}, m.s) IN
  CASE Peek(v, 0) = "type" -> IF IsName(Peek(v, 1)) THEN Done(<<<<"type", Peek(v, 1)>>>>, EatIf(Eat(Eat(v)), ";"))
                              ELSE Thrown(Eat(Eat(v)))
    [] OTHER -> IF ~m.ok THEN m
                ELSE IF to.ok THEN Done(<<<<"required", m.t[1], m.t[2], to.t[1]>>>>, EatIf(to.s, ";")) ELSE to
Member(kind, s) ==
  CASE kind = "trait" -> Required(s)
    [] kind # "trait" /\ MethodAhead(kind, s) -> Method(s)
    [] OTHER -> IF kind = "entity" THEN EntityField(s) ELSE IF kind = "struct" THEN StructField(s) ELSE Variant(s)
MoreMembers(kind, acc, r) == IF r.ok THEN Members(kind, acc \o r.t, Skip(r.s)) ELSE r
Members(kind, acc, s) ==
  CASE Peek(s, 0) = "}" -> Done(<<acc>>, Eat(s))
    [] Peek(s, 0) = "$" -> Thrown(s)
    [] OTHER -> MoreMembers(kind, acc, Member(kind, s))
Closed(head, ms) == IF ms.ok THEN Done(<<Append(head, ms.t[1])>>, ms.s) ELSE ms
WithMembers(kind, r) ==
  LET open == More(r, <<"{", "<skip>">>) IN
  IF open.ok THEN Closed(open.t[1], Members(kind, <<>>, open.s)) ELSE open

parse_entity(s) ==
  LET a == Item("<attributes>", s)
      x == EatIf(a.s, "export")
      seen == Peek(x, 0) \in Visibilities
      head == Items(<<"entity", "<name>", "<typeparams>">>, <<>>, IF seen THEN Eat(x) ELSE x)
      base == OptionalType({":"}, head.s) IN
  IF ~a.ok THEN a ELSE IF ~head.ok THEN head ELSE IF ~base.ok THEN base
  ELSE WithMembers("entity",
         Done(<<<<"entity", a.t[1], [flags |-> {"export"} \cap {Peek(a.s, 0)},
                                     vis |-> IF seen THEN Peek(x, 0) ELSE "public"],
                  qualify_name(s, <<head.t[1]>>), head.t[2], base.t[1]>>>>, base.s))
parse_struct(kind, s) ==
  LET r == More(Bare(kind, s), <<"<name>", "<typeparams>">>) IN
  WithMembers(kind, IF r.ok THEN Done(<<<<kind, qualify_name(s, <<r.t[1]>>), r.t[2]>>>>, r.s) ELSE r)

(* namespace a::b { -- the closing brace is met between declarations. *)
RECURSIVE NamespaceName(_, _)
NamespaceName(acc, s) ==
  LET p == Append(acc, Peek(s, 0)) IN
  IF ~IsName(Peek(s, 0)) THEN Thrown(Eat(s))
  ELSE IF Peek(s, 1) \in {"::", "."} THEN NamespaceName(p, Eat(Eat(s))) ELSE More(Done(<<p>>, Eat(s)), <<"{">>)
Namespace(s) ==
  LET r == NamespaceName(<<>>, s) IN
  IF r.ok THEN Done(<<>>, [r.s EXCEPT !.ns = Append(@, qualify_name(s, r.t[1]))]) ELSE r
RunTarget(s) ==
  LET r == Items(<<"<path>">>, <<>>, s) IN
  IF r.ok THEN More(Done(<<<<"run", qualify_name(s, r.t[1])>>>>, r.s), <<";">>) ELSE r

Anchors == {"action", "entity", "hook", "global", "import", "struct", "enum", "type", "extern", "namespace", "run"}
(* synchronize_top_level: past the braces of what went wrong. *)
RECURSIVE ToNextDeclaration(_, _)
ToNextDeclaration(depth, s) ==
  LET tk == Peek(s, 0) n == Eat(s) IN
  CASE tk = "$" -> s
    [] tk = "{" -> ToNextDeclaration(depth + 1, n)
    [] tk = "}" -> IF depth > 1 THEN ToNextDeclaration(depth - 1, n) ELSE n
    [] depth = 0 /\ tk \in Anchors -> s
    [] depth = 0 /\ tk \in {";", "nl"} -> n
    [] OTHER -> ToNextDeclaration(depth, n)
SynchronizeTop(s) ==
  LET n == ToNextDeclaration(0, s) IN Skip(IF n.i = s.i /\ Peek(s, 0) # "$" THEN Eat(n) ELSE n)

classify_next(s) ==
  LET k == ModifiersEnd(s, AttributesEnd(s, SeparatorsEnd(s, 0)), Visibilities \cup {"export", "async"})
      tk == Peek(s, k) IN
  CASE ~IsName(tk) -> ""
    [] IsName(tk) /\ is_probable_type_start(tk) -> "action"
    [] OTHER -> IF tk \in Anchors \cup {"trait"} THEN tk ELSE ""
Declaration(kind, s) ==
  CASE kind = "action" -> Item("<action>", s)
    [] kind = "entity" -> parse_entity(s)
    [] kind = "hook" -> parse_hook(s)
    [] kind = "global" -> More(parse_global(s), <<";">>)
    [] kind = "extern" -> More(parse_extern_decl(s), <<";">>)
    [] kind = "import" -> More(parse_import_decl(Eat(s)), <<";">>)
    [] kind \in {"struct", "enum", "trait"} -> parse_struct(kind, s)
    [] kind = "type" -> parse_type_alias(s)
    [] kind = "namespace" -> Namespace(Eat(s))
    [] kind = "run" -> RunTarget(Eat(s))
    [] OTHER -> Thrown(s)

RECURSIVE Declarations(_, _), Directives(_, _), PastArguments(_, _)
PastArguments(depth, s) ==
  IF depth = 0 \/ Peek(s, 0) = "$" THEN s
  ELSE PastArguments(CASE Peek(s, 0) = "(" -> depth + 1 [] Peek(s, 0) = ")" -> depth - 1 [] OTHER -> depth, Eat(s))
DanglingAttribute(s) ==
  LET n == Eat(s) IN
  Skip(IF ~IsName(Peek(n, 0)) THEN n
       ELSE IF Peek(n, 1) = "(" THEN PastArguments(1, Eat(Eat(n))) ELSE Eat(n))
Failed(r) == SynchronizeTop([r.s EXCEPT !.errs = Append(@, r.s.i)])
Declarations(acc, s) ==
  LET kind == classify_next(s)
      r == Item("<declaration>", IF kind = "" THEN Skip(s) ELSE s) IN
  CASE Peek(s, 0) = "$" -> Done(acc, s)
    [] Peek(s, 0) = "}" ->
         Declarations(acc, Skip([Eat(s) EXCEPT !.ns = IF @ = <<>> THEN @ ELSE SubSeq(@, 1, Len(@) - 1)]))
    [] kind = "" /\ Peek(Skip(s), 0) = "@" -> Declarations(acc, DanglingAttribute(Skip(s)))
    [] OTHER -> IF r.ok THEN Declarations(acc \o r.t, Skip(r.s)) ELSE Declarations(acc, Failed(r))
Directives(acc, s) ==
  LET n == Eat(s)
      v == Peek(n, 2)
      arg == More(Done(<<<<"directive", Peek(n, 0), v>>>>, Eat(Eat(Eat(n)))), <<")">>)
      r == CASE ~IsName(Peek(n, 0)) -> Thrown(Eat(n))
             [] IsName(Peek(n, 0)) /\ Peek(n, 1) # "(" -> Done(<<<<"directive", Peek(n, 0), "">>>>, Eat(n))
             [] OTHER -> IF IsWord(v) \/ v \in Strings \cup Numbers THEN arg ELSE Thrown(Eat(Eat(Eat(n)))) IN
  IF Peek(s, 0) # "@" THEN Done(acc, s)
  ELSE IF r.ok THEN Directives(acc \o r.t, Skip(r.s)) ELSE Directives(acc, Failed(r))
WholeProgram(start) ==
  LET head == IF Peek(start, 0) = "@" /\ Peek(start, 1) = "erelang" THEN Skip(Eat(Eat(start))) ELSE start
      d == Directives(<<>>, head) IN
  Declarations(d.t, d.s)
Outcome(p) == [decls |-> p.t, errs |-> IF p.s.ns = <<>> THEN p.s.errs ELSE Append(p.s.errs, p.s.i)]
parse_program == Outcome(Item("<program>", Skip(ParserState)))
-----------------------------------------------------------------------------
(* What the names of items stand for. *)

Optional(tk, item, s) == IF Peek(s, 0) = tk THEN Item(item, Eat(s)) ELSE Done(<<<<>>>>, s)
Item(x, s) ==
  LET tk == Peek(s, 0) IN
  CASE x = "<expr>" -> parse_expression(s)
    [] x = "<coalesce>" -> Level(1, s)
    [] x = "<unary>" -> parse_unary(s)
    [] x = "<primary>" -> parse_primary(s)
    [] x = "<name>" -> IF IsName(tk) THEN Done(<<tk>>, Eat(s)) ELSE Thrown(Eat(s))
    [] x = "<word>" -> IF IsWord(tk) THEN Done(<<tk>>, Eat(s)) ELSE Thrown(Eat(s))
    [] x = "<path>" -> Path(<<>>, s)
    [] x = "<type>" -> parse_type_annotation(s)
    [] x = "<typeparam>" -> TypeParam(s)
    [] x = "<typeparams>" -> parse_type_param_list(s)
    [] x = "<param>" -> parse_param_decl(FALSE, s)
    [] x = "<lambda param>" -> parse_param_decl(TRUE, s)
    [] x = "<types)" -> Enclosed("<type>", ")", s)
    [] x = "<params)" -> Enclosed("<param>", ")", s)
    [] x = "<lambda params)" -> Enclosed("<lambda param>", ")", s)
    [] x = "<args)" -> Enclosed("<expr>", ")", s)
    [] x = "<patterns)" -> Enclosed("<pattern>", ")", s)
    [] x = "<params?>" -> Optional("(", "<params)", s)
    [] x = "<args?>" -> Optional("(", "<args)", s)
    [] x = "<returns:>" -> OptionalType({":"}, s)
    [] x = "<gt?>" -> Done(<<>>, EatIf(s, ">"))
    [] x = "<()?>" -> IF tk = "(" THEN Items(<<")">>, <<>>, Eat(s)) ELSE Done(<<>>, s)
    [] x = "<padded>" -> parse_expression(Skip(s))
    [] x = "<element>" -> Items(<<"<skip>", "<expr>", "<skip>">>, <<>>, s)
    [] x = "<elements>" -> Several("<element>", <<>>, s)
    [] x = "<pattern>" -> parse_pattern_atom(FALSE, s)
    [] x = "<skip pattern>" -> parse_pattern_atom(FALSE, Skip(s))
    [] x = "<skip field>" -> PatField(Skip(s))
    [] x = "<top pattern>" -> TopPattern(s)
    [] x = "<skip>" -> Done(<<>>, Skip(s))
    [] x = "<nothing>" -> Done(<<<<>>>>, s)
    [] x = "<block>" -> parse_block(FALSE, s)
    [] x = "<body>" -> parse_block(TRUE, s)
    [] x = "<statement>" -> parse_statement(s)
    [] x = "<if>" -> parse_if(s)
    [] x = "<attributes>" -> parse_attributes(<<>>, s)
    [] x = "<action>" -> parse_action(s)
    [] x = "<declaration>" -> Declaration(classify_next(s), s)
    [] x = "<program>" -> WholeProgram(s)
    [] x = "<condition>" -> Condition(s)
    [] x = "<else>" -> ElseBranch(s)
    [] x = "<initialiser>" -> Initialiser(s)
    [] x = "<test>" -> Test(s)
    [] x = "<step>" -> Step(s)
    [] x = "<case body>" -> parse_case_body(s)
    [] x = "<cases>" -> Cases(<<>>, <<>>, s)
    [] x = "<arms>" -> Arms(<<>>, s)
    [] x = "<catch variable>" -> IF tk = "(" THEN Items(<<"(", "<name>", ")">>, <<>>, s) ELSE Done(<<"error">>, s)
    [] x = "<size>" -> IF tk = "{" THEN Items(<<"{", "<expr>", "}">>, <<>>, s) ELSE Done(<<<<>>>>, s)
    [] OTHER -> IF tk = x THEN Done(<<>>, Eat(s)) ELSE Thrown(s)
=============================================================================
