------------------------------- MODULE Syntax --------------------------------
(* How a program is written down, apart from the parser: parentheses where C needs
   them, one statement on a line.  The parser has to read it back, and a slip in
   one line has to stay in that line. *)
EXTENDS Parser

CONSTANT PrsSlips \* how many lines get damaged
VARIABLES prsTree, \* the declarations as they were meant
          prsHurt, \* the lines of which a token got lost
          prsOut   \* <<what the parser made of prsTokens>> once it ran
prsVars == <<prsTree, prsTokens, prsHurt, prsOut>>

RECURSIVE Joined(_, _)
Joined(sep, ts) ==
  IF ts = <<>> THEN <<>> ELSE IF Len(ts) = 1 THEN ts[1] ELSE ts[1] \o sep \o Joined(sep, Tail(ts))
Commas(ts) == Joined(<<",">>, ts)
Lines(ts) == Joined(<<>>, [k \in DOMAIN ts |-> ts[k] \o <<"nl">>])
In(open, ts, close) == <<open>> \o ts \o <<close>>

(* 0 takes in everything to its right, 13 are prefixes, 14 names and postfixes. *)
Binds(e) ==
  LET tag == e[1] IN
  CASE tag \in {"+=", "-=", "*=", "/=", "%=", "**=", "lambda"} -> 0
    [] tag = "??" -> 1
    [] tag = "||" -> 2
    [] tag = "&&" -> 3
    [] tag = "|" -> 4
    [] tag = "^" -> 5
    [] tag = "&" /\ Len(e) = 3 -> 6
    [] tag \in {"==", "!=", "===", "!=="} -> 7
    [] tag \in {"<", "<=", ">", ">="} -> 8
    [] tag \in {"..", "..<"} -> 9
    [] tag \in {"<<", ">>"} -> 10
    [] tag \in {"+", "-"} /\ Len(e) = 3 -> 11
    [] tag \in {"*", "/", "%", "**"} /\ Len(e) = 3 -> 12
    [] tag \in {"-", "!", "~", "*", "&", "++", "--", "await"} -> 13
    [] OTHER -> 14

RECURSIVE Ex(_, _), St(_), Pat(_), Ty(_)
Args(es) == In("(", Commas([k \in DOMAIN es |-> Ex(es[k], 0)]), ")")
(* Two names next to each other have "::" between them. *)
Name(path) ==
  Joined(<<>>, [k \in DOMAIN path |->
    IF k > 1 /\ IsName(path[k - 1]) /\ IsName(path[k]) THEN <<"::", path[k]>> ELSE <<path[k]>>])
Ty(type) ==
  IF Len(type) = 4 /\ type[3] = "->" THEN In("(", Commas([k \in DOMAIN type[2] |-> Ty(type[2][k])]), ")") \o <<"->">> \o Ty(type[4])
  ELSE Name(type)
(* A type in angle brackets, its last ">" run into the closing one by the lexer. *)
Angled(types) ==
  LET ts == Commas([k \in DOMAIN types |-> Ty(types[k])]) IN
  IF types = <<>> THEN <<>>
  ELSE IF ts[Len(ts)] = ">" THEN <<"<">> \o SubSeq(ts, 1, Len(ts) - 1) \o <<">>">> ELSE In("<", ts, ">")
Typed(before, type) == IF type = <<>> THEN <<>> ELSE <<before>> \o Ty(type)
TypeParams(ps) ==
  IF ps = <<>> THEN <<>>
  ELSE In("<", Commas([k \in DOMAIN ps |-> <<ps[k][1]>> \o (IF ps[k][2] = <<>> THEN <<>> ELSE <<":">> \o Joined(<<"&">>, [j \in DOMAIN ps[k][2] |-> Ty(ps[k][2][j])]))]), ">")
Params(ps) == In("(", Commas([k \in DOMAIN ps |-> <<ps[k][1]>> \o Typed(":", ps[k][2])]), ")")
Line(s) == St(s) \o (IF NeedsSemicolon(s) THEN <<";">> ELSE <<>>)
Block(b) == <<"{", "nl">> \o Lines([k \in DOMAIN b |-> Line(b[k])]) \o <<"}">>

Unwrapped(e) ==
  LET tag == e[1] IN
  CASE tag = "lit" -> <<e[2]>>
    [] tag = "id" -> Name(e[2])
    [] tag = "member" -> Name(e[2]) \o <<".", e[3]>>
    [] tag = "call" -> Name(e[2]) \o Angled(e[3]) \o Args(e[4])
    [] tag = "index" -> Ex(e[2], 14) \o In("[", Ex(e[3], 0), "]")
    [] tag = "method" -> Ex(e[2], 14) \o <<".", e[3]>> \o Args(e[4])
    [] tag = "string." -> Ex(e[2], 14) \o <<":", e[3]>> \o Args(e[4])
    [] tag \in {"post++", "post--", "try"} ->
         Ex(e[2], 14) \o <<IF tag = "try" THEN "?" ELSE IF tag = "post++" THEN "++" ELSE "--">>
    [] tag = "await" -> <<"await">> \o Ex(e[2], 14)
    [] tag = "list" -> In("[", Commas([k \in DOMAIN e[2] |-> Ex(e[2][k], 0)]), "]")
    [] tag = "tuple" -> In("(", Commas([k \in DOMAIN e[2] |-> Ex(e[2][k], 0)]), ")")
    [] tag = "dict" -> In("{", Commas([k \in DOMAIN e[2] |-> <<e[2][k][1], ":">> \o Ex(e[2][k][2], 0)]), "}")
    [] tag = "reinterpret_cast" -> <<tag>> \o Angled(<<e[2]>>) \o In("(", Ex(e[3], 0), ")")
    [] tag = "sizeof" -> <<tag>> \o Angled(<<e[2]>>)
    [] tag = "typeof" -> <<tag>> \o In("(", Ex(e[2], 0), ")")
    [] tag = "offsetof" -> <<tag>> \o In("(", Ty(e[2]) \o <<",", e[3]>>, ")")
    [] tag = "is_base_of" -> <<tag>> \o Angled(<<e[2], e[3]>>) \o (IF e[4] = <<>> THEN <<>> ELSE Args(e[4]))
    [] tag = "new" -> <<tag>> \o Ty(e[2]) \o Args(e[3])
    [] tag = "lambda" -> <<tag>> \o Params(e[2]) \o Typed(":", e[3]) \o
         (IF Len(e[4]) = 1 /\ e[4][1][1] = "return" THEN <<"->">> \o Ex(e[4][1][2], 0) ELSE Block(e[4]))
    [] Len(e) = 2 -> <<tag>> \o Ex(e[2], 13)
    [] OTHER -> Ex(e[2], Binds(e) + (IF tag \in {"..", "..<"} \/ Binds(e) = 0 THEN 1 ELSE 0)) \o <<tag>>
                \o Ex(e[3], IF Binds(e) = 0 THEN 0 ELSE Binds(e) + 1)
Ex(e, least) == IF Binds(e) < least THEN In("(", Unwrapped(e), ")") ELSE Unwrapped(e)

Pats(open, ps, close) == In(open, Commas([k \in DOMAIN ps |-> Pat(ps[k])]), close)
Pat(p) ==
  CASE p[1] = "_" -> <<"_">>
    [] p[1] = "bind" -> <<p[2]>>
    [] p[1] = "ctor" -> <<p[2]>> \o (IF p[3] = <<>> THEN <<>> ELSE Pats("(", p[3], ")"))
    [] p[1] = "array" -> Pats("[", p[2], "]")
    [] p[1] = "tuple" -> Pats("(", p[2], ")")
    [] p[1] = "struct" -> In("{", Commas([k \in DOMAIN p[2] |->
         <<p[2][k][1]>> \o (IF p[2][k][2] = <<"bind", p[2][k][1]>> THEN <<>> ELSE <<":">> \o Pat(p[2][k][2]))]), "}")
    [] OTHER -> Joined(<<"|">>, [k \in DOMAIN p[2] |-> Pat(p[2][k])])

(* A statement without its semicolon. *)
Header(s) == IF s = <<>> THEN <<>> ELSE St(s[1])
St(s) ==
  LET tag == s[1] IN
  CASE tag \in {"break", "continue", "pause"} -> <<tag>>
    [] tag \in {"print", "repeat"} -> <<tag>> \o Ex(s[2], 0) \o (IF tag = "repeat" THEN Block(s[3]) ELSE <<>>)
    [] tag = "return" -> <<tag>> \o (IF Len(s) = 1 THEN <<>> ELSE Ex(s[2], 0))
    [] tag = "expr" -> Ex(s[2], 0)
    [] tag = "set" -> <<s[2], "=">> \o Ex(s[3], 0)
    [] tag = "member set" -> <<s[2], ".", s[3], "=">> \o Ex(s[4], 0)
    [] tag = "index set" -> Ex(s[2], 14) \o In("[", Ex(s[3], 0), "]") \o <<"=">> \o Ex(s[4], 0)
    [] tag = "pointer set" -> <<"*">> \o Ex(s[2], 13) \o <<"=">> \o Ex(s[3], 0)
    [] tag = "callstmt" -> Name(s[2]) \o Angled(s[3]) \o Args(s[4])
    [] tag = "methodstmt" -> <<s[2], ".", s[3]>> \o Args(s[4])
    [] tag = "let" -> (CASE s[5] # <<>> -> <<IF s[2] THEN "const" ELSE "let">> \o Pat(s[5])
                         [] s[5] = <<>> /\ s[4] # <<>> -> Ty(s[4]) \o <<s[3]>> \o (IF s[6] = <<>> THEN <<>> ELSE In("{", Ex(s[6], 0), "}"))
                         [] OTHER -> <<IF s[2] THEN "const" ELSE "let", s[3]>>) \o <<"=">> \o Ex(s[7], 0)
    [] tag \in {"input", "fire", "sleep"} -> <<tag, s[2]>>
    [] tag = "wait" -> <<"wait", "all">>
    [] tag \in {"unsafe", "parallel"} -> <<tag>> \o Block(s[2])
    [] tag = "while" -> <<tag>> \o In("(", Ex(s[2], 0), ")") \o Block(s[3])
    [] tag = "do" -> <<tag>> \o Block(s[2]) \o <<"while">> \o In("(", Ex(s[3], 0), ")")
    [] tag = "if" -> <<tag>> \o In("(", Ex(s[2], 0), ")") \o Block(s[3]) \o
         (IF s[4] = <<>> THEN <<>> ELSE <<"nl", "else">> \o (IF s[4][1][1] = "if" THEN St(s[4][1]) ELSE Block(s[4])))
    [] tag = "try" -> <<tag>> \o Block(s[2]) \o <<"nl", "catch", "(", s[3], ")">> \o Block(s[4])
    [] tag = "for" -> <<tag, "(">> \o Header(s[2]) \o <<";">> \o (IF s[3] = <<>> THEN <<>> ELSE Ex(s[3], 0)) \o <<";">>
                      \o Header(s[4]) \o <<")">> \o Block(s[5])
    [] tag = "forin" -> <<"for", "(">> \o (IF s[2] = "" THEN <<>> ELSE <<s[2]>>) \o <<s[3]>>
                        \o (IF s[4] = "" THEN <<>> ELSE <<",", s[4]>>) \o <<"in">> \o Ex(s[5], 0) \o <<")">> \o Block(s[6])
    [] tag = "switch" -> <<tag>> \o Ex(s[2], 0) \o <<"{", "nl">>
         \o Lines([k \in DOMAIN s[3] |-> <<"case", s[3][k][1], ":">> \o Block(s[3][k][2])])
         \o (IF s[4] = <<>> THEN <<>> ELSE <<"default", ":">> \o Block(s[4][1])) \o <<"}">>
    [] tag = "match" -> <<tag>> \o In("(", Ex(s[2], 0), ")") \o <<"{", "nl">>
         \o Lines([k \in DOMAIN s[3] |-> <<"case">> \o Pat(s[3][k][1])
              \o (IF s[3][k][2] = <<>> THEN <<>> ELSE <<"if">> \o Ex(s[3][k][2], 0)) \o <<":">> \o Block(s[3][k][3])])
         \o <<"}">>

Attributes(as) ==
  Joined(<<>>, [k \in DOMAIN as |-> <<"@", as[k][1]>> \o (IF Len(as[k]) = 1 THEN <<>> ELSE <<"(", as[k][2], ")">>) \o <<"nl">>])
Front(m) == (IF "export" \in m.flags THEN <<"export">> ELSE <<>>) \o (IF "async" \in m.flags THEN <<"async">> ELSE <<>>)
            \o (IF m.vis = "private" THEN <<"private">> ELSE <<>>)
RECURSIVE Written(_)
(* A declaration, named by the last part of its path. *)
Written(d) ==
  LET last(path) == path[Len(path)]
      body(ms) == <<"{", "nl">> \o Lines([k \in DOMAIN ms |-> Written(ms[k])]) \o <<"}">> IN
  CASE d[1] = "action" -> Attributes(d[2]) \o Front(d[3]) \o <<"action", last(d[4])>> \o TypeParams(d[5]) \o Params(d[6])
                          \o Typed("->", d[7]) \o Block(d[8])
    [] d[1] = "hook" -> Attributes(d[2]) \o <<"hook", last(d[3])>> \o Block(d[4])
    [] d[1] = "global" -> Front(d[2]) \o <<"global">> \o (IF d[3] = "" THEN <<>> ELSE <<d[3]>>) \o <<last(d[4]), "=">>
                          \o Ex(d[5], 0) \o <<";">>
    [] d[1] = "extern" -> <<"extern", "action", last(d[2])>> \o Params(d[3]) \o Typed(":", d[4]) \o <<";">>
    [] d[1] = "alias" -> <<"type", last(d[2])>> \o TypeParams(d[3]) \o <<"=">> \o Ty(d[4])
    [] d[1] = "import" -> <<"import">> \o (IF d[2] = <<>> THEN <<>> ELSE In("{", Commas([k \in DOMAIN d[2] |-> <<d[2][k]>>]), "}") \o <<"from">>)
                          \o d[3] \o (IF d[2] # <<>> THEN <<>> ELSE <<"as", d[4]>>) \o <<";">>
    [] d[1] = "entity" -> Attributes(d[2]) \o Front(d[3]) \o <<"entity", last(d[4])>> \o TypeParams(d[5]) \o Typed(":", d[6]) \o body(d[7])
    [] d[1] \in {"struct", "enum", "trait"} -> <<d[1], last(d[2])>> \o TypeParams(d[3]) \o body(d[4])
    [] d[1] = "field" /\ Len(d) = 3 -> Ty(d[3]) \o <<d[2], ";">>
    [] d[1] = "field" /\ Len(d) = 6 -> Attributes(d[2]) \o <<d[3], "field", d[4]>> \o Typed(":", d[5])
                                       \o (IF d[6] = <<>> THEN <<>> ELSE <<"=">> \o Ex(d[6], 0)) \o <<";">>
    [] d[1] = "variant" -> <<d[2]>> \o (IF d[3] = <<>> THEN <<>> ELSE In("(", Commas([k \in DOMAIN d[3] |-> Ty(d[3][k])]), ")")) \o <<",">>
    [] d[1] = "required" -> <<"action", d[2]>> \o Params(d[3]) \o Typed(":", d[4]) \o <<";">>
    [] d[1] = "type" -> <<"type", d[2], ";">>
    [] d[1] = "run" -> <<"run", last(d[2]), ";">>
    [] d[1] = "directive" -> <<"@", d[2]>> \o (IF d[3] = "" THEN <<>> ELSE <<"(", d[3], ")">>)
Path_(d) == CASE d[1] \in {"action", "global", "entity"} -> d[4] [] d[1] = "hook" -> d[3] [] d[1] \in {"import", "directive"} -> <<>>
              [] OTHER -> d[2]
InNamespace(d) ==
  LET n == Len(Path_(d)) IN
  IF n < 2 THEN Written(d) ELSE <<"namespace">> \o Name(SubSeq(Path_(d), 1, n - 1)) \o <<"{", "nl">> \o Written(d) \o <<"nl", "}">>
Text(ds) == Lines([k \in DOMAIN ds |-> InNamespace(ds[k])])
-----------------------------------------------------------------------------
(* What gets written. *)

a == <<"id", <<"a">>>>
b == <<"id", <<"b">>>>
one == <<"lit", "1">>
int == <<"int">>
BinaryOps == {"??", "||", "&&", "|", "^", "&", "==", "<", "..", "<<", "+", "*", "**"}
PrefixTags == {"-", "!", "~", "*", "&", "++"}
Postfixed(e) ==
  {<<"index", e, one>>, <<"method", e, "m", <<a>>>>, <<"string.", e, "m", <<>>>>, <<"post++", e>>, <<"try", e>>}
  \cup (IF e[1] = "try" THEN {} ELSE {<<"await", e>>})
Pairs == {<<o, a, one>> : o \in BinaryOps}
Mixed ==
  {<<o, p, b>> : o \in BinaryOps, p \in Pairs} \cup {<<o, b, p>> : o \in BinaryOps, p \in Pairs}
  \cup {<<u, p>> : u \in PrefixTags, p \in Pairs \cup {<<u, a>> : u \in PrefixTags} \cup Postfixed(one)}
  \cup {<<o, b, <<u, a>>>> : o \in BinaryOps, u \in PrefixTags} \cup {<<o, <<u, a>>, b>> : o \in BinaryOps, u \in PrefixTags}
  \cup {<<o, b, p>> : o \in BinaryOps, p \in Postfixed(one)}
  \cup UNION {Postfixed(p) : p \in Pairs \cup {<<u, a>> : u \in PrefixTags} \cup Postfixed(one)}
T(name) == <<name, "<", "int", ">">>
Primaries ==
  { <<"lit", "null">>, <<"lit", "5s">>, <<"member", <<"a">>, "f">>, <<"call", <<"f">>, <<>>, <<a, one>>>>,
    <<"call", <<"n", "f">>, <<int, T("Box")>>, <<a>>>>, <<"call", <<"Box", "<", "int", ">", ".", "Some">>, <<>>, <<a>>>>,
    <<"call", <<"Box", "<", "int", ">", ".", "None">>, <<>>, <<>>>>, <<"call", <<"a", ".", "m">>, <<>>, <<>>>>,
    <<"list", <<>>>>, <<"list", <<a, <<"+=", b, one>>>>>>, <<"tuple", <<a, one>>>>, <<"dict", <<>>>>,
    <<"dict", <<<<"k", a>>, <<"'s'", one>>>>>>, <<"reinterpret_cast", T("Box"), a>>, <<"sizeof", int>>,
    <<"typeof", a>>, <<"offsetof", <<"Box">>, "f">>, <<"is_base_of", <<"Box">>, T("Pair"), <<>>>>, <<"new", T("Box"), <<a>>>>,
    <<"+=", a, <<"-=", b, one>>>>,
    <<"lambda", <<<<"a", int>>>>, int, <<<<"return", <<"+", a, b>>>>>>, {<<"b">>}>>,
    <<"lambda", <<<<"a", int>>>>, <<>>, <<<<"set", "b", a>>, <<"if", <<"await", <<"id", <<"c">>>>>>, <<<<"print", a>>>>, <<>>>>>>, {<<"b">>, <<"c">>}>> }

x == <<<<"print", a>>>>
Patterns ==
  { <<"_">>, <<"ctor", "Some", <<<<"bind", "a">>>>>>, <<"or", <<<<"ctor", "None", <<>>>>, <<"ctor", "Ok", <<<<"_">>>>>>>>>>,
    <<"array", <<<<"bind", "a">>, <<"ctor", "Some", <<<<"_">>>>>>>>>>, <<"tuple", <<<<"bind", "a">>, <<"bind", "b">>>>>>,
    <<"struct", <<<<"f", <<"bind", "f">>>>, <<"g", <<"array", <<>>>>>>>>>> }
Nested ==
  { <<"if", a, x, <<>>>>, <<"if", a, x, <<<<"if", b, x, <<<<"break">>, <<"continue">>>>>>>>>>, <<"while", a, x>>, <<"do", x, a>>,
    <<"repeat", one, x>>, <<"try", x, "e", <<<<"return">>>>>>, <<"unsafe", x>>, <<"parallel", <<>>>>,
    <<"for", <<Let(FALSE, "i", int, one)>>, <<"<", a, one>>, <<<<"set", "i", one>>>>, x>>, <<"for", <<>>, <<>>, <<>>, x>>,
    <<"for", <<<<"set", "i", one>>>>, a, <<<<"expr", <<"post++", a>>>>>>, <<>>>>, <<"forin", "int", "a", "", b, x>>,
    <<"forin", "", "a", "v", <<"..", one, a>>, x>>, <<"switch", a, <<<<"1", x>>, <<"a", <<>>>>>>, <<x>>>>,
    <<"match", a, <<<<<<"ctor", "Some", <<<<"bind", "v">>>>>>, <<"<", a, one>>, x>>, <<<<"_">>, <<>>, <<>>>>>>>> }
  \cup {<<"match", a, <<<<p, <<>>, x>>>>>> : p \in Patterns}
Simple ==
  { <<"print", <<"+", a, one>>>>, <<"return", a>>, Let(FALSE, "v", <<>>, a), Let(TRUE, "v", <<>>, a), Let(FALSE, "v", int, one),
    Let(FALSE, "v", T("Box"), a), <<"set", "a", one>>, <<"member set", "a", "f", one>>, <<"index set", a, one, b>>,
    <<"pointer set", a, one>>, <<"callstmt", <<"f">>, <<>>, <<a, one>>>>, <<"callstmt", <<"n", "f">>, <<int>>, <<>>>>,
    <<"methodstmt", "a", "m", <<one>>>>, <<"expr", <<"+=", a, one>>>>, <<"expr", <<"++", a>>>>, <<"expr", <<"post--", a>>>>,
    <<"sleep", "1">>, <<"input", "a">>, <<"fire", "a">>, <<"wait">> }
Others ==
  { <<"pause">>, <<"let", FALSE, "v", <<"buffer">>, <<>>, one, a>>, <<"callstmt", <<"a", ".", "b", ".", "m">>, <<>>, <<>>>>,
    <<"let", TRUE, "", <<>>, <<"tuple", <<<<"bind", "a">>, <<"bind", "b">>>>>>, <<>>, a>>, Let(FALSE, "v", <<"*", "int">>, a) }

Main(body) == <<"action", <<>>, Plain, <<"main">>, <<>>, <<>>, <<>>, body>>
Shown == [flags |-> {"export", "async"}, vis |-> "private"]
Fn == <<"action", <<<<"inline">>, <<"tag", "'s'">>>>, Shown, <<"n", "f">>, <<<<"T", <<<<"Show">>, T("Box")>>>>, <<"U", <<>>>>>>,
        <<<<"a", int>>, <<"b", <<"action", <<int>>, "->", int>>>>, <<"c", <<>>>>>>, T("Box"), x>>
Declared ==
  { <<Fn>>, <<<<"hook", <<>>, <<"onStart">>, x>>, Main(<<>>)>>, <<<<"global", [Plain EXCEPT !.flags = {"export"}], "int", <<"g">>, one>>>>,
    <<<<"extern", <<"f">>, <<<<"a", int>>>>, int>>>>, <<<<"alias", <<"Id">>, <<<<"T", <<>>>>>>, <<"map", "<", "int", ",", "T", ">">>>>>>,
    <<<<"import", <<>>, <<"std", "/", "io">>, "io">>, <<"import", <<"f", "g">>, <<"std", "/", "io">>, "">>>>,
    << <<"entity", <<<<"tag">>>>, [Plain EXCEPT !.vis = "private"], <<"m", "n", "E">>, <<<<"T", <<>>>>>>, <<"Box">>,
         << <<"field", <<>>, "public", "f", int, one>>, <<"field", <<<<"tag">>>>, "private", "g", <<>>, <<>>>>,
            <<"action", <<>>, [Plain EXCEPT !.vis = "private"], <<"m">>, <<>>, <<>>, int, x>> >> >> >>,
    << <<"struct", <<"S">>, <<>>, << <<"field", "f", int>>, <<"field", "g", T("Box")>>, <<"action", <<>>, Plain, <<"m">>, <<>>, <<>>, <<>>, x>> >> >> >>,
    << <<"enum", <<"N">>, <<<<"T", <<>>>>>>, << <<"variant", "Some", <<<<"T">>>>>>, <<"variant", "None", <<>>>> >> >>, <<"run", <<"main">>>> >>,
    << <<"trait", <<"Show">>, <<>>, << <<"type", "Out">>, <<"required", "show", <<<<"self", <<>>>>>>, <<"string">>>> >> >> >>,
    <<<<"directive", "strict", "">>, <<"directive", "entry", "main">>, Main(x)>> }
Programs ==
  {<<Main(<<<<"print", e>>>>)>> : e \in Mixed \cup Primaries}
  \cup {<<Main(<<s, <<"return">>>>)>> : s \in Simple \cup Nested \cup Others} \cup Declared
(* Programs to damage: two lines, between them and after them lines that stay. *)
After == <<"callstmt", <<"g">>, <<>>, <<>>>>
Last_ == <<"action", <<>>, Plain, <<"last">>, <<>>, <<>>, <<>>, <<After>>>>
Sturdy == {<<Main(<<s, t, After>>), Last_>> : s \in Simple, t \in Simple}
-----------------------------------------------------------------------------
Without(ts, k) == SubSeq(ts, 1, k - 1) \o SubSeq(ts, k + 1, Len(ts))
LineAt(ts, k) == 1 + Cardinality({j \in 1..k - 1 : ts[j] = "nl"})

PrsInit ==
  /\ prsTree \in Programs \cup (IF PrsSlips = 0 THEN {} ELSE Sturdy)
  /\ prsTokens = Text(prsTree) /\ prsHurt = {} /\ prsOut = <<>>
PrsIdle == prsTree = <<>> /\ prsTokens = <<>> /\ prsHurt = {} /\ prsOut = <<>>
(* A token of one of the two lines gets lost. *)
Slip ==
  /\ prsOut = <<>> /\ prsTree \in Sturdy /\ Cardinality(prsHurt) < PrsSlips
  /\ \E k \in DOMAIN prsTokens :
       LET l == LineAt(prsTokens, k) IN
       /\ prsTokens[k] # "nl" /\ l \in {2, 3} /\ \A h \in prsHurt : h < l
       /\ prsTokens' = Without(prsTokens, k) /\ prsHurt' = prsHurt \cup {l}
  /\ UNCHANGED <<prsTree, prsOut>>
parse == prsOut = <<>> /\ prsTree # <<>> /\ prsOut' = <<parse_program>> /\ UNCHANGED <<prsTree, prsTokens, prsHurt>>
PrsNext == Slip \/ parse
-----------------------------------------------------------------------------
(* parser.cpp: what was written is what is read, parentheses only where C needs
   them: operator levels, and which of the forms that begin alike is meant. *)
ParsesBack == prsOut # <<>> /\ prsHurt = {} => prsOut[1].errs = <<>> /\ prsOut[1].decls = prsTree

(* parser.cpp:1230: an error in one line neither hides nor invents one in another.
   Every line gives a statement or one error, and the intact ones what they mean. *)
LinesAnswered ==
  prsOut # <<>> /\ prsHurt # {} =>
    LET out == prsOut[1]
        meant == prsTree[1][8]
        made == out.decls[1][8] IN
    /\ Len(out.decls) = 2 /\ out.decls[2] = prsTree[2]
    /\ Len(made) + Len(out.errs) = Len(meant)
    /\ \A n \in DOMAIN out.errs : LineAt(prsTokens, out.errs[n]) \in prsHurt
    /\ \A n \in DOMAIN meant : n + 1 \in prsHurt \/ \E k \in DOMAIN made : made[k] = meant[n]
=============================================================================
