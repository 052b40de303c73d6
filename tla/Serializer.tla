----------------------------- MODULE Serializer ------------------------------
(* The binary form in which a compiled program carries its syntax tree.  Writer
   and Reader are two pieces of code that must agree: each has its table here,
   one row per kind of node, of what it writes or reads in order.  A row is
   <<field, kind, field, kind, ...>>.  A type is the text it is written as; a
   pointer that may be null is a sequence of length 0 or 1. *)
EXTENDS Naturals, Sequences, TLC

CONSTANTS SerBeyond,   \* parts of the tree to try although the writer knows nothing of them
          SerMaxCount  \* bound: a longer list is taken to be refused by memory

VARIABLES serProgram, \* the tree to be embedded
          serBlob,    \* the bytes written
          serLoaded   \* what the compiled program gets back

serVars == <<serProgram, serBlob, serLoaded>>

-----------------------------------------------------------------------------
(* Kinds that are built from others. *)
ListOf ==
  [exprs |-> "expr", strs |-> "str", patterns |-> "pattern", block |-> "stmt", cases |-> "case",
   matchCases |-> "matchCase", patFields |-> "patField", params |-> "param", attrs |-> "attr",
   typeParams |-> "typeParam", variants |-> "variant", fields |-> "field", structFields |-> "structField",
   signatures |-> "signature", actions |-> "action", hooks |-> "hook", entities |-> "entity",
   imports |-> "import", structs |-> "struct", enums |-> "enum", typeAliases |-> "typeAlias",
   traits |-> "trait", externs |-> "extern", globals |-> "global"]
MaybeOf == [maybeExpr |-> "expr", maybeStr |-> "str", maybeBlock |-> "block"]

(* The first byte of a node is its place here, counted from 0. *)
Tags ==
  [expr |-> <<"string", "number", "bool", "ident", "binary", "unary", "call", "member", "index",
              "ternary", "new", "listlit", "dictlit", "lambda", "null", "postfix", "prefix",
              "compound", "tuplelit", "try", "range">>,
   stmt |-> <<"print", "actionCall", "let", "return", "set", "methodCall", "if", "switch", "while",
              "for", "forIn", "break", "continue", "repeat", "doWhile", "tryCatch", "unsafe",
              "pointerSet", "parallel", "sleep", "input", "fire", "waitAll", "pause", "importStmt",
              "exprStmt", "match", "indexSet">>,
   pattern |-> <<"none", "wildcard", "bind", "ctor", "patStruct", "array", "tuple", "or">>]

-----------------------------------------------------------------------------
PatternsWritten ==
  [none |-> <<>>, wildcard |-> <<>>, bind |-> <<"name", "str">>,
   ctor |-> <<"name", "str", "args", "patterns">>, patStruct |-> <<"fields", "patFields">>,
   patField |-> <<"field", "str", "pattern", "pattern">>,
   array |-> <<"elements", "patterns">>, tuple |-> <<"elements", "patterns">>,
   or |-> <<"alts", "patterns">>]

PatternsRead ==
  [none |-> <<>>, wildcard |-> <<>>, bind |-> <<"name", "str">>,
   ctor |-> <<"name", "str", "args", "patterns">>, patStruct |-> <<"fields", "patFields">>,
   patField |-> <<"field", "str", "pattern", "pattern">>,
   array |-> <<"elements", "patterns">>, tuple |-> <<"elements", "patterns">>,
   or |-> <<"alts", "patterns">>]

ExprsWritten ==
  [string |-> <<"v", "str">>, null |-> <<>>,
   number |-> <<"v", "i64", "isFloatLiteral", "u8", "raw", "str">>,
   bool |-> <<"v", "u8">>, ident |-> <<"name", "str">>,
   binary |-> <<"op", "u8", "left", "expr", "right", "expr">>,
   range |-> <<"start", "expr", "end", "expr", "exclusive", "u8">>,
   unary |-> <<"op", "u8", "expr", "expr">>,
   call |-> <<"name", "str", "args", "exprs", "typeArgs", "strs">>,
   member |-> <<"objectName", "str", "field", "str">>,
   index |-> <<"object", "expr", "index", "expr">>,
   ternary |-> <<"cond", "expr", "thenExpr", "expr", "elseExpr", "expr">>,
   new |-> <<"typeName", "str", "args", "exprs">>,
   listlit |-> <<"elements", "exprs">>, dictlit |-> <<"entries", "exprs">>,
   tuplelit |-> <<"elements", "exprs">>, try |-> <<"inner", "expr">>,
   lambda |-> <<"params", "params", "returnType", "str", "body", "body", "capturedVars", "strs">>,
   postfix |-> <<"isInc", "u8", "operand", "expr">>,
   prefix |-> <<"isInc", "u8", "operand", "expr">>,
   compound |-> <<"op", "u8", "left", "expr", "right", "expr">>]

ExprsRead ==
  [null |-> <<>>, string |-> <<"v", "str">>,
   number |-> <<"v", "i64", "isFloatLiteral", "u8", "raw", "str">>,
   bool |-> <<"v", "u8">>, ident |-> <<"name", "str">>,
   binary |-> <<"op", "u8", "left", "expr", "right", "expr">>,
   range |-> <<"start", "expr", "end", "expr", "exclusive", "u8">>,
   unary |-> <<"op", "u8", "expr", "expr">>,
   call |-> <<"name", "str", "args", "exprs", "typeArgs", "strs">>,
   member |-> <<"objectName", "str", "field", "str">>,
   index |-> <<"object", "expr", "index", "expr">>,
   ternary |-> <<"cond", "expr", "thenExpr", "expr", "elseExpr", "expr">>,
   new |-> <<"typeName", "str", "args", "exprs">>,
   listlit |-> <<"elements", "exprs">>, dictlit |-> <<"entries", "exprs">>,
   tuplelit |-> <<"elements", "exprs">>, try |-> <<"inner", "expr">>,
   lambda |-> <<"params", "params", "returnType", "str", "body", "body", "capturedVars", "strs">>,
   postfix |-> <<"isInc", "u8", "operand", "expr">>,
   prefix |-> <<"isInc", "u8", "operand", "expr">>,
   compound |-> <<"op", "u8", "left", "expr", "right", "expr">>]

StmtsWritten ==
  [print |-> <<"value", "expr">>,
   actionCall |-> <<"name", "str", "args", "exprs", "typeArgs", "strs">>,
   let |-> <<"isConst", "u8", "name", "str", "declaredType", "str", "pattern", "pattern", "value", "expr">>,
   return |-> <<"value", "maybeExpr">>,
   set |-> <<"isMember", "u8", "varOrField", "str", "objectName", "str", "value", "expr">>,
   methodCall |-> <<"objectName", "str", "method", "str", "args", "exprs">>,
   if |-> <<"cond", "expr", "thenBlk", "maybeBlock", "elseBlk", "maybeBlock">>,
   switch |-> <<"selector", "expr", "cases", "cases", "defaultBlk", "maybeBlock">>,
   case |-> <<"value", "str", "body", "maybeBlock">>,
   match |-> <<"selector", "expr", "cases", "matchCases">>,
   matchCase |-> <<"pattern", "pattern", "guard", "maybeExpr", "body", "maybeBlock">>,
   while |-> <<"cond", "expr", "body", "maybeBlock">>,
   for |-> <<"init", "maybeBlock", "cond", "maybeExpr", "step", "maybeBlock", "body", "maybeBlock">>,
   forIn |-> <<"var", "str", "varType", "str", "valueVar", "maybeStr", "usedColon", "u8",
               "iterable", "expr", "body", "maybeBlock">>,
   break |-> <<>>, continue |-> <<>>,
   repeat |-> <<"count", "expr", "body", "maybeBlock">>,
   doWhile |-> <<"cond", "expr", "body", "maybeBlock">>,
   tryCatch |-> <<"catchVar", "str", "tryBlk", "maybeBlock", "catchBlk", "maybeBlock">>,
   unsafe |-> <<"body", "maybeBlock">>,
   pointerSet |-> <<"pointer", "expr", "value", "expr">>,
   indexSet |-> <<"object", "expr", "index", "expr", "value", "expr">>,
   parallel |-> <<"body", "block">>, sleep |-> <<"ms", "i64">>, input |-> <<"name", "str">>,
   fire |-> <<"name", "str">>, waitAll |-> <<>>, pause |-> <<>>, importStmt |-> <<>>,
   exprStmt |-> <<"expr", "expr">>]

(* The two names of a set statement the wrong way round. *)
SetReadSwapped == <<"isMember", "u8", "objectName", "str", "varOrField", "str", "value", "expr">>

SetRead == <<"isMember", "u8", "varOrField", "str", "objectName", "str", "value", "expr">>

StmtsRead ==
  [print |-> <<"value", "expr">>,
   actionCall |-> <<"name", "str", "args", "exprs", "typeArgs", "strs">>,
   let |-> <<"isConst", "u8", "name", "str", "declaredType", "str", "pattern", "pattern", "value", "expr">>,
   return |-> <<"value", "maybeExpr">>,
   set |-> SetRead,
   methodCall |-> <<"objectName", "str", "method", "str", "args", "exprs">>,
   if |-> <<"cond", "expr", "thenBlk", "maybeBlock", "elseBlk", "maybeBlock">>,
   switch |-> <<"selector", "expr", "cases", "cases", "defaultBlk", "maybeBlock">>,
   case |-> <<"value", "str", "body", "maybeBlock">>,
   match |-> <<"selector", "expr", "cases", "matchCases">>,
   matchCase |-> <<"pattern", "pattern", "guard", "maybeExpr", "body", "maybeBlock">>,
   while |-> <<"cond", "expr", "body", "maybeBlock">>,
   for |-> <<"init", "maybeBlock", "cond", "maybeExpr", "step", "maybeBlock", "body", "maybeBlock">>,
   forIn |-> <<"var", "str", "varType", "str", "valueVar", "maybeStr", "usedColon", "u8",
               "iterable", "expr", "body", "maybeBlock">>,
   break |-> <<>>, continue |-> <<>>,
   repeat |-> <<"count", "expr", "body", "maybeBlock">>,
   doWhile |-> <<"cond", "expr", "body", "maybeBlock">>,
   tryCatch |-> <<"catchVar", "str", "tryBlk", "maybeBlock", "catchBlk", "maybeBlock">>,
   unsafe |-> <<"body", "maybeBlock">>,
   pointerSet |-> <<"pointer", "expr", "value", "expr">>,
   indexSet |-> <<"object", "expr", "index", "expr", "value", "expr">>,
   parallel |-> <<"body", "block">>, sleep |-> <<"ms", "i64">>, input |-> <<"name", "str">>,
   fire |-> <<"name", "str">>, waitAll |-> <<>>, pause |-> <<>>, importStmt |-> <<>>,
   exprStmt |-> <<"expr", "expr">>]

DeclsWritten ==
  [param |-> <<"name", "str", "type", "str">>, attr |-> <<"name", "str", "value", "maybeStr">>,
   typeParam |-> <<"name", "str", "constraints", "strs">>,
   action |-> <<"name", "str", "typeParams", "typeParams", "params", "params", "body", "block",
                "returnType", "str", "visibility", "u8", "exported", "u8", "attributes", "attrs",
                "sourcePath", "str", "isAsync", "u8">>,
   field |-> <<"name", "str", "type", "str", "defaultValue", "maybeExpr", "visibility", "u8",
               "attributes", "attrs">>,
   entity |-> <<"name", "str", "typeParams", "typeParams", "baseType", "str", "fields", "fields",
                "methods", "actions", "visibility", "u8", "exported", "u8", "attributes", "attrs",
                "sourcePath", "str">>,
   hook |-> <<"name", "str", "body", "block", "sourcePath", "str", "attributes", "attrs">>,
   global |-> <<"name", "str", "typeName", "str", "value", "maybeExpr", "sourcePath", "str",
                "visibility", "u8", "exported", "u8">>,
   import |-> <<"path", "str", "alias", "maybeStr", "pluginGlob", "u8", "namedImports", "strs">>,
   structField |-> <<"name", "str", "type", "str">>,
   struct |-> <<"name", "str", "typeParams", "typeParams", "fields", "structFields",
                "methods", "actions">>,
   variant |-> <<"name", "str", "payloads", "strs">>,
   enum |-> <<"name", "str", "typeParams", "typeParams", "variants", "variants">>,
   typeAlias |-> <<"name", "str", "typeParams", "typeParams", "targetType", "str">>,
   extern |-> <<"name", "str", "params", "params", "returnType", "str">>]

ProgramWritten ==
  [program |-> <<"strict", "u8", "debug", "u8", "runTarget", "maybeStr", "actions", "actions",
                 "hooks", "hooks", "entities", "entities", "imports", "imports", "structs", "structs",
                 "enums", "enums", "typeAliases", "typeAliases", "traits", "traits",
                 "externs", "externs", "globals", "globals", "pluginAliases", "strs",
                 "directives", "attrs">>,
   trait |-> <<"name", "str", "typeParams", "typeParams", "methods", "signatures",
               "associatedTypes", "strs">>,
   signature |-> <<"name", "str", "params", "params", "returnType", "str">>]

DeclsRead ==
  [param |-> <<"name", "str", "type", "str">>, attr |-> <<"name", "str", "value", "maybeStr">>,
   typeParam |-> <<"name", "str", "constraints", "strs">>,
   action |-> <<"name", "str", "typeParams", "typeParams", "params", "params", "body", "block",
                "returnType", "str", "visibility", "u8", "exported", "u8", "attributes", "attrs",
                "sourcePath", "str", "isAsync", "u8">>,
   field |-> <<"name", "str", "type", "str", "defaultValue", "maybeExpr", "visibility", "u8",
               "attributes", "attrs">>,
   entity |-> <<"name", "str", "typeParams", "typeParams", "baseType", "str", "fields", "fields",
                "methods", "actions", "visibility", "u8", "exported", "u8", "attributes", "attrs",
                "sourcePath", "str">>,
   hook |-> <<"name", "str", "body", "block", "sourcePath", "str", "attributes", "attrs">>,
   global |-> <<"name", "str", "typeName", "str", "value", "maybeExpr", "sourcePath", "str",
                "visibility", "u8", "exported", "u8">>,
   import |-> <<"path", "str", "alias", "maybeStr", "pluginGlob", "u8", "namedImports", "strs">>,
   structField |-> <<"name", "str", "type", "str">>,
   struct |-> <<"name", "str", "typeParams", "typeParams", "fields", "structFields",
                "methods", "actions">>,
   variant |-> <<"name", "str", "payloads", "strs">>,
   enum |-> <<"name", "str", "typeParams", "typeParams", "variants", "variants">>,
   typeAlias |-> <<"name", "str", "typeParams", "typeParams", "targetType", "str">>,
   extern |-> <<"name", "str", "params", "params", "returnType", "str">>]

ProgramRead ==
  [program |-> <<"strict", "u8", "debug", "u8", "runTarget", "maybeStr", "actions", "actions",
                 "hooks", "hooks", "entities", "entities", "imports", "imports", "structs", "structs",
                 "enums", "enums", "typeAliases", "typeAliases", "traits", "traits",
                 "externs", "externs", "globals", "globals", "pluginAliases", "strs",
                 "directives", "attrs">>,
   trait |-> <<"name", "str", "typeParams", "typeParams", "methods", "signatures",
               "associatedTypes", "strs">>,
   signature |-> <<"name", "str", "params", "params", "returnType", "str">>]

Written == PatternsWritten @@ ExprsWritten @@ StmtsWritten @@ DeclsWritten @@ ProgramWritten
Read == PatternsRead @@ ExprsRead @@ StmtsRead @@ DeclsRead @@ ProgramRead

(* What the tree holds and the writer passes over. *)
Unwritten == [await |-> <<"inner", "expr">>, let |-> <<"sizeExpr", "maybeExpr">>,
              enum |-> <<"methods", "actions">>]
NoFields == <<>>
Row(table, t) == IF t \in DOMAIN table THEN table[t] ELSE NoFields
Tree(t) == Row(Written, t) \o (IF t \in SerBeyond THEN Unwritten[t] ELSE NoFields)

Fields(row) == {row[2 * i - 1] : i \in 1 .. Len(row) \div 2}
KindIn(row, f) == row[2 * (CHOOSE i \in 1 .. Len(row) \div 2 : row[2 * i - 1] = f)]

-----------------------------------------------------------------------------
(* Writer.  Numbers are little-endian; bound: they are below 2^24. *)

LittleEndian(n, width) ==
  [i \in 1 .. width |-> IF i > 3 THEN 0 ELSE (n \div (256 ^ (i - 1))) % 256]
TagByte(kind, t) == (CHOOSE i \in 1 .. Len(Tags[kind]) : Tags[kind][i] = t) - 1

RECURSIVE Put(_, _), PutRow(_, _), PutAll(_, _)
PutRow(row, fields) ==
  IF row = <<>> THEN <<>> ELSE Put(row[2], fields[row[1]]) \o PutRow(SubSeq(row, 3, Len(row)), fields)
PutAll(kind, vs) == IF vs = <<>> THEN <<>> ELSE Put(kind, Head(vs)) \o PutAll(kind, Tail(vs))
PutNode(kind, v) ==
  IF v.tag \in DOMAIN Written THEN <<TagByte(kind, v.tag)>> \o PutRow(Written[v.tag], v.f) ELSE <<>>
Put(kind, v) ==
  CASE kind = "u8" -> <<v>>
    [] kind = "i64" -> LittleEndian(v, 8)
    [] kind = "str" -> LittleEndian(Len(v), 4) \o v
    [] kind \in DOMAIN Tags -> PutNode(kind, v)
    [] kind = "body" -> <<v.isArrow>> \o Put(IF v.isArrow = 1 THEN "expr" ELSE "block", v.of)
    [] kind \in DOMAIN ListOf -> LittleEndian(Len(v), 4) \o PutAll(ListOf[kind], v)
    [] kind \in DOMAIN MaybeOf -> <<Len(v)>> \o PutAll(MaybeOf[kind], v)
    [] OTHER -> PutRow(Written[kind], v)

Magic == <<69, 82, 65, 83>> \o LittleEndian(4, 4)
SerializeProgram(program) == Magic \o Put("program", program)

-----------------------------------------------------------------------------
(* Reader.  A byte beyond the end is 0; only a text that ends beyond it puts the
   position where ok() sees it. *)

At(p) == IF p <= Len(serBlob) THEN serBlob[p] ELSE 0
After(p, n) == IF p + n <= Len(serBlob) + 1 THEN p + n ELSE IF p > Len(serBlob) THEN p ELSE Len(serBlob) + 1
Number(p) == At(p) + 256 * (At(p + 1) + 256 * (At(p + 2) + 256 * At(p + 3)))
PastEnd == Len(serBlob) + 2

GetStr(p) ==
  LET n == Number(p) q == After(p, 4) IN
  IF q + n > Len(serBlob) + 1 THEN [v |-> <<>>, p |-> PastEnd]
  ELSE [v |-> SubSeq(serBlob, q, q + n - 1), p |-> q + n]

DeserializeError == [tag |-> "print", f |-> [value |-> [tag |-> "string", f |-> [v |-> <<1>>]]]]
Unknown(kind) ==
  CASE kind = "expr" -> [tag |-> "null", f |-> <<>>]
    [] kind = "stmt" -> DeserializeError
    [] kind = "pattern" -> [tag |-> "none", f |-> <<>>]

RECURSIVE Get(_, _), GetRow(_, _), GetAll(_, _, _, _)
GetRow(row, p) ==
  IF row = <<>> THEN [v |-> <<>>, p |-> p]
  ELSE LET first == Get(row[2], p) rest == GetRow(SubSeq(row, 3, Len(row)), first.p) IN
       [v |-> [f \in {row[1]} |-> first.v] @@ rest.v, p |-> rest.p]
GetAll(kind, n, p, vs) ==
  IF n = 0 THEN [v |-> vs, p |-> p]
  ELSE LET one == Get(kind, p) IN GetAll(kind, n - 1, one.p, Append(vs, one.v))
GetNode(kind, p) ==
  LET t == At(p) + 1 IN
  IF t > Len(Tags[kind]) THEN [v |-> Unknown(kind), p |-> After(p, 1)]
  ELSE LET fields == GetRow(Read[Tags[kind][t]], After(p, 1)) IN
       [v |-> [tag |-> Tags[kind][t], f |-> fields.v], p |-> fields.p]
Get(kind, p) ==
  CASE kind = "u8" -> [v |-> At(p), p |-> After(p, 1)]
    [] kind = "i64" -> [v |-> Number(p), p |-> After(p, 8)]
    [] kind = "str" -> GetStr(p)
    [] kind \in DOMAIN Tags -> GetNode(kind, p)
    [] kind = "body" ->
         LET of == Get(IF At(p) # 0 THEN "expr" ELSE "block", After(p, 1)) IN
         [v |-> [isArrow |-> At(p), of |-> of.v], p |-> of.p]
    [] kind \in DOMAIN ListOf ->
         LET n == Number(p) IN
         IF n > SerMaxCount THEN [v |-> <<>>, p |-> PastEnd]
         ELSE GetAll(ListOf[kind], n, After(p, 4), <<>>)
    [] kind \in DOMAIN MaybeOf ->
         GetAll(MaybeOf[kind], IF At(p) # 0 THEN 1 ELSE 0, After(p, 1), <<>>)
    [] OTHER -> GetRow(Read[kind], p)

Refused == [v |-> <<>>, p |-> PastEnd]
DeserializeProgram ==
  IF Len(serBlob) < 8 \/ SubSeq(serBlob, 1, 8) # Magic THEN Refused
  ELSE LET program == Get("program", Len(Magic) + 1) IN
       IF program.p > Len(serBlob) + 1 THEN Refused ELSE program

-----------------------------------------------------------------------------
(* Trees to embed: every kind of node, with each of its parts alone missing and
   alone present, in a program that goes on after it. *)

RECURSIVE Blank(_), Full(_)
RowOf(row, F(_)) == [f \in Fields(row) |-> F(KindIn(row, f))]
Blank(kind) ==
  CASE kind \in {"u8", "i64"} -> 0
    [] kind = "body" -> [isArrow |-> 0, of |-> <<>>]
    [] kind \in DOMAIN Tags -> [tag |-> IF kind = "pattern" THEN "none" ELSE "null", f |-> <<>>]
    [] kind \in {"str"} \cup DOMAIN ListOf \cup DOMAIN MaybeOf -> <<>>
    [] OTHER -> RowOf(Tree(kind), Blank)
Full(kind) ==
  CASE kind = "u8" -> 1
    [] kind = "i64" -> 300
    [] kind = "str" -> <<7>>
    [] kind = "body" -> [isArrow |-> 1, of |-> Full("expr")]
    [] kind = "expr" -> [tag |-> "ident", f |-> [name |-> <<8, 9>>]]
    [] kind = "pattern" -> [tag |-> "bind", f |-> [name |-> <<8, 9>>]]
    [] kind = "stmt" -> [tag |-> "sleep", f |-> [ms |-> 300]]
    [] kind \in DOMAIN ListOf ->
         <<Full(ListOf[kind]), IF ListOf[kind] = "stmt" THEN Full("stmt") ELSE Blank(ListOf[kind])>>
    [] kind \in DOMAIN MaybeOf -> <<Full(MaybeOf[kind])>>
    [] OTHER -> RowOf(Tree(kind), Full)

(* All parts missing but one, or none missing but one; f may name no part. *)
Variant(kind, f, present) ==
  LET row == Tree(kind) IN
  [g \in Fields(row) |-> IF (g = f) = present THEN Full(KindIn(row, g)) ELSE Blank(KindIn(row, g))]
Choices(kind) == Fields(Tree(kind)) \cup {"none"}
Node(t, f, present) == [tag |-> t, f |-> Variant(t, f, present)]

TagsOf(kind) == {Tags[kind][i] : i \in 1 .. Len(Tags[kind])}
InAction(stmt) ==
  [RowOf(Tree("program"), Blank) EXCEPT
     !["actions"] = <<[RowOf(Tree("action"), Full) EXCEPT !["body"] = <<stmt, Full("stmt")>>]>>]
InPrint(expr) == InAction([tag |-> "print", f |-> [value |-> expr]])
InMatch(pattern) ==
  LET case == [pattern |-> pattern, guard |-> <<>>, body |-> <<>>] IN
  InAction([tag |-> "match", f |-> [selector |-> Full("expr"), cases |-> <<case>>]])
DeclParts == {f \in Fields(Tree("program")) : KindIn(Tree("program"), f) \in DOMAIN ListOf \ {"strs"}}
DeclIn(part) == ListOf[KindIn(Tree("program"), part)]
InProgram(part, decl) ==
  [RowOf(Tree("program"), Blank) EXCEPT ![part] = <<decl, RowOf(Tree(DeclIn(part)), Full)>>]

NoBlob == <<>>
NotLoaded == [v |-> <<>>, p |-> 0]
SerIdle == serProgram = NoBlob /\ serBlob = NoBlob /\ serLoaded = NotLoaded
SerInit ==
  /\ serBlob = NoBlob /\ serLoaded = NotLoaded
  /\ \E present \in BOOLEAN :
       \/ \E t \in TagsOf("stmt") : \E f \in Choices(t) : serProgram = InAction(Node(t, f, present))
       \/ \E t \in TagsOf("pattern") : \E f \in Choices(t) : serProgram = InMatch(Node(t, f, present))
       \/ \E t \in TagsOf("expr") \cup (SerBeyond \cap {"await"}) :
            \E f \in Choices(t) : serProgram = InPrint(Node(t, f, present))
       \/ \E part \in DeclParts : \E f \in Choices(DeclIn(part)) :
            serProgram = InProgram(part, Variant(DeclIn(part), f, present))
       \/ \E f \in Choices("program") : serProgram = Variant("program", f, present)

Embed ==
  /\ serBlob = NoBlob
  /\ serBlob' = SerializeProgram(serProgram)
  /\ UNCHANGED <<serProgram, serLoaded>>

Start ==
  /\ serBlob # NoBlob /\ serLoaded.p = 0
  /\ serLoaded' = DeserializeProgram
  /\ UNCHANGED <<serProgram, serBlob>>

SerNext == Embed \/ Start
SerSpec == SerInit /\ [][SerNext]_serVars

-----------------------------------------------------------------------------
RECURSIVE Same(_, _, _)
SameRow(row, x, y) ==
  \A f \in Fields(row) : f \in DOMAIN y /\ Same(KindIn(row, f), x[f], y[f])
Same(kind, x, y) ==
  CASE kind \in {"u8", "i64", "str"} -> x = y
    [] kind = "body" -> x.isArrow = y.isArrow /\ Same(IF x.isArrow = 1 THEN "expr" ELSE "block", x.of, y.of)
    [] kind \in DOMAIN Tags -> x.tag = y.tag /\ SameRow(Tree(x.tag), x.f, y.f)
    [] kind \in DOMAIN ListOf -> Len(x) = Len(y) /\ \A i \in DOMAIN x : Same(ListOf[kind], x[i], y[i])
    [] kind \in DOMAIN MaybeOf -> Len(x) = Len(y) /\ \A i \in DOMAIN x : Same(MaybeOf[kind], x[i], y[i])
    [] OTHER -> SameRow(Tree(kind), x, y)

(* A compiled program starts with the tree that was embedded, and the reader
   stops at the last byte the writer wrote: whatever is added to one side has to
   be added to the other, in the same order. *)
RoundTrips ==
  serLoaded.p # 0 => Same("program", serProgram, serLoaded.v) /\ serLoaded.p = Len(serBlob) + 1
=============================================================================
