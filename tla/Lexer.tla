------------------------------- MODULE Lexer --------------------------------
(***************************************************************************)
(* Lexer::lex (src/lexer.cpp), one turn of its loop at a time, with the    *)
(* options the runtime gives it: durations, units, # in names and          *)
(* documentation comments are on, other comments are not reported.  A      *)
(* source is a sequence of characters, of which a few stand for their      *)
(* kind.  Columns and lengths are left out, and so are the escapes that    *)
(* give a character by its number.                                         *)
(***************************************************************************)
EXTENDS Integers, SequencesExt

VARIABLES lexPick,   \* pieces and separators of the source
          lexAt,     \* position
          lexLine, lexStart, lexOut

lexVars == <<lexPick, lexAt, lexLine, lexStart, lexOut>>

Letters == {"a", "b", "c", "d", "e", "f", "g", "h", "i", "k", "l", "m", "n", "o", "r", "s", "u", "w", "x"}
Digits == {"0", "1", "5", "9"}
Spaces == {" ", "tab"}
is_word_start(c) == c \in Letters \cup {"_", "$"}
WordPart == Letters \cup Digits \cup {"_", "$"}
Keywords == {<<"i", "f">>, <<"f", "o", "r">>}

Char(t, i) == IF i \in DOMAIN t THEN t[i] ELSE "end"
Past(t, i, S) == CHOOSE j \in i..Len(t) + 1 : Char(t, j) \notin S /\ \A k \in i..j - 1 : t[k] \in S
UpTo(t, i, S) == CHOOSE j \in i..Len(t) + 1 : Char(t, j) \in S \cup {"end"} /\ \A k \in i..j - 1 : t[k] \notin S
Cut(t, i, j) == SubSeq(t, i, j - 1)
Begins(t, i, s) == i + Len(s) - 1 <= Len(t) /\ SubSeq(t, i, i + Len(s) - 1) = s

Tok(kind, text, line) == [kind |-> kind, text |-> text, tag |-> <<>>, line |-> line]

-----------------------------------------------------------------------------
\* The longest of the operators at a place is meant.
Operators ==
  {<<c>> : c \in {"{", "}", "(", ")", "[", "]", ",", ";", ":", "@", "?", ".", "+", "-", "*", "/", "%", "!", "=", "<", ">",
                  "|", "&", "^", "~"}}
  \cup {<<c, c>> : c \in {":", "?", ".", "+", "-", "*", "=", "<", ">", "|", "&"}}
  \cup {<<c, "=">> : c \in {"+", "-", "*", "/", "%", "!", "<", ">", "|", "&"}}
  \cup {<<c, c, "=">> : c \in {"*", "=", "<", ">"}}
  \cup {<<".", ".", "<">>, <<"-", ">">>, <<"=", ">">>, <<"!", "=", "=">>, <<">", ">", ">">>, <<">", ">", ">", "=">>}
OperatorsAt(t, i) == {o \in Operators : Begins(t, i, o)}
Longest(ops) == CHOOSE o \in ops : \A p \in ops : Len(p) <= Len(o)

\* Where a block comment ends, and the line there; comments nest.
RECURSIVE block_end(_, _, _, _), quoted(_, _, _, _, _), durations(_, _), units(_, _)
block_end(t, i, depth, line) ==
  CASE depth = 0 \/ i >= Len(t) -> [depth |-> depth, next |-> i, line |-> line]
    [] depth > 0 /\ Begins(t, i, <<"/", "*">>) -> block_end(t, i + 2, depth + 1, line)
    [] depth > 0 /\ Begins(t, i, <<"*", "/">>) -> block_end(t, i + 2, depth - 1, line)
    [] OTHER -> block_end(t, i + 1, depth, IF t[i] = "eol" THEN line + 1 ELSE line)

Escaped(c) == CASE c = "n" -> "eol" [] c = "r" -> "cr" [] OTHER -> c
\* The text up to the quote.  A line break in it is counted and left out; an
\* escaped one is neither.
quoted(t, i, quote, s, line) ==
  CASE Char(t, i) \in {quote, "end"} -> [ok |-> i <= Len(t), s |-> s, next |-> i + 1, line |-> line]
    [] t[i] = "back" /\ i < Len(t) -> quoted(t, i + 2, quote, Append(s, Escaped(t[i + 1])), line)
    [] t[i] = "eol" -> quoted(t, i + 1, quote, s, line + 1)
    [] OTHER -> quoted(t, i + 1, quote, Append(s, t[i]), line)

\* A number: another base, or digits, a fraction and an exponent.
Fraction(t, j) == IF Char(t, j) = "." THEN Past(t, j + 1, Digits) ELSE j
Exponent(t, j) ==
  IF Char(t, j) # "e" THEN j ELSE Past(t, IF Char(t, j + 1) \in {"+", "-"} THEN j + 2 ELSE j + 1, Digits)
NumberEnd(t, i) ==
  CASE t[i] = "0" /\ Char(t, i + 1) = "x" -> Past(t, i + 2, Digits \cup {"a", "b", "c", "d", "e", "f"})
    [] t[i] = "0" /\ Char(t, i + 1) = "b" -> Past(t, i + 2, {"0", "1"})
    [] t[i] = "0" /\ Char(t, i + 1) = "o" -> Past(t, i + 2, Digits \ {"9"})
    [] OTHER -> Exponent(t, Fraction(t, Past(t, i, Digits)))

\* Mistake: a unit is one even where letters follow it.
isDurUnitAnywhere(t, p) ==
  {u \in {<<"m", "s">>, <<"u", "s">>, <<"n", "s">>, <<"s">>, <<"m">>, <<"h">>, <<"d">>, <<"w">>} : Begins(t, p, u)}
\* The unit of a duration at p: no letter may follow it.
isDurUnit(t, p) ==
  {u \in {<<"m", "s">>, <<"u", "s">>, <<"n", "s">>, <<"s">>, <<"m">>, <<"h">>, <<"d">>, <<"w">>} :
     Begins(t, p, u) /\ Char(t, p + Len(u)) \notin Letters}
UnitEnd(t, p) == IF isDurUnit(t, p) = {} THEN p ELSE p + Len(Longest(isDurUnit(t, p)))
\* From the end of one component of a duration to that of the last, as in 2m30s.
Component(t, k) == Fraction(t, Past(t, k, Digits))
durations(t, k) ==
  IF isDurUnit(t, Component(t, k)) = {} \/ (Char(t, k) \notin Digits /\ Component(t, k) <= k + 1) THEN k
  ELSE durations(t, UnitEnd(t, Component(t, k)))
DurationEnd(t, j) == IF isDurUnit(t, j) = {} THEN j ELSE durations(t, UnitEnd(t, j))

\* A unit symbol with its exponent: its end, 0 where there is none.
SymbolEnd(t, p) ==
  LET q == Past(t, p, Letters \cup Digits)
      d == IF Char(t, q + 1) \in {"+", "-"} THEN q + 2 ELSE q + 1
  IN CASE Char(t, p) \notin Letters -> 0
       [] Char(t, p) \in Letters /\ Char(t, q) = "^" -> IF Past(t, d, Digits) = d THEN 0 ELSE Past(t, d, Digits)
       [] OTHER -> q
\* The chain of units with * and / between them.
units(t, p) == IF p # 0 /\ Char(t, p) \in {"*", "/"} THEN units(t, SymbolEnd(t, p + 1)) ELSE p

\* A number with what belongs to it: a duration, unless a product of units begins with it.
Numeral(t, i, j) ==
  LET last == DurationEnd(t, j)
      composed == Char(t, last) \in {"/", "*"} /\ Char(t, last + 1) \in Letters
      unit == units(t, SymbolEnd(t, j))
  IN CASE last # j /\ ~composed -> [kind |-> "Duration", next |-> last]
       [] (last = j \/ composed) /\ unit # 0 -> [kind |-> "UnitNumber", next |-> unit]
       [] OTHER -> [kind |-> "Number", next |-> j]

\* #include: the path and where the directive goes on after it.
IncludePath(t, k) ==
  LET end == UpTo(t, k + 1, {IF t[k] = "<" THEN ">" ELSE t[k], "eol", "cr"}) IN
  CASE Char(t, k) \in {"quote", "<"} ->
         IF Char(t, end) \in {"quote", ">"} THEN [path |-> Cut(t, k + 1, end), next |-> end + 1]
                                            ELSE [path |-> <<>>, next |-> end]
    [] OTHER -> LET m == UpTo(t, k, Spaces \cup {"eol", "cr"}) IN [path |-> Cut(t, k, m), next |-> m]
\* "as name" behind it.
IncludeAlias(t, k, line) ==
  LET tail == Past(t, k, Spaces)
      probe == Past(t, tail + 2, Spaces)
  IN IF Begins(t, tail, <<"a", "s">>) /\ Char(t, tail + 2) \in Spaces \cup {"eol", "cr", "end"} /\ is_word_start(Char(t, probe))
       THEN <<Tok("Word", <<"a", "s">>, line), Tok("Word", Cut(t, probe, Past(t, probe, WordPart)), line)>>
       ELSE <<>>
Include == <<"i", "n", "c", "l", "u", "d", "e">>
Import(t, r, line) ==
  IF r.path = <<>> THEN <<>>
  ELSE <<Tok("Word", <<"import">>, line), Tok("String", r.path, line)>> \o IncludeAlias(t, r.next, line)
       \o <<Tok("Punct", <<";">>, line)>>

-----------------------------------------------------------------------------
(* Sources: two pieces with a separator between them, each with what it says. *)

Piece(text, toks, lines) == [text |-> text, toks |-> toks, lines |-> lines]
One(kind, text) == Piece(text, <<Tok(kind, text, 0)>>, 0)
Inside(quotes, kind, inner, meant, lines) == Piece(<<quotes>> \o inner \o <<quotes>>, <<Tok(kind, meant, 0)>>, lines)
Import2(rest, more) ==
  Piece(<<"#">> \o Include \o <<" ">> \o rest,
        <<Tok("Word", <<"import">>, 0), Tok("String", <<"a", ".", "c">>, 0)>> \o more \o <<Tok("Punct", <<";">>, 0)>>, 0)
acPath == <<"a", ".", "c">>
\* Pieces that take the rest of their line.
Directives ==
  {Import2(<<"quote">> \o acPath \o <<"quote">>, <<>>), Import2(<<"<">> \o acPath \o <<">", " ", "x">>, <<>>),
   Import2(acPath \o <<"tab", "a", "s", " ", "m">>, <<Tok("Word", <<"a", "s">>, 0), Tok("Word", <<"m">>, 0)>>),
   Piece(<<"#">> \o Include \o <<" ", "quote", "a">>, <<>>, 0), Piece(<<"#", " ", "a", "x">>, <<>>, 0)}
Plain ==
  {One("Word", w) : w \in {<<"r", "a">>, <<"m", "s">>, <<"_", "5">>}} \cup {One("Keyword", w) : w \in Keywords}
  \cup {One("Punct", o) : o \in {<<"<", "<", "=">>, <<">", ">", ">">>, <<".", ".", "<">>, <<"*", "*">>, <<"-", ">">>, <<"/">>, <<"?">>}}
  \cup {One("Number", n) : n \in {<<"0", "x", "f">>, <<"0", "b", "1">>, <<"0", "o", "5">>, <<"1", ".", "5">>, <<"1", "e", "-", "5">>, <<"9">>}}
  \cup {One("Duration", d) : d \in {<<"5", "s">>, <<"1", ".", "5", "m", "s">>, <<"1", "m", "5", "s">>, <<"1", "h", ".", "5", "m">>}}
  \cup {One("UnitNumber", u) : u \in {<<"5", "k", "g">>, <<"9", "m", "/", "s", "^", "1">>, <<"1", "k", "*", "m">>, <<"5", "s", "e", "c">>}}
  \cup {Piece(<<"1", "m", "5", "k">>, <<Tok("Duration", <<"1", "m">>, 0), Tok("UnitNumber", <<"5", "k">>, 0)>>, 0),
        Piece(<<"5", "k", "^", "a">>, <<Tok("Number", <<"5">>, 0), Tok("Word", <<"k">>, 0), Tok("Punct", <<"^">>, 0), Tok("Word", <<"a">>, 0)>>, 0),
        Piece(<<"a", "#", "c">>, <<[Tok("Word", <<"a">>, 0) EXCEPT !.tag = <<"c">>]>>, 0),
        Inside("quote", "String", <<"a", "back", "n", "back", "quote", "/", "/">>, <<"a", "eol", "quote", "/", "/">>, 0),
        Inside("quote", "String", <<"a", "eol", "c">>, <<"a", "c">>, 1), Inside("apos", "Char", <<"back", "back">>, <<"back">>, 0),
        Inside("apos", "Bad", <<"a", "c">>, <<>>, 0),
        Piece(<<"r", "quote", "back", "n", "eol", "quote">>, <<Tok("RawString", <<"back", "n">>, 0)>>, 1),
        Piece(<<"back", "a">>, <<Tok("Bad", <<>>, 0), Tok("Word", <<"a">>, 0)>>, 0)}
Firsts == Directives \cup Plain \cup {One("Word", <<"#", "a", ".", "c">>)}

\* A source may end inside a string or a comment.
Cutoff == {Piece(<<"quote", "a">>, <<Tok("Bad", <<>>, 0)>>, 0), Piece(<<"r", "quote", "eol">>, <<Tok("Bad", <<>>, 0)>>, 1),
           Piece(<<"/", "*", "*", "a">>, <<Tok("Bad", <<"/", "*", "*">>, 0), Tok("Bad", <<>>, 0), Tok("Word", <<"a">>, 0)>>, 0)}
Few == {One("Word", <<"a">>), One("Punct", <<"(">>), One("Number", <<"5">>), Piece(<<"#", "a">>, <<Tok("Word", <<"#", "a">>, 0)>>, 0),
        Inside("quote", "String", <<>>, <<>>, 0)} \cup Cutoff

Ends == {Piece(<<"eol">>, <<Tok("Newline", <<>>, 0)>>, 1), Piece(<<"cr", "eol">>, <<Tok("Newline", <<>>, 0)>>, 1)}
Gaps ==
  Ends \cup {Piece(<<" ", "tab">>, <<>>, 0), Piece(<<" ", "back", "eol">>, <<>>, 1),
             Piece(<<" ", "/", "*", "/", "*", "eol", "*", "/", "*", "/">>, <<>>, 1), Piece(<<" ", "/", "*", "*", "*", "/">>, <<>>, 0),
             Piece(<<" ", "/", "/", "a", "eol">>, <<Tok("Newline", <<>>, 0)>>, 1),
             Piece(<<" ", "/", "/", "/", "a", "eol">>, <<Tok("DocComment", <<"/", "/", "/", "a">>, 0), Tok("Newline", <<>>, 0)>>, 1)}

Source == lexPick[1].text \o lexPick[2].text \o lexPick[3].text

-----------------------------------------------------------------------------
Here == Char(Source, lexAt)
Turn(next, line, start, toks) ==
  lexAt' = next /\ lexLine' = line /\ lexStart' = start /\ lexOut' = lexOut \o toks /\ UNCHANGED lexPick
Yields(next, kind, text) == Turn(next, lexLine, FALSE, <<Tok(kind, text, lexLine)>>)

Skip ==
  \/ Here \in Spaces \cup {"cr"} /\ Turn(lexAt + 1, lexLine, lexStart, <<>>)
  \/ Begins(Source, lexAt, <<"back", "eol">>) /\ Turn(lexAt + 2, lexLine + 1, lexStart, <<>>)
  \/ Here = "eol" /\ Turn(lexAt + 1, lexLine + 1, TRUE, <<Tok("Newline", <<>>, lexLine)>>)

LineEnd(i) == UpTo(Source, i, {"eol"})
NameEnd(i) == Past(Source, i, WordPart \cup {"."})
\* What begins with # where a line begins: an include, a name, or nothing.
Directive ==
  /\ Here = "#" /\ lexStart
  /\ LET j == Past(Source, lexAt + 1, Spaces)
         k == Past(Source, j, Letters)
     IN CASE Cut(Source, j, k) = Include ->
               Turn(LineEnd(k), lexLine, TRUE, Import(Source, IncludePath(Source, Past(Source, k, Spaces)), lexLine))
          [] Cut(Source, j, k) # Include /\ j = lexAt + 1 /\ is_word_start(Char(Source, j)) ->
               Yields(NameEnd(j), "Word", Cut(Source, lexAt, NameEnd(j)))
          [] OTHER -> Turn(LineEnd(lexAt), lexLine, TRUE, <<>>)

BlockComment ==
  /\ Begins(Source, lexAt, <<"/", "*">>)
  /\ LET b == block_end(Source, lexAt + 2, 1, lexLine)
         doc == Char(Source, lexAt + 2) = "*"
     IN Turn(b.next, b.line, FALSE,
             IF b.depth = 0 THEN <<>>
             ELSE (IF doc THEN <<Tok("Bad", <<"/", "*", "*">>, b.line)>> ELSE <<>>) \o <<Tok("Bad", <<>>, b.line)>>)

LineComment ==
  /\ Begins(Source, lexAt, <<"/", "/">>)
  /\ Turn(LineEnd(lexAt), lexLine, FALSE,
          IF Char(Source, lexAt + 2) = "/" THEN <<Tok("DocComment", Cut(Source, lexAt, LineEnd(lexAt)), lexLine)>> ELSE <<>>)

Punctuation ==
  /\ OperatorsAt(Source, lexAt) # {} /\ ~\E x \in {"/", "*"} : Begins(Source, lexAt, <<"/", x>>)
  /\ LET op == Longest(OperatorsAt(Source, lexAt))
     IN Yields(lexAt + Len(op), IF op = <<">", ">", ">", "=">> THEN "Bad" ELSE "Punct", op)

\* A raw string and a string in quotes; of a character literal, what is longer is bad.
RawText ==
  /\ Begins(Source, lexAt, <<"r", "quote">>)
  /\ LET end == UpTo(Source, lexAt + 2, {"quote"})
         inner == Cut(Source, lexAt + 2, end)
         line == lexLine + Len(SelectSeq(inner, LAMBDA x : x = "eol"))
     IN Turn(end + 1, line, FALSE,
             <<IF end > Len(Source) THEN Tok("Bad", <<>>, line) ELSE Tok("RawString", SelectSeq(inner, LAMBDA x : x # "eol"), line)>>)
Quoted ==
  /\ Here \in {"quote", "apos"}
  /\ LET q == quoted(Source, lexAt + 1, Here, <<>>, lexLine)
     IN Turn(q.next, q.line, FALSE,
             <<CASE ~q.ok \/ (Here = "apos" /\ Len(q.s) > 1) -> Tok("Bad", <<>>, q.line)
                 [] q.ok /\ Here = "apos" /\ Len(q.s) <= 1 -> Tok("Char", q.s, q.line)
                 [] OTHER -> Tok("String", q.s, q.line)>>)

Number ==
  /\ Here \in Digits
  /\ LET n == Numeral(Source, lexAt, NumberEnd(Source, lexAt)) IN Yields(n.next, n.kind, Cut(Source, lexAt, n.next))

Word ==
  /\ is_word_start(Here) /\ ~Begins(Source, lexAt, <<"r", "quote">>)
  /\ LET end == Past(Source, lexAt, WordPart \cup {"#"})
         hash == UpTo(Source, lexAt, {"#"})
         word == Cut(Source, lexAt, IF hash < end THEN hash ELSE end)
         tag == Cut(Source, hash + 1, end)
     IN Turn(end, lexLine, FALSE, <<[Tok(IF word \in Keywords THEN "Keyword" ELSE "Word", word, lexLine) EXCEPT !.tag = tag]>>)

HashName ==
  /\ Here = "#" /\ ~lexStart /\ is_word_start(Char(Source, lexAt + 1))
  /\ Yields(NameEnd(lexAt + 1), "Word", Cut(Source, lexAt, NameEnd(lexAt + 1)))

Unexpected ==
  /\ Here = "back" /\ Char(Source, lexAt + 1) # "eol"
  /\ Yields(lexAt + 1, "Bad", <<>>)

Nothing == <<Piece(<<>>, <<>>, 0), Piece(<<>>, <<>>, 0), Piece(<<>>, <<>>, 0)>>
LexInit ==
  /\ lexPick \in {<<a, g, b>> \in Firsts \X Gaps \X Few : a \in Directives => g \in Ends}
  /\ lexAt = 1 /\ lexLine = 1 /\ lexStart = TRUE /\ lexOut = <<>>
LexIdle == lexPick = Nothing /\ lexAt = 1 /\ lexLine = 1 /\ lexStart = TRUE /\ lexOut = <<>>
LexNext ==
  \/ Skip \/ Directive \/ BlockComment \/ LineComment \/ Punctuation \/ RawText \/ Quoted \/ Number \/ Word \/ HashName \/ Unexpected

-----------------------------------------------------------------------------
\* The tokens of a piece stand on one of its lines.
Said(out, toks, line, lines) ==
  /\ Len(out) = Len(toks)
  /\ \A i \in DOMAIN out :
       /\ [out[i] EXCEPT !.line = 0] = [toks[i] EXCEPT !.line = 0]
       /\ out[i].line \in line..line + lines
\* Lexer::lex: whatever blanks, line ends, continuations and nested comments stand
\* between two pieces of a source, each gives the tokens it gives alone, longest
\* operators, durations before units, and on a line where it stands.
LexedApart ==
  lexAt > Len(Source) =>
    LET a == Len(lexPick[1].toks)
        b == a + Len(lexPick[2].toks)
        second == 1 + lexPick[1].lines
    IN /\ Said(SubSeq(lexOut, 1, a), lexPick[1].toks, 1, lexPick[1].lines)
       /\ Said(SubSeq(lexOut, a + 1, b), lexPick[2].toks, second, 0)
       /\ Said(SubSeq(lexOut, b + 1, Len(lexOut)), lexPick[3].toks, second + lexPick[2].lines, lexPick[3].lines)
=============================================================================
