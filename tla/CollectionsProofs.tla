-------------------------- MODULE CollectionsProofs -------------------------
(***************************************************************************)
(* Theorems about Collections for any names of rows and columns, values    *)
(* and bounds: tables are grids, and what loops, fixed arrays, queues and  *)
(* the higher functions of lists keep.                                     *)
(***************************************************************************)
EXTENDS Collections, SequenceTheorems, FiniteSetTheorems, NaturalsInduction, WellFoundedInduction, TLAPS

Names == {dict_key(columns) : columns \in ColColumns}
Cell(x) == x[1] \o <<".">> \o x[2]
InSeq(s) == s \in Seq({s[i] : i \in DOMAIN s})

(* A dictionary that is a grid. *)
GridOf(dict, grid) ==
  /\ DOMAIN grid \subseteq ColRows \X Names /\ IsFiniteSet(DOMAIN grid)
  /\ DOMAIN dict = {Cell(x) : x \in DOMAIN grid}
  /\ \A x \in DOMAIN grid : dict[Cell(x)] = grid[x] /\ grid[x] \in ColValues
Grids ==
  /\ InSeq(colDicts) /\ InSeq(colGrids)
  /\ \A d \in DOMAIN colDicts : GridOf(colDicts[d], colGrids[d])

-----------------------------------------------------------------------------
(* The key of a cell.  A recursive definition is the function that it describes,
   for all that it is asked. *)

LEMMA LeastNat ==
  ASSUME NEW S \in SUBSET Nat, S # {}
  PROVE  \E x \in S : \A y \in S : x <= y
<1>1. IsWellFoundedOn(OpToRel(<, Nat), Nat)
  BY NatLessThanWellFounded
<1>2. PICK x \in S : \A y \in S : ~ (<<y, x>> \in OpToRel(<, Nat))
  BY <1>1, WFMin
<1>3. \A y \in S : ~ (y < x)
  BY <1>2 DEF OpToRel
<1> QED
  BY <1>3

Joins(f, parts, n) ==
  f = [k \in 0..n |-> IF k = 0 THEN <<>> ELSE IF k = 1 THEN parts[1] ELSE f[k - 1] \o <<".">> \o parts[k]]

LEMMA JoinExists == ASSUME NEW parts, NEW N \in Nat PROVE \E f : Joins(f, parts, N)
<1> DEFINE Bad == {n \in 0..N : ~ \E f : Joins(f, parts, n)}
<1> SUFFICES ASSUME Bad # {} PROVE FALSE
  OBVIOUS
<1>0. Bad \in SUBSET Nat
  OBVIOUS
<1>1. PICK n \in Bad : \A k \in Bad : n <= k
  <2> HIDE DEF Bad
  <2> QED
    BY <1>0, LeastNat
<1>2. CASE n = 0
  <2> DEFINE f == [k \in 0..0 |-> <<>>]
  <2>1. Joins(f, parts, 0)
    BY DEF Joins
  <2> QED
    BY <1>1, <1>2, <2>1
<1>3. CASE n # 0
  <2>1. n \in Nat /\ n - 1 \in 0..N /\ n - 1 \notin Bad
    BY <1>1, <1>3
  <2>2. PICK f : Joins(f, parts, n - 1)
    BY <2>1
  <2> DEFINE last == IF n = 1 THEN parts[1] ELSE f[n - 1] \o <<".">> \o parts[n]
             g == [k \in 0..n |-> IF k = n THEN last ELSE f[k]]
  <2>3. \A k \in 0..n : g[k] = IF k = 0 THEN <<>> ELSE IF k = 1 THEN parts[1] ELSE g[k - 1] \o <<".">> \o parts[k]
    <3> TAKE k \in 0..n
    <3>1. CASE k = n
      <4>1. g[n] = last /\ g[n - 1] = f[n - 1]
        BY <2>1, <1>3
      <4> QED
        BY <4>1, <3>1, <1>3
    <3>2. CASE k # n
      <4>1. k \in 0..n - 1 /\ g[k] = f[k] /\ (k # 0 => g[k - 1] = f[k - 1])
        BY <2>1, <3>2
      <4>2. f[k] = IF k = 0 THEN <<>> ELSE IF k = 1 THEN parts[1] ELSE f[k - 1] \o <<".">> \o parts[k]
        BY <2>2, <4>1 DEF Joins
      <4> QED
        BY <4>1, <4>2
    <3> QED
      BY <3>1, <3>2
  <2>4. Joins(g, parts, n)
    <3>1. g = [k \in 0..n |-> g[k]]
      OBVIOUS
    <3> HIDE DEF g
    <3> QED
      BY <2>3, <3>1 DEF Joins
  <2> QED
    BY <1>1, <2>4
<1> QED
  BY <1>2, <1>3

LEMMA KeyJoins ==
  ASSUME NEW S, NEW parts \in Seq(S)
  PROVE  \E f : Joins(f, parts, Len(parts)) /\ dict_key(parts) = f[Len(parts)]
<1>1. Len(parts) \in Nat
  OBVIOUS
<1>2. \E f : Joins(f, parts, Len(parts))
  BY <1>1, JoinExists
<1> QED
  BY <1>2 DEF Joins, dict_key

LEMMA Glued ==
  ASSUME NEW a \in Seq(ColLetters), NEW b \in Seq(ColLetters), NEW c \in Seq(ColLetters)
  PROVE  a \o b \in Seq(ColLetters) /\ (a \o b) \o c = a \o (b \o c)
  OBVIOUS

LEMMA DotTyped == "." \in ColLetters /\ <<".">> \in Seq(ColLetters)
<1>1. "." \in ColLetters
  BY ColAssumption
<1>2. ASSUME NEW S, NEW a \in S PROVE <<a>> \in Seq(S)
  OBVIOUS
<1> QED
  BY <1>1, <1>2

LEMMA Dotted ==
  ASSUME NEW a \in Seq(ColLetters), NEW b \in Seq(ColLetters), NEW c \in Seq(ColLetters)
  PROVE  /\ b \o <<".">> \o c \in Seq(ColLetters)
         /\ (a \o <<".">> \o b) \o <<".">> \o c = a \o <<".">> \o (b \o <<".">> \o c)
<1>1. PICK dot : dot = <<".">>
  OBVIOUS
<1>2. dot \in Seq(ColLetters)
  BY <1>1, DotTyped
<1>3. PICK r : r = a \o dot
  OBVIOUS
<1>4. r \in Seq(ColLetters)
  BY <1>2, <1>3, Glued
<1>5. PICK e : e = b \o dot
  OBVIOUS
<1>6. e \in Seq(ColLetters) /\ e \o c \in Seq(ColLetters)
  BY <1>2, <1>5, Glued
<1>7. (r \o b) \o dot = r \o e
  BY <1>2, <1>4, <1>5, Glued
<1>8. (r \o e) \o c = r \o (e \o c)
  BY <1>4, <1>6, Glued
<1> QED
  BY <1>1, <1>3, <1>5, <1>6, <1>7, <1>8

LEMMA KeyTyped == ASSUME NEW parts \in Seq(Seq(ColLetters)) PROVE dict_key(parts) \in Seq(ColLetters)
<1>1. PICK f : Joins(f, parts, Len(parts)) /\ dict_key(parts) = f[Len(parts)]
  BY KeyJoins
<1>2. PICK N : N = Len(parts)
  OBVIOUS
<1>3. N \in Nat /\ \A k \in 1..N : parts[k] \in Seq(ColLetters)
  BY <1>2
<1> DEFINE Bad == {k \in 0..N : f[k] \notin Seq(ColLetters)}
<1>4. Bad = {}
  <2> SUFFICES ASSUME Bad # {} PROVE FALSE
    OBVIOUS
  <2>0. Bad \in SUBSET Nat
    BY <1>3
  <2>1. PICK k \in Bad : \A j \in Bad : k <= j
    <3> HIDE DEF Bad
    <3> QED
      BY <2>0, LeastNat
  <2>2. k \in 0..N /\ k \in Nat /\ f[k] \notin Seq(ColLetters)
    BY <1>3, <2>1
  <2>3. f[k] = IF k = 0 THEN <<>> ELSE IF k = 1 THEN parts[1] ELSE f[k - 1] \o <<".">> \o parts[k]
    BY <1>1, <1>2, <2>2 DEF Joins
  <2>4. k # 0 /\ k # 1
    BY <1>3, <2>2, <2>3
  <2>5. k - 1 \in 0..N /\ k - 1 \notin Bad
    BY <1>3, <2>1, <2>2, <2>4
  <2>6. f[k - 1] \in Seq(ColLetters) /\ parts[k] \in Seq(ColLetters) /\ <<".">> \in Seq(ColLetters)
    BY <1>3, <2>2, <2>4, <2>5, DotTyped
  <2> QED
    BY <2>2, <2>3, <2>4, <2>6
<1> QED
  BY <1>1, <1>2, <1>3, <1>4

\* A text that is put in front of a key of one part or more goes in front, with a dot.
LEMMA KeyIsCell ==
  ASSUME NEW row \in Seq(ColLetters), NEW columns \in Seq(Seq(ColLetters)), columns # <<>>
  PROVE  Key(row, columns) = Cell(<<row, dict_key(columns)>>)
<1>1. PICK parts, N : parts = <<row>> \o columns /\ N = Len(columns)
  OBVIOUS
<1>0. N \in Nat /\ N # 0 /\ 1 \in 1..N
  BY <1>1
<1>2. N \in Nat /\ N # 0 /\ 1 \in 1..N /\ \A k \in 1..N : columns[k] \in Seq(ColLetters)
  BY <1>1
<1>3. parts \in Seq(Seq(ColLetters)) /\ Len(parts) = N + 1 /\ parts[1] = row /\ \A k \in 1..N : parts[k + 1] = columns[k]
  BY <1>1
<1>4. PICK f : Joins(f, columns, N) /\ dict_key(columns) = f[N]
  BY <1>1, KeyJoins
<1>5. PICK g : Joins(g, parts, N + 1) /\ dict_key(parts) = g[N + 1]
  BY <1>3, KeyJoins
<1>6. ASSUME NEW k \in 1..N PROVE f[k] = IF k = 1 THEN columns[1] ELSE f[k - 1] \o <<".">> \o columns[k]
  <2>1. k \in 0..N /\ k # 0
    BY <1>0
  <2> QED
    BY <1>4, <2>1 DEF Joins
<1>7. g[1] = row /\ \A k \in 1..N : g[k + 1] = g[k] \o <<".">> \o columns[k]
  <2>1. g[1] = row
    BY <1>2, <1>3, <1>5 DEF Joins
  <2>2. ASSUME NEW k \in 1..N PROVE g[k + 1] = g[k] \o <<".">> \o columns[k]
    <3>1. k + 1 \in 0..N + 1 /\ k + 1 # 0 /\ k + 1 # 1 /\ (k + 1) - 1 = k
      BY <1>2
    <3>2. g[k + 1] = g[(k + 1) - 1] \o <<".">> \o parts[k + 1]
      BY <1>5, <3>1 DEF Joins
    <3> QED
      BY <1>3, <3>1, <3>2
  <2> QED
    BY <2>1, <2>2
<1>8. <<".">> \in Seq(ColLetters)
  BY DotTyped
<1> DEFINE Right(k) == f[k] \in Seq(ColLetters) /\ g[k + 1] = row \o <<".">> \o f[k]
           Bad == {k \in 1..N : ~Right(k)}
<1> HIDE DEF Right
<1>9. Bad = {}
  <2> SUFFICES ASSUME Bad # {} PROVE FALSE
    OBVIOUS
  <2>0. Bad \in SUBSET Nat
    BY <1>0
  <2>1. PICK k \in Bad : \A j \in Bad : k <= j
    <3> HIDE DEF Bad
    <3> QED
      BY <2>0, LeastNat
  <2>2. k \in 1..N /\ k \in Nat /\ ~Right(k)
    BY <1>0, <2>1
  <2>3. columns[k] \in Seq(ColLetters)
    BY <1>2, <2>2
  <2>5. CASE k = 1
    <3>1. g[1 + 1] = row \o <<".">> \o columns[1] /\ f[1] = columns[1]
      BY <1>2, <1>6, <1>7
    <3> QED
      BY <2>2, <2>3, <2>5, <3>1 DEF Right
  <2>6. CASE k # 1
    <3>1. k - 1 \in 1..N /\ k - 1 \notin Bad /\ (k - 1) + 1 = k
      BY <1>0, <2>1, <2>2, <2>6
    <3>2. f[k - 1] \in Seq(ColLetters) /\ g[k] = row \o <<".">> \o f[k - 1]
      BY <3>1 DEF Right
    <3>3. PICK a, b : a = f[k - 1] /\ b = columns[k]
      OBVIOUS
    <3>4. a \in Seq(ColLetters) /\ b \in Seq(ColLetters)
      BY <2>3, <3>2, <3>3
    <3>5. f[k] = a \o <<".">> \o b /\ g[k + 1] = (row \o <<".">> \o a) \o <<".">> \o b
      BY <1>6, <1>7, <2>2, <2>6, <3>2, <3>3
    <3>6. (row \o <<".">> \o a) \o <<".">> \o b = (row \o <<".">>) \o (a \o <<".">> \o b) /\ a \o <<".">> \o b \in Seq(ColLetters)
      BY <3>4, Dotted
    <3> QED
      BY <2>2, <3>3, <3>5, <3>6 DEF Right
  <2> QED
    BY <2>5, <2>6
<1>10. N \in 1..N /\ Right(N)
  BY <1>0, <1>9
<1> QED
  BY <1>1, <1>4, <1>5, <1>10 DEF Right, Key, Cell

LEMMA NamesTyped == \A name \in Names : name \in Seq(ColLetters) /\ name # <<>>
  BY ColAssumption, KeyTyped DEF Names

LEMMA RowsTyped ==
  ASSUME NEW row \in ColRows
  PROVE  row \in Seq(ColLetters) /\ \A i \in 1..Len(row) : row[i] # "."
<1>1. row \in Seq(ColLetters \ {"."})
  BY ColAssumption
<1>2. Len(row) \in Nat /\ row = [i \in 1..Len(row) |-> row[i]] /\ \A i \in 1..Len(row) : row[i] \in ColLetters \ {"."}
  BY <1>1
<1>3. row \in [1..Len(row) -> ColLetters]
  BY <1>2
<1> QED
  BY <1>2, <1>3

LEMMA KeysAreCells ==
  ASSUME NEW row \in ColRows, NEW columns \in ColColumns
  PROVE  /\ <<row, dict_key(columns)>> \in ColRows \X Names
         /\ Key(row, columns) = Cell(<<row, dict_key(columns)>>)
<1>1. row \in Seq(ColLetters) /\ columns \in Seq(Seq(ColLetters)) /\ columns # <<>>
  BY ColAssumption, RowsTyped
<1> QED
  BY <1>1, KeyIsCell DEF Names

-----------------------------------------------------------------------------
(* The first dot of the key of a cell is the one behind its row, because rows
   have none: row and column can be read off the key. *)

LEMMA Concat ==
  ASSUME NEW S, NEW s \in Seq(S), NEW t \in Seq(S), NEW u, u = s \o t
  PROVE  /\ u \in Seq(S) /\ Len(s) \in Nat /\ Len(t) \in Nat /\ Len(u) = Len(s) + Len(t)
         /\ \A i \in 1..Len(s) : u[i] = s[i]
         /\ \A i \in 1..Len(t) : u[Len(s) + i] = t[i]
  OBVIOUS

LEMMA CellLetters ==
  ASSUME NEW row \in Seq(ColLetters), NEW name \in Seq(ColLetters), NEW c, c = Cell(<<row, name>>)
  PROVE  /\ c \in Seq(ColLetters) /\ Len(row) \in Nat /\ Len(name) \in Nat /\ Len(c) = Len(row) + 1 + Len(name)
         /\ \A i \in 1..Len(row) : c[i] = row[i]
         /\ c[Len(row) + 1] = "."
         /\ \A i \in 1..Len(name) : c[Len(row) + 1 + i] = name[i]
<1>1. PICK dot, r : dot = <<".">> /\ r = row \o dot
  OBVIOUS
<1>2. dot \in Seq(ColLetters) /\ Len(dot) = 1 /\ dot[1] = "."
  BY <1>1, DotTyped
<1>3. /\ r \in Seq(ColLetters) /\ Len(r) = Len(row) + 1 /\ Len(row) \in Nat
      /\ \A i \in 1..Len(row) : r[i] = row[i]
      /\ r[Len(row) + 1] = "."
  BY <1>1, <1>2
<1>4. c = r \o name
  BY <1>1 DEF Cell
<1>5. /\ c \in Seq(ColLetters) /\ Len(name) \in Nat /\ Len(c) = Len(r) + Len(name)
      /\ \A i \in 1..Len(r) : c[i] = r[i]
      /\ \A i \in 1..Len(name) : c[Len(r) + i] = name[i]
  <2>1. r \in Seq(ColLetters)
    BY <1>3
  <2>2. \A u : u = r \o name =>
              /\ u \in Seq(ColLetters) /\ Len(name) \in Nat /\ Len(u) = Len(r) + Len(name)
              /\ \A i \in 1..Len(r) : u[i] = r[i]
              /\ \A i \in 1..Len(name) : u[Len(r) + i] = name[i]
    BY <2>1, Concat
  <2> QED
    BY <1>4, <2>2
<1>6. PICK n, m : n = Len(row) /\ m = Len(name)
  OBVIOUS
<1>7. n \in Nat /\ m \in Nat /\ Len(r) = n + 1 /\ n + 1 \in 1..n + 1 /\ \A i \in 1..n : i \in 1..n + 1
  BY <1>3, <1>5, <1>6
<1>8. \A i \in 1..n : c[i] = row[i]
  BY <1>3, <1>5, <1>6, <1>7
<1>9. c[n + 1] = "."
  BY <1>3, <1>5, <1>6, <1>7
<1>10. Len(c) = n + 1 + m /\ \A i \in 1..m : c[n + 1 + i] = name[i]
  BY <1>5, <1>6, <1>7
<1>11. c \in Seq(ColLetters)
  BY <1>5
<1> QED
  BY <1>6, <1>7, <1>8, <1>9, <1>10, <1>11

LEMMA CellParts ==
  ASSUME NEW row \in ColRows, NEW name \in Names, NEW c, c = Cell(<<row, name>>)
  PROVE  /\ c \in Seq(ColLetters) /\ Len(row) \in Nat /\ Len(c) \in Nat /\ Len(c) > Len(row) + 1
         /\ Dot(c) = Len(row) + 1
         /\ SubSeq(c, 1, Len(row)) = row
         /\ SubSeq(c, Len(row) + 2, Len(c)) = name
<1>1. row \in Seq(ColLetters) /\ name \in Seq(ColLetters) /\ name # <<>> /\ \A i \in 1..Len(row) : row[i] # "."
  BY RowsTyped, NamesTyped
<1>2. PICK n, m : n = Len(row) /\ m = Len(name)
  OBVIOUS
<1>3. n \in Nat /\ m \in Nat /\ m # 0
  BY <1>1, <1>2
<1>4. /\ c \in Seq(ColLetters) /\ Len(c) = n + 1 + m /\ c[n + 1] = "."
      /\ \A i \in 1..n : c[i] = row[i] /\ c[i] # "."
      /\ \A i \in 1..m : c[n + 1 + i] = name[i]
  BY <1>1, <1>2, CellLetters
<1>5. Dot(c) = n + 1
  <2>1. n + 1 \in Dots(c) /\ \A j \in Dots(c) : j \in Nat /\ n + 1 <= j
    BY <1>3, <1>4 DEF Dots
  <2>2. PICK i : i = CHOOSE k \in Dots(c) : \A j \in Dots(c) : k <= j
    OBVIOUS
  <2>3. i \in Dots(c) /\ \A j \in Dots(c) : i <= j
    BY <2>1, <2>2
  <2>4. i = n + 1
    BY <1>3, <2>1, <2>3
  <2> QED
    BY <2>1, <2>2, <2>4 DEF Dot
<1>6. SubSeq(c, 1, n) = row
  <2>1. SubSeq(c, 1, n) \in Seq(ColLetters) /\ Len(SubSeq(c, 1, n)) = n /\ \A i \in 1..n : SubSeq(c, 1, n)[i] = c[i]
    BY <1>3, <1>4
  <2>2. PICK t : t = SubSeq(c, 1, n)
    OBVIOUS
  <2>3. t \in Seq(ColLetters) /\ Len(t) = Len(row) /\ \A i \in 1..Len(t) : t[i] = row[i]
    BY <1>2, <1>4, <2>1, <2>2
  <2>4. t = row
    BY <1>1, <2>3, SeqEqual
  <2> QED
    BY <2>2, <2>4
<1>7. SubSeq(c, n + 2, Len(c)) = name
  <2>1. PICK t, k : t = SubSeq(c, k, Len(c)) /\ k = n + 2
    OBVIOUS
  <2>2. t \in Seq(ColLetters) /\ Len(t) = m /\ \A i \in 1..m : t[i] = c[k + i - 1]
    BY <1>3, <1>4, <2>1
  <2>3. \A i \in 1..m : k + i - 1 = n + 1 + i
    BY <1>3, <2>1
  <2>4. Len(t) = Len(name) /\ \A i \in 1..Len(t) : t[i] = name[i]
    BY <1>2, <1>4, <2>2, <2>3
  <2>5. t = name
    BY <1>1, <2>2, <2>4, SeqEqual
  <2> QED
    BY <2>1, <2>5
<1>8. n + 1 + m > n + 1 /\ n + 1 + m \in Nat
  BY <1>3
<1>9. c \in Seq(ColLetters) /\ n \in Nat /\ Len(c) \in Nat /\ Len(c) > n + 1
  BY <1>3, <1>4, <1>8
<1> QED
  BY <1>2, <1>5, <1>6, <1>7, <1>9

LEMMA CellsApart ==
  \A x, y \in ColRows \X Names : Cell(x) = Cell(y) => x = y
<1> SUFFICES ASSUME NEW x \in ColRows \X Names, NEW y \in ColRows \X Names, Cell(x) = Cell(y) PROVE x = y
  OBVIOUS
<1>1. PICK r, n, q, m, c : x = <<r, n>> /\ y = <<q, m>> /\ r \in ColRows /\ q \in ColRows /\ n \in Names /\ m \in Names /\ c = Cell(x)
  OBVIOUS
<1>2. r \in ColRows /\ n \in Names /\ c = Cell(<<r, n>>)
  BY <1>1
<1>a. q \in ColRows /\ m \in Names /\ c = Cell(<<q, m>>)
  BY <1>1
<1>3. Dot(c) = Len(r) + 1 /\ SubSeq(c, 1, Len(r)) = r /\ SubSeq(c, Len(r) + 2, Len(c)) = n /\ Len(r) \in Nat
  BY <1>2, CellParts
<1>4. Dot(c) = Len(q) + 1 /\ SubSeq(c, 1, Len(q)) = q /\ SubSeq(c, Len(q) + 2, Len(c)) = m /\ Len(q) \in Nat
  BY <1>a, CellParts
<1>5. Len(r) = Len(q)
  <2>1. Len(r) + 1 = Len(q) + 1 /\ Len(r) \in Nat /\ Len(q) \in Nat
    BY <1>3, <1>4, Zenon
  <2> QED
    BY <2>1
<1> QED
  BY <1>1, <1>3, <1>4, <1>5

\* A row with its dot begins the keys of its own cells only.
LEMMA RowPrefix ==
  ASSUME NEW row \in ColRows, NEW other \in ColRows, NEW name \in Names, NEW c, c = Cell(<<row, name>>)
  PROVE  IsPrefixOf(other \o <<".">>, c) <=> other = row
<1>1. /\ row \in Seq(ColLetters) /\ other \in Seq(ColLetters) /\ name \in Seq(ColLetters)
      /\ \A i \in 1..Len(row) : row[i] # "."
      /\ \A i \in 1..Len(other) : other[i] # "."
  BY RowsTyped, NamesTyped
<1>2. PICK n, k, p : n = Len(row) /\ k = Len(other) /\ p = other \o <<".">>
  OBVIOUS
<1>3. /\ p \in Seq(ColLetters) /\ n \in Nat /\ k \in Nat /\ Len(p) = k + 1 /\ p[k + 1] = "."
      /\ \A i \in 1..k : p[i] = other[i] /\ p[i] # "."
  <2>1. PICK dot : dot = <<".">>
    OBVIOUS
  <2>2. dot \in Seq(ColLetters) /\ Len(dot) = 1 /\ dot[1] = "." /\ 1 \in 1..Len(dot)
    BY <2>1, DotTyped
  <2>3. p = other \o dot
    BY <1>2, <2>1
  <2>4. /\ p \in Seq(ColLetters) /\ Len(p) = Len(other) + Len(dot)
        /\ \A i \in 1..Len(other) : p[i] = other[i]
        /\ \A i \in 1..Len(dot) : p[Len(other) + i] = dot[i]
    <3>1. other \in Seq(ColLetters) /\ dot \in Seq(ColLetters)
      BY <1>1, <2>2
    <3>2. \A u : u = other \o dot =>
                /\ u \in Seq(ColLetters) /\ Len(u) = Len(other) + Len(dot)
                /\ \A i \in 1..Len(other) : u[i] = other[i]
                /\ \A i \in 1..Len(dot) : u[Len(other) + i] = dot[i]
      BY <3>1, Concat
    <3> QED
      BY <2>3, <3>2
  <2>5. p[Len(other) + 1] = "."
    BY <2>2, <2>4
  <2>6. n \in Nat /\ k \in Nat
    BY <1>1, <1>2
  <2> QED
    BY <1>1, <1>2, <2>2, <2>4, <2>5, <2>6
<1>4. /\ c \in Seq(ColLetters) /\ Len(c) \in Nat /\ Len(c) >= n + 1 /\ c[n + 1] = "."
      /\ \A i \in 1..n : c[i] = row[i] /\ c[i] # "."
  <2>1. Len(c) \in Nat /\ Len(c) > n + 1
    BY <1>2, CellParts
  <2>2. c \in Seq(ColLetters) /\ c[n + 1] = "." /\ \A i \in 1..n : c[i] = row[i]
    BY <1>1, <1>2, CellLetters
  <2>3. \A i \in 1..n : row[i] # "."
    BY <1>1, <1>2
  <2>4. Len(c) >= n + 1
    BY <1>3, <2>1
  <2> QED
    BY <2>1, <2>2, <2>3, <2>4
<1>5. ASSUME IsPrefixOf(p, c) PROVE other = row
  <2>1. k + 1 <= Len(c) /\ \A i \in 1..k + 1 : c[i] = p[i]
    <3>1. k + 1 <= Len(c) /\ SubSeq(c, 1, k + 1) = p
      BY <1>3, <1>5 DEF IsPrefixOf
    <3>2. \A i \in 1..k + 1 : SubSeq(c, 1, k + 1)[i] = c[i]
      BY <1>3, <1>4, <3>1
    <3> QED
      BY <3>1, <3>2
  <2>2. ~(n < k)
    <3>1. n < k => n + 1 \in 1..k /\ n + 1 \in 1..k + 1
      BY <1>3
    <3> QED
      BY <1>3, <1>4, <2>1, <3>1
  <2>3. ~(k < n)
    <3>1. k < n => k + 1 \in 1..n /\ k + 1 \in 1..k + 1
      BY <1>3
    <3> QED
      BY <1>3, <1>4, <2>1, <3>1
  <2>4. k = n /\ \A i \in 1..k : i \in 1..k + 1
    BY <1>3, <2>2, <2>3
  <2>5. Len(other) = Len(row) /\ \A i \in 1..Len(other) : other[i] = row[i]
    BY <1>2, <1>3, <1>4, <2>1, <2>4
  <2> QED
    BY <1>1, <2>5, SeqEqual
<1>6. ASSUME other = row PROVE IsPrefixOf(p, c)
  <2>1. k = n /\ k + 1 <= Len(c) /\ 1..k + 1 = 1..k \cup {k + 1}
    BY <1>2, <1>3, <1>4, <1>6
  <2>2. PICK t : t = SubSeq(c, 1, k + 1)
    OBVIOUS
  <2>3. t \in Seq(ColLetters) /\ Len(t) = k + 1 /\ \A i \in 1..k + 1 : t[i] = c[i]
    BY <1>3, <1>4, <2>1, <2>2
  <2>4. \A i \in 1..k + 1 : c[i] = p[i]
    BY <1>3, <1>4, <1>6, <2>1
  <2>5. Len(t) = Len(p) /\ \A i \in 1..Len(t) : t[i] = p[i]
    BY <1>3, <2>3, <2>4
  <2>6. t = p
    BY <1>3, <2>3, <2>5, SeqEqual
  <2> QED
    BY <1>3, <2>1, <2>2, <2>6 DEF IsPrefixOf
<1> QED
  BY <1>2, <1>5, <1>6

-----------------------------------------------------------------------------
(* What the calls on dictionaries make of a grid is a grid. *)

LEMMA GridCell ==
  ASSUME NEW dict, NEW grid, GridOf(dict, grid), NEW x \in ColRows \X Names
  PROVE  Cell(x) \in DOMAIN dict <=> x \in DOMAIN grid
<1>1. ASSUME Cell(x) \in DOMAIN dict PROVE x \in DOMAIN grid
  <2>1. PICK y \in DOMAIN grid : Cell(x) = Cell(y)
    BY <1>1 DEF GridOf
  <2>2. y \in ColRows \X Names
    BY <2>1 DEF GridOf
  <2> QED
    BY <2>1, <2>2, CellsApart
<1> QED
  BY <1>1 DEF GridOf

LEMMA GridEmpty == GridOf(NoEntries, NoEntries)
<1>1. DOMAIN NoEntries = {}
  BY DEF NoEntries
<1> QED
  BY <1>1, FS_EmptySet DEF GridOf

LEMMA GridPut ==
  ASSUME NEW dict, NEW grid, GridOf(dict, grid), NEW x \in ColRows \X Names, NEW v \in ColValues
  PROVE  GridOf(Updated(dict, Cell(x), v), Updated(grid, x, v))
<1>1. PICK f, g : f = Updated(dict, Cell(x), v) /\ g = Updated(grid, x, v)
  OBVIOUS
<1>2. DOMAIN f = DOMAIN dict \cup {Cell(x)} /\ DOMAIN g = DOMAIN grid \cup {x}
  BY <1>1 DEF Updated
<1>3. DOMAIN g \subseteq ColRows \X Names /\ IsFiniteSet(DOMAIN g)
  BY <1>2, FS_AddElement DEF GridOf
<1>4. DOMAIN f = {Cell(y) : y \in DOMAIN g}
  BY <1>2 DEF GridOf
<1>5. ASSUME NEW y \in DOMAIN g PROVE f[Cell(y)] = g[y] /\ g[y] \in ColValues
  <2>1. CASE y = x
    BY <1>1, <2>1 DEF Updated
  <2>2. CASE y # x
    <3>1. y \in DOMAIN grid /\ Cell(y) \in DOMAIN dict /\ y \in ColRows \X Names /\ Cell(y) # Cell(x)
      BY <1>2, <1>3, <2>2, CellsApart DEF GridOf
    <3>2. f[Cell(y)] = dict[Cell(y)] /\ g[y] = grid[y]
      BY <1>1, <2>2, <3>1 DEF Updated
    <3> QED
      BY <3>1, <3>2 DEF GridOf
  <2> QED
    BY <2>1, <2>2
<1> QED
  BY <1>1, <1>3, <1>4, <1>5 DEF GridOf

LEMMA GridDrop ==
  ASSUME NEW dict, NEW grid, GridOf(dict, grid), NEW K, NEW X,
         \A y \in DOMAIN grid : Cell(y) \in K <=> y \in X
  PROVE  GridOf(Dropped(dict, K), Dropped(grid, X))
<1>1. PICK f, g : f = Dropped(dict, K) /\ g = Dropped(grid, X)
  OBVIOUS
<1>2. DOMAIN f = DOMAIN dict \ K /\ DOMAIN g = DOMAIN grid \ X
  BY <1>1 DEF Dropped
<1>3. DOMAIN g \subseteq ColRows \X Names /\ IsFiniteSet(DOMAIN g)
  BY <1>2, FS_Subset DEF GridOf
<1>4. DOMAIN f = {Cell(y) : y \in DOMAIN g}
  BY <1>2 DEF GridOf
<1>5. ASSUME NEW y \in DOMAIN g PROVE f[Cell(y)] = g[y] /\ g[y] \in ColValues
  <2>1. y \in DOMAIN grid /\ Cell(y) \in DOMAIN f
    BY <1>2, <1>4
  <2>2. f[Cell(y)] = dict[Cell(y)] /\ g[y] = grid[y]
    BY <1>1, <1>2, <2>1 DEF Dropped
  <2> QED
    BY <2>1, <2>2 DEF GridOf
<1> QED
  BY <1>1, <1>3, <1>4, <1>5 DEF GridOf

LEMMA GridMerge ==
  ASSUME NEW dict, NEW grid, GridOf(dict, grid), NEW dict2, NEW grid2, GridOf(dict2, grid2)
  PROVE  GridOf(Merged(dict, dict2), Merged(grid, grid2))
<1>1. PICK f, g : f = Merged(dict, dict2) /\ g = Merged(grid, grid2)
  OBVIOUS
<1>2. DOMAIN f = DOMAIN dict \cup DOMAIN dict2 /\ DOMAIN g = DOMAIN grid \cup DOMAIN grid2
  BY <1>1 DEF Merged
<1>3. DOMAIN g \subseteq ColRows \X Names /\ IsFiniteSet(DOMAIN g)
  <2>1. IsFiniteSet(DOMAIN grid) /\ IsFiniteSet(DOMAIN grid2)
    BY DEF GridOf
  <2>2. IsFiniteSet(DOMAIN g)
    BY <1>2, <2>1, FS_Union
  <2> QED
    BY <1>2, <2>2 DEF GridOf
<1>4. DOMAIN f = {Cell(y) : y \in DOMAIN g}
  BY <1>2 DEF GridOf
<1>5. ASSUME NEW y \in DOMAIN g PROVE f[Cell(y)] = g[y] /\ g[y] \in ColValues
  <2>1. y \in ColRows \X Names /\ Cell(y) \in DOMAIN f
    BY <1>3, <1>4
  <2>2. Cell(y) \in DOMAIN dict2 <=> y \in DOMAIN grid2
    BY <2>1, GridCell
  <2>3. /\ f[Cell(y)] = IF y \in DOMAIN grid2 THEN dict2[Cell(y)] ELSE dict[Cell(y)]
        /\ g[y] = IF y \in DOMAIN grid2 THEN grid2[y] ELSE grid[y]
    BY <1>1, <1>2, <2>1, <2>2 DEF Merged
  <2> QED
    BY <1>2, <2>3 DEF GridOf
<1> QED
  BY <1>1, <1>3, <1>4, <1>5 DEF GridOf

-----------------------------------------------------------------------------
(* What is read off a dictionary that is a grid is what the grid says. *)

LEMMA CellRead ==
  ASSUME NEW x \in ColRows \X Names, NEW c, c = Cell(x)
  PROVE  /\ x = <<x[1], x[2]>> /\ x[1] \in ColRows /\ x[2] \in Names
         /\ Dot(c) # 0 /\ Dot(c) # Len(c)
         /\ SubSeq(c, 1, Dot(c) - 1) = x[1] /\ SubSeq(c, Dot(c) + 1, Len(c)) = x[2]
         /\ Len(c) > Len(x[1]) + 1 /\ SubSeq(c, Len(x[1]) + 2, Len(c)) = x[2]
         /\ \A row \in ColRows : IsPrefixOf(row \o <<".">>, c) <=> row = x[1]
<1>1. PICK r, n : x = <<r, n>> /\ r \in ColRows /\ n \in Names
  OBVIOUS
<1>2. r = x[1] /\ n = x[2]
  BY <1>1
<1>3. c = Cell(<<r, n>>)
  BY <1>1
<1>4. /\ Len(r) \in Nat /\ Len(c) \in Nat /\ Len(c) > Len(r) + 1
      /\ Dot(c) = Len(r) + 1 /\ SubSeq(c, 1, Len(r)) = r /\ SubSeq(c, Len(r) + 2, Len(c)) = n
  BY <1>1, <1>3, CellParts
<1>5. \A row \in ColRows : IsPrefixOf(row \o <<".">>, c) <=> row = r
  BY <1>1, <1>3, RowPrefix
<1>6. PICK k, m, d : k = Len(r) /\ m = Len(c) /\ d = Dot(c)
  OBVIOUS
<1>7. k \in Nat /\ m \in Nat /\ m > k + 1 /\ d = k + 1
  BY <1>4, <1>6
<1>8. d # 0 /\ d # m /\ d - 1 = k /\ d + 1 = k + 2
  BY <1>7
<1>9. SubSeq(c, 1, k) = r /\ SubSeq(c, k + 2, m) = n
  BY <1>4, <1>6
<1>10. SubSeq(c, 1, d - 1) = r /\ SubSeq(c, d + 1, m) = n
  BY <1>8, <1>9
<1> QED
  BY <1>1, <1>2, <1>5, <1>6, <1>7, <1>8, <1>9, <1>10

LEMMA RowsRead ==
  ASSUME NEW dict, NEW grid, GridOf(dict, grid)
  PROVE  /\ table_rows(dict) = {x[1] : x \in DOMAIN grid}
         /\ table_columns(dict) = {x[2] : x \in DOMAIN grid}
<1>1. \A x \in DOMAIN grid : Cell(x) \in DOMAIN dict
  BY DEF GridOf
<1>2. \A k \in DOMAIN dict : \E x \in DOMAIN grid : k = Cell(x)
  BY DEF GridOf
<1>3. \A x \in DOMAIN grid : LET c == Cell(x) IN
        /\ Dot(c) # 0 /\ Dot(c) # Len(c)
        /\ SubSeq(c, 1, Dot(c) - 1) = x[1] /\ SubSeq(c, Dot(c) + 1, Len(c)) = x[2]
  BY CellRead DEF GridOf
<1>4. table_rows(dict) = {x[1] : x \in DOMAIN grid}
  <2>1. ASSUME NEW x \in DOMAIN grid PROVE x[1] \in table_rows(dict)
    BY <1>1, <1>3 DEF table_rows
  <2>2. ASSUME NEW r \in table_rows(dict) PROVE r \in {x[1] : x \in DOMAIN grid}
    <3>1. PICK k \in DOMAIN dict : r = SubSeq(k, 1, Dot(k) - 1)
      BY DEF table_rows
    <3>2. PICK x \in DOMAIN grid : k = Cell(x)
      BY <1>2
    <3> QED
      BY <1>3, <3>1, <3>2
  <2> QED
    BY <2>1, <2>2
<1>5. table_columns(dict) = {x[2] : x \in DOMAIN grid}
  <2>1. ASSUME NEW x \in DOMAIN grid PROVE x[2] \in table_columns(dict)
    BY <1>1, <1>3 DEF table_columns
  <2>2. ASSUME NEW r \in table_columns(dict) PROVE r \in {x[2] : x \in DOMAIN grid}
    <3>1. PICK k \in DOMAIN dict : r = SubSeq(k, Dot(k) + 1, Len(k))
      BY DEF table_columns
    <3>2. PICK x \in DOMAIN grid : k = Cell(x)
      BY <1>2
    <3> QED
      BY <1>3, <3>1, <3>2
  <2> QED
    BY <2>1, <2>2
<1> QED
  BY <1>4, <1>5

LEMMA RowRead ==
  ASSUME NEW dict, NEW grid, GridOf(dict, grid), NEW row \in ColRows,
         NEW Of, Of = {x[2] : x \in {y \in DOMAIN grid : y[1] = row}}
  PROVE  table_row_keys(dict, row) = Of /\ table_count_row(dict, row) = Cardinality(Of)
<1>1. \A x \in DOMAIN grid : x \in ColRows \X Names /\ Cell(x) \in DOMAIN dict /\ x = <<x[1], x[2]>>
  BY CellRead DEF GridOf
<1>2. \A k \in RowOf(dict, row) : \E x \in DOMAIN grid : k = Cell(x) /\ x[1] = row
  <2> TAKE k \in RowOf(dict, row)
  <2>1. k \in DOMAIN dict /\ IsPrefixOf(row \o <<".">>, k)
    BY DEF RowOf
  <2>2. PICK x \in DOMAIN grid : k = Cell(x)
    BY <2>1 DEF GridOf
  <2> QED
    BY <1>1, <2>1, <2>2, CellRead
<1>3. \A x \in DOMAIN grid : x[1] = row => Cell(x) \in RowOf(dict, row)
  BY <1>1, CellRead DEF RowOf
<1>4. \A x \in DOMAIN grid : x[1] = row =>
        Len(Cell(x)) > Len(row) + 1 /\ SubSeq(Cell(x), Len(row) + 2, Len(Cell(x))) = x[2]
  BY <1>1, CellRead
<1>5. table_row_keys(dict, row) = Of
  <2>1. ASSUME NEW n \in Of PROVE n \in table_row_keys(dict, row)
    <3>1. PICK x \in DOMAIN grid : x[1] = row /\ n = x[2]
      OBVIOUS
    <3> QED
      BY <1>3, <1>4, <3>1 DEF table_row_keys
  <2>2. ASSUME NEW n \in table_row_keys(dict, row) PROVE n \in Of
    <3>1. PICK k \in RowOf(dict, row) : n = SubSeq(k, Len(row) + 2, Len(k))
      BY DEF table_row_keys
    <3>2. PICK x \in DOMAIN grid : k = Cell(x) /\ x[1] = row
      BY <1>2
    <3> QED
      BY <1>4, <3>1, <3>2
  <2> QED
    BY <2>1, <2>2
<1>6. Cardinality(RowOf(dict, row)) = Cardinality(Of)
  <2>1. PICK f : f = [n \in Of |-> Cell(<<row, n>>)]
    OBVIOUS
  <2>2. \A n \in Of : <<row, n>> \in DOMAIN grid /\ f[n] = Cell(<<row, n>>) /\ f[n] \in RowOf(dict, row)
    BY <1>1, <1>3, <2>1
  <2>3. \A n, m \in Of : f[n] = f[m] => n = m
    <3> SUFFICES ASSUME NEW n \in Of, NEW m \in Of, f[n] = f[m] PROVE n = m
      OBVIOUS
    <3>1. <<row, n>> \in ColRows \X Names /\ <<row, m>> \in ColRows \X Names /\ Cell(<<row, n>>) = Cell(<<row, m>>)
      BY <1>1, <2>2
    <3>2. <<row, n>> = <<row, m>>
      BY <3>1, CellsApart
    <3> QED
      BY <3>2
  <2>4. \A k \in RowOf(dict, row) : \E n \in Of : f[n] = k
    <3> TAKE k \in RowOf(dict, row)
    <3>1. PICK x \in DOMAIN grid : k = Cell(x) /\ x[1] = row
      BY <1>2
    <3>2. x[2] \in Of /\ x = <<row, x[2]>>
      BY <1>1, <3>1
    <3> QED
      BY <2>2, <3>1, <3>2
  <2>5. f \in Bijection(Of, RowOf(dict, row))
    BY <2>1, <2>2, <2>3, <2>4 DEF Bijection, Injection, Surjection, IsInjective
  <2>6. IsFiniteSet(Of)
    <3>1. PICK g : g = [x \in {y \in DOMAIN grid : y[1] = row} |-> x[2]]
      OBVIOUS
    <3>2. g \in Surjection({y \in DOMAIN grid : y[1] = row}, Of)
      BY <3>1 DEF Surjection
    <3>3. IsFiniteSet({y \in DOMAIN grid : y[1] = row})
      BY FS_Subset DEF GridOf
    <3> QED
      BY <3>2, <3>3, FS_Surjection
  <2> QED
    BY <2>5, <2>6, FS_Bijection DEF ExistsBijection
<1> QED
  BY <1>5, <1>6 DEF table_count_row

LEMMA CellsRead ==
  ASSUME NEW dict, NEW grid, GridOf(dict, grid), NEW row \in ColRows, NEW columns \in ColColumns
  PROVE  dict_get_or(dict, Key(row, columns), "none") = dict_get_or(grid, <<row, dict_key(columns)>>, "none")
<1>1. PICK x : x = <<row, dict_key(columns)>>
  OBVIOUS
<1>2. x \in ColRows \X Names /\ Key(row, columns) = Cell(x)
  BY <1>1, KeysAreCells
<1>3. Cell(x) \in DOMAIN dict <=> x \in DOMAIN grid
  BY <1>2, GridCell
<1> QED
  BY <1>1, <1>2, <1>3 DEF dict_get_or, GridOf

-----------------------------------------------------------------------------
(* All dictionaries are grids, whatever calls a script makes. *)

LEMMA SeqMade ==
  ASSUME NEW n \in Nat, NEW t, t = [i \in 1..n |-> t[i]]
  PROVE  InSeq(t) /\ Len(t) = n /\ DOMAIN t = 1..n
<1>1. DOMAIN t = 1..n
  OBVIOUS
<1>2. t \in [1..n -> {t[i] : i \in DOMAIN t}]
  BY <1>1
<1>3. t \in Seq({t[i] : i \in DOMAIN t})
  BY <1>2
<1>4. Len(t) = n
  BY <1>1, <1>3
<1> QED
  BY <1>1, <1>3, <1>4 DEF InSeq

LEMMA SeqIs == ASSUME NEW s, InSeq(s) PROVE Len(s) \in Nat /\ DOMAIN s = 1..Len(s) /\ s = [i \in 1..Len(s) |-> s[i]]
  BY DEF InSeq

LEMMA SeqItself == ASSUME NEW R, NEW t \in Seq(R) PROVE t = [i \in 1..Len(t) |-> t[i]]
  OBVIOUS

(* One element of a sequence is another; a sequence has one element more. *)
ChangedAt(t, s, d, v) == t = [s EXCEPT ![d] = v]
LEMMA SeqChanged ==
  ASSUME NEW s, InSeq(s), NEW d \in DOMAIN s, NEW v, NEW t, ChangedAt(t, s, d, v)
  PROVE  InSeq(t) /\ Len(t) = Len(s) /\ t[d] = v /\ \A i \in DOMAIN s : i # d => t[i] = s[i]
<1>0. t = [s EXCEPT ![d] = v]
  BY DEF ChangedAt
<1>1. PICK n : n = Len(s)
  OBVIOUS
<1>2. n \in Nat /\ DOMAIN s = 1..n
  BY <1>1, SeqIs
<1>3. t = [i \in 1..n |-> t[i]]
  BY <1>0, <1>2
<1> QED
  BY <1>0, <1>1, <1>2, <1>3, SeqMade

GrownBy(t, s, v) == t = Append(s, v)
LEMMA SeqGrown ==
  ASSUME NEW s, InSeq(s), NEW v, NEW t, GrownBy(t, s, v)
  PROVE  InSeq(t) /\ Len(t) = Len(s) + 1 /\ t[Len(s) + 1] = v /\ \A i \in DOMAIN s : t[i] = s[i]
<1>0. t = Append(s, v)
  BY DEF GrownBy
<1>1. PICK n : n = Len(s)
  OBVIOUS
<1>2. n \in Nat /\ DOMAIN s = 1..n
  BY <1>1, SeqIs
<1>3. PICK R : R = {s[i] : i \in DOMAIN s} \cup {v}
  OBVIOUS
<1>4. s \in Seq(R)
  <2>1. s \in [1..n -> R]
    BY <1>1, <1>2, <1>3, SeqIs
  <2> QED
    BY <1>2, <2>1
<1>5. v \in R
  BY <1>3
<1>6. t \in Seq(R) /\ Len(t) = n + 1 /\ t[n + 1] = v /\ \A i \in 1..n : t[i] = s[i]
  BY <1>0, <1>1, <1>4, <1>5
<1>7. t = [i \in 1..n + 1 |-> t[i]] /\ n + 1 \in Nat
  <2>1. t = [i \in 1..Len(t) |-> t[i]]
    <3>1. t \in Seq(R)
      BY <1>6
    <3> QED
      BY <3>1, SeqItself
  <2>2. Len(t) = n + 1
    BY <1>6
  <2> QED
    BY <1>2, <2>1, <2>2
<1> QED
  BY <1>1, <1>2, <1>6, <1>7, SeqMade

SideBySide == Grids /\ Len(colDicts) = Len(colGrids)

LEMMA GridsChange ==
  ASSUME SideBySide, NEW d \in DOMAIN colDicts, NEW dict, NEW grid, GridOf(dict, grid), Changes(d, dict, grid)
  PROVE  SideBySide'
<1>1. colDicts' = [colDicts EXCEPT ![d] = dict] /\ colGrids' = [colGrids EXCEPT ![d] = grid]
  BY DEF Changes
<1>0. InSeq(colDicts) /\ InSeq(colGrids)
  BY DEF SideBySide, Grids
<1>2. DOMAIN colDicts = 1..Len(colDicts) /\ DOMAIN colGrids = DOMAIN colDicts
  BY SeqIs DEF SideBySide, Grids
<1>3. /\ InSeq(colDicts') /\ Len(colDicts') = Len(colDicts) /\ colDicts'[d] = dict
      /\ \A i \in DOMAIN colDicts : i # d => colDicts'[i] = colDicts[i]
  <2>1. PICK s, t : s = colDicts /\ t = colDicts'
    OBVIOUS
  <2>2. InSeq(s) /\ d \in DOMAIN s
    BY <1>0, <1>2, <2>1
  <2>3. ChangedAt(t, s, d, dict)
    BY <1>1, <2>1 DEF ChangedAt
  <2>4. InSeq(t) /\ Len(t) = Len(s) /\ t[d] = dict /\ \A i \in DOMAIN s : i # d => t[i] = s[i]
    BY <2>2, <2>3, SeqChanged
  <2> QED
    BY <2>1, <2>4
<1>4. /\ InSeq(colGrids') /\ Len(colGrids') = Len(colGrids) /\ colGrids'[d] = grid
      /\ \A i \in DOMAIN colGrids : i # d => colGrids'[i] = colGrids[i]
  <2>1. PICK s, t : s = colGrids /\ t = colGrids'
    OBVIOUS
  <2>2. InSeq(s) /\ d \in DOMAIN s
    BY <1>0, <1>2, <2>1
  <2>3. ChangedAt(t, s, d, grid)
    BY <1>1, <2>1 DEF ChangedAt
  <2>4. InSeq(t) /\ Len(t) = Len(s) /\ t[d] = grid /\ \A i \in DOMAIN s : i # d => t[i] = s[i]
    BY <2>2, <2>3, SeqChanged
  <2> QED
    BY <2>1, <2>4
<1>5. DOMAIN colDicts' = DOMAIN colDicts
  BY <1>2, <1>3, SeqIs
<1>6. \A i \in DOMAIN colDicts' : GridOf(colDicts'[i], colGrids'[i])
  <2> TAKE i \in DOMAIN colDicts'
  <2>1. CASE i = d
    BY <1>3, <1>4, <2>1
  <2>2. CASE i # d
    <3>1. GridOf(colDicts[i], colGrids[i])
      BY <1>5 DEF SideBySide, Grids
    <3>2. colDicts'[i] = colDicts[i] /\ colGrids'[i] = colGrids[i]
      BY <1>2, <1>3, <1>4, <1>5, <2>2
    <3> QED
      BY <3>1, <3>2
  <2> QED
    BY <2>1, <2>2
<1> QED
  BY <1>3, <1>4, <1>6 DEF SideBySide, Grids, InSeq, GridOf, Cell, Names

LEMMA GridsCreated ==
  ASSUME SideBySide, NEW dict, NEW grid, GridOf(dict, grid), Created(dict, grid)
  PROVE  SideBySide'
<1>1. colDicts' = Append(colDicts, dict) /\ colGrids' = Append(colGrids, grid)
  BY DEF Created
<1>0. InSeq(colDicts) /\ InSeq(colGrids)
  BY DEF SideBySide, Grids
<1>2. PICK n : n = Len(colDicts)
  OBVIOUS
<1>3. n \in Nat /\ n = Len(colGrids) /\ DOMAIN colDicts = 1..n /\ DOMAIN colGrids = 1..n
  BY <1>2, SeqIs DEF SideBySide, Grids
<1>4. /\ InSeq(colDicts') /\ Len(colDicts') = n + 1 /\ colDicts'[n + 1] = dict
      /\ \A i \in 1..n : colDicts'[i] = colDicts[i]
  <2>1. PICK s, t : s = colDicts /\ t = colDicts'
    OBVIOUS
  <2>2. InSeq(s) /\ Len(s) = n /\ DOMAIN s = 1..n
    BY <1>0, <1>2, <1>3, <2>1
  <2>3. GrownBy(t, s, dict)
    BY <1>1, <2>1 DEF GrownBy
  <2>4. InSeq(t) /\ Len(t) = Len(s) + 1 /\ t[Len(s) + 1] = dict /\ \A i \in DOMAIN s : t[i] = s[i]
    BY <2>2, <2>3, SeqGrown
  <2> QED
    BY <2>1, <2>2, <2>4
<1>5. /\ InSeq(colGrids') /\ Len(colGrids') = n + 1 /\ colGrids'[n + 1] = grid
      /\ \A i \in 1..n : colGrids'[i] = colGrids[i]
  <2>1. PICK s, t : s = colGrids /\ t = colGrids'
    OBVIOUS
  <2>2. InSeq(s) /\ Len(s) = n /\ DOMAIN s = 1..n
    BY <1>0, <1>2, <1>3, <2>1
  <2>3. GrownBy(t, s, grid)
    BY <1>1, <2>1 DEF GrownBy
  <2>4. InSeq(t) /\ Len(t) = Len(s) + 1 /\ t[Len(s) + 1] = grid /\ \A i \in DOMAIN s : t[i] = s[i]
    BY <2>2, <2>3, SeqGrown
  <2> QED
    BY <2>1, <2>2, <2>4
<1>6. DOMAIN colDicts' = 1..n + 1
  BY <1>4, SeqIs
<1>7. \A i \in DOMAIN colDicts' : GridOf(colDicts'[i], colGrids'[i])
  <2> TAKE i \in DOMAIN colDicts'
  <2>1. CASE i = n + 1
    BY <1>4, <1>5, <2>1
  <2>2. CASE i # n + 1
    <3>1. i \in 1..n
      BY <1>3, <1>6, <2>2
    <3>2. GridOf(colDicts[i], colGrids[i])
      BY <1>3, <3>1 DEF SideBySide, Grids
    <3> QED
      BY <1>4, <1>5, <3>1, <3>2
  <2> QED
    BY <2>1, <2>2
<1> QED
  BY <1>4, <1>5, <1>7 DEF SideBySide, Grids, InSeq, GridOf, Cell, Names

LEMMA UseDictGrids == ASSUME SideBySide, UseDict PROVE SideBySide'
<1>1. \A d \in DOMAIN colDicts : GridOf(colDicts[d], colGrids[d])
  BY DEF SideBySide, Grids
<1>2. CASE Created(NoEntries, NoEntries)
  BY <1>2, GridEmpty, GridsCreated
<1>3. ASSUME NEW d \in DOMAIN colDicts, Created(colDicts[d], colGrids[d]) PROVE SideBySide'
  BY <1>1, <1>3, GridsCreated
<1>4. ASSUME NEW d \in DOMAIN colDicts, NEW row \in ColRows, NEW columns \in ColColumns, EraseCell(d, row, columns)
      PROVE  SideBySide'
  <2>1. PICK x : x = <<row, dict_key(columns)>>
    OBVIOUS
  <2>2. x \in ColRows \X Names /\ Key(row, columns) = Cell(x)
    BY <2>1, KeysAreCells
  <2>3. \A y \in DOMAIN colGrids[d] : Cell(y) \in {Cell(x)} <=> y \in {x}
    BY <1>1, <2>2, CellsApart DEF GridOf
  <2>4. PICK dict, grid : dict = Dropped(colDicts[d], {Cell(x)}) /\ grid = Dropped(colGrids[d], {x})
    OBVIOUS
  <2>5. GridOf(dict, grid)
    BY <1>1, <2>3, <2>4, GridDrop
  <2>6. Changes(d, dict, grid)
    BY <1>4, <2>1, <2>2, <2>4 DEF EraseCell
  <2> QED
    BY <2>5, <2>6, GridsChange
<1>5. ASSUME NEW d \in DOMAIN colDicts, NEW row \in ColRows, NEW columns \in ColColumns, NEW v \in ColValues,
             PutCell(d, row, columns, v)
      PROVE  SideBySide'
  <2>1. PICK x : x = <<row, dict_key(columns)>>
    OBVIOUS
  <2>2. x \in ColRows \X Names /\ Key(row, columns) = Cell(x)
    BY <2>1, KeysAreCells
  <2>3. PICK dict, grid : dict = Updated(colDicts[d], Cell(x), v) /\ grid = Updated(colGrids[d], x, v)
    OBVIOUS
  <2>4. GridOf(dict, grid)
    BY <1>1, <2>2, <2>3, GridPut
  <2>5. Changes(d, dict, grid)
    BY <1>5, <2>1, <2>2, <2>3 DEF PutCell
  <2> QED
    BY <2>4, <2>5, GridsChange
<1>6. ASSUME NEW d \in DOMAIN colDicts, NEW row \in ColRows, table_clear_row(d, row) PROVE SideBySide'
  <2>1. PICK X, K : X = {x \in DOMAIN colGrids[d] : x[1] = row} /\ K = RowOf(colDicts[d], row)
    OBVIOUS
  <2>2. \A y \in DOMAIN colGrids[d] : Cell(y) \in K <=> y \in X
    <3> TAKE y \in DOMAIN colGrids[d]
    <3>1. y \in ColRows \X Names /\ Cell(y) \in DOMAIN colDicts[d]
      BY <1>1 DEF GridOf
    <3>2. IsPrefixOf(row \o <<".">>, Cell(y)) <=> row = y[1]
      BY <3>1, CellRead
    <3> QED
      BY <2>1, <3>1, <3>2 DEF RowOf
  <2>3. PICK dict, grid : dict = Dropped(colDicts[d], K) /\ grid = Dropped(colGrids[d], X)
    OBVIOUS
  <2>4. GridOf(dict, grid)
    BY <1>1, <2>2, <2>3, GridDrop
  <2>5. Changes(d, dict, grid)
    BY <1>6, <2>1, <2>3 DEF table_clear_row
  <2> QED
    BY <2>4, <2>5, GridsChange
<1>7. ASSUME NEW d \in DOMAIN colDicts, dict_clear(d) PROVE SideBySide'
  BY <1>7, GridEmpty, GridsChange DEF dict_clear
<1>8. ASSUME NEW d \in DOMAIN colDicts, NEW e \in DOMAIN colDicts, dict_merge(d, e) PROVE SideBySide'
  <2>1. PICK dict, grid : dict = Merged(colDicts[d], colDicts[e]) /\ grid = Merged(colGrids[d], colGrids[e])
    OBVIOUS
  <2>2. GridOf(dict, grid)
    BY <1>1, <2>1, GridMerge
  <2>3. Changes(d, dict, grid)
    BY <1>8, <2>1 DEF dict_merge
  <2> QED
    BY <2>2, <2>3, GridsChange
<1> QED
  BY <1>2, <1>3, <1>4, <1>5, <1>6, <1>7, <1>8 DEF UseDict

-----------------------------------------------------------------------------
(* What map, filter and reduce answer. *)

\* A result that is made step by step from the one before exists.
Stepwise(f, a, g, N) == \A k \in 0..N : f[k] = IF k = 0 THEN a ELSE g[<<f[k - 1], k>>]
LEMMA StepsExist ==
  ASSUME NEW S, NEW a \in S, NEW N \in Nat, NEW g \in [S \X (1..N) -> S]
  PROVE  \E f \in [0..N -> S] : Stepwise(f, a, g, N)
<1> DEFINE Made(f, n) == f \in [0..n -> S] /\ \A k \in 0..n : f[k] = IF k = 0 THEN a ELSE g[<<f[k - 1], k>>]
           Bad == {n \in 0..N : ~ \E f : Made(f, n)}
<1>1. Bad = {}
  <2> SUFFICES ASSUME Bad # {} PROVE FALSE
    OBVIOUS
  <2>0. Bad \in SUBSET Nat
    OBVIOUS
  <2>1. PICK n \in Bad : \A k \in Bad : n <= k
    <3> HIDE DEF Bad
    <3> QED
      BY <2>0, LeastNat
  <2>2. n \in 0..N /\ n \in Nat /\ ~ \E f : Made(f, n)
    BY <2>1
  <2>3. CASE n = 0
    <3>1. PICK f : f = [k \in 0..0 |-> a]
      OBVIOUS
    <3>2. Made(f, 0)
      BY <3>1
    <3> QED
      BY <2>2, <2>3, <3>2
  <2>4. CASE n # 0
    <3>1. n - 1 \in 0..N /\ n - 1 \notin Bad
      BY <2>1, <2>2, <2>4
    <3>2. PICK f : Made(f, n - 1)
      BY <3>1
    <3>3. f[n - 1] \in S /\ n \in 1..N /\ g[<<f[n - 1], n>>] \in S
      BY <2>2, <2>4, <3>2
    <3>4. PICK h : h = [k \in 0..n |-> IF k = n THEN g[<<f[n - 1], n>>] ELSE f[k]]
      OBVIOUS
    <3>5. \A k \in 0..n : h[k] = IF k = n THEN g[<<f[n - 1], n>>] ELSE f[k]
      BY <3>4
    <3>6. h \in [0..n -> S]
      <4>1. \A k \in 0..n : k # n => k \in 0..n - 1
        BY <2>2
      <4>2. \A k \in 0..n - 1 : f[k] \in S
        BY <3>2
      <4> QED
        BY <3>3, <3>4, <4>1, <4>2
    <3>7. \A k \in 0..n : h[k] = IF k = 0 THEN a ELSE g[<<h[k - 1], k>>]
      <4> TAKE k \in 0..n
      <4>1. CASE k = n
        <5>1. n - 1 \in 0..n /\ n - 1 # n
          BY <2>2, <2>4
        <5> QED
          BY <2>2, <2>4, <3>5, <4>1, <5>1
      <4>2. CASE k # n
        <5>1. k \in 0..n - 1 /\ (k # 0 => k - 1 \in 0..n /\ k - 1 # n)
          BY <2>2, <4>2
        <5>2. f[k] = IF k = 0 THEN a ELSE g[<<f[k - 1], k>>]
          BY <3>2, <5>1
        <5> QED
          BY <3>5, <4>2, <5>1, <5>2
      <4> QED
        BY <4>1, <4>2
    <3> QED
      BY <2>2, <3>6, <3>7
  <2> QED
    BY <2>3, <2>4
<1>2. N \in 0..N /\ N \notin Bad
  BY <1>1
<1> QED
  BY <1>2 DEF Stepwise

\* What holds of the first step and is handed on holds of the last.
LEMMA Steps ==
  ASSUME NEW N \in Nat, NEW P \in SUBSET Nat, 0 \in P, \A k \in 1..N : k - 1 \in P => k \in P
  PROVE  N \in P
<1> DEFINE Bad == {n \in 0..N : n \notin P}
<1>1. Bad = {}
  <2> SUFFICES ASSUME Bad # {} PROVE FALSE
    OBVIOUS
  <2>0. Bad \in SUBSET Nat
    OBVIOUS
  <2>1. PICK n \in Bad : \A k \in Bad : n <= k
    <3> HIDE DEF Bad
    <3> QED
      BY <2>0, LeastNat
  <2>2. n \in 0..N /\ n \in Nat /\ n \notin P /\ n # 0
    BY <2>1
  <2>3. n \in 1..N /\ n - 1 \in 0..N /\ n - 1 \notin Bad
    BY <2>1, <2>2
  <2> QED
    BY <2>2, <2>3
<1> QED
  BY <1>1

LEMMA FilterKeeps ==
  ASSUME NEW list \in Seq(ColValues), NEW f \in [ColValues -> ColValues \cup {"none"}]
  PROVE  /\ filter(list, f) \in Seq(ColValues)
         /\ filter(list, f) = <<>> <=> \A i \in DOMAIN list : ~Keeps(Result(f[list[i]], list[i]))
<1>1. PICK N : N = Len(list)
  OBVIOUS
<1>2. N \in Nat /\ DOMAIN list = 1..N /\ \A i \in 1..N : list[i] \in ColValues
  BY <1>1
<1>3. PICK kept : kept = [i \in 1..N |-> Keeps(Result(f[list[i]], list[i]))]
  OBVIOUS
<1> DEFINE Made(r) == r = [n \in 0..N |-> IF n = 0 THEN <<>>
                                          ELSE IF Keeps(Result(f[list[n]], list[n])) THEN Append(r[n - 1], list[n])
                                          ELSE r[n - 1]]
<1>4. \E r : Made(r)
  <2>1. PICK g : g = [x \in Seq(ColValues) \X (1..N) |->
                       IF Keeps(Result(f[list[x[2]]], list[x[2]])) THEN Append(x[1], list[x[2]]) ELSE x[1]]
    OBVIOUS
  <2>2. g \in [Seq(ColValues) \X (1..N) -> Seq(ColValues)]
    BY <1>2, <2>1
  <2>3. PICK S, a : S = Seq(ColValues) /\ a = <<>>
    OBVIOUS
  <2>8. a \in S /\ g \in [S \X (1..N) -> S]
    BY <2>2, <2>3
  <2>9. \E r \in [0..N -> S] : Stepwise(r, a, g, N)
    BY <1>2, <2>8, StepsExist
  <2>4. PICK r \in [0..N -> Seq(ColValues)] : \A k \in 0..N : r[k] = IF k = 0 THEN <<>> ELSE g[<<r[k - 1], k>>]
    BY <2>3, <2>9 DEF Stepwise
  <2>5. \A n \in 0..N : r[n] = IF n = 0 THEN <<>>
                               ELSE IF Keeps(Result(f[list[n]], list[n])) THEN Append(r[n - 1], list[n]) ELSE r[n - 1]
    <3> TAKE n \in 0..N
    <3>1. CASE n = 0
      BY <2>4, <3>1
    <3>2. CASE n # 0
      <4>1. <<r[n - 1], n>> \in Seq(ColValues) \X (1..N)
        BY <1>2, <2>4, <3>2
      <4> QED
        BY <2>1, <2>4, <3>2, <4>1
    <3> QED
      BY <3>1, <3>2
  <2>6. r = [n \in 0..N |-> r[n]]
    BY <2>4
  <2> QED
    BY <2>5, <2>6
<1>5. PICK r : Made(r) /\ filter(list, f) = r[N]
  BY <1>1, <1>4 DEF filter
<1>6. \A n \in 0..N : r[n] = IF n = 0 THEN <<>>
                             ELSE IF Keeps(Result(f[list[n]], list[n])) THEN Append(r[n - 1], list[n]) ELSE r[n - 1]
  BY <1>5
<1> HIDE DEF Made
<1> DEFINE Right == {n \in 0..N : /\ r[n] \in Seq(ColValues)
                                  /\ r[n] = <<>> <=> \A i \in 1..n : ~Keeps(Result(f[list[i]], list[i]))}
<1>7. Right \in SUBSET Nat
  BY <1>2
<1>8. 0 \in Right
  <2>1. 0 \in 0..N /\ r[0] = <<>>
    BY <1>2, <1>6
  <2>2. \A i \in 1..0 : ~Keeps(Result(f[list[i]], list[i]))
    OBVIOUS
  <2>3. <<>> \in Seq(ColValues)
    OBVIOUS
  <2> QED
    BY <2>1, <2>2, <2>3
<1>9. \A n \in 1..N : n - 1 \in Right => n \in Right
  <2> SUFFICES ASSUME NEW n \in 1..N, n - 1 \in Right PROVE n \in Right
    OBVIOUS
  <2>1. n \in 0..N /\ n # 0 /\ n \in Nat /\ \A i \in 1..n : i = n \/ i \in 1..n - 1
    BY <1>2
  <2>2. /\ r[n - 1] \in Seq(ColValues)
        /\ r[n - 1] = <<>> <=> \A i \in 1..n - 1 : ~Keeps(Result(f[list[i]], list[i]))
    OBVIOUS
  <2>3. CASE Keeps(Result(f[list[n]], list[n]))
    <3>1. r[n] = Append(r[n - 1], list[n])
      BY <1>6, <2>1, <2>3
    <3>2. list[n] \in ColValues
      BY <1>2
    <3>3. r[n] \in Seq(ColValues) /\ r[n] # <<>>
      BY <2>2, <3>1, <3>2
    <3> QED
      BY <2>1, <2>3, <3>3
  <2>4. CASE ~Keeps(Result(f[list[n]], list[n]))
    <3>1. r[n] = r[n - 1]
      BY <1>6, <2>1, <2>4
    <3>2. \A i \in 1..n - 1 : i \in 1..n
      BY <2>1
    <3> QED
      BY <2>1, <2>2, <2>4, <3>1, <3>2
  <2> QED
    BY <2>3, <2>4
<1>10. N \in Right
  <2> HIDE DEF Right
  <2> QED
    BY <1>2, <1>7, <1>8, <1>9, Steps
<1> QED
  BY <1>2, <1>5, <1>10

Some == [x \in ColValues \X ColValues |-> IF Keeps(x[2]) THEN x[2] ELSE "none"]

LEMMA ReduceFinds ==
  ASSUME NEW list \in Seq(ColValues)
  PROVE  reduce(list, Some, "") = "" <=> \A i \in DOMAIN list : ~Keeps(list[i])
<1>1. PICK N : N = Len(list)
  OBVIOUS
<1>2. N \in Nat /\ DOMAIN list = 1..N /\ \A i \in 1..N : list[i] \in ColValues
  BY <1>1
<1>3. "none" \notin ColValues
  BY ColAssumption
<1>0. PICK e : e = "" /\ e \in ColValues
  BY ColAssumption
<1>4. \A a, v \in ColValues : Result(Some[<<a, v>>], a) = (IF Keeps(v) THEN v ELSE a)
  <2> TAKE a, v \in ColValues
  <2>1. Some[<<a, v>>] = IF Keeps(v) THEN v ELSE "none"
    BY DEF Some
  <2> QED
    BY <1>3, <2>1 DEF Result
<1> DEFINE Made(r) == r = [n \in 0..N |-> IF n = 0 THEN e ELSE Result(Some[<<r[n - 1], list[n]>>], r[n - 1])]
<1>5. \E r : Made(r)
  <2>1. PICK g : g = [x \in ColValues \X (1..N) |-> IF Keeps(list[x[2]]) THEN list[x[2]] ELSE x[1]]
    OBVIOUS
  <2>2. g \in [ColValues \X (1..N) -> ColValues]
    BY <1>2, <2>1
  <2>3. \E r \in [0..N -> ColValues] : Stepwise(r, e, g, N)
    BY <1>0, <1>2, <2>2, StepsExist
  <2>4. PICK r \in [0..N -> ColValues] : \A k \in 0..N : r[k] = IF k = 0 THEN e ELSE g[<<r[k - 1], k>>]
    BY <2>3 DEF Stepwise
  <2>5. \A n \in 0..N : r[n] = IF n = 0 THEN e ELSE Result(Some[<<r[n - 1], list[n]>>], r[n - 1])
    <3> TAKE n \in 0..N
    <3>1. CASE n = 0
      BY <2>4, <3>1
    <3>2. CASE n # 0
      <4>1. r[n - 1] \in ColValues /\ n \in 1..N /\ list[n] \in ColValues
        BY <1>2, <2>4, <3>2
      <4>2. g[<<r[n - 1], n>>] = IF Keeps(list[n]) THEN list[n] ELSE r[n - 1]
        BY <2>1, <4>1
      <4> QED
        BY <1>4, <2>4, <3>2, <4>1, <4>2
    <3> QED
      BY <3>1, <3>2
  <2>6. r = [n \in 0..N |-> r[n]]
    BY <2>4
  <2> QED
    BY <2>5, <2>6
<1>6. PICK r : Made(r) /\ reduce(list, Some, e) = r[N]
  BY <1>1, <1>5 DEF reduce
<1>7. \A n \in 0..N : r[n] = IF n = 0 THEN e ELSE Result(Some[<<r[n - 1], list[n]>>], r[n - 1])
  BY <1>6
<1> HIDE DEF Made
<1> DEFINE Right == {n \in 0..N : r[n] \in ColValues /\ (r[n] = e <=> \A i \in 1..n : ~Keeps(list[i]))}
<1>8. Right \in SUBSET Nat
  BY <1>2
<1>9. 0 \in Right
  <2>0. 0 \in 0..N
    BY <1>2
  <2>1. r[0] = e
    BY <1>7, <2>0, Zenon
  <2>2. \A i \in 1..0 : ~Keeps(list[i])
    OBVIOUS
  <2> QED
    BY <1>0, <2>0, <2>1, <2>2
<1>10. \A n \in 1..N : n - 1 \in Right => n \in Right
  <2> SUFFICES ASSUME NEW n \in 1..N, n - 1 \in Right PROVE n \in Right
    OBVIOUS
  <2>1. n \in 0..N /\ n # 0 /\ n \in Nat /\ list[n] \in ColValues /\ \A i \in 1..n : i = n \/ i \in 1..n - 1
    BY <1>2
  <2>2. r[n - 1] \in ColValues /\ (r[n - 1] = e <=> \A i \in 1..n - 1 : ~Keeps(list[i]))
    OBVIOUS
  <2>3. r[n] = IF Keeps(list[n]) THEN list[n] ELSE r[n - 1]
    BY <1>4, <1>7, <2>1, <2>2
  <2>4. \A i \in 1..n - 1 : i \in 1..n
    BY <2>1
  <2>5. Keeps(list[n]) => list[n] # e
    BY <1>0 DEF Keeps
  <2> QED
    BY <2>1, <2>2, <2>3, <2>4, <2>5
<1>11. N \in Right
  <2> HIDE DEF Right
  <2> QED
    BY <1>2, <1>8, <1>9, <1>10, Steps
<1> QED
  BY <1>0, <1>2, <1>6, <1>11

\* reduce finds an element exactly where filter keeps one.
LEMMA BothFind ==
  ASSUME NEW list \in Seq(ColValues)
  PROVE  (reduce(list, Some, "") = "") <=> (filter(list, [v \in ColValues |-> v]) = <<>>)
<1>1. PICK f : f = [v \in ColValues |-> v]
  OBVIOUS
<1>2. f \in [ColValues -> ColValues \cup {"none"}]
  BY <1>1
<1>3. \A i \in DOMAIN list : Result(f[list[i]], list[i]) = list[i]
  <2>1. \A i \in DOMAIN list : list[i] \in ColValues
    OBVIOUS
  <2> QED
    BY <1>1, <2>1 DEF Result
<1>4. filter(list, f) = <<>> <=> \A i \in DOMAIN list : ~Keeps(Result(f[list[i]], list[i]))
  BY <1>2, FilterKeeps
<1> QED
  BY <1>1, <1>3, <1>4, ReduceFinds

-----------------------------------------------------------------------------
(* Lists keep their types, and fixed arrays their length until a builtin is let
   at them. *)

ListInv ==
  /\ colNext \in Nat \ {0} /\ DOMAIN colLists \cup DOMAIN colFixed \cup colResized \subseteq 1..colNext - 1
  /\ \A l \in DOMAIN colLists : colLists[l] \in Seq(ColValues)
  /\ \A l \in DOMAIN colFixed : colFixed[l] \in Nat
  /\ FixedUntilResized

LEMMA EmptyTyped == ASSUME NEW S PROVE <<>> \in Seq(S)
  OBVIOUS

LEMMA ListTyped == ASSUME ListInv, NEW l PROVE ListOf(l) \in Seq(ColValues)
<1>1. CASE l \in DOMAIN colLists
  BY <1>1 DEF ListInv, ListOf
<1>2. CASE l \notin DOMAIN colLists
  BY <1>2, EmptyTyped DEF ListOf
<1> QED
  BY <1>1, <1>2

LEMMA SeqEdited ==
  ASSUME NEW S, NEW s \in Seq(S), NEW v \in S, NEW i \in Nat \ {0}
  PROVE  /\ i <= Len(s) + 1 => InsertAt(s, i, v) \in Seq(S)
         /\ i <= Len(s) => RemoveAt(s, i) \in Seq(S)
         /\ i <= Len(s) => ReplaceAt(s, i, v) \in Seq(S) /\ Len(ReplaceAt(s, i, v)) = Len(s)
         /\ Append(s, v) \in Seq(S)
<1>1. i <= Len(s) + 1 => SubSeq(s, 1, i - 1) \in Seq(S) /\ SubSeq(s, i, Len(s)) \in Seq(S)
  OBVIOUS
<1>2. SubSeq(s, i + 1, Len(s)) \in Seq(S)
  OBVIOUS
<1>3. <<v>> \in Seq(S)
  OBVIOUS
<1>4. \A a, b, c \in Seq(S) : a \o b \in Seq(S) /\ a \o b \o c \in Seq(S)
  OBVIOUS
<1>5. i <= Len(s) + 1 => InsertAt(s, i, v) \in Seq(S)
  BY <1>1, <1>3, <1>4 DEF InsertAt
<1>6. i <= Len(s) => RemoveAt(s, i) \in Seq(S)
  BY <1>1, <1>2, <1>4 DEF RemoveAt
<1>7. i <= Len(s) => ReplaceAt(s, i, v) \in Seq(S) /\ Len(ReplaceAt(s, i, v)) = Len(s)
  BY DEF ReplaceAt
<1> QED
  BY <1>5, <1>6, <1>7

LEMMA WritesKeep ==
  ASSUME ListInv, NEW l \in 1..colNext - 1, NEW list \in Seq(ColValues), Writes(l, list),
         \/ ByBuiltin(l)
         \/ UNCHANGED colResized /\ (l \notin DOMAIN colFixed \/ Len(list) = Len(ListOf(l)))
  PROVE  ListInv'
<1>1. /\ colLists' = Updated(colLists, l, list) /\ colNext' = colNext /\ colFixed' = colFixed
      /\ colResized' \subseteq colResized \cup {l} /\ colResized \subseteq colResized'
  BY DEF Writes, ByBuiltin
<1>2. DOMAIN colLists' = DOMAIN colLists \cup {l} /\ colLists'[l] = list
  BY <1>1 DEF Updated
<1>3. \A k \in DOMAIN colLists : k # l => colLists'[k] = colLists[k]
  BY <1>1 DEF Updated
<1>4. colNext' \in Nat \ {0} /\ DOMAIN colLists' \cup DOMAIN colFixed' \cup colResized' \subseteq 1..colNext' - 1
  BY <1>1, <1>2 DEF ListInv
<1>5. \A k \in DOMAIN colLists' : colLists'[k] \in Seq(ColValues)
  <2> TAKE k \in DOMAIN colLists'
  <2>1. CASE k = l
    BY <1>2, <2>1
  <2>2. CASE k # l
    BY <1>2, <1>3, <2>2 DEF ListInv
  <2> QED
    BY <2>1, <2>2
<1>6. \A k \in DOMAIN colFixed' : colFixed'[k] \in Nat
  BY <1>1 DEF ListInv
<1>7. FixedUntilResized'
  <2> SUFFICES ASSUME NEW k \in DOMAIN colFixed' \ colResized' PROVE Len(ListOf(k)') = colFixed'[k]
    BY DEF FixedUntilResized
  <2>1. k \in DOMAIN colFixed \ colResized /\ Len(ListOf(k)) = colFixed[k] /\ colFixed'[k] = colFixed[k]
    BY <1>1 DEF ListInv, FixedUntilResized
  <2>2. CASE k = l
    <3>1. Len(list) = Len(ListOf(l))
      BY <2>1, <2>2 DEF ByBuiltin
    <3>2. ListOf(k)' = list
      BY <1>2, <2>2 DEF ListOf
    <3> QED
      BY <2>1, <2>2, <3>1, <3>2
  <2>3. CASE k # l
    <3>1. ListOf(k)' = ListOf(k)
      BY <1>2, <1>3, <2>3 DEF ListOf
    <3> QED
      BY <2>1, <3>1
  <2> QED
    BY <2>2, <2>3
<1> QED
  BY <1>4, <1>5, <1>6, <1>7 DEF ListInv

LEMMA MakesKeep ==
  ASSUME ListInv, NEW list \in Seq(ColValues), NEW fixed \in BOOLEAN, MakesList(list, fixed)
  PROVE  ListInv'
<1>1. PICK n : n = colNext
  OBVIOUS
<1>2. n \in Nat \ {0} /\ n \notin DOMAIN colLists \cup DOMAIN colFixed \cup colResized
  BY <1>1 DEF ListInv
<1>3. /\ colLists' = Updated(colLists, n, list) /\ colNext' = n + 1 /\ colResized' = colResized
      /\ (colFixed' = Updated(colFixed, n, Len(list)) /\ fixed) \/ (colFixed' = colFixed /\ ~fixed)
  BY <1>1 DEF MakesList
<1>4. DOMAIN colLists' = DOMAIN colLists \cup {n} /\ colLists'[n] = list
  BY <1>3 DEF Updated
<1>5. \A k \in DOMAIN colLists : k # n => colLists'[k] = colLists[k]
  BY <1>3 DEF Updated
<1>6. /\ DOMAIN colFixed' \subseteq DOMAIN colFixed \cup {n}
      /\ \A k \in DOMAIN colFixed' : IF k = n THEN colFixed'[k] = Len(list) ELSE colFixed'[k] = colFixed[k]
  BY <1>2, <1>3 DEF Updated
<1>7. colNext' \in Nat \ {0} /\ DOMAIN colLists' \cup DOMAIN colFixed' \cup colResized' \subseteq 1..colNext' - 1
  <2>1. DOMAIN colLists \cup DOMAIN colFixed \cup colResized \subseteq 1..n - 1
    BY <1>1 DEF ListInv
  <2>2. 1..n - 1 \subseteq 1..n /\ n \in 1..n /\ (n + 1) - 1 = n
    BY <1>2
  <2> QED
    BY <1>2, <1>3, <1>4, <1>6, <2>1, <2>2
<1>8. \A k \in DOMAIN colLists' : colLists'[k] \in Seq(ColValues)
  <2> TAKE k \in DOMAIN colLists'
  <2>1. CASE k = n
    BY <1>4, <2>1
  <2>2. CASE k # n
    BY <1>4, <1>5, <2>2 DEF ListInv
  <2> QED
    BY <2>1, <2>2
<1>9. \A k \in DOMAIN colFixed' : colFixed'[k] \in Nat
  BY <1>6 DEF ListInv
<1>10. FixedUntilResized'
  <2> SUFFICES ASSUME NEW k \in DOMAIN colFixed' \ colResized' PROVE Len(ListOf(k)') = colFixed'[k]
    BY DEF FixedUntilResized
  <2>2. CASE k = n
    <3>1. ListOf(k)' = list
      BY <1>4, <2>2 DEF ListOf
    <3> QED
      BY <1>6, <2>2, <3>1
  <2>3. CASE k # n
    <3>1. ListOf(k)' = ListOf(k)
      BY <1>4, <1>5, <2>3 DEF ListOf
    <3>2. k \in DOMAIN colFixed \ colResized /\ colFixed'[k] = colFixed[k]
      BY <1>3, <1>6, <2>3
    <3> QED
      BY <3>1, <3>2 DEF ListInv, FixedUntilResized
  <2> QED
    BY <2>2, <2>3
<1> QED
  BY <1>7, <1>8, <1>9, <1>10 DEF ListInv

\* What map, filter and copies with a declared size put into a list.
LEMMA FillsKeep == ASSUME ListInv, NEW list \in Seq(ColValues), Fills(list) PROVE ListInv'
<1>1. CASE list # <<>>
  BY <1>1, MakesKeep DEF Fills
<1>2. CASE list = <<>>
  <2>1. colNext' = colNext + 1 /\ UNCHANGED <<colLists, colFixed, colResized>>
    BY <1>2 DEF Fills
  <2>2. 1..colNext - 1 \subseteq 1..(colNext + 1) - 1 /\ colNext + 1 \in Nat \ {0}
    BY DEF ListInv
  <2> QED
    BY <2>1, <2>2 DEF ListInv, FixedUntilResized, ListOf
<1> QED
  BY <1>1, <1>2

LEMMA MapTyped ==
  ASSUME NEW list \in Seq(ColValues), NEW f \in [ColValues -> ColValues \cup {"none"}]
  PROVE  map(list, f) \in Seq(ColValues)
<1>1. PICK n : n = Len(list)
  OBVIOUS
<1>2. n \in Nat /\ DOMAIN list = 1..n /\ \A i \in 1..n : list[i] \in ColValues
  BY <1>1
<1>3. \A i \in 1..n : Result(f[list[i]], list[i]) \in ColValues
  <2> TAKE i \in 1..n
  <2>1. f[list[i]] \in ColValues \cup {"none"} /\ list[i] \in ColValues
    BY <1>2
  <2> QED
    BY <2>1 DEF Result
<1>4. map(list, f) \in [1..n -> ColValues]
  BY <1>2, <1>3 DEF map
<1> QED
  BY <1>2, <1>4

LEMMA SizeKeeps ==
  ASSUME ListInv, NEW init \in Seq(ColValues), NEW n \in ColSizes, apply_declared_size(init, n)
  PROVE  ListInv'
<1>0. PICK e : e = "" /\ e \in ColValues
  BY ColAssumption
<1>1. PICK k : k = n - Len(init)
  OBVIOUS
<1>2. k \in Nat
  <2>1. n \in Nat
    BY ColAssumption
  <2>2. Len(init) \in Nat
    OBVIOUS
  <2>3. Len(init) <= n
    BY DEF apply_declared_size
  <2> QED
    BY <1>1, <2>1, <2>2, <2>3
<1>3. PICK t : t = [i \in 1..k |-> e]
  OBVIOUS
<1>4. t \in Seq(ColValues)
  <2>1. t \in [1..k -> ColValues]
    BY <1>0, <1>2, <1>3
  <2> QED
    BY <1>2, <2>1
<1>5. init \o t \in Seq(ColValues)
  BY <1>4
<1>6. MakesList(init \o t, TRUE)
  BY <1>0, <1>1, <1>3 DEF apply_declared_size
<1> QED
  BY <1>5, <1>6, MakesKeep

LEMMA ListStepKeeps == ASSUME ListInv, NEW l \in 1..colNext - 1 PROVE
  /\ GrowList(l) \/ ShrinkList(l) \/ AssignItem(l) \/ LookAt(l) \/ Answers(l) => ListInv'
  /\ l \in DOMAIN colLists => \A n \in ColSizes : apply_declared_size(colLists[l], n) => ListInv'
<1>1. PICK s : s = ListOf(l)
  OBVIOUS
<1>2. s \in Seq(ColValues) /\ Len(s) \in Nat /\ DOMAIN s = 1..Len(s)
  BY <1>1, ListTyped
<1>3. ASSUME GrowList(l) PROVE ListInv'
  <2>1. PICK v \in ColValues :
          \/ ByMethod(l) /\ \E i \in 1..Len(s) + 1 : Writes(l, InsertAt(s, i, v))
          \/ ByBuiltin(l) /\ Writes(l, Append(s, v))
    BY <1>1, <1>3 DEF GrowList
  <2>2. CASE ByMethod(l) /\ \E i \in 1..Len(s) + 1 : Writes(l, InsertAt(s, i, v))
    <3>1. PICK i \in 1..Len(s) + 1 : Writes(l, InsertAt(s, i, v))
      BY <2>2
    <3>2. i \in Nat \ {0} /\ i <= Len(s) + 1
      BY <1>2
    <3>3. InsertAt(s, i, v) \in Seq(ColValues)
      BY <1>2, <3>2, SeqEdited
    <3> QED
      BY <2>2, <3>1, <3>3, WritesKeep DEF ByMethod
  <2>3. CASE ByBuiltin(l) /\ Writes(l, Append(s, v))
    <3>1. Append(s, v) \in Seq(ColValues)
      BY <1>2
    <3> QED
      BY <2>3, <3>1, WritesKeep
  <2> QED
    BY <2>1, <2>2, <2>3
<1>4. ASSUME ShrinkList(l) PROVE ListInv'
  <2>1. PICK t \in Seq(ColValues) : Writes(l, t)
    <3>1. CASE Writes(l, <<>>)
      BY <3>1, EmptyTyped
    <3>2. ASSUME NEW i \in DOMAIN s, Writes(l, RemoveAt(s, i)) PROVE \E t \in Seq(ColValues) : Writes(l, t)
      <4>1. i \in Nat \ {0} /\ i <= Len(s) /\ s[i] \in ColValues
        BY <1>2
      <4>2. RemoveAt(s, i) \in Seq(ColValues)
        BY <1>2, <4>1, SeqEdited
      <4> QED
        BY <3>2, <4>2
    <3> QED
      BY <1>1, <1>4, <3>1, <3>2 DEF ShrinkList
  <2>2. ByMethod(l) \/ ByBuiltin(l)
    BY <1>4 DEF ShrinkList
  <2> QED
    BY <2>1, <2>2, WritesKeep DEF ByMethod
<1>5. ASSUME AssignItem(l) PROVE ListInv'
  <2>1. PICK i \in DOMAIN s, v \in ColValues : Writes(l, ReplaceAt(s, i, v)) /\ UNCHANGED colResized
    BY <1>1, <1>5 DEF AssignItem
  <2>2. i \in Nat \ {0} /\ i <= Len(s)
    BY <1>2
  <2>3. ReplaceAt(s, i, v) \in Seq(ColValues) /\ Len(ReplaceAt(s, i, v)) = Len(s)
    BY <1>2, <2>2, SeqEdited
  <2> QED
    BY <1>1, <2>1, <2>3, WritesKeep
<1>6. ASSUME LookAt(l) PROVE ListInv'
  <2>1. Writes(l, s) /\ UNCHANGED colResized
    BY <1>1, <1>6 DEF LookAt
  <2> QED
    BY <1>1, <1>2, <2>1, WritesKeep
<1>7. ASSUME Answers(l) PROVE ListInv'
  <2>1. PICK f \in [ColValues -> ColValues \cup {"none"}] :
          l \in DOMAIN colLists /\ (Fills(map(colLists[l], f)) \/ Fills(filter(colLists[l], f)))
    BY <1>7 DEF Answers
  <2>2. colLists[l] \in Seq(ColValues)
    BY <2>1 DEF ListInv
  <2>3. map(colLists[l], f) \in Seq(ColValues) /\ filter(colLists[l], f) \in Seq(ColValues)
    BY <2>2, MapTyped, FilterKeeps
  <2> QED
    BY <2>1, <2>3, FillsKeep
<1>8. ASSUME l \in DOMAIN colLists, NEW n \in ColSizes, apply_declared_size(colLists[l], n) PROVE ListInv'
  <2>1. colLists[l] \in Seq(ColValues)
    BY <1>8 DEF ListInv
  <2> QED
    BY <1>8, <2>1, SizeKeeps
<1> QED
  BY <1>3, <1>4, <1>5, <1>6, <1>7, <1>8

LEMMA UseListKeeps == ASSUME ListInv, UseList PROVE ListInv'
<1>1. ASSUME NEW list \in Literals, MakesList(list, FALSE) \/ \E n \in ColSizes : apply_declared_size(list, n)
      PROVE  ListInv'
  <2>1. PICK n \in ColSizes : list \in [1..n -> ColValues]
    BY DEF Literals
  <2>2. n \in Nat
    BY ColAssumption
  <2>3. list \in Seq(ColValues)
    BY <2>1, <2>2
  <2> QED
    BY <1>1, <2>3, MakesKeep, SizeKeeps
<1>2. ASSUME NEW l \in 1..colNext - 1,
             \/ GrowList(l) \/ ShrinkList(l) \/ AssignItem(l) \/ LookAt(l) \/ Answers(l)
             \/ l \in DOMAIN colLists /\ \E n \in ColSizes : apply_declared_size(colLists[l], n)
      PROVE  ListInv'
  BY <1>2, ListStepKeeps
<1> QED
  BY <1>1, <1>2 DEF UseList

-----------------------------------------------------------------------------
(* A loop has seen a beginning of what was there at the start, as long as that was
   not changed under it. *)

LoopInv ==
  /\ colLoop \in [of : Nat, live : BOOLEAN, start : Seq(ColItems), seen : Seq(ColItems), kept : BOOLEAN, over : BOOLEAN]
  /\ LoopsSeeTheStart
  /\ colLoop.kept => IsPrefixOf(colLoop.seen, colLoop.start)

LEMMA Items == ASSUME NEW list \in Seq(ColValues) PROVE list \in Seq(ColItems)
<1>1. ColValues \subseteq ColItems
  BY DEF ColItems
<1>2. ASSUME NEW S, NEW T, S \subseteq T, NEW s \in Seq(S) PROVE s \in Seq(T)
  <2>1. PICK n : n = Len(s)
    OBVIOUS
  <2>2. n \in Nat /\ s \in [1..n -> T]
    BY <1>2, <2>1
  <2> QED
    BY <2>2
<1> QED
  BY <1>1, <1>2

LEMMA PrefixIs ==
  ASSUME NEW S, NEW s \in Seq(S), NEW t \in Seq(S)
  PROVE  IsPrefixOf(s, t) <=> Len(s) <= Len(t) /\ \A i \in 1..Len(s) : s[i] = t[i]
<1>1. PICK m, n : m = Len(s) /\ n = Len(t)
  OBVIOUS
<1>2. m \in Nat /\ n \in Nat
  BY <1>1
<1>3. CASE m <= n
  <2>1. PICK u : u = SubSeq(t, 1, m)
    OBVIOUS
  <2>2. u \in Seq(S) /\ Len(u) = m /\ \A i \in 1..m : u[i] = t[i]
    BY <1>1, <1>2, <1>3, <2>1
  <2>3. u = s <=> \A i \in 1..m : u[i] = s[i]
    <3>1. u = [i \in 1..m |-> u[i]]
      BY <2>2
    <3>2. s = [i \in 1..m |-> s[i]]
      BY <1>1
    <3> QED
      BY <3>1, <3>2
  <2>4. IsPrefixOf(s, t) <=> u = s
    BY <1>1, <1>3, <2>1 DEF IsPrefixOf
  <2> QED
    BY <1>1, <1>3, <2>2, <2>3, <2>4
<1>4. CASE ~(m <= n)
  BY <1>1, <1>4 DEF IsPrefixOf
<1> QED
  BY <1>3, <1>4

LEMMA CellTyped == ASSUME NEW x \in ColRows \X Names PROVE Cell(x) \in Seq(ColLetters)
<1>1. PICK r, n : x = <<r, n>> /\ r \in ColRows /\ n \in Names
  OBVIOUS
<1>2. r \in Seq(ColLetters) /\ n \in Seq(ColLetters)
  BY <1>1, RowsTyped, NamesTyped
<1> QED
  BY <1>1, <1>2, CellLetters

\* A loop that starts has seen nothing.
LEMMA LoopStarts ==
  ASSUME NEW of \in Nat, NEW live \in BOOLEAN, NEW start \in Seq(ColItems),
         colLoop' = [of |-> of, live |-> live, start |-> start, seen |-> <<>>, kept |-> TRUE, over |-> FALSE]
  PROVE  LoopInv'
<1>1. <<>> \in Seq(ColItems) /\ Len(<<>>) = 0 /\ Len(start) \in Nat
  BY EmptyTyped
<1>2. IsPrefixOf(<<>>, start)
  <2>1. PICK e : e = <<>> /\ e \in Seq(ColItems) /\ Len(e) = 0
    BY <1>1
  <2>2. Len(e) <= Len(start) /\ \A i \in 1..Len(e) : e[i] = start[i]
    BY <1>1, <2>1
  <2>3. IsPrefixOf(e, start)
    BY <2>1, <2>2, PrefixIs
  <2> QED
    BY <2>1, <2>3
<1>3. PICK loop : loop = colLoop'
  OBVIOUS
<1>4. /\ loop \in [of : Nat, live : BOOLEAN, start : Seq(ColItems), seen : Seq(ColItems), kept : BOOLEAN, over : BOOLEAN]
      /\ loop.seen = <<>> /\ loop.start = start /\ loop.over = FALSE
  BY <1>1, <1>3
<1>5. Len(loop.seen) <= Len(loop.start)
  BY <1>1, <1>4
<1> QED
  BY <1>2, <1>3, <1>4, <1>5 DEF LoopInv, LoopsSeeTheStart, ColItems, IsPrefixOf

LEMMA BeginsKeep == ASSUME ListInv, SideBySide, LoopInv, LoopBegins PROVE LoopInv'
<1>1. ASSUME NEW l \in DOMAIN colLists, NEW live \in BOOLEAN, LoopBegin(l, live) PROVE LoopInv'
  <2>1. l \in Nat /\ colLists[l] \in Seq(ColValues)
    BY DEF ListInv
  <2>2. PICK start : start = colLists[l] /\ start \in Seq(ColItems)
    BY <2>1, Items
  <2>3. colLoop' = [of |-> l, live |-> live, start |-> start, seen |-> <<>>, kept |-> TRUE, over |-> FALSE]
    BY <1>1, <2>2 DEF LoopBegin
  <2> QED
    BY <2>1, <2>2, <2>3, LoopStarts
<1>2. ASSUME NEW d \in DOMAIN colDicts, EntriesBegin(d) PROVE LoopInv'
  <2>1. d \in Nat
    BY SeqIs DEF SideBySide, Grids
  <2>2. PICK f : f = colDicts[d]
    OBVIOUS
  <2>3. PICK S : S = {<<k, f[k]>> : k \in DOMAIN f}
    OBVIOUS
  <2>4. PICK entries \in SetToSeqs(S) :
          colLoop' = [of |-> d, live |-> FALSE, start |-> entries, seen |-> <<>>, kept |-> TRUE, over |-> FALSE]
    BY <1>2, <2>2, <2>3 DEF EntriesBegin
  <2>5. GridOf(f, colGrids[d])
    BY <2>2 DEF SideBySide, Grids
  <2>6. IsFiniteSet(S)
    <3>1. PICK X : X = DOMAIN colGrids[d]
      OBVIOUS
    <3>2. PICK h : h = [x \in X |-> <<Cell(x), f[Cell(x)]>>]
      OBVIOUS
    <3>3. S = {h[x] : x \in X}
      <4>1. DOMAIN f = {Cell(x) : x \in X}
        BY <2>5, <3>1 DEF GridOf
      <4>2. \A x \in X : h[x] = <<Cell(x), f[Cell(x)]>>
        BY <3>2
      <4> QED
        BY <2>3, <4>1, <4>2
    <3>4. h \in Surjection(X, S)
      BY <3>2, <3>3 DEF Surjection
    <3>5. IsFiniteSet(X)
      BY <2>5, <3>1 DEF GridOf
    <3> QED
      BY <3>4, <3>5, FS_Surjection
  <2>7. PICK n : n = Cardinality(S) /\ n \in Nat
    BY <2>6, FS_CardinalityType
  <2>8. S \subseteq ColItems
    <3> SUFFICES ASSUME NEW k \in DOMAIN f PROVE <<k, f[k]>> \in Seq(ColLetters) \X ColValues
      BY <2>3 DEF ColItems
    <3>1. PICK x \in DOMAIN colGrids[d] : k = Cell(x)
      BY <2>5 DEF GridOf
    <3>2. x \in ColRows \X Names /\ f[k] \in ColValues
      BY <2>5, <3>1 DEF GridOf
    <3>3. k \in Seq(ColLetters)
      BY <3>1, <3>2, CellTyped
    <3> QED
      BY <3>2, <3>3
  <2>9. entries \in [1..n -> ColItems]
    BY <2>4, <2>7, <2>8 DEF SetToSeqs
  <2>10. entries \in Seq(ColItems)
    BY <2>7, <2>9
  <2> QED
    BY <2>1, <2>4, <2>10, LoopStarts
<1> QED
  BY <1>1, <1>2 DEF LoopBegins

LEMMA TurnKeeps == ASSUME ListInv, LoopInv, LoopTurn PROVE LoopInv'
<1>1. PICK loop, next : loop = colLoop /\ next = colLoop'
  OBVIOUS
<1>2. PICK start, seen, now, m, n :
        /\ start = loop.start /\ seen = loop.seen /\ m = Len(start) /\ n = Len(seen)
        /\ now = IF loop.live THEN ListOf(loop.of) ELSE start
  OBVIOUS
<1>3. /\ loop \in [of : Nat, live : BOOLEAN, start : Seq(ColItems), seen : Seq(ColItems), kept : BOOLEAN, over : BOOLEAN]
      /\ start \in Seq(ColItems) /\ seen \in Seq(ColItems) /\ m \in Nat /\ n \in Nat /\ n <= m
      /\ loop.kept => IsPrefixOf(seen, start)
  BY <1>1, <1>2 DEF LoopInv, LoopsSeeTheStart
<1>4. now \in Seq(ColItems) /\ Len(now) \in Nat
  <2>1. ListOf(loop.of) \in Seq(ColItems)
    BY ListTyped, Items
  <2> QED
    BY <1>2, <1>3, <2>1
<1>5. PICK r : r = Rounds(loop)
  OBVIOUS
<1>6. r \in Nat /\ r <= m /\ r <= Len(now) /\ (m <= Len(now) => r = m)
  BY <1>2, <1>3, <1>4, <1>5 DEF Rounds
<1>7. /\ ~loop.over
      /\ next = IF n + 1 > r THEN [loop EXCEPT !.over = TRUE, !.kept = loop.kept /\ IsPrefixOf(start, now)]
                ELSE [loop EXCEPT !.seen = Append(seen, now[n + 1]), !.kept = loop.kept /\ IsPrefixOf(start, now)]
  BY <1>1, <1>2, <1>5 DEF LoopTurn
<1>8. IsPrefixOf(start, now) \in BOOLEAN
  BY DEF IsPrefixOf
<1>9. IsPrefixOf(start, now) => m <= Len(now) /\ \A i \in 1..m : start[i] = now[i]
  BY <1>2, <1>3, <1>4, PrefixIs
<1>10. IsPrefixOf(seen, start) => \A i \in 1..n : seen[i] = start[i]
  BY <1>2, <1>3, PrefixIs
<1>11. /\ next \in [of : Nat, live : BOOLEAN, start : Seq(ColItems), seen : Seq(ColItems), kept : BOOLEAN, over : BOOLEAN]
       /\ Len(next.seen) <= Len(next.start)
       /\ next.over /\ next.kept => next.seen = next.start
       /\ next.kept => IsPrefixOf(next.seen, next.start)
  <2>1. CASE n + 1 > r
    <3>1. next = [loop EXCEPT !.over = TRUE, !.kept = loop.kept /\ IsPrefixOf(start, now)]
      BY <1>7, <2>1
    <3>2. /\ next \in [of : Nat, live : BOOLEAN, start : Seq(ColItems), seen : Seq(ColItems), kept : BOOLEAN, over : BOOLEAN]
          /\ next.seen = seen /\ next.start = start /\ next.kept = (loop.kept /\ IsPrefixOf(start, now))
      BY <1>2, <1>3, <1>8, <3>1
    <3>3. next.kept => seen = start
      <4> SUFFICES ASSUME next.kept PROVE seen = start
        OBVIOUS
      <4>1. n = m /\ \A i \in 1..n : seen[i] = start[i]
        BY <1>3, <1>6, <1>9, <1>10, <2>1, <3>2
      <4>2. seen = [i \in 1..n |-> seen[i]]
        BY <1>2, <1>3
      <4>3. start = [i \in 1..m |-> start[i]]
        BY <1>2, <1>3
      <4> QED
        BY <4>1, <4>2, <4>3
    <3> QED
      BY <1>2, <1>3, <3>2, <3>3
  <2>2. CASE ~(n + 1 > r)
    <3>1. next = [loop EXCEPT !.seen = Append(seen, now[n + 1]), !.kept = loop.kept /\ IsPrefixOf(start, now)]
      BY <1>7, <2>2
    <3>2. n + 1 \in 1..Len(now) /\ n + 1 \in 1..m
      BY <1>3, <1>4, <1>6, <2>2
    <3>3. PICK v, more : v = now[n + 1] /\ more = Append(seen, v)
      OBVIOUS
    <3>4. v \in ColItems
      BY <1>4, <3>2, <3>3
    <3>5. /\ more \in Seq(ColItems) /\ Len(more) = n + 1 /\ more[n + 1] = v
          /\ \A i \in 1..n : more[i] = seen[i]
      BY <1>2, <1>3, <3>3, <3>4
    <3>6. /\ next \in [of : Nat, live : BOOLEAN, start : Seq(ColItems), seen : Seq(ColItems), kept : BOOLEAN, over : BOOLEAN]
          /\ next.seen = more /\ next.start = start /\ next.over = FALSE
          /\ next.kept = (loop.kept /\ IsPrefixOf(start, now))
      BY <1>2, <1>3, <1>7, <1>8, <3>1, <3>3, <3>5
    <3>7. next.kept => IsPrefixOf(more, start)
      <4> SUFFICES ASSUME next.kept PROVE IsPrefixOf(more, start)
        OBVIOUS
      <4>1. v = start[n + 1] /\ \A i \in 1..n : seen[i] = start[i]
        BY <1>3, <1>9, <1>10, <3>2, <3>3, <3>6
      <4>2. Len(more) <= Len(start) /\ \A i \in 1..Len(more) : more[i] = start[i]
        BY <1>2, <1>3, <3>2, <3>5, <4>1
      <4> QED
        BY <1>3, <3>5, <4>2, PrefixIs
    <3> QED
      BY <1>2, <1>3, <3>2, <3>5, <3>6, <3>7
  <2> QED
    BY <2>1, <2>2
<1> QED
  BY <1>1, <1>11 DEF LoopInv, LoopsSeeTheStart, ColItems, IsPrefixOf

-----------------------------------------------------------------------------
(* Sets, queues and buffers. *)

BagInv ==
  /\ colSets \in Seq(SUBSET ColValues)
  /\ colQueue \in Seq(ColValues) /\ colTaken \in Seq(ColValues) /\ colPushed \in Seq(ColValues)
  /\ colBuffer \in [live : BOOLEAN, text : Seq(ColValues)]
  /\ QueueInOrder

LEMMA AppendGlued ==
  ASSUME NEW t \in Seq(ColValues), NEW q \in Seq(ColValues), NEW v \in ColValues
  PROVE  Append(t \o q, v) = t \o Append(q, v)
  OBVIOUS

LEMMA QueueKeeps == ASSUME BagInv, UseQueue PROVE BagInv'
<1>1. PICK q, t, p : q = colQueue /\ t = colTaken /\ p = colPushed
  OBVIOUS
<1>2. q \in Seq(ColValues) /\ t \in Seq(ColValues) /\ p \in Seq(ColValues) /\ p = t \o q
  BY <1>1 DEF BagInv, QueueInOrder
<1>3. colSets' = colSets /\ colBuffer' = colBuffer
  BY DEF UseQueue
<1>4. ASSUME NEW v \in ColValues, colQueue' = Append(q, v), colPushed' = Append(p, v), colTaken' = t PROVE BagInv'
  <2>1. PICK q2, p2 : q2 = Append(q, v) /\ p2 = Append(p, v)
    OBVIOUS
  <2>2. q2 \in Seq(ColValues) /\ p2 \in Seq(ColValues)
    BY <1>2, <2>1
  <2>3. p2 = t \o q2
    <3>2. q \in Seq(ColValues) /\ t \in Seq(ColValues)
      BY <1>2
    <3>3. Append(t \o q, v) = t \o Append(q, v)
      BY <3>2, AppendGlued
    <3>4. p = t \o q
      BY <1>2
    <3> QED
      BY <2>1, <3>3, <3>4, Zenon
  <2> QED
    BY <1>2, <1>3, <1>4, <2>1, <2>2, <2>3 DEF BagInv, QueueInOrder
<1>5. ASSUME q # <<>>, colQueue' = Tail(q), colTaken' = Append(t, Head(q)), colPushed' = p PROVE BagInv'
  <2>1. PICK q2, t2 : q2 = Tail(q) /\ t2 = Append(t, Head(q))
    OBVIOUS
  <2>2. Head(q) \in ColValues /\ q2 \in Seq(ColValues) /\ Len(q2) = Len(q) - 1 /\ Len(q) > 0
    BY <1>2, <1>5, <2>1
  <2>3. t2 \in Seq(ColValues) /\ Len(t2) = Len(t) + 1
    BY <1>2, <2>1, <2>2
  <2>4. t2 \o q2 = t \o q
    BY <1>2, <1>5, <2>1, <2>2, <2>3
  <2> QED
    BY <1>2, <1>3, <1>5, <2>1, <2>2, <2>3, <2>4 DEF BagInv, QueueInOrder
<1>6. ASSUME colQueue' = <<>>, colTaken' = <<>>, colPushed' = <<>> PROVE BagInv'
  <2>1. <<>> \in Seq(ColValues) /\ <<>> \o <<>> = <<>>
    OBVIOUS
  <2> QED
    BY <1>3, <1>6, <2>1 DEF BagInv, QueueInOrder
<1> QED
  BY <1>1, <1>4, <1>5, <1>6 DEF UseQueue

LEMMA BagKeeps == ASSUME BagInv, UseBag PROVE BagInv'
<1>1. CASE UseQueue
  BY <1>1, QueueKeeps
<1>2. CASE UseBuffer
  <2>1. UNCHANGED <<colSets, colQueue, colTaken, colPushed>>
    BY <1>2 DEF UseBuffer
  <2>2. PICK text, v : text = colBuffer.text /\ v \in ColValues /\
          \/ colBuffer' = [live |-> TRUE, text |-> Append(text, v)]
          \/ colBuffer' = [live |-> TRUE, text |-> <<>>] \/ colBuffer' = [live |-> FALSE, text |-> <<>>]
    BY <1>2 DEF UseBuffer, Buffer
  <2>3. text \in Seq(ColValues)
    BY <2>2 DEF BagInv
  <2>4. PICK more, e : more = Append(text, v) /\ e = <<>>
    OBVIOUS
  <2>6. more \in Seq(ColValues) /\ e \in Seq(ColValues)
    BY <2>2, <2>3, <2>4
  <2>7. colBuffer' = [live |-> TRUE, text |-> more] \/ colBuffer' = [live |-> TRUE, text |-> e] \/ colBuffer' = [live |-> FALSE, text |-> e]
    BY <2>2, <2>4
  <2>5. colBuffer' \in [live : BOOLEAN, text : Seq(ColValues)]
    <3>1. PICK live \in BOOLEAN, x \in Seq(ColValues) : colBuffer' = [live |-> live, text |-> x]
      BY <2>6, <2>7, Zenon
    <3> QED
      BY <3>1
  <2> QED
    BY <2>1, <2>5 DEF BagInv, QueueInOrder
<1>3. CASE UseSet
  <2>1. PICK s : s = colSets /\ s \in Seq(SUBSET ColValues)
    BY DEF BagInv
  <2>2. \A i \in DOMAIN s : s[i] \subseteq ColValues
    BY <2>1
  <2>3. ASSUME NEW x, x \subseteq ColValues, NewSet(x) PROVE colSets' \in Seq(SUBSET ColValues)
    <3>1. colSets' = Append(s, x) /\ x \in SUBSET ColValues
      BY <2>1, <2>3 DEF NewSet
    <3> QED
      BY <2>1, <3>1
  <2>4. ASSUME NEW i \in DOMAIN s, NEW x, x \subseteq ColValues, colSets' = [s EXCEPT ![i] = x]
        PROVE  colSets' \in Seq(SUBSET ColValues)
    <3>1. x \in SUBSET ColValues
      BY <2>4
    <3> QED
      BY <2>1, <2>4, <3>1
  <2>5. colSets' \in Seq(SUBSET ColValues)
    <3>1. CASE NewSet({})
      BY <2>3, <3>1
    <3>2. ASSUME NEW i \in DOMAIN s, NEW v \in ColValues,
                 colSets' = [s EXCEPT ![i] = s[i] \cup {v}] \/ colSets' = [s EXCEPT ![i] = s[i] \ {v}]
          PROVE  colSets' \in Seq(SUBSET ColValues)
      <4>1. s[i] \cup {v} \subseteq ColValues /\ s[i] \ {v} \subseteq ColValues
        BY <2>2
      <4> QED
        BY <2>4, <3>2, <4>1
    <3>3. ASSUME NEW i \in DOMAIN s, NEW j \in DOMAIN s,
                 \/ NewSet(set_union(s[i], s[j])) \/ NewSet(set_intersect(s[i], s[j])) \/ NewSet(set_diff(s[i], s[j]))
          PROVE  colSets' \in Seq(SUBSET ColValues)
      <4>1. set_union(s[i], s[j]) \subseteq ColValues
        BY <2>2 DEF set_union
      <4>2. set_intersect(s[i], s[j]) \subseteq ColValues
        BY <2>2 DEF set_intersect
      <4>3. set_diff(s[i], s[j]) \subseteq ColValues
        BY <2>2 DEF set_diff
      <4> QED
        BY <2>3, <3>3, <4>1, <4>2, <4>3
    <3> QED
      BY <1>3, <2>1, <3>1, <3>2, <3>3 DEF UseSet
  <2> QED
    BY <1>3, <2>5 DEF UseSet, BagInv, QueueInOrder
<1> QED
  BY <1>1, <1>2, <1>3 DEF UseBag

-----------------------------------------------------------------------------
(* The types, and what lists, loops and queues keep. *)

CountedDown == colKind \in ColKinds /\ colLeft \in Nat
ColInv == SideBySide /\ CountedDown /\ ListInv /\ LoopInv /\ BagInv

LEMMA ColStarts == ColInit => ColInv
<1> SUFFICES ASSUME ColInit PROVE ColInv
  OBVIOUS
<1>1. SideBySide
  <2>1. colDicts = <<>> /\ colGrids = <<>>
    BY DEF ColInit
  <2>2. InSeq(<<>>) /\ DOMAIN <<>> = {} /\ Len(<<>>) = Len(<<>>)
    BY DEF InSeq
  <2> QED
    BY <2>1, <2>2 DEF SideBySide, Grids
<1>2. CountedDown
  BY ColAssumption DEF ColInit, CountedDown
<1>3. ListInv
  <2>1. DOMAIN colLists = {} /\ DOMAIN colFixed = {} /\ colResized = {} /\ colNext = 1
    BY DEF ColInit, NoEntries, NoLengths
  <2> QED
    BY <2>1 DEF ListInv, FixedUntilResized
<1>4. <<>> \in Seq(ColItems) /\ <<>> \in Seq(ColValues) /\ <<>> \in Seq(SUBSET ColValues) /\ Len(<<>>) = 0
  BY EmptyTyped
<1>5. LoopInv
  <2>1. PICK e : e = <<>> /\ e \in Seq(ColItems) /\ Len(e) = 0
    BY <1>4
  <2>2. colLoop = [of |-> 0, live |-> FALSE, start |-> e, seen |-> e, kept |-> TRUE, over |-> TRUE]
    BY <2>1 DEF ColInit, NoLoop
  <2>3. IsPrefixOf(e, e)
    <3>1. e \in Seq(ColItems) /\ Len(e) \in Nat
      BY <2>1
    <3>2. Len(e) <= Len(e) /\ \A i \in 1..Len(e) : e[i] = e[i]
      BY <3>1
    <3> QED
      BY <3>1, <3>2, PrefixIs
  <2>4. /\ colLoop \in [of : Nat, live : BOOLEAN, start : Seq(ColItems), seen : Seq(ColItems), kept : BOOLEAN, over : BOOLEAN]
        /\ colLoop.seen = e /\ colLoop.start = e
    BY <2>1, <2>2
  <2> QED
    BY <2>1, <2>3, <2>4 DEF LoopInv, LoopsSeeTheStart
<1>6. BagInv
  <2>1. <<>> \o <<>> = <<>>
    OBVIOUS
  <2> QED
    BY <1>4, <2>1 DEF ColInit, Buffer, BagInv, QueueInOrder
<1> QED
  BY <1>1, <1>2, <1>3, <1>5, <1>6 DEF ColInv

LEMMA ListSame == ASSUME ListInv, UNCHANGED <<colLists, colNext, colFixed, colResized>> PROVE ListInv'
  BY DEF ListInv, FixedUntilResized, ListOf
LEMMA LoopSame == ASSUME LoopInv, UNCHANGED colLoop PROVE LoopInv'
  BY DEF LoopInv, LoopsSeeTheStart, ColItems, IsPrefixOf
LEMMA BagSame == ASSUME BagInv, UNCHANGED colBagVars PROVE BagInv'
  BY DEF BagInv, QueueInOrder, colBagVars
LEMMA GridsSame == ASSUME SideBySide, UNCHANGED colDictVars PROVE SideBySide'
  BY DEF SideBySide, Grids, InSeq, GridOf, Cell, Names, colDictVars
LEMMA CallsKeep == ASSUME CountedDown, NEW kind, Called(kind) PROVE CountedDown'
  BY DEF CountedDown, Called, ColKinds

LEMMA ColKeeps == ASSUME ColInv, [ColNext]_colVars PROVE ColInv'
<1> USE DEF ColInv
<1>1. CASE UseDict
  <2>1. UNCHANGED <<colListVars, colBagVars>> /\ Called("dicts")
    BY <1>1 DEF UseDict
  <2> QED
    BY <1>1, <2>1, UseDictGrids, ListSame, LoopSame, BagSame, CallsKeep DEF colListVars
<1>2. CASE UseList
  <2>1. UNCHANGED <<colDictVars, colLoop, colBagVars>> /\ Called("lists")
    BY <1>2 DEF UseList
  <2> QED
    BY <1>2, <2>1, UseListKeeps, GridsSame, LoopSame, BagSame, CallsKeep
<1>3. CASE LoopBegins
  <2>1. /\ UNCHANGED <<colDictVars, colLists, colNext, colFixed, colResized, colBagVars>>
        /\ Called("lists") \/ Called("dicts")
    BY <1>3 DEF LoopBegins
  <2> QED
    BY <1>3, <2>1, BeginsKeep, GridsSame, ListSame, BagSame, CallsKeep
<1>4. CASE LoopTurn
  <2>1. UNCHANGED <<colKind, colLeft, colDictVars, colLists, colNext, colFixed, colResized, colBagVars>>
    BY <1>4 DEF LoopTurn
  <2>2. CountedDown'
    BY <2>1 DEF CountedDown
  <2> QED
    BY <1>4, <2>1, <2>2, TurnKeeps, GridsSame, ListSame, BagSame
<1>5. CASE UseBag
  <2>1. UNCHANGED <<colDictVars, colListVars>> /\ Called("bags")
    BY <1>5 DEF UseBag
  <2> QED
    BY <1>5, <2>1, BagKeeps, GridsSame, ListSame, LoopSame, CallsKeep DEF colListVars
<1>6. CASE UNCHANGED colVars
  <2>1. UNCHANGED <<colKind, colLeft, colDictVars, colListVars, colBagVars>>
    BY <1>6 DEF colVars
  <2>2. CountedDown'
    BY <2>1 DEF CountedDown
  <2> QED
    BY <2>1, <2>2, GridsSame, ListSame, LoopSame, BagSame DEF colListVars
<1> QED
  BY <1>1, <1>2, <1>3, <1>4, <1>5, <1>6 DEF ColNext

LEMMA ColAlways == ColSpec => []ColInv
  BY ColStarts, ColKeeps, PTL DEF ColSpec

\* Collections: the types of dictionaries, lists, sets, queues, buffers and loops.
THEOREM ColTypeCorrect == ColSpec => []ColTypeOK
<1>1. ColInv => ColTypeOK
  <2> SUFFICES ASSUME ColInv PROVE ColTypeOK
    OBVIOUS
  <2>1. ASSUME NEW d \in DOMAIN colDicts, NEW key \in DOMAIN colDicts[d]
        PROVE  key \in Seq(ColLetters) /\ colDicts[d][key] \in ColValues
    <3>1. GridOf(colDicts[d], colGrids[d])
      BY DEF ColInv, SideBySide, Grids
    <3>2. PICK x \in DOMAIN colGrids[d] : key = Cell(x)
      BY <3>1 DEF GridOf
    <3>3. x \in ColRows \X Names /\ colDicts[d][key] \in ColValues
      BY <3>1, <3>2 DEF GridOf
    <3> QED
      BY <3>2, <3>3, CellTyped
  <2> QED
    BY <2>1 DEF ColInv, SideBySide, CountedDown, ListInv, LoopInv, BagInv, ColTypeOK
<1> QED
  BY <1>1, ColAlways, PTL

\* Loops over lists and entries, fixed arrays, filter and reduce and queues
\* (src/runtime/actions.cpp, eval.cpp and builtins.cpp): a loop that ends over what was
\* only added to has seen each element there was at the start, once; a fixed array has
\* its length until a builtin is let at it; reduce finds an element exactly where filter
\* keeps one; and a queue hands out what came in, in that order.
THEOREM CollectionsAlwaysKeep == ColSpec => []CollectionsKeep
<1>1. ColInv => CollectionsKeep
  <2> SUFFICES ASSUME ColInv PROVE CollectionsKeep
    OBVIOUS
  <2>1. LoopsSeeTheStart /\ FixedUntilResized /\ QueueInOrder
    BY DEF ColInv, LoopInv, ListInv, BagInv
  <2>2. ReduceFindsFiltered
    <3> SUFFICES ASSUME NEW l \in DOMAIN colLists
                 PROVE  (reduce(colLists[l], Some, "") = "") <=> (filter(colLists[l], [v \in ColValues |-> v]) = <<>>)
      BY DEF ReduceFindsFiltered, Some
    <3>1. colLists[l] \in Seq(ColValues)
      BY DEF ColInv, ListInv
    <3> QED
      BY <3>1, BothFind
  <2> QED
    BY <2>1, <2>2 DEF CollectionsKeep
<1> QED
  BY <1>1, ColAlways, PTL

\* However cells are put, removed, merged and cleared by row (table_* and dict_* of
\* src/runtime/builtins.cpp), for any rows without dots and any columns: rows,
\* columns, the columns and the count of a row and every cell are those of a grid.
THEOREM TablesStayGrids == ColSpec => []TablesAreGrids
<1>1. SideBySide => TablesAreGrids
  <2> SUFFICES ASSUME SideBySide, NEW d \in DOMAIN colDicts
               PROVE  LET dict == colDicts[d]
                          grid == colGrids[d]
                          Of(row) == {x[2] : x \in {y \in DOMAIN grid : y[1] = row}}
                      IN /\ table_rows(dict) = {x[1] : x \in DOMAIN grid}
                         /\ table_columns(dict) = {x[2] : x \in DOMAIN grid}
                         /\ \A row \in ColRows :
                              /\ table_row_keys(dict, row) = Of(row)
                              /\ table_count_row(dict, row) = Cardinality(Of(row))
                              /\ \A columns \in ColColumns :
                                   dict_get_or(dict, Key(row, columns), "none")
                                     = dict_get_or(grid, <<row, dict_key(columns)>>, "none")
    BY DEF TablesAreGrids
  <2>1. GridOf(colDicts[d], colGrids[d])
    BY DEF SideBySide, Grids
  <2> QED
    BY <2>1, RowsRead, RowRead, CellsRead
<1> QED
  BY <1>1, ColAlways, PTL DEF ColInv
=============================================================================
