---------------------------- MODULE Collections -----------------------------
(***************************************************************************)
(* Lists, dictionaries, tables, sets, queues and string buffers of a       *)
(* script: the builtins of src/runtime/builtins.cpp, the methods of        *)
(* collection_method in src/runtime/eval.cpp and of the method statement   *)
(* in src/runtime/actions.cpp, which work on the same registries, and the  *)
(* loops over them.  A value is what it displays as.  Handles are the ones *)
(* that were given out; the order of the lists that list keys, values or   *)
(* members is left out.  The name of a row has no dot, as a script that      *)
(* wants its rows apart sees to.                                           *)
(***************************************************************************)
EXTENDS Integers, Sequences, FiniteSets, SequencesExt

CONSTANTS
  ColSteps,            \* bound: calls of a script, by kind of collection
  ColMost,             \* bounds: dictionaries, lists and sets, length of a list
  ColSizes,            \* lengths of literals and of declared arrays
  ColValues,           \* what values display as
  ColLetters,          \* letters of names
  ColRows,             \* names of rows, letter by letter
  ColColumns           \* names of columns, part by part

VARIABLES
  colKind,             \* the kind of collections the script uses
  colLeft,             \* calls left
  colDicts,            \* dictionaries by handle: values by key
  colGrids,            \* the same as they are meant: values by row and column
  colLists,            \* g_lists; a handle may have no entry
  colNext,             \* g_nextListId
  colFixed,            \* g_fixedLists, with the length each was given
  colResized,          \* lists that a builtin gave another length
  colLoop,             \* the loop that runs, or ran
  colSets,             \* sets by handle
  colQueue, colTaken, colPushed,      \* a queue, and what left and what entered it
  colBuffer            \* a string buffer

colDictVars == <<colDicts, colGrids>>
colListVars == <<colLists, colNext, colFixed, colResized, colLoop>>
colBagVars == <<colSets, colQueue, colTaken, colPushed, colBuffer>>
colVars == <<colKind, colLeft, colDictVars, colListVars, colBagVars>>

ColKinds == {"dicts", "lists", "bags"}
NoEntries == [k \in {} |-> ""]
NoLengths == [k \in {} |-> 0]
Updated(f, k, v) == [x \in DOMAIN f \cup {k} |-> IF x = k THEN v ELSE f[x]]
Dropped(f, K) == [x \in DOMAIN f \ K |-> f[x]]
Called(kind) == colKind = kind /\ colLeft > 0 /\ colLeft' = colLeft - 1 /\ UNCHANGED colKind

-----------------------------------------------------------------------------
(* Dictionaries and tables: a cell of a table is an entry of a dictionary,   *)
(* under row, dot and column; a key of several parts has dots between them. *)

dict_key(parts) ==
  LET key[n \in 0..Len(parts)] ==
        IF n = 0 THEN <<>> ELSE IF n = 1 THEN parts[1] ELSE key[n - 1] \o <<".">> \o parts[n]
  IN key[Len(parts)]
Key(row, columns) == dict_key(<<row>> \o columns)
(* The names of rows and columns that a script uses. *)
ASSUME ColAssumption ==
  /\ ColSteps \in [ColKinds -> Nat] /\ ColMost \in [dicts : Nat, lists : Nat, sets : Nat, long : Nat] /\ ColSizes \subseteq Nat
  /\ "" \in ColValues /\ "none" \notin ColValues
  /\ "." \in ColLetters /\ ColRows \subseteq Seq(ColLetters \ {"."})
  /\ \A columns \in ColColumns : columns \in Seq(Seq(ColLetters)) /\ columns # <<>> /\ dict_key(columns) # <<>>

Dots(key) == {i \in DOMAIN key : key[i] = "."}
Dot(key) == IF Dots(key) = {} THEN 0 ELSE CHOOSE i \in Dots(key) : \A j \in Dots(key) : i <= j
IsPrefixOf(s, key) == Len(s) <= Len(key) /\ SubSeq(key, 1, Len(s)) = s

table_rows(dict) == {SubSeq(k, 1, Dot(k) - 1) : k \in {x \in DOMAIN dict : Dot(x) # 0}}
table_columns(dict) == {SubSeq(k, Dot(k) + 1, Len(k)) : k \in {x \in DOMAIN dict : Dot(x) \notin {0, Len(x)}}}
\* Mistake: rows whose names begin alike are mixed up.
RowOfLoose(dict, row) == {k \in DOMAIN dict : IsPrefixOf(row, k)}
RowOf(dict, row) == {k \in DOMAIN dict : IsPrefixOf(row \o <<".">>, k)}
table_row_keys(dict, row) ==
  {SubSeq(k, Len(row) + 2, Len(k)) : k \in {x \in RowOf(dict, row) : Len(x) > Len(row) + 1}}
table_count_row(dict, row) == Cardinality(RowOf(dict, row))
dict_get_or(dict, key, default) == IF key \in DOMAIN dict THEN dict[key] ELSE default

Changes(d, dict, grid) == colDicts' = [colDicts EXCEPT ![d] = dict] /\ colGrids' = [colGrids EXCEPT ![d] = grid]
Created(dict, grid) ==
  /\ Len(colDicts) < ColMost.dicts
  /\ colDicts' = Append(colDicts, dict) /\ colGrids' = Append(colGrids, grid)
Merged(f, g) == [x \in DOMAIN f \cup DOMAIN g |-> IF x \in DOMAIN g THEN g[x] ELSE f[x]]

PutCell(d, row, columns, v) ==
  Changes(d, Updated(colDicts[d], Key(row, columns), v), Updated(colGrids[d], <<row, dict_key(columns)>>, v))
EraseCell(d, row, columns) ==
  Changes(d, Dropped(colDicts[d], {Key(row, columns)}), Dropped(colGrids[d], {<<row, dict_key(columns)>>}))
table_clear_row(d, row) ==
  Changes(d, Dropped(colDicts[d], RowOf(colDicts[d], row)), Dropped(colGrids[d], {x \in DOMAIN colGrids[d] : x[1] = row}))
dict_clear(d) == Changes(d, NoEntries, NoEntries)
dict_merge(d, e) == Changes(d, Merged(colDicts[d], colDicts[e]), Merged(colGrids[d], colGrids[e]))

UseDict ==
  /\ Called("dicts") /\ UNCHANGED <<colListVars, colBagVars>>
  /\ \/ Created(NoEntries, NoEntries)
     \/ \E d \in DOMAIN colDicts :
          \/ Created(colDicts[d], colGrids[d])
          \/ \E row \in ColRows, columns \in ColColumns :
               EraseCell(d, row, columns) \/ \E v \in ColValues : PutCell(d, row, columns, v)
          \/ \E row \in ColRows : table_clear_row(d, row)
          \/ dict_clear(d)
          \/ \E e \in DOMAIN colDicts : dict_merge(d, e)

-----------------------------------------------------------------------------
(* Lists. *)

ListOf(l) == IF l \in DOMAIN colLists THEN colLists[l] ELSE <<>>
Writes(l, list) == Len(list) <= ColMost.long /\ colLists' = Updated(colLists, l, list) /\ UNCHANGED <<colNext, colFixed>>
ByMethod(l) == l \notin DOMAIN colFixed /\ UNCHANGED colResized
ByBuiltin(l) == colResized' = colResized \cup {l}
MakesList(list, fixed) ==
  /\ colNext <= ColMost.lists /\ colNext' = colNext + 1
  /\ colLists' = Updated(colLists, colNext, list) /\ colFixed' = (IF fixed THEN Updated(colFixed, colNext, Len(list)) ELSE colFixed)
  /\ UNCHANGED colResized

Literals == UNION {[1..n -> ColValues] : n \in ColSizes}
\* Array<T> a {n} = init: a literal, or a copy of another list, filled up; what is longer is refused.
apply_declared_size(init, n) ==
  Len(init) <= n /\ MakesList(init \o [i \in 1..n - Len(init) |-> ""], TRUE)

\* Methods refuse to change the length of a fixed array; the builtins do not look.
GrowList(l) ==
  \E v \in ColValues :
    \/ ByMethod(l) /\ \E i \in 1..Len(ListOf(l)) + 1 : Writes(l, InsertAt(ListOf(l), i, v))
    \/ ByBuiltin(l) /\ Writes(l, Append(ListOf(l), v))
ShrinkList(l) ==
  /\ ByMethod(l) \/ ByBuiltin(l)
  /\ Writes(l, <<>>) \/ \E i \in DOMAIN ListOf(l) : Writes(l, RemoveAt(ListOf(l), i))
AssignItem(l) == \E i \in DOMAIN ListOf(l), v \in ColValues : Writes(l, ReplaceAt(ListOf(l), i, v)) /\ UNCHANGED colResized
\* To read a list gives its handle an entry.
LookAt(l) == Writes(l, ListOf(l)) /\ UNCHANGED colResized

\* map, filter and reduce; a callback without a result answers "none".
Result(answer, without) == IF answer = "none" THEN without ELSE answer
Keeps(result) == result \notin {"", "0", "false"}
map(list, f) == [i \in DOMAIN list |-> Result(f[list[i]], list[i])]
filter(list, f) ==
  LET kept[n \in 0..Len(list)] ==
        IF n = 0 THEN <<>> ELSE IF Keeps(Result(f[list[n]], list[n])) THEN Append(kept[n - 1], list[n]) ELSE kept[n - 1]
  IN kept[Len(list)]
reduce(list, f, initial) ==
  LET acc[n \in 0..Len(list)] == IF n = 0 THEN initial ELSE Result(f[<<acc[n - 1], list[n]>>], acc[n - 1])
  IN acc[Len(list)]
\* The new list has an entry only when something is put into it.
Fills(list) ==
  IF list # <<>> THEN MakesList(list, FALSE)
  ELSE colNext <= ColMost.lists /\ colNext' = colNext + 1 /\ UNCHANGED <<colLists, colFixed, colResized>>
Answers(l) ==
  \E f \in [ColValues -> ColValues \cup {"none"}] :
    l \in DOMAIN colLists /\ (Fills(map(colLists[l], f)) \/ Fills(filter(colLists[l], f)))

\* A loop over a list reads it as it goes, up to the length it had; forEach and
\* loops over dictionaries run over a copy.
NoLoop == [of |-> 0, live |-> FALSE, start |-> <<>>, seen |-> <<>>, kept |-> TRUE, over |-> TRUE]
LoopBegin(l, live) ==
  /\ colLoop = NoLoop /\ l \in DOMAIN colLists
  /\ colLoop' = [of |-> l, live |-> live, start |-> colLists[l], seen |-> <<>>, kept |-> TRUE, over |-> FALSE]
EntriesBegin(d) ==
  /\ colLoop = NoLoop
  /\ \E entries \in SetToSeqs({<<k, colDicts[d][k]>> : k \in DOMAIN colDicts[d]}) :
       colLoop' = [of |-> d, live |-> FALSE, start |-> entries, seen |-> <<>>, kept |-> TRUE, over |-> FALSE]
\* Mistake: the length is asked for at every turn.
RoundsRead(loop) == IF loop.live THEN Len(ListOf(loop.of)) ELSE Len(loop.start)
Rounds(loop) == IF loop.live /\ Len(ListOf(loop.of)) < Len(loop.start) THEN Len(ListOf(loop.of)) ELSE Len(loop.start)
LoopTurn ==
  LET i == Len(colLoop.seen) + 1
      now == IF colLoop.live THEN ListOf(colLoop.of) ELSE colLoop.start
  IN /\ ~colLoop.over
     /\ colLoop' = IF i > Rounds(colLoop) THEN [colLoop EXCEPT !.over = TRUE, !.kept = @ /\ IsPrefixOf(colLoop.start, now)]
                   ELSE [colLoop EXCEPT !.seen = Append(@, now[i]), !.kept = @ /\ IsPrefixOf(colLoop.start, now)]
     /\ UNCHANGED <<colKind, colLeft, colDictVars, colLists, colNext, colFixed, colResized, colBagVars>>

UseList ==
  /\ Called("lists") /\ UNCHANGED <<colDictVars, colLoop, colBagVars>>
  /\ \/ \E list \in Literals : MakesList(list, FALSE) \/ \E n \in ColSizes : apply_declared_size(list, n)
     \/ \E l \in 1..colNext - 1 :
          \/ GrowList(l) \/ ShrinkList(l) \/ AssignItem(l) \/ LookAt(l) \/ Answers(l)
          \/ l \in DOMAIN colLists /\ \E n \in ColSizes : apply_declared_size(colLists[l], n)
LoopBegins ==
  /\ \/ Called("lists") /\ \E l \in DOMAIN colLists, live \in BOOLEAN : LoopBegin(l, live)
     \/ Called("dicts") /\ \E d \in DOMAIN colDicts : EntriesBegin(d)
  /\ UNCHANGED <<colDictVars, colLists, colNext, colFixed, colResized, colBagVars>>

-----------------------------------------------------------------------------
(* Sets, queues and string buffers. *)

set_union(s, t) == s \cup t
set_intersect(s, t) ==
  LET probe == IF Cardinality(s) <= Cardinality(t) THEN s ELSE t
      other == IF Cardinality(s) <= Cardinality(t) THEN t ELSE s
  IN {v \in probe : v \in other}
set_diff(s, t) == {v \in s : v \notin t}
NewSet(s) == Len(colSets) < ColMost.sets /\ colSets' = Append(colSets, s)
UseSet ==
  /\ \/ NewSet({})
     \/ \E i \in DOMAIN colSets :
          \/ \E v \in ColValues : colSets' = [colSets EXCEPT ![i] = @ \cup {v}] \/ colSets' = [colSets EXCEPT ![i] = @ \ {v}]
          \/ \E j \in DOMAIN colSets :
               \/ NewSet(set_union(colSets[i], colSets[j])) \/ NewSet(set_intersect(colSets[i], colSets[j]))
               \/ NewSet(set_diff(colSets[i], colSets[j]))
  /\ UNCHANGED <<colQueue, colTaken, colPushed, colBuffer>>

UseQueue ==
  /\ \/ \E v \in ColValues : colQueue' = Append(colQueue, v) /\ colPushed' = Append(colPushed, v) /\ UNCHANGED colTaken
     \/ colQueue # <<>> /\ colQueue' = Tail(colQueue) /\ colTaken' = Append(colTaken, Head(colQueue)) /\ UNCHANGED colPushed
     \/ colQueue' = <<>> /\ colTaken' = <<>> /\ colPushed' = <<>>
  /\ UNCHANGED <<colSets, colBuffer>>

\* The builtins leave a freed buffer alone, the methods start it anew.
Buffer(live, text) == [live |-> live, text |-> text]
UseBuffer ==
  /\ \E v \in ColValues, method \in BOOLEAN :
       \/ (colBuffer.live \/ method) /\ colBuffer' = Buffer(TRUE, Append(colBuffer.text, v))
       \/ (colBuffer.live \/ method) /\ colBuffer' = Buffer(TRUE, <<>>)
       \/ colBuffer' = Buffer(FALSE, <<>>)
  /\ UNCHANGED <<colSets, colQueue, colTaken, colPushed>>
UseBag ==
  /\ Called("bags") /\ UNCHANGED <<colDictVars, colListVars>>
  /\ UseSet \/ UseQueue \/ UseBuffer

ColInit ==
  /\ colKind \in ColKinds /\ colLeft = ColSteps[colKind]
  /\ colDicts = <<>> /\ colGrids = <<>> /\ colLists = NoEntries /\ colNext = 1 /\ colFixed = NoLengths /\ colResized = {} /\ colLoop = NoLoop
  /\ colSets = <<>> /\ colQueue = <<>> /\ colTaken = <<>> /\ colPushed = <<>> /\ colBuffer = Buffer(FALSE, <<>>)
ColIdle == ColInit /\ colKind = "dicts"
ColNext == UseDict \/ UseList \/ LoopBegins \/ LoopTurn \/ UseBag
ColSpec == ColInit /\ [][ColNext]_colVars

(* The types of the variables: handles are given out from 1 on, and dictionaries
   and their grids stand side by side. *)
ColItems == ColValues \cup (Seq(ColLetters) \X ColValues)
ColTypeOK ==
  /\ colKind \in ColKinds /\ colLeft \in Nat
  /\ Len(colDicts) = Len(colGrids)
  /\ \A d \in DOMAIN colDicts : \A key \in DOMAIN colDicts[d] : key \in Seq(ColLetters) /\ colDicts[d][key] \in ColValues
  /\ colNext \in Nat \ {0} /\ DOMAIN colLists \cup DOMAIN colFixed \cup colResized \subseteq 1..colNext - 1
  /\ \A l \in DOMAIN colLists : colLists[l] \in Seq(ColValues)
  /\ \A l \in DOMAIN colFixed : colFixed[l] \in Nat
  /\ colLoop \in [of : Nat, live : BOOLEAN, start : Seq(ColItems), seen : Seq(ColItems), kept : BOOLEAN, over : BOOLEAN]
  /\ colSets \in Seq(SUBSET ColValues)
  /\ colQueue \in Seq(ColValues) /\ colTaken \in Seq(ColValues) /\ colPushed \in Seq(ColValues)
  /\ colBuffer \in [live : BOOLEAN, text : Seq(ColValues)]

-----------------------------------------------------------------------------
\* table_* and dict_* (src/runtime/builtins.cpp): however cells are put, removed,
\* merged and cleared by row, with columns that hold dots and rows whose names
\* begin alike, rows, columns, the columns and the count of a row and every cell
\* are those of a grid.
TablesAreGrids ==
  \A d \in DOMAIN colDicts :
    LET dict == colDicts[d]
        grid == colGrids[d]
        Of(row) == {x[2] : x \in {y \in DOMAIN grid : y[1] = row}}
    IN /\ table_rows(dict) = {x[1] : x \in DOMAIN grid} /\ table_columns(dict) = {x[2] : x \in DOMAIN grid}
       /\ \A row \in ColRows :
            /\ table_row_keys(dict, row) = Of(row) /\ table_count_row(dict, row) = Cardinality(Of(row))
            /\ \A columns \in ColColumns :
                 dict_get_or(dict, Key(row, columns), "none") = dict_get_or(grid, <<row, dict_key(columns)>>, "none")

LoopsSeeTheStart ==
  /\ Len(colLoop.seen) <= Len(colLoop.start)
  /\ colLoop.over /\ colLoop.kept => colLoop.seen = colLoop.start
FixedUntilResized == \A l \in DOMAIN colFixed \ colResized : Len(ListOf(l)) = colFixed[l]
ReduceFindsFiltered ==
  LET some == [x \in ColValues \X ColValues |-> IF Keeps(x[2]) THEN x[2] ELSE "none"]
  IN \A l \in DOMAIN colLists :
       (reduce(colLists[l], some, "") = "") <=> (filter(colLists[l], [v \in ColValues |-> v]) = <<>>)
QueueInOrder == colPushed = colTaken \o colQueue
\* Loops (src/runtime/actions.cpp) end, whatever their body does to what they run
\* over; a loop over a list that only grows meanwhile, a forEach and a loop over
\* a dictionary see each element or entry there was at the start, once.  A fixed
\* array keeps its length and shares it with nothing, unless a builtin is let at
\* it; reduce finds an element exactly where filter keeps one; and a queue hands
\* out what came in, in that order.
CollectionsKeep == LoopsSeeTheStart /\ FixedUntilResized /\ ReduceFindsFiltered /\ QueueInOrder
=============================================================================
