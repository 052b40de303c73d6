------------------------------- MODULE Memory -------------------------------
(* The language heap: raw blocks behind alloc/free and pointer arithmetic, the
   owners heap<T>, shared<T>, weak<T> and buffer<T>, and the statements that
   move, share and drop what the variables of an action hold.  A throw leaves a
   block exactly as its end does.  The counters double_frees, use_after_free
   and leaks_at_reset are only ever reported and are left out. *)
EXTENDS Integers, Sequences, FiniteSets, SequencesExt, Functions

CONSTANTS MemNames,  \* variables of one action
          MemMaxId,  \* bound: handles made in one run
          MemMaxLen, \* bound: cells of a block or a buffer
          MemDepth   \* bound: blocks open at once

ASSUME MemAssumption ==
  MemNames # {} /\ IsFiniteSet(MemNames) /\ MemMaxId \in Nat /\ MemMaxLen \in Nat \ {0} /\ MemDepth \in Nat \ {0}

VARIABLES mem,      \* the tables of the handle registry
          memEnv,   \* what each variable holds
          memLog,   \* insertLog: names in the order they were bound
          memMarks  \* length of the log at the start of each open block

memVars == <<mem, memEnv, memLog, memMarks>>

Unbound == [k |-> "unbound", id |-> 0]
NullVal == [k |-> "null", id |-> 0]
Handle(k, id) == [k |-> k, id |-> id]
IsOwner(h) == h.k \in {"own", "shared", "buf", "weak"}
Zero == 0
One == 1

EmptyMem == [raw |-> <<>>, vecs |-> <<>>, own |-> {}, shared |-> <<>>, weak |-> <<>>,
             buf |-> <<>>, next |-> 1, allocs |-> 0, frees |-> 0, views |-> 0]

Without(f, k) == Restrict(f, DOMAIN f \ {k})
With(f, k, v) == [i \in DOMAIN f \cup {k} |-> IF i = k THEN v ELSE f[i]]
Freed(m, n) == [m EXCEPT !.frees = @ + n]
Fresh(m) == [m EXCEPT !.next = @ + 1]
Made(m) == [Fresh(m) EXCEPT !.allocs = @ + 1]

(* What mem_stats and mem_alive report as live. *)
LiveCount(m) ==
  Cardinality(DOMAIN m.raw) + Cardinality(m.own) + Cardinality(DOMAIN m.buf)
    + Cardinality({s \in DOMAIN m.shared : m.shared[s].strong > 0})

-----------------------------------------------------------------------------
(* Reference counts. *)

Prune(m, s) ==
  IF s \in DOMAIN m.shared /\ m.shared[s].strong = 0 /\ m.shared[s].weak = 0
  THEN [m EXCEPT !.shared = Without(@, s)] ELSE m

RetainNothing(m, h) == m
Retain(m, h) ==
  IF h.k = "shared" /\ h.id \in DOMAIN m.shared
  THEN [m EXCEPT !.shared[h.id].strong = @ + 1] ELSE m

ReleaseOwn(m, id) == IF id \in m.own THEN Freed([m EXCEPT !.own = @ \ {id}], 1) ELSE m
ReleaseBufBlindly(m, id) == Freed([m EXCEPT !.buf = Without(@, id)], 1)
ReleaseBuf(m, id) == IF id \in DOMAIN m.buf THEN Freed([m EXCEPT !.buf = Without(@, id)], 1) ELSE m

ReleaseShared(m, id) ==
  IF id \notin DOMAIN m.shared THEN m
  ELSE LET left == IF m.shared[id].strong > 0 THEN m.shared[id].strong - 1 ELSE 0
           counted == [m EXCEPT !.shared[id].strong = left]
       IN  Prune(IF left = 0 THEN Freed(counted, 1) ELSE counted, id)

ReleaseWeak(m, id) ==
  IF id \notin DOMAIN m.weak THEN m
  ELSE LET s == m.weak[id]
           gone == [m EXCEPT !.weak = Without(@, id)]
       IN  IF s \in DOMAIN m.shared
           THEN Prune([gone EXCEPT !.shared[s].weak = IF @ > 0 THEN @ - 1 ELSE 0], s)
           ELSE gone

Release(m, h) ==
  CASE h.k = "own" -> ReleaseOwn(m, h.id)
    [] h.k = "shared" -> ReleaseShared(m, h.id)
    [] h.k = "weak" -> ReleaseWeak(m, h.id)
    [] h.k = "buf" -> ReleaseBuf(m, h.id)
    [] OTHER -> m

-----------------------------------------------------------------------------
(* Raw blocks: a pointer is an index into cells that its views share. *)

Cells(m, h) == m.vecs[m.raw[h.id].vec]
At(m, h) == m.raw[h.id].at
Usable(m, h) == h.k = "ptr" /\ h.id \in DOMAIN m.raw
CanRead(m, h) == Usable(m, h) /\ At(m, h) < Len(Cells(m, h))

NewBlock(m, cells) ==
  [Fresh(m) EXCEPT !.raw = With(@, m.next, [vec |-> m.next, at |-> 0]),
                   !.vecs = With(@, m.next, cells)]
Put(m, h, cells) == [m EXCEPT !.vecs[m.raw[h.id].vec] = cells]

Write(m, h, v) == Put(m, h, [Cells(m, h) EXCEPT ![At(m, h) + 1] = v])
Fill(m, h, n, v) ==
  Put(m, h, [i \in DOMAIN Cells(m, h) |->
               IF i > At(m, h) /\ i <= At(m, h) + n THEN v ELSE Cells(m, h)[i]])

(* mem_copy goes cell by cell, so that an overlap reads what it has written. *)
CopyCells(m, d, s, n) ==
  LET to[k \in 0..n] ==
        LET from == IF m.raw[d.id].vec = m.raw[s.id].vec THEN to[k - 1] ELSE Cells(m, s) IN
        IF k = 0 THEN Cells(m, d)
        ELSE IF At(m, d) + k <= Len(to[k - 1]) /\ At(m, s) + k <= Len(from)
             THEN [to[k - 1] EXCEPT ![At(m, d) + k] = from[At(m, s) + k]] ELSE to[k - 1]
  IN  Put(m, d, to[n])

(* mem_move reads everything first. *)
MoveCells(m, d, s, n) ==
  LET from == Cells(m, s)
  IN  Put(m, d, [i \in DOMAIN Cells(m, d) |->
        LET k == i - At(m, d) IN
        IF k >= 1 /\ k <= n /\ At(m, s) + k <= Len(from) THEN from[At(m, s) + k] ELSE Cells(m, d)[i]])

Resized(cells, n) == [i \in 1..n |-> IF i <= Len(cells) THEN cells[i] ELSE Zero]

-----------------------------------------------------------------------------
(* Binding a value: the statement releases what the name held before. *)

Bind(env, m, x, h) ==
  /\ mem' = IF IsOwner(env[x]) THEN Release(m, env[x]) ELSE m
  /\ memEnv' = [env EXCEPT ![x] = h]
  /\ memLog' = IF env[x] = Unbound THEN Append(memLog, x) ELSE memLog
  /\ UNCHANGED memMarks

Becomes(m) == mem' = m /\ UNCHANGED <<memEnv, memLog, memMarks>>
Room == mem.next <= MemMaxId

Alloc(x, n) ==
  LET count == IF n = 0 THEN 1 ELSE n IN
  /\ Room
  /\ Bind(memEnv, [NewBlock(mem, [i \in 1..count |-> Zero]) EXCEPT !.allocs = @ + 1],
          x, Handle("ptr", mem.next))

NewHeap(x) ==
  Room /\ Bind(memEnv, [Made(mem) EXCEPT !.own = @ \cup {mem.next}], x, Handle("own", mem.next))

NewShared(x) ==
  /\ Room
  /\ Bind(memEnv, [Made(mem) EXCEPT !.shared = With(@, mem.next, [strong |-> 1, weak |-> 0])],
          x, Handle("shared", mem.next))

NewWeak(x, y) ==
  /\ Room /\ memEnv[y].k = "shared" /\ memEnv[y].id \in DOMAIN mem.shared
  /\ Bind(memEnv, [Fresh(mem) EXCEPT !.shared[memEnv[y].id].weak = @ + 1,
                                     !.weak = With(@, mem.next, memEnv[y].id)],
          x, Handle("weak", mem.next))

NewBuffer(x, n) ==
  /\ Room
  /\ Bind(memEnv, [Made(mem) EXCEPT !.buf = With(@, mem.next, [i \in 1..n |-> Zero])],
          x, Handle("buf", mem.next))

(* let x = y and x = y: a heap<T> moves, a shared<T> is shared, all else aliases. *)
CopyIdent(x, y) ==
  LET h == memEnv[y] IN
  /\ h # Unbound
  /\ Bind(IF h.k = "own" THEN [memEnv EXCEPT ![y] = NullVal] ELSE memEnv, Retain(mem, h), x, h)

PtrAdd(x, y, n) ==
  /\ Room /\ Usable(mem, memEnv[y])
  /\ Bind(memEnv, [Fresh(mem) EXCEPT !.views = @ + 1,
                     !.raw = With(@, mem.next, [mem.raw[memEnv[y].id] EXCEPT !.at = @ + n])],
          x, Handle("ptr", mem.next))

BufferPtr(x, y) ==
  /\ Room /\ memEnv[y].k = "buf" /\ memEnv[y].id \in DOMAIN mem.buf
  /\ Bind(memEnv, [NewBlock(mem, mem.buf[memEnv[y].id]) EXCEPT !.views = @ + 1],
          x, Handle("ptr", mem.next))

\* Takes the cells away from the views as well.
ForgetForAll(m, id) ==
  [m EXCEPT !.raw = Without(@, id), !.vecs = Without(@, m.raw[id].vec)]

(* The cells live as long as a pointer or a view shares them. *)
Forget(m, id) ==
  LET left == Without(m.raw, id) IN
  [m EXCEPT !.raw = left, !.vecs = Restrict(@, {left[p].vec : p \in DOMAIN left})]
Free(x) == Usable(mem, memEnv[x]) /\ Becomes(Freed(Forget(mem, memEnv[x].id), 1))

Realloc(x, n) == Usable(mem, memEnv[x]) /\ Becomes(Put(mem, memEnv[x], Resized(Cells(mem, memEnv[x]), n)))
SetCell(x) == CanRead(mem, memEnv[x]) /\ Becomes(Write(mem, memEnv[x], One))
FillCells(x, n, v) == Usable(mem, memEnv[x]) /\ Becomes(Fill(mem, memEnv[x], n, v))
Transfer(x, y, n) ==
  /\ Usable(mem, memEnv[x]) /\ Usable(mem, memEnv[y])
  /\ \/ Becomes(CopyCells(mem, memEnv[x], memEnv[y], n))
     \/ Becomes(MoveCells(mem, memEnv[x], memEnv[y], n))

BufferMethod(x, n) ==
  LET id == memEnv[x].id
      Data(d) == Becomes([mem EXCEPT !.buf[id] = d]) IN
  /\ memEnv[x].k = "buf" /\ id \in DOMAIN mem.buf
  /\ \/ Data(<<>>)
     \/ Data(Resized(mem.buf[id], n))
     \/ Len(mem.buf[id]) < MemMaxLen /\ Data(Append(mem.buf[id], One))
     \/ mem.buf[id] # <<>> /\ Data(Front(mem.buf[id]))

-----------------------------------------------------------------------------
(* Blocks and runs. *)

EnterBlock ==
  /\ memMarks # <<>> /\ Len(memMarks) < MemDepth
  /\ memMarks' = Append(memMarks, Len(memLog))
  /\ UNCHANGED <<mem, memEnv, memLog>>

(* release_block_scope: owners bound since the mark go, one after the other, and
   all other names stay.  (A logged name is bound: only this loop unbinds one.) *)
Unwinding[i \in Last(memMarks)..Len(memLog)] ==
  LET before == Unwinding[i - 1]
      x == memLog[i]
  IN  IF i = Last(memMarks) THEN [m |-> mem, env |-> memEnv, log |-> SubSeq(memLog, 1, i)]
      ELSE IF IsOwner(before.env[x])
      THEN [before EXCEPT !.m = Release(@, before.env[x]), !.env[x] = Unbound]
      ELSE [before EXCEPT !.log = Append(@, x)]
ExitBlock ==
  /\ memMarks # <<>>
  /\ LET end == Unwinding[Len(memLog)] IN mem' = end.m /\ memEnv' = end.env /\ memLog' = end.log
  /\ memMarks' = Front(memMarks)

(* The next run starts from empty tables and keeps numbering. *)
NextRun ==
  /\ memMarks = <<>>
  /\ mem' = [EmptyMem EXCEPT !.next = mem.next, !.allocs = mem.allocs, !.frees = mem.frees,
                             !.views = mem.frees - mem.allocs]
  /\ memEnv' = [x \in MemNames |-> Unbound]
  /\ memLog' = <<>> /\ memMarks' = <<0>>

ResetStats == Becomes([mem EXCEPT !.allocs = 0, !.frees = 0, !.views = LiveCount(mem)])

MemInit ==
  /\ mem = EmptyMem /\ memEnv = [x \in MemNames |-> Unbound]
  /\ memLog = <<>> /\ memMarks = <<0>>

MemNext ==
  \/ EnterBlock \/ ExitBlock \/ NextRun \/ ResetStats
  \/ \E x \in MemNames :
       /\ memMarks # <<>>
       /\ \/ NewHeap(x) \/ NewShared(x) \/ Free(x) \/ SetCell(x)
          \/ \E n \in 0..MemMaxLen :
               Alloc(x, n) \/ NewBuffer(x, n) \/ Realloc(x, n) \/ BufferMethod(x, n)
          \/ \E n \in 1..MemMaxLen, v \in {Zero, One} : FillCells(x, n, v)
          \/ \E y \in MemNames :
               \/ NewWeak(x, y) \/ CopyIdent(x, y) \/ BufferPtr(x, y) \/ PtrAdd(x, y, 1)
               \/ Transfer(x, y, MemMaxLen)

MemSpec == MemInit /\ [][MemNext]_memVars

-----------------------------------------------------------------------------
MemTypeOK ==
  /\ DOMAIN mem.shared \cup DOMAIN mem.raw \cup mem.own \subseteq 1..MemMaxId
  /\ \A p \in DOMAIN mem.raw : mem.raw[p].vec \in DOMAIN mem.vecs
  /\ \A i \in DOMAIN memMarks : memMarks[i] \in 0..Len(memLog)

Holders(h) == {x \in MemNames : memEnv[x] = h}

(* Whatever order of moves, shares, rebindings and block ends, a heap<T> that
   lives has exactly one variable, a shared<T> counts exactly the variables
   that hold it and lives as long as there is one, and its weak count is the
   number of weak handles onto it. *)
OwnersCounted ==
  /\ \A id \in mem.own : Cardinality(Holders(Handle("own", id))) = 1
  /\ \A id \in DOMAIN mem.shared :
       /\ mem.shared[id].strong = Cardinality(Holders(Handle("shared", id)))
       /\ mem.shared[id].weak = Cardinality({w \in DOMAIN mem.weak : mem.weak[w] = id})
       /\ mem.shared[id].strong + mem.shared[id].weak > 0
  /\ \A x \in MemNames :
       /\ memEnv[x].k = "own" => memEnv[x].id \in mem.own
       /\ memEnv[x].k = "shared" => memEnv[x].id \in DOMAIN mem.shared

(* mem_stats adds up: what is alive was allocated or made as a view of
   something, and has been freed exactly once when it is gone. *)
StatsConserved == LiveCount(mem) + mem.frees = mem.allocs + mem.views
=============================================================================
